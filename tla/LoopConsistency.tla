--------------------------- MODULE LoopConsistency ---------------------------
(***************************************************************************)
(* LoopConsistencyChecker (src/loop/loop_consistency.cpp) between the      *)
(* verification of a loop and the gates of LoopCommit: a proposal must     *)
(* continue a chain of earlier proposals (temporal consistency) and close  *)
(* a short cycle with the newest of them (cycle consistency).              *)
(*                                                                         *)
(* A proposal measures the current keyframe in the frame of a historical   *)
(* one.  Its offset is what that measurement differs by from what the pose *)
(* graph says, along one axis, as an integer; the error of a cycle through *)
(* two loops is the absolute difference of their offsets.  An optimisation *)
(* moves poses, and offsets with them.                                     *)
(* Both checks are switched on, as in config/fr_slam_livox.yaml.           *)
(***************************************************************************)
EXTENDS Integers, Sequences

CONSTANTS
  CurrentGap,     \* temporal_max_current_gap, as the constructor leaves it
  HistoricalGap,  \* temporal_max_historical_gap
  MinProposals,   \* temporal_min_consistent_proposals
  MaxError,       \* max_cycle_translation_error
  MaxHistory,     \* max_history_size
  Historical,     \* ids of the historical keyframes
  Offsets,        \* offsets of proposals
  MaxKeyframes    \* bound: keyframes of a session

\* That the history has room for the supporters is true of the defaults (20 and 3)
\* but not enforced: the constructor only replaces a MaxHistory of 0.
ASSUME ConsistencyAssumption ==
  /\ CurrentGap \in Nat /\ CurrentGap >= 1 /\ HistoricalGap \in Nat /\ HistoricalGap >= 1
  /\ MinProposals \in Nat /\ MinProposals >= 2 /\ MaxError \in Nat
  /\ MaxHistory \in Nat /\ MaxHistory >= MinProposals - 1
  /\ Historical \subseteq Nat /\ Offsets \subseteq Int /\ MaxKeyframes \in Nat

VARIABLES
  newest,   \* the newest keyframe
  history,  \* history_; links, a ghost: of how many proposals, each in agreement with
            \* the one before when it was checked, a proposal is the last
  accepted, \* history: the proposal that was accepted just now, if one was
  steady    \* history: proposals in a row that continue each other, and none accepted

vars == <<newest, history, accepted, steady>>

Gap(a, b) == IF a < b THEN b - a ELSE a - b

NoRun == [last |-> {}, direction |-> 0, length |-> 0]

Init == newest = 0 /\ history = <<>> /\ accepted = {} /\ steady = NoRun

-----------------------------------------------------------------------------
(* Check *)

Neighbour(previous, current) ==
  /\ previous.current < current.current
  /\ current.current - previous.current <= CurrentGap
  /\ Gap(previous.historical, current.historical) <= HistoricalGap

Direction(previous, current) ==
  IF previous.historical < current.historical THEN 1
  ELSE IF previous.historical > current.historical THEN -1 ELSE 0

Compatible(a, b) == a = 0 \/ b = 0 \/ a = b

\* An earlier proposal joins the chain at its older end if it is a neighbour of
\* that end and the historical side goes on in the same direction.
Join(previous, chain) ==
  LET step == Direction(previous, chain.older)
  IN IF Neighbour(previous, chain.older) /\ Compatible(chain.direction, step)
     THEN [older |-> previous,
           direction |-> IF chain.direction = 0 THEN step ELSE chain.direction,
           support |-> Append(chain.support, previous)]
     ELSE chain

\* What becomes of the chain that begins with p, over the newest proposals first.
Chain(p) ==
  LET chain[k \in 0 .. Len(history)] ==
        IF k = 0 THEN [older |-> p, direction |-> 0, support |-> <<>>]
        ELSE Join(history[Len(history) - k + 1], chain[k - 1])
  IN chain

\* The support of a proposal, its cycle reference first.
Support(p) == Chain(p)[Len(history)].support

\* EvaluateCycle
Agree(p, q) == Gap(p.offset, q.offset) <= MaxError

CycleConsistent(p, support) == support # <<>> /\ Agree(support[1], p)

TemporalConsistent(support) == Len(support) + 1 >= MinProposals

\* Mutant: a proposal whose cycle does not close is stored all the same.
StoredAlways(p, support) == TRUE

\* Mutant: a proposal without support is not stored.
StoredIfConsistent(p, support) == CycleConsistent(p, support)

\* A seed is stored, and what agrees with its reference.
Stored(p, support) == support = <<>> \/ CycleConsistent(p, support)

Linked(p, support) ==
  IF CycleConsistent(p, support) THEN [p EXCEPT !.links = support[1].links + 1] ELSE p

Newest(q) == IF Len(q) > MaxHistory THEN Tail(q) ELSE q

Checked(p, support) ==
  IF Stored(p, support) THEN Newest(Append(history, Linked(p, support))) ELSE history

-----------------------------------------------------------------------------
(* The caller *)

\* A run of proposals, each a neighbour of the last one that agrees with it and
\* goes on in the same direction.
Continues(p) ==
  \E last \in steady.last :
    Neighbour(last, p) /\ Agree(last, p) /\ Compatible(steady.direction, Direction(last, p))

Run(p) ==
  IF Continues(p)
  THEN LET last == CHOOSE q \in steady.last : TRUE
       IN [last |-> {p}, length |-> steady.length + 1,
           direction |-> IF steady.direction = 0 THEN Direction(last, p) ELSE steady.direction]
  ELSE [last |-> {p}, direction |-> 0, length |-> 1]

\* No candidate, or none that the verification accepts.
NoProposal ==
  /\ newest < MaxKeyframes /\ newest' = newest + 1
  /\ accepted' = {}
  /\ UNCHANGED <<history, steady>>

\* The best verified candidate of the next keyframe.
Candidates == [current : {newest + 1}, historical : Historical, offset : Offsets, links : {1}]

\* A seed that waits for others, or a proposal that is refused.
Wait(p, support) ==
  /\ newest < MaxKeyframes /\ newest' = newest + 1
  /\ ~(TemporalConsistent(support) /\ CycleConsistent(p, support))
  /\ history' = Checked(p, support)
  /\ accepted' = {} /\ steady' = Run(p)

\* An accepted proposal stays in the history, whatever the gates behind decide:
\* they leave the poses as they are, or the optimisation moves them.
Accept(p, support) ==
  /\ newest < MaxKeyframes /\ newest' = newest + 1
  /\ TemporalConsistent(support) /\ CycleConsistent(p, support)
  /\ accepted' = {Linked(p, support)} /\ steady' = NoRun
  /\ \/ history' = Checked(p, support)
     \/ \E moved \in [DOMAIN Checked(p, support) -> Offsets] :
          history' = [i \in DOMAIN moved |-> [Checked(p, support)[i] EXCEPT !.offset = moved[i]]]

Reset ==
  /\ newest' = 0 /\ history' = <<>> /\ accepted' = {} /\ steady' = NoRun

Next ==
  \/ NoProposal
  \/ \E p \in Candidates : LET support == Support(p) IN Wait(p, support) \/ Accept(p, support)
  \/ Reset

Spec == Init /\ [][Next]_vars

-----------------------------------------------------------------------------
(* Properties *)

\* loop_consistency.hpp, temporal_min_consistent_proposals: "two previous
\* supporting proposals + current proposal". The checker compares an accepted
\* loop with its reference only, and counts its supporters without comparing
\* them; still, it is the last of three proposals of which each agreed with the
\* one before when that was checked, or of two if MinProposals is 2. (With more
\* than three it need not be the last of so many.)
AcceptedRestsOnThree ==
  \A p \in accepted : p.links >= (IF MinProposals > 3 THEN 3 ELSE MinProposals)

\* A false seed can delay a true loop and not keep it out: of proposals that go
\* on continuing each other, one is accepted before there are more than
\* CurrentGap + MinProposals - 1, whatever is in the history.
SteadyLoopIsAccepted == steady.length < CurrentGap + MinProposals
=============================================================================
