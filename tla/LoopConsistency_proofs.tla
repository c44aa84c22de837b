----------------------- MODULE LoopConsistency_proofs -----------------------
(***************************************************************************)
(* Proofs about LoopConsistency, for every gap, every size of the history  *)
(* and every number of proposals a loop must rest on.                      *)
(*                                                                         *)
(* Check walks the history from its newest proposal to its oldest one; the *)
(* lemmas about Chain are proved by induction over that walk.              *)
(***************************************************************************)
EXTENDS LoopConsistency, SequenceTheorems, WellFoundedInduction, TLAPS

\* What the assumption says of one constant at a time.
LEMMA Parameters ==
  /\ CurrentGap \in Nat /\ CurrentGap >= 1 /\ HistoricalGap \in Nat
  /\ MinProposals \in Nat /\ MinProposals >= 2 /\ MaxError \in Nat
  /\ MaxHistory \in Nat /\ MaxHistory >= MinProposals - 1
  /\ \A h \in Historical : h \in Nat
  /\ \A o \in Offsets : o \in Int
BY ConsistencyAssumption

-----------------------------------------------------------------------------
(* Induction over sets of numbers *)

LessThan == {pair \in Nat \X Nat : pair[1] < pair[2]}

\* A set of numbers with 0 and with the successor of each of its elements is Nat.
LEMMA SetInduction ==
  ASSUME NEW S \in SUBSET Nat, 0 \in S, \A n \in S : n + 1 \in S
  PROVE  S = Nat
<1> SUFFICES ASSUME Nat \ S # {} PROVE FALSE
  OBVIOUS
<1>1. IsWellFoundedOn(LessThan, Nat)
  BY NatLessThanWellFounded DEF OpToRel, LessThan
<1>2. PICK x \in Nat \ S : \A y \in Nat \ S : ~ (<<y, x>> \in LessThan)
  BY <1>1, WFMin
<1>3. x # 0 /\ x - 1 \in Nat /\ x - 1 < x /\ (x - 1) + 1 = x
  OBVIOUS
<1>4. <<x - 1, x>> \in LessThan
  <2>1. <<x - 1, x>> \in Nat \X Nat /\ <<x - 1, x>>[1] = x - 1 /\ <<x - 1, x>>[2] = x
    BY <1>3
  <2> QED BY <1>3, <2>1 DEF LessThan
<1>5. x - 1 \in S
  BY <1>2, <1>3, <1>4
<1> QED BY <1>3, <1>5

-----------------------------------------------------------------------------
(* The chain *)

Seed(p) == [older |-> p, direction |-> 0, support |-> <<>>]

\* The recursive function that walks n proposals of the history exists.
LEMMA ChainExists ==
  ASSUME NEW p, NEW m \in Nat
  PROVE  \E c : c = [k \in 0 .. m |-> IF k = 0 THEN Seed(p)
                                      ELSE Join(history[Len(history) - k + 1], c[k - 1])]
<1> DEFINE Step(c, k) == IF k = 0 THEN Seed(p) ELSE Join(history[Len(history) - k + 1], c[k - 1])
           S == {n \in Nat : \E c : c = [k \in 0 .. n |-> Step(c, k)]}
<1>1. 0 \in S
  <2> DEFINE c == [k \in 0 .. 0 |-> Seed(p)]
  <2>1. c = [k \in 0 .. 0 |-> Step(c, k)]
    OBVIOUS
  <2> QED BY <2>1
<1>2. ASSUME NEW n \in S PROVE n + 1 \in S
  <2>1. PICK c : c = [k \in 0 .. n |-> Step(c, k)]
    OBVIOUS
  <2> DEFINE d == [k \in 0 .. n + 1 |-> IF k = n + 1 THEN Step(c, k) ELSE c[k]]
  <2>2. ASSUME NEW k \in 0 .. n + 1 PROVE d[k] = Step(d, k)
    <3>1. n \in Nat OBVIOUS
    <3>2. k # 0 => k - 1 \in 0 .. n /\ d[k - 1] = c[k - 1]
      BY <3>1
    <3>3. Step(d, k) = Step(c, k)
      BY <3>2
    <3>4. d[k] = Step(c, k)
      <4>1. CASE k = n + 1 BY <4>1
      <4>2. CASE k # n + 1
        <5>1. k \in 0 .. n BY <3>1, <4>2
        <5>2. c[k] = Step(c, k) BY <2>1, <5>1
        <5> QED BY <4>2, <5>2
      <4> QED BY <4>1, <4>2
    <3> QED BY <3>3, <3>4
  <2> HIDE DEF Step
  <2>3. d = [k \in 0 .. n + 1 |-> Step(d, k)]
    <3> DEFINE e == [k \in 0 .. n + 1 |-> Step(d, k)]
    <3>1. \A k \in 0 .. n + 1 : d[k] = e[k] BY <2>2
    <3> QED BY <3>1
  <2> HIDE DEF d
  <2>4. \E e : e = [k \in 0 .. n + 1 |-> Step(e, k)]
    BY <2>3, Zenon
  <2>5. n + 1 \in Nat
    OBVIOUS
  <2> QED BY <2>4, <2>5, Zenon
<1> HIDE DEF Step
<1>3. S = Nat
  <2>1. S \in SUBSET Nat OBVIOUS
  <2> HIDE DEF S
  <2> QED BY <1>1, <1>2, <2>1, SetInduction
<1> QED BY <1>3 DEF Step

\* The chain begins with the proposal, and each proposal looked at joins it or not.
LEMMA ChainSteps ==
  ASSUME NEW p, Len(history) \in Nat
  PROVE  /\ Chain(p)[0] = Seed(p)
         /\ \A k \in 1 .. Len(history) :
              Chain(p)[k] = Join(history[Len(history) - k + 1], Chain(p)[k - 1])
<1> DEFINE L == Len(history)
           Body(c) == [k \in 0 .. L |-> IF k = 0 THEN Seed(p) ELSE Join(history[L - k + 1], c[k - 1])]
<1>1. \E c : c = Body(c)
  BY ChainExists
<1>2. Chain(p) = CHOOSE c : c = Body(c)
  BY DEF Chain, Seed
<1> DEFINE c == Chain(p)
<1> HIDE DEF Body
<1>3. c = Body(c)
  BY <1>1, <1>2
<1> HIDE DEF c
<1>4. c = [k \in 0 .. L |-> IF k = 0 THEN Seed(p) ELSE Join(history[L - k + 1], c[k - 1])]
  BY <1>3 DEF Body
<1>5. c[0] = Seed(p)
  BY <1>4
<1>6. \A k \in 1 .. L : c[k] = Join(history[L - k + 1], c[k - 1])
  BY <1>4
<1> QED BY <1>5, <1>6 DEF c

-----------------------------------------------------------------------------
(* Types *)

Proposal == [current : Nat, historical : Nat, offset : Int, links : Nat]

TypesInv ==
  /\ newest \in Nat
  /\ history \in Seq(Proposal)
  /\ \A i \in 1 .. Len(history) : history[i].current <= newest
  /\ accepted \subseteq Proposal
  /\ steady \in [last : SUBSET Proposal, direction : -1 .. 1, length : Nat]

LEMMA CandidateTypes ==
  ASSUME newest \in Nat, NEW p \in Candidates
  PROVE  p \in Proposal /\ p.current = newest + 1 /\ p.links = 1
BY Parameters DEF Candidates, Proposal

\* What a step of the walk does to the chain.
JoinedBy(previous, chain, next) ==
  /\ \/ next = chain
     \/ /\ Neighbour(previous, chain.older)
        /\ next.older = previous
        /\ next.direction \in {chain.direction, Direction(previous, chain.older)}
        /\ next.support = Append(chain.support, previous)
  /\ chain.direction = 0 /\ Neighbour(previous, chain.older)
       => next.support = Append(chain.support, previous)

LEMMA JoinJoins ==
  ASSUME NEW previous, NEW chain
  PROVE  JoinedBy(previous, chain, Join(previous, chain))
BY DEF Join, JoinedBy, Compatible

-----------------------------------------------------------------------------
(* What the support of a proposal is: its cycle reference is a neighbour of  *)
(* the proposal, its second supporter is an older neighbour of the first one, *)
(* and there is a support if there is any neighbour.                          *)

\* The j-th proposal is the reference of p, and a second supporter came before it.
Reference(chain, p, first, j) ==
  /\ chain.support[1] = history[j] /\ Neighbour(history[j], p)
  /\ Len(chain.support) = 1 => chain.older = history[j]
  /\ Len(chain.support) >= 2 =>
       \E i \in first .. j - 1 :
         chain.support[2] = history[i] /\ Neighbour(history[i], history[j])

Walked(chain, p, k) ==
  LET first == Len(history) - k + 1
  IN /\ chain.support \in Seq(Proposal)
     /\ chain.support = <<>> =>
          /\ chain.older = p /\ chain.direction = 0
          /\ \A j \in first .. Len(history) : ~Neighbour(history[j], p)
     /\ chain.support # <<>> =>
          \E j \in first .. Len(history) : Reference(chain, p, first, j)

LEMMA WalkOn ==
  ASSUME history \in Seq(Proposal), NEW p, NEW n \in 1 .. Len(history), NEW k \in Nat,
         k = Len(history) - n, NEW chain, NEW next, JoinedBy(history[n], chain, next),
         Walked(chain, p, k)
  PROVE  Walked(next, p, k + 1)
<1> DEFINE L == Len(history)
<1>1. L \in Nat /\ n \in 1 .. L
  OBVIOUS
<1>2. L - k + 1 = n + 1 /\ L - (k + 1) + 1 = n
  BY <1>1
<1>3. history[n] \in Proposal
  BY <1>1
<1>4. chain.support \in Seq(Proposal)
  BY DEF Walked
<1> HIDE DEF L
<1>0. /\ Walked(chain, p, k) <=>
           /\ chain.support \in Seq(Proposal)
           /\ chain.support = <<>> =>
                /\ chain.older = p /\ chain.direction = 0
                /\ \A j \in n + 1 .. L : ~Neighbour(history[j], p)
           /\ chain.support # <<>> => \E j \in n + 1 .. L : Reference(chain, p, n + 1, j)
      /\ Walked(next, p, k + 1) <=>
           /\ next.support \in Seq(Proposal)
           /\ next.support = <<>> =>
                /\ next.older = p /\ next.direction = 0
                /\ \A j \in n .. L : ~Neighbour(history[j], p)
           /\ next.support # <<>> => \E j \in n .. L : Reference(next, p, n, j)
  BY <1>2, Zenon DEF Walked, L
<1>5. CASE next = chain /\ chain.support = <<>>
  <2>1. chain.older = p /\ chain.direction = 0
        /\ \A j \in n + 1 .. L : ~Neighbour(history[j], p)
    BY <1>0, <1>5
  <2>2. ~Neighbour(history[n], p)
    <3> SUFFICES ASSUME Neighbour(history[n], p) PROVE FALSE
      OBVIOUS
    <3>1. next.support = Append(chain.support, history[n])
      BY <2>1 DEF JoinedBy
    <3>2. Len(Append(chain.support, history[n])) = Len(chain.support) + 1
      BY <1>3, <1>4
    <3> QED BY <1>4, <1>5, <3>1, <3>2
  <2>3. \A j \in n .. L : j = n \/ j \in n + 1 .. L
    BY <1>1
  <2>4. \A j \in n .. L : ~Neighbour(history[j], p)
    BY <2>1, <2>2, <2>3
  <2> QED BY <1>0, <1>4, <1>5, <2>1, <2>4
<1>6. CASE next = chain /\ chain.support # <<>>
  <2>1. PICK j \in n + 1 .. L : Reference(chain, p, n + 1, j)
    BY <1>0, <1>6
  <2>2. j \in n .. L /\ \A i \in n + 1 .. j - 1 : i \in n .. j - 1
    BY <1>1
  <2>3. Reference(chain, p, n, j)
    BY <2>1, <2>2 DEF Reference
  <2> QED BY <1>0, <1>4, <1>6, <2>2, <2>3
<1>7. CASE next # chain
  <2>1. /\ Neighbour(history[n], chain.older)
        /\ next.older = history[n]
        /\ next.support = Append(chain.support, history[n])
    BY <1>7 DEF JoinedBy
  <2>2. /\ next.support \in Seq(Proposal)
        /\ Len(next.support) = Len(chain.support) + 1
        /\ next.support[Len(chain.support) + 1] = history[n]
        /\ \A i \in 1 .. Len(chain.support) : next.support[i] = chain.support[i]
    BY <1>3, <1>4, <2>1
  <2>3. CASE chain.support = <<>>
    <3>1. chain.older = p
      BY <1>0, <2>3
    <3>2. Len(next.support) = 1 /\ next.support[1] = history[n] /\ next.support # <<>>
      BY <2>2, <2>3
    <3>3. n \in n .. L
      BY <1>1
    <3>4. Reference(next, p, n, n)
      BY <2>1, <3>1, <3>2 DEF Reference
    <3> QED BY <1>0, <2>2, <3>2, <3>3, <3>4
  <2>4. CASE chain.support # <<>>
    <3>1. PICK j \in n + 1 .. L : Reference(chain, p, n + 1, j)
      BY <1>0, <2>4
    <3>2. Len(chain.support) \in Nat /\ Len(chain.support) >= 1
      BY <1>4, <2>4
    <3>3. /\ next.support[1] = history[j] /\ Len(next.support) >= 2
          /\ next.support # <<>> /\ Neighbour(history[j], p)
      BY <2>2, <3>1, <3>2 DEF Reference
    <3>4. j \in n .. L /\ n \in n .. j - 1 /\ \A i \in n + 1 .. j - 1 : i \in n .. j - 1
      BY <1>1, <3>1
    <3>5. \E i \in n .. j - 1 :
            next.support[2] = history[i] /\ Neighbour(history[i], history[j])
      <4>1. CASE Len(chain.support) = 1
        <5>1. next.support[2] = history[n] /\ chain.older = history[j]
          BY <2>2, <3>1, <4>1 DEF Reference
        <5> QED BY <2>1, <3>4, <5>1
      <4>2. CASE Len(chain.support) >= 2
        <5>1. PICK i \in n + 1 .. j - 1 :
                chain.support[2] = history[i] /\ Neighbour(history[i], history[j])
          BY <3>1, <4>2 DEF Reference
        <5>2. next.support[2] = chain.support[2]
          BY <2>2, <3>2, <4>2
        <5> QED BY <3>4, <5>1, <5>2
      <4>3. Len(chain.support) = 1 \/ Len(chain.support) >= 2
        <5> DEFINE m == Len(chain.support)
        <5>1. m \in Nat /\ m >= 1
          BY <3>2
        <5> HIDE DEF m
        <5>2. m = 1 \/ m >= 2
          BY <5>1
        <5> QED BY <5>2 DEF m
      <4> QED BY ONLY <4>1, <4>2, <4>3
    <3>6. ~(Len(next.support) = 1)
      BY <2>2, <3>2
    <3>7. Reference(next, p, n, j)
      BY <3>3, <3>5, <3>6 DEF Reference
    <3> QED BY <1>0, <2>2, <3>3, <3>4, <3>7
  <2> QED BY <2>3, <2>4
<1> QED BY <1>5, <1>6, <1>7

LEMMA ChainIsWalked ==
  ASSUME history \in Seq(Proposal), NEW p
  PROVE  \A k \in 0 .. Len(history) : Walked(Chain(p)[k], p, k)
<1> DEFINE L == Len(history)
           S == {k \in Nat : k <= L => Walked(Chain(p)[k], p, k)}
<1>1. L \in Nat
  OBVIOUS
<1>2. 0 \in S
  <2>1. Chain(p)[0] = Seed(p)
    BY ChainSteps
  <2>2. Seed(p).support = <<>> /\ Seed(p).older = p /\ Seed(p).direction = 0
    BY DEF Seed
  <2>3. \A j \in L - 0 + 1 .. L : FALSE
    BY <1>1
  <2>4. Walked(Chain(p)[0], p, 0)
    BY <2>1, <2>2, <2>3 DEF Walked
  <2> QED BY <2>4
<1>3. ASSUME NEW k \in S PROVE k + 1 \in S
  <2> SUFFICES ASSUME k + 1 <= L PROVE Walked(Chain(p)[k + 1], p, k + 1)
    OBVIOUS
  <2>1. k \in 0 .. L - 1 /\ Walked(Chain(p)[k], p, k)
    BY <1>1
  <2>2. Chain(p)[k + 1] = Join(history[L - k], Chain(p)[k])
    <3>1. k + 1 \in 1 .. L /\ (k + 1) - 1 = k /\ L - (k + 1) + 1 = L - k
      BY <1>1, <2>1
    <3> QED BY <3>1, ChainSteps
  <2>3. L - k \in 1 .. L /\ k \in Nat /\ k = L - (L - k)
    BY <1>1, <2>1
  <2>4. JoinedBy(history[L - k], Chain(p)[k], Chain(p)[k + 1])
    BY <2>2, JoinJoins
  <2> QED BY <2>1, <2>3, <2>4, WalkOn
<1>4. S = Nat
  <2>1. S \in SUBSET Nat OBVIOUS
  <2> HIDE DEF S
  <2> QED BY <1>2, <1>3, <2>1, SetInduction
<1>5. ASSUME NEW k \in 0 .. L PROVE Walked(Chain(p)[k], p, k)
  <2>1. k \in S BY <1>4
  <2> QED BY <2>1
<1> QED BY <1>5

LEMMA SupportFacts ==
  ASSUME history \in Seq(Proposal), NEW p
  PROVE  /\ Support(p) \in Seq(Proposal)
         /\ Support(p) = <<>> => \A j \in 1 .. Len(history) : ~Neighbour(history[j], p)
         /\ Support(p) # <<>> =>
              \E j \in 1 .. Len(history) :
                /\ Support(p)[1] = history[j] /\ Neighbour(history[j], p)
                /\ Len(Support(p)) >= 2 =>
                     \E i \in 1 .. j - 1 : Neighbour(history[i], history[j])
<1> DEFINE L == Len(history)  chain == Chain(p)[L]
<1>1. L \in Nat /\ L \in 0 .. L /\ L - L + 1 = 1
  OBVIOUS
<1>2. Walked(chain, p, L)
  BY <1>1, ChainIsWalked
<1>3. Support(p) = chain.support
  BY DEF Support
<1> HIDE DEF L, chain
<1>4. Len(history) - L + 1 = 1
  BY <1>1 DEF L
<1> QED BY <1>2, <1>3, <1>4 DEF Walked, Reference

-----------------------------------------------------------------------------
(* What a check makes of the history *)

\* q is the history with e behind it, without its m oldest proposals.
Follows(q, e, m) ==
  LET L == Len(history)
  IN /\ q \in Seq(Proposal) /\ Len(q) = L + 1 - m /\ L + 1 - m >= 1
     /\ q[L + 1 - m] = e
     /\ \A i \in 1 .. L - m : q[i] = history[i + m]
     /\ m = 1 => L >= MaxHistory

\* MaxHistory is positive, so that the newest proposal is never the one that goes.
LEMMA StoredFollows ==
  ASSUME history \in Seq(Proposal), NEW e \in Proposal
  PROVE  \E m \in {0, 1} : Follows(Newest(Append(history, e)), e, m)
<1> DEFINE L == Len(history)  a == Append(history, e)
<1>1. /\ L \in Nat /\ a \in Seq(Proposal) /\ Len(a) = L + 1 /\ a[L + 1] = e
      /\ \A i \in 1 .. L : a[i] = history[i]
  OBVIOUS
<1>2. a # <<>>
  BY <1>1
<1>0. MaxHistory >= 1 /\ MaxHistory \in Nat
  BY Parameters
<1> HIDE DEF a
<1>3. /\ Tail(a) \in Seq(Proposal) /\ Len(Tail(a)) = L
      /\ \A i \in 1 .. L : Tail(a)[i] = a[i + 1]
  <2>1. Tail(a) \in Seq(Proposal) /\ Len(Tail(a)) = Len(a) - 1
    BY <1>1, <1>2
  <2>2. \A i \in 1 .. Len(a) - 1 : Tail(a)[i] = a[i + 1]
    BY <1>1, <1>2
  <2> QED BY <1>1, <2>1, <2>2
<1> HIDE DEF L
<1>4. CASE L + 1 > MaxHistory
  <2>1. Newest(a) = Tail(a) /\ L >= MaxHistory /\ L >= 1
    BY <1>0, <1>1, <1>4 DEF Newest
  <2>2. \A i \in 1 .. L - 1 : Tail(a)[i] = history[i + 1]
    <3> SUFFICES ASSUME NEW i \in 1 .. L - 1 PROVE Tail(a)[i] = history[i + 1]
      OBVIOUS
    <3>1. i \in 1 .. L /\ i + 1 \in 1 .. L
      BY <1>1
    <3> QED BY <1>1, <1>3, <3>1
  <2>3. Tail(a)[L] = e
    <3>1. L \in 1 .. L
      BY <1>1, <2>1
    <3> QED BY <1>1, <1>3, <3>1
  <2>4. L + 1 - 1 = L
    BY <1>1
  <2>5. Follows(Tail(a), e, 1)
    BY <1>3, <2>1, <2>2, <2>3, <2>4 DEF Follows, L
  <2> QED BY <2>1, <2>5 DEF a
<1>5. CASE ~(L + 1 > MaxHistory)
  <2>1. Newest(a) = a
    BY <1>1, <1>5 DEF Newest
  <2>2. /\ L + 1 - 0 = L + 1 /\ L - 0 = L /\ L + 1 >= 1
        /\ \A i \in 1 .. L : i + 0 = i
    BY <1>1
  <2>3. Follows(a, e, 0)
    BY <1>1, <2>2 DEF Follows, L
  <2> QED BY <2>1, <2>3 DEF a
<1> QED BY <1>4, <1>5

\* What a proposal leaves in the history: nothing new, or itself with its link.
LEMMA CheckedShape ==
  ASSUME TypesInv, NEW p \in Candidates
  PROVE  LET support == Support(p)
         IN /\ Linked(p, support) \in Proposal
            /\ Linked(p, support).current = p.current
            /\ Linked(p, support).historical = p.historical
            /\ Linked(p, support).offset = p.offset
            /\ Linked(p, support).links >= 1
            /\ CycleConsistent(p, support)
                 => Linked(p, support).links = support[1].links + 1
            /\ ~Stored(p, support) => Checked(p, support) = history
            /\ Stored(p, support)
                 => \E m \in {0, 1} : Follows(Checked(p, support), Linked(p, support), m)
<1> DEFINE support == Support(p)  e == Linked(p, support)
<1>1. p \in Proposal /\ p.links = 1 /\ history \in Seq(Proposal)
  BY CandidateTypes DEF TypesInv
<1>2. support \in Seq(Proposal)
  BY <1>1, SupportFacts
<1> HIDE DEF support
<1>3. CASE CycleConsistent(p, support)
  <2>1. support[1] \in Proposal
    BY <1>2, <1>3 DEF CycleConsistent
  <2>2. support[1].links + 1 \in Nat /\ support[1].links + 1 >= 1
    BY <2>1 DEF Proposal
  <2>3. e = [p EXCEPT !.links = support[1].links + 1]
    BY <1>3 DEF Linked
  <2>4. /\ e \in Proposal /\ e.current = p.current /\ e.historical = p.historical
        /\ e.offset = p.offset /\ e.links = support[1].links + 1
    BY <1>1, <2>2, <2>3 DEF Proposal
  <2>5. \E m \in {0, 1} : Follows(Newest(Append(history, e)), e, m)
    BY <1>1, <2>4, StoredFollows
  <2> HIDE DEF e
  <2>6. Checked(p, support) = Newest(Append(history, e))
    BY <1>3 DEF Checked, Stored, e
  <2> QED BY <1>3, <2>2, <2>4, <2>5, <2>6 DEF Stored, support, e
<1>4. CASE ~CycleConsistent(p, support)
  <2>1. e = p
    BY <1>4 DEF Linked
  <2>2. \E m \in {0, 1} : Follows(Newest(Append(history, e)), e, m)
    BY <1>1, <2>1, StoredFollows
  <2> HIDE DEF e
  <2>3. Stored(p, support) => Checked(p, support) = Newest(Append(history, e))
    BY DEF Checked, e
  <2>4. ~Stored(p, support) => Checked(p, support) = history
    BY DEF Checked
  <2> QED BY <1>1, <1>4, <2>1, <2>2, <2>3, <2>4 DEF support, e
<1> QED BY <1>3, <1>4

\* The poses may have moved, and the offsets with them.
Moved(h, q) ==
  /\ h \in Seq(Proposal) /\ Len(h) = Len(q)
  /\ \A i \in 1 .. Len(q) : /\ h[i].current = q[i].current
                            /\ h[i].historical = q[i].historical
                            /\ h[i].links = q[i].links

LEMMA CheckedIsTyped ==
  ASSUME TypesInv, NEW p \in Candidates
  PROVE  Checked(p, Support(p)) \in Seq(Proposal)
BY CheckedShape DEF TypesInv, Follows

LEMMA AcceptMoves ==
  ASSUME TypesInv, NEW p \in Candidates, Accept(p, Support(p))
  PROVE  Moved(history', Checked(p, Support(p)))
<1> DEFINE q == Checked(p, Support(p))
<1>1. q \in Seq(Proposal) /\ DOMAIN q = 1 .. Len(q) /\ Len(q) \in Nat
  BY CheckedIsTyped
<1>2. \/ history' = q
      \/ \E moved \in [DOMAIN q -> Offsets] :
           history' = [i \in DOMAIN moved |-> [q[i] EXCEPT !.offset = moved[i]]]
  BY DEF Accept
<1> SUFFICES Moved(history', q)
  OBVIOUS
<1> HIDE DEF q
<1>3. CASE history' = q
  BY <1>1, <1>3 DEF Moved
<1>4. CASE \E moved \in [DOMAIN q -> Offsets] :
             history' = [i \in DOMAIN moved |-> [q[i] EXCEPT !.offset = moved[i]]]
  <2>1. PICK moved \in [1 .. Len(q) -> Offsets] :
          history' = [i \in 1 .. Len(q) |-> [q[i] EXCEPT !.offset = moved[i]]]
    BY <1>1, <1>4
  <2>2. ASSUME NEW i \in 1 .. Len(q)
        PROVE  /\ history'[i] \in Proposal
               /\ history'[i].current = q[i].current
               /\ history'[i].historical = q[i].historical
               /\ history'[i].links = q[i].links
    <3>1. q[i] \in Proposal /\ moved[i] \in Int
      BY <1>1, <2>1, Parameters
    <3> DEFINE r == q[i]  o == moved[i]
    <3>2. history'[i] = [r EXCEPT !.offset = o]
      BY <2>1
    <3> HIDE DEF r, o
    <3>3. /\ [r EXCEPT !.offset = o] \in Proposal
          /\ [r EXCEPT !.offset = o].current = r.current
          /\ [r EXCEPT !.offset = o].historical = r.historical
          /\ [r EXCEPT !.offset = o].links = r.links
      BY <3>1 DEF Proposal, r, o
    <3> QED BY <3>2, <3>3 DEF r
  <2>3. history' \in [1 .. Len(q) -> Proposal]
    BY <2>1, <2>2
  <2>4. history' \in Seq(Proposal) /\ Len(history') = Len(q)
    BY <1>1, <2>3
  <2> QED BY <2>2, <2>4 DEF Moved
<1> QED BY <1>2, <1>3, <1>4

-----------------------------------------------------------------------------
(* Types are kept *)

LEMMA InitTypes == Init => TypesInv
BY DEF Init, TypesInv, NoRun

\* The run goes on with p, or begins with it.
LEMMA RunTypes ==
  ASSUME TypesInv, NEW p \in Candidates
  PROVE  Run(p) \in [last : SUBSET Proposal, direction : -1 .. 1, length : Nat]
<1>1. p \in Proposal
  BY CandidateTypes DEF TypesInv
<1>2. \A a, b : Direction(a, b) \in -1 .. 1
  BY DEF Direction
<1>3. steady.length + 1 \in Nat /\ steady.direction \in -1 .. 1
  BY DEF TypesInv
<1> QED BY <1>1, <1>2, <1>3 DEF Run

\* What a check puts into the history is not newer than the proposal.
LEMMA CheckedCurrents ==
  ASSUME TypesInv, NEW p \in Candidates
  PROVE  LET q == Checked(p, Support(p))
         IN \A i \in 1 .. Len(q) : q[i].current <= newest + 1
<1> DEFINE q == Checked(p, Support(p))  L == Len(history)  e == Linked(p, Support(p))
<1>1. L \in Nat /\ newest \in Nat /\ \A i \in 1 .. L : history[i].current <= newest
  BY DEF TypesInv
<1>4. \A i \in 1 .. L : history[i].current \in Nat
  <2>1. \A i \in 1 .. L : history[i] \in Proposal
    BY DEF TypesInv
  <2> QED BY <2>1 DEF Proposal
<1>2. e.current = newest + 1
  BY CheckedShape, CandidateTypes DEF TypesInv
<1> SUFFICES \A i \in 1 .. Len(q) : q[i].current <= newest + 1
  OBVIOUS
<1>6. q = history \/ \E m \in {0, 1} : Follows(q, e, m)
  BY CheckedShape
<1> HIDE DEF L, e
<1>3. CASE q = history
  BY <1>1, <1>3, <1>4 DEF L
<1>5. CASE \E m \in {0, 1} : Follows(q, e, m)
  <2>1. PICK m \in {0, 1} : Follows(q, e, m)
    BY <1>5
  <2> HIDE DEF q
  <2>2. ASSUME NEW i \in 1 .. Len(q) PROVE q[i].current <= newest + 1
    <3>1. Len(q) = L + 1 - m /\ q[L + 1 - m] = e /\ \A j \in 1 .. L - m : q[j] = history[j + m]
      BY <2>1 DEF Follows, L
    <3>2. CASE i = L + 1 - m
      BY <1>1, <1>2, <3>1, <3>2
    <3>3. CASE i # L + 1 - m
      <4>1. i \in 1 .. L - m /\ i + m \in 1 .. L
        BY <1>1, <3>1, <3>3
      <4>2. history[i + m].current <= newest /\ history[i + m].current \in Nat
        BY <1>1, <1>4, <4>1
      <4> QED BY <1>1, <3>1, <4>1, <4>2
    <3> QED BY <3>2, <3>3
  <2> QED BY <2>2
<1> QED BY <1>3, <1>5, <1>6

LEMMA NextTypes == TypesInv /\ [Next]_vars => TypesInv'
<1> SUFFICES ASSUME TypesInv, [Next]_vars PROVE TypesInv'
  OBVIOUS
<1>1. CASE NoProposal
  <2>1. \A i \in 1 .. Len(history) : history[i] \in Proposal
    BY DEF TypesInv
  <2>2. \A i \in 1 .. Len(history) : history[i].current \in Nat
    BY <2>1 DEF Proposal
  <2> QED BY <1>1, <2>2 DEF NoProposal, TypesInv
<1>2. ASSUME NEW p \in Candidates, Wait(p, Support(p)) PROVE TypesInv'
  <2>1. history' \in Seq(Proposal)
    BY <1>2, CheckedIsTyped DEF Wait
  <2>2. \A i \in 1 .. Len(history') : history'[i].current <= newest'
    BY <1>2, CheckedCurrents DEF Wait
  <2>3. newest' \in Nat /\ accepted' = {}
    BY <1>2 DEF Wait, TypesInv
  <2>4. steady' \in [last : SUBSET Proposal, direction : -1 .. 1, length : Nat]
    BY <1>2, RunTypes DEF Wait
  <2> QED BY <2>1, <2>2, <2>3, <2>4 DEF TypesInv
<1>3. ASSUME NEW p \in Candidates, Accept(p, Support(p)) PROVE TypesInv'
  <2>1. Moved(history', Checked(p, Support(p)))
    BY <1>3, AcceptMoves
  <2>2. \A i \in 1 .. Len(history') : history'[i].current <= newest + 1
    BY <2>1, CheckedCurrents DEF Moved
  <2>3. /\ newest' = newest + 1 /\ newest' \in Nat /\ steady' = NoRun
        /\ accepted' = {Linked(p, Support(p))}
    BY <1>3 DEF Accept, TypesInv
  <2>4. accepted' \subseteq Proposal
    BY <2>3, CheckedShape
  <2>5. steady' \in [last : SUBSET Proposal, direction : -1 .. 1, length : Nat]
    BY <2>3 DEF NoRun
  <2> QED BY <2>1, <2>2, <2>3, <2>4, <2>5 DEF TypesInv, Moved
<1>4. CASE Reset
  BY <1>4 DEF Reset, TypesInv, NoRun
<1>5. CASE UNCHANGED vars
  BY <1>5 DEF vars, TypesInv
<1> QED BY <1>1, <1>2, <1>3, <1>4, <1>5 DEF Next

\* The types, and that no proposal in the history is newer than the newest keyframe.
THEOREM TypesAlwaysHold == Spec => []TypesInv
BY InitTypes, NextTypes, PTL DEF Spec

-----------------------------------------------------------------------------
(* Agreement with the reference only, and still three in a row: a proposal   *)
(* with an older neighbour was compared with one when it was stored.         *)

LinkedUp(q) ==
  \A j \in 1 .. Len(q) :
    /\ q[j].links >= 1
    /\ \A i \in 1 .. j - 1 : Neighbour(q[i], q[j]) => q[j].links >= 2

LinkInv == LinkedUp(history) /\ AcceptedRestsOnThree

\* Neither links nor neighbours depend on the poses.
LEMMA MovedLinked ==
  ASSUME NEW h, NEW q \in Seq(Proposal), Moved(h, q), LinkedUp(q)
  PROVE  LinkedUp(h)
<1> SUFFICES ASSUME NEW j \in 1 .. Len(q)
             PROVE  /\ h[j].links >= 1
                    /\ \A i \in 1 .. j - 1 : Neighbour(h[i], h[j]) => h[j].links >= 2
  BY DEF LinkedUp, Moved
<1>1. h[j].links = q[j].links /\ h[j].current = q[j].current /\ h[j].historical = q[j].historical
  BY DEF Moved
<1>2. q[j].links >= 1 /\ \A i \in 1 .. j - 1 : Neighbour(q[i], q[j]) => q[j].links >= 2
  BY DEF LinkedUp
<1>3. ASSUME NEW i \in 1 .. j - 1 PROVE Neighbour(h[i], h[j]) <=> Neighbour(q[i], q[j])
  <2>1. i \in 1 .. Len(q)
    OBVIOUS
  <2>2. h[i].current = q[i].current /\ h[i].historical = q[i].historical
    BY <2>1 DEF Moved
  <2> QED BY <1>1, <2>2 DEF Neighbour
<1> QED BY <1>1, <1>2, <1>3

LEMMA FollowsLinked ==
  ASSUME history \in Seq(Proposal), LinkedUp(history), NEW e, NEW m \in {0, 1}, NEW q,
         Follows(q, e, m), e.links >= 1,
         \A j \in 1 .. Len(history) : Neighbour(history[j], e) => e.links >= 2
  PROVE  LinkedUp(q)
<1> DEFINE L == Len(history)
<1>1. L \in Nat
  OBVIOUS
<1>2. /\ Len(q) = L + 1 - m /\ q[L + 1 - m] = e
      /\ \A i \in 1 .. L - m : q[i] = history[i + m]
  BY DEF Follows
<1>3. /\ \A j \in 1 .. L : Neighbour(history[j], e) => e.links >= 2
      /\ \A j \in 1 .. L :
           /\ history[j].links >= 1
           /\ \A i \in 1 .. j - 1 : Neighbour(history[i], history[j]) => history[j].links >= 2
  BY DEF LinkedUp
<1> HIDE DEF L
<1> SUFFICES ASSUME NEW j \in 1 .. Len(q)
             PROVE  /\ q[j].links >= 1
                    /\ \A i \in 1 .. j - 1 : Neighbour(q[i], q[j]) => q[j].links >= 2
  BY DEF LinkedUp
<1>4. CASE j = L + 1 - m
  <2>1. \A i \in 1 .. j - 1 : i \in 1 .. L - m /\ i + m \in 1 .. L
    BY <1>1, <1>4
  <2> QED BY <1>2, <1>3, <1>4, <2>1
<1>5. CASE j # L + 1 - m
  <2>1. j \in 1 .. L - m /\ j + m \in 1 .. L
    BY <1>1, <1>2, <1>5
  <2>2. \A i \in 1 .. j - 1 : i \in 1 .. L - m /\ i + m \in 1 .. (j + m) - 1
    BY <1>1, <2>1
  <2> QED BY <1>2, <1>3, <2>1, <2>2
<1> QED BY <1>4, <1>5

LEMMA CheckedLinked ==
  ASSUME TypesInv, LinkedUp(history), NEW p \in Candidates
  PROVE  LinkedUp(Checked(p, Support(p)))
<1> DEFINE support == Support(p)  e == Linked(p, support)  q == Checked(p, support)
<1>1. history \in Seq(Proposal)
  BY DEF TypesInv
<1>2. /\ e.current = p.current /\ e.historical = p.historical /\ e.links >= 1
      /\ CycleConsistent(p, support) => e.links = support[1].links + 1
      /\ ~Stored(p, support) => q = history
      /\ Stored(p, support) => \E m \in {0, 1} : Follows(q, e, m)
  BY CheckedShape
<1>3. /\ support = <<>> => \A j \in 1 .. Len(history) : ~Neighbour(history[j], p)
      /\ support # <<>> => \E j \in 1 .. Len(history) : support[1] = history[j]
  BY <1>1, SupportFacts
<1> SUFFICES LinkedUp(q)
  OBVIOUS
<1> HIDE DEF support, e, q
<1>4. CASE Stored(p, support)
  <2>1. ASSUME NEW j \in 1 .. Len(history), Neighbour(history[j], e) PROVE e.links >= 2
    <3>1. Neighbour(history[j], p)
      BY <1>2, <2>1 DEF Neighbour, Direction
    <3>2. support # <<>> /\ CycleConsistent(p, support)
      BY <1>3, <1>4, <3>1 DEF Stored
    <3>3. PICK i \in 1 .. Len(history) : support[1] = history[i]
      BY <1>3, <3>2
    <3>4. history[i].links >= 1 /\ history[i] \in Proposal
      BY <1>1 DEF LinkedUp
    <3>5. history[i].links \in Nat
      BY <3>4 DEF Proposal
    <3> QED BY <1>2, <3>2, <3>3, <3>4, <3>5
  <2> QED BY <1>1, <1>2, <1>4, <2>1, FollowsLinked
<1>5. CASE ~Stored(p, support)
  BY <1>2, <1>5
<1> QED BY <1>4, <1>5

\* The reference of an accepted loop has an older neighbour, where three are asked for.
LEMMA AcceptedLinks ==
  ASSUME TypesInv, LinkedUp(history), NEW p \in Candidates, Accept(p, Support(p))
  PROVE  Linked(p, Support(p)).links >= (IF MinProposals > 3 THEN 3 ELSE MinProposals)
<1> DEFINE support == Support(p)
<1>1. history \in Seq(Proposal)
  BY DEF TypesInv
<1>2. TemporalConsistent(support) /\ CycleConsistent(p, support)
  BY DEF Accept
<1>3. support # <<>> /\ Linked(p, support).links = support[1].links + 1
  BY <1>2, CheckedShape DEF CycleConsistent
<1>4. PICK j \in 1 .. Len(history) :
        /\ support[1] = history[j]
        /\ Len(support) >= 2 => \E i \in 1 .. j - 1 : Neighbour(history[i], history[j])
  BY <1>1, <1>3, SupportFacts
<1>5. support \in Seq(Proposal)
  BY <1>1, SupportFacts
<1>6. Len(support) \in Nat /\ Len(support) + 1 >= MinProposals
  BY <1>2, <1>5 DEF TemporalConsistent
<1> SUFFICES Linked(p, support).links >= (IF MinProposals > 3 THEN 3 ELSE MinProposals)
  OBVIOUS
<1> HIDE DEF support
<1>7. history[j].links \in Nat /\ history[j].links >= 1
  <2>1. history[j] \in Proposal
    BY <1>1
  <2> QED BY <2>1 DEF Proposal, LinkedUp
<1>8. CASE MinProposals >= 3
  <2>1. Len(support) >= 2
    BY <1>6, <1>8, Parameters
  <2>2. history[j].links >= 2
    BY <1>4, <2>1 DEF LinkedUp
  <2> QED BY <1>3, <1>4, <1>7, <1>8, <2>2, Parameters
<1>9. CASE ~(MinProposals >= 3)
  BY <1>3, <1>4, <1>7, <1>9, Parameters
<1> QED BY <1>8, <1>9

LEMMA NextLinkInv == TypesInv /\ LinkInv /\ [Next]_vars => LinkInv'
<1> SUFFICES ASSUME TypesInv, LinkInv, [Next]_vars PROVE LinkInv'
  OBVIOUS
<1>0. LinkedUp(history)
  BY DEF LinkInv
<1>1. CASE NoProposal
  BY <1>0, <1>1 DEF NoProposal, LinkInv, LinkedUp, AcceptedRestsOnThree
<1>2. ASSUME NEW p \in Candidates, Wait(p, Support(p)) PROVE LinkInv'
  <2>1. LinkedUp(Checked(p, Support(p)))
    BY <1>0, CheckedLinked
  <2>2. history' = Checked(p, Support(p)) /\ accepted' = {}
    BY <1>2 DEF Wait
  <2>3. LinkedUp(history')
    BY <2>1, <2>2
  <2> QED BY <2>2, <2>3 DEF LinkInv, LinkedUp, AcceptedRestsOnThree
<1>3. ASSUME NEW p \in Candidates, Accept(p, Support(p)) PROVE LinkInv'
  <2>1. LinkedUp(Checked(p, Support(p))) /\ Checked(p, Support(p)) \in Seq(Proposal)
    BY <1>0, CheckedLinked, CheckedIsTyped
  <2>2. LinkedUp(history')
    BY <1>3, <2>1, AcceptMoves, MovedLinked
  <2>3. accepted' = {Linked(p, Support(p))}
    BY <1>3 DEF Accept
  <2>4. AcceptedRestsOnThree'
    BY <1>0, <1>3, <2>3, AcceptedLinks DEF AcceptedRestsOnThree
  <2> QED BY <2>2, <2>4 DEF LinkInv, LinkedUp
<1>4. CASE Reset
  BY <1>4 DEF Reset, LinkInv, LinkedUp, AcceptedRestsOnThree
<1>5. CASE UNCHANGED vars
  BY <1>0, <1>5 DEF vars, LinkInv, LinkedUp, AcceptedRestsOnThree
<1> QED BY <1>1, <1>2, <1>3, <1>4, <1>5 DEF Next

\* An accepted loop is the last of three proposals (of two, if MinProposals is 2) of
\* which each agreed with the one before, although the checker compares it with one
\* of them only; agreement is between integer offsets.
THEOREM AcceptedAlwaysRestsOnThree == Spec => []AcceptedRestsOnThree
<1>1. Init => LinkInv
  BY DEF Init, LinkInv, LinkedUp, AcceptedRestsOnThree
<1>2. LinkInv => AcceptedRestsOnThree
  BY DEF LinkInv
<1> QED BY <1>1, <1>2, TypesAlwaysHold, NextLinkInv, PTL DEF Spec

-----------------------------------------------------------------------------
(* A run of proposals that continue each other.  Those at its beginning may  *)
(* be refused, by older proposals that stand in their way; these are out of  *)
(* reach after CurrentGap keyframes.  The first one stored is the reference  *)
(* of the next, and from then on each is stored and supports those behind it. *)

\* The s newest proposals of the history are the last s of the run that ends with q.
Tracked(h, q, d, s) ==
  LET L == Len(h)
  IN /\ s <= L
     /\ s >= 1 => /\ h[L].current = q.current /\ h[L].historical = q.historical
                  /\ h[L].offset = q.offset
     /\ \A i \in L - s + 1 .. L - 1 :
          Neighbour(h[i], h[i + 1]) /\ Direction(h[i], h[i + 1]) \in {0, d}

\* The run of n proposals that ends with q, all but s of which were refused.
RunOf(q, s) ==
  /\ steady.last = {q} /\ q \in Proposal /\ q.current <= newest
  /\ s \in 0 .. steady.length /\ s <= MinProposals - 1
  /\ steady.length - s <= CurrentGap
  /\ Tracked(history, q, steady.direction, s)
  /\ s = 0 => \A i \in 1 .. Len(history) : history[i].current + steady.length <= q.current

SteadyInv == \/ steady = NoRun
             \/ \E q \in steady.last, s \in Nat : RunOf(q, s)

\* Of the walk from p over a history whose s newest proposals are tracked: after
\* k <= s of them all k support p, and the newest one is and stays its reference.
InRun(chain, p, d, s, k) ==
  LET L == Len(history)
  IN /\ chain.support \in Seq(Proposal)
     /\ k <= s => /\ Len(chain.support) = k /\ chain.direction \in {0, d}
                  /\ chain.older = IF k = 0 THEN p ELSE history[L - k + 1]
     /\ k > s => Len(chain.support) >= s
     /\ k >= 1 => Len(chain.support) >= 1 /\ chain.support[1] = history[L]

LEMMA InRunOn ==
  ASSUME history \in Seq(Proposal), NEW p, NEW q, NEW d, NEW s \in Nat, s >= 1,
         Tracked(history, q, d, s), Neighbour(q, p), Direction(q, p) \in {0, d},
         NEW k \in Nat, k + 1 <= Len(history), NEW chain, InRun(chain, p, d, s, k)
  PROVE  InRun(Join(history[Len(history) - k], chain), p, d, s, k + 1)
<1> DEFINE L == Len(history)  n == L - k  next == Join(history[n], chain)
<1>1. L \in Nat /\ n \in 1 .. L /\ L - (k + 1) + 1 = n
  OBVIOUS
<1>2. history[n] \in Proposal
  BY <1>1
<1>3. /\ chain.support \in Seq(Proposal)
      /\ k <= s => /\ Len(chain.support) = k /\ chain.direction \in {0, d}
                   /\ chain.older = IF k = 0 THEN p ELSE history[L - k + 1]
      /\ k > s => Len(chain.support) >= s
      /\ k >= 1 => Len(chain.support) >= 1 /\ chain.support[1] = history[L]
  BY DEF InRun
<1>4. /\ s <= L
      /\ history[L].current = q.current /\ history[L].historical = q.historical
      /\ \A i \in L - s + 1 .. L - 1 :
           Neighbour(history[i], history[i + 1]) /\ Direction(history[i], history[i + 1]) \in {0, d}
  BY DEF Tracked
<1>5. \/ next = chain
      \/ next.support = Append(chain.support, history[n])
  BY DEF Join
<1>6. k + 1 <= s => /\ next.older = history[n] /\ next.direction \in {0, d}
                    /\ next.support = Append(chain.support, history[n])
  <2> SUFFICES ASSUME k + 1 <= s
               PROVE  /\ next.older = history[n] /\ next.direction \in {0, d}
                      /\ next.support = Append(chain.support, history[n])
    OBVIOUS
  <2>1. Neighbour(history[n], chain.older) /\ Direction(history[n], chain.older) \in {0, d}
    <3>1. CASE k = 0
      <4>1. chain.older = p /\ n = L
        BY <1>1, <1>3, <3>1
      <4> QED BY <1>4, <4>1 DEF Neighbour, Direction
    <3>2. CASE k # 0
      <4>1. chain.older = history[n + 1] /\ n \in L - s + 1 .. L - 1
        BY <1>1, <1>3, <3>2
      <4> QED BY <1>4, <4>1
    <3> QED BY <3>1, <3>2
  <2>2. chain.direction \in {0, d}
    BY <1>3
  <2> DEFINE previous == history[n]
  <2>3. Neighbour(previous, chain.older) /\ Direction(previous, chain.older) \in {0, d}
    BY <2>1
  <2> HIDE DEF previous
  <2>4. /\ Join(previous, chain).older = previous
        /\ Join(previous, chain).direction \in {0, d}
        /\ Join(previous, chain).support = Append(chain.support, previous)
    BY <2>2, <2>3 DEF Join, Compatible
  <2> QED BY <2>4 DEF previous
<1> SUFFICES InRun(next, p, d, s, k + 1)
  OBVIOUS
<1> HIDE DEF next
<1>7. /\ Append(chain.support, history[n]) \in Seq(Proposal)
      /\ Len(Append(chain.support, history[n])) = Len(chain.support) + 1
      /\ Len(chain.support) \in Nat
      /\ Len(chain.support) >= 1 => Append(chain.support, history[n])[1] = chain.support[1]
      /\ Len(chain.support) = 0 => Append(chain.support, history[n])[1] = history[n]
  BY <1>2, <1>3
<1>8. next.support \in Seq(Proposal)
  BY <1>3, <1>5, <1>7
<1>9. k + 1 > s => Len(next.support) >= s
  <2> SUFFICES ASSUME k + 1 > s PROVE Len(next.support) >= s
    OBVIOUS
  <2>1. Len(chain.support) >= s
    BY <1>3, <1>7
  <2> QED BY <1>5, <1>7, <2>1
<1>10. Len(next.support) >= 1 /\ next.support[1] = history[L]
  <2>1. CASE k = 0
    <3>1. k + 1 <= s /\ Len(chain.support) = 0 /\ n = L
      BY <1>1, <1>3, <2>1
    <3> QED BY <1>6, <1>7, <3>1
  <2>2. CASE k # 0
    <3>1. k >= 1
      BY <2>2
    <3> QED BY <1>3, <1>5, <1>7, <3>1
  <2> QED BY <2>1, <2>2
<1>11. k + 1 <= s => Len(next.support) = k + 1
  BY <1>3, <1>6, <1>7
<1>12. k + 1 # 0
  OBVIOUS
<1> QED BY <1>1, <1>6, <1>8, <1>9, <1>10, <1>11, <1>12 DEF InRun

\* All that is stored of the run supports the next of it, the newest as reference.
LEMMA RunSupports ==
  ASSUME history \in Seq(Proposal), NEW p, NEW q, NEW d, NEW s \in Nat, s >= 1,
         Tracked(history, q, d, s), Neighbour(q, p), Direction(q, p) \in {0, d}
  PROVE  /\ Support(p) \in Seq(Proposal) /\ Len(Support(p)) >= s
         /\ Support(p) # <<>> /\ Support(p)[1] = history[Len(history)]
<1> DEFINE L == Len(history)
           S == {k \in Nat : k <= L => InRun(Chain(p)[k], p, d, s, k)}
<1>1. L \in Nat /\ s <= L
  BY DEF Tracked
<1>2. 0 \in S
  <2>1. Chain(p)[0] = Seed(p)
    BY ChainSteps
  <2>2. Seed(p).support = <<>> /\ Seed(p).older = p /\ Seed(p).direction = 0
    BY DEF Seed
  <2>3. Len(Seed(p).support) = 0 /\ Seed(p).support \in Seq(Proposal)
    BY <2>2
  <2>4. InRun(Chain(p)[0], p, d, s, 0)
    BY <2>1, <2>2, <2>3 DEF InRun
  <2> QED BY <2>4
<1>3. ASSUME NEW k \in S PROVE k + 1 \in S
  <2> SUFFICES ASSUME k + 1 <= L PROVE InRun(Chain(p)[k + 1], p, d, s, k + 1)
    OBVIOUS
  <2>1. k \in Nat /\ InRun(Chain(p)[k], p, d, s, k)
    BY <1>1
  <2>2. Chain(p)[k + 1] = Join(history[L - k], Chain(p)[k])
    <3>1. k + 1 \in 1 .. L /\ (k + 1) - 1 = k /\ L - (k + 1) + 1 = L - k
      BY <1>1, <2>1
    <3> QED BY <3>1, ChainSteps
  <2> QED BY <2>1, <2>2, InRunOn
<1>4. S = Nat
  <2>1. S \in SUBSET Nat OBVIOUS
  <2> HIDE DEF S
  <2> QED BY <1>2, <1>3, <2>1, SetInduction
<1>5. InRun(Chain(p)[L], p, d, s, L)
  <2>1. L \in S BY <1>1, <1>4
  <2> QED BY <1>1, <2>1
<1>6. Support(p) = Chain(p)[L].support
  BY DEF Support
<1> DEFINE m == Len(Support(p))
<1>7. /\ Support(p) \in Seq(Proposal) /\ m >= 1 /\ Support(p)[1] = history[L]
      /\ L <= s => m = L
      /\ L > s => m >= s
  BY <1>1, <1>5, <1>6 DEF InRun
<1>8. m \in Nat /\ Support(p) # <<>>
  BY <1>7
<1>9. m >= s
  <2> HIDE DEF m, L
  <2> QED BY <1>1, <1>7, <1>8
<1> QED BY <1>7, <1>8, <1>9

\* What follows the tracked proposals and continues the last of them is tracked too.
LEMMA FollowsTracked ==
  ASSUME history \in Seq(Proposal), NEW q, NEW d, NEW s \in Nat, NEW D,
         Tracked(history, q, d, s), s >= 1, s + 1 <= MinProposals - 1,
         {0, d} \subseteq {0, D},
         NEW p, NEW e, NEW m \in {0, 1}, NEW h, Follows(h, e, m),
         e.current = p.current, e.historical = p.historical, e.offset = p.offset,
         Neighbour(q, p), Direction(q, p) \in {0, D}
  PROVE  Tracked(h, p, D, s + 1)
<1> DEFINE L == Len(history)  K == L + 1 - m
<1>1. L \in Nat /\ K \in Nat
  OBVIOUS
<1>2. /\ Len(h) = K /\ h[K] = e
      /\ \A i \in 1 .. L - m : h[i] = history[i + m]
      /\ m = 1 => L >= MaxHistory
  BY DEF Follows
<1>3. /\ s <= L /\ history[L].current = q.current /\ history[L].historical = q.historical
      /\ \A i \in L - s + 1 .. L - 1 :
           Neighbour(history[i], history[i + 1]) /\ Direction(history[i], history[i + 1]) \in {0, d}
  BY DEF Tracked
<1> HIDE DEF L
<1>4. s + 1 <= K
  BY <1>1, <1>2, <1>3, Parameters
<1>5. ASSUME NEW i \in K - (s + 1) + 1 .. K - 1
      PROVE  Neighbour(h[i], h[i + 1]) /\ Direction(h[i], h[i + 1]) \in {0, D}
  <2>1. i \in 1 .. L - m /\ h[i] = history[i + m]
    BY <1>1, <1>2, <1>4
  <2>2. CASE i = K - 1
    <3>1. i + m = L /\ h[i + 1] = e
      BY <1>1, <1>2, <2>2
    <3> QED BY <1>3, <2>1, <3>1 DEF Neighbour, Direction
  <2>3. CASE i # K - 1
    <3>0. m \in Nat /\ i \in Nat
      BY <1>1, <2>1
    <3>1. i + 1 \in 1 .. L - m /\ i + m \in L - s + 1 .. L - 1 /\ (i + 1) + m = (i + m) + 1
      BY <1>1, <2>1, <2>3, <3>0
    <3>2. h[i + 1] = history[(i + m) + 1]
      BY <1>2, <3>1
    <3> QED BY <1>3, <2>1, <3>1, <3>2
  <2> QED BY <2>2, <2>3
<1> HIDE DEF K
<1>6. h[K].current = p.current /\ h[K].historical = p.historical /\ h[K].offset = p.offset
  BY <1>2
<1> QED BY <1>2, <1>4, <1>5, <1>6 DEF Tracked

\* The first of a run that is stored.
LEMMA FirstTracked ==
  ASSUME history \in Seq(Proposal), NEW p, NEW e, NEW d, NEW m \in {0, 1}, NEW h,
         Follows(h, e, m),
         e.current = p.current, e.historical = p.historical, e.offset = p.offset
  PROVE  Tracked(h, p, d, 1)
<1> DEFINE K == Len(history) + 1 - m
<1>1. K \in Nat /\ Len(h) = K /\ K >= 1 /\ h[K] = e
  BY DEF Follows
<1>2. \A i \in K - 1 + 1 .. K - 1 : FALSE
  BY <1>1
<1> HIDE DEF K
<1> QED BY <1>1, <1>2 DEF Tracked

-----------------------------------------------------------------------------
(* One proposal more *)

\* A proposal that is refused has a reference in reach.
LEMMA RefusedHasNeighbour ==
  ASSUME TypesInv, NEW p \in Candidates, ~Stored(p, Support(p))
  PROVE  \E j \in 1 .. Len(history) : p.current - history[j].current <= CurrentGap
<1>1. history \in Seq(Proposal)
  BY DEF TypesInv
<1>2. Support(p) # <<>>
  BY DEF Stored
<1>3. \E j \in 1 .. Len(history) : Neighbour(history[j], p)
  BY <1>1, <1>2, SupportFacts
<1> QED BY <1>3 DEF Neighbour

\* A run that begins with p.
LEMMA RunBegins ==
  ASSUME TypesInv, NEW p \in Candidates, Wait(p, Support(p)), ~Continues(p)
  PROVE  SteadyInv'
<1>1. /\ p \in Proposal /\ p.current = newest + 1 /\ newest \in Nat
      /\ history \in Seq(Proposal)
      /\ \A i \in 1 .. Len(history) : history[i].current <= newest /\ history[i] \in Proposal
  BY CandidateTypes DEF TypesInv
<1>2. /\ steady' = [last |-> {p}, direction |-> 0, length |-> 1]
      /\ newest' = newest + 1 /\ history' = Checked(p, Support(p))
  BY DEF Wait, Run
<1>3. steady'.last = {p} /\ steady'.direction = 0 /\ steady'.length = 1 /\ p.current <= newest'
  BY <1>1, <1>2
<1>4. MinProposals \in Nat /\ MinProposals >= 2 /\ CurrentGap \in Nat /\ CurrentGap >= 1
  BY Parameters
<1>5. CASE Stored(p, Support(p))
  <2>1. PICK m \in {0, 1} : Follows(history', Linked(p, Support(p)), m)
    BY <1>2, <1>5, CheckedShape
  <2>2. Tracked(history', p, 0, 1)
    BY <1>1, <2>1, CheckedShape, FirstTracked
  <2>3. 1 \in 0 .. 1 /\ 1 <= MinProposals - 1 /\ 1 - 1 <= CurrentGap /\ 1 \in Nat /\ ~(1 = 0)
    BY <1>4
  <2>4. RunOf(p, 1)'
    BY <1>1, <1>3, <2>2, <2>3 DEF RunOf
  <2> QED BY <1>3, <2>3, <2>4 DEF SteadyInv
<1>6. CASE ~Stored(p, Support(p))
  <2>1. history' = history
    BY <1>2, <1>6, CheckedShape
  <2>2. Tracked(history, p, 0, 0)
    <3>1. Len(history) \in Nat /\ \A i \in Len(history) - 0 + 1 .. Len(history) - 1 : FALSE
      BY <1>1
    <3> QED BY <3>1 DEF Tracked
  <2>3. 0 \in 0 .. 1 /\ 0 <= MinProposals - 1 /\ 1 - 0 <= CurrentGap /\ 0 \in Nat
    BY <1>4
  <2>4. \A i \in 1 .. Len(history) : history[i].current + 1 <= p.current
    <3> SUFFICES ASSUME NEW i \in 1 .. Len(history) PROVE history[i].current + 1 <= p.current
      OBVIOUS
    <3>1. history[i].current \in Nat /\ history[i].current <= newest
      BY <1>1 DEF Proposal
    <3> QED BY <1>1, <3>1
  <2>5. RunOf(p, 0)'
    BY <1>1, <1>3, <2>1, <2>2, <2>3, <2>4 DEF RunOf
  <2> QED BY <1>3, <2>3, <2>5 DEF SteadyInv
<1> QED BY <1>5, <1>6

\* A run that p continues: what is stored of it would have p accepted, or is too short.
LEMMA RunContinues ==
  ASSUME TypesInv, NEW p \in Candidates, Wait(p, Support(p)), Continues(p),
         NEW q \in steady.last, NEW s \in Nat, RunOf(q, s)
  PROVE  SteadyInv'
<1> DEFINE n == steady.length  d == steady.direction  L == Len(history)
           D == IF d = 0 THEN Direction(q, p) ELSE d
<1>1. /\ p \in Proposal /\ p.current = newest + 1 /\ newest \in Nat
      /\ history \in Seq(Proposal) /\ n \in Nat /\ L \in Nat
      /\ \A i \in 1 .. L : history[i].current <= newest /\ history[i] \in Proposal
  BY CandidateTypes DEF TypesInv
<1>2. /\ steady.last = {q} /\ q \in Proposal /\ q.current <= newest
      /\ s \in 0 .. n /\ s <= MinProposals - 1 /\ n - s <= CurrentGap
      /\ Tracked(history, q, d, s)
      /\ s = 0 => \A i \in 1 .. L : history[i].current + n <= q.current
  BY DEF RunOf
<1>3. Neighbour(q, p) /\ Agree(q, p) /\ Compatible(d, Direction(q, p))
  BY <1>2 DEF Continues
<1>4. steady' = [last |-> {p}, length |-> n + 1, direction |-> D]
  <2>1. (CHOOSE x \in steady.last : TRUE) = q
    BY <1>2
  <2> QED BY <2>1 DEF Wait, Run
<1>5. /\ newest' = newest + 1 /\ history' = Checked(p, Support(p))
      /\ ~(TemporalConsistent(Support(p)) /\ CycleConsistent(p, Support(p)))
  BY DEF Wait
<1>6. /\ steady'.last = {p} /\ steady'.direction = D /\ steady'.length = n + 1
      /\ p.current <= newest'
  BY <1>1, <1>4, <1>5
<1>7. /\ MinProposals \in Nat /\ MinProposals >= 2 /\ CurrentGap \in Nat /\ CurrentGap >= 1
  BY Parameters
<1>8. {0, d} \subseteq {0, D} /\ Direction(q, p) \in {0, D}
  BY <1>3 DEF Compatible
<1> HIDE DEF D, n, d, L
<1>9. CASE s >= 1
  <2>1. Tracked(history, q, D, s)
    BY <1>2, <1>8 DEF Tracked
  <2>2. /\ Support(p) \in Seq(Proposal) /\ Len(Support(p)) >= s
        /\ Support(p) # <<>> /\ Support(p)[1] = history[L]
    BY <1>1, <1>3, <1>8, <1>9, <2>1, RunSupports DEF L
  <2>3. CycleConsistent(p, Support(p))
    <3>1. history[L].offset = q.offset
      BY <1>2, <1>9 DEF Tracked, L
    <3> QED BY <1>3, <2>2, <3>1 DEF CycleConsistent, Agree
  <2>4. s + 1 <= MinProposals - 1
    <3>1. ~(Len(Support(p)) + 1 >= MinProposals)
      BY <1>5, <2>3 DEF TemporalConsistent
    <3>2. Len(Support(p)) \in Nat
      BY <2>2
    <3> QED BY <1>7, <2>2, <3>1, <3>2
  <2>5. PICK m \in {0, 1} : Follows(history', Linked(p, Support(p)), m)
    BY <1>5, <2>3, CheckedShape DEF Stored
  <2>6. /\ Linked(p, Support(p)).current = p.current
        /\ Linked(p, Support(p)).historical = p.historical
        /\ Linked(p, Support(p)).offset = p.offset
    BY CheckedShape
  <2>7. Tracked(history', p, D, s + 1)
    BY <1>1, <1>2, <1>3, <1>8, <1>9, <2>4, <2>5, <2>6, FollowsTracked
  <2>8. /\ s + 1 \in 0 .. n + 1 /\ (n + 1) - (s + 1) <= CurrentGap
        /\ s + 1 \in Nat /\ ~(s + 1 = 0)
    BY <1>1, <1>2
  <2>9. RunOf(p, s + 1)'
    BY <1>1, <1>6, <2>4, <2>7, <2>8 DEF RunOf
  <2> QED BY <1>6, <2>8, <2>9 DEF SteadyInv
<1>10. CASE s = 0
  <2>1. \A i \in 1 .. L : history[i].current + (n + 1) <= p.current
    <3> SUFFICES ASSUME NEW i \in 1 .. L PROVE history[i].current + (n + 1) <= p.current
      OBVIOUS
    <3>1. history[i].current + n <= q.current
      BY <1>2, <1>10
    <3>2. history[i].current \in Nat /\ q.current \in Nat /\ q.current <= newest
      BY <1>1, <1>2 DEF Proposal
    <3> QED BY <1>1, <3>1, <3>2
  <2>2. CASE Stored(p, Support(p))
    <3>1. PICK m \in {0, 1} : Follows(history', Linked(p, Support(p)), m)
      BY <1>5, <2>2, CheckedShape
    <3>2. Tracked(history', p, D, 1)
      BY <1>1, <3>1, CheckedShape, FirstTracked
    <3>3. /\ 1 \in 0 .. n + 1 /\ 1 <= MinProposals - 1 /\ (n + 1) - 1 <= CurrentGap
          /\ 1 \in Nat /\ ~(1 = 0)
      BY <1>1, <1>2, <1>7, <1>10
    <3>4. RunOf(p, 1)'
      BY <1>1, <1>6, <3>2, <3>3 DEF RunOf
    <3> QED BY <1>6, <3>3, <3>4 DEF SteadyInv
  <2>3. CASE ~Stored(p, Support(p))
    <3>1. history' = history
      BY <1>5, <2>3, CheckedShape
    <3>2. Tracked(history, p, D, 0)
      <4>1. Len(history) \in Nat /\ \A i \in Len(history) - 0 + 1 .. Len(history) - 1 : FALSE
        BY <1>1
      <4> QED BY <4>1 DEF Tracked
    <3>3. PICK j \in 1 .. L : p.current - history[j].current <= CurrentGap
      BY <2>3, RefusedHasNeighbour DEF L
    <3>4. history[j].current \in Nat /\ history[j].current + (n + 1) <= p.current
      BY <1>1, <2>1 DEF Proposal
    <3>5. /\ 0 \in 0 .. n + 1 /\ 0 <= MinProposals - 1 /\ (n + 1) - 0 <= CurrentGap /\ 0 \in Nat
      BY <1>1, <1>7, <3>3, <3>4
    <3>6. RunOf(p, 0)'
      BY <1>1, <1>6, <2>1, <3>1, <3>2, <3>5 DEF RunOf, L
    <3> QED BY <1>6, <3>5, <3>6 DEF SteadyInv
  <2> QED BY <2>2, <2>3
<1> QED BY <1>2, <1>9, <1>10

LEMMA NextSteadyInv == TypesInv /\ SteadyInv /\ [Next]_vars => SteadyInv'
<1> SUFFICES ASSUME TypesInv, SteadyInv, [Next]_vars PROVE SteadyInv'
  OBVIOUS
<1>1. CASE NoProposal
  <2>1. /\ newest' = newest + 1 /\ newest \in Nat /\ history' = history /\ steady' = steady
    BY <1>1 DEF NoProposal, TypesInv
  <2>2. ASSUME NEW q, NEW s, RunOf(q, s) PROVE RunOf(q, s)'
    <3>1. q.current \in Nat
      BY <2>2 DEF RunOf, Proposal
    <3>2. q.current <= newest'
      BY <2>1, <2>2, <3>1 DEF RunOf
    <3> QED BY <2>1, <2>2, <3>2 DEF RunOf
  <2> QED BY <2>1, <2>2 DEF SteadyInv
<1>2. ASSUME NEW p \in Candidates, Wait(p, Support(p)) PROVE SteadyInv'
  <2>1. CASE Continues(p)
    <3>1. steady.last # {}
      BY <2>1 DEF Continues
    <3>2. PICK q \in steady.last, s \in Nat : RunOf(q, s)
      BY <3>1 DEF SteadyInv, NoRun
    <3> QED BY <1>2, <2>1, <3>2, RunContinues
  <2>2. CASE ~Continues(p)
    BY <1>2, <2>2, RunBegins
  <2> QED BY <2>1, <2>2
<1>3. ASSUME NEW p \in Candidates, Accept(p, Support(p)) PROVE SteadyInv'
  BY <1>3 DEF Accept, SteadyInv, NoRun
<1>4. CASE Reset
  BY <1>4 DEF Reset, SteadyInv, NoRun
<1>5. CASE UNCHANGED vars
  <2>1. newest' = newest /\ history' = history /\ steady' = steady
    BY <1>5 DEF vars
  <2>2. ASSUME NEW q, NEW s, RunOf(q, s) PROVE RunOf(q, s)'
    BY <2>1, <2>2 DEF RunOf
  <2> QED BY <2>1, <2>2 DEF SteadyInv
<1> QED BY <1>1, <1>2, <1>3, <1>4, <1>5 DEF Next

\* No seed keeps a loop out for longer than the keyframes it is in reach of: of
\* proposals that continue each other one is accepted before there are
\* CurrentGap + MinProposals.
THEOREM SteadyLoopIsAlwaysAccepted == Spec => []SteadyLoopIsAccepted
<1>1. Init => SteadyInv
  BY DEF Init, SteadyInv
<1>2. TypesInv /\ SteadyInv => SteadyLoopIsAccepted
  <2> SUFFICES ASSUME TypesInv, SteadyInv PROVE SteadyLoopIsAccepted
    OBVIOUS
  <2>1. steady.length \in Nat /\ MinProposals \in Nat /\ MinProposals >= 2 /\ CurrentGap \in Nat
    BY Parameters DEF TypesInv
  <2>2. CASE steady = NoRun
    BY <2>1, <2>2 DEF NoRun, SteadyLoopIsAccepted
  <2>3. ASSUME NEW q \in steady.last, NEW s \in Nat, RunOf(q, s) PROVE SteadyLoopIsAccepted
    <3>1. s <= MinProposals - 1 /\ steady.length - s <= CurrentGap
      BY <2>3 DEF RunOf
    <3> QED BY <2>1, <3>1 DEF SteadyLoopIsAccepted
  <2> QED BY <2>2, <2>3 DEF SteadyInv
<1> QED BY <1>1, <1>2, TypesAlwaysHold, NextSteadyInv, PTL DEF Spec
=============================================================================
