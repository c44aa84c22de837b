------------------------- MODULE LoopCommit_proofs -------------------------
(***************************************************************************)
(* Proofs about LoopCommit, for every group of poses, every gate and every *)
(* spacing. What a loop trial must be able to restore is stated for the    *)
(* kept part of the graph: all of it between two trials; during one, the   *)
(* poses of the snapshot and the edges before the tried one.               *)
(***************************************************************************)
EXTENDS LoopCommit, FiniteSetTheorems, SequenceTheorems, TLAPS

\* The places of KeptEdges in edges, and those of its loops.
KeptPlaces == IF Settled THEN 1..Len(edges) ELSE 1..(Len(edges) - 1)

KeptLoops == {i \in KeptPlaces : edges[i].type = "loop"}

TrialInv ==
  /\ Settled => tried = {}
  /\ ~Settled => /\ edges # <<>> /\ tried = {edges[Len(edges)]}
                 /\ edges[Len(edges)].type = "loop"
                 /\ edges[Len(edges)].to = Len(pose)
                 /\ Len(before) = Len(pose) /\ pose # <<>>
  /\ phase = "tentative" => before = pose

LastInv ==
  /\ bridge = {} <=> lastLoop = {}
  /\ \A last \in lastLoop : last.to \in 1..Len(pose)

BridgeInv ==
  /\ bridge = {} => KeptPose = odom
  /\ \A T \in bridge, last \in lastLoop :
       \A i \in last.to..Len(pose) : KeptPose[i] = Mul(T, odom[i])

ReferenceInv ==
  /\ pose # <<>> => pose[1] = odom[1] /\ KeptPose[1] = odom[1]
  /\ \A i \in 1..Len(edges) :
       edges[i].type = "odometry" =>
         /\ edges[i].from \in 1..Len(odom) /\ edges[i].to \in 1..Len(odom)
         /\ Mul(odom[edges[i].from], edges[i].Z) = odom[edges[i].to]
  /\ \A i \in 2..Len(odom) :
       \E j \in 1..Len(edges) : edges[j].type = "odometry" /\ edges[j].from = i - 1
                                                          /\ edges[j].to = i

CountInv == Cardinality(KeptLoops) = epoch

SpacedInv ==
  /\ LoopEdgesSpaced
  /\ \A i \in Loops(edges) : edges[i].to <= Len(pose)
  /\ lastLoop = {} => KeptLoops = {}
  /\ \A last \in lastLoop :
       \E k \in KeptLoops : edges[k] = last /\ \A j \in KeptLoops : j <= k

-----------------------------------------------------------------------------
LEMMA BetweenCancels ==
  ASSUME NEW a \in Pose, NEW b \in Pose
  PROVE  Between(a, b) \in Pose /\ Mul(a, Between(a, b)) = b
BY PoseAssumption DEF Between

LEMMA BetweenChains ==
  ASSUME NEW T \in Pose, NEW a \in Pose, NEW b \in Pose
  PROVE  Mul(Mul(T, a), Between(a, b)) = Mul(T, b)
<1>1. Mul(Mul(T, a), Between(a, b)) = Mul(T, Mul(a, Between(a, b)))
  BY BetweenCancels, PoseAssumption
<1> QED
  BY <1>1, BetweenCancels

LEMMA BridgeReturns ==
  ASSUME NEW p \in Pose, NEW o \in Pose
  PROVE  Mul(p, Inv(o)) \in Pose /\ Mul(Mul(p, Inv(o)), o) = p
<1>1. Mul(Mul(p, Inv(o)), o) = Mul(p, Mul(Inv(o), o))
  BY PoseAssumption
<1> QED
  BY <1>1, PoseAssumption

\* The edge a rollback erases is the one that the trial added.
LEMMA RollbackErasesTried ==
  ASSUME TypeOK, TrialInv, phase = "rollback", NEW edge \in tried
  PROVE  RemoveLoopEdge(edges, edge.from, edge.to) = SubSeq(edges, 1, Len(edges) - 1)
<1> DEFINE n == Len(edges)
           matches == {i \in Loops(edges) : edges[i].from = edge.from
                                            /\ edges[i].to = edge.to}
           last == CHOOSE i \in matches : \A j \in matches : j <= i
<1>1. n \in Nat /\ n >= 1 /\ edge = edges[n] /\ edges[n].type = "loop"
  BY DEF TypeOK, TrialInv, Settled
<1>2. n \in matches /\ matches \subseteq 1..n
  BY <1>1 DEF Loops
<1>3. \A j \in matches : j <= n
  BY <1>1, <1>2
<1>4. last \in matches /\ \A j \in matches : j <= last
  BY <1>2, <1>3
<1>5. last = n
  BY <1>1, <1>2, <1>3, <1>4
<1>6. SubSeq(edges, n + 1, n) = <<>>
  BY <1>1 DEF TypeOK
<1>7. SubSeq(edges, 1, n - 1) \in Seq(Edge)
  BY <1>1 DEF TypeOK
<1>8. RemoveLoopEdge(edges, edge.from, edge.to)
        = SubSeq(edges, 1, last - 1) \o SubSeq(edges, last + 1, Len(edges))
  BY <1>2 DEF RemoveLoopEdge
<1>9. SubSeq(edges, 1, n - 1) \o <<>> = SubSeq(edges, 1, n - 1)
  BY <1>7, ConcatEmptySeq
<1> QED
  BY <1>5, <1>6, <1>8, <1>9

\* Without its last element a sequence keeps the others.
LEMMA FrontOf ==
  ASSUME NEW S, NEW s \in Seq(S), s # <<>>
  PROVE  /\ SubSeq(s, 1, Len(s) - 1) \in Seq(S)
         /\ Len(SubSeq(s, 1, Len(s) - 1)) = Len(s) - 1
         /\ \A i \in 1..(Len(s) - 1) : SubSeq(s, 1, Len(s) - 1)[i] = s[i]
<1> DEFINE n == Len(s) - 1
<1>1. n \in Nat /\ \A i \in 1..n : s[i] \in S
  OBVIOUS
<1> HIDE DEF n
<1>2. /\ SubSeq(s, 1, n) \in Seq(S)
      /\ Len(SubSeq(s, 1, n)) = IF 1 <= n THEN n - 1 + 1 ELSE 0
      /\ \A i \in 1..(n - 1 + 1) : SubSeq(s, 1, n)[i] = s[1 + i - 1]
  BY <1>1, SubSeqProperties
<1>3. Len(SubSeq(s, 1, n)) = n /\ \A i \in 1..n : SubSeq(s, 1, n)[i] = s[i]
  BY <1>1, <1>2
<1> QED
  BY <1>2, <1>3 DEF n

LEMMA AppendOf ==
  ASSUME NEW S, NEW s \in Seq(S), NEW e \in S
  PROVE  /\ Append(s, e) \in Seq(S)
         /\ Len(Append(s, e)) = Len(s) + 1
         /\ \A i \in 1..Len(s) : Append(s, e)[i] = s[i]
         /\ Append(s, e)[Len(s) + 1] = e
OBVIOUS

\* What AddKeyframeToPoseGraph computes.
LEMMA KeyframeStep ==
  ASSUME TypeOK, AddKeyframeToPoseGraph
  PROVE  \E now \in Pose :
           LET n == Len(odom)
           IN /\ odom' = Append(odom, now)
              /\ n = 0 => pose' = <<now>> /\ edges' = edges
              /\ n > 0 => /\ odom[n] \in Pose /\ pose[n] \in Pose
                          /\ Mul(pose[n], Between(odom[n], now)) \in Pose
                          /\ pose' = Append(pose, Mul(pose[n], Between(odom[n], now)))
                          /\ OdometryEdge(n, n + 1, Between(odom[n], now)) \in Edge
                          /\ edges' = Append(edges, OdometryEdge(n, n + 1,
                                                      Between(odom[n], now)))
<1>1. PICK motion \in Motions :
        LET n   == Len(odom)
            now == IF n = 0 THEN motion ELSE Mul(odom[n], motion)
        IN /\ odom' = Append(odom, now)
           /\ pose' = IF n = 0 THEN <<now>>
                      ELSE Append(pose, Mul(pose[n], Between(odom[n], now)))
           /\ edges' = IF n = 0 THEN edges
                       ELSE Append(edges, OdometryEdge(n, n + 1, Between(odom[n], now)))
  BY DEF AddKeyframeToPoseGraph
<1> DEFINE n   == Len(odom)
           now == IF n = 0 THEN motion ELSE Mul(odom[n], motion)
<1>2. motion \in Pose /\ n \in Nat
  BY LoopAssumption DEF TypeOK
<1>3. n > 0 => odom[n] \in Pose /\ pose[n] \in Pose
  BY <1>2 DEF TypeOK
<1>4. now \in Pose
  BY <1>2, <1>3, PoseAssumption
<1>5. n > 0 => Between(odom[n], now) \in Pose
  BY <1>3, <1>4, BetweenCancels
<1>6. n > 0 => Mul(pose[n], Between(odom[n], now)) \in Pose
  BY <1>3, <1>5, PoseAssumption
<1>7. n > 0 => OdometryEdge(n, n + 1, Between(odom[n], now)) \in Edge
  BY <1>2, <1>5 DEF OdometryEdge, Edge
<1> HIDE DEF now
<1>8. odom' = Append(odom, now)
  BY <1>1 DEF now
<1>9. n = 0 => pose' = <<now>> /\ edges' = edges
  BY <1>1 DEF now
<1>10. n > 0 => /\ pose' = Append(pose, Mul(pose[n], Between(odom[n], now)))
                /\ edges' = Append(edges, OdometryEdge(n, n + 1, Between(odom[n], now)))
  BY <1>1, <1>2 DEF now
<1> QED
  BY <1>3, <1>4, <1>6, <1>7, <1>8, <1>9, <1>10

\* What a rollback leaves: the snapshot's poses and the edges before the trial.
LEMMA RollbackStep ==
  ASSUME TypeOK, TrialInv, Rollback
  PROVE  /\ pose' = before
         /\ edges # <<>>
         /\ edges' \in Seq(Edge) /\ Len(edges') = Len(edges) - 1
         /\ \A i \in 1..(Len(edges) - 1) : edges'[i] = edges[i]
         /\ edges[Len(edges)].type = "loop"
         /\ Len(before) = Len(pose)
<1>1. edges # <<>> /\ Len(before) = Len(pose) /\ edges[Len(edges)].type = "loop"
  BY DEF TrialInv, Rollback, Settled
<1>2. pose' = before
  BY <1>1 DEF Rollback, TypeOK
<1>3. PICK edge \in tried : edges' = RemoveLoopEdge(edges, edge.from, edge.to)
  BY DEF Rollback
<1>4. edges' = SubSeq(edges, 1, Len(edges) - 1)
  BY <1>3, RollbackErasesTried DEF Rollback
<1> QED
  BY <1>1, <1>2, <1>4, FrontOf DEF TypeOK

\* What a trial adds.
LEMMA TrialStep ==
  ASSUME TypeOK, AddLoopEdge
  PROVE  \E hist \in 1..(Len(pose) - 1) : \E edge \in Edge :
           /\ edge.type = "loop" /\ edge.from = hist /\ edge.to = Len(pose)
           /\ Spaced(hist, Len(pose))
           /\ tried' = {edge} /\ edges' = Append(edges, edge)
<1>1. PICK hist \in 1..(Len(pose) - MinSeparation), Z \in Pose :
        /\ Spaced(hist, Len(pose))
        /\ tried' = {[type |-> "loop", from |-> hist, to |-> Len(pose), Z |-> Z]}
        /\ edges' = Append(edges, [type |-> "loop", from |-> hist, to |-> Len(pose),
                                   Z |-> Z])
  BY DEF AddLoopEdge
<1>2. hist \in 1..(Len(pose) - 1) /\ Len(pose) \in Nat
  BY LoopAssumption DEF TypeOK
<1>3. [type |-> "loop", from |-> hist, to |-> Len(pose), Z |-> Z] \in Edge
  BY <1>2 DEF Edge
<1> QED
  BY <1>1, <1>2, <1>3

-----------------------------------------------------------------------------
LEMMA InitTypes == Init => TypeOK /\ TrialInv /\ LastInv
BY DEF Init, TypeOK, TrialInv, LastInv, Settled

LEMMA NextTypes ==
  TypeOK /\ TrialInv /\ LastInv /\ [Next]_vars => (TypeOK /\ TrialInv /\ LastInv)'
<1> SUFFICES ASSUME TypeOK, TrialInv, LastInv, [Next]_vars
             PROVE  (TypeOK /\ TrialInv /\ LastInv)'
  OBVIOUS
<1>1. CASE AddKeyframeToPoseGraph
  <2>1. PICK now \in Pose :
          LET n == Len(odom)
          IN /\ odom' = Append(odom, now)
             /\ n = 0 => pose' = <<now>> /\ edges' = edges
             /\ n > 0 => /\ Mul(pose[n], Between(odom[n], now)) \in Pose
                         /\ pose' = Append(pose, Mul(pose[n], Between(odom[n], now)))
                         /\ OdometryEdge(n, n + 1, Between(odom[n], now)) \in Edge
                         /\ edges' = Append(edges, OdometryEdge(n, n + 1,
                                                     Between(odom[n], now)))
    BY <1>1, KeyframeStep
  <2>2. odom' \in Seq(Pose) /\ Len(odom') = Len(odom) + 1
    BY <2>1 DEF TypeOK
  <2>3. pose' \in Seq(Pose) /\ Len(pose') = Len(pose) + 1 /\ edges' \in Seq(Edge)
    <3>3. /\ Len(odom) \in Nat /\ Len(pose) = Len(odom)
          /\ pose \in Seq(Pose) /\ edges \in Seq(Edge)
      BY DEF TypeOK
    <3>1. CASE Len(odom) = 0
      <4>1. pose' = <<now>> /\ edges' = edges
        BY <2>1, <3>1
      <4>2. <<now>> \in Seq(Pose) /\ Len(<<now>>) = 1
        OBVIOUS
      <4> QED
        BY <3>1, <3>3, <4>1, <4>2
    <3>2. CASE Len(odom) > 0
      <4> DEFINE p == Mul(pose[Len(odom)], Between(odom[Len(odom)], now))
                 e == OdometryEdge(Len(odom), Len(odom) + 1, Between(odom[Len(odom)], now))
      <4>1. p \in Pose /\ e \in Edge /\ pose' = Append(pose, p) /\ edges' = Append(edges, e)
        BY <2>1, <3>2
      <4> HIDE DEF p, e
      <4> QED
        BY <3>3, <4>1, AppendOf
    <3> QED
      BY <3>1, <3>2, <3>3
  <2>4. phase = "insert" /\ phase' = "search"
        /\ UNCHANGED <<tried, before, lastLoop, epoch, bridge>>
    BY <1>1 DEF AddKeyframeToPoseGraph
  <2>5. TypeOK'
    BY <2>2, <2>3, <2>4 DEF TypeOK
  <2>6. TrialInv'
    BY <2>4 DEF TrialInv, Settled
  <2> QED
    BY <2>3, <2>4, <2>5, <2>6 DEF LastInv, TypeOK
<1>2. CASE NoLoop
  BY <1>2 DEF NoLoop, TypeOK, TrialInv, LastInv, Settled
<1>3. CASE AddLoopEdge
  <2>1. PICK hist \in 1..(Len(pose) - 1), edge \in Edge :
           /\ edge.type = "loop" /\ edge.to = Len(pose)
           /\ tried' = {edge} /\ edges' = Append(edges, edge)
    BY <1>3, TrialStep
  <2>2. /\ edges' \in Seq(Edge) /\ Len(edges') = Len(edges) + 1
        /\ edges'[Len(edges')] = edge /\ edges' # <<>>
    BY <2>1, AppendOf DEF TypeOK
  <2>3. /\ phase' = "tentative" /\ before' = pose
        /\ UNCHANGED <<odom, pose, lastLoop, epoch, bridge>>
    BY <1>3 DEF AddLoopEdge
  <2>4. TypeOK'
    BY <2>1, <2>2, <2>3 DEF TypeOK
  <2>5. pose # <<>>
    BY <2>1 DEF TypeOK
  <2>6. TrialInv'
    BY <2>1, <2>2, <2>3, <2>5 DEF TrialInv, Settled
  <2> QED
    BY <2>3, <2>4, <2>6 DEF LastInv
<1>4. CASE Optimize
  <2>1. /\ phase = "tentative" /\ phase' \in {"optimized", "rollback"}
        /\ pose' \in [1..Len(pose) -> Pose] \/ pose' = pose
        /\ UNCHANGED <<odom, edges, tried, before, lastLoop, epoch, bridge>>
    BY <1>4 DEF Optimize
  <2>2. pose' \in Seq(Pose) /\ Len(pose') = Len(pose)
    <3>1. Len(pose) \in Nat /\ pose \in Seq(Pose)
      BY DEF TypeOK
    <3>2. CASE pose' \in [1..Len(pose) -> Pose]
      BY <3>1, <3>2, IsASeq, LenProperties
    <3> QED
      BY <2>1, <3>1, <3>2
  <2>3. TypeOK'
    BY <2>1, <2>2 DEF TypeOK
  <2>4. Len(pose) > 0 /\ Len(before) = Len(pose)
    BY <2>1 DEF TrialInv, Settled, TypeOK
  <2>5. TrialInv'
    BY <2>1, <2>2, <2>4 DEF TrialInv, Settled, TypeOK
  <2> QED
    BY <2>1, <2>2, <2>3, <2>5 DEF LastInv
<1>5. CASE AcceptLoop
  <2>1. /\ phase = "optimized" /\ phase' = "insert" /\ tried' = {}
        /\ epoch' = epoch + 1 /\ lastLoop' = tried
        /\ bridge' = {Mul(pose[Len(pose)], Inv(odom[Len(pose)]))}
        /\ UNCHANGED <<odom, pose, edges, before>>
    BY <1>5 DEF AcceptLoop, UpdateMapOdomCorrection
  <2>2. /\ edges # <<>> /\ tried = {edges[Len(edges)]} /\ pose # <<>>
        /\ edges[Len(edges)].to = Len(pose)
    BY <2>1 DEF TrialInv, Settled
  <2>3. pose[Len(pose)] \in Pose /\ odom[Len(pose)] \in Pose /\ Len(pose) \in 1..Len(pose)
    BY <2>2 DEF TypeOK
  <2>4. Mul(pose[Len(pose)], Inv(odom[Len(pose)])) \in Pose
    BY <2>3, BridgeReturns
  <2>5. TypeOK'
    BY <2>1, <2>4 DEF TypeOK
  <2>6. TrialInv'
    BY <2>1 DEF TrialInv, Settled
  <2> QED
    BY <2>1, <2>2, <2>3, <2>5, <2>6 DEF LastInv
<1>6. CASE GuardRejectsUpdate
  BY <1>6 DEF GuardRejectsUpdate, TypeOK, TrialInv, LastInv, Settled
<1>7. CASE Rollback
  <2>1. /\ pose' = before /\ edges' \in Seq(Edge) /\ Len(before) = Len(pose)
    BY <1>7, RollbackStep
  <2>2. /\ phase' = "insert" /\ tried' = {}
        /\ UNCHANGED <<odom, before, lastLoop, epoch, bridge>>
    BY <1>7 DEF Rollback
  <2> QED
    BY <2>1, <2>2 DEF TypeOK, TrialInv, LastInv, Settled
<1>8. CASE UNCHANGED vars
  BY <1>8 DEF vars, TypeOK, TrialInv, LastInv, Settled
<1> QED
  BY <1>1, <1>2, <1>3, <1>4, <1>5, <1>6, <1>7, <1>8 DEF Next, NoMoreKeyframes

\* pose_graph_, backend_keyframes_ and the snapshot keep their types, and the
\* graph has a node for every keyframe.
THEOREM TypeCorrect == Spec => []TypeOK
<1>1. Spec => [](TypeOK /\ TrialInv /\ LastInv)
  BY InitTypes, NextTypes, PTL DEF Spec
<1> QED
  BY <1>1, PTL

-----------------------------------------------------------------------------
LEMMA NextBridge ==
  TypeOK /\ TrialInv /\ LastInv /\ BridgeInv /\ [Next]_vars => BridgeInv'
<1> SUFFICES ASSUME TypeOK, TrialInv, LastInv, BridgeInv, [Next]_vars
             PROVE  BridgeInv'
  OBVIOUS
<1>1. CASE AddKeyframeToPoseGraph
  <2> DEFINE n == Len(odom)
  <2>1. PICK now \in Pose :
          /\ odom' = Append(odom, now)
          /\ n = 0 => pose' = <<now>>
          /\ n > 0 => /\ odom[n] \in Pose /\ pose[n] \in Pose
                      /\ Mul(pose[n], Between(odom[n], now)) \in Pose
                      /\ pose' = Append(pose, Mul(pose[n], Between(odom[n], now)))
    BY <1>1, KeyframeStep
  <2>2. n \in Nat /\ Len(pose) = n /\ odom \in Seq(Pose) /\ pose \in Seq(Pose)
    BY DEF TypeOK
  <2>3. Settled /\ Settled' /\ UNCHANGED <<bridge, lastLoop>>
    BY <1>1 DEF AddKeyframeToPoseGraph, Settled
  <2>4. ASSUME bridge = {} PROVE pose' = odom'
    <3>1. pose = odom
      BY <2>3, <2>4 DEF BridgeInv, KeptPose
    <3>2. CASE n = 0
      BY <2>1, <2>2, <3>2
    <3>3. CASE n > 0
      BY <2>1, <3>1, <3>3, BetweenCancels
    <3> QED
      BY <2>2, <3>2, <3>3
  <2>5. ASSUME NEW T \in bridge, NEW last \in lastLoop, NEW i \in last.to..Len(pose')
        PROVE  pose'[i] = Mul(T, odom'[i])
    <3>1. last.to \in 1..n /\ n > 0 /\ T \in Pose
      BY <2>2 DEF LastInv, TypeOK
    <3>2. \A j \in last.to..n : pose[j] = Mul(T, odom[j])
      BY <2>2, <2>3 DEF BridgeInv, KeptPose
    <3> DEFINE p == Mul(pose[n], Between(odom[n], now))
    <3>3. p = Mul(T, now)
      <4>1. pose[n] = Mul(T, odom[n])
        BY <3>1, <3>2
      <4> QED
        BY <2>1, <3>1, <4>1, BetweenChains
    <3>4. p \in Pose /\ pose' = Append(pose, p)
      BY <2>1, <3>1
    <3> HIDE DEF p
    <3>5. /\ Len(pose') = n + 1 /\ pose'[n + 1] = p /\ odom'[n + 1] = now
          /\ \A j \in 1..n : pose'[j] = pose[j] /\ odom'[j] = odom[j]
      BY <2>1, <2>2, <3>4, AppendOf
    <3>6. CASE i = n + 1
      BY <3>3, <3>5, <3>6
    <3>7. CASE i \in last.to..n
      BY <3>1, <3>2, <3>5, <3>7
    <3> QED
      BY <2>2, <3>1, <3>5, <3>6, <3>7
  <2> QED
    BY <2>3, <2>4, <2>5 DEF BridgeInv, KeptPose
<1>2. CASE NoLoop
  BY <1>2 DEF NoLoop, BridgeInv, KeptPose, Settled
<1>3. CASE AddLoopEdge
  BY <1>3 DEF AddLoopEdge, BridgeInv, KeptPose, Settled
<1>4. CASE Optimize
  <2>1. Len(pose') = Len(pose)
    BY <1>4, NextTypes DEF TypeOK, Next, Optimize
  <2> QED
    BY <1>4, <2>1 DEF Optimize, BridgeInv, KeptPose, Settled
<1>5. CASE AcceptLoop
  <2> DEFINE n == Len(pose)
  <2>1. /\ Settled' /\ lastLoop' = tried /\ UNCHANGED <<odom, pose>>
        /\ bridge' = {Mul(pose[n], Inv(odom[n]))}
    BY <1>5 DEF AcceptLoop, UpdateMapOdomCorrection, Settled
  <2>2. n > 0 /\ \A last \in tried : last.to = n
    BY <1>5 DEF AcceptLoop, TrialInv, Settled, TypeOK
  <2>3. pose[n] \in Pose /\ odom[n] \in Pose
    BY <2>2 DEF TypeOK
  <2>4. Mul(Mul(pose[n], Inv(odom[n])), odom[n]) = pose[n]
    BY <2>3, BridgeReturns
  <2>5. n..n = {n}
    BY DEF TypeOK
  <2> QED
    BY <2>1, <2>2, <2>4, <2>5 DEF BridgeInv, KeptPose
<1>6. CASE GuardRejectsUpdate
  BY <1>6 DEF GuardRejectsUpdate, BridgeInv, KeptPose, Settled
<1>7. CASE Rollback
  <2>1. pose' = before /\ Len(before) = Len(pose)
    BY <1>7, RollbackStep
  <2> QED
    BY <1>7, <2>1 DEF Rollback, BridgeInv, KeptPose, Settled
<1>8. CASE UNCHANGED vars
  BY <1>8 DEF vars, BridgeInv, KeptPose, Settled
<1> QED
  BY <1>1, <1>2, <1>3, <1>4, <1>5, <1>6, <1>7, <1>8 DEF Next, NoMoreKeyframes

\* pose_graph_backend.cpp:184: the chained pose of a new keyframe and the
\* map->odom bridge predict the same corrected pose, whatever was optimised,
\* accepted and rolled back before.
THEOREM BridgeFollowsGraph == Spec => []BridgeMatchesGraph
<1>1. Init => BridgeInv
  BY DEF Init, BridgeInv, KeptPose, Settled
<1>2. TypeOK /\ TrialInv /\ LastInv /\ BridgeInv => BridgeMatchesGraph
  BY DEF BridgeInv, KeptPose, BridgeMatchesGraph
<1> QED
  BY <1>1, <1>2, InitTypes, NextTypes, NextBridge, PTL DEF Spec

-----------------------------------------------------------------------------
LEMMA NextReference ==
  TypeOK /\ TrialInv /\ ReferenceInv /\ [Next]_vars => ReferenceInv'
<1> SUFFICES ASSUME TypeOK, TrialInv, ReferenceInv, [Next]_vars
             PROVE  ReferenceInv'
  OBVIOUS
<1> DEFINE n == Len(odom)
<1>0. n \in Nat /\ Len(pose) = n /\ odom \in Seq(Pose) /\ pose \in Seq(Pose)
      /\ edges \in Seq(Edge)
  BY DEF TypeOK
<1>1. CASE AddKeyframeToPoseGraph
  <2>1. PICK now \in Pose :
          /\ odom' = Append(odom, now)
          /\ n = 0 => pose' = <<now>> /\ edges' = edges
          /\ n > 0 => /\ odom[n] \in Pose
                      /\ Mul(pose[n], Between(odom[n], now)) \in Pose
                      /\ pose' = Append(pose, Mul(pose[n], Between(odom[n], now)))
                      /\ OdometryEdge(n, n + 1, Between(odom[n], now)) \in Edge
                      /\ edges' = Append(edges, OdometryEdge(n, n + 1,
                                                  Between(odom[n], now)))
    BY <1>1, KeyframeStep
  <2>2. Settled /\ Settled'
    BY <1>1 DEF AddKeyframeToPoseGraph, Settled
  <2>3. /\ Len(odom') = n + 1 /\ odom'[n + 1] = now
        /\ \A i \in 1..n : odom'[i] = odom[i]
    BY <1>0, <2>1, AppendOf
  <2>4. CASE n = 0
    <3>1. \A i \in 1..Len(edges) : edges[i].type # "odometry"
      BY <1>0, <2>4 DEF ReferenceInv
    <3> QED
      BY <2>1, <2>2, <2>3, <2>4, <3>1 DEF ReferenceInv, KeptPose
  <2>5. CASE n > 0
    <3> DEFINE p == Mul(pose[n], Between(odom[n], now))
               e == OdometryEdge(n, n + 1, Between(odom[n], now))
               m == Len(edges)
    <3>1. p \in Pose /\ pose' = Append(pose, p) /\ e \in Edge /\ edges' = Append(edges, e)
      BY <2>1, <2>5
    <3>2. e.type = "odometry" /\ e.from = n /\ e.to = n + 1 /\ Mul(odom[n], e.Z) = now
      BY <2>1, <2>5, BetweenCancels DEF OdometryEdge
    <3> HIDE DEF p, e
    <3>3. /\ Len(edges') = m + 1 /\ edges'[m + 1] = e /\ m \in Nat
          /\ \A i \in 1..m : edges'[i] = edges[i]
      BY <1>0, <3>1, AppendOf
    <3>4. pose'[1] = odom'[1] /\ KeptPose' = pose'
      <4>1. pose'[1] = pose[1] /\ pose # <<>>
        BY <1>0, <2>5, <3>1, AppendOf
      <4> QED
        BY <2>2, <2>3, <2>5, <4>1 DEF ReferenceInv, KeptPose
    <3>5. ASSUME NEW i \in 1..Len(edges'), edges'[i].type = "odometry"
          PROVE  /\ edges'[i].from \in 1..Len(odom') /\ edges'[i].to \in 1..Len(odom')
                 /\ Mul(odom'[edges'[i].from], edges'[i].Z) = odom'[edges'[i].to]
      <4>1. CASE i = m + 1
        BY <1>0, <2>3, <2>5, <3>2, <3>3, <4>1
      <4>2. CASE i \in 1..m
        BY <1>0, <2>3, <3>3, <3>5, <4>2 DEF ReferenceInv
      <4> QED
        BY <3>3, <4>1, <4>2
    <3>6. ASSUME NEW i \in 2..Len(odom')
          PROVE  \E j \in 1..Len(edges') : /\ edges'[j].type = "odometry"
                                           /\ edges'[j].from = i - 1
                                           /\ edges'[j].to = i
      <4>1. CASE i = n + 1
        BY <1>0, <3>2, <3>3, <4>1
      <4>2. CASE i \in 2..n
        BY <3>3, <4>2 DEF ReferenceInv
      <4> QED
        BY <1>0, <2>3, <4>1, <4>2
    <3> QED
      BY <3>4, <3>5, <3>6 DEF ReferenceInv
  <2> QED
    BY <1>0, <2>4, <2>5
<1>2. CASE NoLoop
  BY <1>2 DEF NoLoop, ReferenceInv, KeptPose, Settled
<1>3. CASE AddLoopEdge
  <2>1. PICK edge \in Edge : edge.type = "loop" /\ edges' = Append(edges, edge)
    BY <1>3, TrialStep
  <2>2. /\ Len(edges') = Len(edges) + 1 /\ edges'[Len(edges) + 1] = edge
        /\ \A i \in 1..Len(edges) : edges'[i] = edges[i]
    BY <1>0, <2>1, AppendOf
  <2>3. UNCHANGED <<odom, pose>> /\ KeptPose' = pose
    BY <1>3 DEF AddLoopEdge, KeptPose, Settled
  <2>4. \A i \in 1..Len(edges') : edges'[i].type = "odometry"
                                   => i \in 1..Len(edges) /\ edges'[i] = edges[i]
    BY <1>0, <2>1, <2>2
  <2>5. \A j \in 1..Len(edges) : j \in 1..Len(edges') /\ edges'[j] = edges[j]
    BY <1>0, <2>2
  <2>6. pose # <<>> => pose[1] = odom[1]
    BY DEF ReferenceInv
  <2>7. \A i \in 2..n : \E j \in 1..Len(edges') : /\ edges'[j].type = "odometry"
                                                 /\ edges'[j].from = i - 1
                                                 /\ edges'[j].to = i
    <3>1. \A i \in 2..n : \E j \in 1..Len(edges) : /\ edges[j].type = "odometry"
                                                  /\ edges[j].from = i - 1
                                                  /\ edges[j].to = i
      BY DEF ReferenceInv
    <3> QED
      BY <2>5, <3>1
  <2> QED
    BY <2>3, <2>4, <2>6, <2>7 DEF ReferenceInv
<1>4. CASE Optimize
  <2>1. /\ phase = "tentative" /\ ~Settled /\ ~Settled'
        /\ UNCHANGED <<odom, edges, before>>
        /\ pose' = pose \/ (pose' \in [1..n -> Pose] /\ pose'[1] = pose[1])
    BY <1>0, <1>4 DEF Optimize, Settled
  <2>2. pose # <<>>
    BY <2>1 DEF TrialInv
  <2>3. pose'[1] = odom[1] /\ KeptPose' = before /\ before[1] = odom[1]
    BY <2>1, <2>2 DEF ReferenceInv, KeptPose
  <2> QED
    BY <2>1, <2>3 DEF ReferenceInv
<1>5. CASE AcceptLoop
  BY <1>5 DEF AcceptLoop, ReferenceInv, KeptPose, Settled
<1>6. CASE GuardRejectsUpdate
  BY <1>6 DEF GuardRejectsUpdate, ReferenceInv, KeptPose, Settled
<1>7. CASE Rollback
  <2> DEFINE m == Len(edges)
  <2>1. /\ pose' = before /\ edges # <<>> /\ Len(edges') = m - 1
        /\ \A i \in 1..(m - 1) : edges'[i] = edges[i]
        /\ edges[m].type = "loop" /\ Len(before) = n
    BY <1>0, <1>7, RollbackStep
  <2>2. odom' = odom /\ ~Settled /\ Settled'
    BY <1>7 DEF Rollback, Settled
  <2>3. pose' # <<>> => pose # <<>>
    BY <1>0, <2>1 DEF TypeOK
  <2>4. pose' # <<>> => pose'[1] = odom'[1] /\ KeptPose' = pose'
    BY <2>1, <2>2, <2>3 DEF ReferenceInv, KeptPose
  <2>5. m \in Nat /\ m >= 1
    BY <1>0, <2>1
  <2>6. \A j \in 1..m : edges[j].type = "odometry" => j \in 1..(m - 1)
    BY <2>1, <2>5
  <2>7. \A i \in 2..n : \E j \in 1..(m - 1) : /\ edges[j].type = "odometry"
                                             /\ edges[j].from = i - 1
                                             /\ edges[j].to = i
    BY <2>6 DEF ReferenceInv
  <2>8. \A i \in 1..(m - 1) : i \in 1..m
    BY <2>5
  <2>9. \A i \in 1..(m - 1) :
          edges[i].type = "odometry" =>
            /\ edges[i].from \in 1..n /\ edges[i].to \in 1..n
            /\ Mul(odom[edges[i].from], edges[i].Z) = odom[edges[i].to]
    BY <2>8 DEF ReferenceInv
  <2> HIDE DEF m
  <2>10. \A i \in 1..Len(edges') :
           edges'[i].type = "odometry" =>
             /\ edges'[i].from \in 1..Len(odom') /\ edges'[i].to \in 1..Len(odom')
             /\ Mul(odom'[edges'[i].from], edges'[i].Z) = odom'[edges'[i].to]
    BY <2>1, <2>2, <2>9
  <2>11. \A i \in 2..Len(odom') :
           \E j \in 1..Len(edges') : /\ edges'[j].type = "odometry"
                                    /\ edges'[j].from = i - 1
                                    /\ edges'[j].to = i
    BY <2>1, <2>2, <2>7
  <2> QED
    BY <2>4, <2>10, <2>11 DEF ReferenceInv
<1>8. CASE UNCHANGED vars
  BY <1>8 DEF vars, ReferenceInv, KeptPose, Settled
<1> QED
  BY <1>1, <1>2, <1>3, <1>4, <1>5, <1>6, <1>7, <1>8 DEF Next, NoMoreKeyframes

\* pose_graph_optimizer.cpp:1467: the trajectory reconstructed from the fixed
\* node and the odometry edges is the frontend's, and no optimisation moves it.
THEOREM ReferenceStaysImmutable == Spec => []ReferenceIsImmutable
<1>1. Init => ReferenceInv
  BY DEF Init, ReferenceInv, KeptPose, Settled
<1>2. ReferenceInv => ReferenceIsImmutable
  BY DEF ReferenceInv, ReferenceIsImmutable
<1> QED
  BY <1>1, <1>2, InitTypes, NextTypes, NextReference, PTL DEF Spec

-----------------------------------------------------------------------------
\* Extending the graph by an odometry edge, or by the tried edge, leaves the
\* kept loop edges alone.
LEMMA KeptAfterInsert ==
  ASSUME TypeOK, AddKeyframeToPoseGraph
  PROVE  /\ KeptLoops' = KeptLoops /\ KeptLoops = Loops(edges) /\ Loops(edges') = Loops(edges)
         /\ \A i \in 1..Len(edges) : edges'[i] = edges[i]
<1> DEFINE n == Len(odom)
           m == Len(edges)
<1>1. PICK now \in Pose :
        /\ n = 0 => edges' = edges
        /\ n > 0 => /\ OdometryEdge(n, n + 1, Between(odom[n], now)) \in Edge
                    /\ edges' = Append(edges, OdometryEdge(n, n + 1,
                                                Between(odom[n], now)))
  BY KeyframeStep
<1>2. n \in Nat /\ m \in Nat /\ edges \in Seq(Edge) /\ Settled /\ Settled'
  BY DEF TypeOK, AddKeyframeToPoseGraph, Settled
<1>3. edges' = edges \/ \E e \in Edge : e.type = "odometry" /\ edges' = Append(edges, e)
  <2>1. CASE n > 0
    <3> DEFINE e == OdometryEdge(n, n + 1, Between(odom[n], now))
    <3>1. e \in Edge /\ e.type = "odometry" /\ edges' = Append(edges, e)
      BY <1>1, <2>1 DEF OdometryEdge
    <3> QED
      BY <3>1
  <2> QED
    BY <1>1, <1>2, <2>1
<1>4. ASSUME NEW e \in Edge, e.type = "odometry", edges' = Append(edges, e)
      PROVE  Loops(edges') = Loops(edges) /\ \A i \in 1..m : edges'[i] = edges[i]
  <2>1. Len(edges') = m + 1 /\ edges'[m + 1] = e /\ \A i \in 1..m : edges'[i] = edges[i]
    BY <1>2, <1>4, AppendOf
  <2>2. e.type # "loop"
    BY <1>4
  <2> QED
    BY <1>2, <2>1, <2>2 DEF Loops
<1> QED
  BY <1>2, <1>3, <1>4 DEF KeptLoops, KeptPlaces, Loops

LEMMA KeptAfterTrial ==
  ASSUME TypeOK, AddLoopEdge
  PROVE  /\ KeptLoops' = KeptLoops /\ KeptLoops = Loops(edges)
         /\ Loops(edges') = Loops(edges) \cup {Len(edges) + 1}
         /\ \A i \in 1..Len(edges) : edges'[i] = edges[i]
<1>1. PICK e \in Edge : e.type = "loop" /\ edges' = Append(edges, e)
  BY TrialStep
<1>2. Settled /\ ~Settled' /\ Len(edges) \in Nat /\ edges \in Seq(Edge)
  BY DEF TypeOK, AddLoopEdge, Settled
<1>3. /\ Len(edges') = Len(edges) + 1 /\ edges'[Len(edges) + 1] = e
      /\ \A i \in 1..Len(edges) : edges'[i] = edges[i]
  BY <1>1, <1>2, AppendOf
<1> QED
  BY <1>1, <1>2, <1>3 DEF KeptLoops, KeptPlaces, Loops

LEMMA KeptAfterRollback ==
  ASSUME TypeOK, TrialInv, Rollback
  PROVE  /\ KeptLoops' = KeptLoops /\ KeptLoops' = Loops(edges')
         /\ \A i \in KeptPlaces : edges'[i] = edges[i]
<1>1. /\ edges # <<>> /\ Len(edges') = Len(edges) - 1
      /\ \A i \in 1..(Len(edges) - 1) : edges'[i] = edges[i]
  BY RollbackStep
<1>2. ~Settled /\ Settled'
  BY DEF Rollback, Settled
<1> QED
  BY <1>1, <1>2 DEF KeptLoops, KeptPlaces, Loops

\* During a trial the loop edges are the kept ones and the tried one, the last.
LEMMA TriedIsLast ==
  ASSUME TypeOK, TrialInv, ~Settled
  PROVE  /\ Len(edges) \in Nat /\ Len(edges) > 0
         /\ Loops(edges) = KeptLoops \cup {Len(edges)} /\ Len(edges) \notin KeptLoops
         /\ tried = {edges[Len(edges)]} /\ edges[Len(edges)].to = Len(pose)
<1>1. /\ Len(edges) \in Nat /\ Len(edges) > 0 /\ edges[Len(edges)].type = "loop"
      /\ tried = {edges[Len(edges)]} /\ edges[Len(edges)].to = Len(pose)
  BY DEF TypeOK, TrialInv
<1> QED
  BY <1>1 DEF KeptLoops, KeptPlaces, Loops

LEMMA KeptLoopsFinite == TypeOK => IsFiniteSet(KeptLoops)
<1> SUFFICES ASSUME TypeOK PROVE IsFiniteSet(KeptLoops)
  OBVIOUS
<1>1. IsFiniteSet(1..Len(edges)) /\ KeptLoops \subseteq 1..Len(edges)
  BY FS_Interval DEF TypeOK, KeptLoops, KeptPlaces
<1> QED
  BY <1>1, FS_Subset

LEMMA NextCount ==
  TypeOK /\ TrialInv /\ CountInv /\ [Next]_vars => CountInv'
<1> SUFFICES ASSUME TypeOK, TrialInv, CountInv, [Next]_vars
             PROVE  CountInv'
  OBVIOUS
<1>1. CASE AddKeyframeToPoseGraph
  BY <1>1, KeptAfterInsert DEF AddKeyframeToPoseGraph, CountInv
<1>2. CASE NoLoop
  BY <1>2 DEF NoLoop, CountInv, KeptLoops, KeptPlaces, Settled
<1>3. CASE AddLoopEdge
  BY <1>3, KeptAfterTrial DEF AddLoopEdge, CountInv
<1>4. CASE Optimize
  BY <1>4 DEF Optimize, CountInv, KeptLoops, KeptPlaces, Settled
<1>5. CASE AcceptLoop
  <2>1. ~Settled /\ Settled' /\ edges' = edges /\ epoch' = epoch + 1
    BY <1>5 DEF AcceptLoop, Settled
  <2>2. KeptLoops' = KeptLoops \cup {Len(edges)} /\ Len(edges) \notin KeptLoops
    BY <2>1, TriedIsLast DEF KeptLoops, KeptPlaces, Loops
  <2>3. Cardinality(KeptLoops') = Cardinality(KeptLoops) + 1
    BY <2>2, KeptLoopsFinite, FS_AddElement
  <2> QED
    BY <2>1, <2>3 DEF CountInv
<1>6. CASE GuardRejectsUpdate
  BY <1>6 DEF GuardRejectsUpdate, CountInv, KeptLoops, KeptPlaces, Settled
<1>7. CASE Rollback
  BY <1>7, KeptAfterRollback DEF Rollback, CountInv
<1>8. CASE UNCHANGED vars
  BY <1>8 DEF vars, CountInv, KeptLoops, KeptPlaces, Settled
<1> QED
  BY <1>1, <1>2, <1>3, <1>4, <1>5, <1>6, <1>7, <1>8 DEF Next, NoMoreKeyframes

\* loop_closure.cpp:9235: a loop that was rolled back leaves no edge behind, and
\* every accepted one has one: the loop edges are as many as the accepted
\* optimisations.
THEOREM AcceptedLoopsAreCounted == Spec => []LoopEdgesAreAccepted
<1>1. Init => CountInv
  <2> SUFFICES ASSUME Init PROVE CountInv
    OBVIOUS
  <2>1. KeptLoops = {}
    BY DEF Init, KeptLoops, KeptPlaces, Settled
  <2> QED
    BY <2>1, FS_EmptySet DEF Init, CountInv
<1>2. CountInv => LoopEdgesAreAccepted
  BY DEF CountInv, KeptLoops, KeptPlaces, LoopEdgesAreAccepted, Loops
<1> QED
  BY <1>1, <1>2, InitTypes, NextTypes, NextCount, PTL DEF Spec

-----------------------------------------------------------------------------
LEMMA NextSpaced ==
  TypeOK /\ TrialInv /\ LastInv /\ SpacedInv /\ [Next]_vars => SpacedInv'
<1> SUFFICES ASSUME TypeOK, TrialInv, LastInv, SpacedInv, [Next]_vars
             PROVE  SpacedInv'
  OBVIOUS
<1>0. \A i \in Loops(edges) : i \in Nat /\ i \in 1..Len(edges)
                              /\ edges[i].from \in Nat /\ edges[i].to \in Nat
  <2> TAKE i \in Loops(edges)
  <2>1. edges \in Seq(Edge) /\ i \in 1..Len(edges)
    BY DEF TypeOK, Loops
  <2>2. edges[i] \in Edge /\ i \in Nat
    BY <2>1
  <2> QED
    BY <2>1, <2>2 DEF Edge
<1>1. CASE AddKeyframeToPoseGraph
  <2>1. /\ KeptLoops' = KeptLoops /\ KeptLoops = Loops(edges) /\ Loops(edges') = Loops(edges)
        /\ \A i \in Loops(edges) : edges'[i] = edges[i]
    BY <1>0, <1>1, KeptAfterInsert
  <2>2. Len(pose') = Len(pose) + 1 /\ Len(pose) \in Nat /\ lastLoop' = lastLoop
    <3>1. odom' \in Seq(Pose) /\ Len(odom') = Len(odom) + 1
      <4>1. PICK now \in Pose : odom' = Append(odom, now)
        BY <1>1, KeyframeStep
      <4> QED
        BY <4>1, AppendOf DEF TypeOK
    <3> QED
      BY <1>1, <3>1, NextTypes DEF TypeOK, AddKeyframeToPoseGraph, Next
  <2>3. LoopEdgesSpaced'
    BY <2>1 DEF SpacedInv, LoopEdgesSpaced
  <2>4. \A i \in Loops(edges') : edges'[i].to <= Len(pose')
    BY <1>0, <2>1, <2>2 DEF SpacedInv
  <2> QED
    BY <2>1, <2>2, <2>3, <2>4 DEF SpacedInv
<1>2. CASE NoLoop
  BY <1>2 DEF NoLoop, SpacedInv, LoopEdgesSpaced, KeptLoops, KeptPlaces, Settled
<1>3. CASE AddLoopEdge
  <2> DEFINE m == Len(edges)
             n == Len(pose)
  <2>1. /\ KeptLoops' = KeptLoops /\ KeptLoops = Loops(edges)
        /\ Loops(edges') = Loops(edges) \cup {m + 1}
        /\ \A i \in Loops(edges) : edges'[i] = edges[i]
    BY <1>0, <1>3, KeptAfterTrial
  <2>2. PICK hist \in 1..(n - 1), edge \in Edge :
          /\ edge.from = hist /\ edge.to = n /\ Spaced(hist, n)
          /\ edges' = Append(edges, edge)
    BY <1>3, TrialStep
  <2>3. edges'[m + 1] = edge /\ m \in Nat /\ n \in Nat /\ hist \in Nat
    BY <2>2, AppendOf DEF TypeOK
  <2>4. UNCHANGED <<pose, lastLoop>>
    BY <1>3 DEF AddLoopEdge
  <2>5. ASSUME NEW i \in Loops(edges)
        PROVE  /\ n - edges[i].to >= CurrentSpacing
               /\ (\A k \in Loops(edges) : ~(i < k)) => Gap(edges[i].from, hist) >= HistoricalSpacing
    <3>1. PICK last \in lastLoop : TRUE
      BY <2>1, <2>5 DEF SpacedInv
    <3>2. PICK k \in Loops(edges) : edges[k] = last /\ \A j \in Loops(edges) : j <= k
      BY <2>1, <3>1 DEF SpacedInv
    <3>3. edges[k].to <= n /\ edges[k].to \in Nat /\ edges[k].from \in Nat
          /\ edges[i].to \in Nat /\ i \in Nat /\ k \in Nat
      BY <1>0, <3>2 DEF SpacedInv
    <3>4. Gap(n, edges[k].to) >= CurrentSpacing /\ Gap(hist, edges[k].from) >= HistoricalSpacing
      BY <2>2, <3>1, <3>2 DEF Spaced
    <3>5. n - edges[k].to >= CurrentSpacing
      BY <2>3, <3>3, <3>4 DEF Gap
    <3>6. edges[i].to <= edges[k].to
      <4>1. CASE i = k
        BY <3>3, <4>1
      <4>2. CASE i < k
        BY <3>3, <4>2, LoopAssumption DEF SpacedInv, LoopEdgesSpaced
      <4> QED
        BY <3>2, <3>3, <4>1, <4>2
    <3>7. n - edges[i].to >= CurrentSpacing
      BY <2>3, <3>3, <3>5, <3>6, LoopAssumption
    <3>8. ASSUME \A l \in Loops(edges) : ~(i < l)
          PROVE  Gap(edges[i].from, hist) >= HistoricalSpacing
      <4>1. i = k
        BY <3>2, <3>3, <3>8
      <4> QED
        BY <2>3, <3>3, <3>4, <4>1, LoopAssumption DEF Gap
    <3> QED
      BY <3>7, <3>8
  <2>6. ASSUME NEW i \in Loops(edges'), NEW j \in Loops(edges'), i < j
        PROVE  /\ edges'[j].to - edges'[i].to >= CurrentSpacing
               /\ (\A k \in Loops(edges') : ~(i < k /\ k < j))
                    => Gap(edges'[i].from, edges'[j].from) >= HistoricalSpacing
    <3>1. i \in Loops(edges)
      BY <1>0, <2>1, <2>3, <2>6
    <3>2. CASE j = m + 1
      <4>1. edges'[i] = edges[i] /\ edges'[j] = edge
        BY <2>1, <2>3, <3>1, <3>2
      <4>2. ASSUME \A k \in Loops(edges') : ~(i < k /\ k < j)
            PROVE  \A k \in Loops(edges) : ~(i < k)
        <5> TAKE k \in Loops(edges)
        <5>1. k < m + 1 /\ k \in Loops(edges')
          BY <1>0, <2>1, <2>3
        <5> QED
          BY <3>2, <4>2, <5>1
      <4> QED
        BY <2>2, <2>5, <3>1, <4>1, <4>2
    <3>3. CASE j \in Loops(edges)
      BY <2>1, <2>6, <3>1, <3>3 DEF SpacedInv, LoopEdgesSpaced
    <3> QED
      BY <2>1, <3>2, <3>3
  <2>7. LoopEdgesSpaced'
    <3> SUFFICES ASSUME NEW i \in Loops(edges'), NEW j \in Loops(edges'), i < j
                 PROVE  /\ edges'[j].to - edges'[i].to >= CurrentSpacing
                        /\ (\A k \in Loops(edges') : ~(i < k /\ k < j))
                             => Gap(edges'[i].from, edges'[j].from) >= HistoricalSpacing
      BY DEF LoopEdgesSpaced
    <3> QED
      BY <2>6
  <2>8. \A i \in Loops(edges') : edges'[i].to <= Len(pose')
    <3>1. n <= n
      BY <2>3
    <3>2. edges'[m + 1].to <= n
      BY <2>2, <2>3, <3>1
    <3>3. \A i \in Loops(edges) : edges'[i].to <= n
      BY <2>1 DEF SpacedInv
    <3> QED
      BY <2>1, <2>4, <3>2, <3>3
  <2>9. KeptLoops \subseteq Loops(edges)
    BY <2>1
  <2> QED
    BY <2>1, <2>4, <2>7, <2>8, <2>9 DEF SpacedInv
<1>4. CASE Optimize
  <2>1. Len(pose') = Len(pose)
    BY <1>4, NextTypes DEF TypeOK, Next, Optimize
  <2> QED
    BY <1>4, <2>1 DEF Optimize, SpacedInv, LoopEdgesSpaced, KeptLoops, KeptPlaces, Settled
<1>5. CASE AcceptLoop
  <2>1. ~Settled /\ Settled' /\ UNCHANGED <<edges, pose>> /\ lastLoop' = tried
    BY <1>5 DEF AcceptLoop, Settled
  <2>2. KeptLoops' = Loops(edges)
    BY <2>1 DEF KeptLoops, KeptPlaces, Loops
  <2>3. /\ Len(edges) \in Loops(edges) /\ tried = {edges[Len(edges)]}
        /\ \A j \in Loops(edges) : j <= Len(edges)
    BY <1>0, <2>1, TriedIsLast
  <2> QED
    BY <2>1, <2>2, <2>3 DEF SpacedInv, LoopEdgesSpaced
<1>6. CASE GuardRejectsUpdate
  BY <1>6 DEF GuardRejectsUpdate, SpacedInv, LoopEdgesSpaced, KeptLoops, KeptPlaces, Settled
<1>7. CASE Rollback
  <2>1. /\ KeptLoops' = KeptLoops /\ Loops(edges') = KeptLoops
        /\ \A i \in KeptLoops : edges'[i] = edges[i]
    BY <1>7, KeptAfterRollback DEF KeptLoops
  <2>2. Len(pose') = Len(pose) /\ lastLoop' = lastLoop /\ ~Settled
    BY <1>7, RollbackStep DEF Rollback, Settled
  <2>3. /\ Loops(edges) = KeptLoops \cup {Len(edges)} /\ Len(edges) \in Nat
        /\ \A k \in KeptLoops : k \in Nat /\ k < Len(edges)
    BY <2>2, TriedIsLast DEF KeptLoops, KeptPlaces
  <2>4. LoopEdgesSpaced'
    <3> SUFFICES ASSUME NEW i \in KeptLoops, NEW j \in KeptLoops, i < j
                 PROVE  /\ edges[j].to - edges[i].to >= CurrentSpacing
                        /\ (\A k \in KeptLoops : ~(i < k /\ k < j))
                             => Gap(edges[i].from, edges[j].from) >= HistoricalSpacing
      BY <2>1 DEF LoopEdgesSpaced
    <3>1. i \in Loops(edges) /\ j \in Loops(edges)
      BY <2>3
    <3>2. ASSUME \A k \in KeptLoops : ~(i < k /\ k < j)
          PROVE  \A k \in Loops(edges) : ~(i < k /\ k < j)
      BY <2>3, <3>2
    <3> QED
      BY <3>1, <3>2 DEF SpacedInv, LoopEdgesSpaced
  <2> QED
    BY <2>1, <2>2, <2>3, <2>4 DEF SpacedInv
<1>8. CASE UNCHANGED vars
  BY <1>8 DEF vars, SpacedInv, LoopEdgesSpaced, KeptLoops, KeptPlaces, Settled
<1> QED
  BY <1>1, <1>2, <1>3, <1>4, <1>5, <1>6, <1>7, <1>8 DEF Next, NoMoreKeyframes

\* loop_closure.cpp:8983: the gate looks at the loop accepted last only, and yet
\* any two loop edges of the graph are apart at their current ends.
THEOREM LoopsStaySpaced == Spec => []LoopEdgesSpaced
<1>1. Init => SpacedInv
  BY DEF Init, SpacedInv, LoopEdgesSpaced, KeptLoops, KeptPlaces, Loops, Settled
<1>2. SpacedInv => LoopEdgesSpaced
  BY DEF SpacedInv
<1> QED
  BY <1>1, <1>2, InitTypes, NextTypes, NextSpaced, PTL DEF Spec

-----------------------------------------------------------------------------
(* The refinement of AtomicLoops. *)

\* The loop that is being tried fits the poses to which a rollback returns.
GateInv ==
  ~Settled =>
    \E hist \in 1..(Len(before) - MinSeparation), Z \in Pose :
      /\ Mul(Inv(Between(before[hist], before[Len(before)])), Z) \in SmallError
      /\ tried = {[type |-> "loop", from |-> hist, to |-> Len(before), Z |-> Z]}

LEMMA NextGate == GateInv /\ [Next]_vars => GateInv'
<1> SUFFICES ASSUME GateInv, [Next]_vars PROVE GateInv'
  OBVIOUS
<1>1. CASE AddLoopEdge
  <2>1. before' = pose
    BY <1>1 DEF AddLoopEdge
  <2>2. PICK hist \in 1..(Len(pose) - MinSeparation), Z \in Pose :
          /\ Mul(Inv(Between(pose[hist], pose[Len(pose)])), Z) \in SmallError
          /\ tried' = {[type |-> "loop", from |-> hist, to |-> Len(pose), Z |-> Z]}
    BY <1>1 DEF AddLoopEdge
  <2> QED
    BY <2>1, <2>2 DEF GateInv
<1>2. CASE Optimize \/ GuardRejectsUpdate
  BY <1>2 DEF Optimize, GuardRejectsUpdate, GateInv, Settled
<1>3. CASE AddKeyframeToPoseGraph \/ NoLoop \/ AcceptLoop \/ Rollback
  BY <1>3 DEF AddKeyframeToPoseGraph, NoLoop, AcceptLoop, Rollback, GateInv, Settled
<1>4. CASE UNCHANGED vars
  BY <1>4 DEF vars, GateInv, Settled
<1> QED
  BY <1>1, <1>2, <1>3, <1>4 DEF Next, NoMoreKeyframes

\* Taking the last element off undoes an Append, and the other way round.
LEMMA FrontOfAppend ==
  ASSUME NEW S, NEW s \in Seq(S), NEW e \in S
  PROVE  SubSeq(Append(s, e), 1, Len(Append(s, e)) - 1) = s
<1> DEFINE t == Append(s, e)
<1>1. t \in Seq(S) /\ t # <<>> /\ Len(t) = Len(s) + 1 /\ \A i \in 1..Len(s) : t[i] = s[i]
  BY AppendProperties
<1> HIDE DEF t
<1>2. Len(s) \in Nat /\ Len(t) - 1 = Len(s)
  BY <1>1
<1>3. /\ SubSeq(t, 1, Len(t) - 1) \in Seq(S) /\ Len(SubSeq(t, 1, Len(t) - 1)) = Len(s)
      /\ \A i \in 1..Len(s) : SubSeq(t, 1, Len(t) - 1)[i] = t[i]
  BY <1>1, <1>2, FrontOf
<1>4. SubSeq(t, 1, Len(t) - 1) = s
  BY <1>1, <1>3, SeqEqual
<1> QED
  BY <1>4 DEF t

LEMMA AppendOfFront ==
  ASSUME NEW S, NEW s \in Seq(S), s # <<>>
  PROVE  Append(SubSeq(s, 1, Len(s) - 1), s[Len(s)]) = s
<1> DEFINE t == SubSeq(s, 1, Len(s) - 1)
           e == s[Len(s)]
<1>1. t \in Seq(S) /\ Len(t) = Len(s) - 1 /\ \A i \in 1..(Len(s) - 1) : t[i] = s[i]
  BY FrontOf
<1>2. Len(s) \in Nat /\ Len(s) >= 1 /\ e \in S
  OBVIOUS
<1>3. SUFFICES Append(t, e) = s
  OBVIOUS
<1>4. e = s[Len(s)]
  OBVIOUS
<1> HIDE DEF t, e
<1>5. /\ Append(t, e) \in Seq(S) /\ Len(Append(t, e)) = Len(s)
      /\ \A i \in 1..(Len(s) - 1) : Append(t, e)[i] = s[i]
      /\ Append(t, e)[Len(s)] = s[Len(s)]
  BY <1>1, <1>2, <1>4, AppendProperties
<1>6. \A i \in 1..Len(s) : Append(t, e)[i] = s[i]
  BY <1>2, <1>5
<1> QED
  BY <1>5, <1>6, SeqEqual

\* A new keyframe, seen from outside.
LEMMA KeyframeRefines ==
  ASSUME TypeOK, AddKeyframeToPoseGraph
  PROVE  Atomic!FirstKeyframe \/ Atomic!NextKeyframe
<1> DEFINE n == Len(odom)
<1>1. n \in Nat /\ Len(pose) = n /\ Settled /\ Settled' /\ epoch' = epoch
      /\ odom \in Seq(Pose) /\ pose \in Seq(Pose)
  BY DEF TypeOK, AddKeyframeToPoseGraph, Settled
<1>2. PICK now \in Pose :
        /\ n = 0 => pose' = <<now>> /\ edges' = edges
        /\ n > 0 => /\ odom[n] \in Pose
                    /\ pose' = Append(pose, Mul(pose[n], Between(odom[n], now)))
                    /\ edges' = Append(edges, OdometryEdge(n, n + 1, Between(odom[n], now)))
  BY KeyframeStep
<1>3. KeptPose = pose /\ KeptPose' = pose' /\ KeptEdges = edges /\ KeptEdges' = edges'
  BY <1>1 DEF KeptPose, KeptEdges
<1>4. CASE n = 0
  <2>1. pose = <<>>
    BY <1>1, <1>4
  <2> QED
    BY <1>1, <1>2, <1>3, <1>4, <2>1 DEF Atomic!FirstKeyframe
<1>5. CASE n > 0
  <2>1. pose # <<>>
    BY <1>1, <1>5
  <2> DEFINE Z == Between(odom[n], now)
  <2>2. Z \in Pose
    BY <1>2, <1>5, BetweenCancels
  <2>3. pose' = Append(pose, Mul(pose[n], Z)) /\ edges' = Append(edges, OdometryEdge(n, n + 1, Z))
    BY <1>2, <1>5
  <2> HIDE DEF Z
  <2> QED
    BY <1>1, <1>3, <2>1, <2>2, <2>3 DEF Atomic!NextKeyframe, OdometryEdge
<1> QED
  BY <1>1, <1>4, <1>5

\* An accepted loop, seen from outside.
LEMMA AcceptRefines ==
  ASSUME TypeOK, TrialInv, ReferenceInv, GateInv, AcceptLoop
  PROVE  Atomic!CloseLoop
<1>1. ~Settled /\ Settled' /\ UpdateGuardPassed /\ epoch' = epoch + 1
      /\ pose' = pose /\ edges' = edges
  BY DEF AcceptLoop, Settled
<1>2. /\ edges # <<>> /\ tried = {edges[Len(edges)]} /\ Len(before) = Len(pose)
      /\ pose # <<>> /\ pose \in Seq(Pose) /\ edges \in Seq(Edge)
  BY <1>1 DEF TrialInv, TypeOK
<1>3. KeptPose = before /\ KeptPose' = pose /\ KeptEdges' = edges
      /\ KeptEdges = SubSeq(edges, 1, Len(edges) - 1)
  BY <1>1 DEF KeptPose, KeptEdges
<1>4. pose[1] = before[1]
  BY <1>2, <1>3 DEF ReferenceInv
<1>5. \A i \in 1..Len(before) : Between(before[i], pose[i]) \in SmallUpdate
  BY <1>1, <1>2 DEF UpdateGuardPassed
<1>6. PICK hist \in 1..(Len(before) - MinSeparation), Z \in Pose :
        /\ Mul(Inv(Between(before[hist], before[Len(before)])), Z) \in SmallError
        /\ tried = {[type |-> "loop", from |-> hist, to |-> Len(before), Z |-> Z]}
  BY <1>1 DEF GateInv
<1>7. edges[Len(edges)] = [type |-> "loop", from |-> hist, to |-> Len(before), Z |-> Z]
  BY <1>2, <1>6
<1>8. edges = Append(KeptEdges, edges[Len(edges)])
  BY <1>2, <1>3, AppendOfFront
<1>9. \E h \in 1..(Len(before) - MinSeparation), Y \in Pose :
        /\ Mul(Inv(Between(before[h], before[Len(before)])), Y) \in SmallError
        /\ edges = Append(KeptEdges, [type |-> "loop", from |-> h, to |-> Len(before), Z |-> Y])
  BY <1>6, <1>7, <1>8
<1> QED
  BY <1>1, <1>2, <1>3, <1>4, <1>5, <1>9 DEF Atomic!CloseLoop, Atomic!From, Between

LEMMA NextRefines ==
  TypeOK /\ TrialInv /\ ReferenceInv /\ GateInv /\ [Next]_vars
    => [Atomic!Next]_(Atomic!vars)
<1> SUFFICES ASSUME TypeOK, TrialInv, ReferenceInv, GateInv, [Next]_vars
             PROVE  Atomic!Next \/ UNCHANGED Atomic!vars
  OBVIOUS
<1>1. CASE AddKeyframeToPoseGraph
  BY <1>1, KeyframeRefines DEF Atomic!Next
<1>2. CASE AcceptLoop
  BY <1>2, AcceptRefines DEF Atomic!Next
<1>3. CASE AddLoopEdge
  <2>1. Settled /\ ~Settled' /\ before' = pose /\ epoch' = epoch
    BY <1>3 DEF AddLoopEdge, Settled
  <2>2. PICK e \in Edge : edges' = Append(edges, e)
    BY <1>3, TrialStep
  <2>3. SubSeq(edges', 1, Len(edges') - 1) = edges
    BY <2>2, FrontOfAppend DEF TypeOK
  <2> QED
    BY <2>1, <2>3 DEF KeptPose, KeptEdges, Atomic!vars
<1>4. CASE Rollback
  <2>1. ~Settled /\ Settled' /\ epoch' = epoch /\ phase = "rollback"
    BY <1>4 DEF Rollback, Settled
  <2>2. pose' = before
    BY <1>4, RollbackStep
  <2>3. edges' = SubSeq(edges, 1, Len(edges) - 1)
    BY <1>4, <2>1, RollbackErasesTried DEF Rollback
  <2> QED
    BY <2>1, <2>2, <2>3 DEF KeptPose, KeptEdges, Atomic!vars
<1>5. CASE NoLoop \/ Optimize \/ GuardRejectsUpdate \/ UNCHANGED vars
  BY <1>5 DEF NoLoop, Optimize, GuardRejectsUpdate, vars, Settled, KeptPose, KeptEdges,
              Atomic!vars
<1> QED
  BY <1>1, <1>2, <1>3, <1>4, <1>5 DEF Next, NoMoreKeyframes

\* loop_closure.cpp:9002-9314: adding the edge, optimising in place, checking the
\* update and rolling back are one step that closes the loop or no step at all,
\* for every group of poses, every gate and every outcome of the optimiser.
THEOREM LoopTrialsAreAtomic == Spec => ImplementsAtomicLoops
<1>1. Init => Atomic!Init
  BY DEF Init, Atomic!Init, KeptPose, KeptEdges, Settled
<1>2. Init => ReferenceInv /\ GateInv
  BY DEF Init, ReferenceInv, GateInv, KeptPose, Settled
<1> QED
  BY <1>1, <1>2, InitTypes, NextTypes, NextReference, NextGate, NextRefines, PTL
  DEF Spec, ImplementsAtomicLoops, Atomic!Spec
=============================================================================
