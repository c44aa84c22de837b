------------------------ MODULE BackendWorker_proofs ------------------------
(***************************************************************************)
(* Proofs about BackendWorker, for every refinement mode, every loop       *)
(* stride and every bound on keyframes and sessions.                       *)
(***************************************************************************)
EXTENDS BackendWorker, SequenceTheorems, TLAPS

LEMMA StartTypes == StartsRefiner \in BOOLEAN /\ RefinerStart \in {"check", "exited"}
  BY DEF StartsRefiner, RefinerStart

LEMMA InitTypeOK == Init => TypeOK
<1> SUFFICES ASSUME Init PROVE TypeOK
  OBVIOUS
<1> USE DEF Init
<1>1. published \in Output
  BY DEF LiveOutput, Output
<1>2. refRunning \in BOOLEAN /\ rpc \in {"check", "exited"}
  BY StartTypes
<1>3. running \in BOOLEAN /\ ready \in BOOLEAN
  OBVIOUS
<1> QED
  BY <1>1, <1>2, <1>3 DEF TypeOK

LEMMA LiveOutputType ==
  ASSUME session \in Nat, epoch \in Nat, nodes \in SUBSET Nat, loopEdges \in Nat,
         globalRev \in Nat, refinedRev \in Nat, overlay \in SUBSET Layer
  PROVE  LiveOutput \in Output
  BY DEF LiveOutput, Output

\* What the enqueueing of a keyframe needs and what it leaves alone.
LEMMA EnqueueFrame ==
  EnqueueBackendKeyframe =>
    /\ opc = "idle" /\ running /\ bpc # "blocking" /\ NotifyBackend
    /\ UNCHANGED <<opc, goal, session, mode, running, job, backendVars, mapVars,
                   published, slotVars, refinerVars>>
<1> SUFFICES ASSUME NEW id \in 0..(MaxKeyframes - 1), HandOver(id), NotifyBackend
             PROVE  /\ opc = "idle" /\ running /\ bpc # "blocking" /\ NotifyBackend
                    /\ UNCHANGED <<opc, goal, session, mode, running, job, backendVars,
                                   mapVars, published, slotVars, refinerVars>>
  BY DEF EnqueueBackendKeyframe
<1> QED
  BY DEF HandOver, QueueMutexFree

LEMMA NextTypeOK == TypeOK /\ [Next]_vars => TypeOK'
<1> SUFFICES ASSUME TypeOK, [Next]_vars PROVE TypeOK'
  OBVIOUS
<1> USE ConstantsAssumption DEF TypeOK, ownerVars, idVars, inputVars, backendVars,
      mapVars, slotVars, refinerVars
<1>1. CASE EnqueueBackendKeyframe
  <2>1. PICK id \in 0..(MaxKeyframes - 1) :
          HandOver(id) /\ queue' = Append(queue, id) /\ NotifyBackend
    BY <1>1 DEF EnqueueBackendKeyframe
  <2>2. id \in Nat /\ queue' \in Seq(Nat)
    BY <2>1
  <2>3. nextId' \in Nat /\ absent' \in SUBSET Nat
    BY <2>1, <2>2 DEF HandOver
  <2> QED
    BY <2>1, <2>2, <2>3 DEF HandOver, NotifyBackend
<1>2. CASE StopBackendFlag
  BY <1>2 DEF StopBackendFlag
<1>3. CASE StopNext
  <2>1. CASE StopBackendClearQueue
    BY <2>1 DEF StopBackendClearQueue, NotifyBackend
  <2>2. CASE StopBackendJoin
    BY <2>2 DEF StopBackendJoin
  <2>3. CASE StopRefinerClearSlots
    BY <2>3 DEF StopRefinerClearSlots, NotifyRefiner
  <2>4. CASE StopRefinerJoin
    BY <2>4 DEF StopRefinerJoin
  <2>5. CASE ResetState
    <3>1. published' \in Output
      BY <2>5 DEF ResetState, LiveOutput, Output
    <3> QED
      BY <2>5, <3>1, StartTypes DEF ResetState
  <2> QED
    BY <1>3, <2>1, <2>2, <2>3, <2>4, <2>5 DEF StopNext
<1>4. CASE BackendNext
  <2>1. CASE BackendWait
    BY <2>1 DEF BackendWait
  <2>4. CASE BackendSleep
    BY <2>4 DEF BackendSleep
  <2>5. CASE BackendExit
    BY <2>5 DEF BackendExit
  <2>6. CASE BackendTakeReady
    BY <2>6 DEF BackendTakeReady
  <2>2. CASE BackendPop
    BY <2>2 DEF BackendPop
  <2>3. CASE ProcessJob
    <3>1. CASE InsertKeyframe
      <4>1. PICK id \in job, ok \in BOOLEAN :
              /\ keyframes' \in {keyframes, Append(keyframes, id)}
              /\ nodes' \in {nodes, nodes \cup {id}}
              /\ UpdateIncrementalGlobalMaps(FALSE, ok) \/ UNCHANGED mapVars
        BY <3>1 DEF InsertKeyframe
      <4>2. keyframes' \in Seq(Nat)
        <5>1. Append(keyframes, id) \in Seq(Nat)
          OBVIOUS
        <5> QED
          BY <4>1, <5>1
      <4>5. nodes' \in SUBSET Nat
        BY <4>1
      <4>3. globalRev' \in Nat /\ refinedRev' \in Nat /\ overlay' \in SUBSET Layer
        <5>1. CASE UpdateIncrementalGlobalMaps(FALSE, ok)
          BY <5>1 DEF UpdateIncrementalGlobalMaps
        <5> QED
          BY <4>1, <5>1
      <4>4. job' \in SUBSET Nat /\ bpc' \in {"loop", "refresh"}
        BY <3>1 DEF InsertKeyframe
      <4>6. UNCHANGED <<ownerVars, inputVars, epoch, loopEdges, published,
                        slotVars, refinerVars>>
        BY <3>1 DEF InsertKeyframe
      <4> QED
        BY <4>2, <4>3, <4>4, <4>5, <4>6
    <3>2. CASE RejectLoop
      BY <3>2 DEF RejectLoop
    <3>3. CASE AcceptLoop
      <4>1. globalRev' \in Nat /\ refinedRev' \in Nat /\ overlay' \in SUBSET Layer
        BY <3>3 DEF AcceptLoop, UpdateIncrementalGlobalMaps
      <4>2. bpc' \in {"submit", "refine", "commit"}
        BY <3>3 DEF AcceptLoop
      <4> QED
        BY <3>3, <4>1, <4>2 DEF AcceptLoop
    <3>4. CASE SubmitRefinement
      BY <3>4 DEF SubmitRefinement, NotifyRefiner, Job
    <3>5. CASE RefineInPlace
      BY <3>5 DEF RefineInPlace, RebuildPostPgoRefinedMap, LiveGraph, Layer
    <3>6. CASE TryCommitRefinement
      <4>1. \A result \in completed :
              [session |-> result.session, epoch |-> result.epoch] \in Layer
        BY DEF Layer, Result
      <4>2. overlay' \in SUBSET Layer /\ refinedRev' \in Nat
        BY <3>6, <4>1 DEF TryCommitRefinement, CommitResult
      <4> QED
        BY <3>6, <4>2 DEF TryCommitRefinement
    <3>7. CASE RefreshBackendOutputSnapshot
      BY <3>7, LiveOutputType DEF RefreshBackendOutputSnapshot
    <3> QED
      BY <2>3, <3>1, <3>2, <3>3, <3>4, <3>5, <3>6, <3>7 DEF ProcessJob
  <2> QED
    BY <1>4, <2>1, <2>2, <2>3, <2>4, <2>5, <2>6 DEF BackendNext
<1>5. CASE JobThrows \/ BackendSpuriousWakeup
  <2>1. CASE JobThrows
    <3>1. loopEdges' \in Nat /\ absent' \in SUBSET Nat
      BY <2>1 DEF JobThrows
    <3> QED
      BY <2>1, <3>1 DEF JobThrows
  <2>2. CASE BackendSpuriousWakeup
    BY <2>2 DEF BackendSpuriousWakeup
  <2> QED
    BY <1>5, <2>1, <2>2
<1>6. CASE RefinerNext
  <2>1. CASE RefinerWait
    BY <2>1 DEF RefinerWait
  <2>6. CASE RefinerSleep
    BY <2>6 DEF RefinerSleep
  <2>5. CASE RefinerExit
    BY <2>5 DEF RefinerExit
  <2>2. CASE RefinerTake
    BY <2>2 DEF RefinerTake
  <2>3. CASE RefinerPublish
    BY <2>3 DEF RefinerPublish, Job, Result
  <2>4. CASE RefinerNotify
    BY <2>4 DEF RefinerNotify, NotifyBackend
  <2> QED
    BY <1>6, <2>1, <2>2, <2>3, <2>4, <2>5, <2>6 DEF RefinerNext
<1>7. CASE RefinerSpuriousWakeup
  BY <1>7 DEF RefinerSpuriousWakeup
<1>8. CASE UNCHANGED vars
  BY <1>8 DEF vars
<1> QED
  BY <1>1, <1>2, <1>3, <1>4, <1>5, <1>6, <1>7, <1>8 DEF Next, Destroyed

\* Type correctness, for every value of the constants.
THEOREM TypeCorrect == Spec => []TypeOK
  BY InitTypeOK, NextTypeOK, PTL DEF Spec

-----------------------------------------------------------------------------
(* The revisions.  RevisionsAgree is inductive as it stands. *)

LEMMA NextRevisionsAgree == TypeOK /\ RevisionsAgree /\ [Next]_vars => RevisionsAgree'
<1> SUFFICES ASSUME TypeOK, RevisionsAgree, [Next]_vars PROVE RevisionsAgree'
  OBVIOUS
<1> USE DEF ownerVars, idVars, inputVars, backendVars, mapVars, slotVars, refinerVars
<1>1. /\ refinedRev \in {0, globalRev}
      /\ published.refinedRev \in {0, published.globalRev}
  BY DEF RevisionsAgree, LiveOutput
<1>2. SUFFICES /\ refinedRev' \in {0, globalRev'}
               /\ published'.refinedRev \in {0, published'.globalRev}
  BY DEF RevisionsAgree, LiveOutput
<1>3. CASE UNCHANGED <<mapVars, published>>
  BY <1>1, <1>3
<1>4. CASE InsertKeyframe
  <2>1. PICK ok \in BOOLEAN :
             UpdateIncrementalGlobalMaps(FALSE, ok) \/ UNCHANGED mapVars
    BY <1>4 DEF InsertKeyframe
  <2>2. published' = published
    BY <1>4 DEF InsertKeyframe
  <2> QED
    BY <1>1, <2>1, <2>2 DEF UpdateIncrementalGlobalMaps
<1>5. CASE AcceptLoop
  <2>1. PICK ok \in BOOLEAN : UpdateIncrementalGlobalMaps(TRUE, ok)
    BY <1>5 DEF AcceptLoop
  <2>2. published' = published
    BY <1>5 DEF AcceptLoop
  <2> QED
    BY <1>1, <2>1, <2>2 DEF UpdateIncrementalGlobalMaps
<1>6. CASE RefineInPlace
  BY <1>1, <1>6 DEF RefineInPlace, RebuildPostPgoRefinedMap
<1>7. CASE TryCommitRefinement
  BY <1>1, <1>7 DEF TryCommitRefinement, CommitResult
<1>8. CASE RefreshBackendOutputSnapshot
  BY <1>1, <1>8 DEF RefreshBackendOutputSnapshot, LiveOutput
<1>9. CASE ResetState
  BY <1>9 DEF ResetState, LiveOutput
<1>10. CASE EnqueueBackendKeyframe \/ StopBackendFlag \/ Destroyed \/ UNCHANGED vars
  BY <1>3, <1>10, EnqueueFrame
  DEF StopBackendFlag, Destroyed, vars
<1>11. CASE StopNext
  BY <1>3, <1>9, <1>11
  DEF StopNext, StopBackendClearQueue, StopBackendJoin, StopRefinerClearSlots,
      StopRefinerJoin
<1>12. CASE BackendNext \/ JobThrows \/ BackendSpuriousWakeup
  BY <1>3, <1>4, <1>5, <1>6, <1>7, <1>8, <1>12
  DEF BackendNext, BackendWait, BackendSleep, BackendExit, BackendTakeReady,
      BackendPop, ProcessJob, RejectLoop, SubmitRefinement, JobThrows,
      BackendSpuriousWakeup
<1>13. CASE RefinerNext \/ RefinerSpuriousWakeup
  BY <1>3, <1>13
  DEF RefinerNext, RefinerWait, RefinerSleep, RefinerExit, RefinerTake,
      RefinerPublish, RefinerNotify, RefinerSpuriousWakeup
<1> QED
  BY <1>3, <1>10, <1>11, <1>12, <1>13 DEF Next, vars

\* The refined revision the backend keeps and the one it publishes are always
\* the global revision, or zero.
THEOREM RevisionsAlwaysAgree == Spec => []RevisionsAgree
<1>1. Init => RevisionsAgree
  BY DEF Init, RevisionsAgree, LiveOutput
<1> QED
  BY <1>1, TypeCorrect, NextRevisionsAgree, PTL DEF Spec

-----------------------------------------------------------------------------
(* Which control points of the three threads go together. *)

OwnerControl ==
  /\ running <=> opc = "idle"
  /\ refRunning <=> StartsRefiner /\ opc \in {"idle", "clearQueue", "joinBackend"}
  /\ opc \in {"clearSlots", "joinRefiner", "stopped"} => bpc = "exited"
  /\ opc = "joinRefiner" => pending = {}
  /\ opc = "stopped" => rpc = "exited"

BackendControl ==
  /\ bpc = "exited" => ~running /\ queue = <<>>
  /\ job # {} => bpc = "insert"
  /\ bpc = "submit" => StartsRefiner

RefinerControl ==
  /\ ~StartsRefiner => rpc = "exited"
  /\ rpc = "exited" => ~refRunning /\ pending = {}
  /\ work # {} => rpc = "compute"

Control == OwnerControl /\ BackendControl /\ RefinerControl

LEMMA InitControl == Init => Control
  BY DEF Init, Control, OwnerControl, BackendControl, RefinerControl,
         StartsRefiner, RefinerStart

\* Nobody reconfigures the backend while it lives.
LEMMA ModeIsFixed == [Next]_vars => StartsRefiner' = StartsRefiner
<1> SUFFICES ASSUME [Next]_vars PROVE mode' = mode
  BY DEF StartsRefiner
<1> USE DEF ownerVars, idVars
<1>1. CASE EnqueueBackendKeyframe \/ StopBackendFlag \/ StopNext
  BY <1>1, EnqueueFrame DEF StopBackendFlag, StopNext,
       StopBackendClearQueue, StopBackendJoin, StopRefinerClearSlots,
       StopRefinerJoin, ResetState
<1>2. CASE BackendNext \/ JobThrows \/ BackendSpuriousWakeup
  <2>1. CASE ProcessJob
    BY <2>1 DEF ProcessJob, InsertKeyframe, RejectLoop, AcceptLoop,
         SubmitRefinement, RefineInPlace, TryCommitRefinement,
         RefreshBackendOutputSnapshot
  <2> QED
    BY <1>2, <2>1 DEF BackendNext, BackendWait, BackendSleep, BackendExit,
         BackendTakeReady, BackendPop, JobThrows, BackendSpuriousWakeup
<1>3. CASE RefinerNext \/ RefinerSpuriousWakeup
  BY <1>3 DEF RefinerNext, RefinerWait, RefinerSleep, RefinerExit, RefinerTake,
       RefinerPublish, RefinerNotify, RefinerSpuriousWakeup
<1> QED
  BY <1>1, <1>2, <1>3 DEF Next, Destroyed, vars

LEMMA NextControl == TypeOK /\ Control /\ [Next]_vars => Control'
<1> SUFFICES ASSUME TypeOK, Control, [Next]_vars PROVE Control'
  OBVIOUS
<1> USE DEF TypeOK, Control, OwnerControl, BackendControl, RefinerControl,
      ownerVars, idVars, inputVars, backendVars, mapVars, slotVars, refinerVars
<1>0. StartsRefiner \in BOOLEAN /\ StartsRefiner' = StartsRefiner
  BY StartTypes, ModeIsFixed
<1> USE <1>0
<1>1. CASE EnqueueBackendKeyframe
  <2>1. /\ opc = "idle" /\ running /\ (bpc' = bpc \/ (bpc = "waiting" /\ bpc' = "check"))
        /\ UNCHANGED <<opc, running, job, pending, refRunning, rpc, work>>
    BY <1>1, EnqueueFrame DEF NotifyBackend
  <2>2. bpc' # "exited" /\ (bpc' = "submit" => StartsRefiner)
    BY <2>1
  <2> QED
    BY <2>1, <2>2
<1>2. CASE StopBackendFlag
  BY <1>2 DEF StopBackendFlag
<1>3. CASE StopNext
  <2>1. CASE StopBackendClearQueue
    BY <2>1 DEF StopBackendClearQueue, NotifyBackend
  <2>2. CASE StopBackendJoin
    BY <2>2 DEF StopBackendJoin
  <2>3. CASE StopRefinerClearSlots
    BY <2>3 DEF StopRefinerClearSlots, NotifyRefiner
  <2>4. CASE StopRefinerJoin
    BY <2>4 DEF StopRefinerJoin
  <2>5. CASE ResetState
    BY <2>5 DEF ResetState, RefinerStart
  <2> QED
    BY <1>3, <2>1, <2>2, <2>3, <2>4, <2>5 DEF StopNext
<1>4. CASE BackendNext
  <2>1. CASE BackendWait \/ BackendSleep \/ BackendExit \/ BackendTakeReady
    BY <2>1 DEF BackendWait, BackendSleep, BackendExit, BackendTakeReady
  <2>2. CASE BackendPop
    BY <2>2 DEF BackendPop
  <2>3. CASE ProcessJob
    <3>1. CASE InsertKeyframe
      <4>1. /\ bpc = "insert" /\ job' = {} /\ bpc' \in {"loop", "refresh"}
            /\ UNCHANGED <<ownerVars, inputVars, slotVars, refinerVars>>
        BY <3>1 DEF InsertKeyframe
      <4> QED
        BY <4>1
    <3>2. CASE RejectLoop
      BY <3>2 DEF RejectLoop
    <3>3. CASE AcceptLoop
      <4>1. bpc' = "submit" => StartsRefiner
          BY <3>3 DEF AcceptLoop, StartsRefiner
        <4> QED
          BY <3>3, <4>1 DEF AcceptLoop
    <3>4. CASE SubmitRefinement
      BY <3>4 DEF SubmitRefinement, NotifyRefiner
    <3>5. CASE RefineInPlace
      BY <3>5 DEF RefineInPlace
    <3>6. CASE TryCommitRefinement
      BY <3>6 DEF TryCommitRefinement
    <3>7. CASE RefreshBackendOutputSnapshot
      BY <3>7 DEF RefreshBackendOutputSnapshot
    <3> QED
      BY <2>3, <3>1, <3>2, <3>3, <3>4, <3>5, <3>6, <3>7 DEF ProcessJob
  <2> QED
    BY <1>4, <2>1, <2>2, <2>3 DEF BackendNext
<1>5. CASE JobThrows \/ BackendSpuriousWakeup
  <2>1. CASE JobThrows
    <3>1. /\ bpc' = "check" /\ job' = {} /\ bpc \notin {"check", "exited"}
          /\ UNCHANGED <<opc, inputVars, slotVars, refinerVars>>
      BY <2>1 DEF JobThrows
    <3> QED
      BY <3>1
  <2>2. CASE BackendSpuriousWakeup
    BY <2>2 DEF BackendSpuriousWakeup
  <2> QED
    BY <1>5, <2>1, <2>2
<1>6. CASE RefinerNext
  <2>1. CASE RefinerWait \/ RefinerSleep
    BY <2>1 DEF RefinerWait, RefinerSleep
  <2>2. CASE RefinerExit
    BY <2>2 DEF RefinerExit
  <2>3. CASE RefinerTake
    BY <2>3 DEF RefinerTake
  <2>4. CASE RefinerPublish
    BY <2>4 DEF RefinerPublish
  <2>5. CASE RefinerNotify
    BY <2>5 DEF RefinerNotify, NotifyBackend
  <2> QED
    BY <1>6, <2>1, <2>2, <2>3, <2>4, <2>5 DEF RefinerNext
<1>7. CASE RefinerSpuriousWakeup
  BY <1>7 DEF RefinerSpuriousWakeup
<1>8. CASE UNCHANGED vars
  BY <1>8 DEF vars
<1> QED
  BY <1>1, <1>2, <1>3, <1>4, <1>5, <1>6, <1>7, <1>8 DEF Next, Destroyed

LEMMA ControlInvariant == Spec => []Control
  BY InitControl, NextControl, TypeCorrect, PTL DEF Spec

\* A Reset() and the destructor go on to clear the state only when both threads
\* have left their loops, and no keyframe or job is left behind.
THEOREM StopIsComplete == Spec => []StopLeavesNothingBehind
<1>1. Control => StopLeavesNothingBehind
  BY DEF Control, OwnerControl, BackendControl, RefinerControl,
         StopLeavesNothingBehind
<1> QED
  BY <1>1, ControlInvariant, PTL

-----------------------------------------------------------------------------
(* The order of the keyframes. *)

LEMMA AppendIds ==
  ASSUME NEW s \in Seq(Nat), NEW e \in Nat
  PROVE  /\ Ids(Append(s, e)) = Ids(s) \cup {e}
         /\ Increasing(s) /\ Before(Ids(s), {e}) => Increasing(Append(s, e))
<1> DEFINE n == Len(s)
           t == Append(s, e)
<1>1. /\ n \in Nat /\ Len(t) = n + 1
      /\ \A i \in 1..n : t[i] = s[i]
      /\ t[n + 1] = e
  BY AppendProperties
<1> HIDE DEF t
<1>2. Ids(s) = {s[i] : i \in 1..n} /\ Ids(t) = {t[i] : i \in 1..(n + 1)}
  BY <1>1 DEF Ids
<1> HIDE DEF n
<1>3. Ids(t) = Ids(s) \cup {e}
  BY <1>1, <1>2
<1>4. ASSUME \A i, j \in 1..n : i < j => s[i] < s[j], Before(Ids(s), {e})
      PROVE  \A i, j \in 1..(n + 1) : i < j => t[i] < t[j]
  <2> TAKE i, j \in 1..(n + 1)
  <2> HAVE i < j
  <2>1. i \in 1..n /\ t[i] = s[i] /\ s[i] \in Ids(s)
    BY <1>1, <1>2
  <2>2. CASE j = n + 1
    BY <1>1, <1>4, <2>1, <2>2 DEF Before
  <2>3. CASE j # n + 1
    <3>1. j \in 1..n
      BY <1>1, <2>3
    <3> QED
      BY <1>1, <1>4, <2>1, <3>1
  <2> QED
    BY <2>2, <2>3
<1>5. Increasing(s) /\ Before(Ids(s), {e}) => Increasing(t)
  BY <1>1, <1>4 DEF Increasing, n
<1> QED
  BY <1>3, <1>5 DEF t

LEMMA TailIds ==
  ASSUME NEW s \in Seq(Nat), s # <<>>, Increasing(s)
  PROVE  /\ Ids(s) = {Head(s)} \cup Ids(Tail(s))
         /\ Before({Head(s)}, Ids(Tail(s)))
         /\ Increasing(Tail(s))
<1> DEFINE n == Len(Tail(s))
           t == Tail(s)
<1>1. /\ n \in Nat /\ Len(s) = n + 1
      /\ Head(s) = s[1]
      /\ \A i \in 1..n : t[i] = s[i + 1]
  <2>1. Len(s) \in Nat /\ Len(s) > 0
    BY EmptySeq
  <2> QED
    BY <2>1, HeadTailProperties
<1> HIDE DEF t
<1>2. /\ Ids(s) = {s[i] : i \in 1..(n + 1)} /\ Ids(t) = {t[i] : i \in 1..n}
      /\ \A i, j \in 1..(n + 1) : i < j => s[i] < s[j]
  BY <1>1 DEF Ids, Increasing, t
<1> HIDE DEF n
<1>3. Ids(s) = {Head(s)} \cup Ids(t)
  <2>1. \A i \in 1..(n + 1) : i = 1 \/ (i - 1 \in 1..n /\ s[i] = t[i - 1])
    <3> TAKE i \in 1..(n + 1)
    <3>1. CASE i # 1
      <4>1. i - 1 \in 1..n /\ (i - 1) + 1 = i
        BY <1>1, <3>1
      <4> QED
        BY <1>1, <4>1
    <3> QED
      BY <3>1
  <2>2. 1 \in 1..(n + 1) /\ \A i \in 1..n : i + 1 \in 1..(n + 1)
    BY <1>1
  <2>3. \A x \in Ids(s) : x \in {Head(s)} \cup Ids(t)
    BY <1>1, <1>2, <2>1
  <2>4. \A x \in {Head(s)} \cup Ids(t) : x \in Ids(s)
    BY <1>1, <1>2, <2>2
  <2> QED
    BY <2>3, <2>4
<1>4. Before({Head(s)}, Ids(t))
  <2>1. \A i \in 1..n : 1 < i + 1 /\ 1 \in 1..(n + 1) /\ i + 1 \in 1..(n + 1)
    BY <1>1
  <2> QED
    BY <1>1, <1>2, <2>1 DEF Before
<1>5. \A i, j \in 1..n : i < j => t[i] < t[j]
  <2>1. \A i, j \in 1..n :
          i + 1 \in 1..(n + 1) /\ j + 1 \in 1..(n + 1) /\ (i < j => i + 1 < j + 1)
    BY <1>1
  <2> QED
    BY <1>1, <1>2, <2>1
<1> QED
  BY <1>3, <1>4, <1>5 DEF t, n, Increasing

OrderVars == <<keyframes, job, queue, nextId, absent>>

\* Only six actions change what KeyframesInOrder reads.
LEMMA OrderFrame ==
  TypeOK /\ Control /\ [Next]_vars =>
    \/ EnqueueBackendKeyframe \/ StopBackendClearQueue \/ ResetState
    \/ BackendPop \/ InsertKeyframe \/ JobThrows
    \/ UNCHANGED OrderVars /\ (running' => running)
<1> USE DEF OrderVars, ownerVars, idVars, inputVars, backendVars, mapVars, slotVars,
            refinerVars
<1>1. StopBackendFlag \/ Destroyed \/ UNCHANGED vars
        => UNCHANGED OrderVars /\ (running' => running)
  BY DEF StopBackendFlag, Destroyed, vars
<1>2. StopNext => \/ StopBackendClearQueue \/ ResetState
                  \/ UNCHANGED OrderVars /\ (running' => running)
  BY DEF StopNext, StopBackendJoin, StopRefinerClearSlots, StopRefinerJoin
<1>3. ProcessJob => \/ InsertKeyframe
                    \/ UNCHANGED OrderVars /\ (running' => running)
  <2>1. AcceptLoop \/ RejectLoop \/ RefreshBackendOutputSnapshot
          => UNCHANGED <<OrderVars, running>>
    BY DEF AcceptLoop, RejectLoop, RefreshBackendOutputSnapshot
  <2>2. SubmitRefinement \/ RefineInPlace \/ TryCommitRefinement
          => UNCHANGED <<OrderVars, running>>
    BY DEF SubmitRefinement, RefineInPlace, TryCommitRefinement
  <2> QED
    BY <2>1, <2>2 DEF ProcessJob
<1>4. BackendNext \/ BackendSpuriousWakeup =>
         \/ BackendPop \/ InsertKeyframe
         \/ UNCHANGED OrderVars /\ (running' => running)
  BY <1>3 DEF BackendNext, BackendWait, BackendSleep, BackendExit,
              BackendTakeReady, BackendSpuriousWakeup
<1>5. RefinerNext \/ RefinerSpuriousWakeup =>
         UNCHANGED OrderVars /\ (running' => running)
  BY DEF RefinerNext, RefinerWait, RefinerSleep, RefinerExit, RefinerTake,
         RefinerPublish, RefinerNotify, RefinerSpuriousWakeup
<1> QED
  BY <1>1, <1>2, <1>4, <1>5 DEF Next

\* The backend has at most one job in hand.
OneJob == \A id, other \in job : id = other

LEMMA NextOneJob == TypeOK /\ Control /\ OneJob /\ [Next]_vars => OneJob'
<1> SUFFICES ASSUME TypeOK, Control, OneJob, [Next]_vars PROVE OneJob'
  OBVIOUS
<1>1. job' \in {job, {}} \/ \E id \in Nat : job' = {id}
  <2>1. CASE EnqueueBackendKeyframe
    BY <2>1, EnqueueFrame
  <2>2. CASE StopBackendClearQueue \/ ResetState
    BY <2>2 DEF StopBackendClearQueue, ResetState
  <2>3. CASE BackendPop
    <3>1. Head(queue) \in Nat /\ job' = {Head(queue)}
      BY <2>3 DEF BackendPop, TypeOK
    <3> QED
      BY <3>1
  <2>4. CASE InsertKeyframe \/ JobThrows
    BY <2>4 DEF InsertKeyframe, JobThrows
  <2> QED
    BY <2>1, <2>2, <2>3, <2>4, OrderFrame DEF OrderVars
<1> QED
  BY <1>1 DEF OneJob

Present == Ids(keyframes) \cup job \cup Ids(queue)

LEMMA NextKeyframesInOrder ==
  TypeOK /\ Control /\ OneJob /\ KeyframesInOrder /\ [Next]_vars => KeyframesInOrder'
<1> SUFFICES ASSUME TypeOK, Control, OneJob, KeyframesInOrder, [Next]_vars
             PROVE  KeyframesInOrder'
  OBVIOUS
<1>0. /\ keyframes \in Seq(Nat) /\ queue \in Seq(Nat) /\ job \in SUBSET Nat
      /\ nextId \in Nat /\ Ids(keyframes) \subseteq Nat /\ Ids(queue) \subseteq Nat
  BY DEF TypeOK, Ids
<1>i. /\ Increasing(keyframes) /\ Increasing(queue)
      /\ Before(Ids(keyframes), job) /\ Before(job, Ids(queue))
      /\ Before(Ids(keyframes), Ids(queue))
      /\ Before(Present, {nextId}) /\ Present \cap absent = {}
      /\ running => Present \cup absent = 0..(nextId - 1)
  BY DEF KeyframesInOrder, Present
<1>s. SUFFICES /\ Increasing(keyframes') /\ Increasing(queue')
               /\ Before(Ids(keyframes'), job') /\ Before(job', Ids(queue'))
               /\ Before(Ids(keyframes'), Ids(queue'))
               /\ Before(Present', {nextId'}) /\ Present' \cap absent' = {}
               /\ running' => Present' \cup absent' = 0..(nextId' - 1)
  BY DEF KeyframesInOrder, Present, Increasing, Before, Ids
<1>p. Present' = Ids(keyframes') \cup job' \cup Ids(queue')
  BY DEF Present, Ids
<1> USE DEF ownerVars, idVars, inputVars, backendVars, mapVars, slotVars, refinerVars
<1>e. Ids(<<>>) = {} /\ Increasing(<<>>)
  BY DEF Ids, Increasing
<1>1. CASE EnqueueBackendKeyframe
  <2>1. PICK id \in 0..(MaxKeyframes - 1) :
          /\ id >= nextId /\ nextId' = id + 1
          /\ absent' = absent \cup nextId..(id - 1)
          /\ queue' = Append(queue, id)
          /\ running /\ UNCHANGED <<keyframes, job, running>>
    BY <1>1 DEF EnqueueBackendKeyframe, HandOver
  <2>2. id \in Nat
    BY <2>1, ConstantsAssumption
  <2>3. \A x \in Present : x \in Nat /\ x < nextId /\ x < id
    BY <1>0, <1>i, <2>1, <2>2 DEF Present, Before
  <2>4. Before(Ids(queue), {id}) /\ Before(Ids(keyframes), {id}) /\ Before(job, {id})
    BY <2>3 DEF Present, Before
  <2>5. Ids(queue') = Ids(queue) \cup {id} /\ Increasing(queue')
    BY <1>0, <1>i, <2>1, <2>2, <2>4, AppendIds
  <2>6. Present' = Present \cup {id}
    BY <1>p, <2>1, <2>5 DEF Present
  <2>7. Before(job', Ids(queue')) /\ Before(Ids(keyframes'), Ids(queue'))
    BY <1>i, <2>1, <2>4, <2>5 DEF Before
  <2>8. Before(Present', {nextId'})
    BY <2>1, <2>2, <2>3, <2>6 DEF Before
  <2>9. Present' \cap absent' = {}
    <3>1. absent \subseteq 0..(nextId - 1)
      BY <1>i, <2>1
    <3>2. id \notin absent /\ id \notin nextId..(id - 1)
      BY <1>0, <2>1, <2>2, <3>1
    <3>3. \A x \in Present : x \notin absent /\ x \notin nextId..(id - 1)
      BY <1>0, <1>i, <2>3
    <3> QED
      BY <2>1, <2>6, <3>2, <3>3
  <2>10. Present' \cup absent' = 0..(nextId' - 1)
    <3>1. 0..(nextId' - 1) = 0..(nextId - 1) \cup nextId..(id - 1) \cup {id}
      BY <1>0, <2>1, <2>2
    <3> QED
      BY <1>i, <2>1, <2>6, <3>1
  <2> QED
    BY <1>i, <2>1, <2>5, <2>7, <2>8, <2>9, <2>10
<1>2. CASE StopBackendClearQueue
  <2>1. queue' = <<>> /\ UNCHANGED <<keyframes, job, nextId, absent, running>> /\ ~running
    BY <1>2 DEF StopBackendClearQueue, Control, OwnerControl
  <2>2. Present' \subseteq Present
    BY <1>e, <1>p, <2>1 DEF Present
  <2> QED
    BY <1>e, <1>i, <2>1, <2>2 DEF Before
<1>3. CASE ResetState
  <2>1. /\ queue' = <<>> /\ job' = {} /\ keyframes' = <<>> /\ nextId' = 0
        /\ absent' = {}
    BY <1>3 DEF ResetState, Control, OwnerControl, BackendControl
  <2>2. Present' = {} /\ 0..(nextId' - 1) = {}
    BY <1>e, <1>p, <2>1
  <2> QED
    BY <1>e, <2>1, <2>2 DEF Before
<1>4. CASE BackendPop
  <2>1. /\ queue # <<>> /\ job = {}
        /\ job' = {Head(queue)} /\ queue' = Tail(queue)
        /\ UNCHANGED <<keyframes, running, nextId, absent>>
    BY <1>4 DEF BackendPop, Control, BackendControl
  <2>2. /\ Ids(queue) = {Head(queue)} \cup Ids(queue')
        /\ Before(job', Ids(queue')) /\ Increasing(queue')
    BY <1>0, <1>i, <2>1, TailIds
  <2>3. Present' = Present
    BY <1>p, <2>1, <2>2 DEF Present
  <2>4. Before(Ids(keyframes'), job') /\ Before(Ids(keyframes'), Ids(queue'))
    BY <1>i, <2>1, <2>2 DEF Before
  <2> QED
    BY <1>i, <2>1, <2>2, <2>3, <2>4
<1>5. CASE InsertKeyframe
  <2>1. PICK id \in job :
          /\ keyframes' = IF id \in Ids(keyframes) THEN keyframes
                          ELSE Append(keyframes, id)
          /\ job' = {} /\ UNCHANGED <<queue, running, nextId, absent>>
    BY <1>5 DEF InsertKeyframe
  <2>2. id \in Nat /\ id \notin Ids(keyframes) /\ Before(Ids(keyframes), {id})
    BY <1>0, <1>i, <2>1 DEF Before
  <2>3. Ids(keyframes') = Ids(keyframes) \cup {id} /\ Increasing(keyframes')
    BY <1>0, <1>i, <2>1, <2>2, AppendIds
  <2>4. Before(Ids(keyframes'), Ids(queue')) /\ Before(job', Ids(queue'))
          /\ Before(Ids(keyframes'), job')
    BY <1>i, <2>1, <2>3 DEF Before
  <2>5. job = {id}
    BY <2>1 DEF OneJob
  <2>6. Present' = Present
    BY <1>p, <2>1, <2>3, <2>5 DEF Present
  <2> QED
    BY <1>i, <2>1, <2>3, <2>4, <2>6
<1>6. CASE JobThrows
  <2>1. absent' = absent \cup job /\ job' = {} /\ UNCHANGED <<keyframes, queue, running, nextId>>
    BY <1>6 DEF JobThrows
  <2>2. Present' \subseteq Present /\ Present' \cup absent' = Present \cup absent
    BY <1>p, <2>1 DEF Present
  <2>3. Present' \cap job = {}
    BY <1>0, <1>i, <1>p, <2>1 DEF Before
  <2> QED
    BY <1>i, <2>1, <2>2, <2>3 DEF Before
<1>7. CASE UNCHANGED OrderVars /\ (running' => running)
  <2>1. Present' = Present
    BY <1>p, <1>7 DEF Present, OrderVars
  <2> QED
    BY <1>i, <1>7, <2>1 DEF OrderVars
<1> QED
  BY <1>1, <1>2, <1>3, <1>4, <1>5, <1>6, <1>7, OrderFrame

\* Keyframes are stored in the order in which they were made, and only those
\* that the frontend left out or whose job threw are missing, for any number of
\* keyframes and sessions.
THEOREM KeyframesStayInOrder == Spec => []KeyframesInOrder
<1>1. Init => KeyframesInOrder
  BY DEF Init, KeyframesInOrder, Increasing, Before, Ids
<1>2. Init => OneJob
  BY DEF Init, OneJob
<1> QED
  BY <1>1, <1>2, TypeCorrect, ControlInvariant, NextOneJob, NextKeyframesInOrder, PTL
  DEF Spec

-----------------------------------------------------------------------------
(* Refinement jobs and results against the live history. *)

\* What ResultsMatchHistory needs to be inductive: the flag is up exactly while
\* a result waits, and the code that optimises or submits has a keyframe.
ResultControl ==
  /\ ready <=> completed # {}
  /\ bpc = "loop" => keyframes # <<>>
  /\ bpc = "submit" => epoch # 0

ResultsInv == ResultControl /\ ResultsMatchHistory

LEMMA ExtendsReflexive == ASSUME NEW s \in Seq(Nat) PROVE Extends(s, s)
  BY DEF Extends

LEMMA ExtendsAppend ==
  ASSUME NEW s \in Seq(Nat), NEW t \in Seq(Nat), NEW n \in Nat, Extends(t, s)
  PROVE  Extends(Append(t, n), s)
<1>1. /\ Len(Append(t, n)) = Len(t) + 1
      /\ \A i \in 1..Len(t) : Append(t, n)[i] = t[i]
  BY AppendProperties
<1>2. Len(s) \in Nat /\ Len(t) \in Nat /\ Len(s) <= Len(t)
      /\ \A i \in 1..Len(s) : s[i] = t[i]
  BY DEF Extends
<1>3. Len(s) <= Len(Append(t, n)) /\ \A i \in 1..Len(s) : i \in 1..Len(t)
  BY <1>1, <1>2
<1> QED
  BY <1>1, <1>2, <1>3 DEF Extends

LEMMA AppendNotEmpty ==
  ASSUME NEW s \in Seq(Nat), NEW e \in Nat PROVE Append(s, e) # <<>>
  BY AppendProperties

LEMMA NextResultControl ==
  TypeOK /\ ResultControl /\ [Next]_vars => ResultControl'
<1> SUFFICES ASSUME TypeOK, ResultControl, [Next]_vars PROVE ResultControl'
  OBVIOUS
<1> USE DEF TypeOK, ResultControl, ownerVars, idVars, inputVars, backendVars, mapVars,
      slotVars, refinerVars
<1>1. CASE EnqueueBackendKeyframe \/ StopBackendFlag \/ Destroyed \/ UNCHANGED vars
  BY <1>1, EnqueueFrame DEF StopBackendFlag, Destroyed, vars,
              NotifyBackend
<1>2. CASE StopNext
  BY <1>2
  DEF StopNext, StopBackendClearQueue, StopBackendJoin, StopRefinerClearSlots,
      StopRefinerJoin, ResetState, NotifyBackend
<1>3. CASE BackendNext
  <2>1. CASE BackendWait \/ BackendSleep \/ BackendExit \/ BackendTakeReady
              \/ BackendPop
    BY <2>1 DEF BackendWait, BackendSleep, BackendExit, BackendTakeReady, BackendPop
  <2>2. CASE InsertKeyframe
    <3>1. PICK id \in job :
            /\ keyframes' = IF id \in Ids(keyframes) THEN keyframes
                            ELSE Append(keyframes, id)
            /\ bpc' \in {"loop", "refresh"} /\ UNCHANGED slotVars
      BY <2>2 DEF InsertKeyframe
    <3>2. keyframes' # <<>>
      <4>1. CASE id \in Ids(keyframes)
        BY <3>1, <4>1 DEF Ids
      <4>2. CASE id \notin Ids(keyframes)
        BY <3>1, <4>2, AppendNotEmpty
      <4> QED
        BY <4>1, <4>2
    <3> QED
      BY <3>1, <3>2
  <2>3. CASE RejectLoop \/ RefineInPlace \/ RefreshBackendOutputSnapshot
              \/ SubmitRefinement
    BY <2>3 DEF RejectLoop, RefineInPlace, RefreshBackendOutputSnapshot,
                SubmitRefinement
  <2>4. CASE AcceptLoop
    BY <2>4 DEF AcceptLoop
  <2>5. CASE TryCommitRefinement
    BY <2>5 DEF TryCommitRefinement
  <2> QED
    BY <1>3, <2>1, <2>2, <2>3, <2>4, <2>5 DEF BackendNext, ProcessJob
<1>4. CASE JobThrows \/ BackendSpuriousWakeup
  BY <1>4 DEF JobThrows, BackendSpuriousWakeup
<1>5. CASE RefinerNext \/ RefinerSpuriousWakeup
  <2>1. CASE RefinerPublish
    BY <2>1 DEF RefinerPublish
  <2>2. CASE RefinerNotify
    BY <2>2 DEF RefinerNotify, NotifyBackend
  <2> QED
    BY <1>5, <2>1, <2>2 DEF RefinerNext, RefinerWait, RefinerSleep, RefinerExit,
         RefinerTake, RefinerSpuriousWakeup
<1> QED
  BY <1>1, <1>2, <1>3, <1>4, <1>5 DEF Next

ResultVars == <<session, keyframes, epoch, job, pending, completed, ready, work>>

\* An exception takes the job out of the hand of the backend, and no more.
LEMMA ThrowFrame ==
  JobThrows => /\ UNCHANGED <<session, keyframes, epoch, pending, completed, ready, work>>
               /\ job' = {}
  BY DEF JobThrows, slotVars, refinerVars

LEMMA ResultsFrame ==
  [Next]_vars =>
    \/ StopRefinerClearSlots \/ ResetState
    \/ BackendPop \/ InsertKeyframe \/ AcceptLoop \/ SubmitRefinement
    \/ TryCommitRefinement \/ RefinerTake \/ RefinerPublish
    \/ UNCHANGED <<session, keyframes, epoch, pending, completed, ready, work>>
         /\ job' \in {job, {}}
<1> USE DEF ResultVars, ownerVars, idVars, inputVars, backendVars, mapVars, slotVars,
            refinerVars
<1>1. EnqueueBackendKeyframe \/ StopBackendFlag \/ Destroyed \/ UNCHANGED vars
        => UNCHANGED ResultVars
  BY EnqueueFrame DEF StopBackendFlag, Destroyed, vars
<1>2. StopBackendClearQueue \/ StopBackendJoin \/ StopRefinerJoin
        => UNCHANGED ResultVars
  BY DEF StopBackendClearQueue, StopBackendJoin, StopRefinerJoin
<1>3. BackendWait \/ BackendSleep \/ BackendExit \/ BackendTakeReady
        \/ BackendSpuriousWakeup => UNCHANGED ResultVars
  BY DEF BackendWait, BackendSleep, BackendExit, BackendTakeReady,
         BackendSpuriousWakeup
<1>4. RejectLoop \/ RefineInPlace \/ RefreshBackendOutputSnapshot
        => UNCHANGED ResultVars
  BY DEF RejectLoop, RefineInPlace, RefreshBackendOutputSnapshot
<1>5. RefinerWait \/ RefinerSleep \/ RefinerExit \/ RefinerNotify
        \/ RefinerSpuriousWakeup => UNCHANGED ResultVars
  BY DEF RefinerWait, RefinerSleep, RefinerExit, RefinerNotify,
         RefinerSpuriousWakeup
<1> QED
  BY <1>1, <1>2, <1>3, <1>4, <1>5, ThrowFrame
  DEF Next, StopNext, BackendNext, ProcessJob, RefinerNext

LEMMA NextResultsMatchHistory ==
  TypeOK /\ Control /\ ResultsInv /\ [Next]_vars => ResultsMatchHistory'
<1> SUFFICES ASSUME TypeOK, Control, ResultsInv, [Next]_vars
             PROVE  ResultsMatchHistory'
  OBVIOUS
<1>1. /\ session \in Nat /\ epoch \in Nat /\ keyframes \in Seq(Nat)
      /\ pending \subseteq Job /\ work \subseteq Job /\ completed \subseteq Result
      /\ job \subseteq Nat
  BY DEF TypeOK
<1>2. /\ \A task \in pending \cup work : Describes(task)
      /\ \A result \in completed : Describes(result) \/ Outlived(result)
  BY DEF ResultsInv, ResultsMatchHistory
<1> USE DEF ownerVars, idVars, inputVars, backendVars, mapVars, slotVars, refinerVars
<1>3. ASSUME session' = session, epoch' \in {epoch, epoch + 1},
             \/ keyframes' = keyframes
             \/ \E id \in job : keyframes' = Append(keyframes, id),
             NEW r, Describes(r), r \in pending \cup work \cup completed
      PROVE  Describes(r)'
  <2>1. r.keyframes \in Seq(Nat) /\ r.epoch \in 1..epoch
    BY <1>1, <1>3 DEF Describes, Job, Result
  <2>2. Extends(keyframes', r.keyframes)
    <3>1. CASE keyframes' = keyframes
      BY <1>3, <3>1 DEF Describes
    <3>2. CASE \E id \in job : keyframes' = Append(keyframes, id)
      BY <1>1, <1>3, <2>1, <3>2, ExtendsAppend DEF Describes
    <3> QED
      BY <1>3, <3>1, <3>2
  <2>3. r.epoch \in 1..epoch'
    BY <1>1, <1>3, <2>1
  <2> QED
    BY <1>3, <2>2, <2>3 DEF Describes
<1>4. CASE StopRefinerClearSlots
  <2>1. /\ pending' = {} /\ completed' = {}
        /\ UNCHANGED <<session, keyframes, epoch, work>>
    BY <1>4 DEF StopRefinerClearSlots
  <2> QED
    BY <1>2, <2>1 DEF ResultsMatchHistory, Describes
<1>5. CASE ResetState
  <2>1. /\ session' = session + 1 /\ keyframes' = <<>> /\ epoch' = 0
        /\ pending' = {} /\ work' = {} /\ job' = {}
        /\ UNCHANGED <<completed, ready>>
    BY <1>5 DEF ResetState, Control, OwnerControl, BackendControl, RefinerControl
  <2>2. \A result \in completed : result.session \in Nat /\ result.session <= session
    BY <1>1, <1>2 DEF Describes, Outlived, Result
  <2>3. \A result \in completed : ready
    BY DEF ResultsInv, ResultControl
  <2> QED
    BY <1>1, <2>1, <2>2, <2>3 DEF ResultsMatchHistory, Outlived
<1>6. CASE BackendPop
  <2>1. completed = {}
    BY <1>6 DEF BackendPop, ResultsInv, ResultControl
  <2>2. UNCHANGED <<session, keyframes, epoch, pending, work, completed>>
    BY <1>6 DEF BackendPop
  <2> QED
    BY <1>2, <2>1, <2>2 DEF ResultsMatchHistory, Describes
<1>7. CASE InsertKeyframe
  <2>1. PICK id \in job :
          /\ keyframes' \in {keyframes, Append(keyframes, id)}
          /\ UNCHANGED <<session, epoch, pending, work, completed>>
    BY <1>7 DEF InsertKeyframe
  <2>2. \A result \in completed : Describes(result)
    BY <1>2, <2>1 DEF Outlived
  <2> QED
    BY <1>2, <1>3, <2>1, <2>2 DEF ResultsMatchHistory
<1>8. CASE AcceptLoop
  <2>1. /\ keyframes # <<>> /\ epoch' = epoch + 1
        /\ UNCHANGED <<session, keyframes, pending, work, completed>>
    BY <1>8 DEF AcceptLoop, ResultsInv, ResultControl
  <2>2. \A result \in completed : Describes(result)
    BY <1>2, <2>1 DEF Outlived
  <2> QED
    BY <1>2, <1>3, <2>1, <2>2 DEF ResultsMatchHistory
<1>9. CASE SubmitRefinement
  <2>1. /\ epoch # 0
        /\ UNCHANGED <<session, keyframes, epoch, job, work, completed, ready>>
    BY <1>9 DEF SubmitRefinement, ResultsInv, ResultControl
  <2>2. \/ pending' = pending
        \/ /\ keyframes # <<>>
           /\ pending' = {[session |-> session, epoch |-> epoch,
                           keyframes |-> keyframes]}
    BY <1>9 DEF SubmitRefinement
  <2>3. \A task \in pending' : Describes(task)'
    <3>1. CASE pending' = pending
      BY <1>2, <2>1, <3>1 DEF Describes
    <3>2. CASE pending' # pending
      <4>1. epoch \in 1..epoch /\ Extends(keyframes, keyframes)
        BY <1>1, <2>1, ExtendsReflexive
      <4> QED
        BY <2>1, <2>2, <3>2, <4>1 DEF Describes
    <3> QED
      BY <3>1, <3>2
  <2> QED
    BY <1>2, <2>1, <2>3 DEF ResultsMatchHistory, Describes, Outlived
<1>10. CASE TryCommitRefinement
  <2>1. completed' = {} /\ UNCHANGED <<session, keyframes, epoch, pending, work>>
    BY <1>10 DEF TryCommitRefinement
  <2> QED
    BY <1>2, <2>1 DEF ResultsMatchHistory, Describes
<1>11. CASE RefinerTake
  <2>1. /\ work' = pending /\ pending' = {}
        /\ UNCHANGED <<session, keyframes, epoch, job, completed, ready>>
    BY <1>11 DEF RefinerTake
  <2> QED
    BY <1>2, <2>1 DEF ResultsMatchHistory, Describes, Outlived
<1>12. CASE RefinerPublish
  <2>1. PICK task \in work, ok \in BOOLEAN :
          /\ completed' = {[session |-> task.session, epoch |-> task.epoch,
                            keyframes |-> task.keyframes, success |-> ok]}
          /\ work' = {}
          /\ UNCHANGED <<session, keyframes, epoch, job, pending>>
    BY <1>12 DEF RefinerPublish
  <2> QED
    BY <1>2, <2>1 DEF ResultsMatchHistory, Describes
<1>13. CASE /\ UNCHANGED <<session, keyframes, epoch, pending, completed, ready, work>>
            /\ job' \in {job, {}}
  BY <1>2, <1>13 DEF ResultsMatchHistory, Describes, Outlived
<1> QED
  BY <1>4, <1>5, <1>6, <1>7, <1>8, <1>9, <1>10, <1>11, <1>12, <1>13, ResultsFrame

LEMMA ResultsInvariant == Spec => []ResultsInv
<1>1. Init => ResultsInv
  BY DEF Init, ResultsInv, ResultControl, ResultsMatchHistory
<1>2. TypeOK /\ Control /\ ResultsInv /\ [Next]_vars => ResultsInv'
  BY NextResultControl, NextResultsMatchHistory DEF ResultsInv
<1> QED
  BY <1>1, <1>2, TypeCorrect, ControlInvariant, PTL DEF Spec

\* Every refinement job and result describes a past of the live history, or
\* waits, recognisably stale, in an empty new session.
THEOREM ResultsAlwaysMatchHistory == Spec => []ResultsMatchHistory
<1>1. ResultsInv => ResultsMatchHistory
  BY DEF ResultsInv
<1> QED
  BY <1>1, ResultsInvariant, PTL

-----------------------------------------------------------------------------
(* The refined layer. *)

PublishedGraph == [session |-> published.session, epoch |-> published.epoch]

LayerVars == <<session, epoch, overlay, published>>

\* What a committable result is: one of the live session and the live epoch.  A
\* result that outlived a Reset() fails on the empty history.
LEMMA CommittableIsCurrent ==
  ASSUME TypeOK, ResultsInv, NEW result \in completed, Committable(result)
  PROVE  [session |-> result.session, epoch |-> result.epoch] = LiveGraph
<1>1. Describes(result) \/ Outlived(result)
  BY DEF ResultsInv, ResultsMatchHistory
<1>2. ~Outlived(result)
  <2>1. result.keyframes \in Seq(Nat) /\ result.keyframes # <<>>
    BY DEF TypeOK, Result, Committable
  <2>2. Len(result.keyframes) > 0
    BY <2>1, EmptySeq
  <2>3. keyframes # <<>>
    BY <2>1, <2>2 DEF Committable, Extends
  <2> QED
    BY <2>3 DEF Outlived
<1> QED
  BY <1>1, <1>2 DEF Describes, Committable, LiveGraph

LEMMA LayerFrame ==
  [Next]_vars =>
    \/ ResetState \/ AcceptLoop \/ RefineInPlace \/ TryCommitRefinement
    \/ RefreshBackendOutputSnapshot
    \/ UNCHANGED LayerVars
<1> USE DEF LayerVars, ownerVars, idVars, inputVars, backendVars, mapVars, slotVars,
            refinerVars
<1>1. EnqueueBackendKeyframe \/ StopBackendFlag \/ Destroyed \/ UNCHANGED vars
        => UNCHANGED LayerVars
  BY EnqueueFrame DEF StopBackendFlag, Destroyed, vars
<1>2. StopBackendClearQueue \/ StopBackendJoin \/ StopRefinerClearSlots
        \/ StopRefinerJoin => UNCHANGED LayerVars
  BY DEF StopBackendClearQueue, StopBackendJoin, StopRefinerClearSlots,
         StopRefinerJoin
<1>3. BackendWait \/ BackendSleep \/ BackendExit \/ BackendTakeReady \/ BackendPop
        \/ JobThrows \/ BackendSpuriousWakeup => UNCHANGED LayerVars
  BY DEF BackendWait, BackendSleep, BackendExit, BackendTakeReady, BackendPop,
         JobThrows, BackendSpuriousWakeup
<1>4. RejectLoop \/ SubmitRefinement => UNCHANGED LayerVars
  BY DEF RejectLoop, SubmitRefinement
<1>5. InsertKeyframe => UNCHANGED LayerVars
  <2>1. InsertKeyframe => UNCHANGED overlay
    BY DEF InsertKeyframe, UpdateIncrementalGlobalMaps
  <2>2. InsertKeyframe => UNCHANGED <<session, epoch, published>>
    BY DEF InsertKeyframe
  <2> QED
    BY <2>1, <2>2
<1>6. RefinerNext \/ RefinerSpuriousWakeup => UNCHANGED LayerVars
  BY DEF RefinerNext, RefinerWait, RefinerSleep, RefinerExit, RefinerTake,
         RefinerPublish, RefinerNotify, RefinerSpuriousWakeup
<1> QED
  BY <1>1, <1>2, <1>3, <1>4, <1>5, <1>6 DEF Next, StopNext, BackendNext, ProcessJob

\* The two actions that put a layer over the graph.
LEMMA RefineKeepsCurrent ==
  ASSUME TypeOK, ResultsInv, overlay \subseteq {LiveGraph},
         RefineInPlace \/ TryCommitRefinement
  PROVE  overlay' \in {{}, {LiveGraph}} /\ UNCHANGED <<session, epoch, published>>
<1> USE DEF ownerVars, idVars, backendVars
<1>1. CASE RefineInPlace
  <2>1. overlay' \in {{}, {LiveGraph}, overlay}
    BY <1>1 DEF RefineInPlace, RebuildPostPgoRefinedMap
  <2>2. overlay \in {{}, {LiveGraph}}
    OBVIOUS
  <2> QED
    BY <1>1, <2>1, <2>2 DEF RefineInPlace
<1>2. CASE TryCommitRefinement
  <2>1. \/ overlay' = overlay
        \/ \E result \in completed : CommitResult(result)
    BY <1>2 DEF TryCommitRefinement
  <2>2. ASSUME NEW result \in completed, CommitResult(result)
        PROVE  overlay' \in {{}, {LiveGraph}, overlay}
    BY <2>2, CommittableIsCurrent DEF CommitResult
  <2>3. overlay \in {{}, {LiveGraph}}
    OBVIOUS
  <2> QED
    BY <1>2, <2>1, <2>2, <2>3 DEF TryCommitRefinement
<1> QED
  BY <1>1, <1>2

LEMMA NextRefinedLayerIsCurrent ==
  TypeOK /\ ResultsInv /\ RefinedLayerIsCurrent /\ [Next]_vars
    => RefinedLayerIsCurrent'
<1> SUFFICES ASSUME TypeOK, ResultsInv, RefinedLayerIsCurrent, [Next]_vars
             PROVE  RefinedLayerIsCurrent'
  OBVIOUS
<1>1. overlay \subseteq {LiveGraph} /\ published.overlay \subseteq {PublishedGraph}
  BY DEF RefinedLayerIsCurrent, LiveOutput, LiveGraph, PublishedGraph
<1>2. SUFFICES /\ overlay' \subseteq {LiveGraph}'
               /\ published'.overlay \subseteq {PublishedGraph}'
  BY DEF RefinedLayerIsCurrent, LiveOutput, LiveGraph, PublishedGraph
<1> USE DEF ownerVars, idVars, backendVars, mapVars
<1>3. CASE ResetState
  BY <1>3 DEF ResetState, LiveOutput, LiveGraph, PublishedGraph
<1>4. CASE AcceptLoop
  BY <1>1, <1>4 DEF AcceptLoop, UpdateIncrementalGlobalMaps, PublishedGraph
<1>5. CASE RefineInPlace \/ TryCommitRefinement
  BY <1>1, <1>5, RefineKeepsCurrent DEF LiveGraph, PublishedGraph
<1>6. CASE RefreshBackendOutputSnapshot
  BY <1>1, <1>6 DEF RefreshBackendOutputSnapshot, LiveOutput, LiveGraph,
                    PublishedGraph
<1>7. CASE UNCHANGED LayerVars
  BY <1>1, <1>7 DEF LayerVars, LiveGraph, PublishedGraph
<1> QED
  BY <1>3, <1>4, <1>5, <1>6, <1>7, LayerFrame

\* No refined layer computed from an older graph, or before a reset, is ever in
\* the backend's map or in the snapshot readers get.
THEOREM RefinedLayerStaysCurrent == Spec => []RefinedLayerIsCurrent
<1>1. Init => RefinedLayerIsCurrent
  BY DEF Init, RefinedLayerIsCurrent, LiveOutput
<1> QED
  BY <1>1, TypeCorrect, ResultsInvariant, NextRefinedLayerIsCurrent, PTL DEF Spec

-----------------------------------------------------------------------------
(* The refinement of RefinedLayer. *)

LEMMA InitRefines == Init => Abstract!Init
  BY DEF Init, LiveOutput, LiveGraph, Abstract!Init

LEMMA NextRefines ==
  TypeOK /\ ResultsInv /\ RefinedLayerIsCurrent /\ [Next]_vars
    => [Abstract!Next]_(Abstract!vars)
<1> SUFFICES ASSUME TypeOK, ResultsInv, RefinedLayerIsCurrent, [Next]_vars
             PROVE  Abstract!Next \/ UNCHANGED Abstract!vars
  OBVIOUS
<1>1. overlay \subseteq {LiveGraph}
  BY DEF RefinedLayerIsCurrent, LiveOutput, LiveGraph
<1>2. session \in Nat /\ epoch \in Nat
  BY DEF TypeOK
<1> USE DEF ownerVars, idVars, backendVars, mapVars
<1>3. CASE ResetState
  <2>1. /\ session' = session + 1 /\ epoch' = 0 /\ overlay' = {}
        /\ published' = LiveOutput'
    BY <1>3 DEF ResetState
  <2>2. Abstract!Newer(LiveGraph', LiveGraph) /\ LiveGraph' \in Abstract!Graph
    BY <1>2, <2>1 DEF LiveGraph, Abstract!Newer, Abstract!Graph
  <2>3. Abstract!Show
    BY <2>1 DEF Abstract!Show, LiveOutput, LiveGraph
  <2> QED
    BY <2>1, <2>2, <2>3 DEF Abstract!Next, Abstract!ReplaceGraph
<1>4. CASE AcceptLoop
  <2>1. /\ epoch' = epoch + 1 /\ overlay' = {}
        /\ UNCHANGED <<session, published>>
    BY <1>4 DEF AcceptLoop, UpdateIncrementalGlobalMaps
  <2>2. Abstract!Newer(LiveGraph', LiveGraph) /\ LiveGraph' \in Abstract!Graph
    BY <1>2, <2>1 DEF LiveGraph, Abstract!Newer, Abstract!Graph
  <2> QED
    BY <2>1, <2>2 DEF Abstract!Next, Abstract!ReplaceGraph
<1>5. CASE RefineInPlace \/ TryCommitRefinement
  BY <1>1, <1>5, RefineKeepsCurrent
  DEF LiveGraph, Abstract!Next, Abstract!Refine
<1>6. CASE RefreshBackendOutputSnapshot
  BY <1>6 DEF RefreshBackendOutputSnapshot, LiveOutput, LiveGraph,
              Abstract!Next, Abstract!Publish, Abstract!Show
<1>7. CASE UNCHANGED LayerVars
  BY <1>7 DEF LayerVars, LiveGraph, Abstract!vars
<1> QED
  BY <1>3, <1>4, <1>5, <1>6, <1>7, LayerFrame

\* The three threads implement the abstract view of the refined map.
THEOREM BackendImplementsRefinedLayer == Spec => ImplementsRefinedLayer
<1>1. Spec => Abstract!Init
  BY InitRefines, PTL DEF Spec
<1>2. Spec => [][Abstract!Next]_(Abstract!vars)
  BY NextRefines, TypeCorrect, ResultsInvariant, RefinedLayerStaysCurrent, PTL
  DEF Spec
<1> QED
  BY <1>1, <1>2, PTL DEF ImplementsRefinedLayer, Abstract!Spec

\* What the abstract view promises: the layer lies over the graph it was computed
\* from, live and as shown.  So whatever implements the view keeps it.
THEOREM LayerAlwaysBelongs == Abstract!Spec => []Abstract!LayerBelongs
<1>1. Abstract!Init => Abstract!LayerBelongs
  BY DEF Abstract!Init, Abstract!LayerBelongs
<1>2. Abstract!LayerBelongs /\ [Abstract!Next]_(Abstract!vars) => Abstract!LayerBelongs'
  <2> SUFFICES ASSUME Abstract!LayerBelongs, [Abstract!Next]_(Abstract!vars)
               PROVE  Abstract!LayerBelongs'
    OBVIOUS
  <2> USE DEF Abstract!LayerBelongs
  <2>1. CASE Abstract!ReplaceGraph
    BY <2>1 DEF Abstract!ReplaceGraph, Abstract!Show
  <2>2. CASE Abstract!Refine
    BY <2>2 DEF Abstract!Refine
  <2>3. CASE Abstract!Publish
    BY <2>3 DEF Abstract!Publish, Abstract!Show
  <2>4. CASE UNCHANGED Abstract!vars
    BY <2>4 DEF Abstract!vars
  <2> QED
    BY <2>1, <2>2, <2>3, <2>4 DEF Abstract!Next
<1> QED
  BY <1>1, <1>2, PTL DEF Abstract!Spec

-----------------------------------------------------------------------------
(* Nobody sleeps through work. *)

\* A thread that waits, or has found its predicate false and still holds the
\* mutex, has nothing in its queue or slot; and it was not told to stop, unless
\* the owner is on its way to the notification.
BackendSleepsRightly ==
  bpc \in {"blocking", "waiting"} => queue = <<>> /\ (running \/ opc = "clearQueue")

RefinerSleepsRightly ==
  rpc \in {"blocking", "waiting"} => pending = {} /\ (refRunning \/ opc = "clearSlots")

SleepersHaveNothingToDo == BackendSleepsRightly /\ RefinerSleepsRightly

LEMMA NextBackendSleeps ==
  TypeOK /\ Control /\ BackendSleepsRightly /\ [Next]_vars => BackendSleepsRightly'
<1> SUFFICES ASSUME TypeOK, Control, BackendSleepsRightly, [Next]_vars
             PROVE  BackendSleepsRightly'
  OBVIOUS
<1> USE DEF BackendSleepsRightly, ownerVars, idVars, inputVars, backendVars, mapVars, slotVars,
      refinerVars
<1>1. CASE EnqueueBackendKeyframe \/ StopBackendFlag
  BY <1>1, EnqueueFrame DEF StopBackendFlag, NotifyBackend, QueueMutexFree
<1>2. CASE StopNext
  BY <1>2 DEF StopNext, StopBackendClearQueue, StopBackendJoin, StopRefinerClearSlots,
       StopRefinerJoin, ResetState, NotifyBackend, QueueMutexFree, Control, OwnerControl
<1>3. CASE BackendNext \/ JobThrows \/ BackendSpuriousWakeup
  <2>1. CASE ProcessJob
    <3>1. bpc' \notin {"blocking", "waiting"}
      BY <2>1 DEF ProcessJob, InsertKeyframe, RejectLoop, AcceptLoop, SubmitRefinement,
           RefineInPlace, TryCommitRefinement, RefreshBackendOutputSnapshot
    <3> QED BY <3>1
  <2>2. CASE BackendWait
    BY <2>2 DEF BackendWait, BackendPredicate, Control, OwnerControl
  <2>3. CASE BackendSleep \/ BackendSpuriousWakeup
    BY <2>3 DEF BackendSleep, BackendSpuriousWakeup
  <2>4. CASE BackendExit \/ BackendTakeReady \/ BackendPop \/ JobThrows
    BY <2>4 DEF BackendExit, BackendTakeReady, BackendPop, JobThrows
  <2> QED BY <1>3, <2>1, <2>2, <2>3, <2>4 DEF BackendNext
<1>4. CASE RefinerNext \/ RefinerSpuriousWakeup
  <2>1. UNCHANGED <<queue, running, opc>> /\ bpc' \in {bpc, "check"}
    BY <1>4 DEF RefinerNext, RefinerWait, RefinerSleep, RefinerExit, RefinerTake,
         RefinerPublish, RefinerNotify, RefinerSpuriousWakeup, NotifyBackend
  <2> QED BY <2>1
<1>5. CASE Destroyed \/ UNCHANGED vars
  BY <1>5 DEF Destroyed, vars
<1> QED BY <1>1, <1>2, <1>3, <1>4, <1>5 DEF Next

LEMMA NextRefinerSleeps ==
  TypeOK /\ Control /\ RefinerSleepsRightly /\ [Next]_vars => RefinerSleepsRightly'
<1> SUFFICES ASSUME TypeOK, Control, RefinerSleepsRightly, [Next]_vars
             PROVE  RefinerSleepsRightly'
  OBVIOUS
<1> USE DEF RefinerSleepsRightly, ownerVars, idVars, inputVars, backendVars, mapVars, slotVars,
      refinerVars
<1>1. CASE EnqueueBackendKeyframe \/ StopBackendFlag
  BY <1>1, EnqueueFrame DEF StopBackendFlag, Control, OwnerControl
<1>2. CASE StopNext
  <2>1. CASE StopBackendClearQueue \/ StopBackendJoin
    BY <2>1 DEF StopBackendClearQueue, StopBackendJoin, Control, OwnerControl
  <2>2. CASE StopRefinerClearSlots
    BY <2>2 DEF StopRefinerClearSlots, NotifyRefiner, RefinementMutexFree
  <2>3. CASE StopRefinerJoin
    BY <2>3 DEF StopRefinerJoin
  <2>4. CASE ResetState
    BY <2>4 DEF ResetState, RefinerStart
  <2> QED BY <1>2, <2>1, <2>2, <2>3, <2>4 DEF StopNext
<1>3. CASE BackendNext \/ JobThrows \/ BackendSpuriousWakeup
  <2>1. CASE SubmitRefinement
    BY <2>1 DEF SubmitRefinement, NotifyRefiner, RefinementMutexFree
  <2>2. CASE ProcessJob /\ ~SubmitRefinement
    <3>1. UNCHANGED <<rpc, pending, refRunning, opc>>
      BY <2>2 DEF ProcessJob, InsertKeyframe, RejectLoop, AcceptLoop,
           RefineInPlace, TryCommitRefinement, RefreshBackendOutputSnapshot
    <3> QED BY <3>1
  <2>3. CASE \/ BackendWait \/ BackendSleep \/ BackendExit \/ BackendTakeReady
             \/ BackendPop \/ JobThrows \/ BackendSpuriousWakeup
    BY <2>3 DEF BackendWait, BackendSleep, BackendExit, BackendTakeReady, BackendPop,
         JobThrows, BackendSpuriousWakeup
  <2> QED BY <1>3, <2>1, <2>2, <2>3 DEF BackendNext
<1>4. CASE RefinerNext \/ RefinerSpuriousWakeup
  BY <1>4 DEF RefinerNext, RefinerWait, RefinerSleep, RefinerExit, RefinerTake,
       RefinerPublish, RefinerNotify, RefinerSpuriousWakeup
<1>5. CASE Destroyed \/ UNCHANGED vars
  BY <1>5 DEF Destroyed, vars
<1> QED BY <1>1, <1>2, <1>3, <1>4, <1>5 DEF Next

LEMMA SleepInvariant == Spec => []SleepersHaveNothingToDo
<1>1. Init => SleepersHaveNothingToDo
  BY DEF Init, SleepersHaveNothingToDo, BackendSleepsRightly, RefinerSleepsRightly,
         RefinerStart
<1>2. TypeOK /\ Control /\ SleepersHaveNothingToDo /\ [Next]_vars => SleepersHaveNothingToDo'
  BY NextBackendSleeps, NextRefinerSleeps DEF SleepersHaveNothingToDo
<1> QED BY <1>1, <1>2, TypeCorrect, ControlInvariant, PTL DEF Spec

\* Although the owner clears the running flags without the mutexes, neither
\* thread is asleep with a keyframe or a job before it; and an owner that waits in
\* a join waits for a thread that is awake.  Of all that a thread waits for, only
\* the ready flag of the backend can be missed.
NoLostWakeup ==
  /\ SleepersHaveNothingToDo
  /\ opc \in {"joinBackend", "clearSlots"} => bpc \notin {"blocking", "waiting"}
  /\ opc = "joinRefiner" => rpc \notin {"blocking", "waiting"}

THEOREM NoWakeupIsLost == Spec => []NoLostWakeup
<1>1. Control /\ SleepersHaveNothingToDo => NoLostWakeup
  BY DEF Control, OwnerControl, SleepersHaveNothingToDo, BackendSleepsRightly,
         RefinerSleepsRightly, NoLostWakeup
<1> QED BY <1>1, ControlInvariant, SleepInvariant, PTL
=============================================================================
