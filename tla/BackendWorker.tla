---------------------------- MODULE BackendWorker ----------------------------
(***************************************************************************)
(* The asynchronous backend of RegistrationScan2LocalMap                   *)
(* (src/backend/backend_worker.cpp).  Three threads meet here:             *)
(*                                                                         *)
(*   owner    the LiDAR worker of the node, which owns the object: it      *)
(*            enqueues keyframes, and it resets or destroys the object;    *)
(*   backend  BackendLoop: inserts the keyframes into the pose graph and   *)
(*            the maps, accepts loop edges, commits refinement results and *)
(*            publishes a snapshot;                                        *)
(*   refiner  PostPgoRefinementLoop: computes a refined layer of the map   *)
(*            from a copy of the backend's state.                          *)
(*                                                                         *)
(* A critical section of backend_queue_mutex_ or refinement_worker_mutex_  *)
(* is one action, except that a thread which found its wait predicate      *)
(* false and is not asleep yet is "blocking": it still holds the mutex.    *)
(* An optional value is a set with at most one element.                    *)
(***************************************************************************)
EXTENDS Naturals, Sequences

CONSTANTS
  RefinementModes, \* the values of post_pgo_refinement_mode considered
  LoopStride,      \* post_pgo_refinement_loop_stride
  MaxKeyframes,    \* bound: keyframes the owner enqueues in one session
  MaxSessions      \* bound: sessions (1 + number of resets)

ASSUME ConstantsAssumption ==
  /\ RefinementModes \subseteq {"off", "sync", "async"}
  /\ LoopStride \in Nat
  /\ MaxKeyframes \in Nat
  /\ MaxSessions \in Nat

VARIABLES
  opc,        \* control point of the owner
  goal,       \* what the owner stops the threads for: "reset" or "destroy"
  nextId,     \* the next keyframe id of keyframe_manager_
  absent,     \* auxiliary: the ids below nextId no keyframe carries (any more)
  session,    \* number of resets so far; no guard of the code reads it
  mode,       \* post_pgo_refinement_mode, configured once
  running,    \* backend_running_
  queue,      \* backend_queue_
  bpc,        \* control point of the backend thread
  job,        \* the keyframe BackendLoop has popped and not inserted yet
  keyframes,  \* backend_keyframes_, their ids
  nodes,      \* the ids of the keyframes with a node in pose_graph_
  epoch,      \* pose_graph_optimization_epoch_
  loopEdges,  \* pose_graph_.LoopEdgeCount()
  globalRev,  \* global_map_revision_
  refinedRev, \* refined_map_revision_
  overlay,    \* the refined overrides in incremental_global_map_
  published,  \* the backend_*_snapshot_ fields under backend_output_mutex_
  refRunning, \* refinement_worker_running_
  pending,    \* pending_refinement_job_
  completed,  \* completed_refinement_result_
  ready,      \* refinement_result_ready_
  rpc,        \* control point of the refiner
  work        \* the job the refiner computes on

idVars      == <<nextId, absent>>
ownerVars   == <<opc, goal, idVars, session, mode>>
inputVars   == <<running, queue>>
backendVars == <<keyframes, nodes, epoch, loopEdges>>
mapVars     == <<globalRev, refinedRev, overlay>>
slotVars    == <<pending, completed, ready>>
refinerVars == <<refRunning, rpc, work>>
vars == <<ownerVars, inputVars, bpc, job, backendVars, mapVars, published,
          slotVars, refinerVars>>

-----------------------------------------------------------------------------
\* A job carries copies of backend_keyframes_ and pose_graph_; within a session
\* the epoch identifies the poses of the graph that was copied.
Job    == [session : Nat, epoch : Nat, keyframes : Seq(Nat)]
Result == [session : Nat, epoch : Nat, keyframes : Seq(Nat), success : BOOLEAN]

\* The overrides are identified by the graph their poses were computed from.
Layer     == [session : Nat, epoch : Nat]
LiveGraph == [session |-> session, epoch |-> epoch]

\* What RefreshBackendOutputSnapshot copies for the readers.
Output == [session : Nat, epoch : Nat, nodes : SUBSET Nat, loopEdges : Nat,
           globalRev : Nat, refinedRev : Nat, overlay : SUBSET Layer]

Ids(s) == {s[i] : i \in 1..Len(s)}
Extends(t, s) == Len(s) <= Len(t) /\ \A i \in 1..Len(s) : s[i] = t[i]

LiveOutput == [session |-> session, epoch |-> epoch, nodes |-> nodes,
               loopEdges |-> loopEdges, globalRev |-> globalRev,
               refinedRev |-> refinedRev, overlay |-> overlay]

QueueMutexFree      == bpc # "blocking"
RefinementMutexFree == rpc # "blocking"

\* Each condition variable has one waiter, so notify_one and notify_all agree.
NotifyBackend == bpc' = IF bpc = "waiting" THEN "check" ELSE bpc
NotifyRefiner == rpc' = IF rpc = "waiting" THEN "check" ELSE rpc

\* StartPostPgoRefinementWorker starts a thread only in mode async.
StartsRefiner == mode = "async"
RefinerStart  == IF StartsRefiner THEN "check" ELSE "exited"

Init ==
  /\ opc = "idle" /\ goal = "destroy" /\ session = 0
  /\ nextId = 0 /\ absent = {}
  /\ mode \in RefinementModes
  /\ running = TRUE /\ bpc = "check"
  /\ refRunning = StartsRefiner /\ rpc = RefinerStart
  /\ queue = <<>> /\ job = {} /\ work = {}
  /\ keyframes = <<>> /\ nodes = {} /\ epoch = 0 /\ loopEdges = 0
  /\ globalRev = 0 /\ refinedRev = 0 /\ overlay = {}
  /\ published = LiveOutput
  /\ pending = {} /\ completed = {} /\ ready = FALSE

-----------------------------------------------------------------------------
(* The owner *)

\* The frontend hands over a keyframe with an id of its own.  A keyframe that
\* failed after it got its id never comes here, so ids may be left out.
HandOver(id) ==
  /\ opc = "idle" /\ running
  /\ id >= nextId /\ id < MaxKeyframes
  /\ QueueMutexFree
  /\ nextId' = id + 1
  /\ absent' = absent \cup nextId..(id - 1)
  /\ UNCHANGED <<opc, goal, session, mode, running, job, backendVars, mapVars,
                 published, slotVars, refinerVars>>

\* Mutant: the notify_one after the push is forgotten.
EnqueueWithoutNotify ==
  \E id \in 0..(MaxKeyframes - 1) :
    HandOver(id) /\ queue' = Append(queue, id) /\ UNCHANGED bpc

\* Mutant: the keyframe carries the id before its own.
EnqueuePreviousId ==
  \E id \in 0..(MaxKeyframes - 1) :
    HandOver(id) /\ queue' = Append(queue, id - 1) /\ NotifyBackend

\* The push under the mutex and the notify_one after it are one step: a backend
\* that looks between the two finds the same queue.
EnqueueBackendKeyframe ==
  \E id \in 0..(MaxKeyframes - 1) :
    HandOver(id) /\ queue' = Append(queue, id) /\ NotifyBackend

\* Reset() and the destructor both begin with StopBackendWorker(), whose first
\* effect is backend_running_.exchange(false), made without the mutex.
StopBackendFlag ==
  /\ opc = "idle" /\ running
  /\ goal' \in {"reset", "destroy"}
  /\ goal' = "reset" => session + 1 < MaxSessions
  /\ opc' = "clearQueue"
  /\ running' = FALSE
  /\ UNCHANGED <<idVars, session, mode, queue, bpc, job, backendVars, mapVars,
                 published, slotVars, refinerVars>>

\* Mutant: the queue is cleared, but nobody is notified.
StopBackendClearQueueSilently ==
  /\ opc = "clearQueue"
  /\ QueueMutexFree
  /\ queue' = <<>>
  /\ opc' = "joinBackend"
  /\ UNCHANGED <<goal, idVars, session, mode, running, bpc, job, backendVars, mapVars,
                 published, slotVars, refinerVars>>

StopBackendClearQueue ==
  /\ opc = "clearQueue"
  /\ QueueMutexFree
  /\ queue' = <<>>
  /\ NotifyBackend
  /\ opc' = "joinBackend"
  /\ UNCHANGED <<goal, idVars, session, mode, running, job, backendVars, mapVars,
                 published, slotVars, refinerVars>>

\* After the join StopPostPgoRefinementWorker() follows; its exchange finds the
\* flag already false when the mode is not async, and it is done.
StopBackendJoin ==
  /\ opc = "joinBackend"
  /\ bpc = "exited"
  /\ opc' = IF refRunning THEN "clearSlots" ELSE "stopped"
  /\ refRunning' = FALSE
  /\ UNCHANGED <<goal, idVars, session, mode, inputVars, bpc, job, backendVars,
                 mapVars, published, slotVars, rpc, work>>

StopRefinerClearSlots ==
  /\ opc = "clearSlots"
  /\ RefinementMutexFree
  /\ pending' = {} /\ completed' = {} /\ ready' = FALSE
  /\ NotifyRefiner
  /\ opc' = "joinRefiner"
  /\ UNCHANGED <<goal, idVars, session, mode, inputVars, bpc, job, backendVars,
                 mapVars, published, refRunning, work>>

\* Mutant: the refiner is told to stop and not joined.
StopRefinerDetach ==
  /\ opc = "joinRefiner"
  /\ opc' = "stopped"
  /\ UNCHANGED <<goal, idVars, session, mode, inputVars, bpc, job, backendVars,
                 mapVars, published, slotVars, refinerVars>>

StopRefinerJoin ==
  /\ opc = "joinRefiner"
  /\ rpc = "exited"
  /\ opc' = "stopped"
  /\ UNCHANGED <<goal, idVars, session, mode, inputVars, bpc, job, backendVars,
                 mapVars, published, slotVars, refinerVars>>

\* The rest of Reset(): every field back to its initial value, a refresh of the
\* snapshot, and both threads started again.  The slots are not touched: a
\* result the refiner published after StopRefinerClearSlots is still in them.
ResetState ==
  /\ opc = "stopped" /\ goal = "reset"
  /\ opc' = "idle"
  /\ nextId' = 0 /\ absent' = {}
  /\ session' = session + 1
  /\ keyframes' = <<>> /\ nodes' = {} /\ epoch' = 0 /\ loopEdges' = 0
  /\ globalRev' = 0 /\ refinedRev' = 0 /\ overlay' = {}
  /\ published' = LiveOutput'
  /\ running' = TRUE /\ bpc' = "check"
  /\ refRunning' = StartsRefiner /\ rpc' = RefinerStart
  /\ UNCHANGED <<goal, mode, queue, job, slotVars, work>>

Destroyed ==
  /\ opc = "stopped" /\ goal = "destroy"
  /\ UNCHANGED vars

-----------------------------------------------------------------------------
(* The backend thread: BackendLoop *)

BackendPredicate == ~running \/ queue # <<>> \/ ready

\* The predicate is evaluated, and the queue read, under the queue mutex;
\* running and ready only move towards the branch they select meanwhile.
BackendWait ==
  /\ bpc = "check" /\ ~BackendPredicate
  /\ bpc' = "blocking"
  /\ UNCHANGED <<ownerVars, inputVars, job, backendVars, mapVars, published,
                 slotVars, refinerVars>>

BackendSleep ==
  /\ bpc = "blocking"
  /\ bpc' = "waiting"
  /\ UNCHANGED <<ownerVars, inputVars, job, backendVars, mapVars, published,
                 slotVars, refinerVars>>

\* std::condition_variable may wake a waiter that nobody notified.
BackendSpuriousWakeup ==
  /\ bpc = "waiting"
  /\ bpc' = "check"
  /\ UNCHANGED <<ownerVars, inputVars, job, backendVars, mapVars, published,
                 slotVars, refinerVars>>

BackendExit ==
  /\ bpc = "check"
  /\ ~running /\ queue = <<>> /\ ~ready
  /\ bpc' = "exited"
  /\ UNCHANGED <<ownerVars, inputVars, job, backendVars, mapVars, published,
                 slotVars, refinerVars>>

BackendTakeReady ==
  /\ bpc = "check" /\ ready
  /\ bpc' = "commitReady"
  /\ UNCHANGED <<ownerVars, inputVars, job, backendVars, mapVars, published,
                 slotVars, refinerVars>>

\* Mutant: the newest keyframe first.
BackendPopNewest ==
  /\ bpc = "check" /\ ~ready /\ queue # <<>>
  /\ job' = {queue[Len(queue)]}
  /\ queue' = SubSeq(queue, 1, Len(queue) - 1)
  /\ bpc' = "insert"
  /\ UNCHANGED <<ownerVars, running, backendVars, mapVars, published,
                 slotVars, refinerVars>>

\* Mutant: a keyframe is taken although a result is ready.
BackendPopFirst ==
  /\ bpc = "check" /\ queue # <<>>
  /\ job' = {Head(queue)}
  /\ queue' = Tail(queue)
  /\ bpc' = "insert"
  /\ UNCHANGED <<ownerVars, running, backendVars, mapVars, published,
                 slotVars, refinerVars>>

BackendPop ==
  /\ bpc = "check" /\ ~ready /\ queue # <<>>
  /\ job' = {Head(queue)}
  /\ queue' = Tail(queue)
  /\ bpc' = "insert"
  /\ UNCHANGED <<ownerVars, running, backendVars, mapVars, published,
                 slotVars, refinerVars>>

\* AddKeyframeToPoseGraph: the first node is fixed, every other one needs the
\* node of the second-to-last stored keyframe.  It may also fail after AddNode.
PredecessorHasNode(kfs) ==
  nodes # {} => /\ Len(kfs) >= 2
                /\ kfs[Len(kfs) - 1] \in nodes

\* Mutant: the refined revision is not carried along with a new keyframe.
UpdateMapsRefinedLeftBehind(clearRefinedOverrides, ok) ==
  /\ overlay' = IF clearRefinedOverrides THEN {} ELSE overlay
  /\ IF ok
     THEN /\ globalRev' = globalRev + 1
          /\ refinedRev' = IF clearRefinedOverrides THEN 0 ELSE refinedRev
     ELSE UNCHANGED <<globalRev, refinedRev>>

\* The overrides are cleared first; the revisions move only if the maps were
\* rebuilt.  The code asks once more whether the refined map is empty before the
\* refined revision follows the global one: it is not, since it is put together
\* from the same blocks as the optimised map, which was found non-empty, with the
\* overrides, built from the same clouds, in the place of some of them.
UpdateIncrementalGlobalMaps(clearRefinedOverrides, ok) ==
  /\ overlay' = IF clearRefinedOverrides THEN {} ELSE overlay
  /\ IF ok
     THEN /\ globalRev' = globalRev + 1
          /\ refinedRev' = IF clearRefinedOverrides THEN 0 ELSE globalRev + 1
     ELSE UNCHANGED <<globalRev, refinedRev>>

\* ProcessBackendJob up to the loop search.
InsertKeyframe ==
  \E id \in job, outcome \in {"inserted", "node only", "no node"}, ok \in BOOLEAN :
    LET kfs == IF id \in Ids(keyframes) THEN keyframes ELSE Append(keyframes, id)
    IN /\ bpc = "insert"
       /\ outcome # "no node" => PredecessorHasNode(kfs)
       /\ keyframes' = kfs
       /\ nodes' = IF outcome = "no node" THEN nodes ELSE nodes \cup {id}
       /\ job' = {}
       /\ IF outcome = "inserted"
          THEN /\ UpdateIncrementalGlobalMaps(FALSE, ok)
               /\ bpc' = "loop"
          ELSE /\ UNCHANGED mapVars
               /\ bpc' = "refresh"
       /\ UNCHANGED <<ownerVars, inputVars, epoch, loopEdges, published,
                      slotVars, refinerVars>>

\* DetectAndVerifyLoopFromKeyframe found no loop, or a gate or the rollback
\* after the optimisation rejected it (module LoopCommit).
RejectLoop ==
  /\ bpc = "loop"
  /\ bpc' = "commit"
  /\ UNCHANGED <<ownerVars, inputVars, job, backendVars, mapVars, published,
                 slotVars, refinerVars>>

RefinementDue(loops) ==
  \/ loops = 1
  \/ loops % (IF LoopStride = 0 THEN 1 ELSE LoopStride) = 0

AcceptLoop ==
  \E ok \in BOOLEAN :
    /\ bpc = "loop"
    /\ nodes \ {keyframes[Len(keyframes)]} # {}
    /\ epoch' = epoch + 1
    /\ loopEdges' = loopEdges + 1
    /\ UpdateIncrementalGlobalMaps(TRUE, ok)
    /\ bpc' = IF ok /\ RefinementDue(loopEdges') /\ mode # "off"
              THEN IF mode = "async" THEN "submit" ELSE "refine"
              ELSE "commit"
    /\ UNCHANGED <<ownerVars, inputVars, job, keyframes, nodes, published,
                   slotVars, refinerVars>>

\* SubmitPostPgoRefinementJob: the latest job replaces one not taken yet.
SubmitRefinement ==
  /\ bpc = "submit"
  /\ RefinementMutexFree
  /\ IF refRunning /\ globalRev # 0 /\ keyframes # <<>> /\ nodes # {}
     THEN /\ pending' = {[session |-> session, epoch |-> epoch,
                          keyframes |-> keyframes]}
          /\ NotifyRefiner
     ELSE UNCHANGED <<pending, rpc>>
  /\ bpc' = "commit"
  /\ UNCHANGED <<ownerVars, inputVars, job, backendVars, mapVars, published,
                 completed, ready, refRunning, work>>

\* RebuildPostPgoRefinedMap, on the thread that calls it.  It may adjust no
\* keyframe at all, and it may fail before or after the old overrides are gone.
RebuildPostPgoRefinedMap ==
  IF keyframes # <<>> /\ nodes # {} /\ globalRev # 0
  THEN \/ refinedRev' = globalRev /\ overlay' \in {{}, {LiveGraph}}
       \/ refinedRev' = 0 /\ overlay' \in {{}, overlay}
  ELSE UNCHANGED <<refinedRev, overlay>>

RefineInPlace ==
  /\ bpc = "refine"
  /\ RebuildPostPgoRefinedMap
  /\ bpc' = "commit"
  /\ UNCHANGED <<ownerVars, inputVars, job, backendVars, globalRev, published,
                 slotVars, refinerVars>>

\* Mutant: the epoch of the result is not compared with the live one.
CommittableAnyEpoch(result) ==
  /\ result.success
  /\ result.keyframes # <<>>
  /\ Extends(keyframes, result.keyframes)
  /\ Ids(keyframes) \subseteq nodes

\* Every check of TryCommitCompletedPostPgoRefinementResult before the map.
Committable(result) ==
  /\ result.success
  /\ result.epoch = epoch
  /\ result.keyframes # <<>>
  /\ Extends(keyframes, result.keyframes)
  /\ Ids(keyframes) \subseteq nodes

CommitResult(result) ==
  IF Committable(result)
  THEN \/ /\ overlay' \in {{}, {[session |-> result.session,
                                 epoch   |-> result.epoch]}}
          /\ refinedRev' = globalRev
       \/ /\ overlay' = {}                  \* UpdateRefinedOverrides failed
          /\ UNCHANGED refinedRev
  ELSE UNCHANGED <<overlay, refinedRev>>

\* Mutant: the flag is not lowered when the result is taken.
TryCommitLeavesReady ==
  /\ bpc \in {"commitReady", "commit"}
  /\ RefinementMutexFree
  /\ IF completed = {}
     THEN UNCHANGED <<overlay, refinedRev>>
     ELSE \E result \in completed : CommitResult(result)
  /\ completed' = {}
  /\ bpc' = IF bpc = "commitReady" THEN "refreshReady" ELSE "refresh"
  /\ UNCHANGED <<ownerVars, inputVars, job, backendVars, globalRev, published,
                 pending, ready, refinerVars>>

\* Called for a ready result and at the end of every job; what follows the take
\* touches only the backend's own state, so the whole call is one step.
TryCommitRefinement ==
  /\ bpc \in {"commitReady", "commit"}
  /\ RefinementMutexFree
  /\ IF completed = {}
     THEN UNCHANGED <<overlay, refinedRev>>
     ELSE \E result \in completed : CommitResult(result)
  /\ completed' = {}
  /\ ready' = FALSE
  /\ bpc' = IF bpc = "commitReady" THEN "refreshReady" ELSE "refresh"
  /\ UNCHANGED <<ownerVars, inputVars, job, backendVars, globalRev, published,
                 pending, refinerVars>>

RefreshBackendOutputSnapshot ==
  /\ bpc \in {"refresh", "refreshReady"}
  /\ published' = LiveOutput
  /\ bpc' = "check"
  /\ UNCHANGED <<ownerVars, inputVars, job, backendVars, mapVars, slotVars,
                 refinerVars>>

\* BackendLoop catches whatever the processing of a job throws: the job ends
\* where it was, with neither a commit nor a refresh.  A keyframe not stored yet
\* is lost; the tentative edge of a loop that was being optimised stays in the
\* graph.  A throw inside a call that leaves its work half done is the outcome
\* of the call that failed there, and a throw after it.  For a ready result
\* nothing is caught: a throw ends the process.
JobThrows ==
  /\ bpc \in {"insert", "loop", "submit", "refine", "commit", "refresh"}
  /\ \/ UNCHANGED loopEdges
     \/ /\ bpc = "loop" /\ nodes \ {keyframes[Len(keyframes)]} # {}
        /\ loopEdges' = loopEdges + 1
  /\ absent' = absent \cup job
  /\ job' = {}
  /\ bpc' = "check"
  /\ UNCHANGED <<opc, goal, nextId, session, mode, inputVars, keyframes, nodes,
                 epoch, mapVars, published, slotVars, refinerVars>>

-----------------------------------------------------------------------------
(* The refiner: PostPgoRefinementLoop *)

RefinerWait ==
  /\ rpc = "check"
  /\ refRunning /\ pending = {}
  /\ rpc' = "blocking"
  /\ UNCHANGED <<ownerVars, inputVars, bpc, job, backendVars, mapVars,
                 published, slotVars, refRunning, work>>

RefinerSleep ==
  /\ rpc = "blocking"
  /\ rpc' = "waiting"
  /\ UNCHANGED <<ownerVars, inputVars, bpc, job, backendVars, mapVars,
                 published, slotVars, refRunning, work>>

RefinerSpuriousWakeup ==
  /\ rpc = "waiting"
  /\ rpc' = "check"
  /\ UNCHANGED <<ownerVars, inputVars, bpc, job, backendVars, mapVars,
                 published, slotVars, refRunning, work>>

RefinerExit ==
  /\ rpc = "check"
  /\ ~refRunning /\ pending = {}
  /\ rpc' = "exited"
  /\ UNCHANGED <<ownerVars, inputVars, bpc, job, backendVars, mapVars,
                 published, slotVars, refRunning, work>>

RefinerTake ==
  /\ rpc = "check"
  /\ pending # {}
  /\ work' = pending
  /\ pending' = {}
  /\ rpc' = "compute"
  /\ UNCHANGED <<ownerVars, inputVars, bpc, job, backendVars, mapVars,
                 published, completed, ready, refRunning>>

\* The computation reads only the job; it may fail or throw.
RefinerPublish ==
  \E task \in work, ok \in BOOLEAN :
    /\ rpc = "compute"
    /\ completed' = {[session |-> task.session, epoch |-> task.epoch,
                      keyframes |-> task.keyframes, success |-> ok]}
    /\ ready' = TRUE
    /\ work' = {}
    /\ rpc' = "notify"
    /\ UNCHANGED <<ownerVars, inputVars, bpc, job, backendVars, mapVars,
                   published, pending, refRunning>>

\* backend_condition_.notify_one(), without the queue mutex.
RefinerNotify ==
  /\ rpc = "notify"
  /\ NotifyBackend
  /\ rpc' = "check"
  /\ UNCHANGED <<ownerVars, inputVars, job, backendVars, mapVars, published,
                 slotVars, refRunning, work>>

-----------------------------------------------------------------------------
StopNext == \/ StopBackendClearQueue \/ StopBackendJoin
            \/ StopRefinerClearSlots \/ StopRefinerJoin \/ ResetState

ProcessJob == \/ InsertKeyframe \/ RejectLoop \/ AcceptLoop
              \/ SubmitRefinement \/ RefineInPlace \/ TryCommitRefinement
              \/ RefreshBackendOutputSnapshot

BackendNext == \/ BackendWait \/ BackendSleep \/ BackendExit
               \/ BackendTakeReady \/ BackendPop \/ ProcessJob

RefinerNext == \/ RefinerWait \/ RefinerSleep \/ RefinerExit
               \/ RefinerTake \/ RefinerPublish \/ RefinerNotify

Next == \/ EnqueueBackendKeyframe \/ StopBackendFlag \/ StopNext
        \/ BackendNext \/ JobThrows \/ BackendSpuriousWakeup
        \/ RefinerNext \/ RefinerSpuriousWakeup
        \/ Destroyed

Spec == Init /\ [][Next]_vars

\* A started thread keeps running, a begun Stop or Reset is carried on, and a
\* thread that asks for a mutex again and again gets it (strong fairness: the
\* other thread may hold it whenever we look).  No fairness for what the owner
\* chooses to do, for exceptions or for spurious wakeups.
Fairness == /\ WF_vars(StopNext)
            /\ WF_vars(BackendNext)
            /\ WF_vars(RefinerNext)
            /\ SF_vars(StopBackendClearQueue)
            /\ SF_vars(StopRefinerClearSlots)
            /\ SF_vars(SubmitRefinement)
            /\ SF_vars(TryCommitRefinement)

FairSpec == Spec /\ Fairness

-----------------------------------------------------------------------------
(* Properties *)

\* The variables have the types the code gives them.
TypeOK ==
  /\ opc \in {"idle", "clearQueue", "joinBackend", "clearSlots", "joinRefiner",
              "stopped"}
  /\ goal \in {"reset", "destroy"}
  /\ nextId \in Nat /\ absent \in SUBSET Nat
  /\ session \in Nat /\ mode \in RefinementModes
  /\ running \in BOOLEAN /\ refRunning \in BOOLEAN /\ ready \in BOOLEAN
  /\ queue \in Seq(Nat) /\ keyframes \in Seq(Nat)
  /\ bpc \in {"check", "blocking", "waiting", "exited", "commitReady", "insert",
              "loop", "submit", "refine", "commit", "refresh", "refreshReady"}
  /\ rpc \in {"check", "blocking", "waiting", "exited", "compute", "notify"}
  /\ job \in SUBSET Nat /\ nodes \in SUBSET Nat
  /\ epoch \in Nat /\ loopEdges \in Nat
  /\ globalRev \in Nat /\ refinedRev \in Nat
  /\ overlay \in SUBSET Layer
  /\ published \in Output
  /\ pending \in SUBSET Job /\ work \in SUBSET Job
  /\ completed \in SUBSET Result

\* One id after the other, each greater than the one before.
Increasing(ids) == \A i, j \in 1..Len(ids) : i < j => ids[i] < ids[j]

\* Every id of one collection is smaller than every id of the other.
Before(these, those) == \A i \in these, j \in those : i < j

\* The backend stores the keyframes in the order in which the owner made them,
\* so that an odometry edge never runs backwards in time; no keyframe comes
\* twice; and as long as nobody stopped it, the ids without a keyframe are those
\* that the frontend left out and those whose job threw before the keyframe was
\* stored: no other is lost between the queue, the job in hand and the history.
KeyframesInOrder ==
  /\ Increasing(keyframes) /\ Increasing(queue)
  /\ Before(Ids(keyframes), job) /\ Before(job, Ids(queue))
  /\ Before(Ids(keyframes), Ids(queue))
  /\ LET present == Ids(keyframes) \cup job \cup Ids(queue)
     IN /\ Before(present, {nextId})
        /\ present \cap absent = {}
        /\ running => present \cup absent = 0..(nextId - 1)

\* The refined layer of the map was computed from the graph it is shown with,
\* in the backend and in the snapshot it published: no result of an older
\* optimisation, or of the time before a Reset(), survives.
RefinedLayerIsCurrent ==
  \A out \in {LiveOutput, published} :
    \A layer \in out.overlay :
      layer = [session |-> out.session, epoch |-> out.epoch]

\* A job or a result belongs to the live session and to a past of its history.
Describes(r) == /\ r.session = session
                /\ r.epoch \in 1..epoch
                /\ r.keyframes # <<>>
                /\ Extends(keyframes, r.keyframes)

\* A result of a session before the last Reset().
Outlived(r) == /\ r.session < session
               /\ ready
               /\ keyframes = <<>> /\ epoch = 0 /\ job = {}

\* A refinement job or result always describes a past of the live history, with
\* one exception: a result that outlived a Reset() in the slot.  That one is
\* still there only while the new session is empty and its flag is up, so the
\* backend drops it before it touches the first keyframe, although the ids of
\* the two sessions are the same.
ResultsMatchHistory ==
  /\ \A task \in pending \cup work : Describes(task)
  /\ \A result \in completed : Describes(result) \/ Outlived(result)

\* Whoever sees a snapshot can trust its revisions: the refined revision is the
\* global one, or zero when there is no refined map for it.
RevisionsAgree ==
  \A out \in {LiveOutput, published} :
    out.refinedRev \in {0, out.globalRev}

\* When the owner goes on to clear (Reset) or free (destructor) the state, no
\* thread is alive that could touch it, and no keyframe or job is left over.
StopLeavesNothingBehind ==
  opc = "stopped" => /\ bpc = "exited" /\ rpc = "exited"
                     /\ queue = <<>> /\ job = {}
                     /\ pending = {} /\ work = {}

\* A begun stop comes to an end: neither join waits for ever.
StopTerminates == (opc = "clearQueue") ~> (opc \notin {"clearQueue",
                     "joinBackend", "clearSlots", "joinRefiner"})

\* A queued keyframe is taken, or discarded by a stop; a sleeping backend is
\* always woken for it.
QueueDrains == \A id \in 0..(MaxKeyframes - 1) :
                 (id \in Ids(queue)) ~> (id \notin Ids(queue))

\* A ready result is taken at the latest when the next keyframe arrives.
ReadyTakenWithNextKeyframe == (ready /\ queue # <<>>) ~> ~ready

\* backend_worker.cpp:631: the refiner wakes the main backend worker, so a
\* ready result is taken, or the backend is stopped.
ReadyIsTaken == (ready /\ running) ~> (~ready \/ ~running)

\* The abstract view of the map outputs, module RefinedLayer.
Abstract == INSTANCE RefinedLayer WITH
              graph <- LiveGraph,
              layer <- overlay,
              shown <- [graph |-> [session |-> published.session,
                                   epoch   |-> published.epoch],
                        layer |-> published.overlay]

\* The backend implements the abstract view: a graph is never used twice, and a
\* refined layer is only ever put over the graph it was computed from.
ImplementsRefinedLayer == Abstract!Spec
=============================================================================
