----------------------------- MODULE LidarQueue -----------------------------
(***************************************************************************)
(* The input side of the nodes app/lio.cpp and app/lo.cpp.  IMU and LiDAR  *)
(* callbacks run on the two threads of the executor, one of each kind at a *)
(* time; the LiDAR callback puts frames in a bounded queue, and the worker *)
(* thread (ProcessingLoop) takes the oldest one, waits until the IMU has   *)
(* passed the end of the scan, processes it while it is still at the       *)
(* front, and pops it.  All waits share data_condition_; only the queue    *)
(* has a mutex around it.  At the limit of the queue lio drops a frame     *)
(* that waits; lo refuses the new one and stops its worker for good.       *)
(*                                                                         *)
(* Instants are natural numbers and the tolerances of 1e-6 s are left out. *)
(* imu_buffer_ is a set of stamps: Push keeps the buffer increasing.       *)
(***************************************************************************)
EXTENDS Naturals, Sequences, FiniteSets

CONSTANTS
  Nodes,        \* the nodes that are looked at: "lio", "lo"
  Stamps,       \* instants of IMU samples and of points
  Scans,        \* the scans that may come
  MaxQueue,     \* lio: max_lidar_queue_size_, lo: lidar_queue_hard_limit_
  InitSamples,  \* initialization_sample_count_
  History,      \* imu_history_duration_
  MaxFrames     \* bound: frames put in the queue

\* A scan starts at its stamp; first is the instant of its earliest point, and 0
\* when its points have no times.
WellFormedScan(s) == s.first <= s.start /\ s.start <= s.end

\* LoadSensorRuntimeConfig clamps max_lidar_queue_size to at least 2, the node
\* lo clamps lidar_queue_hard_limit to at least 10.
ASSUME QueueAssumption ==
  /\ Nodes \subseteq {"lio", "lo"}
  /\ Stamps \subseteq Nat \ {0}
  /\ Scans \subseteq [first : Stamps \union {0}, start : Stamps, end : Stamps]
  /\ \A s \in Scans : WellFormedScan(s)
  /\ MaxQueue \in Nat /\ MaxQueue >= 2
  /\ InitSamples \in Nat \ {0} /\ History \in Nat /\ MaxFrames \in Nat

VARIABLES
  node,     \* which node it is
  imu,      \* imu_buffer_
  latest,   \* latest_imu_timestamp_; 0 before the first sample
  samples,  \* Len(initialization_imu_)
  ready,    \* imu_initialized_
  filter,   \* timestamp of the state of the IESKF, in lo of
            \* current_imu_state_; 0 before ready
  icb,      \* control point of the IMU callback
  sample,   \* the stamp of the message it handles
  lcb,      \* control point of the LiDAR callback
  queue,    \* lidar_queue_
  fate,     \* what became of the frames that were queued, in their order
  refused,  \* how many frames were in when lo refused one, {} before that
  wpc,      \* control point of the worker
  pending,  \* the worker's copy of the front, {} before the first one
  stopped,  \* lo has cleared running_ for an overload
  dpc       \* control point of the node's owner, which spins at "up"

imuVars    == <<imu, latest, samples, ready, icb, sample>>
queueVars  == <<node, lcb, queue, fate, refused, stopped>>
workerVars == <<wpc, pending>>
vars       == <<imuVars, filter, queueVars, workerVars, dpc>>

Frames ==
  {f \in [id : Nat \ {0}, first : Stamps \union {0}, start : Stamps, end : Stamps] :
     WellFormedScan(f)}

\* running_; the callbacks come as long as the owner spins.
Spinning  == dpc = "up"
Running   == Spinning /\ ~stopped
Front     == Head(queue)
Pending   == CHOOSE f \in pending : TRUE
Ids(q)    == {q[i].id : i \in 1 .. Len(q)}
\* The worker holds lidar_queue_mutex_ between a predicate that is false and
\* the moment it is asleep.
MutexFree == wpc \notin {"presleep", "imupresleep"}

\* notify_one and notify_all: the worker is the only one that ever waits.
Notify ==
  wpc' = CASE wpc = "asleep"    -> "eval"
           [] wpc = "imuasleep" -> "imueval"
           [] OTHER             -> wpc

Init ==
  /\ node \in Nodes /\ refused = {} /\ stopped = FALSE
  /\ imu = {} /\ latest = 0 /\ samples = 0 /\ ready = FALSE /\ filter = 0
  /\ icb = "idle" /\ sample = 0 /\ lcb = "idle"
  /\ queue = <<>> /\ fate = <<>> /\ wpc = "check" /\ pending = {} /\ dpc = "up"

-----------------------------------------------------------------------------
(* ImuCallback *)

\* A sample that is not newer than the last one is refused and changes nothing.
PushImu(t) ==
  /\ Spinning /\ icb = "idle"
  /\ \A u \in imu : u < t
  /\ imu' = imu \union {t} /\ sample' = t /\ icb' = "store"
  /\ UNCHANGED <<latest, samples, ready, filter, queueVars, workerVars, dpc>>

StoreLatestImu ==
  /\ icb = "store"
  /\ latest' = sample /\ icb' = "notify"
  /\ UNCHANGED <<imu, samples, ready, sample, filter, queueVars, workerVars, dpc>>

NotifyImu ==
  /\ icb = "notify"
  /\ Notify
  /\ icb' = IF ready THEN "idle" ELSE "collect"
  /\ UNCHANGED <<imu, latest, samples, ready, sample, filter, queueVars, pending, dpc>>

\* Mutant: the samples of an initialization that failed are kept.
CollectForever ==
  /\ icb = "collect"
  /\ samples' = samples + 1
  /\ UNCHANGED <<ready, filter, wpc>>
  /\ icb' = "idle"
  /\ UNCHANGED <<imu, latest, sample, queueVars, pending, dpc>>

\* With enough samples the filter starts at the last of them, or they are all
\* thrown away; the flag that lets LiDAR frames in is raised last.  After a
\* success app/lio.cpp forgets the samples, app/lo.cpp keeps them for ever.
CollectInitialization ==
  /\ icb = "collect"
  /\ \/ /\ samples + 1 < InitSamples
        /\ samples' = samples + 1 /\ UNCHANGED <<ready, filter, wpc>>
     \/ /\ samples + 1 >= InitSamples
        /\ samples' = 0 /\ UNCHANGED <<ready, filter, wpc>>
     \/ /\ samples + 1 >= InitSamples
        /\ samples' = IF node = "lio" THEN 0 ELSE samples + 1
        /\ ready' = TRUE /\ filter' = sample /\ Notify
  /\ icb' = "idle"
  /\ UNCHANGED <<imu, latest, sample, queueVars, pending, dpc>>

-----------------------------------------------------------------------------
(* LidarCallback, LivoxCustomCallback *)

\* Mutant: the oldest frames go.
TrimOldest(q) ==
  IF Len(q) < MaxQueue THEN q ELSE SubSeq(q, Len(q) - MaxQueue + 2, Len(q))

\* Mutant: room is made only when the limit is exceeded.
TrimLate(q) ==
  IF Len(q) <= MaxQueue THEN q
  ELSE <<Head(q)>> \o SubSeq(q, Len(q) - MaxQueue + 3, Len(q))

\* Make room for one more: from the second oldest on, never the front.
Trim(q) ==
  IF Len(q) < MaxQueue THEN q
  ELSE <<Head(q)>> \o SubSeq(q, Len(q) - MaxQueue + 3, Len(q))

\* A frame comes, the system being initialized and the mutex to be had.
FrameArrives ==
  /\ Spinning /\ ready /\ lcb = "idle" /\ MutexFree
  /\ Len(fate) < MaxFrames

\* The frame that is made of the scan, numbered in the order of arrival.
FrameOf(s) ==
  [id |-> Len(fate) + 1, first |-> s.first, start |-> s.start, end |-> s.end]

QueueLidarFrame(s) ==
  /\ node = "lio" /\ FrameArrives
  /\ queue' = Append(Trim(queue), FrameOf(s))
  /\ fate' = [i \in 1 .. Len(fate) + 1 |->
                IF i = Len(fate) + 1 THEN "queued"
                ELSE IF i \in Ids(queue) \ Ids(Trim(queue)) THEN "overflow"
                ELSE fate[i]]
  /\ lcb' = "notify"
  /\ UNCHANGED <<node, refused, stopped, imuVars, filter, workerVars, dpc>>

\* app/lo.cpp: strict first in, first out below the limit.
PushLidarFrame(s) ==
  /\ node = "lo" /\ FrameArrives
  /\ Len(queue) < MaxQueue
  /\ queue' = Append(queue, FrameOf(s)) /\ fate' = Append(fate, "queued")
  /\ lcb' = "notify"
  /\ UNCHANGED <<node, refused, stopped, imuVars, filter, workerVars, dpc>>

\* At the limit the new frame is refused; the mutex is released before anything
\* is done about it.
RefuseLidarFrame ==
  /\ node = "lo" /\ FrameArrives
  /\ Len(queue) >= MaxQueue
  /\ refused' = IF refused = {} THEN {Len(fate)} ELSE refused
  /\ lcb' = "overload"
  /\ UNCHANGED <<node, queue, fate, stopped, imuVars, filter, workerVars, dpc>>

\* Mutant: the overload is only reported.
ReportOverload ==
  /\ lcb = "overload"
  /\ lcb' = "notify"
  /\ UNCHANGED <<node, queue, fate, refused, stopped, imuVars, filter, workerVars, dpc>>

\* The node spins on without a worker; notify_all follows.
StopOnOverload ==
  /\ lcb = "overload"
  /\ stopped' = TRUE /\ lcb' = "notify"
  /\ UNCHANGED <<node, queue, fate, refused, imuVars, filter, workerVars, dpc>>

\* Mutant: the worker is not told.
NotifyNobody ==
  /\ lcb = "notify"
  /\ lcb' = "idle"
  /\ UNCHANGED <<node, refused, stopped, imuVars, filter, queue, fate, workerVars, dpc>>

NotifyLidar ==
  /\ lcb = "notify"
  /\ Notify
  /\ lcb' = "idle"
  /\ UNCHANGED <<node, refused, stopped, imuVars, filter, queue, fate, pending, dpc>>

-----------------------------------------------------------------------------
(* ProcessingLoop *)

CheckRunning ==
  /\ wpc = "check"
  /\ wpc' = IF Running THEN "eval" ELSE "exited"
  /\ UNCHANGED <<imuVars, filter, queueVars, pending, dpc>>

\* The predicate of the wait for a frame, and the copy of the front.
WaitForLidar ==
  /\ wpc = "eval"
  /\ \/ ~Running /\ wpc' = "exited" /\ UNCHANGED pending
     \/ Running /\ queue # <<>> /\ wpc' = "build" /\ pending' = {Front}
     \/ Running /\ queue = <<>> /\ wpc' = "presleep" /\ UNCHANGED pending
  /\ UNCHANGED <<imuVars, filter, queueVars, dpc>>

FallAsleep ==
  /\ \/ wpc = "presleep" /\ wpc' = "asleep"
     \/ wpc = "imupresleep" /\ wpc' = "imuasleep"
  /\ UNCHANGED <<imuVars, filter, queueVars, pending, dpc>>

SpuriousWakeup ==
  /\ wpc \in {"asleep", "imuasleep"}
  /\ Notify
  /\ UNCHANGED <<imuVars, filter, queueVars, pending, dpc>>

\* IMUbuffer::GetTimeRange: samples on both sides of the interval.
Covers(from, to) ==
  /\ from < to
  /\ \E t \in imu : t <= from
  /\ \E t \in imu : t >= to

\* BuildLioImuData up to the lookup of the interval: a scan with points before
\* its start is refused.
BuildLioImuData ==
  /\ node = "lio" /\ wpc = "build"
  /\ wpc' = IF Pending.first < Pending.start THEN "dropinvalid"
            ELSE IF filter > Pending.start THEN "dropstale"
            ELSE IF Covers(filter, Pending.end) THEN "process"
            ELSE "gapcheck"
  /\ UNCHANGED <<imuVars, filter, queueVars, pending, dpc>>

\* app/lo.cpp takes such a scan if its state is not past the first point.
BuildImuPoses ==
  /\ node = "lo" /\ wpc = "build"
  /\ wpc' = IF Pending.first = 0 THEN "dropinvalid"
            ELSE IF filter > Pending.first THEN "dropstale"
            ELSE IF Covers(filter, Pending.end) THEN "process"
            ELSE "gapcheck"
  /\ UNCHANGED <<imuVars, filter, queueVars, pending, dpc>>

\* The rest of it, after a lookup that failed: the IMU may have come meanwhile.
CheckCoverageGap ==
  /\ wpc = "gapcheck"
  /\ wpc' = IF latest >= Pending.end THEN "dropgap" ELSE "imueval"
  /\ UNCHANGED <<imuVars, filter, queueVars, pending, dpc>>

\* The predicate of the wait for the IMU; the loop starts over after it.
WaitForImu ==
  /\ wpc = "imueval"
  /\ wpc' = IF ~Running \/ latest >= Pending.end THEN "check" ELSE "imupresleep"
  /\ UNCHANGED <<imuVars, filter, queueVars, pending, dpc>>

\* Mutant: a wait without a timeout.
ImuWaitForever == wpc = "imuasleep" /\ UNCHANGED vars

\* The 20 ms of the wait for the IMU.
ImuWaitTimeout ==
  /\ wpc = "imuasleep"
  /\ wpc' = "check"
  /\ UNCHANGED <<imuVars, filter, queueVars, pending, dpc>>

PopFront == queue' = IF queue = <<>> THEN queue ELSE Tail(queue)

\* Mutant: a stale frame stays at the front.
DropInvalidOnly ==
  /\ wpc \in {"dropstale", "dropinvalid", "dropgap"}
  /\ fate' = [fate EXCEPT ![Pending.id] =
                IF wpc = "dropstale" THEN "stale" ELSE "invalid"]
  /\ IF wpc = "dropstale" THEN UNCHANGED queue ELSE PopFront
  /\ wpc' = "check"
  /\ UNCHANGED <<node, refused, stopped, imuVars, filter, lcb, pending, dpc>>

DropFrame ==
  /\ wpc \in {"dropstale", "dropinvalid", "dropgap"}
  /\ fate' = [fate EXCEPT ![Pending.id] =
                IF wpc = "dropstale" THEN "stale" ELSE "invalid"]
  /\ PopFront
  /\ wpc' = "check"
  /\ UNCHANGED <<node, refused, stopped, imuVars, filter, lcb, pending, dpc>>

\* Mutant: nothing at or before the given time is kept.
RemoveAllOldData(time) == {t \in imu : t > time}

\* IMUbuffer::RemoveOldData: the last sample at or before the given time stays.
RemoveOldData(time) == {t \in imu : \A u \in imu : u > t => u > time}

\* The filter is moved to the start of the scan, and the IMU before the history
\* is forgotten.
AdvanceAndForget ==
  /\ filter' = Pending.start
  /\ imu' = RemoveOldData(IF filter' >= History THEN filter' - History ELSE 0)

FrameIsProcessed ==
  /\ fate' = [fate EXCEPT ![Pending.id] = "processed"]
  /\ wpc' = "pop"
  /\ UNCHANGED <<node, refused, stopped, latest, samples, ready, icb, sample, lcb,
                 queue, pending, dpc>>

\* The frame is rejected, the filter being propagated to its start or not, or
\* it is accepted.
ProcessLidarFrame ==
  /\ node = "lio" /\ wpc = "process"
  /\ \/ filter' \in {filter, Pending.start} /\ UNCHANGED imu
     \/ AdvanceAndForget
  /\ FrameIsProcessed

\* app/lo.cpp: a scan of which the preprocessor leaves nothing changes nothing;
\* with any other the state moves, before its registration fails or not.
RegisterLidarFrame ==
  /\ node = "lo" /\ wpc = "process"
  /\ UNCHANGED <<filter, imu>> \/ AdvanceAndForget
  /\ FrameIsProcessed

PopProcessedFrame ==
  /\ wpc = "pop"
  /\ PopFront
  /\ wpc' = "check"
  /\ UNCHANGED <<node, refused, stopped, imuVars, filter, lcb, fate, pending, dpc>>

-----------------------------------------------------------------------------
(* The end: main returns from spin, and the destructor of the node runs *)

StopRunning ==
  /\ dpc = "up" /\ icb = "idle" /\ lcb = "idle"
  /\ dpc' = "notify"
  /\ UNCHANGED <<imuVars, filter, queueVars, workerVars>>

NotifyStop ==
  /\ dpc = "notify"
  /\ Notify
  /\ dpc' = "join"
  /\ UNCHANGED <<imuVars, filter, queueVars, pending>>

JoinWorker ==
  /\ dpc = "join" /\ wpc = "exited"
  /\ dpc' = "joined"
  /\ UNCHANGED <<imuVars, filter, queueVars, workerVars>>

\* The process has ended.
Ended == dpc = "joined" /\ UNCHANGED vars

-----------------------------------------------------------------------------

ImuCallback == StoreLatestImu \/ NotifyImu \/ CollectInitialization
LidarCallback == StopOnOverload \/ NotifyLidar
Worker ==
  \/ CheckRunning \/ WaitForLidar \/ FallAsleep \/ BuildLioImuData
  \/ BuildImuPoses \/ CheckCoverageGap \/ WaitForImu \/ DropFrame
  \/ ProcessLidarFrame \/ RegisterLidarFrame \/ PopProcessedFrame
Owner == NotifyStop \/ JoinWorker

Next ==
  \/ \E t \in Stamps : PushImu(t)
  \/ \E s \in Scans : QueueLidarFrame(s) \/ PushLidarFrame(s)
  \/ RefuseLidarFrame
  \/ ImuCallback \/ LidarCallback \/ Worker \/ Owner
  \/ SpuriousWakeup \/ ImuWaitTimeout \/ StopRunning \/ Ended

Spec == Init /\ [][Next]_vars

\* Threads that can run do run, and a timed wait times out.  Messages, spurious
\* wake-ups and the end of the program are not promised.
FairSpec ==
  /\ Spec
  /\ WF_vars(ImuCallback) /\ WF_vars(LidarCallback)
  /\ WF_vars(Worker) /\ WF_vars(Owner) /\ WF_vars(ImuWaitTimeout)

-----------------------------------------------------------------------------
(* Properties *)

\* Every variable has its type; initialization_imu_ holds less than
\* initialization_sample_count_ samples until it has brought an initialization.
LidarTypeOK ==
  /\ node \in Nodes /\ stopped \in BOOLEAN
  /\ refused \subseteq Nat /\ \A m, n \in refused : m = n
  /\ imu \in SUBSET Stamps /\ latest \in Stamps \union {0}
  /\ samples \in 0 .. InitSamples /\ ready \in BOOLEAN /\ filter \in Stamps \union {0}
  /\ ready \/ samples < InitSamples
  /\ icb = "collect" => ~ready
  /\ icb \in {"idle", "store", "notify", "collect"} /\ sample \in Stamps \union {0}
  /\ lcb \in {"idle", "notify", "overload"}
  /\ queue \in Seq(Frames)
  /\ fate \in Seq({"queued", "processed", "stale", "invalid", "overflow"})
  /\ wpc \in {"check", "eval", "presleep", "asleep", "build", "gapcheck",
             "imueval", "imupresleep", "imuasleep", "dropstale", "dropinvalid",
             "dropgap", "process", "pop", "exited"}
  /\ pending \subseteq Frames /\ \A f, g \in pending : f = g
  /\ dpc \in {"up", "notify", "join", "joined"}

\* The control points at which the worker owns the frame it copied.
Owning == {"build", "gapcheck", "imueval", "imupresleep", "imuasleep",
           "dropstale", "dropinvalid", "dropgap", "process", "pop"}

\* The frame the worker works on is the front of the queue until the worker
\* itself pops it, whatever arrives meanwhile: the pop takes away that frame
\* (lio.cpp: "This preserves the frame currently owned by the worker").
OwnedFrameIsFront ==
  wpc \in Owning => queue # <<>> /\ pending = {Front}

\* The queue never exceeds max_lidar_queue_size, and behind the front wait
\* exactly the newest frames, in the order of their arrival ("keeping the
\* newest measurements available for catch-up").
WaitingAreNewest ==
  /\ Len(queue) <= MaxQueue
  /\ \A i \in 2 .. Len(queue) : queue[i].id = Len(fate) - (Len(queue) - i)

\* No frame is lost without being counted: the frames that are neither
\* processed nor counted as dropped are the frames in the queue (the counters
\* FR_SYNC V2 FINAL prints).
FramesAreAccounted ==
  {i \in 1 .. Len(fate) : fate[i] = "queued"}
    = Ids(queue) \ (IF wpc = "pop" THEN {Pending.id} ELSE {})

\* A frame is processed or dropped once, whatever the callbacks and the worker
\* do at the same time.
FateIsFinal ==
  [][\A i \in 1 .. Len(fate) : fate[i] # "queued" => fate'[i] = fate[i]]_vars

\* The worker deals with the frames in the order of their arrival: when it is
\* done with one, no older one is left, nor was an older one refused (lo.cpp:
\* "Runtime backlog must never change the measurement sequence seen by SLAM").
HandledInOrder ==
  [][\A i \in 1 .. Len(fate) :
       fate[i] = "queued" /\ fate'[i] \in {"processed", "stale", "invalid"} =>
         /\ \A j \in 1 .. i - 1 : fate[j] # "queued"
         /\ \A n \in refused : i <= n]_vars

\* Forgetting old IMU samples never takes away the one at or before the
\* filter, without which no later frame could be propagated to.
HistoryReachesFilter == ready => \E t \in imu : t <= filter

\* A front whose scan the IMU has passed is dealt with, unless the node ends:
\* no wake-up is lost for good.  It takes the timeout of the wait, since the IMU callback
\* notifies without the mutex.
FrontIsHandled ==
  \A i \in 1 .. MaxFrames :
    (Running /\ queue # <<>> /\ Front.id = i /\ latest >= Front.end)
      ~> (~Running \/ i \notin Ids(queue))

\* When running_ is cleared while the worker waits for the IMU, the worker ends,
\* and so does a node that was asked to ("The short timeout is only for
\* diagnostics / shutdown").
TimedWaitEnds ==
  (~Running /\ wpc \in {"imueval", "imupresleep", "imuasleep"})
    ~> (wpc = "exited" /\ dpc \in {"up", "joined"})

-----------------------------------------------------------------------------
(* What comments say and the code does not do *)

\* The counters are "Written only by ProcessingLoop(), read after joining the
\* worker": the destructor that asks the worker to end joins it.
DestructorJoins == (dpc = "notify") ~> (dpc = "joined")
=============================================================================
