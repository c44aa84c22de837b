# Formal models of FR-SLAM

FR-SLAM is a LiDAR SLAM system in C++/ROS 2. A LiDAR worker thread turns scans
into poses, keyframes and submaps; a backend thread puts the keyframes into a pose
graph and into global maps and closes loops; a third thread refines the map after a
pose graph optimisation; service calls save the results. These modules model
that machinery in TLA+, check it with TLC on small instances, and prove its main
invariants with TLAPS for every value of the constants.

Paths below are relative to the repository root; the C++ sources are under `src/`,
`include/` and `app/`.

## 1. Inventory

| Component | Code | State | Operations |
| --- | --- | --- | --- |
| Backend worker | `src/backend/backend_worker.cpp` | `backend_queue_`, `backend_running_`, `backend_keyframes_`, epoch, revisions, the published snapshot | enqueue, loop, process job, refresh snapshot, stop |
| Refinement worker | same file, 98-681 | one-place slots for a job and a result, ready flag, running flag | submit, take, compute, publish, commit, stop |
| Global map backend | `src/backend/global_map_backend.cpp` | `global_map_revision_`, `refined_map_revision_`, map-odom bridge | update maps, update bridge |
| Pose graph | `src/backend/pose_graph*.cpp` | nodes, edges | insert keyframe, add/remove edge, set pose |
| Optimiser | `src/backend/pose_graph_optimizer.cpp` | none of its own | optimise in place, or leave the graph alone |
| Refinement | `src/backend/post_pgo_refinement.cpp` | refined overrides of the map | compute on a copy; rebuild in place |
| Loop closure | `src/loop/loop_closure.cpp` | last accepted loop | retrieve, verify, confirm, try, accept, roll back |
| Loop consistency | `src/loop/loop_consistency.cpp` | history of verified proposals | check, reset |
| Incremental map | `include/fr_slam/mapping/incremental_global_map.hpp` | blocks, cached poses, overrides | update raw, optimised, refined; clear |
| Submap manager | `src/mapping/submap_manager.cpp` | submaps, the primary and the growing one | add keyframe, begin, promote |
| Keyframes | `src/mapping/keyframe_*.cpp` | keyframe list, last keyframe's pose | decide, store |
| LO frontend | `src/frontend/lo/*.cpp` | pose, motion prior, rejection count, tracking target | add frame, commit external frame, reset |
| LIO frontend | `src/frontend/lio/*.cpp` | filter state, ground pieces | predict, update, ground lifecycle |
| Nodes | `app/lio.cpp`, `app/lo.cpp` | bounded LiDAR queue, IMU buffer, path messages, published revision | callbacks, worker loop, publish, save |
| Sensors, IMU, preprocessing | `src/sensor`, `src/imu`, `src/lidar` | IMU buffer | convert, deskew, integrate |
| Verification, descriptors | `loop_verifier*`, `scan_context*`, `btc_adapter` | GPU contexts, descriptor stores | numeric |
| Tools, third party | `tools`, `third_party` | | offline, vendored |

How they interact. The LiDAR worker owns the frontend object
(`RegistrationScan2LocalMap`). `AddFrame` creates keyframes and hands them to the
backend through `backend_queue_` under `backend_queue_mutex_`. The backend thread
does everything to the pose graph and the map; before it sleeps it copies what
readers may see into the `backend_*_snapshot_` fields under
`backend_output_mutex_`. The refiner gets a copy of the backend's state in a
one-place slot and answers through another one, both under
`refinement_worker_mutex_`; it wakes the backend through the backend's own
condition variable. Readers are the LiDAR worker, which publishes after every
scan, and the save service, on a second executor thread.

What is hard about it, and which properties matter:

* Backend and refiner: a result is computed on a copy and comes back late. It must
  never lie over a newer graph (`RefinedLayerIsCurrent`), also across a `Reset()`,
  after which keyframe ids repeat (`ResultsMatchHistory`). Keyframes may not be
  overtaken, nor lost unless their own job throws (`KeyframesInOrder`). Two condition
  variables and two joins must not leave anyone asleep or alive
  (`StopTerminates`, `StopLeavesNothingBehind`, `QueueDrains`).
* Pose graph: a loop is tried in place and undone if it does not fit
  (`LoopEdgesAreAccepted`); new keyframes are chained to corrected poses while the
  live trajectory follows a bridge (`BridgeMatchesGraph`); the height reference is
  rebuilt from the graph at each call (`ReferenceIsImmutable`).
* Outputs: readers combine several reads (`ReadersSeeOneGraph`), and `app/lio.cpp` writes the map from the service thread
  (`SingleWriterKeepsLayerCurrent`).
* Nodes: a bounded queue whose front is in work (`OwnedFrameIsFront`,
  `WaitingAreNewest`, `HandledInOrder`, `FramesAreAccounted`), a wait for IMU data
  (`FrontIsHandled`), a buffer that forgets (`HistoryReachesFilter`), a shutdown that
  notifies without the mutex (`DestructorJoins`, `TimedWaitEnds`).
* Frontend: a scan may fail after each step of the work on its keyframe, and what was
  done stays (`CommittedTogether`, `OwnersAreOldest`, `FinishedSubmapsDelivered`); a
  motion prior must not span scans that were thrown away (`MotionSpansNoRejection`).
* Mapping: two overlapping submaps take turns (`ConsecutiveSubmapsOverlap`,
  `PromotionIsPrepared`); blocks of the map are rebuilt only for changes above a
  threshold (`MapFollowsGraph`) and hide behind refined ones (`RefinedShowsOverrides`).
* Ground of the LIO filter: a reference plane is replaced only by one that many scans
  agree on (`PiecesDiffer`, `PendingIsFresh`, `SteadySlopeIsAdopted`).
* Loop confirmation: a history that keeps proposals a later gate rejected
  (`AcceptedRestsOnThree`, `SteadyLoopIsAccepted`).

`PROJECT.json` lists every component and every hazard with its line.

## 2. Modules

| Module | Models | About |
| --- | --- | --- |
| `BackendWorker` | owner, backend thread, refiner | the concurrent core |
| `RefinedLayer` | (abstract) | what the core promises about the refined map |
| `BackendWorker_proofs` | | type, order, staleness, stop, sleep, refinement mapping; what `RefinedLayer` itself promises |
| `MapOutput` | LiDAR worker's publication, save service; EXTENDS `BackendWorker` | composition with the readers |
| `MapOutput_proofs` | | what readers see, and that a save at rest leaves the core as it was |
| `PoseGroup` | `Eigen::Isometry3d` | an abstract, not commutative group |
| `LoopCommit` | pose graph, loop trial, bridge | the sequential inside of one backend job |
| `AtomicLoops` | (abstract) | a loop is closed in one step, or not at all |
| `LoopCommit_proofs` | | all its invariants and the refinement, for every group |
| `LidarQueue` | sensor callbacks, `lidar_queue_`, `imu_buffer_`, `ProcessingLoop`, destructor of `app/lio.cpp` and `app/lo.cpp` | the input side |
| `LidarQueue_proofs` | | its invariants and action properties |
| `SubmapManager` | the overlapping submaps | operations used by `Frontend` |
| `Frontend` | `AddFrame` and `CommitExternalPoseFrame` with detector, manager, target and queue; EXTENDS `SubmapManager` | the mapping side of one scan |
| `Frontend_proofs` | | all invariants of both, for every configuration |
| `IncrementalGlobalMap` | the block cache behind the global maps | pose caches, dirty blocks, overrides |
| `IncrementalGlobalMap_proofs` | | how far the map is from the graph |
| `GroundPieces` | the ground lifecycle of `LioFrontend::ProcessFrame` | bootstrap, match, candidate, switch |
| `GroundPieces_proofs` | | type, freshness, difference of the pieces, adoption of a steady slope |
| `LoopConsistency` | `LoopConsistencyChecker` | which proposals confirm which |
| `LoopConsistency_proofs` | | both its properties, for all limits that leave room for the supporters |
| `MC*` | | constants for TLC |

How they fit together. `Frontend` ends where `jobs` is appended to: that is
`EnqueueBackendKeyframe` of `BackendWorker`. `LoopConsistency` stands between the
verification of a loop and `AddLoopEdge` of `LoopCommit`, whose free choice of a
verified loop it narrows. `IncrementalGlobalMap` is what `BackendWorker` keeps of the
maps as `overlay` and revisions, with poses and blocks in it. `GroundPieces` sits in
the filter that gives `CommitExternalPoseFrame` its pose, and learns of promotions
of `SubmapManager`. They are separate modules because each of these cuts is narrow:
the product of their states would show nothing that the parts do not.

`BackendWorker` sees a job from outside: which keyframes are stored, whether a loop
was accepted, which epoch and which revisions result. `LoopCommit` is the inside of
its steps `InsertKeyframe`, `RejectLoop` and `AcceptLoop`; what the first calls
epoch and `loopEdges`, the second shows with poses and edges.

### BackendWorker

One action is one critical section, or a stretch of code that touches only the
state of its own thread. `bpc` and `rpc` are the control points of `BackendLoop` and
`PostPgoRefinementLoop`. A wait on a condition variable takes three steps: the
predicate is found false (`blocking`, the mutex still held), the thread sleeps
(`waiting`, the mutex released), a notification or a spurious wakeup brings it back
to `check`. A notification of a thread that is not asleep has no effect; that is
what the lost wakeup needs. A notification that follows an update made under the
same mutex is one step with it.

| Action | Code |
| --- | --- |
| `EnqueueBackendKeyframe` | `EnqueueBackendKeyframe`, 683-746 |
| `StopBackendFlag` ... `StopRefinerJoin` | `StopBackendWorker`, `StopPostPgoRefinementWorker`, 69-164 |
| `ResetState` | the rest of `Reset`, `lo_frontend.cpp` 5816-5902 |
| `BackendWait`, `BackendSleep`, `BackendExit`, `BackendTakeReady`, `BackendPop` | `BackendLoop`, 927-977 |
| `InsertKeyframe`, `RejectLoop`, `AcceptLoop` | `ProcessBackendJob`, `DetectAndVerifyLoopFromKeyframe` |
| `SubmitRefinement`, `RefineInPlace` | the end of an accepted loop |
| `TryCommitRefinement`, `RefreshBackendOutputSnapshot` | 242-503, 774-817 |
| `JobThrows` | the catch of `BackendLoop`, 979-998, for a throw anywhere in `ProcessBackendJob` |
| `Refiner*` | `PostPgoRefinementLoop`, 505-681 |

Data. A graph is identified by its session (the number of resets, which no code
reads) and its optimisation epoch; a refined layer by the graph its poses were
computed from. So a stale layer is visible in the state although poses are not.
`overlay` is empty or one layer, because `UpdateRefinedOverrides` clears the old
overrides first. Every computation may fail where the code may return early.

Ids need not be consecutive: `HandOver` takes any id from the next one on, because a
keyframe that fails after the frontend has numbered it never reaches the backend. A job
may throw before its keyframe is stored, and then the keyframe is lost. `absent` is an
auxiliary variable for both, the ids for which there is no keyframe (any more).
`refreshReady` is the refresh after a ready result, which is outside the `try`.
`UpdateIncrementalGlobalMaps` sets the refined revision without the second test for an
empty map (`global_map_backend.cpp` 177-185): the refined map is put together from the
clouds of the optimised one, which has just been found not empty.

### MapOutput

The owner is the LiDAR worker, so publication happens while `opc = "idle"`.
`PublishGlobalMapSnapshots` skips a revision it has published, and sends the refined
cloud only if its revision agrees. `SaveBegin` to `SaveWrite` are the save service;
with `use.forces` (`app/lio.cpp`) the refinement is four steps on the service thread,
one for each of its accesses to state of the backend, since no lock is held between them:
the refined revision is withdrawn (`ForceWithdraw`), the poses are copied (`ForceFreeze`),
minutes later the overrides are replaced (`ForceReplace`), and the revision follows
(`ForceRevise`). The backend may work between any two. Nor does a lock make any one of
them atomic, the copy of a history that is growing least of all: what comes of that is
undefined, no model can say it, and nothing is claimed of saves at such a time but that
`output_save_race` already goes wrong when each access is atomic. `use.quiet` restricts a save to a time when the backend is at rest and no keyframe comes, as
after the end of a bag.

### LoopCommit

Poses are elements of a group given by constants. The optimiser (g2o is external)
returns any poses that leave the first node alone, or fails and writes nothing. A
verified loop is any measurement that passes the spacing and the gross-alias gate.
What retrieval, ICP and consistency checking do before it is numeric and is a free
choice here. Exceptions are `BackendWorker`'s subject.

`AtomicLoops` is the same graph as the next job sees it. It has keyframes that are put
where their odometry edge says, and one action for a loop: its edge is added, which
agrees with the poses within the gate, and every pose moves within the update guard,
the first one not at all. `KeptPose` and `KeptEdges` are the refinement mapping: during
a trial the copied poses count, and the edges without the last. That
`ImplementsAtomicLoops` holds means that the trial in place (add the edge, optimise,
test, take both back) cannot be told from one decided beforehand. The types of the
pose graph (`TypeOK`) are proved and not among the properties of a run.

### LidarQueue

The two callbacks run on the two threads of the executor, each kind one at a time
(mutually exclusive groups); `icb`, `lcb`, `wpc` and `dpc` are the control points of
the IMU callback, the LiDAR callback, the worker and the owner of the node. The
IMU callback touches the buffer, the newest stamp and the condition variable in
three steps and never takes `lidar_queue_mutex_`; the LiDAR callback pushes under
it and notifies after it. The waits are modelled as in `BackendWorker`; the one
for the IMU has a timeout.

`node` says which of the two nodes it is. They share the waits and differ in three
steps: `app/lio.cpp` makes room at the limit by dropping the frame behind the front,
`app/lo.cpp` refuses the new frame, leaves the mutex, clears `running_` and notifies,
and spins on without a worker; the frames have to meet different conditions; and a
frame that is rejected moves the state or does not.

| Action | `app/lio.cpp` | `app/lo.cpp` |
| --- | --- | --- |
| `PushImu`, `StoreLatestImu`, `NotifyImu`, `CollectInitialization` | `ImuCallback`, 773-943, `IMUbuffer::Push` | `ImuCallback`, 652-747 |
| `QueueLidarFrame`, `NotifyLidar` | `LidarCallback`, 950-1176; `LivoxCustomCallback` does the same | |
| `PushLidarFrame`, `RefuseLidarFrame`, `StopOnOverload`, `NotifyLidar` | | `LidarCallback`, 754-855 |
| `CheckRunning`, `WaitForLidar`, `FallAsleep` | `ProcessingLoop`, 5417-5452 | 3807-3836 |
| `BuildLioImuData` / `BuildImuPoses`, `CheckCoverageGap` | `BuildLioImuData`, 1546-1676 | `BuildImuPoses`, 988-1178 |
| `WaitForImu`, `ImuWaitTimeout` | `ProcessingLoop`, 5468-5594 | 3851-3978 |
| `ProcessLidarFrame` / `RegisterLidarFrame` | `ProcessLidarFrame`, 4902-5298 | `ProcessLidarFrame`, 3515-3677 |
| `DropFrame`, `PopProcessedFrame` | the rest of the loop | the rest of the loop |
| `StopRunning`, `NotifyStop`, `JoinWorker` | `main`, the destructor, 8135-8145 | `main`, the destructor, 5863-5873 |

Instants are natural numbers; the buffer is a set of them, because `Push` refuses
what is not newer. A scan has a start, an end and the instant of its first point, 0
when its points have no times. After a lookup that succeeds, extracting, integrating
and interpolating the interval succeed too, up to the tolerance of a microsecond that
is left out. In `app/lio.cpp` the filter may have been propagated to the start of a
scan that is rejected, and only an accepted one makes the buffer forget; in
`app/lo.cpp` both happen before the registration, for every scan of which the
preprocessor leaves something. `fate` records the counters of `FR_SYNC V2 FINAL` frame
by frame; a refused frame is not counted by the code and has no fate, `refused` is the
number of frames let in before the first of them. `samples` counts `initialization_imu_`, which `app/lio.cpp` clears when they have brought an
initialization (943) and `app/lo.cpp` never does. Empty clouds, which the callbacks
drop, change nothing and are left out. The limit is at least 2, as
`LoadSensorRuntimeConfig` sees to.

### SubmapManager and Frontend

| Action | Code |
| --- | --- |
| `AddKeyframe` | `SubmapManager::AddKeyframe` and what it calls |
| `Keyframe` | the part of `AddFrame` from `KeyframeManager::AddKeyframe` to `SetLastKeyframePose`, `lo_frontend.cpp` 4766-4919 |
| `AddFirstFrame`, `RejectFrame`, `FailKeyframe`, `AcceptFrame` | the paths through `AddFrame` |
| `CommitFirstFrame`, `FailCommit`, `CommitFrame` | the paths through `CommitExternalPoseFrame` |
| `LoseScan` | scans for which neither is called |

A call is one action, since only the LiDAR worker touches this state; how far the
work on a keyframe got before something failed is the parameter `done`: the manager
has stored it (`stored`), the submaps have taken it (`added`), or everything was done
(`all`). `rejected` is `consecutive_rejected_frames_`. A registration, a coarse
alignment and a second registration pass their gates or do not; whether a scan is a
keyframe is free, which is more than the thresholds on distance allow. A pose is the
number of the scan it was found for, so a motion knows which scans it lies between.
A submap is the set of its keyframes, and of the clouds only the rule is kept that
every second keyframe contributes, because it decides what a target contains.
`Owner` is the submap the backend is told. Once the frontend is initialized that is the
one that was active before the insertion; the paths of the first frame (3902-3905, 5333-5335)
ask after it. That makes a difference when earlier keyframes failed with no target
prepared, so that the first keyframe which gets through fills a submap: the backend is told
the next one. `OwnersAreOldest` has this exception and no other.

### IncrementalGlobalMap

`NewKeyframe` and `Optimise` are the two callers of `UpdateMaps`, `CommitRefinement` is
`UpdateRefinedOverrides`, `Reset` is `Clear`. Poses are positions on a line; a cloud is
the function from keyframes to the positions they were drawn at, which loses the
points and the voxel filter and keeps what may go wrong: which keyframes are in it and
where. Rotation has a threshold of its own in the code; it works like the one for
translation and is left out.

### GroundPieces

One scan is one action: `FirstScan`, `NoGround`, `Learn` (bootstrap), `Match`, `Collect`,
`Switch`. A normal is how far it leans in x and in y, two integers in units that the
constants share. For the few degrees the thresholds are about, the distance of two such
vectors is the angle between the normals; distances and slopes are compared by their squares
(`Gap`, `Exceeds`), and the reference is kept multiplied by the number of samples so that
means are exact. Two booleans stand for what offsets of planes decide: `near` (the plane is close
to the candidate's) and `flat` (the samples of a mature candidate pass the test of
their residuals). A change of submap reaches the lifecycle with the next scan, as in
the code. The walls, which are off by default, and what the measurement does with a
matched plane are left out.

### LoopConsistency

`Wait` and `Accept` are `Check` and what its caller does with the result; `NoProposal` is
a keyframe for which the verification accepts nothing. A proposal has two keyframes and
an offset from the graph, an integer where the code has a transform; two proposals close a
cycle if their offsets differ by no more than `MaxError`. That the history has room for the
supporters (`MaxHistory >= MinProposals - 1`) is an assumption: the defaults (20 and 3) satisfy
it, and the constructor does not enforce it. With a shorter history no loop is accepted.
An optimisation after an acceptance may change offsets. The loop over the history that
collects the supporters of a proposal is the recursive function `Chain` over the number
of proposals looked at, from the newest on. `links` and `steady` are history
variables that nothing reads.

## 3. Runs

| Run | Mode and bounds | Shows |
| --- | --- | --- |
| `backend` | refinement off, sync and async, 3 keyframes per session, 1 reset, stride 0 (read as 1), fairness | its six invariants, `ImplementsRefinedLayer`, and that stop, queue and ready result make progress |
| `backend_lost_wakeup` | async, 2 keyframes, fairness | violation of `ReadyIsTaken` |
| `output` | async, 3 keyframes; `app/lo.cpp` with saves at any time, `app/lio.cpp` with saves at rest | readers see one graph, and the second writer is harmless at rest |
| `output_save_race` | `app/lio.cpp`, refinement off, 3 keyframes, saves at any time | violation of `SingleWriterKeepsLayerCurrent` |
| `output_forced` | `app/lio.cpp`, 2 keyframes, saves at rest | violation of `SaveExportsForcedLayer` |
| `loop_commit` | permutations of 3 points, 4 keyframes, spacings 2 and 2 | the invariants of the pose graph, `ImplementsAtomicLoops` |
| `lidar_queue` | both nodes, limit 2, 3 frames out of 7 scans, 3 instants, fairness | the queue, the counters, the buffer; no frame stays whose IMU has come; a timed wait ends; nothing behind a refused frame is worked on |
| `lidar_join` | 1 frame, fairness | violation of `DestructorJoins` |
| `frontend` | both nodes, 7 scans, four configurations | submaps, target, jobs and motion prior through every partial failure |
| `map_cache` | blocks of 2, threshold 1, 3 keyframes, 3 optimisations by -1..2, resets | the drawn map follows the graph; the refined layer shows what was accepted |
| `ground_pieces` | bootstrap of 2, candidates of 5, 6 tilts in two directions with 3 gravities, 2 switches, 2 submaps; 170 000 states | pieces differ, candidates are fresh, a steady slope is adopted |
| `loop_consistency` | gaps 2 and 1, 3 proposals, history of 3, 6 keyframes; 145 000 states | what an accepted loop rests on; a steady loop is accepted |

Why the bounds are enough to be interesting.

* `backend`, `output`: two keyframes make a loop possible, a third one arrives while a
  refinement of the first optimisation is computed and is optimised itself, which is
  the stale result; the reset repeats the ids.
* `loop_commit`: the fourth keyframe is the first at which two loops can be accepted
  and a third be tried. Three points are the smallest group in which the order of
  factors matters.
* `lidar_queue`: the limit of 2, the smallest the code permits, has a front in work and a
  frame behind it when the third arrives, so that it makes a difference which is
  dropped; three instants let a scan start before, at and after the filter and end
  before and after the newest sample. The seven scans have no point times, points
  before the stamp, no duration, or overlap, follow and precede each other. `app/lo.cpp`
  permits no limit below 10; a front and one frame behind it are all that its three
  actions distinguish, and the third frame can be refused and, after a pop, let in.
  Longer queues are the subject of the proofs.
* `frontend`: seven scans fill submaps of four that overlap in two twice, and submaps of
  two six times; or they hold a rejection between accepted scans. The configurations
  have an overlap below, at and above one half and one of each that is clamped.
* `map_cache`: two small moves add up beyond the threshold, a third goes back; the third
  keyframe opens a second block, and the second joins a block that may have
  overrides. Each pose may be corrected by more or as much as the threshold.
* `ground_pieces`: in twelfths of a degree, the unit of the thresholds of the code. Two tilts at
  both sides, (6, 17) and (-6, 17), differ from the level piece by more than `Trigger` and agree
  with each other, while their mean does not differ so much; (0, 27) and (0, 33) continue the
  slope one after the other, and (0, -24) is a change of terrain on the other side; candidates
  of five can be thrown away as a whole and start again. Two switches show a piece that differs
  from a piece that was not the first.
* `loop_consistency`: six keyframes are needed for a false seed between true proposals, a
  history that has forgotten its oldest and an acceptance followed by another.

Deadlock is checked in every run: `Destroyed`, `Ended` and `NoMoreKeyframes` stutter where
the program has ended or has no input left.

Fairness (`FairSpec`). Threads that can run do run: weak fairness of the backend, of
the refiner and of a stop that has begun. Where a thread asks for a mutex that
another thread holds for short times again and again, strong fairness: a mutex is
not required to be fair, but the holder here sleeps in between. No fairness is
assumed for new keyframes, a stop or a reset, exceptions, or spurious wakeups.
`LidarQueue` is alike: its threads run, messages and the end of the program are not
promised. Its fairness includes the timeout of the wait for the IMU: since
`ImuCallback` notifies without the mutex, events alone do not bring a frame on.
The other modules have no liveness: they are called, and every call returns. That a
steady slope and a steady loop are adopted is stated as a bound on the number of
scans or proposals, which is stronger.

## 4. What disagrees with the code's own words

Four runs end in a violation of what a comment says:

1. `backend_lost_wakeup`: "Wake the MAIN backend worker." (`backend_worker.cpp:631`), but
   the refiner sets the ready flag and notifies without `backend_queue_mutex_`. If the backend has just found its predicate false, the
   wakeup is lost, and the result waits for the next keyframe
   (`backend` shows that it waits no longer than that). At the end of a
   drive there is no next one.
2. `output_save_race`: the save service of `app/lio.cpp` is a second writer.
3. `output_forced`: the snapshot that is exported is not renewed after the forced
   refinement, so the export has the previous layer, or is refused.
4. `lidar_join`: the wait for a frame has no timeout, so the same race with the
   destructor leaves the worker asleep and `join` never returns. `app/lo.cpp` and
   `app/lidar_registration_scan2scan.cpp` have the same destructor.

Others are in the models, and no run is spent on them:

* `backend_worker.cpp:415`: an asynchronous commit changes the map without a new
  `global_map_revision_`, which `lo_frontend.hpp:255` says is "Incremented whenever the
  backend incremental-map cache changes." `app/lio.cpp:3886` skips a snapshot whose
  revision it has published, so the refined map shows with the next keyframe.
  (`BackendWorker`: `TryCommitRefinement` leaves `globalRev` alone.)
* `app/lio.cpp:1649`: between the failed lookup in `imu_buffer_` and the look at
  `latest_imu_timestamp_` the missing sample may arrive; the frame is then dropped
  for a gap that is not there, although line 1653 says "the required historical
  interval is missing. Waiting for future IMU cannot repair it." Since
  `HistoryReachesFilter` holds, the beginning of the interval is never missing: all
  that is left to this branch are this race and a scan of no duration at the filter's
  time. `app/lo.cpp:1059` is alike, where line 475 says that "thread scheduling must NEVER
  decide which LiDAR frame enters the SLAM frontend." (`LidarQueue`: `BuildLioImuData`
  or `BuildImuPoses`, then `CheckCoverageGap`.)
* `app/lo.cpp:848`: after an overload, reported as "No LiDAR frame was silently dropped", the
  node has no worker but goes on to accept frames once the worker's last pop has made
  room; these and the ones that waited are neither processed nor counted.
  (`LidarQueue`: `PushLidarFrame` after `StopOnOverload`.)
* `lo_frontend.cpp:3895`: if the target of the first scan cannot be prepared, its
  keyframe stays in manager and submap, and the next scan is put at the identity as
  well. Line 3769 says "The very first accepted LiDAR scan defines the World origin."
  (`Frontend`: `AddFirstFrame` with `done = "added"`.)
* `lo_frontend.cpp:4810`: "Capture the frontend Submap that OWNS this Keyframe BEFORE
  insertion." The paths of the first frame do not (see above). (`Frontend`: `Owner`.)
* `lio_frontend.cpp:6402`: a new piece is opened only when "Ground orientation disagrees
  with ACTIVE", by `kTerrainNormalTriggerDeg`. The scans do; their mean, which is the new
  piece, may be nearer. (`GroundPieces`: `PiecesDiffer` says how near.)
* `lio_frontend.cpp:6510`: while the filter's gravity is tilted by more than 1.5 degrees
  no scan counts as a change of terrain, so a ground that is off by more than the 5
  degrees of `kActiveSafeNormalDeg` matches and may be used up to
  `maximum_normal_residual_deg`. (`GroundPieces`: `Match` with unreliable gravity.)

And in code that is not modelled: the wall confirmation local to a submap
(`lio_frontend.cpp`, 7000-7660) ends in a measurement builder whose result is not used;
`ResetGroundRuntime` leaves the active piece and the candidate, which is harmless as
long as `Initialize` is called once; the sampler of retrieval (`loop_closure.cpp:1849`
and on) and the registry of ground confidences survive a `Reset()`, which no node calls.

## 5. Proofs

TLAPS checks the theorems for every value of the constants: any number of
keyframes, sessions, any stride and mode; in `LoopCommit` any group of poses, any
gates and spacings; any size and overlap of submaps; any block size and thresholds;
any gaps, lengths and limits of the loop history. Every invariant and every action property
that a passing run checks is a theorem.
Assumptions are the types of the constants (`ConstantsAssumption`, `LoopAssumption`,
`ConfigAssumption`, ...), the group laws (`PoseAssumption`), and two facts about the
code's numbers: a candidate takes three scans or more (`GroundAssumption`), and the history
of loops has room for the supporters (`ConsistencyAssumption`).

`BackendWorker_proofs`:

* `TypeCorrect`.
* `RevisionsAlwaysAgree`: inductive by itself with the types.
* `StopIsComplete`: needs `Control`, which says for each control point of the owner
  which thread has ended and which queue or slot is empty. The refiner may still
  fill the result slot while it is joined, but the backend may not fill the job
  slot, because it was joined before.
* `KeyframesStayInOrder`: the ids in the history, the job in hand and the queue increase in
  this order, and together with `absent` they are all that were given out; so one that is
  missing was left out by the frontend or lost when its job threw. With `Control`, since
  after a reset the history restarts at id 0 and must meet an empty queue and an idle backend.
* `ResultsAlwaysMatchHistory`: needs that the flag is up exactly when the result slot
  is filled (`ResultControl`). The exception, a result that outlived a reset, is
  part of the invariant: the flag makes the backend drop it before it pops.
* `RefinedLayerStaysCurrent`: follows with `Describes` or `Outlived`: a result passes
  the epoch check only if it is of this session.
* `BackendImplementsRefinedLayer`: every step maps to a step of `RefinedLayer` or a
  stutter; only `AcceptLoop` and `ResetState` replace the graph.

* `LayerAlwaysBelongs` is about the abstract specification: what an implementation of
  `RefinedLayer` inherits.
* `NoWakeupIsLost`: a thread that sleeps, or has found its predicate false and still holds
  its mutex, has nothing to take and was not told to stop, unless the notification is
  still to come (`BackendSleepsRightly`, `RefinerSleepsRightly`); so a join waits for a
  thread that is awake. This is the safety behind `QueueDrains` and `StopTerminates`,
  which themselves need fairness. The ready flag is not in it, since the code sets it
  outside the mutex: `backend_lost_wakeup` shows what that costs.

`MapOutput_proofs`: the save service of `app/lio.cpp` is a second writer, and nothing in
the code keeps it and the backend apart. What is proved is about calls at rest; for calls at
any other time `output_save_race` shows what goes wrong, and nothing is claimed.

`Admissible == use.forces => use.quiet` says that the node which refines
on a save is asked for one only when the backend sleeps with nothing to do and no
keyframe comes until the call is over, as after a bag; it holds of
`app/lo.cpp`, which refines nothing, in every use. The invariant `OutputInv` keeps what the core
has (`BackendInv`), that the backend stays `Still` for as long as the refinement lasts, hence
that what it froze is the live graph (`ForceInv`), and that every copy a reader holds is
of one graph (`CopiesInv`). From it `ReadersAlwaysSeeOneGraph`,
`QuietSavesKeepLayerCurrent` and `NodeImplementsRefinedLayer`. The hypothesis is
needed: without it `output_save_race` refutes the second, and the property of `output`
rests on it.

`LoopCommit_proofs`: during a trial the graph is inconsistent on purpose, so each
invariant is stated for the *kept* part (`KeptPose`, `KeptEdges`): the snapshot and
all edges but the last. `TrialInv` says that the tried edge is the last one, and so
a rollback, which searches the newest edge between two nodes, erases that one
(`RollbackErasesTried`). On it rest `BridgeFollowsGraph` (the chained pose of a new
keyframe is `T * odom` because `T * a * (a^-1 * b) = T * b`),
`ReferenceStaysImmutable`, `AcceptedLoopsAreCounted` and `LoopsStaySpaced`.
`LoopTrialsAreAtomic` is the refinement of `AtomicLoops`. A keyframe maps to a keyframe,
`AcceptLoop` to `CloseLoop`, all other steps to stutters: `Rollback` because it erases
exactly the tried edge and the copy is what was there. `CloseLoop` asks for the gate, which was
tested two steps before `AcceptLoop`, against the poses of that time; `GateInv` carries it
along, as a fact about the copied poses.

`LidarQueue_proofs`: `LidarTypeCorrect`, `WorkerPopsItsFrame`, `OverflowKeepsNewest`,
`NoFrameIsLost`, `HistoryIsKept` and the action properties `FramesSettleOnce` and
`FramesSettleInOrder`, for every limit from 2 on, any history and any number of
frames. The invariant `LidarInv` adds `FrontIsOldest` (the front's number is below all
that wait, which makes numbers in the queue distinct and a pop remove one of them),
`SampleIsNewest` (the filter starts at a sample the buffer holds),
`FramesAfterInitialization` and `ProcessingIsAhead` (the filter only moves forward), and
`RefusalStops`: after a refusal a frame comes in only when `running_` is cleared, and
the frame in the worker's hands came before it, which `FramesSettleInOrder` needs.
`RemoveOldDataKeepsPast` needs that a set of numbers has a greatest element below a
bound; `LeastNumber` gets it from the well-foundedness of `<`.
`QueuedFramesWakeWorker`: a worker asleep beside a frame is about to be notified; so it is
only a request to stop that the untimed wait misses (`lidar_join`). For the wait for the
IMU there is no such theorem, because it is not so; there `FrontIsHandled` needs the timeout.

`Frontend_proofs`: all six properties of the run and the types. `Shape` is the
invariant of the submaps: the primary is not full, the growing one beside it has its
newest keyframes and lags behind by `size - overlap`, or by `overlap` if it was
begun behind a promoted submap that already held more; two finished neighbours have
the rest in common. The two values of `Lags` are what makes it inductive for overlaps
above one half. `AddKeyframe` is followed in its three steps (`ShapeOpened`,
`ShapeInserted`, `ShapePromoted`), each of which keeps the shape. `CommitInv` ties target,
detector and jobs to the last job; `TrackInv` says that a rejection not yet followed by
an accepted scan is counted, and so the next motion is not kept.

`IncrementalGlobalMap_proofs`: `LayerFollows` is the heart: after a rebuild every cached
pose is within `Threshold` of the graph, and every drawn pose within `Threshold` of the
cached one, since a block is drawn with the poses of its time and the cached ones
were compared then. Twice the threshold follows (`TwiceTheThreshold`); TLC finds
the runs in which it is reached. For the refined layer the invariant `Drawn` is that a
block with overrides is drawn at exactly the corrected *present* poses, also for
keyframes that joined later: poses of the graph move only where overrides are
cleared.

`GroundPieces_proofs`: the candidate's mean is what becomes the new piece, but only
samples are compared with the active one, and samples at both sides of it have a mean that is
nearer. The invariant is about the sum of the `n` samples so far (`Far`): its squared distance to
`n` times the piece is at least `n^2 T^2 - n (n - 1) C^2`, with `T` for `Trigger` and `C` for
`Consistency`. A sample that joins is `T` away from the piece and within `C` of the mean of
those before, which is just what the step needs (`MeanStaysFar`). For a mature candidate
`NewPiecesDiffer` follows: a new piece is at least `sqrt(T^2 - C^2)` from the one it replaces, for
all thresholds; with those of the code, 1.5 and 1.0 degrees, about 1.1. (On the sphere, where
the normals are, the same argument on paper bounds the cosine of the distance by
`cos T / cos C`; the models and the proof have the plane.) `PendingStaysFresh` comes along.
`SteadySlopeIsAlwaysAdopted` needs to
know how a run of equal tilts `t` lies in the candidate (`SteadyRun`): all samples are `t`;
or the first one is not and is in reach; or more are not, and `t` is within `Consistency` of
their mean. A mature candidate of one of the first two kinds passes the test of stability, so
it is thrown away only in the third, which has at least two foreign samples; what is
left then is one sample of the run. This is where the bound `2 * Required - 4` comes from,
for all thresholds.

`LoopConsistency_proofs`: what a walk over the history returns is proved without induction
over sequences: `SetInduction`, from the well-foundedness of `<`, says that a set of numbers
with 0 and with the successor of each of its members is all of them, and is applied to
the numbers of steps after which a fact about `Chain` holds. `AcceptedAlwaysRestsOnThree` says
that an accepted loop is the last of three proposals that agreed one with the next, or of two
if `MinProposals` is 2. It rests on
`LinkInv`: a proposal with an older neighbour in the history was compared with one when it was
stored, and an optimisation moves offsets but neither links nor ids. `SteadyLoopIsAlwaysAccepted`
follows a run of proposals that continue each other (`RunOf`): of its `n` proposals the last
`s` are in the history, at its end and in a row (`Tracked`), and the others were refused,
because of older proposals in their way; `CurrentGap` keyframes later these are no neighbours
any more, so that at most `CurrentGap` are refused; and with `MinProposals - 1` stored
the next one is accepted. `InRun` is the same about the walk: it meets those `s` first, and
all of them support the new proposal, whatever false seeds lie behind them.

Only model-checked: the five properties under fairness, `StopTerminates`, `QueueDrains`,
`ReadyTakenWithNextKeyframe`, `FrontIsHandled` and `TimedWaitEnds`, which are out of the
prover's reach; the sleep theorems above are the part of them that is safety. The
violations are counterexamples of TLC.

## 6. Not modelled

* Numerics: registration, the iterated Kalman filter, descriptors, ICP on CPU and GPU,
  segmentation of ground and extraction of walls, the g2o problem. They are functions
  of their inputs; here their outcome is a free choice among those the code
  distinguishes. They are also most of the lines of this repository: the filter,
  segmenters, verifiers and their diagnostics have no state that outlives a call,
  apart from what `GroundPieces` has, and so no protocol to check.
* Retrieval: its candidates are a free choice. Its static state outlives a `Reset()`, which
  neither node calls.
* The bridge of the LIO node to the map and the registry of ground confidences: one
  guarded assignment each.
* The path node and the scan-to-scan node: their queue and waits are those of
  `LidarQueue`. `LocalMap` belongs to the path node.
* Message conversion, logging and diagnostics, tools and vendored code.
* An exception between the two statements of an acceptance is a hazard without
  a property. `Reset()` is in the models although no node calls it; it is a public
  operation of the class.

## 7. Plan

Done: `BackendWorker`, `RefinedLayer`, `MapOutput`, `LoopCommit`, `AtomicLoops`,
`LidarQueue`, `SubmapManager`, `Frontend`, `IncrementalGlobalMap`, `GroundPieces`,
`LoopConsistency`; theorems about all of them, among them every invariant and every action
property that the passing runs check, and both refinements.

Left:

1. The inside of a job and its outside: `BackendWorker` has exceptions (`JobThrows` may
   leave a tentative edge in the graph), `LoopCommit` has poses. An `AtomicLoops` in which a
   trial may also be abandoned would be implemented by both.
2. An abstract specification of the input side (frames are handled in order, or counted),
   with `LidarQueue` implementing it.
3. An abstract specification of the submaps as windows over the keyframes, with `Frontend`
   implementing it.
