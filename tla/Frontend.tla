------------------------------ MODULE Frontend ------------------------------
(***************************************************************************)
(* The mapping side of one scan, on the LiDAR worker of a node:            *)
(* RegistrationScan2LocalMap::AddFrame (app/lo.cpp, which registers the    *)
(* scan itself) and CommitExternalPoseFrame (app/lio.cpp, which is given   *)
(* the pose of the filter), src/frontend/lo/lo_frontend.cpp, with          *)
(* KeyframeDetector, KeyframeManager, SubmapManager, the tracking target   *)
(* and the queue of the backend.                                           *)
(*                                                                         *)
(* A pose is identified by the scan it was found for; 0 is the identity.   *)
(* Whether a registration passes its gates, a motion is large or a target  *)
(* has enough planes is numeric and left open.  A call may fail half way,  *)
(* and what it did until then stays.                                       *)
(***************************************************************************)
EXTENDS SubmapManager

CONSTANTS
  Nodes,     \* the nodes considered: "lo", "lio"
  MaxScans   \* bound: scans

ASSUME FrontendAssumption == Nodes \subseteq {"lo", "lio"} /\ MaxScans \in Nat

VARIABLES
  node,         \* the one this is
  scan,         \* number of scans the worker has taken
  initialized,  \* initialized_
  pose,         \* T_WL_
  rejected,     \* consecutive_rejected_frames_
  motion,       \* last_relative_transform_: from one scan to another
  lastRejected, \* the last scan that failed the quality gate
  lastKeyframe, \* last_keyframe_pose_, {} before the first
  keyframes,    \* keyframe_manager_: the pose of each keyframe, ids from 1
  target,       \* prepared_tracking_target_: the submap and the clouds in it
  jobs          \* what backend_queue_ was given, in order

trackVars    == <<initialized, pose, rejected, motion, lastRejected>>
keyframeVars == <<lastKeyframe, keyframes, target, jobs>>
vars         == <<submapVars, node, scan, trackVars, keyframeVars>>

Init ==
  /\ SubmapInit
  /\ node \in Nodes /\ scan = 0
  /\ initialized = FALSE /\ pose = 0 /\ rejected = 0
  /\ motion = [from |-> 0, to |-> 0] /\ lastRejected = 0
  /\ lastKeyframe = {} /\ keyframes = <<>> /\ target = {} /\ jobs = <<>>

-----------------------------------------------------------------------------
\* How much of the work on a new keyframe is done before something fails.
Progress == {"stored", "added", "all"}

TrackingMap == [submap |-> active, cloud |-> clouds[active]]

\* Mutant: the snapshot of a finished submap waits for the one after it.
JobOfGrowing(id, owner) ==
  [id |-> id, owner |-> owner,
   snapshot |-> IF started' /\ growing' # 0 THEN finished' ELSE 0]

\* EnqueueBackendKeyframe, which does not fail while the node is up; with the
\* keyframe that finished a submap goes a snapshot of it.
BackendJob(id, owner) ==
  [id |-> id, owner |-> owner, snapshot |-> IF started' THEN finished' ELSE 0]

\* Mutant: the owner is asked for when the submaps have moved on.
OwnerAfter == active'

\* The submap the backend is told as the owner of a keyframe: the one that was
\* active before the insertion.  Until the frontend is initialized the code
\* asks for it after the insertion, which may have moved on.
Owner == IF initialized THEN active ELSE active'

\* Mutant: the backend gets the keyframe before the target is prepared.
KeyframeEnqueuedEarly(p, done) ==
  LET id == Len(keyframes) + 1
  IN /\ keyframes' = Append(keyframes, p)
     /\ AddKeyframe(id, done # "stored")
     /\ done = "all" => Added(TRUE)
     /\ jobs' = IF done = "stored" THEN jobs
                ELSE Append(jobs, BackendJob(id, Owner))
     /\ IF done = "all"
        THEN target' = {TrackingMap'} /\ lastKeyframe' = {p}
        ELSE UNCHANGED <<target, lastKeyframe>>

\* A new keyframe with pose p: the manager stores it, the submaps take it, the
\* target is prepared from the tracking map, the backend gets it, the detector
\* remembers it.
Keyframe(p, done) ==
  LET id == Len(keyframes) + 1
  IN /\ keyframes' = Append(keyframes, p)
     /\ AddKeyframe(id, done # "stored")
     /\ done = "all" => Added(TRUE)
     /\ IF done = "all"
        THEN /\ target' = {TrackingMap'}
             /\ jobs' = Append(jobs, BackendJob(id, Owner))
             /\ lastKeyframe' = {p}
        ELSE UNCHANGED <<target, jobs, lastKeyframe>>

NoKeyframe == UNCHANGED <<submapVars, keyframeVars>>

NextScan == scan < MaxScans /\ scan' = scan + 1 /\ UNCHANGED node

\* Nothing came of the scan: preprocessing left no point, or the filter of
\* app/lio.cpp refused it.  The mapping side is not called.
LoseScan ==
  /\ NextScan
  /\ UNCHANGED <<submapVars, trackVars, keyframeVars>>

-----------------------------------------------------------------------------
(* AddFrame *)

\* The first scan defines the world: it is put at the identity, not registered.
AddFirstFrame(done) ==
  /\ NextScan /\ node = "lo" /\ ~initialized
  /\ pose' = 0 /\ motion' = [from |-> 0, to |-> 0] /\ rejected' = 0
  /\ Keyframe(0, done)
  /\ initialized' = (done = "all")
  /\ UNCHANGED lastRejected

\* What became of a registration: of the primary one, of the coarse alignment
\* that is tried if that fails its quality gate, and of the fine one after it.
Attempts == [primary : BOOLEAN, coarse : BOOLEAN, refined : BOOLEAN]
Recovered(a) == ~a.primary /\ a.coarse /\ a.refined
Passes(a)    == a.primary \/ Recovered(a)

\* However many registrations were tried, a scan is rejected once.
RejectFrame(a) ==
  /\ NextScan /\ node = "lo" /\ initialized
  /\ ~Passes(a)
  /\ rejected' = rejected + 1 /\ lastRejected' = scan'
  /\ NoKeyframe
  /\ UNCHANGED <<initialized, pose, motion>>

\* A keyframe of which only a part could be done refuses the scan, too, and
\* is not counted as a rejection.
FailKeyframe(done) ==
  /\ NextScan /\ node = "lo" /\ initialized
  /\ done # "all"
  /\ Keyframe(scan', done)
  /\ UNCHANGED trackVars

\* Mutant: a motion is kept whatever happened since the scan it starts from.
AcceptFrameAnyMotion(a, jump) ==
  /\ NextScan /\ node = "lo" /\ initialized
  /\ Passes(a)
  /\ NoKeyframe \/ Keyframe(scan', "all")
  /\ pose' = scan' /\ rejected' = 0
  /\ motion' = IF ~Recovered(a) /\ ~jump
               THEN [from |-> pose, to |-> scan'] ELSE motion
  /\ UNCHANGED <<initialized, lastRejected>>

\* Every scan that passes moves the pose. Its motion predicts the next one
\* only if it was not coarsely recovered, not the first after a rejection and
\* not suspiciously large (jump).
AcceptFrame(a, jump) ==
  /\ NextScan /\ node = "lo" /\ initialized
  /\ Passes(a)
  /\ NoKeyframe \/ Keyframe(scan', "all")
  /\ pose' = scan' /\ rejected' = 0
  /\ motion' = IF ~Recovered(a) /\ rejected = 0 /\ ~jump
               THEN [from |-> pose, to |-> scan'] ELSE motion
  /\ UNCHANGED <<initialized, lastRejected>>

-----------------------------------------------------------------------------
(* CommitExternalPoseFrame *)

CommitFirstFrame(done) ==
  /\ NextScan /\ node = "lio" /\ ~initialized
  /\ pose' = scan' /\ motion' = [from |-> 0, to |-> 0] /\ rejected' = 0
  /\ Keyframe(scan', done)
  /\ initialized' = (done = "all")
  /\ UNCHANGED lastRejected

FailCommit(done) ==
  /\ NextScan /\ node = "lio" /\ initialized
  /\ done # "all"
  /\ Keyframe(scan', done)
  /\ UNCHANGED trackVars

CommitFrame ==
  /\ NextScan /\ node = "lio" /\ initialized
  /\ NoKeyframe \/ Keyframe(scan', "all")
  /\ pose' = scan' /\ rejected' = 0
  /\ motion' = [from |-> pose, to |-> scan']
  /\ UNCHANGED <<initialized, lastRejected>>

\* The bag has ended.
Ended == scan = MaxScans /\ UNCHANGED vars

Next ==
  \/ LoseScan \/ CommitFrame \/ Ended
  \/ \E a \in Attempts : RejectFrame(a) \/ \E jump \in BOOLEAN : AcceptFrame(a, jump)
  \/ \E done \in Progress :
       \/ AddFirstFrame(done) \/ FailKeyframe(done)
       \/ CommitFirstFrame(done) \/ FailCommit(done)

Spec == Init /\ [][Next]_vars

-----------------------------------------------------------------------------
(* Properties *)

Poses == 0 .. MaxScans

\* Every variable has its type.
FrontendTypeOK ==
  /\ config \in [size : Nat, overlap : Nat] /\ config.overlap \in 1 .. config.size - 1
  /\ submaps \in Seq(SUBSET Nat) /\ clouds \in Seq(SUBSET Nat)
  /\ active \in Nat /\ growing \in Nat /\ started \in BOOLEAN /\ finished \in Nat
  /\ node \in Nodes /\ scan \in Poses /\ initialized \in BOOLEAN
  /\ pose \in Poses /\ rejected \in Nat
  /\ motion \in [from : Poses, to : Poses] /\ lastRejected \in Poses
  /\ lastKeyframe \subseteq Poses /\ keyframes \in Seq(Poses)
  /\ target \subseteq [submap : Nat, cloud : SUBSET Nat]
  /\ jobs \in Seq([id : Nat, owner : Nat, snapshot : Nat])

\* Once there is a map, detector, target and backend speak of the same last
\* keyframe, whatever failed since: the next distance is measured from the
\* keyframe the backend got last, and scans are registered against a cloud of
\* a submap that has it, the whole tracking map if nothing failed since.
CommittedTogether ==
  initialized =>
    /\ jobs # <<>>
    /\ LET last == jobs[Len(jobs)].id
       IN /\ lastKeyframe = {keyframes[last]}
          /\ \E t \in target : last \in submaps[t.submap] /\ t.cloud \subseteq clouds[t.submap]
          /\ last = Len(keyframes) => target = {TrackingMap}

\* lo_frontend.cpp:4810: the owner of a keyframe that the backend is told is
\* the submap that owned it first, not the one that was begun beside it.  The
\* first keyframe the backend gets, whose owner is asked for after the insertion
\* (3905, 5335), may be told one later, but only if it filled the submap before,
\* which is handed over with it.
OwnersAreOldest ==
  \A j \in DOMAIN jobs :
    /\ jobs[j].id \in submaps[jobs[j].owner]
    /\ \A i \in DOMAIN submaps :
         jobs[j].id \in submaps[i] => \/ jobs[j].owner <= i
                                      \/ j = 1 /\ jobs[j].snapshot = i /\ jobs[j].owner = i + 1

\* Every submap is given to the backend, once, complete and with the keyframe
\* that filled it, unless the scan of that keyframe was refused afterwards.
FinishedSubmapsDelivered ==
  \A i \in FinishedSubmaps : \A j \in DOMAIN jobs :
    (\A k \in submaps[i] : k <= jobs[j].id) /\ jobs[j].id \in submaps[i]
      <=> jobs[j].snapshot = i

\* The constant-motion model never spans a scan that was rejected.
MotionSpansNoRejection ==
  node = "lo" => ~(motion.from < lastRejected /\ lastRejected < motion.to)
=============================================================================
