----------------------------- MODULE LoopCommit -----------------------------
(***************************************************************************)
(* The pose graph of the backend thread: how a keyframe enters it          *)
(* (AddKeyframeToPoseGraph), and how a verified loop is tried out, kept or *)
(* rolled back (the second half of DetectAndVerifyLoopFromKeyframe), with  *)
(* the bridge from the odometry to the map frame that follows it.          *)
(*                                                                         *)
(* Keyframe i is node i; the frontend gives ids in order and finite poses. *)
(* g2o is external: it moves every node but the fixed one as it likes.     *)
(***************************************************************************)
EXTENDS PoseGroup, Naturals, Sequences, FiniteSets

CONSTANTS
  SmallError,        \* poses within the gross-alias gate: 0.25 m and 60 degrees
  SmallUpdate,       \* poses within online_loop_pgo_max_*_update_
  CurrentSpacing,    \* min_online_loop_edge_current_keyframe_spacing_
  HistoricalSpacing, \* min_online_loop_edge_historical_keyframe_spacing_
  MinSeparation,     \* min_keyframe_id_separation of the retrieval
  Motions,           \* bound: motions between two keyframes
  MaxKeyframes       \* bound: number of keyframes

ASSUME LoopAssumption ==
  /\ SmallError \subseteq Pose /\ SmallUpdate \subseteq Pose /\ Motions \subseteq Pose
  /\ CurrentSpacing \in Nat \ {0} /\ HistoricalSpacing \in Nat \ {0}
  /\ MinSeparation \in Nat \ {0}
  /\ MaxKeyframes \in Nat

VARIABLES
  odom,     \* backend_keyframes_: T_WL, the pose the frontend measured
  pose,     \* pose_graph_.nodes_: T_WK
  edges,    \* pose_graph_.edges_
  phase,    \* "insert", "search", "tentative", "optimized" or "rollback"
  tried,    \* the loop edge being tried, if any
  before,   \* pose_snapshot
  lastLoop, \* last_online_loop_*: the loop edge accepted last
  epoch,    \* pose_graph_optimization_epoch_
  bridge    \* T_map_odom_, once has_map_odom_correction_

vars == <<odom, pose, edges, phase, tried, before, lastLoop, epoch, bridge>>

Edge == [type : {"odometry", "loop"}, from : Nat, to : Nat, Z : Pose]

Loops(es) == {i \in 1..Len(es) : es[i].type = "loop"}

Init ==
  /\ odom = <<>> /\ pose = <<>> /\ edges = <<>>
  /\ phase = "insert" /\ tried = {} /\ before = <<>>
  /\ lastLoop = {} /\ epoch = 0 /\ bridge = {}

-----------------------------------------------------------------------------
OdometryEdge(from, to, Z) ==
  [type |-> "odometry", from |-> from, to |-> to, Z |-> Z]

\* Mutant: the new node starts at the raw frontend pose.
InsertRawPose ==
  /\ phase = "insert"
  /\ Len(odom) < MaxKeyframes
  /\ \E motion \in Motions :
       LET n   == Len(odom)
           now == IF n = 0 THEN motion ELSE Mul(odom[n], motion)
       IN /\ odom' = Append(odom, now)
          /\ pose' = Append(pose, now)
          /\ edges' = IF n = 0 THEN edges
                      ELSE Append(edges, OdometryEdge(n, n + 1, Between(odom[n], now)))
  /\ phase' = "search"
  /\ UNCHANGED <<tried, before, lastLoop, epoch, bridge>>

\* Mutant: the measurement is taken from the current keyframe to the previous.
InsertReversedEdge ==
  /\ phase = "insert"
  /\ Len(odom) < MaxKeyframes
  /\ \E motion \in Motions :
       LET n   == Len(odom)
           now == IF n = 0 THEN motion ELSE Mul(odom[n], motion)
       IN /\ odom' = Append(odom, now)
          /\ pose' = IF n = 0 THEN <<now>>
                     ELSE Append(pose, Mul(pose[n], Between(odom[n], now)))
          /\ edges' = IF n = 0 THEN edges
                      ELSE Append(edges, OdometryEdge(n, n + 1, Between(now, odom[n])))
  /\ phase' = "search"
  /\ UNCHANGED <<tried, before, lastLoop, epoch, bridge>>

\* The first node is fixed at the frontend's pose; every other one is chained to
\* its predecessor's corrected pose by the frontend's measurement.
AddKeyframeToPoseGraph ==
  /\ phase = "insert"
  /\ Len(odom) < MaxKeyframes
  /\ \E motion \in Motions :
       LET n   == Len(odom)
           now == IF n = 0 THEN motion ELSE Mul(odom[n], motion)
       IN /\ odom' = Append(odom, now)
          /\ pose' = IF n = 0 THEN <<now>>
                     ELSE Append(pose, Mul(pose[n], Between(odom[n], now)))
          /\ edges' = IF n = 0 THEN edges
                      ELSE Append(edges, OdometryEdge(n, n + 1, Between(odom[n], now)))
  /\ phase' = "search"
  /\ UNCHANGED <<tried, before, lastLoop, epoch, bridge>>

Gap(a, b) == IF a >= b THEN a - b ELSE b - a

\* Mutant: one of the two gaps is enough.
SpacedEitherWay(hist, cur) ==
  \A last \in lastLoop : \/ Gap(cur, last.to) >= CurrentSpacing
                         \/ Gap(hist, last.from) >= HistoricalSpacing

\* Every accepted loop keeps its distance from the one accepted before it.
Spaced(hist, cur) ==
  \A last \in lastLoop : /\ Gap(cur, last.to) >= CurrentSpacing
                         /\ Gap(hist, last.from) >= HistoricalSpacing

\* A verified and consistent loop passes the spacing and the gross-alias gate;
\* the poses are copied and its edge is added.
AddLoopEdge ==
  /\ phase = "search"
  /\ \E hist \in 1..(Len(pose) - MinSeparation), Z \in Pose :
       LET cur == Len(pose)
       IN /\ Spaced(hist, cur)
          /\ Mul(Inv(Between(pose[hist], pose[cur])), Z) \in SmallError
          /\ tried' = {[type |-> "loop", from |-> hist, to |-> cur, Z |-> Z]}
          /\ edges' = Append(edges, [type |-> "loop", from |-> hist, to |-> cur,
                                     Z |-> Z])
  /\ before' = pose
  /\ phase' = "tentative"
  /\ UNCHANGED <<odom, pose, lastLoop, epoch, bridge>>

\* No candidate, or one that a gate rejects.
NoLoop ==
  /\ phase = "search"
  /\ phase' = "insert"
  /\ UNCHANGED <<odom, pose, edges, tried, before, lastLoop, epoch, bridge>>

\* Optimize writes the poses only when all its own guards have passed.
Optimize ==
  /\ phase = "tentative"
  /\ \/ /\ \E solution \in [1..Len(pose) -> Pose] :
             solution[1] = pose[1] /\ pose' = solution
        /\ phase' = "optimized"
     \/ phase' = "rollback" /\ UNCHANGED pose
  /\ UNCHANGED <<odom, edges, tried, before, lastLoop, epoch, bridge>>

UpdateGuardPassed ==
  \A i \in 1..Len(pose) : Between(before[i], pose[i]) \in SmallUpdate

\* Mutant: the bridge is taken at the loop's other end.
UpdateMapOdomAtHistorical(anchor) ==
  bridge' = {Mul(pose[edge.from], Inv(odom[edge.from])) : edge \in tried}

UpdateMapOdomCorrection(anchor) == bridge' = {Mul(pose[anchor], Inv(odom[anchor]))}

AcceptLoop ==
  /\ phase = "optimized"
  /\ UpdateGuardPassed
  /\ epoch' = epoch + 1
  /\ lastLoop' = tried
  /\ UpdateMapOdomCorrection(Len(pose))
  /\ phase' = "insert"
  /\ tried' = {}
  /\ UNCHANGED <<odom, pose, edges, before>>

GuardRejectsUpdate ==
  /\ phase = "optimized"
  /\ ~UpdateGuardPassed
  /\ phase' = "rollback"
  /\ UNCHANGED <<odom, pose, edges, tried, before, lastLoop, epoch, bridge>>

\* The newest loop edge between the two nodes is erased.
RemoveLoopEdge(es, from, to) ==
  LET matches == {i \in Loops(es) : es[i].from = from /\ es[i].to = to}
  IN IF matches = {} THEN es
     ELSE LET last == CHOOSE i \in matches : \A j \in matches : j <= i
          IN SubSeq(es, 1, last - 1) \o SubSeq(es, last + 1, Len(es))

\* Mutant: the edge is taken back, the poses are not.
RollbackEdgeOnly ==
  /\ phase = "rollback"
  /\ \E edge \in tried : edges' = RemoveLoopEdge(edges, edge.from, edge.to)
  /\ phase' = "insert"
  /\ tried' = {}
  /\ UNCHANGED <<odom, pose, before, lastLoop, epoch, bridge>>

\* Mutant: the poses are taken back, the edge is not.
RollbackPosesOnly ==
  /\ phase = "rollback"
  /\ pose' = [i \in 1..Len(pose) |-> before[i]]
  /\ phase' = "insert"
  /\ tried' = {}
  /\ UNCHANGED <<odom, edges, before, lastLoop, epoch, bridge>>

Rollback ==
  /\ phase = "rollback"
  /\ pose' = [i \in 1..Len(pose) |-> before[i]]
  /\ \E edge \in tried : edges' = RemoveLoopEdge(edges, edge.from, edge.to)
  /\ phase' = "insert"
  /\ tried' = {}
  /\ UNCHANGED <<odom, before, lastLoop, epoch, bridge>>

\* The owner has no more keyframes.
NoMoreKeyframes ==
  /\ phase = "insert" /\ Len(odom) = MaxKeyframes
  /\ UNCHANGED vars

Next == \/ AddKeyframeToPoseGraph \/ NoLoop \/ AddLoopEdge \/ Optimize
        \/ AcceptLoop \/ GuardRejectsUpdate \/ Rollback
        \/ NoMoreKeyframes

Spec == Init /\ [][Next]_vars

-----------------------------------------------------------------------------
(* Properties *)

\* The types of the variables.
TypeOK ==
  /\ odom \in Seq(Pose) /\ pose \in Seq(Pose) /\ before \in Seq(Pose)
  /\ Len(pose) = Len(odom)
  /\ edges \in Seq(Edge)
  /\ phase \in {"insert", "search", "tentative", "optimized", "rollback"}
  /\ tried \in SUBSET Edge /\ lastLoop \in SUBSET Edge
  /\ epoch \in Nat
  /\ bridge \in SUBSET Pose

\* The graph between two loop trials.
Settled == phase \in {"insert", "search"}

\* pose_graph_backend.cpp:184: the chained graph pose of a new keyframe and the
\* explicit map->odom bridge predict the same corrected pose, for every keyframe
\* from the anchor of the bridge on; before the first loop the graph is the
\* frontend's trajectory.
BridgeMatchesGraph ==
  Settled =>
    /\ bridge = {} => pose = odom
    /\ \A T \in bridge, last \in lastLoop :
         \A i \in last.to..Len(pose) : pose[i] = Mul(T, odom[i])

\* A loop that was rolled back leaves no trace: the loop edges are as many as
\* the accepted optimisations, which the refinement stride counts by.
LoopEdgesAreAccepted ==
  Settled => Cardinality(Loops(edges)) = epoch

\* pose_graph_optimizer.cpp:1467: the trajectory that the optimiser reconstructs
\* from the fixed node and the odometry edges alone is the frontend's, however
\* often the graph was optimised: later calls cannot move the reference.
ReferenceIsImmutable ==
  /\ pose # <<>> => pose[1] = odom[1]
  /\ \A i \in 1..Len(edges) :
       edges[i].type = "odometry" =>
         Mul(odom[edges[i].from], edges[i].Z) = odom[edges[i].to]
  /\ \A i \in 2..Len(odom) :
       \E j \in 1..Len(edges) : edges[j].type = "odometry" /\ edges[j].from = i - 1
                                                          /\ edges[j].to = i

\* Any two loop edges of the graph keep the spacing at the current end, and two
\* that follow each other also at the historical end.
LoopEdgesSpaced ==
  \A i \in Loops(edges), j \in Loops(edges) :
    i < j => /\ edges[j].to - edges[i].to >= CurrentSpacing
             /\ (\A k \in Loops(edges) : ~(i < k /\ k < j))
                  => Gap(edges[i].from, edges[j].from) >= HistoricalSpacing

\* The graph as it counts: during a trial the copied poses, and the edges before
\* the tried one.
KeptPose  == IF Settled THEN pose ELSE before
KeptEdges == IF Settled THEN edges ELSE SubSeq(edges, 1, Len(edges) - 1)

Atomic == INSTANCE AtomicLoops WITH pose <- KeptPose, edges <- KeptEdges, closed <- epoch

\* The trial of a loop is atomic: the edge that is added first, the optimisation
\* in place, the guard after it and the rollback amount to one step that closes
\* the loop, or to nothing at all, edges and poses alike.
ImplementsAtomicLoops == Atomic!Spec
=============================================================================
