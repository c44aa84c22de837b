----------------------------- MODULE AtomicLoops -----------------------------
(***************************************************************************)
(* What the backend promises about the pose graph between two of its jobs: *)
(* it grows by keyframes, each put where its odometry edge says, and a     *)
(* loop is closed in one step.  That step adds the loop's edge, which fits *)
(* the graph as it was, and moves no pose further than the update guard    *)
(* allows, the first one not at all.  A loop that is not closed is not     *)
(* there.                                                                  *)
(***************************************************************************)
EXTENDS Naturals, Sequences

CONSTANTS
  Pose, Mul(_, _), Inv(_), \* rigid transformations
  SmallError,              \* the gate for a loop's disagreement with the graph
  SmallUpdate,             \* the guard for a pose's update
  MinSeparation            \* keyframes between the ends of a loop

VARIABLES
  pose,  \* the pose of each keyframe
  edges, \* odometry and loop edges, in the order in which they came
  closed \* number of loops closed

vars == <<pose, edges, closed>>

From(a, b) == Mul(Inv(a), b)

Init == pose = <<>> /\ edges = <<>> /\ closed = 0

FirstKeyframe ==
  /\ pose = <<>>
  /\ \E p \in Pose : pose' = <<p>>
  /\ UNCHANGED <<edges, closed>>

NextKeyframe ==
  /\ pose # <<>>
  /\ \E Z \in Pose :
       /\ pose'  = Append(pose, Mul(pose[Len(pose)], Z))
       /\ edges' = Append(edges, [type |-> "odometry", from |-> Len(pose),
                                  to |-> Len(pose) + 1, Z |-> Z])
  /\ UNCHANGED closed

CloseLoop ==
  /\ \E hist \in 1..(Len(pose) - MinSeparation), Z \in Pose :
       /\ Mul(Inv(From(pose[hist], pose[Len(pose)])), Z) \in SmallError
       /\ edges' = Append(edges, [type |-> "loop", from |-> hist,
                                  to |-> Len(pose), Z |-> Z])
  /\ pose' \in Seq(Pose) /\ Len(pose') = Len(pose) /\ pose'[1] = pose[1]
  /\ \A i \in 1..Len(pose) : From(pose[i], pose'[i]) \in SmallUpdate
  /\ closed' = closed + 1

Next == FirstKeyframe \/ NextKeyframe \/ CloseLoop

Spec == Init /\ [][Next]_vars
=============================================================================
