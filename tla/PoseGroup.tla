------------------------------ MODULE PoseGroup ------------------------------
(***************************************************************************)
(* Rigid transformations (Eigen::Isometry3d), of which the backend uses    *)
(* the product and the inverse only: a group, not a commutative one.       *)
(***************************************************************************)
CONSTANTS
  Pose,      \* the transformations
  Mul(_, _), \* composition, A * B
  Inv(_),    \* A.inverse()
  Id         \* Isometry3d::Identity()

ASSUME PoseAssumption ==
  /\ Id \in Pose
  /\ \A a \in Pose : Inv(a) \in Pose
  /\ \A a \in Pose, b \in Pose : Mul(a, b) \in Pose
  /\ \A a \in Pose, b \in Pose, c \in Pose : Mul(Mul(a, b), c) = Mul(a, Mul(b, c))
  /\ \A a \in Pose : Mul(Id, a) = a /\ Mul(a, Id) = a
  /\ \A a \in Pose : Mul(Inv(a), a) = Id /\ Mul(a, Inv(a)) = Id

\* The pose of b seen from a.
Between(a, b) == Mul(Inv(a), b)
=============================================================================
