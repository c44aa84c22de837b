---------------------------- MODULE MCLidarQueue ----------------------------
(* TLC instances of LidarQueue; the other constants are given in the cfg files. *)
EXTENDS LidarQueue

\* One scan without point times, one whose points begin before its stamp, one of
\* no duration, and some that overlap, follow or precede each other.
MCScans ==
  {[first |-> f[1], start |-> f[2], end |-> f[3]] :
     f \in {<<0, 1, 1>>, <<1, 2, 3>>, <<1, 1, 1>>, <<1, 1, 2>>, <<1, 1, 3>>,
              <<2, 2, 3>>, <<2, 3, 3>>}}

\* Scans for a run in which only the end of the node matters.
ShortScans == {[first |-> 1, start |-> 1, end |-> t] : t \in Stamps}
=============================================================================
