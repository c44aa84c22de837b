------------------------ MODULE IncrementalGlobalMap ------------------------
(***************************************************************************)
(* The cache of the global map (incremental_global_map.hpp), as the        *)
(* backend thread uses it.  Keyframes are grouped in blocks by their id;   *)
(* a call compares their poses with cached ones, and a block is rebuilt if *)
(* one of its keyframes has moved beyond a threshold.                      *)
(*                                                                         *)
(* A pose is a position on a line, a cloud the poses its keyframes were    *)
(* drawn at.  Every keyframe has a cloud and a finite pose: the submaps    *)
(* refuse one without points, and the backend stops at the first pose that *)
(* is not finite.                                                          *)
(***************************************************************************)
EXTENDS Integers, Sequences

CONSTANTS
  BlockSize,     \* keyframes_per_block_, as the constructor leaves it
  Threshold,     \* pose_translation_dirty_threshold_
  Steps,         \* from one keyframe to the next
  Moves,         \* what an optimisation does to a pose
  Corrections,   \* what a refinement does to it
  MaxKeyframes,  \* bound: keyframes
  MaxOptimised   \* bound: optimisations

ASSUME MapAssumption ==
  /\ BlockSize \in Nat /\ BlockSize >= 1 /\ Threshold \in Nat
  /\ Steps \subseteq Int /\ Moves \subseteq Int /\ Corrections \subseteq Int
  /\ MaxKeyframes \in Nat /\ MaxOptimised \in Nat

VARIABLES
  T_WL,             \* backend_keyframes_: the frontend's pose of each, ids from 1
  graph,            \* pose_graph_: the optimised pose of each
  optimised,        \* number of optimisations
  raw_cache,        \* raw_pose_cache_, where valid
  optimized_cache,  \* optimized_pose_cache_, where valid
  override_cache,   \* refined_pose_override_cache_, where valid
  raw,              \* what is drawn in the raw clouds of blocks_
  optimized,        \* in the optimized clouds
  override,         \* in the refined_override clouds
  refined           \* in refined_map_

caches == <<raw_cache, optimized_cache, override_cache>>
layers == <<raw, optimized, override, refined>>
vars   == <<T_WL, graph, optimised, caches, layers>>

Block(k)       == k \div BlockSize
BlocksOf(ks)   == {Block(k) : k \in ks}
Distance(p, q) == IF p < q THEN q - p ELSE p - q

Init ==
  /\ T_WL = <<>> /\ graph = <<>> /\ optimised = 0
  /\ raw_cache = <<>> /\ optimized_cache = <<>> /\ override_cache = <<>>
  /\ raw = <<>> /\ optimized = <<>> /\ override = <<>> /\ refined = <<>>

PoseChanged(old, new) == Distance(old, new) > Threshold

Dirty(poses, cache) ==
  {k \in DOMAIN poses : k \in DOMAIN cache => PoseChanged(cache[k], poses[k])}

\* Mutant: a pose is cached whether or not its block is rebuilt.
CachedAlways(poses, cache) == poses

\* DetectDirtyBlocks leaves the pose of a keyframe that is not dirty as it was.
Cached(poses, cache) ==
  [k \in DOMAIN poses |-> IF k \in Dirty(poses, cache) THEN poses[k] ELSE cache[k]]

\* RebuildDirtyBlocks: a rebuilt block has its keyframes at their present poses.
Rebuilt(poses, blocks, layer) ==
  [k \in {k \in DOMAIN poses : Block(k) \in blocks}
           \union {k \in DOMAIN layer : Block(k) \notin blocks} |->
     IF Block(k) \in blocks THEN poses[k] ELSE layer[k]]

Corrected(poses, corrections) ==
  [k \in DOMAIN poses |-> IF k \in DOMAIN corrections THEN corrections[k] ELSE poses[k]]

\* BuildPublishedMap of the refined layer: where a block has no override, its
\* optimized cloud is shown.
Published(over, base) ==
  [k \in DOMAIN over \union {k \in DOMAIN base : Block(k) \notin BlocksOf(DOMAIN over)} |->
     IF k \in DOMAIN over THEN over[k] ELSE base[k]]

UpdateRaw ==
  /\ raw_cache' = Cached(T_WL', raw_cache)
  /\ raw' = Rebuilt(T_WL', BlocksOf(Dirty(T_WL', raw_cache)), raw)

\* Mutant: the overrides stay as they are when a keyframe joins their block.
UpdateOptimizedOnly(clear) ==
  LET dirty == BlocksOf(Dirty(graph', optimized_cache))
  IN /\ optimized_cache' = Cached(graph', optimized_cache)
     /\ optimized' = Rebuilt(graph', dirty, optimized)
     /\ override_cache' = IF clear THEN <<>> ELSE override_cache
     /\ override' = IF clear THEN <<>> ELSE override
     /\ refined' = Published(override', optimized')

\* The overrides are dropped (clear), or those of the dirty blocks are rebuilt.
UpdateOptimized(clear) ==
  LET dirty == BlocksOf(Dirty(graph', optimized_cache))
  IN /\ optimized_cache' = Cached(graph', optimized_cache)
     /\ optimized' = Rebuilt(graph', dirty, optimized)
     /\ override_cache' = IF clear THEN <<>> ELSE override_cache
     /\ override' = IF clear THEN <<>>
                    ELSE Rebuilt(Corrected(graph', override_cache),
                                 dirty \intersect BlocksOf(DOMAIN override), override)
     /\ refined' = Published(override', optimized')

UpdateMaps(clear) == UpdateRaw /\ UpdateOptimized(clear)

\* UpdateRefinedOverrides: the old overrides go, the blocks of the adjusted
\* keyframes are drawn with the new ones.
UpdateRefinedOverrides(corrections) ==
  /\ override_cache' = corrections
  /\ override' = Rebuilt(Corrected(graph, corrections), BlocksOf(DOMAIN corrections), <<>>)
  /\ refined' = Published(override', optimized)
  /\ UNCHANGED <<raw_cache, optimized_cache, raw, optimized>>

-----------------------------------------------------------------------------
(* The backend thread *)

Last(q) == q[Len(q)]

\* A keyframe enters the graph behind its predecessor, by the odometry.
NewKeyframe(step) ==
  /\ Len(graph) < MaxKeyframes
  /\ T_WL' = Append(T_WL, IF T_WL = <<>> THEN 0 ELSE Last(T_WL) + step)
  /\ graph' = Append(graph, IF graph = <<>> THEN 0 ELSE Last(graph) + step)
  /\ UNCHANGED optimised
  /\ UpdateMaps(FALSE)

\* A loop was accepted; the first keyframe is fixed.
Optimise(move) ==
  /\ optimised < MaxOptimised /\ optimised' = optimised + 1
  /\ move[1] = 0
  /\ graph' = [k \in DOMAIN graph |-> graph[k] + move[k]]
  /\ UNCHANGED T_WL
  /\ UpdateMaps(TRUE)

\* A refinement of the present graph, computed here or by the other thread.
CommitRefinement(move) ==
  /\ UpdateRefinedOverrides([k \in DOMAIN move |-> graph[k] + move[k]])
  /\ UNCHANGED <<T_WL, graph, optimised>>

\* Mutant: the overrides' poses outlive the session.
ResetKeepsOverrides ==
  /\ graph # <<>>
  /\ T_WL' = <<>> /\ graph' = <<>> /\ optimised' = 0
  /\ raw_cache' = <<>> /\ optimized_cache' = <<>> /\ override_cache' = override_cache
  /\ raw' = <<>> /\ optimized' = <<>> /\ override' = <<>> /\ refined' = <<>>

\* The session starts again; Clear.
Reset ==
  /\ graph # <<>>
  /\ T_WL' = <<>> /\ graph' = <<>> /\ optimised' = 0
  /\ raw_cache' = <<>> /\ optimized_cache' = <<>> /\ override_cache' = <<>>
  /\ raw' = <<>> /\ optimized' = <<>> /\ override' = <<>> /\ refined' = <<>>

Next ==
  \/ \E step \in Steps : NewKeyframe(step)
  \/ graph # <<>> /\ \E move \in [DOMAIN graph -> Moves] : Optimise(move)
  \/ \E adjusted \in SUBSET DOMAIN graph : \E move \in [adjusted -> Corrections] : CommitRefinement(move)
  \/ Reset

Spec == Init /\ [][Next]_vars

-----------------------------------------------------------------------------
(* Properties *)

Keyframes == DOMAIN graph

\* Every variable has its type; graph and history have the same length.
MapTypeOK ==
  /\ T_WL \in Seq(Int) /\ graph \in Seq(Int) /\ Len(T_WL) = Len(graph)
  /\ Len(graph) <= MaxKeyframes /\ optimised \in 0 .. MaxOptimised
  /\ raw_cache \in [Keyframes -> Int] /\ optimized_cache \in [Keyframes -> Int]
  /\ DOMAIN override_cache \subseteq Keyframes /\ DOMAIN override \subseteq Keyframes

\* loop_closure.cpp:9505: only blocks with a pose changed beyond the gate are
\* rebuilt. Each keyframe is drawn, once, and however many small changes there
\* were, at most twice the threshold from where it is: it may be drawn at one
\* side of the cached pose, because a neighbour moved, and be at the other.
MapFollowsGraph ==
  /\ DOMAIN optimized = Keyframes /\ raw = T_WL
  /\ \A k \in Keyframes :
       /\ Distance(optimized_cache[k], graph[k]) <= Threshold
       /\ Distance(optimized[k], graph[k]) <= 2 * Threshold

\* incremental_global_map.hpp:180: the refined map shows every keyframe; in a
\* block with an accepted refinement each at its refined or else its present
\* pose, also those that came later, and elsewhere as the optimized map does.
RefinedShowsOverrides ==
  /\ DOMAIN refined = Keyframes
  /\ \A k \in Keyframes :
       refined[k] = IF k \in DOMAIN override_cache THEN override_cache[k]
                    ELSE IF Block(k) \in BlocksOf(DOMAIN override_cache) THEN graph[k]
                    ELSE optimized[k]
=============================================================================
