--------------------- MODULE IncrementalGlobalMap_proofs ---------------------
(***************************************************************************)
(* Proofs about IncrementalGlobalMap, for every block size, threshold and  *)
(* change of the graph.  The cached pose is the pivot: the present pose is *)
(* within the threshold of it, and so is the one a keyframe is drawn at.   *)
(* Nothing is used of Block but that it is a function of the keyframe.     *)
(***************************************************************************)
EXTENDS IncrementalGlobalMap, SequenceTheorems, TLAPS

-----------------------------------------------------------------------------
(* One layer *)

LEMMA DistanceBounds ==
  ASSUME NEW p \in Int, NEW q \in Int, NEW r \in Int
  PROVE  /\ Distance(p, q) \in Int /\ Distance(p, p) = 0 /\ Distance(p, q) = Distance(q, p)
         /\ Distance(p, r) <= Distance(p, q) + Distance(q, r)
BY DEF Distance

LEMMA NotFar ==
  ASSUME NEW p \in Int, NEW q \in Int, ~(Distance(p, q) > Threshold)
  PROVE  Distance(p, q) <= Threshold /\ Distance(q, p) <= Threshold
<1> QED BY MapAssumption DEF Distance

\* The cached poses c follow the poses p of the keyframes K, the layer l them.
Follows(K, p, c, l) ==
  /\ c \in [K -> Int] /\ l \in [K -> Int]
  /\ \A k \in K : /\ Distance(c[k], p[k]) <= Threshold
                  /\ Distance(l[k], c[k]) <= Threshold

LEMMA LayerFollows ==
  ASSUME NEW K, NEW J \in SUBSET K, NEW poses \in [K -> Int],
         NEW cache \in [J -> Int], NEW layer \in [J -> Int],
         \A k \in J : Distance(layer[k], cache[k]) <= Threshold,
         NEW c, c = Cached(poses, cache),
         NEW l, l = Rebuilt(poses, BlocksOf(Dirty(poses, cache)), layer)
  PROVE  /\ Follows(K, poses, c, l)
         /\ \A k \in K : k \notin J => Block(k) \in BlocksOf(Dirty(poses, cache))
         /\ \A k \in J : l[k] \in {poses[k], layer[k]} /\ c[k] \in {poses[k], cache[k]}
<1> DEFINE dirty == Dirty(poses, cache)
<1>1. dirty \subseteq K /\ \A k \in K : k \notin J => k \in dirty
  BY DEF Dirty
<1>2. \A k \in dirty : Block(k) \in BlocksOf(dirty)
  BY DEF BlocksOf
<1>3. \A k \in K : k \notin dirty => k \in J /\ ~(Distance(cache[k], poses[k]) > Threshold)
  BY DEF Dirty, PoseChanged
<1>4. c = [k \in K |-> IF k \in dirty THEN poses[k] ELSE cache[k]]
  BY DEF Cached
<1>5. l = [k \in K |-> IF Block(k) \in BlocksOf(dirty) THEN poses[k] ELSE layer[k]]
  <2>1. {k \in DOMAIN poses : Block(k) \in BlocksOf(dirty)}
          \union {k \in DOMAIN layer : Block(k) \notin BlocksOf(dirty)} = K
    BY <1>1, <1>2
  <2> QED BY <2>1 DEF Rebuilt
<1> HIDE DEF dirty
<1>6. Threshold \in Nat
  BY MapAssumption
<1>7. c \in [K -> Int] /\ l \in [K -> Int]
  BY <1>1, <1>2, <1>3, <1>4, <1>5
<1>8. ASSUME NEW k \in K
      PROVE  Distance(c[k], poses[k]) <= Threshold /\ Distance(l[k], c[k]) <= Threshold
  <2>1. poses[k] \in Int
    OBVIOUS
  <2>2. CASE k \in dirty
    <3>1. c[k] = poses[k] /\ l[k] = poses[k]
      BY <1>2, <1>4, <1>5, <2>2
    <3>2. Distance(poses[k], poses[k]) <= Threshold
      BY <1>6, <2>1 DEF Distance
    <3> QED BY <3>1, <3>2
  <2>3. CASE k \notin dirty
    <3>1. k \in J /\ cache[k] \in Int /\ ~(Distance(cache[k], poses[k]) > Threshold)
      BY <1>3, <2>3
    <3>2. Distance(cache[k], poses[k]) <= Threshold /\ Distance(poses[k], cache[k]) <= Threshold
      BY <2>1, <3>1, NotFar
    <3>3. c[k] = cache[k] /\ l[k] \in {poses[k], layer[k]}
      BY <1>4, <1>5, <2>3
    <3> QED BY <3>1, <3>2, <3>3
  <2> QED BY <2>2, <2>3
<1>9. \A k \in K : k \notin J => Block(k) \in BlocksOf(dirty)
  BY <1>1, <1>2
<1>10. \A k \in J : l[k] \in {poses[k], layer[k]} /\ c[k] \in {poses[k], cache[k]}
  BY <1>4, <1>5
<1>11. Follows(K, poses, c, l)
  BY <1>7, <1>8 DEF Follows
<1> QED BY <1>9, <1>10, <1>11 DEF dirty

-----------------------------------------------------------------------------
(* The invariant *)

\* The keyframes whose block has an accepted refinement.
Overridden(ks, corrections) == {k \in ks : Block(k) \in BlocksOf(DOMAIN corrections)}

\* What is drawn in the overrides o, of keyframes at the poses p.
Drawn(ks, p, corrections, o) ==
  /\ DOMAIN o = Overridden(ks, corrections)
  /\ \A k \in Overridden(ks, corrections) : o[k] = Corrected(p, corrections)[k]

HistoryInv ==
  /\ T_WL \in Seq(Int) /\ graph \in Seq(Int) /\ Len(T_WL) = Len(graph)
  /\ Len(graph) <= MaxKeyframes /\ optimised \in 0 .. MaxOptimised
  /\ raw_cache = T_WL /\ raw = T_WL

OptimizedInv == Follows(Keyframes, graph, optimized_cache, optimized)

OverrideInv ==
  /\ DOMAIN override_cache \subseteq Keyframes
  /\ Drawn(Keyframes, graph, override_cache, override)
  /\ refined = Published(override, optimized)

MapInv == HistoryInv /\ OptimizedInv /\ OverrideInv

LEMMA SeqDomain ==
  ASSUME NEW q \in Seq(Int)
  PROVE  Len(q) \in Nat /\ DOMAIN q = 1 .. Len(q) /\ q \in [1 .. Len(q) -> Int]
BY LenProperties

\* A block is overridden if one of its keyframes is, whether it is asked of
\* the corrections or of what was drawn with them.
LEMMA SameBlocks ==
  ASSUME NEW K, NEW corrections, DOMAIN corrections \subseteq K
  PROVE  BlocksOf(Overridden(K, corrections)) = BlocksOf(DOMAIN corrections)
BY DEF BlocksOf, Overridden

LEMMA NothingOverridden ==
  ASSUME NEW K
  PROVE  Overridden(K, <<>>) = {}
BY DEF Overridden, BlocksOf

\* UpdateOptimized, after the graph went from n to m keyframes.
LEMMA OptimizedFollows ==
  ASSUME HistoryInv, OptimizedInv, graph' \in Seq(Int), Len(graph) <= Len(graph'),
         NEW clear, UpdateOptimized(clear)
  PROVE  /\ OptimizedInv'
         /\ \A k \in Keyframes' : k \notin Keyframes => Block(k) \in BlocksOf(Dirty(graph', optimized_cache))
<1>1. /\ Keyframes \subseteq Keyframes' /\ graph' \in [Keyframes' -> Int]
  <2>1. Len(graph) \in Nat /\ Keyframes = 1 .. Len(graph)
    BY SeqDomain DEF HistoryInv, Keyframes
  <2>2. Len(graph') \in Nat /\ Keyframes' = 1 .. Len(graph') /\ graph' \in [1 .. Len(graph') -> Int]
    BY SeqDomain DEF Keyframes
  <2> QED BY <2>1, <2>2
<1>2. /\ optimized_cache \in [Keyframes -> Int] /\ optimized \in [Keyframes -> Int]
      /\ \A k \in Keyframes : Distance(optimized[k], optimized_cache[k]) <= Threshold
  BY DEF OptimizedInv, Follows
<1>3. /\ optimized_cache' = Cached(graph', optimized_cache)
      /\ optimized' = Rebuilt(graph', BlocksOf(Dirty(graph', optimized_cache)), optimized)
  BY DEF UpdateOptimized
<1>4. /\ Follows(Keyframes', graph', optimized_cache', optimized')
      /\ \A k \in Keyframes' : k \notin Keyframes => Block(k) \in BlocksOf(Dirty(graph', optimized_cache))
  <2> SUFFICES ASSUME NEW K, K = Keyframes', NEW p, p = graph', NEW c, c = optimized_cache',
                      NEW l, l = optimized', NEW J, J = Keyframes
               PROVE  /\ Follows(K, p, c, l)
                      /\ \A k \in K : k \notin J => Block(k) \in BlocksOf(Dirty(p, optimized_cache))
    OBVIOUS
  <2>1. J \in SUBSET K /\ p \in [K -> Int]
    BY <1>1
  <2>2. /\ optimized_cache \in [J -> Int] /\ optimized \in [J -> Int]
        /\ \A k \in J : Distance(optimized[k], optimized_cache[k]) <= Threshold
    BY <1>2
  <2>3. c = Cached(p, optimized_cache) /\ l = Rebuilt(p, BlocksOf(Dirty(p, optimized_cache)), optimized)
    BY <1>3
  <2> QED BY ONLY <2>1, <2>2, <2>3, LayerFollows
<1> QED BY <1>4 DEF OptimizedInv

LEMMA OverridesRebuilt ==
  ASSUME NEW K, NEW J \in SUBSET K, NEW g \in [J -> Int], NEW h \in [K -> Int],
         \A k \in J : h[k] = g[k],
         NEW corrections, DOMAIN corrections \subseteq J,
         NEW blocks, \A k \in K : k \notin J => Block(k) \in blocks,
         NEW o, Drawn(J, g, corrections, o),
         NEW r, r = Rebuilt(Corrected(h, corrections), blocks \intersect BlocksOf(DOMAIN o), o)
  PROVE  Drawn(K, h, corrections, r)
<1>1. /\ DOMAIN o = Overridden(J, corrections) /\ BlocksOf(DOMAIN o) = BlocksOf(DOMAIN corrections)
      /\ \A k \in Overridden(J, corrections) : o[k] = Corrected(g, corrections)[k]
  BY SameBlocks DEF Drawn
<1>2. DOMAIN Corrected(h, corrections) = K
  BY DEF Corrected
<1>3. \A k \in J : Corrected(h, corrections)[k] = Corrected(g, corrections)[k]
  BY DEF Corrected
<1>4. \A k \in K : k \in Overridden(K, corrections) <=>
        \/ k \in J /\ k \in Overridden(J, corrections)
        \/ Block(k) \in blocks \intersect BlocksOf(DOMAIN corrections)
  BY DEF Overridden
<1>5. DOMAIN r = Overridden(K, corrections)
  <2>1. DOMAIN r = {k \in K : Block(k) \in blocks \intersect BlocksOf(DOMAIN corrections)}
                     \union {k \in Overridden(J, corrections) :
                               Block(k) \notin blocks \intersect BlocksOf(DOMAIN corrections)}
    BY <1>1, <1>2 DEF Rebuilt
  <2>2. Overridden(J, corrections) \subseteq J /\ Overridden(K, corrections) \subseteq K
    BY DEF Overridden
  <2> QED BY <1>4, <2>1, <2>2
<1>6. ASSUME NEW k \in Overridden(K, corrections) PROVE r[k] = Corrected(h, corrections)[k]
  <2>1. r[k] = IF Block(k) \in blocks \intersect BlocksOf(DOMAIN corrections)
               THEN Corrected(h, corrections)[k] ELSE o[k]
    BY <1>1, <1>5 DEF Rebuilt
  <2>2. CASE Block(k) \in blocks \intersect BlocksOf(DOMAIN corrections)
    BY <2>1, <2>2
  <2>3. CASE Block(k) \notin blocks \intersect BlocksOf(DOMAIN corrections)
    <3>1. k \in J /\ k \in Overridden(J, corrections)
      BY <1>4, <2>3 DEF Overridden
    <3> QED BY <1>1, <1>3, <2>1, <2>3, <3>1
  <2> QED BY <2>2, <2>3
<1> QED BY <1>5, <1>6 DEF Drawn

LEMMA OverridesDrawn ==
  ASSUME NEW K, NEW h \in [K -> Int], NEW corrections, DOMAIN corrections \subseteq K,
         NEW r, r = Rebuilt(Corrected(h, corrections), BlocksOf(DOMAIN corrections), <<>>)
  PROVE  Drawn(K, h, corrections, r)
<1>1. DOMAIN Corrected(h, corrections) = K /\ DOMAIN <<>> = {}
  BY DEF Corrected
<1>2. DOMAIN r = Overridden(K, corrections)
  BY <1>1 DEF Rebuilt, Overridden
<1>3. \A k \in Overridden(K, corrections) : Block(k) \in BlocksOf(DOMAIN corrections)
  BY DEF Overridden
<1>4. \A k \in Overridden(K, corrections) : r[k] = Corrected(h, corrections)[k]
  BY <1>2, <1>3 DEF Rebuilt
<1> QED BY <1>2, <1>4 DEF Drawn

LEMMA NothingDrawn ==
  ASSUME NEW K, NEW h
  PROVE  Drawn(K, h, <<>>, <<>>) /\ DOMAIN <<>> \subseteq K
<1>1. DOMAIN <<>> = {}
  OBVIOUS
<1> QED BY <1>1, NothingOverridden DEF Drawn

-----------------------------------------------------------------------------
(* The steps *)

LEMMA InitMapInv == Init => MapInv
<1> SUFFICES ASSUME Init PROVE MapInv
  OBVIOUS
<1>1. /\ T_WL = <<>> /\ graph = <<>> /\ optimised = 0 /\ refined = <<>>
      /\ raw_cache = <<>> /\ optimized_cache = <<>> /\ override_cache = <<>>
      /\ raw = <<>> /\ optimized = <<>> /\ override = <<>>
  BY DEF Init
<1>2. Len(<<>>) = 0 /\ <<>> \in Seq(Int) /\ DOMAIN <<>> = {} /\ <<>> \in [{} -> Int]
  BY EmptySeq
<1>3. HistoryInv
  BY <1>1, <1>2, MapAssumption DEF HistoryInv
<1>4. OptimizedInv
  BY <1>1, <1>2 DEF OptimizedInv, Follows, Keyframes
<1>5. Drawn(Keyframes, graph, override_cache, override) /\ DOMAIN override_cache \subseteq Keyframes
  BY <1>1, NothingDrawn
<1>6. refined = Published(override, optimized)
  <2>1. Published(<<>>, <<>>) = [k \in {} |-> IF k \in DOMAIN <<>> THEN <<>>[k] ELSE <<>>[k]]
    BY <1>2 DEF Published
  <2>2. [k \in {} |-> IF k \in DOMAIN <<>> THEN <<>>[k] ELSE <<>>[k]] = <<>>
    OBVIOUS
  <2> QED BY <1>1, <2>1, <2>2
<1> QED BY <1>3, <1>4, <1>5, <1>6 DEF MapInv, OverrideInv

LEMMA RawExact ==
  ASSUME NEW q \in Seq(Int), NEW r \in Seq(Int), Len(q) <= Len(r),
         \A k \in 1 .. Len(q) : r[k] = q[k]
  PROVE  Cached(r, q) = r /\ Rebuilt(r, BlocksOf(Dirty(r, q)), q) = r
<1>1. /\ Len(q) \in Nat /\ Len(r) \in Nat /\ DOMAIN q = 1 .. Len(q) /\ DOMAIN r = 1 .. Len(r)
      /\ r \in [1 .. Len(r) -> Int]
  BY SeqDomain
<1>2. DOMAIN q \subseteq DOMAIN r
  BY <1>1
<1>3. \A k \in DOMAIN r : k \notin DOMAIN q => k \in Dirty(r, q) /\ Block(k) \in BlocksOf(Dirty(r, q))
  BY DEF Dirty, BlocksOf
<1>4. r = [k \in DOMAIN r |-> r[k]]
  BY <1>1
<1>5. Cached(r, q) = [k \in DOMAIN r |-> r[k]]
  <2>1. \A k \in DOMAIN r : (IF k \in Dirty(r, q) THEN r[k] ELSE q[k]) = r[k]
    BY <1>1, <1>3
  <2> QED BY <2>1 DEF Cached
<1>6. Rebuilt(r, BlocksOf(Dirty(r, q)), q) = [k \in DOMAIN r |-> r[k]]
  <2>1. {k \in DOMAIN r : Block(k) \in BlocksOf(Dirty(r, q))}
          \union {k \in DOMAIN q : Block(k) \notin BlocksOf(Dirty(r, q))} = DOMAIN r
    BY <1>2, <1>3
  <2>2. \A k \in DOMAIN r : (IF Block(k) \in BlocksOf(Dirty(r, q)) THEN r[k] ELSE q[k]) = r[k]
    BY <1>1, <1>3
  <2> QED BY <2>1, <2>2 DEF Rebuilt
<1> QED BY <1>4, <1>5, <1>6

\* A call of UpdateIncrementalGlobalMaps, after which both histories are longer
\* or as long; without clear the old part of the graph is as it was.
LEMMA UpdateMapsKeeps ==
  ASSUME MapInv, NEW clear \in BOOLEAN, UpdateMaps(clear),
         T_WL' \in Seq(Int), graph' \in Seq(Int), Len(T_WL') = Len(graph'),
         Len(graph) <= Len(graph'), Len(graph') <= MaxKeyframes, optimised' \in 0 .. MaxOptimised,
         \A k \in 1 .. Len(T_WL) : T_WL'[k] = T_WL[k],
         ~clear => \A k \in 1 .. Len(graph) : graph'[k] = graph[k]
  PROVE  MapInv'
<1>1. HistoryInv /\ OptimizedInv /\ OverrideInv /\ UpdateRaw /\ UpdateOptimized(clear)
  BY DEF MapInv, UpdateMaps
<1>2. /\ T_WL \in Seq(Int) /\ graph \in Seq(Int) /\ Len(T_WL) = Len(graph)
      /\ raw_cache = T_WL /\ raw = T_WL
  BY <1>1 DEF HistoryInv
<1>3. HistoryInv'
  <2>1. raw_cache' = T_WL' /\ raw' = T_WL'
    BY <1>1, <1>2, RawExact DEF UpdateRaw
  <2> QED BY <2>1 DEF HistoryInv
<1>4. /\ OptimizedInv'
      /\ \A k \in Keyframes' : k \notin Keyframes => Block(k) \in BlocksOf(Dirty(graph', optimized_cache))
  BY <1>1, OptimizedFollows
<1>5. /\ Len(graph) \in Nat /\ Keyframes = 1 .. Len(graph) /\ graph \in [Keyframes -> Int]
      /\ Len(graph') \in Nat /\ Keyframes' = 1 .. Len(graph') /\ graph' \in [Keyframes' -> Int]
  <2>1. Len(graph) \in Nat /\ Keyframes = 1 .. Len(graph) /\ graph \in [Keyframes -> Int]
    BY <1>2, SeqDomain DEF Keyframes
  <2>2. Len(graph') \in Nat /\ Keyframes' = 1 .. Len(graph') /\ graph' \in [1 .. Len(graph') -> Int]
    BY SeqDomain DEF Keyframes
  <2> QED BY <2>1, <2>2
<1>6. Keyframes \subseteq Keyframes'
  BY <1>5
<1>7. /\ Drawn(Keyframes', graph', override_cache', override')
      /\ DOMAIN override_cache' \subseteq Keyframes'
  <2> SUFFICES ASSUME NEW K, K = Keyframes', NEW h, h = graph', NEW o, o = override'
               PROVE  Drawn(K, h, override_cache', o) /\ DOMAIN override_cache' \subseteq K
    OBVIOUS
  <2>1. CASE clear
    <3>1. override_cache' = <<>> /\ o = <<>>
      BY <1>1, <2>1 DEF UpdateOptimized
    <3> QED BY <3>1, NothingDrawn
  <2>2. CASE ~clear
    <3>1. /\ override_cache' = override_cache
          /\ o = Rebuilt(Corrected(h, override_cache),
                         BlocksOf(Dirty(h, optimized_cache)) \intersect BlocksOf(DOMAIN override), override)
      BY <1>1, <2>2 DEF UpdateOptimized
    <3>2. DOMAIN override_cache \subseteq Keyframes /\ Drawn(Keyframes, graph, override_cache, override)
      BY <1>1 DEF OverrideInv
    <3>3. /\ Keyframes \in SUBSET K /\ graph \in [Keyframes -> Int] /\ h \in [K -> Int]
          /\ \A k \in Keyframes : h[k] = graph[k]
      BY <1>5, <1>6, <2>2
    <3>4. \A k \in K : k \notin Keyframes => Block(k) \in BlocksOf(Dirty(h, optimized_cache))
      BY <1>4
    <3>5. Drawn(K, h, override_cache, o)
      <4> SUFFICES ASSUME NEW b, b = BlocksOf(Dirty(h, optimized_cache)), NEW c, c = override_cache,
                          NEW d, d = override, NEW J, J = Keyframes, NEW g, g = graph
                   PROVE  Drawn(K, h, c, o)
        OBVIOUS
      <4>1. o = Rebuilt(Corrected(h, c), b \intersect BlocksOf(DOMAIN d), d)
        BY <3>1
      <4>2. DOMAIN c \subseteq J /\ Drawn(J, g, c, d)
        BY <3>2
      <4>3. \A k \in K : k \notin J => Block(k) \in b
        BY <3>4
      <4>4. J \in SUBSET K /\ g \in [J -> Int] /\ h \in [K -> Int] /\ \A k \in J : h[k] = g[k]
        BY <3>3
      <4> QED BY ONLY <4>1, <4>2, <4>3, <4>4, OverridesRebuilt, SMTT(30)
    <3> QED BY <3>1, <3>2, <3>3, <3>5
  <2> QED BY <2>1, <2>2
<1>8. refined' = Published(override', optimized')
  BY <1>1 DEF UpdateOptimized
<1> QED BY <1>3, <1>4, <1>7, <1>8 DEF MapInv, OverrideInv

LEMMA Appended ==
  ASSUME NEW q \in Seq(Int), NEW e \in Int, NEW r, r = Append(q, e)
  PROVE  /\ r \in Seq(Int) /\ Len(r) = Len(q) + 1 /\ Len(q) \in Nat
         /\ \A k \in 1 .. Len(q) : r[k] = q[k]
BY AppendProperties, LenProperties

LEMMA NewKeyframeKeeps ==
  ASSUME MapInv, NEW step \in Steps, NewKeyframe(step)
  PROVE  MapInv'
<1>1. /\ T_WL \in Seq(Int) /\ graph \in Seq(Int) /\ Len(T_WL) = Len(graph)
      /\ optimised \in 0 .. MaxOptimised
  BY DEF MapInv, HistoryInv
<1>2. step \in Int /\ MaxKeyframes \in Nat
  BY MapAssumption
<1>3. ASSUME NEW q \in Seq(Int) PROVE (IF q = <<>> THEN 0 ELSE Last(q) + step) \in Int
  <2>1. CASE q # <<>>
    <3>1. Len(q) \in 1 .. Len(q)
      BY <2>1, LenProperties, EmptySeq
    <3>2. q[Len(q)] \in Int
      BY <3>1, ElementOfSeq
    <3> QED BY <1>2, <2>1, <3>2 DEF Last
  <2> QED BY <2>1
<1>4. /\ T_WL' \in Seq(Int) /\ Len(T_WL') = Len(T_WL) + 1 /\ Len(T_WL) \in Nat
      /\ \A k \in 1 .. Len(T_WL) : T_WL'[k] = T_WL[k]
  BY <1>1, <1>3, Appended DEF NewKeyframe
<1>5. /\ graph' \in Seq(Int) /\ Len(graph') = Len(graph) + 1 /\ Len(graph) \in Nat
      /\ \A k \in 1 .. Len(graph) : graph'[k] = graph[k]
  BY <1>1, <1>3, Appended DEF NewKeyframe
<1>6. /\ Len(graph) < MaxKeyframes /\ optimised' = optimised /\ UpdateMaps(FALSE)
  BY DEF NewKeyframe
<1>7. /\ Len(T_WL') = Len(graph') /\ Len(graph) <= Len(graph') /\ Len(graph') <= MaxKeyframes
  BY <1>1, <1>2, <1>4, <1>5, <1>6
<1> QED BY <1>1, <1>4, <1>5, <1>6, <1>7, UpdateMapsKeeps

LEMMA OptimiseKeeps ==
  ASSUME MapInv, NEW move \in [DOMAIN graph -> Moves], Optimise(move)
  PROVE  MapInv'
<1>1. /\ T_WL \in Seq(Int) /\ graph \in Seq(Int) /\ Len(T_WL) = Len(graph)
      /\ optimised \in 0 .. MaxOptimised /\ Len(graph) <= MaxKeyframes
  BY DEF MapInv, HistoryInv
<1>2. Len(graph) \in Nat /\ DOMAIN graph = 1 .. Len(graph) /\ graph \in [1 .. Len(graph) -> Int]
  BY <1>1, SeqDomain
<1>3. graph' = [k \in 1 .. Len(graph) |-> graph[k] + move[k]]
  BY <1>2 DEF Optimise
<1>4. \A k \in 1 .. Len(graph) : graph[k] + move[k] \in Int
  <2>1. \A k \in 1 .. Len(graph) : graph[k] \in Int /\ move[k] \in Moves
    BY <1>2
  <2>2. Moves \subseteq Int
    BY MapAssumption
  <2>3. \A k \in 1 .. Len(graph) : graph[k] \in Int /\ move[k] \in Int
    BY ONLY <2>1, <2>2
  <2> QED BY ONLY <2>3
<1>5. graph' \in Seq(Int) /\ Len(graph') = Len(graph)
  <2>1. graph' \in [1 .. Len(graph) -> Int]
    BY <1>3, <1>4
  <2> QED BY <1>2, <2>1, SeqDef, LenProperties
<1>6. T_WL' = T_WL /\ optimised' \in 0 .. MaxOptimised /\ UpdateMaps(TRUE)
  <2>1. /\ T_WL' = T_WL /\ UpdateMaps(TRUE)
        /\ optimised < MaxOptimised /\ optimised' = optimised + 1
    BY DEF Optimise
  <2>2. MaxOptimised \in Nat /\ optimised \in 0 .. MaxOptimised
    BY <1>1, MapAssumption
  <2>3. optimised' \in 0 .. MaxOptimised
    BY ONLY <2>1, <2>2
  <2> QED BY <2>1, <2>3
<1>7. Len(graph) <= Len(graph')
  BY <1>2, <1>5
<1> QED BY <1>1, <1>5, <1>6, <1>7, UpdateMapsKeeps

LEMMA CommitKeeps ==
  ASSUME MapInv, NEW adjusted \in SUBSET DOMAIN graph, NEW move \in [adjusted -> Corrections],
         CommitRefinement(move)
  PROVE  MapInv'
<1>1. HistoryInv /\ OptimizedInv /\ graph \in Seq(Int)
  BY DEF MapInv, HistoryInv
<1>2. /\ UNCHANGED <<T_WL, graph, optimised, raw_cache, optimized_cache, raw, optimized>>
      /\ override_cache' = [k \in adjusted |-> graph[k] + move[k]]
      /\ override' = Rebuilt(Corrected(graph, override_cache'), BlocksOf(DOMAIN override_cache'), <<>>)
      /\ refined' = Published(override', optimized)
  BY DEF CommitRefinement, UpdateRefinedOverrides
<1>3. Keyframes = DOMAIN graph /\ graph \in [Keyframes -> Int]
  BY <1>1, SeqDomain DEF Keyframes
<1>4. DOMAIN override_cache' \subseteq Keyframes
  BY <1>2, <1>3
<1>5. Drawn(Keyframes, graph, override_cache', override')
  <2> SUFFICES ASSUME NEW c, c = override_cache', NEW o, o = override'
               PROVE  Drawn(Keyframes, graph, c, o)
    OBVIOUS
  <2>1. DOMAIN c \subseteq Keyframes /\ o = Rebuilt(Corrected(graph, c), BlocksOf(DOMAIN c), <<>>)
    BY <1>2, <1>4
  <2> QED BY ONLY <1>3, <2>1, OverridesDrawn
<1>6. Keyframes' = Keyframes
  BY <1>2 DEF Keyframes
<1>7. HistoryInv' /\ OptimizedInv'
  BY <1>1, <1>2, <1>6 DEF HistoryInv, OptimizedInv
<1> QED BY <1>2, <1>4, <1>5, <1>6, <1>7 DEF MapInv, OverrideInv

LEMMA MapInvNext == MapInv /\ [Next]_vars => MapInv'
<1> SUFFICES ASSUME MapInv, [Next]_vars PROVE MapInv'
  OBVIOUS
<1>1. CASE Reset
  <2>1. Init'
    BY <1>1 DEF Reset, Init
  <2> QED BY <2>1, InitMapInv, PTL
<1>2. CASE UNCHANGED vars
  <2>1. /\ UNCHANGED <<T_WL, graph, optimised, raw_cache, optimized_cache, override_cache>>
        /\ UNCHANGED <<raw, optimized, override, refined>>
    BY <1>2 DEF vars, caches, layers
  <2>2. Keyframes' = Keyframes
    BY <2>1 DEF Keyframes
  <2> QED BY <2>1, <2>2 DEF MapInv, HistoryInv, OptimizedInv, OverrideInv
<1> QED BY <1>1, <1>2, NewKeyframeKeeps, OptimiseKeeps, CommitKeeps DEF Next

\* The cached poses follow the graph and the layers the cached poses.
THEOREM MapInvariant == Spec => []MapInv
<1> QED BY InitMapInv, MapInvNext, PTL DEF Spec

-----------------------------------------------------------------------------
(* The properties *)

LEMMA InvMapType == MapInv => MapTypeOK
<1> SUFFICES ASSUME MapInv PROVE MapTypeOK
  OBVIOUS
<1>1. HistoryInv /\ OptimizedInv /\ OverrideInv
  BY DEF MapInv
<1>2. T_WL \in [Keyframes -> Int]
  <2>1. DOMAIN graph = 1 .. Len(graph) /\ T_WL \in [1 .. Len(T_WL) -> Int] /\ Len(T_WL) = Len(graph)
    BY <1>1, SeqDomain DEF HistoryInv
  <2> QED BY <2>1 DEF Keyframes
<1>3. optimized_cache \in [Keyframes -> Int]
  BY <1>1 DEF OptimizedInv, Follows
<1>4. DOMAIN override_cache \subseteq Keyframes /\ DOMAIN override \subseteq Keyframes
  BY <1>1 DEF OverrideInv, Drawn, Overridden
<1> QED BY <1>1, <1>2, <1>3, <1>4 DEF HistoryInv, MapTypeOK

\* Every variable has its type, and there are no poses, caches or corrections
\* but of keyframes that are there.
THEOREM MapTypeCorrect == Spec => []MapTypeOK
<1> QED BY MapInvariant, InvMapType, PTL

LEMMA TwiceTheThreshold ==
  ASSUME NEW p \in Int, NEW q \in Int, NEW r \in Int,
         Distance(p, q) <= Threshold, Distance(q, r) <= Threshold
  PROVE  Distance(p, r) <= 2 * Threshold
<1>1. Threshold \in Nat
  BY MapAssumption
<1> QED BY <1>1 DEF Distance

LEMMA InvFollows == MapInv => MapFollowsGraph
<1> SUFFICES ASSUME MapInv PROVE MapFollowsGraph
  OBVIOUS
<1>1. raw = T_WL /\ graph \in Seq(Int) /\ Follows(Keyframes, graph, optimized_cache, optimized)
  BY DEF MapInv, HistoryInv, OptimizedInv
<1>2. graph \in [Keyframes -> Int]
  BY <1>1, SeqDomain DEF Keyframes
<1>3. ASSUME NEW k \in Keyframes
      PROVE  /\ Distance(optimized_cache[k], graph[k]) <= Threshold
             /\ Distance(optimized[k], graph[k]) <= 2 * Threshold
  <2>1. graph[k] \in Int /\ optimized_cache[k] \in Int /\ optimized[k] \in Int
    BY <1>1, <1>2 DEF Follows
  <2>2. /\ Distance(optimized_cache[k], graph[k]) <= Threshold
        /\ Distance(optimized[k], optimized_cache[k]) <= Threshold
    BY <1>1 DEF Follows
  <2> QED BY <2>1, <2>2, TwiceTheThreshold
<1>4. DOMAIN optimized = Keyframes
  BY <1>1 DEF Follows
<1> QED BY <1>1, <1>3, <1>4 DEF MapFollowsGraph

\* However often the graph moves below the threshold, what is drawn stays
\* within twice the threshold of it.
THEOREM MapFollows == Spec => []MapFollowsGraph
<1> QED BY MapInvariant, InvFollows, PTL

LEMMA InvOverrides == MapInv => RefinedShowsOverrides
<1> SUFFICES ASSUME MapInv PROVE RefinedShowsOverrides
  OBVIOUS
<1>1. /\ OverrideInv /\ DOMAIN optimized = Keyframes
      /\ DOMAIN override_cache \subseteq Keyframes
      /\ DOMAIN override = Overridden(Keyframes, override_cache)
      /\ \A k \in Overridden(Keyframes, override_cache) : override[k] = Corrected(graph, override_cache)[k]
      /\ refined = Published(override, optimized)
  BY DEF MapInv, OptimizedInv, Follows, OverrideInv, Drawn
<1>2. BlocksOf(DOMAIN override) = BlocksOf(DOMAIN override_cache)
  BY <1>1, SameBlocks
<1>3. \A k \in Keyframes : k \in DOMAIN override <=> Block(k) \in BlocksOf(DOMAIN override_cache)
  BY <1>1 DEF Overridden
<1>4. DOMAIN refined = Keyframes
  <2>1. DOMAIN override \subseteq Keyframes
    BY <1>1 DEF Overridden
  <2>2. DOMAIN override \union {k \in Keyframes : Block(k) \notin BlocksOf(DOMAIN override)} = Keyframes
    BY <1>2, <1>3, <2>1
  <2> QED BY <1>1, <2>2 DEF Published
<1>5. \A k \in Keyframes : refined[k] = IF k \in DOMAIN override THEN override[k] ELSE optimized[k]
  BY <1>1, <1>4 DEF Published
<1>6. \A k \in DOMAIN override_cache : k \in DOMAIN override
  BY <1>1, <1>3 DEF BlocksOf
<1>7. ASSUME NEW k \in Keyframes
      PROVE  refined[k] = IF k \in DOMAIN override_cache THEN override_cache[k]
                          ELSE IF Block(k) \in BlocksOf(DOMAIN override_cache) THEN graph[k]
                          ELSE optimized[k]
  <2>1. CASE k \in DOMAIN override
    <3>1. k \in Overridden(Keyframes, override_cache) /\ refined[k] = Corrected(graph, override_cache)[k]
      BY <1>1, <1>5, <2>1
    <3>2. Corrected(graph, override_cache)[k] =
            IF k \in DOMAIN override_cache THEN override_cache[k] ELSE graph[k]
      BY DEF Corrected, Keyframes
    <3> QED BY <1>3, <2>1, <3>1, <3>2
  <2>2. CASE k \notin DOMAIN override
    BY <1>3, <1>5, <1>6, <2>2
  <2> QED BY <2>1, <2>2
<1> QED BY <1>4, <1>7 DEF RefinedShowsOverrides

\* The refined map is complete, and every block with a refinement in it is
\* drawn from the refinement and the present graph alone.
THEOREM OverridesShown == Spec => []RefinedShowsOverrides
<1> QED BY MapInvariant, InvOverrides, PTL
=============================================================================
