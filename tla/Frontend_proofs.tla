--------------------------- MODULE Frontend_proofs ---------------------------
(***************************************************************************)
(* Proofs about Frontend and SubmapManager, for every configuration of the *)
(* submaps and any number of scans. A call of AddKeyframe is followed in   *)
(* its three steps, which all keep the shape of the submaps: a growing one *)
(* may be begun, the keyframe is inserted, the growing one is promoted.    *)
(***************************************************************************)
EXTENDS Frontend, FiniteSetTheorems, SequenceTheorems, TLAPS

\* What the constructor makes of a configuration.
Clamped(cf) ==
  /\ cf \in [size : Nat, overlap : Nat]
  /\ cf.overlap \in 1 .. cf.size - 1

\* How far a growing submap stays behind: what is left beyond the overlap or,
\* behind a promoted submap that holds more than that already, the overlap.
Lags(cf) == {cf.size - cf.overlap, cf.overlap}

Precedes(A, B) == \A k \in A \ B : \A l \in B : k < l

\* The growing submap G has the newest keyframes of the primary submap A.
Beside(A, G, cf) ==
  /\ G \subseteq A
  /\ Cardinality(A) - Cardinality(G) \in Lags(cf)
  /\ Precedes(A, G)

\* The finished submap A and the one after it.
Overlap(A, B, cf) ==
  /\ Cardinality(A) = cf.size
  /\ Cardinality(A \intersect B) \in Lags(cf)
  /\ Precedes(A, B)
  /\ \A k \in A : \A l \in B \ A : k < l

\* The submaps c with primary a and growing g, after n keyframes.
Shape(c, a, g, n, cf) ==
  /\ c \in Seq(SUBSET (1 .. n))
  /\ a \in 1 .. Len(c) /\ g \in {0, a + 1}
  /\ Len(c) = IF g = 0 THEN a ELSE g
  /\ Cardinality(c[a]) < cf.size
  /\ IF g = 0 THEN Cardinality(c[a]) \in (0 .. cf.size - cf.overlap) \union Lags(cf)
     ELSE Beside(c[a], c[g], cf)
  /\ \A i \in 1 .. a - 1 : Overlap(c[i], c[i + 1], cf)

-----------------------------------------------------------------------------
(* Sets of keyframes *)

LEMMA NewestAdded ==
  ASSUME NEW n \in Nat, NEW A \in SUBSET (1 .. n)
  PROVE  /\ IsFiniteSet(A) /\ Cardinality(A) \in Nat
         /\ n + 1 \notin A /\ A \union {n + 1} \in SUBSET (1 .. n + 1)
         /\ Cardinality(A \union {n + 1}) = Cardinality(A) + 1
<1>0. IsFiniteSet(1 .. n)
  BY FS_Interval
<1>1. IsFiniteSet(A)
  BY <1>0, FS_Subset
<1>2. n + 1 \notin A /\ A \union {n + 1} \in SUBSET (1 .. n + 1)
  OBVIOUS
<1>3. Cardinality(A) \in Nat
  BY <1>1, FS_CardinalityType
<1>4. Cardinality(A \union {n + 1}) = IF n + 1 \in A THEN Cardinality(A) ELSE Cardinality(A) + 1
  BY <1>1, FS_AddElement, Zenon
<1> QED BY <1>1, <1>2, <1>3, <1>4

LEMMA BesideGrows ==
  ASSUME NEW n \in Nat, NEW A \in SUBSET (1 .. n), NEW G, NEW cf, Clamped(cf),
         Beside(A, G, cf)
  PROVE  Beside(A \union {n + 1}, G \union {n + 1}, cf)
<1>1. G \in SUBSET (1 .. n)
  BY DEF Beside
<1>2. (A \union {n + 1}) \ (G \union {n + 1}) = A \ G
  BY NewestAdded
<1>3. \A k \in A \ G : k < n + 1
  OBVIOUS
<1>4. Precedes(A \union {n + 1}, G \union {n + 1})
  BY <1>2, <1>3 DEF Beside, Precedes
<1>5. Cardinality(A \union {n + 1}) - Cardinality(G \union {n + 1})
        = Cardinality(A) - Cardinality(G)
  <2>1. /\ Cardinality(A) \in Nat
        /\ Cardinality(A \union {n + 1}) = Cardinality(A) + 1
    BY NewestAdded
  <2>2. /\ Cardinality(G) \in Nat
        /\ Cardinality(G \union {n + 1}) = Cardinality(G) + 1
    BY <1>1, NewestAdded
  <2> QED BY <2>1, <2>2
<1> QED BY <1>4, <1>5 DEF Beside

LEMMA BesideStarts ==
  ASSUME NEW n \in Nat, NEW A \in SUBSET (1 .. n), NEW cf, Cardinality(A) \in Lags(cf)
  PROVE  Beside(A, {}, cf)
<1>1. Cardinality({}) = 0
  BY FS_EmptySet
<1>2. Cardinality(A) \in Nat
  BY NewestAdded
<1>3. Cardinality(A) - Cardinality({}) \in Lags(cf)
  BY <1>1, <1>2
<1> QED BY <1>3 DEF Beside, Precedes

LEMMA BesideIsSmaller ==
  ASSUME NEW n \in Nat, NEW A \in SUBSET (1 .. n), NEW G, NEW cf, Clamped(cf),
         Beside(A, G, cf)
  PROVE  /\ G \in SUBSET (1 .. n)
         /\ Cardinality(G) < Cardinality(A)
         /\ Cardinality(A) = cf.size => Cardinality(G) \in Lags(cf)
<1>1. G \in SUBSET (1 .. n)
  BY DEF Beside
<1>2. Cardinality(A) \in Nat
  BY NewestAdded
<1>3. Cardinality(G) \in Nat
  BY <1>1, NewestAdded
<1> QED BY <1>1, <1>2, <1>3 DEF Beside, Lags, Clamped

LEMMA FullOverlaps ==
  ASSUME NEW n \in Nat, NEW A \in SUBSET (1 .. n), NEW G, NEW cf, Clamped(cf),
         Beside(A, G, cf), Cardinality(A) = cf.size
  PROVE  Overlap(A, G, cf)
<1>1. A \intersect G = G /\ G \ A = {}
  BY DEF Beside
<1> QED BY <1>1, BesideIsSmaller DEF Beside, Overlap

LEMMA OverlapGrows ==
  ASSUME NEW n \in Nat, NEW A \in SUBSET (1 .. n), NEW B \in SUBSET (1 .. n), NEW cf,
         Overlap(A, B, cf)
  PROVE  Overlap(A, B \union {n + 1}, cf)
<1>1. n + 1 \notin A /\ \A k \in A : k < n + 1
  OBVIOUS
<1>2. /\ A \intersect (B \union {n + 1}) = A \intersect B
      /\ A \ (B \union {n + 1}) = A \ B
      /\ (B \union {n + 1}) \ A = (B \ A) \union {n + 1}
  BY <1>1
<1> QED BY <1>1, <1>2 DEF Overlap, Precedes

-----------------------------------------------------------------------------
(* The steps of AddKeyframe *)

LEMMA ShapeFirst ==
  ASSUME NEW n \in Nat, NEW cf, Clamped(cf)
  PROVE  Shape(<<{}>>, 1, 0, n, cf)
<1> QED BY FS_EmptySet DEF Shape, Clamped

LEMMA ShapeLater ==
  ASSUME NEW n \in Nat, NEW c, NEW a, NEW g, NEW cf, Shape(c, a, g, n, cf)
  PROVE  Shape(c, a, g, n + 1, cf)
<1>1. c \in Seq(SUBSET (1 .. n + 1))
  BY DEF Shape
<1> QED BY <1>1 DEF Shape

LEMMA ShapeTypes ==
  ASSUME NEW n \in Nat, NEW c, NEW a, NEW g, NEW cf, Shape(c, a, g, n, cf)
  PROVE  /\ c \in Seq(SUBSET (1 .. n)) /\ Len(c) \in Nat
         /\ a \in Nat /\ 1 <= a /\ a <= Len(c) /\ DOMAIN c = 1 .. Len(c)
         /\ c[a] \in SUBSET (1 .. n) /\ Cardinality(c[a]) \in Nat
         /\ g = 0 => Len(c) = a
         /\ g # 0 => g = a + 1 /\ Len(c) = a + 1
         /\ \A i \in 1 .. Len(c) : c[i] \in SUBSET (1 .. n)
         /\ \A i \in 1 .. Len(c) : Cardinality(c[i]) \in Nat
<1>1. /\ c \in Seq(SUBSET (1 .. n)) /\ a \in 1 .. Len(c)
      /\ g \in {0, a + 1} /\ Len(c) = IF g = 0 THEN a ELSE g
  BY DEF Shape
<1>2. /\ Len(c) \in Nat /\ DOMAIN c = 1 .. Len(c)
      /\ \A i \in 1 .. Len(c) : c[i] \in SUBSET (1 .. n)
  BY <1>1, LenProperties, ElementOfSeq
<1>3. \A i \in 1 .. Len(c) : Cardinality(c[i]) \in Nat
  BY <1>2, NewestAdded
<1> QED BY <1>1, <1>2, <1>3

LEMMA ShapeOpened ==
  ASSUME NEW n \in Nat, NEW c, NEW a, NEW cf, Clamped(cf), Shape(c, a, 0, n, cf),
         Cardinality(c[a]) >= cf.size - cf.overlap
  PROVE  Shape(Append(c, {}), a, a + 1, n, cf)
<1> DEFINE d == Append(c, {})
<1>1. /\ c \in Seq(SUBSET (1 .. n)) /\ a \in Nat /\ 1 <= a /\ Len(c) = a
      /\ c[a] \in SUBSET (1 .. n) /\ Cardinality(c[a]) \in Nat
  BY ShapeTypes
<1>2. /\ d \in Seq(SUBSET (1 .. n)) /\ Len(d) = a + 1 /\ d[a + 1] = {}
      /\ \A i \in 1 .. a : d[i] = c[i]
  <2>1. {} \in SUBSET (1 .. n)
    OBVIOUS
  <2>2. /\ d \in Seq(SUBSET (1 .. n)) /\ Len(d) = Len(c) + 1 /\ d[Len(c) + 1] = {}
        /\ \A i \in 1 .. Len(c) : d[i] = c[i]
    BY <1>1, <2>1, AppendProperties
  <2> QED BY <1>1, <2>2
<1>3. Cardinality(c[a]) \in Lags(cf)
  <2>1. Cardinality(c[a]) \in (0 .. cf.size - cf.overlap) \union Lags(cf)
    BY DEF Shape
  <2> QED BY <1>1, <2>1 DEF Clamped, Lags
<1>4. Beside(d[a], d[a + 1], cf)
  <2>1. Beside(c[a], {}, cf)
    BY <1>1, <1>3, BesideStarts
  <2>2. a \in 1 .. a
    BY <1>1
  <2> QED BY <2>1, <2>2, <1>2
<1>5. \A i \in 1 .. a - 1 : Overlap(d[i], d[i + 1], cf)
  <2> SUFFICES ASSUME NEW i \in 1 .. a - 1 PROVE Overlap(d[i], d[i + 1], cf)
    OBVIOUS
  <2>1. i \in 1 .. a /\ i + 1 \in 1 .. a
    BY <1>1
  <2>2. Overlap(c[i], c[i + 1], cf)
    BY DEF Shape
  <2> QED BY <2>1, <2>2, <1>2
<1>6. Cardinality(d[a]) < cf.size
  <2>1. d[a] = c[a]
    BY <1>1, <1>2
  <2> QED BY <2>1 DEF Shape
<1>7. a + 1 # 0 /\ a \in 1 .. Len(d)
  BY <1>1, <1>2
<1> QED BY <1>1, <1>2, <1>4, <1>5, <1>6, <1>7 DEF Shape

LEMMA IntervalsDiffer ==
  ASSUME NEW m \in Nat, NEW k \in Nat, 1 .. m = 1 .. k
  PROVE  m = k
<1>1. CASE m < k
  <2>1. k \in 1 .. k /\ k \notin 1 .. m
    BY <1>1
  <2> QED BY <2>1
<1>2. CASE k < m
  <2>1. m \in 1 .. m /\ m \notin 1 .. k
    BY <1>2
  <2> QED BY <2>1
<1> QED BY <1>1, <1>2

\* The sequence after the insertion of keyframe n + 1 into submaps a and g.
Inserted(c, a, g, n) == [i \in DOMAIN c |-> IF i \in {a, g} THEN c[i] \union {n + 1} ELSE c[i]]

\* What is in d, which has the contents of c and the keyframe.
Holds(d, c, a, g, n, cf) ==
  /\ d \in Seq(SUBSET (1 .. n + 1)) /\ Len(d) = Len(c) /\ DOMAIN d = DOMAIN c
  /\ \A i \in 1 .. a - 1 : d[i] = c[i]
  /\ d[a] = c[a] \union {n + 1}
  /\ Cardinality(d[a]) = Cardinality(c[a]) + 1
  /\ g # 0 => d[g] = c[g] \union {n + 1} /\ Beside(d[a], d[g], cf)
  /\ \A i \in 1 .. a - 1 : Overlap(d[i], d[i + 1], cf)

LEMMA InsertedContents ==
  ASSUME NEW n \in Nat, NEW c, NEW a, NEW g, NEW cf, Clamped(cf), Shape(c, a, g, n, cf)
  PROVE  Holds(Inserted(c, a, g, n), c, a, g, n, cf)
<1> SUFFICES ASSUME NEW d, d = Inserted(c, a, g, n)
             PROVE  Holds(d, c, a, g, n, cf)
  OBVIOUS
<1>0. /\ c \in Seq(SUBSET (1 .. n)) /\ Len(c) \in Nat
      /\ a \in Nat /\ 1 <= a /\ a <= Len(c) /\ DOMAIN c = 1 .. Len(c)
      /\ g = 0 => Len(c) = a
      /\ g # 0 => g = a + 1 /\ Len(c) = a + 1
      /\ \A i \in 1 .. Len(c) : c[i] \in SUBSET (1 .. n)
  BY ShapeTypes
<1>a. Len(c) \in Nat /\ a \in Nat /\ 1 <= a /\ a <= Len(c) /\ DOMAIN c = 1 .. Len(c)
  BY <1>0
<1>b. g # 0 => g = a + 1 /\ g <= Len(c)
  BY <1>0
<1>c. \A i \in 1 .. Len(c) : c[i] \in SUBSET (1 .. n)
  BY <1>0
<1>d. a \in 1 .. Len(c) /\ \A i \in 1 .. a - 1 : i \in 1 .. Len(c) /\ i + 1 \in 1 .. Len(c) /\ i # a
  BY <1>a
<1>e. \A i \in 1 .. a - 1 : i # g
  BY <1>a, <1>b
<1>f. g # 0 => g \in 1 .. Len(c)
  BY <1>a, <1>b
<1>1. d \in [1 .. Len(c) -> SUBSET (1 .. n + 1)]
  <2>1. \A i \in 1 .. Len(c) : (IF i \in {a, g} THEN c[i] \union {n + 1} ELSE c[i]) \in SUBSET (1 .. n + 1)
    <3> SUFFICES ASSUME NEW i \in 1 .. Len(c)
                 PROVE  c[i] \union {n + 1} \in SUBSET (1 .. n + 1) /\ c[i] \in SUBSET (1 .. n + 1)
      OBVIOUS
    <3>1. c[i] \in SUBSET (1 .. n)
      BY <1>c
    <3> QED BY <3>1
  <2> QED BY <2>1, <1>a DEF Inserted
<1>2. d \in Seq(SUBSET (1 .. n + 1)) /\ Len(d) = Len(c) /\ DOMAIN d = DOMAIN c
  <2>1. d \in Seq(SUBSET (1 .. n + 1))
    BY <1>a, <1>1, IsASeq
  <2>2. DOMAIN d = 1 .. Len(c) /\ DOMAIN d = 1 .. Len(d) /\ Len(d) \in Nat
    BY <1>1, <2>1, LenProperties
  <2>3. Len(d) = Len(c)
    BY <2>2, <1>a, IntervalsDiffer
  <2> QED BY <2>1, <2>2, <2>3, <1>a
<1>3. /\ \A i \in 1 .. a - 1 : d[i] = c[i]
      /\ d[a] = c[a] \union {n + 1}
      /\ g # 0 => d[g] = c[g] \union {n + 1}
  <2>1. \A i \in 1 .. a - 1 : i \in DOMAIN c /\ i \notin {a, g}
    BY <1>a, <1>d, <1>e
  <2>2. a \in DOMAIN c /\ (g # 0 => g \in DOMAIN c)
    BY <1>a, <1>d, <1>f
  <2> QED BY <2>1, <2>2 DEF Inserted
<1>4. Cardinality(d[a]) = Cardinality(c[a]) + 1
  <2>1. c[a] \in SUBSET (1 .. n)
    BY <1>c, <1>d
  <2>2. Cardinality(c[a] \union {n + 1}) = Cardinality(c[a]) + 1
    BY <2>1, NewestAdded
  <2>3. d[a] = c[a] \union {n + 1}
    BY <1>3
  <2> QED BY <2>2, <2>3
<1>5. g # 0 => Beside(d[a], d[g], cf)
  <2>1. g # 0 => Beside(c[a], c[g], cf)
    BY DEF Shape
  <2> QED BY <2>1, <1>c, <1>d, <1>3, BesideGrows
<1>6. \A i \in 1 .. a - 1 : Overlap(d[i], d[i + 1], cf)
  <2> SUFFICES ASSUME NEW i \in 1 .. a - 1 PROVE Overlap(d[i], d[i + 1], cf)
    OBVIOUS
  <2>1. Overlap(c[i], c[i + 1], cf)
    BY DEF Shape
  <2>2. c[i] \in SUBSET (1 .. n) /\ c[i + 1] \in SUBSET (1 .. n)
    BY <1>c, <1>d
  <2>3. Overlap(c[i], c[i + 1] \union {n + 1}, cf)
    BY <2>1, <2>2, OverlapGrows
  <2>4. d[i] = c[i]
    BY <1>3
  <2>5. CASE i + 1 = a
    BY <2>3, <2>4, <2>5, <1>3
  <2>6. CASE i + 1 # a
    <3>1. i + 1 \in 1 .. a - 1
      BY <2>6, <1>a
    <3> QED BY <3>1, <2>1, <2>4, <1>3
  <2> QED BY <2>5, <2>6
<1> QED BY <1>2, <1>3, <1>4, <1>5, <1>6 DEF Holds

LEMMA ShapeInserted ==
  ASSUME NEW n \in Nat, NEW c, NEW a, NEW g, NEW cf, Clamped(cf), Shape(c, a, g, n, cf),
         g = 0 => Cardinality(c[a]) < cf.size - cf.overlap,
         Cardinality(c[a]) + 1 < cf.size,
         NEW d, d = Inserted(c, a, g, n)
  PROVE  Shape(d, a, g, n + 1, cf)
<1>0. Holds(d, c, a, g, n, cf)
  BY InsertedContents
<1>1. /\ d \in Seq(SUBSET (1 .. n + 1)) /\ Len(d) = Len(c)
      /\ Cardinality(d[a]) = Cardinality(c[a]) + 1
      /\ g # 0 => Beside(d[a], d[g], cf)
      /\ \A i \in 1 .. a - 1 : Overlap(d[i], d[i + 1], cf)
  BY <1>0 DEF Holds
<1>2. Cardinality(c[a]) \in Nat
  BY ShapeTypes
<1>3. g = 0 => Cardinality(d[a]) \in 0 .. cf.size - cf.overlap
  BY <1>1, <1>2 DEF Clamped
<1>4. Shape(d, a, g, n + 1, cf)
  BY <1>1, <1>3 DEF Shape
<1> QED BY <1>4

LEMMA ShapePromoted ==
  ASSUME NEW n \in Nat, NEW c, NEW a, NEW g, NEW cf, Clamped(cf), Shape(c, a, g, n, cf),
         g = 0 => Cardinality(c[a]) < cf.size - cf.overlap,
         Cardinality(c[a]) + 1 >= cf.size,
         NEW d, d = Inserted(c, a, g, n)
  PROVE  /\ g # 0 /\ g = a + 1
         /\ Shape(d, g, 0, n + 1, cf)
         /\ Cardinality(d[g]) < cf.size
<1>0. Holds(d, c, a, g, n, cf)
  BY InsertedContents
<1>1. /\ d \in Seq(SUBSET (1 .. n + 1)) /\ Len(d) = Len(c)
      /\ Cardinality(d[a]) = Cardinality(c[a]) + 1
      /\ g # 0 => Beside(d[a], d[g], cf)
      /\ \A i \in 1 .. a - 1 : Overlap(d[i], d[i + 1], cf)
  BY <1>0 DEF Holds
<1>2. Cardinality(c[a]) \in Nat /\ Cardinality(c[a]) < cf.size
  BY ShapeTypes DEF Shape
<1>3. g # 0
  BY <1>2 DEF Clamped
<1>4. g = a + 1 /\ Len(c) = g /\ a \in Nat /\ 1 <= a
  BY <1>3, ShapeTypes
<1>5. Cardinality(d[a]) = cf.size
  BY <1>1, <1>2 DEF Clamped
<1>6. d[a] \in SUBSET (1 .. n + 1) /\ n + 1 \in Nat
  BY <1>1, <1>4, ElementOfSeq
<1>7. Beside(d[a], d[g], cf)
  BY <1>1, <1>3
<1>8. Overlap(d[a], d[g], cf)
  BY <1>5, <1>6, <1>7, FullOverlaps
<1>9. Cardinality(d[g]) \in Lags(cf) /\ Cardinality(d[g]) < cf.size
  BY <1>5, <1>6, <1>7, BesideIsSmaller DEF Clamped, Lags
<1>10. \A i \in 1 .. g - 1 : Overlap(d[i], d[i + 1], cf)
  <2> SUFFICES ASSUME NEW i \in 1 .. g - 1 PROVE Overlap(d[i], d[i + 1], cf)
    OBVIOUS
  <2>1. CASE i = a
    BY <2>1, <1>4, <1>8
  <2>2. CASE i # a
    BY <2>2, <1>1, <1>4
  <2> QED BY <2>1, <2>2
<1>11. Shape(d, g, 0, n + 1, cf)
  BY <1>1, <1>4, <1>9, <1>10 DEF Shape
<1> QED BY <1>3, <1>4, <1>9, <1>11

-----------------------------------------------------------------------------
(* AddKeyframe *)

Primary == IF active = 0 THEN 1 ELSE active
Content == IF active = 0 THEN Append(submaps, {}) ELSE submaps
Opens   == StartsGrowing(Primary, Content)
Opened  == IF Opens THEN Append(Content, {}) ELSE Content
Side    == IF Opens THEN Len(Opened) ELSE growing

SubmapInv ==
  /\ Clamped(config)
  /\ Len(keyframes) \in Nat
  /\ active = 0 => submaps = <<>> /\ growing = 0
  /\ active # 0 => Shape(submaps, active, growing, Len(keyframes), config)

\* The submaps after a step that may begin one.
OpenedShape(n) ==
  /\ Shape(Opened, Primary, Side, n, config)
  /\ Side = 0 => Cardinality(Opened[Primary]) < config.size - config.overlap
  /\ active = 0 => Side = 0
  /\ Len(submaps) \in Nat /\ Len(submaps) <= Len(Opened)
  /\ Primary >= Len(submaps) - 1 /\ Primary <= Len(submaps) + 1
  /\ \A i \in 1 .. Len(submaps) : Opened[i] = submaps[i]
  /\ \A i \in 1 .. Len(Opened) : i \notin 1 .. Len(submaps) => Opened[i] = {}

LEMMA OpenedIsInShape ==
  ASSUME SubmapInv
  PROVE  OpenedShape(Len(keyframes))
<1> DEFINE n == Len(keyframes)
<1>0. n \in Nat /\ Clamped(config)
  BY DEF SubmapInv
<1> HIDE DEF n
<1>1. /\ Shape(Content, Primary, growing, n, config)
      /\ Len(submaps) \in Nat /\ Len(submaps) <= Len(Content)
      /\ Primary >= Len(submaps) - 1 /\ Primary <= Len(submaps) + 1
      /\ \A i \in 1 .. Len(submaps) : Content[i] = submaps[i]
      /\ \A i \in 1 .. Len(Content) : i \notin 1 .. Len(submaps) => Content[i] = {}
  <2>1. CASE active = 0
    <3>1. Content = <<{}>> /\ Primary = 1 /\ growing = 0 /\ submaps = <<>>
      BY <2>1 DEF SubmapInv, Content, Primary
    <3>2. Len(submaps) = 0 /\ Len(Content) = 1 /\ Content[1] = {}
      BY <3>1
    <3> QED BY <1>0, <3>1, <3>2, ShapeFirst
  <2>2. CASE active # 0
    <3>1. Content = submaps /\ Primary = active /\ Shape(submaps, active, growing, n, config)
      BY <2>2 DEF SubmapInv, Content, Primary, n
    <3>2. /\ Len(submaps) \in Nat /\ active \in Nat
          /\ growing = 0 => Len(submaps) = active
          /\ growing # 0 => Len(submaps) = active + 1
      BY <1>0, <3>1, ShapeTypes
    <3> QED BY <3>1, <3>2
  <2> QED BY <2>1, <2>2
<1>2. /\ Content \in Seq(SUBSET (1 .. n)) /\ Len(Content) \in Nat
      /\ Primary \in Nat /\ 1 <= Primary /\ Primary <= Len(Content)
      /\ Cardinality(Content[Primary]) \in Nat
      /\ growing = 0 => Len(Content) = Primary
  BY <1>0, <1>1, ShapeTypes
<1>3. config.size - config.overlap = GrowingStart /\ GrowingStart \in Nat
  BY <1>0 DEF GrowingStart, Clamped
<1>b. CASE active = 0
  <2>1. Content[Primary] = {} /\ growing = 0
    <3>1. Content = <<{}>> /\ Primary = 1 /\ growing = 0
      BY <1>b DEF SubmapInv, Content, Primary
    <3> QED BY <3>1
  <2>2. ~Opens
    BY <1>0, <1>3, <2>1, FS_EmptySet DEF Opens, StartsGrowing, Clamped
  <2>3. Side = 0 /\ Opened = Content
    BY <2>1, <2>2 DEF Side, Opened
  <2>4. Cardinality(Opened[Primary]) < config.size - config.overlap
    BY <1>0, <2>1, <2>3, FS_EmptySet DEF Clamped
  <2> QED BY <1>1, <2>1, <2>3, <2>4 DEF OpenedShape, n
<1>4. CASE active # 0 /\ Opens
  <2>1. growing = 0 /\ Cardinality(Content[Primary]) >= config.size - config.overlap
    BY <1>3, <1>4 DEF Opens, StartsGrowing
  <2>2. Opened = Append(Content, {}) /\ Side = Len(Opened)
    BY <1>4 DEF Opened, Side
  <2>3. /\ Len(Opened) = Len(Content) + 1 /\ Opened[Len(Content) + 1] = {}
        /\ \A i \in 1 .. Len(Content) : Opened[i] = Content[i]
    <3>1. {} \in SUBSET (1 .. n)
      OBVIOUS
    <3> QED BY <1>2, <2>2, <3>1, AppendProperties
  <2>4. Side = Primary + 1 /\ Side # 0
    BY <1>2, <2>1, <2>2, <2>3
  <2>5. Shape(Opened, Primary, Side, n, config)
    BY <1>0, <1>1, <2>1, <2>2, <2>4, ShapeOpened
  <2>6. \A i \in 1 .. Len(submaps) : Opened[i] = submaps[i]
    BY <1>1, <1>2, <2>3
  <2>7. \A i \in 1 .. Len(Opened) : i \notin 1 .. Len(submaps) => Opened[i] = {}
    BY <1>1, <1>2, <2>3
  <2> QED BY <1>1, <1>2, <1>4, <2>3, <2>4, <2>5, <2>6, <2>7 DEF OpenedShape, n
<1>5. CASE active # 0 /\ ~Opens
  <2>1. Opened = Content /\ Side = growing
    BY <1>5 DEF Opened, Side
  <2>2. Side = 0 => Cardinality(Opened[Primary]) < config.size - config.overlap
    BY <1>2, <1>3, <1>5, <2>1 DEF Opens, StartsGrowing
  <2> QED BY <1>1, <1>5, <2>1, <2>2 DEF OpenedShape, n
<1> QED BY <1>b, <1>4, <1>5

Full(usable, id) == usable /\ Cardinality(Opened[Primary] \union {id}) >= config.size
Promotes(usable, id) == Full(usable, id) /\ Side # 0

LEMMA AddKeyframeMeans ==
  ASSUME NEW id, NEW usable \in BOOLEAN, AddKeyframe(id, usable)
  PROVE  /\ submaps' = Insert(id, {Primary, Side}, Opened, usable)
         /\ active' = IF Promotes(usable, id) THEN Side ELSE Primary
         /\ growing' = IF Promotes(usable, id) THEN 0 ELSE Side
         /\ started' = (Opens \/ Promotes(usable, id))
         /\ finished' = IF Promotes(usable, id) THEN Primary ELSE 0
         /\ config' = config
BY DEF AddKeyframe, Primary, Content, Opens, Opened, Side, Full, Promotes

LEMMA InsertMeans ==
  ASSUME NEW n \in Nat, NEW c, NEW a, NEW g
  PROVE  Insert(n + 1, {a, g}, c, TRUE) = Inserted(c, a, g, n)
BY DEF Insert, Inserted

\* What it leaves in submap i.
Kept(i, n) ==
  /\ i < Primary => submaps'[i] = submaps[i]
  /\ submaps'[i] \subseteq (IF i \in 1 .. Len(submaps) THEN submaps[i] ELSE {}) \union {n + 1}
  /\ i \in 1 .. Len(submaps) => submaps[i] \subseteq submaps'[i]

\* What a call leaves behind that is given keyframe n + 1.
Taken(usable, n) ==
  /\ config' = config
  /\ active' # 0 /\ Shape(submaps', active', growing', n + 1, config)
  /\ active' \in {Primary, Primary + 1} /\ Primary \in Nat /\ 1 <= Primary
  /\ finished' = IF active' = Primary THEN 0 ELSE Primary
  /\ (IF started' THEN finished' ELSE 0) = finished'
  /\ active' # Primary => usable /\ active # 0
  /\ Len(submaps) \in Nat /\ Len(submaps') \in Nat
  /\ Len(submaps) <= Len(submaps') /\ active' <= Len(submaps')
  /\ Primary >= Len(submaps) - 1
  /\ Primary <= Len(submaps) + 1
  /\ \A i \in 1 .. Len(submaps') : Kept(i, n)
  /\ usable => n + 1 \in submaps'[Primary] /\ n + 1 \in submaps'[active']

LEMMA AddKeyframeTakes ==
  ASSUME SubmapInv, NEW usable \in BOOLEAN, AddKeyframe(Len(keyframes) + 1, usable)
  PROVE  Taken(usable, Len(keyframes))
<1> SUFFICES ASSUME NEW n, n = Len(keyframes) PROVE Taken(usable, n)
  OBVIOUS
<1>0. n \in Nat /\ Clamped(config)
  BY DEF SubmapInv
<1>1. OpenedShape(n)
  BY OpenedIsInShape
<1>2. /\ submaps' = Insert(n + 1, {Primary, Side}, Opened, usable)
      /\ active' = IF Promotes(usable, n + 1) THEN Side ELSE Primary
      /\ growing' = IF Promotes(usable, n + 1) THEN 0 ELSE Side
      /\ started' = (Opens \/ Promotes(usable, n + 1))
      /\ finished' = IF Promotes(usable, n + 1) THEN Primary ELSE 0
      /\ config' = config
  BY AddKeyframeMeans
<1>3. /\ Opened \in Seq(SUBSET (1 .. n)) /\ Len(Opened) \in Nat
      /\ Primary \in Nat /\ 1 <= Primary /\ Primary <= Len(Opened)
      /\ DOMAIN Opened = 1 .. Len(Opened)
      /\ Opened[Primary] \in SUBSET (1 .. n) /\ Cardinality(Opened[Primary]) \in Nat
      /\ Side # 0 => Side = Primary + 1 /\ Len(Opened) = Primary + 1
  BY <1>0, <1>1, ShapeTypes DEF OpenedShape
<1>a. /\ Len(Opened) \in Nat /\ Primary \in Nat /\ 1 <= Primary /\ Primary <= Len(Opened)
      /\ Side # 0 => Side = Primary + 1 /\ Len(Opened) = Primary + 1
  BY <1>3
<1>b. /\ Len(submaps) \in Nat /\ Len(submaps) <= Len(Opened)
      /\ Primary >= Len(submaps) - 1 /\ Primary <= Len(submaps) + 1
  BY <1>1 DEF OpenedShape
<1>4. /\ \A i \in 1 .. Len(submaps) : Opened[i] = submaps[i]
      /\ \A i \in 1 .. Len(Opened) : i \notin 1 .. Len(submaps) => Opened[i] = {}
  BY <1>1 DEF OpenedShape
<1>5. CASE ~usable
  <2>1. Opened = [i \in DOMAIN Opened |-> Opened[i]]
    BY <1>3
  <2>2. submaps' = Opened /\ ~Promotes(usable, n + 1)
    <3>1. Insert(n + 1, {Primary, Side}, Opened, FALSE) = Opened
      BY <2>1 DEF Insert
    <3>2. usable = FALSE
      BY <1>5
    <3> QED BY <1>2, <3>1, <3>2 DEF Promotes, Full
  <2>3. Shape(Opened, Primary, Side, n + 1, config)
    BY <1>0, <1>1, ShapeLater DEF OpenedShape
  <2>4. active' = Primary /\ growing' = Side /\ finished' = 0
    BY <1>2, <2>2
  <2>5. \A i \in 1 .. Len(submaps') : Kept(i, n)
    <3> SUFFICES ASSUME NEW i \in 1 .. Len(Opened) PROVE Kept(i, n)
      BY <2>2
    <3>1. Opened[i] = IF i \in 1 .. Len(submaps) THEN submaps[i] ELSE {}
      BY <1>4, Zenon
    <3>2. i < Primary => i \in 1 .. Len(submaps)
      BY <1>a, <1>b
    <3> QED BY <2>2, <3>1, <3>2 DEF Kept
  <2>6. Len(submaps') = Len(Opened)
    BY <2>2
  <2>7. config' = config /\ (IF started' THEN finished' ELSE 0) = finished'
    BY <1>2, <2>4
  <2>8. active' # 0 /\ active' <= Len(submaps') /\ Len(submaps') \in Nat /\ Len(submaps) <= Len(submaps')
    BY <1>a, <1>b, <2>4, <2>6
  <2>9. Shape(submaps', active', growing', n + 1, config)
    BY <2>2, <2>3, <2>4
  <2> QED BY <1>a, <1>b, <1>5, <2>4, <2>5, <2>7, <2>8, <2>9 DEF Taken
<1>6. CASE usable
  <2>1. submaps' = Inserted(Opened, Primary, Side, n)
    BY <1>0, <1>2, <1>6, InsertMeans
  <2>2. Holds(submaps', Opened, Primary, Side, n, config)
    BY <1>0, <1>1, <2>1, InsertedContents DEF OpenedShape
  <2>3. /\ Len(submaps') = Len(Opened) /\ DOMAIN submaps' = DOMAIN Opened
        /\ n + 1 \in submaps'[Primary] /\ (Side # 0 => n + 1 \in submaps'[Side])
    BY <2>2 DEF Holds
  <2>4. \A i \in 1 .. Len(submaps') : Kept(i, n)
    <3> SUFFICES ASSUME NEW i \in 1 .. Len(Opened) PROVE Kept(i, n)
      BY <2>3
    <3>1. Opened[i] = IF i \in 1 .. Len(submaps) THEN submaps[i] ELSE {}
      BY <1>4, Zenon
    <3>2. i < Primary => i \in 1 .. Len(submaps) /\ i # Primary /\ i # Side
      BY <1>a, <1>b
    <3>3. submaps'[i] = IF i \in {Primary, Side} THEN Opened[i] \union {n + 1} ELSE Opened[i]
      BY <1>3, <2>1 DEF Inserted
    <3> QED BY <3>1, <3>2, <3>3 DEF Kept
  <2>5. n + 1 \notin Opened[Primary]
        /\ Cardinality(Opened[Primary] \union {n + 1}) = Cardinality(Opened[Primary]) + 1
    BY <1>0, <1>3, NewestAdded
  <2>6. Side = 0 => Cardinality(Opened[Primary]) < config.size - config.overlap
    BY <1>1 DEF OpenedShape
  <2>7. Shape(Opened, Primary, Side, n, config)
    BY <1>1 DEF OpenedShape
  <2>8. CASE Cardinality(Opened[Primary]) + 1 >= config.size
    <3>1. Side # 0 /\ Side = Primary + 1 /\ Shape(submaps', Side, 0, n + 1, config)
      BY <1>0, <2>1, <2>6, <2>7, <2>8, ShapePromoted
    <3>2. Promotes(usable, n + 1)
      BY <1>6, <2>5, <2>8, <3>1 DEF Promotes, Full
    <3>3. active' = Primary + 1 /\ growing' = 0 /\ finished' = Primary /\ started' = TRUE
      BY <1>2, <3>1, <3>2
    <3>4. Primary + 1 # Primary /\ Primary + 1 # 0 /\ Primary + 1 <= Len(Opened)
      BY <1>3, <3>1
    <3>5. n + 1 \in submaps'[active'] /\ Shape(submaps', active', growing', n + 1, config)
      BY <2>3, <3>1, <3>3
    <3>6. config' = config
      BY <1>2
    <3>7. active # 0
      BY <1>1, <3>1 DEF OpenedShape
    <3> QED BY <1>a, <1>b, <1>6, <2>3, <2>4, <3>3, <3>4, <3>5, <3>6, <3>7 DEF Taken
  <2>9. CASE ~(Cardinality(Opened[Primary]) + 1 >= config.size)
    <3>1. Shape(submaps', Primary, Side, n + 1, config)
      <4>1. Cardinality(Opened[Primary]) + 1 < config.size
        BY <1>0, <1>3, <2>9 DEF Clamped
      <4> QED BY <1>0, <2>1, <2>6, <2>7, <4>1, ShapeInserted
    <3>2. ~Promotes(usable, n + 1)
      BY <2>5, <2>9 DEF Promotes, Full
    <3>3. active' = Primary /\ growing' = Side /\ finished' = 0
      BY <1>2, <3>2
    <3>4. config' = config /\ (IF started' THEN finished' ELSE 0) = finished'
      BY <1>2, <3>3
    <3>5. active' # 0 /\ active' <= Len(submaps') /\ Len(submaps') \in Nat /\ Len(submaps) <= Len(submaps')
      <4>1. Len(submaps') = Len(Opened) /\ active' = Primary
        BY <2>3, <3>3
      <4> QED BY <1>a, <1>b, <4>1
    <3>6. /\ n + 1 \in submaps'[Primary] /\ n + 1 \in submaps'[active']
          /\ Shape(submaps', active', growing', n + 1, config)
      BY <2>3, <3>1, <3>3
    <3> QED BY <1>a, <1>b, <1>6, <2>4, <3>3, <3>4, <3>5, <3>6 DEF Taken
  <2> QED BY <2>8, <2>9
<1> QED BY <1>5, <1>6

\* The clouds p and the contents c, when those were q and d before a submap
\* was begun, if one was.
Extended(q, d, p, c) ==
  /\ p \in Seq(SUBSET Nat) /\ c \in Seq(SUBSET Nat) /\ DOMAIN p = DOMAIN c
  /\ Len(p) = Len(c) /\ Len(c) \in Nat
  /\ \A i \in DOMAIN c : p[i] \subseteq c[i]
  /\ \A i \in DOMAIN q : i \in DOMAIN p /\ p[i] = q[i]

LEMMA BothExtended ==
  ASSUME NEW q \in Seq(SUBSET Nat), NEW d \in Seq(SUBSET Nat), Len(q) = Len(d),
         \A i \in DOMAIN d : q[i] \subseteq d[i]
  PROVE  Extended(q, d, Append(q, {}), Append(d, {}))
<1>1. {} \in SUBSET Nat
  OBVIOUS
<1>2. \A r \in Seq(SUBSET Nat) :
        /\ Append(r, {}) \in Seq(SUBSET Nat) /\ Len(Append(r, {})) = Len(r) + 1
        /\ Append(r, {})[Len(r) + 1] = {} /\ Len(r) \in Nat /\ DOMAIN r = 1 .. Len(r)
        /\ DOMAIN Append(r, {}) = 1 .. Len(r) + 1
        /\ \A i \in 1 .. Len(r) : Append(r, {})[i] = r[i]
  BY <1>1, AppendProperties, LenProperties
<1>3. \A i \in 1 .. Len(d) + 1 : i \in 1 .. Len(d) \/ i = Len(d) + 1
  BY <1>2
<1> QED BY <1>2, <1>3 DEF Extended

LEMMA CloudsFollow ==
  ASSUME NEW id, NEW usable \in BOOLEAN, AddKeyframe(id, usable),
         DOMAIN clouds = DOMAIN submaps, clouds \in Seq(SUBSET Nat), submaps \in Seq(SUBSET Nat),
         id \in Nat,
         \A i \in DOMAIN submaps : clouds[i] \subseteq submaps[i]
  PROVE  /\ clouds' \in Seq(SUBSET Nat) /\ DOMAIN clouds' = DOMAIN submaps'
         /\ \A i \in DOMAIN submaps' : clouds'[i] \subseteq submaps'[i]
         /\ \A i \in DOMAIN clouds : i \in DOMAIN clouds' /\ clouds[i] \subseteq clouds'[i]
<1> DEFINE p1 == IF active = 0 THEN Append(clouds, {}) ELSE clouds
           p2 == IF Opens THEN Append(p1, {}) ELSE p1
<1>1. /\ submaps' = Insert(id, {Primary, Side}, Opened, usable)
      /\ clouds' = InsertCloud(id, {Primary, Side}, Opened, p2, usable)
  BY DEF AddKeyframe, Primary, Content, Opens, Opened, Side
<1>2. {} \in SUBSET Nat /\ Len(clouds) = Len(submaps) /\ Len(submaps) \in Nat
  <2>1. Len(clouds) \in Nat /\ Len(submaps) \in Nat /\ 1 .. Len(clouds) = 1 .. Len(submaps)
    BY LenProperties
  <2> QED BY <2>1, IntervalsDiffer
<1>3. Extended(clouds, submaps, p1, Content)
  <2>1. CASE active = 0
    <3>1. p1 = Append(clouds, {}) /\ Content = Append(submaps, {})
      BY <2>1 DEF Content
    <3> QED BY <1>2, <3>1, BothExtended
  <2>2. CASE active # 0
    <3>1. p1 = clouds /\ Content = submaps
      BY <2>2 DEF Content
    <3> QED BY <1>2, <3>1, LenProperties DEF Extended
  <2> QED BY <2>1, <2>2
<1>4. Extended(p1, Content, p2, Opened)
  <2>1. CASE Opens
    <3>1. p2 = Append(p1, {}) /\ Opened = Append(Content, {})
      BY <2>1 DEF Opened
    <3> HIDE DEF p1, p2
    <3> QED BY <1>3, <3>1, BothExtended DEF Extended
  <2>2. CASE ~Opens
    <3>1. p2 = p1 /\ Opened = Content
      BY <2>2 DEF Opened
    <3> HIDE DEF p1, p2
    <3> QED BY <1>3, <3>1 DEF Extended
  <2> QED BY <2>1, <2>2
<1> HIDE DEF p1, p2
<1>5. /\ p2 \in Seq(SUBSET Nat) /\ DOMAIN p2 = DOMAIN Opened
      /\ \A i \in DOMAIN Opened : p2[i] \subseteq Opened[i]
      /\ \A i \in DOMAIN clouds : i \in DOMAIN p2 /\ p2[i] = clouds[i]
  BY <1>3, <1>4 DEF Extended
<1>6. /\ DOMAIN submaps' = DOMAIN Opened
      /\ \A i \in DOMAIN Opened : submaps'[i] =
           IF usable /\ i \in {Primary, Side} THEN Opened[i] \union {id} ELSE Opened[i]
  BY <1>1 DEF Insert
<1>7. /\ DOMAIN clouds' = DOMAIN p2
      /\ \A i \in DOMAIN p2 : clouds'[i] =
           IF usable /\ i \in {Primary, Side} /\ Cardinality(Opened[i]) % 2 = 0
           THEN p2[i] \union {id} ELSE p2[i]
  BY <1>1 DEF InsertCloud
<1>a. \A i \in DOMAIN p2 : p2[i] \subseteq clouds'[i]
  BY <1>7
<1>b. \A i \in DOMAIN p2 : clouds'[i] \in SUBSET Nat
  <2>1. \A i \in DOMAIN p2 : p2[i] \in SUBSET Nat
    BY <1>5, LenProperties, ElementOfSeq
  <2> QED BY <1>7, <2>1
<1>8. clouds' \in Seq(SUBSET Nat)
  <2>1. DOMAIN p2 = 1 .. Len(p2) /\ Len(p2) \in Nat
    BY <1>5, LenProperties
  <2>2. clouds' = [i \in 1 .. Len(p2) |-> clouds'[i]]
    BY <1>1, <2>1 DEF InsertCloud
  <2>3. \A i \in 1 .. Len(p2) : clouds'[i] \in SUBSET Nat
    BY <1>b, <2>1
  <2> QED BY <2>1, <2>2, <2>3
<1>9. \A i \in DOMAIN submaps' : clouds'[i] \subseteq submaps'[i]
  <2> SUFFICES ASSUME NEW i \in DOMAIN Opened PROVE clouds'[i] \subseteq submaps'[i]
    BY <1>6
  <2>1. p2[i] \subseteq Opened[i] /\ i \in DOMAIN p2
    BY <1>5
  <2>2. CASE usable /\ i \in {Primary, Side}
    <3>1. submaps'[i] = Opened[i] \union {id}
      BY <1>6, <2>2
    <3>2. clouds'[i] \subseteq p2[i] \union {id}
      BY <1>7, <2>1
    <3> QED BY <2>1, <3>1, <3>2
  <2>3. CASE ~(usable /\ i \in {Primary, Side})
    <3>1. submaps'[i] = Opened[i]
      BY <1>6, <2>3
    <3>2. clouds'[i] = p2[i]
      BY <1>7, <2>1, <2>3
    <3> QED BY <2>1, <3>1, <3>2
  <2> QED BY <2>2, <2>3
<1>10. DOMAIN clouds' = DOMAIN submaps'
  BY <1>5, <1>6, <1>7
<1>11. \A i \in DOMAIN clouds : i \in DOMAIN clouds' /\ clouds[i] \subseteq clouds'[i]
  BY <1>5, <1>7, <1>a
<1> QED BY <1>8, <1>9, <1>10, <1>11

-----------------------------------------------------------------------------
(* A keyframe *)

CloudInv ==
  /\ clouds \in Seq(SUBSET Nat) /\ submaps \in Seq(SUBSET Nat) /\ DOMAIN clouds = DOMAIN submaps
  /\ \A i \in DOMAIN submaps : clouds[i] \subseteq submaps[i]

Filled(id, i) == id \in submaps[i] /\ \A k \in submaps[i] : k <= id

JobOK(j) ==
  /\ j \in [id : Nat, owner : Nat, snapshot : Nat]
  /\ j.id \in 1 .. Len(keyframes)
  /\ j.owner \in 1 .. Len(submaps) /\ j.id \in submaps[j.owner]
  /\ \A i \in 1 .. Len(submaps) :
       j.id \in submaps[i] => j.owner <= i \/ (j.snapshot = i /\ j.owner = i + 1)
  /\ j.snapshot \in Nat /\ (active = 0 \/ j.snapshot < active)
  /\ \A i \in 1 .. active - 1 : Filled(j.id, i) <=> j.snapshot = i

\* The owner of the job is the oldest submap that has the keyframe.
Oldest(j) == \A i \in 1 .. Len(submaps) : j.id \in submaps[i] => j.owner <= i

OwnerInv == \A j \in DOMAIN jobs : j # 1 => Oldest(jobs[j])

CommitInv ==
  jobs # <<>> =>
    LET last == jobs[Len(jobs)].id
    IN /\ last \in 1 .. Len(keyframes) /\ active # 0
       /\ lastKeyframe = {keyframes[last]}
       /\ \E t \in target : /\ t.submap \in 1 .. Len(submaps) /\ last \in submaps[t.submap]
                           /\ t.cloud \subseteq clouds[t.submap]
       /\ last = Len(keyframes) => target = {TrackingMap}

MapInv ==
  /\ SubmapInv /\ CloudInv /\ CommitInv
  /\ keyframes \in Seq(Poses) /\ jobs \in Seq([id : Nat, owner : Nat, snapshot : Nat])
  /\ \A j \in DOMAIN jobs : JobOK(jobs[j])
  /\ OwnerInv
  /\ lastKeyframe \subseteq Poses
  /\ target \subseteq [submap : Nat, cloud : SUBSET Nat]
  /\ started \in BOOLEAN /\ finished \in Nat

\* What a step of the submaps does to the jobs there were before it.
LEMMA OldJobsStay ==
  ASSUME SubmapInv, NEW usable, Taken(usable, Len(keyframes)), Len(keyframes') = Len(keyframes) + 1,
         NEW j, JobOK(j)
  PROVE  JobOK(j)' /\ (Oldest(j) => Oldest(j)')
<1> SUFFICES ASSUME NEW n, n = Len(keyframes) PROVE JobOK(j)' /\ (Oldest(j) => Oldest(j)')
  OBVIOUS
<1>0. n \in Nat /\ j.id \in 1 .. n
  BY DEF SubmapInv, JobOK
<1>1. /\ Len(submaps) \in Nat /\ Len(submaps') \in Nat /\ Len(submaps) <= Len(submaps')
      /\ \A i \in 1 .. Len(submaps') : Kept(i, n)
      /\ \A i \in 1 .. Len(submaps) : i \in 1 .. Len(submaps')
  BY DEF Taken
<1>2. j.owner \in 1 .. Len(submaps) /\ j.id \in submaps[j.owner]
  BY DEF JobOK
<1>3. active # 0 /\ Primary = active /\ Shape(submaps, active, growing, n, config)
  <2>1. active = 0 => submaps = <<>>
    BY DEF SubmapInv
  <2> QED BY <1>2, <2>1 DEF SubmapInv, Primary
<1>4. active \in Nat /\ active <= Len(submaps) /\ 1 <= active
  BY <1>0, <1>3, ShapeTypes
<1>5. \A i \in 1 .. Len(submaps') : j.id \in submaps'[i] => i \in 1 .. Len(submaps) /\ j.id \in submaps[i]
  <2> SUFFICES ASSUME NEW i \in 1 .. Len(submaps'), j.id \in submaps'[i]
               PROVE  i \in 1 .. Len(submaps) /\ j.id \in submaps[i]
    OBVIOUS
  <2>1. j.id # n + 1
    BY <1>0
  <2>2. submaps'[i] \subseteq (IF i \in 1 .. Len(submaps) THEN submaps[i] ELSE {}) \union {n + 1}
    BY <1>1 DEF Kept
  <2> QED BY <2>1, <2>2
<1>6. j.owner \in 1 .. Len(submaps') /\ j.id \in submaps'[j.owner]
  BY <1>1, <1>2 DEF Kept
<1>7. /\ \A i \in 1 .. Len(submaps') :
           j.id \in submaps'[i] => j.owner <= i \/ (j.snapshot = i /\ j.owner = i + 1)
      /\ Oldest(j) => Oldest(j)'
  BY <1>5 DEF JobOK, Oldest
<1>8. j.snapshot \in Nat /\ j.snapshot < active
  BY <1>3 DEF JobOK
<1>9. active' = active \/ active' = active + 1
  BY <1>3 DEF Taken
<1>a. active' = active + 1 => usable
  <2>1. active' # Primary => usable
    BY DEF Taken
  <2> QED BY <1>3, <1>4, <2>1
<1>b. \A i \in 1 .. active' - 1 : i \in Nat /\ 1 <= i /\ i <= active /\ (i = active => active' = active + 1)
  BY <1>4, <1>9
<1>c. Len(submaps) \in Nat /\ Len(submaps') \in Nat /\ Len(submaps) <= Len(submaps')
  BY <1>1
<1>10. \A i \in 1 .. active' - 1 : Filled(j.id, i)' <=> j.snapshot = i
  <2> SUFFICES ASSUME NEW i \in 1 .. active' - 1 PROVE Filled(j.id, i)' <=> j.snapshot = i
    OBVIOUS
  <2>1. i \in Nat /\ i \in 1 .. Len(submaps) /\ i \in 1 .. Len(submaps') /\ i <= active
    BY <1>4, <1>b, <1>c
  <2>2. CASE i < active
    <3>1. submaps'[i] = submaps[i]
      BY <1>1, <1>3, <2>1, <2>2 DEF Kept
    <3>2. i \in 1 .. active - 1
      BY <1>4, <2>1, <2>2
    <3>3. Filled(j.id, i) <=> j.snapshot = i
      BY <3>2 DEF JobOK
    <3> QED BY <3>1, <3>3 DEF Filled
  <2>3. CASE i = active
    <3>1. usable
      BY <1>a, <1>b, <2>3
    <3>2. n + 1 \in submaps'[active]
      BY <1>3, <3>1 DEF Taken
    <3>3. ~ Filled(j.id, i)'
      BY <1>0, <2>3, <3>2 DEF Filled
    <3>4. j.snapshot # i
      BY <1>4, <1>8, <2>3
    <3> QED BY <3>3, <3>4
  <2> QED BY <1>4, <2>1, <2>2, <2>3
<1>11. j.snapshot < active'
  BY <1>4, <1>8, <1>9
<1>12. j.id \in 1 .. Len(keyframes') /\ j \in [id : Nat, owner : Nat, snapshot : Nat]
  <2>1. j \in [id : Nat, owner : Nat, snapshot : Nat]
    BY DEF JobOK
  <2> QED BY <1>0, <2>1
<1> QED BY <1>6, <1>7, <1>8, <1>10, <1>11, <1>12 DEF JobOK

NewJob(id) == [id |-> id, owner |-> Owner, snapshot |-> finished']

LEMMA NewJobIsOK ==
  ASSUME SubmapInv, Len(keyframes') = Len(keyframes) + 1, NEW n, n = Len(keyframes),
         Taken(TRUE, n), initialized => active # 0, NEW j, j = NewJob(n + 1)
  PROVE  j = BackendJob(n + 1, Owner) /\ JobOK(j)' /\ (initialized => Oldest(j)')
<1>0. n \in Nat
  BY DEF SubmapInv
<1>1. /\ Primary \in Nat /\ 1 <= Primary /\ Primary <= active'
      /\ active' \in {Primary, Primary + 1}
      /\ active' <= Len(submaps') /\ Len(submaps') \in Nat /\ Len(submaps) \in Nat
      /\ Primary <= Len(submaps) + 1
      /\ finished' = IF active' = Primary THEN 0 ELSE Primary
  BY DEF Taken
<1>o. Owner \in {Primary, active'} /\ (initialized => Owner = Primary)
  BY DEF Owner, Primary
<1>2. j = [id |-> n + 1, owner |-> Owner, snapshot |-> finished']
  BY DEF NewJob
<1>a. j = BackendJob(n + 1, Owner)
  <2>1. (IF started' THEN finished' ELSE 0) = finished'
    BY DEF Taken
  <2> QED BY <1>2, <2>1 DEF BackendJob
<1>b. active' # Primary => finished' = Primary
  BY <1>1
<1>c. \A i \in 1 .. active' - 1 : i \in 1 .. Primary - 1 \/ (i = Primary /\ active' # Primary)
  <2>1. Primary \in Nat /\ 1 <= Primary /\ (active' = Primary \/ active' = Primary + 1)
    BY <1>1
  <2> QED BY <2>1
<1>3. /\ n + 1 \in submaps'[Primary] /\ n + 1 \in submaps'[active']
      /\ \A i \in 1 .. Len(submaps') : Kept(i, n)
  BY DEF Taken
<1>4. \A i \in 1 .. Primary - 1 : submaps'[i] \in SUBSET (1 .. n) /\ n + 1 \notin submaps'[i]
  <2> SUFFICES ASSUME NEW i \in 1 .. Primary - 1
               PROVE  submaps'[i] \in SUBSET (1 .. n) /\ n + 1 \notin submaps'[i]
    OBVIOUS
  <2>1. i \in 1 .. Len(submaps') /\ i < Primary /\ i \in 1 .. Len(submaps) /\ i # 0 /\ Primary # 1
    BY <1>1
  <2>2. submaps'[i] = submaps[i]
    BY <1>3, <2>1 DEF Kept
  <2>3. Shape(submaps, active, growing, n, config)
    BY <2>1 DEF SubmapInv, Primary
  <2>4. submaps[i] \in SUBSET (1 .. n)
    BY <1>0, <2>1, <2>3, ShapeTypes
  <2> QED BY <1>0, <2>2, <2>4
<1>5. \A i \in 1 .. Len(submaps') : n + 1 \in submaps'[i] => Primary <= i
  BY <1>1, <1>4
<1>6. finished' \in Nat /\ finished' < active'
  BY <1>1
<1>7. \A i \in 1 .. active' - 1 : Filled(n + 1, i)' <=> finished' = i
  <2> SUFFICES ASSUME NEW i \in 1 .. active' - 1 PROVE Filled(n + 1, i)' <=> finished' = i
    OBVIOUS
  <2>1. CASE i \in 1 .. Primary - 1
    <3>1. finished' # i
      BY <1>1, <2>1
    <3> QED BY <1>4, <2>1, <3>1 DEF Filled
  <2>2. CASE i = Primary
    <3>1. finished' = Primary
      <4>1. Primary \in Nat
        BY <1>1
      <4>2. active' # Primary
        BY <1>c, <2>2, <4>1
      <4> QED BY <1>b, <4>2
    <3>2. Shape(submaps', active', growing', n + 1, config)
      BY DEF Taken
    <3>3. submaps'[Primary] \in SUBSET (1 .. n + 1)
      <4>1. Primary \in 1 .. Len(submaps') /\ n + 1 \in Nat
        BY <1>0, <1>1
      <4> QED BY <3>2, <4>1, ShapeTypes
    <3>4. \A k \in submaps'[Primary] : k <= n + 1
      BY <3>3
    <3> QED BY <1>3, <2>2, <3>1, <3>4 DEF Filled
  <2> QED BY <1>c, <2>1, <2>2
<1>8. JobOK(j)'
  <2>1. j.id = n + 1 /\ j.owner = Owner /\ j.snapshot = finished'
    BY <1>2
  <2>2. j \in [id : Nat, owner : Nat, snapshot : Nat]
    BY <1>0, <1>1, <1>o, <1>2, <1>6
  <2>3. /\ n + 1 \in 1 .. Len(keyframes') /\ Owner \in 1 .. Len(submaps')
        /\ n + 1 \in submaps'[Owner]
    BY <1>0, <1>1, <1>o, <1>3
  <2>4. \A i \in 1 .. Len(submaps') :
          n + 1 \in submaps'[i] => Owner <= i \/ (finished' = i /\ Owner = i + 1)
    BY <1>1, <1>o, <1>5
  <2> QED BY <1>6, <1>7, <2>1, <2>2, <2>3, <2>4 DEF JobOK
<1>9. initialized => Oldest(j)'
  <2>1. j.id = n + 1 /\ j.owner = Owner
    BY <1>2
  <2> QED BY <1>o, <1>5, <2>1 DEF Oldest
<1> QED BY <1>8, <1>9, <1>a

LEMMA SubmapsStay ==
  ASSUME SubmapInv, CloudInv, keyframes \in Seq(Poses), NEW p, keyframes' = Append(keyframes, p),
         p \in Poses, NEW usable \in BOOLEAN, AddKeyframe(Len(keyframes) + 1, usable)
  PROVE  /\ SubmapInv' /\ CloudInv'
         /\ Taken(usable, Len(keyframes)) /\ Len(keyframes') = Len(keyframes) + 1
         /\ started' \in BOOLEAN /\ finished' \in Nat
         /\ \A i \in DOMAIN clouds : i \in DOMAIN clouds' /\ clouds[i] \subseteq clouds'[i]
<1> SUFFICES ASSUME NEW n, n = Len(keyframes)
             PROVE  /\ SubmapInv' /\ CloudInv'
                    /\ Taken(usable, n) /\ Len(keyframes') = n + 1
                    /\ started' \in BOOLEAN /\ finished' \in Nat
                    /\ \A i \in DOMAIN clouds : i \in DOMAIN clouds' /\ clouds[i] \subseteq clouds'[i]
  OBVIOUS
<1>1. Taken(usable, n)
  BY AddKeyframeTakes
<1>2. n \in Nat /\ Len(keyframes') = n + 1
  BY AppendProperties DEF SubmapInv
<1>3. SubmapInv'
  BY <1>1, <1>2 DEF SubmapInv, Taken
<1>4. /\ clouds' \in Seq(SUBSET Nat) /\ DOMAIN clouds' = DOMAIN submaps'
      /\ \A i \in DOMAIN submaps' : clouds'[i] \subseteq submaps'[i]
      /\ \A i \in DOMAIN clouds : i \in DOMAIN clouds' /\ clouds[i] \subseteq clouds'[i]
  BY <1>2, CloudsFollow DEF CloudInv
<1>5. submaps' \in Seq(SUBSET Nat)
  <2>1. submaps' \in Seq(SUBSET (1 .. n + 1))
    BY <1>1 DEF Taken, Shape
  <2> QED BY <2>1
<1>6. started' \in BOOLEAN
  BY DEF AddKeyframe
<1>7. finished' \in Nat
  BY <1>1 DEF Taken
<1> QED BY <1>1, <1>2, <1>3, <1>4, <1>5, <1>6, <1>7 DEF CloudInv

LEMMA KeyframeKeeps ==
  ASSUME MapInv, initialized <=> jobs # <<>>,
         NEW p \in Poses, NEW done \in Progress, Keyframe(p, done)
  PROVE  /\ MapInv'
         /\ IF done = "all" THEN jobs' # <<>> ELSE jobs' = jobs
<1> SUFFICES ASSUME NEW n, n = Len(keyframes)
             PROVE  /\ MapInv'
                    /\ IF done = "all" THEN jobs' # <<>> ELSE jobs' = jobs
  OBVIOUS
<1>1. /\ SubmapInv /\ CloudInv /\ CommitInv /\ keyframes \in Seq(Poses)
      /\ jobs \in Seq([id : Nat, owner : Nat, snapshot : Nat])
      /\ (\A j \in DOMAIN jobs : JobOK(jobs[j])) /\ OwnerInv
      /\ lastKeyframe \subseteq Poses /\ target \subseteq [submap : Nat, cloud : SUBSET Nat]
  BY DEF MapInv
<1>2. keyframes' = Append(keyframes, p) /\ AddKeyframe(n + 1, done # "stored")
  BY DEF Keyframe
<1>3. /\ SubmapInv' /\ CloudInv'
      /\ Taken(done # "stored", n) /\ Len(keyframes') = n + 1
      /\ started' \in BOOLEAN /\ finished' \in Nat
      /\ \A i \in DOMAIN clouds : i \in DOMAIN clouds' /\ clouds[i] \subseteq clouds'[i]
  BY <1>1, <1>2, SubmapsStay
<1>4. /\ keyframes' \in Seq(Poses) /\ n \in Nat
      /\ keyframes'[n + 1] = p /\ \A i \in 1 .. n : keyframes'[i] = keyframes[i]
  BY <1>1, <1>2, AppendProperties DEF SubmapInv
<1>5. \A o : JobOK(o) => JobOK(o)' /\ (Oldest(o) => Oldest(o)')
  BY <1>1, <1>3, OldJobsStay
<1>6. n \in Nat /\ DOMAIN jobs = 1 .. Len(jobs) /\ Len(jobs) \in Nat
  BY <1>1, <1>4, LenProperties
<1>7. active' # 0 /\ active' \in 1 .. Len(submaps') /\ active' \in Nat
  <2>1. Shape(submaps', active', growing', n + 1, config) /\ active' # 0
    BY <1>3 DEF Taken
  <2>2. active' \in 1 .. Len(submaps') /\ submaps' \in Seq(SUBSET (1 .. n + 1))
    BY <2>1 DEF Shape
  <2>3. Len(submaps') \in Nat
    BY <2>2, LenProperties
  <2> QED BY <2>1, <2>2, <2>3
<1>8. CASE done # "all"
  <2>1. UNCHANGED <<target, jobs, lastKeyframe>>
    BY <1>8 DEF Keyframe
  <2>2. \A j \in DOMAIN jobs' : (JobOK(jobs[j]))'
    <3>1. \A j \in DOMAIN jobs : JobOK(jobs[j])
      BY <1>1
    <3> SUFFICES ASSUME NEW j \in DOMAIN jobs, NEW o, o = jobs[j] PROVE JobOK(o)'
      BY <2>1 DEF JobOK
    <3> QED BY <1>5, <3>1
  <2>a. OwnerInv'
    <3> SUFFICES ASSUME NEW j \in DOMAIN jobs, j # 1, NEW o, o = jobs[j] PROVE Oldest(o)'
      BY <2>1 DEF OwnerInv, Oldest
    <3> QED BY <1>1, <1>5 DEF OwnerInv
  <2>3. CommitInv'
    <3> SUFFICES ASSUME jobs # <<>>, NEW last, last = jobs[Len(jobs)].id
                 PROVE  /\ last \in 1 .. Len(keyframes') /\ active' # 0
                        /\ lastKeyframe = {keyframes'[last]}
                        /\ \E t \in target : /\ t.submap \in 1 .. Len(submaps')
                                            /\ last \in submaps'[t.submap]
                                            /\ t.cloud \subseteq clouds'[t.submap]
                        /\ last # Len(keyframes')
      BY <2>1 DEF CommitInv
    <3>1. /\ last \in 1 .. n /\ lastKeyframe = {keyframes[last]}
          /\ \E t \in target : /\ t.submap \in 1 .. Len(submaps) /\ last \in submaps[t.submap]
                              /\ t.cloud \subseteq clouds[t.submap]
      BY <1>1 DEF CommitInv
    <3>2. last \in 1 .. n + 1 /\ last # n + 1 /\ keyframes'[last] = keyframes[last]
      BY <1>4, <3>1
    <3>3. PICK t \in target : /\ t.submap \in 1 .. Len(submaps) /\ last \in submaps[t.submap]
                              /\ t.cloud \subseteq clouds[t.submap]
      BY <3>1
    <3>4. t.submap \in 1 .. Len(submaps') /\ submaps[t.submap] \subseteq submaps'[t.submap]
      <4>1. Len(submaps) \in Nat /\ Len(submaps') \in Nat /\ Len(submaps) <= Len(submaps')
        BY <1>3 DEF Taken
      <4>2. t.submap \in 1 .. Len(submaps')
        BY <3>3, <4>1
      <4>3. Kept(t.submap, n)
        BY <1>3, <4>2 DEF Taken
      <4> QED BY <3>3, <4>2, <4>3 DEF Kept
    <3>5. clouds[t.submap] \subseteq clouds'[t.submap]
      <4>1. t.submap \in DOMAIN clouds
        BY <1>1, <3>3, LenProperties DEF CloudInv
      <4> QED BY <1>3, <4>1
    <3> QED BY <1>3, <1>7, <3>1, <3>2, <3>3, <3>4, <3>5
  <2>4. /\ jobs' \in Seq([id : Nat, owner : Nat, snapshot : Nat])
        /\ lastKeyframe' \subseteq Poses /\ target' \subseteq [submap : Nat, cloud : SUBSET Nat]
        /\ jobs' = jobs
    BY <1>1, <2>1
  <2> QED BY <1>3, <1>4, <1>8, <2>2, <2>a, <2>3, <2>4 DEF MapInv
<1>9. CASE done = "all"
  <2>1. PICK new : new = NewJob(n + 1)
    OBVIOUS
  <2>2. Taken(TRUE, n)
    BY <1>3, <1>9
  <2>a. initialized => active # 0
    BY <1>1 DEF CommitInv
  <2>3. /\ new = BackendJob(n + 1, Owner) /\ JobOK(new)' /\ new.id = n + 1
        /\ initialized => Oldest(new)'
    BY <1>1, <1>3, <2>1, <2>2, <2>a, NewJobIsOK DEF NewJob
  <2>4. /\ jobs' = Append(jobs, new) /\ target' = {TrackingMap'} /\ lastKeyframe' = {p}
    BY <1>9, <2>3 DEF Keyframe
  <2>5. new \in [id : Nat, owner : Nat, snapshot : Nat]
    BY <2>3 DEF JobOK
  <2>6. /\ jobs' \in Seq([id : Nat, owner : Nat, snapshot : Nat]) /\ jobs' # <<>>
        /\ Len(jobs') = Len(jobs) + 1 /\ DOMAIN jobs' = 1 .. Len(jobs) + 1
        /\ jobs'[Len(jobs) + 1] = new /\ \A j \in 1 .. Len(jobs) : jobs'[j] = jobs[j]
    BY <1>1, <2>4, <2>5, AppendProperties, LenProperties
  <2>7. \A j \in DOMAIN jobs' : (JobOK(jobs[j]))'
    <3> SUFFICES ASSUME NEW j \in DOMAIN jobs', NEW o, o = jobs'[j] PROVE JobOK(o)'
      BY DEF JobOK
    <3>1. CASE j \in 1 .. Len(jobs)
      <4>1. o = jobs[j] /\ j \in DOMAIN jobs
        BY <1>6, <2>6, <3>1
      <4> QED BY <1>1, <1>5, <4>1
    <3>2. CASE j = Len(jobs) + 1
      BY <2>3, <2>6, <3>2
    <3> QED BY <1>6, <2>6, <3>1, <3>2
  <2>b. OwnerInv'
    <3> SUFFICES ASSUME NEW j \in DOMAIN jobs', j # 1, NEW o, o = jobs'[j] PROVE Oldest(o)'
      BY DEF OwnerInv, Oldest
    <3>1. CASE j \in 1 .. Len(jobs)
      <4>1. o = jobs[j] /\ j \in DOMAIN jobs
        BY <1>6, <2>6, <3>1
      <4> QED BY <1>1, <1>5, <4>1 DEF OwnerInv
    <3>2. CASE j = Len(jobs) + 1
      <4>1. initialized
        <5>1. Len(jobs) # 0
          BY <3>2
        <5> QED BY <1>1, <5>1, EmptySeq
      <4> QED BY <2>3, <2>6, <3>2, <4>1
    <3> QED BY <1>6, <2>6, <3>1, <3>2
  <2>8. TrackingMap' = [submap |-> active', cloud |-> clouds'[active']]
    BY DEF TrackingMap
  <2>9. clouds'[active'] \in SUBSET Nat
    <3>1. clouds' \in Seq(SUBSET Nat) /\ DOMAIN clouds' = DOMAIN submaps' /\ submaps' \in Seq(SUBSET Nat)
      BY <1>3 DEF CloudInv
    <3>2. active' \in 1 .. Len(clouds')
      BY <1>7, <3>1, LenProperties
    <3> QED BY <3>1, <3>2, ElementOfSeq
  <2>10. CommitInv'
    <3>1. jobs'[Len(jobs')].id = n + 1
      BY <2>3, <2>6
    <3>2. n + 1 \in submaps'[active']
      BY <2>2 DEF Taken
    <3>3. /\ [submap |-> active', cloud |-> clouds'[active']].submap = active'
          /\ [submap |-> active', cloud |-> clouds'[active']].cloud = clouds'[active']
      OBVIOUS
    <3>4. \E t \in target' : /\ t.submap \in 1 .. Len(submaps') /\ n + 1 \in submaps'[t.submap]
                            /\ t.cloud \subseteq clouds'[t.submap]
      BY <1>7, <2>4, <2>8, <3>2, <3>3
    <3>5. lastKeyframe' = {keyframes'[n + 1]} /\ n + 1 \in 1 .. Len(keyframes')
      BY <1>3, <1>4, <2>4
    <3> QED BY <1>7, <2>4, <3>1, <3>4, <3>5 DEF CommitInv
  <2>11. target' \subseteq [submap : Nat, cloud : SUBSET Nat] /\ lastKeyframe' \subseteq Poses
    BY <1>7, <2>4, <2>8, <2>9
  <2> QED BY <1>3, <1>4, <1>9, <2>6, <2>7, <2>b, <2>10, <2>11 DEF MapInv
<1> QED BY <1>8, <1>9

-----------------------------------------------------------------------------
(* Scans *)

TrackInv ==
  /\ node \in Nodes /\ scan \in Nat /\ scan <= MaxScans /\ initialized \in BOOLEAN
  /\ pose \in Nat /\ pose <= scan /\ rejected \in Nat
  /\ lastRejected \in Nat /\ lastRejected <= scan
  /\ motion \in [from : Nat, to : Nat] /\ motion.from <= scan /\ motion.to <= scan
  /\ initialized <=> jobs # <<>>
  /\ rejected = 0 => lastRejected <= pose
  /\ ~(motion.from < lastRejected /\ lastRejected < motion.to)
  /\ ~initialized \/ node = "lio" => lastRejected = 0

FrontendInv == MapInv /\ TrackInv

LEMMA MapInvStays ==
  ASSUME MapInv, UNCHANGED submapVars, UNCHANGED keyframeVars
  PROVE  MapInv'
<1>1. /\ UNCHANGED <<config, submaps, clouds, active, growing, started, finished>>
      /\ UNCHANGED <<lastKeyframe, keyframes, target, jobs>>
  BY DEF submapVars, keyframeVars
<1>2. SubmapInv' /\ CloudInv'
  BY <1>1 DEF MapInv, SubmapInv, CloudInv
<1>3. CommitInv'
  BY <1>1 DEF MapInv, CommitInv, TrackingMap
<1>4. (\A j \in DOMAIN jobs' : (JobOK(jobs[j]))') /\ OwnerInv'
  BY <1>1 DEF MapInv, JobOK, Filled, OwnerInv, Oldest
<1> QED BY <1>1, <1>2, <1>3, <1>4 DEF MapInv

LEMMA ScanAdvances ==
  ASSUME TrackInv, NextScan
  PROVE  /\ scan' = scan + 1 /\ scan' \in Nat /\ scan' <= MaxScans /\ scan' \in Poses
         /\ node' = node /\ 0 \in Poses
BY FrontendAssumption DEF TrackInv, NextScan, Poses

LEMMA FrontendInvInit == Init => FrontendInv
<1> SUFFICES ASSUME Init PROVE FrontendInv
  OBVIOUS
<1>1. Clamped(config)
  <2>1. PICK c \in Configs : config = Clamp(c)
    BY DEF Init, SubmapInit
  <2>2. c \in [size : Nat, overlap : Nat]
    BY ConfigAssumption
  <2>3. c.size \in Nat /\ c.overlap \in Nat
    BY <2>2
  <2> DEFINE z == IF c.size < 2 THEN 2 ELSE c.size
             o == IF c.overlap = 0 THEN 1 ELSE IF c.overlap >= z THEN z - 1 ELSE c.overlap
  <2>4. z \in Nat /\ o \in Nat /\ 1 <= o /\ o <= z - 1
    BY <2>3
  <2>5. config = [size |-> z, overlap |-> o]
    BY <2>1 DEF Clamp
  <2> HIDE DEF z, o
  <2> QED BY <2>4, <2>5 DEF Clamped
<1>2. /\ submaps = <<>> /\ clouds = <<>> /\ active = 0 /\ growing = 0 /\ started = FALSE /\ finished = 0
      /\ lastKeyframe = {} /\ keyframes = <<>> /\ target = {} /\ jobs = <<>>
  BY DEF Init, SubmapInit
<1>3. Len(submaps) = 0 /\ Len(keyframes) = 0 /\ DOMAIN jobs = {} /\ DOMAIN clouds = DOMAIN submaps
  BY <1>2, EmptySeq, LenProperties
<1>4. /\ submaps \in Seq(SUBSET Nat) /\ clouds \in Seq(SUBSET Nat) /\ keyframes \in Seq(Poses)
      /\ jobs \in Seq([id : Nat, owner : Nat, snapshot : Nat])
  BY <1>2, EmptySeq
<1>5. SubmapInv
  BY <1>1, <1>2, <1>3 DEF SubmapInv
<1>6. CloudInv
  BY <1>2, <1>3, <1>4 DEF CloudInv
<1>7. MapInv
  BY <1>2, <1>3, <1>4, <1>5, <1>6 DEF MapInv, CommitInv, OwnerInv
<1>8. /\ node \in Nodes /\ scan = 0 /\ initialized = FALSE /\ pose = 0 /\ rejected = 0
      /\ lastRejected = 0 /\ MaxScans \in Nat
  BY FrontendAssumption DEF Init
<1>9. motion \in [from : Nat, to : Nat] /\ motion.from = 0 /\ motion.to = 0
  BY DEF Init
<1>10. /\ scan <= MaxScans /\ pose <= scan /\ lastRejected <= scan /\ lastRejected <= pose
       /\ motion.from <= scan /\ motion.to <= scan /\ ~(motion.from < lastRejected)
  BY <1>8, <1>9
<1>11. /\ scan \in Nat /\ pose \in Nat /\ rejected \in Nat /\ lastRejected \in Nat
       /\ initialized \in BOOLEAN /\ ~initialized
  BY <1>8
<1>12. TrackInv
  BY <1>2, <1>8, <1>9, <1>10, <1>11 DEF TrackInv
<1> QED BY <1>7, <1>12 DEF FrontendInv

LEMMA FrontendInvNext == FrontendInv /\ [Next]_vars => FrontendInv'
<1> SUFFICES ASSUME FrontendInv, [Next]_vars PROVE FrontendInv'
  OBVIOUS
<1> USE FrontendAssumption
<1>0. MapInv /\ TrackInv
  BY DEF FrontendInv
<1>1. CASE LoseScan
  <2>1. MapInv'
    BY <1>0, <1>1, MapInvStays DEF LoseScan
  <2>2. TrackInv'
    BY <1>0, <1>1, ScanAdvances DEF LoseScan, TrackInv, trackVars, keyframeVars
  <2> QED BY <2>1, <2>2 DEF FrontendInv
<1>2. ASSUME NEW a \in Attempts, RejectFrame(a) PROVE FrontendInv'
  <2>1. MapInv'
    BY <1>0, <1>2, MapInvStays DEF RejectFrame, NoKeyframe
  <2>2. TrackInv'
    BY <1>0, <1>2, ScanAdvances DEF RejectFrame, NoKeyframe, TrackInv, keyframeVars
  <2> QED BY <2>1, <2>2 DEF FrontendInv
<1>3. ASSUME NEW a \in Attempts, NEW jump \in BOOLEAN, AcceptFrame(a, jump) PROVE FrontendInv'
  <2>1. scan' \in Poses /\ "all" \in Progress
    BY <1>0, <1>3, ScanAdvances DEF AcceptFrame, Progress
  <2>2. MapInv' /\ jobs' # <<>>
    <3>0. jobs # <<>>
      BY <1>0, <1>3 DEF TrackInv, AcceptFrame
    <3>1. CASE NoKeyframe
      BY <1>0, <3>0, <3>1, MapInvStays DEF NoKeyframe, keyframeVars
    <3>2. CASE Keyframe(scan', "all")
      BY <1>0, <2>1, <3>2, KeyframeKeeps DEF TrackInv
    <3> QED BY <1>3, <3>1, <3>2 DEF AcceptFrame
  <2>3. TrackInv'
    BY <1>0, <1>3, <2>2, ScanAdvances DEF AcceptFrame, TrackInv
  <2> QED BY <2>2, <2>3 DEF FrontendInv
<1>4. CASE CommitFrame
  <2>1. scan' \in Poses /\ "all" \in Progress
    BY <1>0, <1>4, ScanAdvances DEF CommitFrame, Progress
  <2>2. MapInv' /\ jobs' # <<>>
    <3>0. jobs # <<>>
      BY <1>0, <1>4 DEF TrackInv, CommitFrame
    <3>1. CASE NoKeyframe
      BY <1>0, <3>0, <3>1, MapInvStays DEF NoKeyframe, keyframeVars
    <3>2. CASE Keyframe(scan', "all")
      BY <1>0, <2>1, <3>2, KeyframeKeeps DEF TrackInv
    <3> QED BY <1>4, <3>1, <3>2 DEF CommitFrame
  <2>3. TrackInv'
    BY <1>0, <1>4, <2>2, ScanAdvances DEF CommitFrame, TrackInv
  <2> QED BY <2>2, <2>3 DEF FrontendInv
<1>5. ASSUME NEW done \in Progress, AddFirstFrame(done) PROVE FrontendInv'
  <2>1. MapInv' /\ (done = "all" <=> jobs' # <<>>)
    BY <1>0, <1>5, ScanAdvances, KeyframeKeeps DEF AddFirstFrame, TrackInv
  <2>2. /\ initialized' \in BOOLEAN /\ (initialized' <=> jobs' # <<>>)
        /\ ~initialized /\ pose' = 0 /\ rejected' = 0 /\ lastRejected' = lastRejected
        /\ motion' = [from |-> 0, to |-> 0] /\ NextScan
    BY <1>5, <2>1 DEF AddFirstFrame
  <2>3. motion' \in [from : Nat, to : Nat] /\ motion'.from = 0 /\ motion'.to = 0
    BY <2>2
  <2>4. lastRejected = 0
    BY <1>0, <2>2 DEF TrackInv
  <2>5. TrackInv'
    BY <1>0, <2>2, <2>3, <2>4, ScanAdvances DEF TrackInv
  <2> QED BY <2>1, <2>5 DEF FrontendInv
<1>6. ASSUME NEW done \in Progress, CommitFirstFrame(done) PROVE FrontendInv'
  <2>1. MapInv' /\ (done = "all" <=> jobs' # <<>>)
    BY <1>0, <1>6, ScanAdvances, KeyframeKeeps DEF CommitFirstFrame, TrackInv
  <2>2. /\ initialized' \in BOOLEAN /\ (initialized' <=> jobs' # <<>>)
        /\ ~initialized /\ pose' = scan' /\ rejected' = 0 /\ lastRejected' = lastRejected
        /\ motion' = [from |-> 0, to |-> 0] /\ NextScan
    BY <1>6, <2>1 DEF CommitFirstFrame
  <2>3. motion' \in [from : Nat, to : Nat] /\ motion'.from = 0 /\ motion'.to = 0
    BY <2>2
  <2>4. lastRejected = 0
    BY <1>0, <2>2 DEF TrackInv
  <2>5. TrackInv'
    BY <1>0, <2>2, <2>3, <2>4, ScanAdvances DEF TrackInv
  <2> QED BY <2>1, <2>5 DEF FrontendInv
<1>7. ASSUME NEW done \in Progress, FailKeyframe(done) \/ FailCommit(done) PROVE FrontendInv'
  <2>1. NextScan /\ Keyframe(scan', done) /\ UNCHANGED trackVars
    BY <1>7 DEF FailKeyframe, FailCommit
  <2>a. done # "all"
    BY <1>7 DEF FailKeyframe, FailCommit
  <2>2. MapInv' /\ jobs' = jobs
    BY <1>0, <2>1, <2>a, ScanAdvances, KeyframeKeeps DEF TrackInv
  <2>3. TrackInv'
    BY <1>0, <2>1, <2>2, ScanAdvances DEF TrackInv, trackVars
  <2> QED BY <2>2, <2>3 DEF FrontendInv
<1>8. CASE UNCHANGED vars
  <2>1. UNCHANGED submapVars /\ UNCHANGED keyframeVars /\ UNCHANGED trackVars /\ UNCHANGED <<node, scan>>
    BY <1>8 DEF vars
  <2>2. MapInv'
    BY <1>0, <2>1, MapInvStays
  <2>3. TrackInv'
    BY <1>0, <2>1 DEF TrackInv, trackVars, keyframeVars
  <2> QED BY <2>2, <2>3 DEF FrontendInv
<1> QED BY <1>1, <1>2, <1>3, <1>4, <1>5, <1>6, <1>7, <1>8 DEF Next, Ended

\* Every reachable state is in shape.
THEOREM FrontendInvariant == Spec => []FrontendInv
<1> QED BY FrontendInvInit, FrontendInvNext, PTL DEF Spec

-----------------------------------------------------------------------------
(* The properties *)

LEMMA InvTypeOK == FrontendInv => FrontendTypeOK
<1> SUFFICES ASSUME FrontendInv PROVE FrontendTypeOK
  OBVIOUS
<1>1. MapInv /\ TrackInv /\ SubmapInv /\ CloudInv
  BY DEF FrontendInv, MapInv
<1>2. config \in [size : Nat, overlap : Nat] /\ config.overlap \in 1 .. config.size - 1
  BY <1>1 DEF SubmapInv, Clamped
<1>3. submaps \in Seq(SUBSET Nat) /\ clouds \in Seq(SUBSET Nat)
  BY <1>1 DEF CloudInv
<1>4. active \in Nat /\ growing \in Nat
  <2>1. CASE active = 0
    BY <1>1, <2>1 DEF SubmapInv
  <2>2. CASE active # 0
    <3>1. active \in Nat /\ (growing # 0 => growing = active + 1)
      BY <1>1, <2>2, ShapeTypes DEF SubmapInv
    <3>2. CASE growing = 0
      BY <3>1, <3>2
    <3>3. CASE growing # 0
      BY <3>1, <3>3
    <3> QED BY <3>2, <3>3
  <2> QED BY <2>1, <2>2
<1>5. /\ node \in Nodes /\ scan \in Nat /\ scan <= MaxScans /\ initialized \in BOOLEAN
      /\ pose \in Nat /\ pose <= scan /\ rejected \in Nat
      /\ lastRejected \in Nat /\ lastRejected <= scan
      /\ motion \in [from : Nat, to : Nat] /\ motion.from <= scan /\ motion.to <= scan
      /\ MaxScans \in Nat
  BY <1>1, FrontendAssumption DEF TrackInv
<1>6. /\ scan \in Poses /\ pose \in Poses /\ lastRejected \in Poses
      /\ motion.from \in Poses /\ motion.to \in Poses
  BY <1>5 DEF Poses
<1>7. motion \in [from : Poses, to : Poses]
  BY <1>5, <1>6
<1> QED BY <1>1, <1>2, <1>3, <1>4, <1>5, <1>6, <1>7 DEF MapInv, FrontendTypeOK

\* Every variable has its type, for every configuration and number of scans:
\* in particular the constructor leaves a size and an overlap that fit.
THEOREM FrontendTypeCorrect == Spec => []FrontendTypeOK
<1> QED BY FrontendInvariant, InvTypeOK, PTL

LEMMA BeforeActive ==
  ASSUME NEW m \in Nat, NEW a \in Nat, NEW g, 1 <= a, g = 0 => m = a,
         g # 0 => g = a + 1 /\ m = a + 1, NEW i \in 1 .. m
  PROVE  /\ i \notin {a, g} <=> i < a
         /\ i < a => i \in 1 .. a - 1 /\ i + 1 \in 1 .. m
<1>1. CASE g = 0
  BY <1>1
<1>2. CASE g # 0
  BY <1>2
<1> QED BY <1>1, <1>2

LEMMA FinishedAreBeforeActive ==
  ASSUME SubmapInv
  PROVE  /\ active \in Nat /\ DOMAIN submaps = 1 .. Len(submaps)
         /\ FinishedSubmaps = {i \in DOMAIN submaps : i < active}
         /\ \A i \in FinishedSubmaps : i \in 1 .. active - 1 /\ i + 1 \in DOMAIN submaps
<1>1. CASE active = 0
  <2>1. DOMAIN submaps = {} /\ Len(submaps) = 0 /\ DOMAIN submaps = 1 .. Len(submaps)
    BY <1>1, EmptySeq DEF SubmapInv
  <2> QED BY <1>1, <2>1 DEF FinishedSubmaps
<1>2. CASE active # 0
  <2>1. /\ active \in Nat /\ 1 <= active /\ active <= Len(submaps) /\ Len(submaps) \in Nat
        /\ DOMAIN submaps = 1 .. Len(submaps)
        /\ growing = 0 => Len(submaps) = active
        /\ growing # 0 => growing = active + 1 /\ Len(submaps) = active + 1
    BY <1>2, ShapeTypes DEF SubmapInv
  <2>2. \A i \in 1 .. Len(submaps) :
          /\ i \notin {active, growing} <=> i < active
          /\ i < active => i \in 1 .. active - 1 /\ i + 1 \in 1 .. Len(submaps)
    BY <2>1, BeforeActive
  <2> QED BY <2>1, <2>2 DEF FinishedSubmaps
<1> QED BY <1>1, <1>2

LEMMA InvOverlap == FrontendInv => ConsecutiveSubmapsOverlap
<1> SUFFICES ASSUME FrontendInv PROVE ConsecutiveSubmapsOverlap
  OBVIOUS
<1>1. SubmapInv
  BY DEF FrontendInv, MapInv
<1> SUFFICES ASSUME NEW i \in FinishedSubmaps, NEW shared, shared = submaps[i] \intersect submaps[i + 1]
             PROVE  /\ i + 1 \in DOMAIN submaps
                    /\ Cardinality(submaps[i]) = config.size
                    /\ \/ Cardinality(shared) >= config.overlap
                       \/ Cardinality(shared) >= config.size - config.overlap
                    /\ \A k \in submaps[i] \ shared : \A l \in submaps[i + 1] : k < l
                    /\ \A k \in submaps[i] : \A l \in submaps[i + 1] \ shared : k < l
  BY DEF ConsecutiveSubmapsOverlap
<1>2. i \in 1 .. active - 1 /\ i + 1 \in DOMAIN submaps /\ active # 0
  BY <1>1, FinishedAreBeforeActive
<1>3. Overlap(submaps[i], submaps[i + 1], config)
  BY <1>1, <1>2 DEF SubmapInv, Shape
<1>4. /\ submaps[i] \ shared = submaps[i] \ submaps[i + 1]
      /\ submaps[i + 1] \ shared = submaps[i + 1] \ submaps[i]
  OBVIOUS
<1>5. config.size \in Nat /\ config.overlap \in Nat
  BY <1>1 DEF SubmapInv, Clamped
<1>6. Cardinality(shared) = config.overlap \/ Cardinality(shared) = config.size - config.overlap
  BY <1>3 DEF Overlap, Lags
<1>7. Cardinality(shared) >= config.overlap \/ Cardinality(shared) >= config.size - config.overlap
  BY <1>5, <1>6
<1> QED BY <1>2, <1>3, <1>4, <1>7 DEF Overlap, Precedes

\* Consecutive submaps share a tail and a head of the promised length,
\* whatever keyframes were refused.
THEOREM SubmapsOverlap == Spec => []ConsecutiveSubmapsOverlap
<1> QED BY FrontendInvariant, InvOverlap, PTL

LEMMA InvPrepared == FrontendInv => PromotionIsPrepared
<1> SUFFICES ASSUME FrontendInv, active # 0
             PROVE  /\ Cardinality(submaps[active]) < config.size
                    /\ growing = 0 => Cardinality(submaps[active]) \in 0 .. GrowingStart \union 0 .. config.overlap
                    /\ growing # 0 => /\ submaps[growing] \subseteq submaps[active]
                                      /\ submaps[growing] # submaps[active]
  BY DEF PromotionIsPrepared
<1>1. /\ Clamped(config) /\ Len(keyframes) \in Nat
      /\ Shape(submaps, active, growing, Len(keyframes), config)
  BY DEF FrontendInv, MapInv, SubmapInv
<1>2. submaps[active] \in SUBSET (1 .. Len(keyframes)) /\ Cardinality(submaps[active]) \in Nat
  BY <1>1, ShapeTypes
<1>3. config.size \in Nat /\ config.overlap \in Nat /\ config.overlap <= config.size - 1
  BY <1>1 DEF Clamped
<1>4. ASSUME growing = 0
      PROVE  Cardinality(submaps[active]) \in 0 .. GrowingStart \union 0 .. config.overlap
  <2>1. Cardinality(submaps[active]) \in (0 .. config.size - config.overlap) \union Lags(config)
    BY <1>1, <1>4 DEF Shape
  <2> QED BY <1>2, <1>3, <2>1 DEF Lags, GrowingStart
<1>5. ASSUME growing # 0
      PROVE  submaps[growing] \subseteq submaps[active] /\ submaps[growing] # submaps[active]
  <2>1. Beside(submaps[active], submaps[growing], config)
    BY <1>1, <1>5 DEF Shape
  <2>2. Cardinality(submaps[growing]) < Cardinality(submaps[active])
    BY <1>1, <1>2, <2>1, BesideIsSmaller
  <2> QED BY <1>2, <2>1, <2>2 DEF Beside
<1> QED BY <1>1, <1>4, <1>5 DEF Shape

\* When a submap is full there is one to take its place, and that one is not
\* full itself.
THEOREM PromotionPrepared == Spec => []PromotionIsPrepared
<1> QED BY FrontendInvariant, InvPrepared, PTL

LEMMA InvCommitted == FrontendInv => CommittedTogether
<1> SUFFICES ASSUME FrontendInv, initialized PROVE CommittedTogether
  BY DEF CommittedTogether
<1>1. jobs # <<>> /\ CommitInv /\ SubmapInv
  BY DEF FrontendInv, MapInv, TrackInv
<1> QED BY <1>1 DEF CommitInv, CommittedTogether

\* Detector, target and backend agree on the last keyframe.
THEOREM CommittedTogetherHolds == Spec => []CommittedTogether
<1> QED BY FrontendInvariant, InvCommitted, PTL

LEMMA InvOwners == FrontendInv => OwnersAreOldest
<1> SUFFICES ASSUME FrontendInv PROVE OwnersAreOldest
  OBVIOUS
<1>1. (\A j \in DOMAIN jobs : JobOK(jobs[j])) /\ OwnerInv /\ SubmapInv
  BY DEF FrontendInv, MapInv
<1>2. DOMAIN submaps = 1 .. Len(submaps)
  BY <1>1, FinishedAreBeforeActive
<1> QED BY <1>1, <1>2 DEF JobOK, OwnerInv, Oldest, OwnersAreOldest

\* The backend is told the oldest submap of every keyframe, but of the first it
\* gets, which may have the submap that it filled behind its owner.
THEOREM OwnersOldest == Spec => []OwnersAreOldest
<1> QED BY FrontendInvariant, InvOwners, PTL

LEMMA InvDelivered == FrontendInv => FinishedSubmapsDelivered
<1> SUFFICES ASSUME FrontendInv, NEW i \in FinishedSubmaps, NEW j \in DOMAIN jobs
             PROVE  (\A k \in submaps[i] : k <= jobs[j].id) /\ jobs[j].id \in submaps[i]
                      <=> jobs[j].snapshot = i
  BY DEF FinishedSubmapsDelivered
<1>1. JobOK(jobs[j]) /\ SubmapInv
  BY DEF FrontendInv, MapInv
<1>2. i \in 1 .. active - 1
  BY <1>1, FinishedAreBeforeActive
<1> QED BY <1>1, <1>2 DEF JobOK, Filled

\* A finished submap is handed over with the keyframe that filled it, and with
\* no other.
THEOREM FinishedDelivered == Spec => []FinishedSubmapsDelivered
<1> QED BY FrontendInvariant, InvDelivered, PTL

LEMMA InvMotion == FrontendInv => MotionSpansNoRejection
<1> QED BY DEF FrontendInv, TrackInv, MotionSpansNoRejection

\* The constant-motion model never spans a rejected scan.
THEOREM NoMotionOverRejection == Spec => []MotionSpansNoRejection
<1> QED BY FrontendInvariant, InvMotion, PTL
=============================================================================
