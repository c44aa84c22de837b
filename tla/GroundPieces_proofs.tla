------------------------ MODULE GroundPieces_proofs ------------------------
(***************************************************************************)
(* Proofs about GroundPieces.  A candidate is compared with the active     *)
(* piece only scan by scan.  How far its mean is away follows from an      *)
(* invariant about the sum: a sample that joins is itself away from the    *)
(* piece and near the mean of the others, and the square of the distance   *)
(* that is lost by taking the mean is what the samples differ by.          *)
(***************************************************************************)
EXTENDS GroundPieces, TLAPS

\* A tilt in integers.
Vector == Int \X Int

\* What a sample differs from the piece by, and what it may from the others.
Differ == Square(Required * Trigger)
Agree  == Square(Required * Consistency)

\* n tilts with sum s are, on average, away from ref.
Far(s, n, ref) == Gap(Times(Required, s), Times(n, ref)) + (n * (n - 1)) * Agree >= (n * n) * Differ

Candidate(c, submap, ref) ==
  /\ c \in [tilts : Seq(Tilts), sum : Vector, submap : Nat]
  /\ Len(c.tilts) \in 1 .. Required
  /\ c.submap = submap
  /\ \A i \in DOMAIN c.tilts : Gap(Times(Required, c.tilts[i]), ref) >= Differ
  /\ Far(c.sum, Len(c.tilts), ref)

\* The inductive invariant.
GroundInv ==
  /\ GroundTypeOK
  /\ pending = None \/ Candidate(pending, hinted, reference)

\* What the assumption says of one constant at a time.
LEMMA Parameters ==
  /\ Bootstrap \in Nat /\ Bootstrap >= 1
  /\ Required \in Nat /\ Required >= 1 /\ Required >= 3
  /\ Trigger \in Nat /\ Consistency \in Nat
  /\ \A t \in Tilts : t \in Vector
  /\ \A g \in Gravities : g \in Vector
<1>1. Bootstrap \in Nat /\ Bootstrap >= 1 BY GroundAssumption
<1>2. Required \in Nat /\ Required >= 1 /\ Required >= 3 BY GroundAssumption
<1>3. Trigger \in Nat /\ Consistency \in Nat BY GroundAssumption
<1>4. (\A t \in Tilts : t \in Vector) /\ (\A g \in Gravities : g \in Vector)
  BY GroundAssumption, Zenon DEF Vector
<1> QED BY <1>1, <1>2, <1>3, <1>4

-----------------------------------------------------------------------------
(* Arithmetic *)

\* A product grows with its factor.
LEMMA Monotone ==
  ASSUME NEW n \in Nat, NEW a \in Int, NEW b \in Int, a >= b
  PROVE  n * a >= n * b
<1>1. a - b \in Nat OBVIOUS
<1>2. n * (a - b) \in Nat BY <1>1
<1>3. n * (a - b) = n * a - n * b OBVIOUS
<1> QED BY <1>2, <1>3

\* A positive factor can be taken off both sides.
LEMMA Cancel ==
  ASSUME NEW n \in Nat, n >= 1, NEW a \in Int, NEW b \in Int, n * a >= n * b
  PROVE  a >= b
<1> SUFFICES ASSUME a < b PROVE FALSE OBVIOUS
<1>1. b >= a + 1 OBVIOUS
<1>2. n * b >= n * (a + 1) BY <1>1, Monotone
<1>3. n * (a + 1) = n * a + n OBVIOUS
<1> QED BY <1>2, <1>3

LEMMA SquareFacts ==
  ASSUME NEW a \in Int, NEW b \in Int
  PROVE  /\ Square(a) \in Nat /\ Square(-a) = Square(a) /\ a * b \in Int
         /\ Square(a + b) = Square(a) + 2 * (a * b) + Square(b)
         /\ Square(a - b) = Square(a) - 2 * (a * b) + Square(b)
         /\ Square(a * b) = Square(a) * Square(b)
<1>1. a * a \in Nat
  <2>1. CASE a >= 0 BY <2>1
  <2>2. CASE a < 0
    <3>1. -a \in Nat BY <2>2
    <3>2. (-a) * (-a) \in Nat BY <3>1
    <3>3. (-a) * (-a) = a * a OBVIOUS
    <3> QED BY <3>2, <3>3
  <2> QED BY <2>1, <2>2
<1>2. (-a) * (-a) = a * a OBVIOUS
<1>3. (a + b) * (a + b) = a * a + 2 * (a * b) + b * b OBVIOUS
<1>4. (a - b) * (a - b) = a * a - 2 * (a * b) + b * b OBVIOUS
<1>5. (a * b) * (a * b) = (a * a) * (b * b) OBVIOUS
<1> QED BY <1>1, <1>2, <1>3, <1>4, <1>5 DEF Square

LEMMA SquareGrows ==
  ASSUME NEW a \in Nat, NEW b \in Nat, a <= b
  PROVE  Square(a) <= Square(b)
<1>1. a * b >= a * a /\ b * b >= b * a BY Monotone
<1>2. a * b = b * a /\ a * a \in Int /\ a * b \in Int /\ b * b \in Int OBVIOUS
<1> QED BY <1>1, <1>2 DEF Square

LEMMA VectorFacts ==
  ASSUME NEW a \in Vector, NEW b \in Vector, NEW n \in Int
  PROVE  /\ a[1] \in Int /\ a[2] \in Int /\ a = <<a[1], a[2]>>
         /\ Zero \in Vector /\ Plus(a, b) \in Vector /\ Times(n, a) \in Vector
         /\ Plus(a, b)[1] = a[1] + b[1] /\ Plus(a, b)[2] = a[2] + b[2]
         /\ Times(n, a)[1] = n * a[1] /\ Times(n, a)[2] = n * a[2]
         /\ Gap(a, b) \in Nat
<1>1. a[1] \in Int /\ a[2] \in Int /\ b[1] \in Int /\ b[2] \in Int /\ a = <<a[1], a[2]>>
  BY DEF Vector
<1>2. n * a[1] \in Int /\ n * a[2] \in Int BY <1>1
<1>3. Square(a[1] - b[1]) \in Nat /\ Square(a[2] - b[2]) \in Nat
  <2>1. a[1] - b[1] \in Int /\ a[2] - b[2] \in Int BY <1>1
  <2> QED BY <2>1, SquareFacts
<1> QED BY <1>1, <1>2, <1>3 DEF Vector, Zero, Plus, Times, Gap

LEMMA Entries ==
  ASSUME NEW a \in Vector
  PROVE  a[1] \in Int /\ a[2] \in Int /\ a = <<a[1], a[2]>>
BY DEF Vector

LEMMA VectorTyped ==
  /\ \A a, b \in Vector : Plus(a, b) \in Vector /\ Gap(a, b) \in Nat
  /\ \A n \in Int, a \in Vector : Times(n, a) \in Vector
<1>1. \A a, b \in Vector, n \in Int : Plus(a, b) \in Vector /\ Gap(a, b) \in Nat /\ Times(n, a) \in Vector
  BY VectorFacts
<1> QED BY <1>1

LEMMA SquareTyped ==
  ASSUME NEW a \in Int
  PROVE  Square(a) \in Nat
BY SquareFacts

\* Moving both ends by the same amount keeps the distance.
LEMMA GapMoves ==
  ASSUME NEW a \in Vector, NEW b \in Vector, NEW x \in Vector
  PROVE  /\ Gap(Plus(a, x), Plus(b, x)) = Gap(a, b)
         /\ Gap(a, b) = Gap(b, a) /\ Gap(a, a) = 0
<1>1. /\ a[1] \in Int /\ a[2] \in Int /\ b[1] \in Int /\ b[2] \in Int /\ x[1] \in Int /\ x[2] \in Int
  BY Entries
<1>2. /\ Plus(a, x)[1] - Plus(b, x)[1] = a[1] - b[1]
      /\ Plus(a, x)[2] - Plus(b, x)[2] = a[2] - b[2]
  BY <1>1 DEF Plus
<1>3. /\ b[1] - a[1] = -(a[1] - b[1]) /\ b[2] - a[2] = -(a[2] - b[2])
      /\ a[1] - b[1] \in Int /\ a[2] - b[2] \in Int
  BY <1>1
<1>4. Square(b[1] - a[1]) = Square(a[1] - b[1]) /\ Square(b[2] - a[2]) = Square(a[2] - b[2])
  BY <1>3, SquareFacts
<1>5. a[1] - a[1] = 0 /\ a[2] - a[2] = 0 /\ Square(0) = 0 BY <1>1 DEF Square
<1> QED BY <1>2, <1>4, <1>5 DEF Gap

\* The distance of n times a and n times b.
LEMMA GapScales ==
  ASSUME NEW a \in Vector, NEW b \in Vector, NEW n \in Int
  PROVE  Gap(Times(n, a), Times(n, b)) = Square(n) * Gap(a, b)
<1>1. /\ a[1] \in Int /\ a[2] \in Int /\ b[1] \in Int /\ b[2] \in Int
  BY VectorFacts
<1> DEFINE x == a[1] - b[1]  y == a[2] - b[2]
<1>2. x \in Int /\ y \in Int BY <1>1
<1>3. /\ Times(n, a)[1] - Times(n, b)[1] = n * x
      /\ Times(n, a)[2] - Times(n, b)[2] = n * y
  BY <1>1 DEF Times
<1>4. Gap(a, b) = Square(x) + Square(y) BY DEF Gap
<1>5. Gap(Times(n, a), Times(n, b)) = Square(n * x) + Square(n * y) BY <1>3 DEF Gap
<1> HIDE DEF x, y
<1>6. Square(n * x) = Square(n) * Square(x) /\ Square(n * y) = Square(n) * Square(y)
  BY <1>2, SquareFacts
<1>7. Square(n) \in Int /\ Square(x) \in Int /\ Square(y) \in Int BY <1>2, SquareFacts
<1>8. Square(n) * (Square(x) + Square(y)) = Square(n) * Square(x) + Square(n) * Square(y)
  <2> DEFINE q == Square(n)  u == Square(x)  v == Square(y)
  <2>1. q \in Int /\ u \in Int /\ v \in Int BY <1>7
  <2> HIDE DEF q, u, v
  <2>2. q * (u + v) = q * u + q * v BY <2>1
  <2> QED BY <2>2 DEF q, u, v
<1> QED BY <1>4, <1>5, <1>6, <1>8

LEMMA LimitsTyped == Agree \in Nat /\ Differ \in Nat
<1>1. Required * Trigger \in Int /\ Required * Consistency \in Int BY Parameters
<1> QED BY <1>1, SquareFacts DEF Agree, Differ

-----------------------------------------------------------------------------
(* The mean *)

\* W, U and P are the squares of the distances of n samples and of one more to
\* the piece, and the product of the two vectors.
LEMMA MeanStaysFar ==
  ASSUME NEW n \in Nat, n >= 1, NEW W \in Nat, NEW U \in Nat, NEW P \in Int,
         NEW X \in Nat, NEW Y \in Nat,
         W + (n * (n - 1)) * X >= (n * n) * Y,
         U >= Y,
         W - 2 * (n * P) + (n * n) * U <= (n * n) * X
  PROVE  W + 2 * P + U + ((n + 1) * n) * X >= ((n + 1) * (n + 1)) * Y
<1> DEFINE nW == n * W  nP == n * P  nU == n * U  nnU == n * nU
           nX == n * X  nnX == n * nX  nnnX == n * nnX
           nY == n * Y  nnY == n * nY  nnnY == n * nnY
<1>1. /\ nW \in Int /\ nP \in Int /\ nU \in Int /\ nnU \in Int
      /\ nX \in Nat /\ nnX \in Nat /\ nnnX \in Nat /\ nY \in Nat /\ nnY \in Nat /\ nnnY \in Nat
  OBVIOUS
<1>2. W + nnX - nX >= nnY
  <2>1. (n * (n - 1)) * X = nnX - nX /\ (n * n) * Y = nnY OBVIOUS
  <2> QED BY <2>1
<1>3. nW + nnnX - nnX >= nnnY
  <2>1. n * (W + nnX - nX) >= n * nnY BY <1>1, <1>2, Monotone
  <2>2. n * (W + nnX - nX) = nW + nnnX - nnX
    <3> HIDE DEF nX, nnX
    <3> QED BY ONLY <1>1, n \in Nat, W \in Nat DEF nW, nnX, nnnX
  <2> QED BY <2>1, <2>2
<1>4. nU >= nY BY Monotone
<1>5. nnU >= nnY BY <1>1, <1>4, Monotone
<1>6. W - 2 * nP + nnU <= nnX
  <2>1. (n * n) * U = nnU /\ (n * n) * X = nnX OBVIOUS
  <2> QED BY <2>1
<1> DEFINE L == W + 2 * P + U + ((n + 1) * n) * X  M == ((n + 1) * (n + 1)) * Y
<1>7. n * L = nW + 2 * nP + nU + nnnX + nnX /\ n * M = nnnY + 2 * nnY + nY
  <2>1. L = W + 2 * P + U + nnX + nX /\ M = nnY + 2 * nY + Y OBVIOUS
  <2>2. n * (W + 2 * P + U + nnX + nX) = nW + 2 * nP + nU + nnnX + nnX
    <3>1. \A a, b, c, d, e \in Int : n * (a + 2 * b + c + d + e) = n * a + 2 * (n * b) + n * c + n * d + n * e
      OBVIOUS
    <3>2. n * (W + 2 * P + U + nnX + nX) = n * W + 2 * (n * P) + n * U + n * nnX + n * nX
      BY ONLY <3>1, <1>1, W \in Nat, P \in Int, U \in Nat
    <3> QED BY <3>2
  <2>3. n * (nnY + 2 * nY + Y) = nnnY + 2 * nnY + nY
    <3>1. \A a, b, c \in Int : n * (a + 2 * b + c) = n * a + 2 * (n * b) + n * c OBVIOUS
    <3>2. n * (nnY + 2 * nY + Y) = n * nnY + 2 * (n * nY) + n * Y BY ONLY <3>1, <1>1, Y \in Nat
    <3> QED BY <3>2
  <2> QED BY <2>1, <2>2, <2>3
<1>8. nW + 2 * nP + nU + nnnX + nnX >= nnnY + 2 * nnY + nY
  <2> HIDE DEF nW, nP, nU, nnU, nX, nnX, nnnX, nY, nnY, nnnY
  <2> QED BY ONLY <1>1, <1>2, <1>3, <1>4, <1>5, <1>6, W \in Nat
<1>9. L \in Int /\ M \in Int OBVIOUS
<1>10. n * L >= n * M BY <1>7, <1>8
<1> HIDE DEF L, M
<1>11. L >= M BY ONLY <1>9, <1>10, n \in Nat, n >= 1, Cancel
<1> QED BY <1>11 DEF L, M

\* A further sample that joins keeps the mean away.
LEMMA SumStaysFar ==
  ASSUME NEW n \in Nat, n >= 1, NEW s \in Vector, NEW t \in Vector, NEW ref \in Vector,
         Gap(Times(n, t), s) <= Square(n * Consistency),
         Gap(Times(Required, t), ref) >= Differ,
         Far(s, n, ref)
  PROVE  Far(Plus(s, t), n + 1, ref)
<1> DEFINE R == Required
           w1 == R * s[1] - n * ref[1]  w2 == R * s[2] - n * ref[2]
           u1 == R * t[1] - ref[1]      u2 == R * t[2] - ref[2]
           P  == w1 * u1 + w2 * u2
           W  == Square(w1) + Square(w2)  U == Square(u1) + Square(u2)
<1>0. R \in Nat /\ Consistency \in Nat /\ Trigger \in Nat BY Parameters
<1>1. /\ s[1] \in Int /\ s[2] \in Int /\ t[1] \in Int /\ t[2] \in Int /\ ref[1] \in Int /\ ref[2] \in Int
  BY VectorFacts
<1>2. w1 \in Int /\ w2 \in Int /\ u1 \in Int /\ u2 \in Int BY <1>0, <1>1
<1>3. /\ Gap(Times(R, s), Times(n, ref)) = W /\ Gap(Times(R, t), ref) = U
  BY DEF Gap, Times
<1>4. Gap(Times(R, Plus(s, t)), Times(n + 1, ref)) = Square(w1 + u1) + Square(w2 + u2)
  <2>1. /\ Times(R, Plus(s, t))[1] - Times(n + 1, ref)[1] = w1 + u1
        /\ Times(R, Plus(s, t))[2] - Times(n + 1, ref)[2] = w2 + u2
    <3>1. \A p, q, v \in Int : R * (p + q) - (n + 1) * v = (R * p - n * v) + (R * q - v)
      BY <1>0
    <3>2. /\ R * (s[1] + t[1]) - (n + 1) * ref[1] = w1 + u1
          /\ R * (s[2] + t[2]) - (n + 1) * ref[2] = w2 + u2
      BY <1>1, <3>1
    <3>3. /\ Times(R, Plus(s, t))[1] = R * (s[1] + t[1]) /\ Times(n + 1, ref)[1] = (n + 1) * ref[1]
          /\ Times(R, Plus(s, t))[2] = R * (s[2] + t[2]) /\ Times(n + 1, ref)[2] = (n + 1) * ref[2]
      BY DEF Times, Plus
    <3> QED BY <3>2, <3>3
  <2> QED BY <2>1 DEF Gap
<1>5. Square(R) * Gap(Times(n, t), s) = Square(n * u1 - w1) + Square(n * u2 - w2)
  <2> DEFINE x == n * t[1] - s[1]  y == n * t[2] - s[2]
  <2>1. x \in Int /\ y \in Int BY <1>1
  <2>2. R * x = n * u1 - w1 /\ R * y = n * u2 - w2 BY <1>0, <1>1
  <2>3. Gap(Times(n, t), s) = Square(x) + Square(y) BY DEF Gap, Times
  <2> HIDE DEF x, y, R, u1, u2, w1, w2
  <2>4. Square(R * x) = Square(R) * Square(x) /\ Square(R * y) = Square(R) * Square(y)
    BY ONLY <1>0, <2>1, SquareFacts
  <2>5. Square(R) \in Int /\ Square(x) \in Int /\ Square(y) \in Int BY ONLY <1>0, <2>1, SquareFacts
  <2>6. \A p, q, v \in Int : p * (q + v) = p * q + p * v OBVIOUS
  <2>7. Square(R) * (Square(x) + Square(y)) = Square(R) * Square(x) + Square(R) * Square(y)
    BY ONLY <2>5, <2>6
  <2> QED BY ONLY <2>2, <2>3, <2>4, <2>7
<1> HIDE DEF R, w1, w2, u1, u2
<1>6. P \in Int /\ W \in Nat /\ U \in Nat
  <2>1. w1 * u1 \in Int /\ w2 * u2 \in Int BY <1>2
  <2>2. Square(w1) \in Nat /\ Square(w2) \in Nat /\ Square(u1) \in Nat /\ Square(u2) \in Nat
    BY <1>2, SquareFacts
  <2> QED BY <2>1, <2>2
<1>7. Square(w1 + u1) + Square(w2 + u2) = W + 2 * P + U
  <2>1. /\ Square(w1 + u1) = Square(w1) + 2 * (w1 * u1) + Square(u1)
        /\ Square(w2 + u2) = Square(w2) + 2 * (w2 * u2) + Square(u2)
    BY ONLY <1>2, SquareFacts
  <2>2. /\ Square(w1) \in Int /\ Square(w2) \in Int /\ Square(u1) \in Int /\ Square(u2) \in Int
        /\ w1 * u1 \in Int /\ w2 * u2 \in Int
    BY ONLY <1>2, SquareFacts
  <2> QED BY <2>1, <2>2
<1>8. Square(n * u1 - w1) + Square(n * u2 - w2) = W - 2 * (n * P) + (n * n) * U
  <2>1. \A w, u \in Int : Square(n * u - w) = Square(w) - 2 * (n * (w * u)) + (n * n) * Square(u)
    BY DEF Square
  <2>2. /\ Square(n * u1 - w1) = Square(w1) - 2 * (n * (w1 * u1)) + (n * n) * Square(u1)
        /\ Square(n * u2 - w2) = Square(w2) - 2 * (n * (w2 * u2)) + (n * n) * Square(u2)
    BY ONLY <1>2, <2>1
  <2> DEFINE a == Square(w1)  b == Square(w2)  c == w1 * u1  d == w2 * u2  e == Square(u1)  f == Square(u2)
  <2>3. a \in Int /\ b \in Int /\ c \in Int /\ d \in Int /\ e \in Int /\ f \in Int
    BY ONLY <1>2, SquareFacts
  <2>4. P = c + d /\ W = a + b /\ U = e + f OBVIOUS
  <2>5. /\ Square(n * u1 - w1) = a - 2 * (n * c) + (n * n) * e
        /\ Square(n * u2 - w2) = b - 2 * (n * d) + (n * n) * f
    BY <2>2
  <2> HIDE DEF a, b, c, d, e, f, P, W, U
  <2>6. (a - 2 * (n * c) + (n * n) * e) + (b - 2 * (n * d) + (n * n) * f)
          = (a + b) - 2 * (n * (c + d)) + (n * n) * (e + f)
    BY ONLY <2>3, n \in Nat
  <2> QED BY ONLY <2>4, <2>5, <2>6
<1>9. Square(R) * Gap(Times(n, t), s) <= (n * n) * Agree
  <2>1. Gap(Times(n, t), s) \in Nat BY VectorFacts
  <2>2. Square(R) \in Nat /\ Square(n * Consistency) \in Int
    BY <1>0, SquareTyped, n * Consistency \in Int
  <2>3. Square(R) * Square(n * Consistency) >= Square(R) * Gap(Times(n, t), s)
    BY <2>1, <2>2, Monotone
  <2>4. Square(R) * Square(n * Consistency) = (n * n) * Agree
    BY <1>0 DEF Agree, Square, R
  <2>5. Square(R) * Gap(Times(n, t), s) \in Int /\ Square(R) * Square(n * Consistency) \in Int
    BY <2>1, <2>2
  <2> QED BY ONLY <2>3, <2>4, <2>5
<1>10. Agree \in Nat /\ Differ \in Nat
  BY LimitsTyped
<1>11. /\ W + (n * (n - 1)) * Agree >= (n * n) * Differ
       /\ U >= Differ
       /\ W - 2 * (n * P) + (n * n) * U <= (n * n) * Agree
  <2>1. W + (n * (n - 1)) * Agree >= (n * n) * Differ BY <1>3 DEF Far, R
  <2>2. U >= Differ BY <1>3 DEF R
  <2>3. W - 2 * (n * P) + (n * n) * U <= (n * n) * Agree BY ONLY <1>5, <1>8, <1>9
  <2> QED BY <2>1, <2>2, <2>3
<1>12. Gap(Times(R, Plus(s, t)), Times(n + 1, ref)) = W + 2 * P + U
  BY ONLY <1>4, <1>7
<1> HIDE DEF P, W, U
<1>13. W + 2 * P + U + ((n + 1) * n) * Agree >= ((n + 1) * (n + 1)) * Differ
  BY ONLY <1>6, <1>10, <1>11, n \in Nat, n >= 1, MeanStaysFar
<1>14. n + 1 - 1 = n OBVIOUS
<1> QED BY ONLY <1>12, <1>13, <1>14 DEF Far, R

-----------------------------------------------------------------------------
(* The candidate *)

\* A first sample that differs from the piece is a candidate.
LEMMA BegunIsCandidate ==
  ASSUME GroundTypeOK, NEW seen \in Ground, TerrainChange(seen)
  PROVE  Candidate(Begun(seen.tilt), primary, reference)
<1> DEFINE t == seen.tilt
<1>1. t \in Tilts /\ t \in Vector /\ Required \in Nat /\ Required >= 1
      /\ reference \in Vector /\ primary \in Nat
  <2>1. seen.tilt \in Tilts BY DEF Ground
  <2>2. reference \in Vector /\ primary \in Nat BY DEF GroundTypeOK, Vector
  <2> QED BY <2>1, <2>2, Parameters
<1>2. Gap(Times(Required, t), reference) >= Differ
  BY DEF TerrainChange, Error, Differ
<1>3. Begun(t) \in [tilts : Seq(Tilts), sum : Vector, submap : Nat]
  BY <1>1 DEF Begun
<1>4. /\ Begun(t).tilts = <<t>> /\ Len(Begun(t).tilts) = 1 /\ Begun(t).sum = t
      /\ Begun(t).submap = primary
  BY DEF Begun
<1>5. \A i \in DOMAIN Begun(t).tilts : Begun(t).tilts[i] = t
  BY <1>4
<1>6. Far(t, 1, reference)
  <2>1. Times(1, reference) = reference
    <3>1. reference[1] \in Int /\ reference[2] \in Int /\ reference = <<reference[1], reference[2]>>
      BY <1>1, VectorFacts
    <3>2. 1 * reference[1] = reference[1] /\ 1 * reference[2] = reference[2] BY <3>1
    <3> QED BY <3>1, <3>2 DEF Times
  <2>2. Times(Required, t) \in Vector BY <1>1, VectorTyped
  <2>3. Gap(Times(Required, t), reference) \in Nat BY <1>1, <2>2, VectorFacts
  <2>4. Differ \in Nat /\ Agree \in Nat BY LimitsTyped
  <2>5. (1 * (1 - 1)) * Agree = 0 /\ (1 * 1) * Differ = Differ BY <2>4
  <2> HIDE DEF t
  <2>6. Gap(Times(Required, t), Times(1, reference)) + (1 * (1 - 1)) * Agree >= (1 * 1) * Differ
    BY <1>2, <2>1, <2>3, <2>4, <2>5
  <2> QED BY <2>6 DEF Far
<1> HIDE DEF t
<1>7. Candidate(Begun(t), primary, reference)
  BY <1>1, <1>2, <1>3, <1>4, <1>5, <1>6 DEF Candidate
<1> QED BY <1>7 DEF t

\* What the submap hint leaves of the candidate began in the primary submap.
LEMMA KeptIsCandidate ==
  ASSUME GroundInv
  PROVE  Kept = None \/ (Kept = pending /\ Candidate(Kept, primary, reference))
BY DEF GroundInv, Kept, Hinted

\* Whatever the sample joins or begins is a candidate.
LEMMA AddedIsCandidate ==
  ASSUME GroundInv, NEW seen \in Ground, TerrainChange(seen)
  PROVE  Candidate(Added(seen), primary, reference)
<1> DEFINE n == Len(Kept.tilts)  t == seen.tilt
<1>1. t \in Tilts /\ t \in Vector /\ reference \in Vector /\ primary \in Nat
  <2>1. seen.tilt \in Tilts BY DEF Ground
  <2>2. reference \in Vector /\ primary \in Nat BY DEF GroundInv, GroundTypeOK, Vector
  <2> QED BY <2>1, <2>2, Parameters
<1>2. GroundTypeOK BY DEF GroundInv
<1>3. CASE n > 0 /\ seen.near /\ Gap(Times(n, t), Kept.sum) <= Square(n * Consistency)
  <2>1. Kept # None BY <1>3 DEF None
  <2>2. Kept = pending /\ Candidate(Kept, primary, reference) BY <2>1, KeptIsCandidate
  <2>3. /\ Kept.tilts \in Seq(Tilts) /\ Kept.sum \in Vector /\ Kept.submap = primary
        /\ Kept \in [tilts : Seq(Tilts), sum : Vector, submap : Nat]
    BY <2>2 DEF Candidate
  <2>4. n \in Nat /\ n >= 1 /\ n < Required
    BY <1>2, <1>3, <2>2, <2>3 DEF GroundTypeOK
  <2> DEFINE c == [tilts |-> Append(Kept.tilts, t), sum |-> Plus(Kept.sum, t), submap |-> primary]
  <2>5. Added(seen) = c
    BY <1>3, <2>3 DEF Added
  <2>6. c \in [tilts : Seq(Tilts), sum : Vector, submap : Nat]
    <3>1. Plus(Kept.sum, t) \in Vector BY <1>1, <2>3, VectorFacts
    <3> QED BY <1>1, <2>3, <3>1
  <2>7. Len(c.tilts) = n + 1 /\ n + 1 \in 1 .. Required
    BY <1>1, <2>3, <2>4, Parameters
  <2>8. Gap(Times(Required, t), reference) >= Differ
    BY DEF TerrainChange, Error, Differ
  <2>9. \A i \in DOMAIN c.tilts : Gap(Times(Required, c.tilts[i]), reference) >= Differ
    <3> SUFFICES ASSUME NEW i \in DOMAIN c.tilts
                 PROVE  Gap(Times(Required, c.tilts[i]), reference) >= Differ
      OBVIOUS
    <3>1. i \in 1 .. n + 1 BY <2>6, <2>7
    <3>2. CASE i = n + 1
      <4>1. c.tilts[i] = t BY <1>1, <2>3, <3>2
      <4> QED BY <2>8, <4>1
    <3>3. CASE i # n + 1
      <4>1. i \in DOMAIN Kept.tilts /\ c.tilts[i] = Kept.tilts[i]
        BY <1>1, <2>3, <2>4, <3>1, <3>3
      <4> QED BY <2>2, <4>1 DEF Candidate
    <3> QED BY <3>2, <3>3
  <2>10. Far(c.sum, n + 1, reference)
    <3>1. Far(Kept.sum, n, reference)
      BY <2>2 DEF Candidate
    <3>2. c.sum = Plus(Kept.sum, t) OBVIOUS
    <3> HIDE DEF n, t, c
    <3>3. Gap(Times(n, t), Kept.sum) <= Square(n * Consistency) BY <1>3
    <3>4. Far(Plus(Kept.sum, t), n + 1, reference)
      BY ONLY <1>1, <2>3, <2>4, <2>8, <3>1, <3>3, SumStaysFar
    <3> QED BY <3>2, <3>4
  <2>11. c.submap = primary OBVIOUS
  <2> HIDE DEF c
  <2> QED BY <2>5, <2>6, <2>7, <2>9, <2>10, <2>11 DEF Candidate
<1>4. CASE ~(n > 0 /\ seen.near /\ Gap(Times(n, t), Kept.sum) <= Square(n * Consistency))
  <2>1. Added(seen) = Begun(t) BY <1>4 DEF Added
  <2> QED BY <1>2, <2>1, BegunIsCandidate
<1> QED BY <1>3, <1>4

-----------------------------------------------------------------------------
(* The new piece *)

\* The mean of a mature candidate differs from the piece.
LEMMA MatureDiffers ==
  ASSUME NEW c, NEW submap, NEW ref \in Vector, Candidate(c, submap, ref), Mature(c)
  PROVE  Gap(c.sum, ref) + Agree >= Differ
<1> DEFINE n == Required  G == Gap(c.sum, ref)
<1>1. c.sum \in Vector /\ Len(c.tilts) = n /\ n \in Nat /\ n >= 1
  BY Parameters DEF Candidate, Mature
<1>2. G \in Nat /\ Agree \in Nat /\ Differ \in Nat BY <1>1, VectorFacts, LimitsTyped
<1>3. Gap(Times(n, c.sum), Times(n, ref)) = Square(n) * G BY <1>1, GapScales
<1>4. Gap(Times(n, c.sum), Times(n, ref)) + (n * (n - 1)) * Agree >= (n * n) * Differ
  BY <1>1 DEF Candidate, Far
<1> HIDE DEF n, G
<1>5. (n * n) * G + (n * (n - 1)) * Agree >= (n * n) * Differ BY <1>3, <1>4 DEF Square
<1>6. n * (n * (G + Agree)) >= n * (n * Differ)
  <2>1. (n * n) * G + (n * (n - 1)) * Agree = n * (n * (G + Agree)) - n * Agree
        /\ (n * n) * Differ = n * (n * Differ)
    BY <1>1, <1>2
  <2>2. n * Agree \in Nat /\ n * (n * (G + Agree)) \in Int /\ n * (n * Differ) \in Int BY <1>1, <1>2
  <2> QED BY ONLY <1>5, <2>1, <2>2
<1>7. n * (G + Agree) >= n * Differ
  <2>1. n * (G + Agree) \in Int /\ n * Differ \in Int BY <1>1, <1>2
  <2> QED BY ONLY <1>1, <1>6, <2>1, Cancel
<1>8. G + Agree >= Differ
  <2>1. G + Agree \in Int BY <1>2
  <2> QED BY ONLY <1>1, <1>2, <1>7, <2>1, Cancel
<1> QED BY <1>8 DEF G

-----------------------------------------------------------------------------
(* Types *)

LEMMA NoneIsTyped ==
  /\ None \in [tilts : Seq(Tilts), sum : Vector, submap : Nat]
  /\ Len(None.tilts) = 0 /\ Unknown \in [tilt : Vector, scans : Nat]
BY DEF None, Unknown, Zero, Vector

\* The bootstrap window keeps its length.
LEMMA WindowTyped ==
  ASSUME GroundTypeOK, NEW seen \in Ground, ProcessGroundMeasurement(seen)
  PROVE  /\ window' \in Seq(Tilts) /\ Len(window') <= Bootstrap
         /\ frozen' \in BOOLEAN /\ (frozen => frozen')
<1>1. seen.tilt \in Tilts BY DEF Ground
<1>2. window \in Seq(Tilts) /\ Len(window) <= Bootstrap /\ frozen \in BOOLEAN
  BY DEF GroundTypeOK
<1>3. frozen' \in BOOLEAN /\ (frozen => frozen')
  BY <1>2 DEF ProcessGroundMeasurement
<1>4. window' = window \/ window' = Newest(Append(window, seen.tilt))
  BY DEF ProcessGroundMeasurement
<1>5. CASE window' = Newest(Append(window, seen.tilt))
  <2> DEFINE q == Append(window, seen.tilt)
  <2>1. q \in Seq(Tilts) /\ Len(q) = Len(window) + 1 BY <1>1, <1>2
  <2>2. q # <<>> BY <2>1, <1>2
  <2> HIDE DEF q
  <2>3. Tail(q) \in Seq(Tilts) /\ Len(Tail(q)) = Len(q) - 1 BY <2>1, <2>2
  <2>4. Newest(q) \in Seq(Tilts) /\ Len(Newest(q)) <= Bootstrap
    <3>1. CASE Len(q) > Bootstrap
      <4>1. Newest(q) = Tail(q) BY <3>1 DEF Newest
      <4> QED BY <1>2, <2>1, <2>3, <4>1, Parameters
    <3>2. CASE ~(Len(q) > Bootstrap)
      <4>1. Newest(q) = q BY <3>2 DEF Newest
      <4> QED BY <1>2, <2>1, <3>2, <4>1, Parameters
    <3> QED BY <3>1, <3>2
  <2>5. window' = Newest(q) BY <1>5 DEF q
  <2> QED BY <1>3, <2>4, <2>5
<1> QED BY <1>2, <1>3, <1>4, <1>5

LEMMA SlopeTyped ==
  ASSUME GroundTypeOK, NEW gravity \in Gravities
  PROVE  ActiveSlope(gravity) \in Nat
<1>1. reference \in Vector /\ slope \in Nat BY DEF GroundTypeOK, Vector
<1>2. Slope(reference, gravity) \in Nat
  <2>1. gravity \in Vector /\ Required \in Int BY Parameters
  <2>2. Times(Required, gravity) \in Vector BY <2>1, VectorFacts
  <2> QED BY <1>1, <2>2, VectorFacts DEF Slope
<1> QED BY <1>1, <1>2 DEF ActiveSlope

LEMMA SteadyTyped ==
  ASSUME GroundTypeOK, NEW seen \in Ground
  PROVE  /\ Seen(seen) \in [tilt : Vector, scans : Nat]
         /\ Unknown \in [tilt : Vector, scans : Nat]
<1>1. steady.scans \in Nat BY DEF GroundTypeOK
<1>2. seen.tilt \in Vector BY Parameters DEF Ground
<1>3. Unknown \in [tilt : Vector, scans : Nat] BY NoneIsTyped
<1> QED BY <1>1, <1>2, <1>3 DEF Seen

\* What a scan with ground does to the lifecycle's variables, whatever it decides.
LEMMA ObserveTyped ==
  ASSUME GroundTypeOK, NEW seen \in Ground, Observe(seen)
  PROVE  /\ primary' \in Nat /\ primary' = primary /\ hinted' = primary /\ hinted' \in 0 .. primary'
         /\ window' \in Seq(Tilts) /\ Len(window') <= Bootstrap
         /\ frozen' \in BOOLEAN /\ anchored' \in BOOLEAN /\ (anchored' => frozen')
<1>1. primary' = primary /\ hinted' = primary /\ primary > 0 /\ anchored' = frozen'
  BY DEF Observe
<1>2. primary \in Nat BY DEF GroundTypeOK
<1>3. /\ window' \in Seq(Tilts) /\ Len(window') <= Bootstrap /\ frozen' \in BOOLEAN
  BY WindowTyped DEF Observe
<1> QED BY <1>1, <1>2, <1>3

\* The candidate's part of the type invariant.
PendingTyped(c) ==
  /\ c \in [tilts : Seq(Tilts), sum : Vector, submap : Nat]
  /\ Len(c.tilts) < Required

LEMMA CandidateTyped ==
  ASSUME NEW c, NEW submap, NEW ref,
         c = None \/ (Candidate(c, submap, ref) /\ ~Mature(c))
  PROVE  PendingTyped(c)
<1>1. CASE c = None
  BY <1>1, NoneIsTyped, Parameters DEF PendingTyped
<1>2. CASE Candidate(c, submap, ref) /\ ~Mature(c)
  <2>1. Len(c.tilts) \in 1 .. Required BY <1>2 DEF Candidate
  <2>2. ~(Len(c.tilts) >= Required) BY <1>2 DEF Mature
  <2>3. Len(c.tilts) < Required BY <2>1, <2>2, Parameters
  <2> QED BY <1>2, <2>3 DEF PendingTyped, Candidate
<1> QED BY <1>1, <1>2

-----------------------------------------------------------------------------
(* The invariant *)

LEMMA InitInv == Init => GroundInv
<1> SUFFICES ASSUME Init PROVE GroundInv OBVIOUS
<1>1. PendingTyped(pending) BY CandidateTyped DEF Init
<1>2. Unknown \in [tilt : Vector, scans : Nat] BY NoneIsTyped
<1>3. 0 \in 0 .. MaxPieces BY GroundAssumption
<1>4. <<>> \in Seq(Tilts) /\ Len(<<>>) <= Bootstrap BY Parameters
<1>5. GroundTypeOK
  <2>1. primary = 0 /\ hinted = 0 /\ window = <<>> /\ frozen = FALSE /\ anchored = FALSE
        /\ reference = Zero /\ slope = 0 /\ piece = 0 /\ steady = Unknown
    BY DEF Init
  <2>2. primary \in Nat /\ hinted \in 0 .. primary /\ reference \in Vector /\ slope \in Nat
    BY ONLY <2>1 DEF Zero, Vector
  <2>3. frozen \in BOOLEAN /\ anchored \in BOOLEAN /\ (anchored => frozen) BY ONLY <2>1
  <2>4. window \in Seq(Tilts) /\ Len(window) <= Bootstrap BY ONLY <1>4, <2>1
  <2>5. piece \in 0 .. MaxPieces /\ steady \in [tilt : Vector, scans : Nat] BY ONLY <1>2, <1>3, <2>1
  <2> QED BY ONLY <1>1, <2>2, <2>3, <2>4, <2>5 DEF GroundTypeOK, PendingTyped, Vector
<1> QED BY <1>5 DEF Init, GroundInv

\* An action that leaves pending, its submap and the reference.
LEMMA CandidateKept ==
  ASSUME GroundInv, hinted' = hinted, reference' = reference, pending' = pending
  PROVE  pending' = None \/ Candidate(pending', hinted', reference')
BY DEF GroundInv

\* The candidate after the submap hint, in the next state.
LEMMA KeptCandidate ==
  ASSUME GroundInv, hinted' = primary, reference' = reference, pending' = Kept
  PROVE  /\ pending' = None \/ Candidate(pending', hinted', reference')
         /\ PendingTyped(pending')
<1>1. Kept = None \/ (Kept = pending /\ Candidate(Kept, primary, reference))
  BY KeptIsCandidate
<1>2. PendingTyped(pending) BY DEF GroundInv, GroundTypeOK, PendingTyped, Vector
<1>3. PendingTyped(None) BY CandidateTyped
<1> QED BY <1>1, <1>2, <1>3

LEMMA CollectCandidate ==
  ASSUME GroundInv, NEW seen \in Ground, Collect(seen)
  PROVE  /\ Candidate(pending', hinted', reference')
         /\ PendingTyped(pending')
<1>1. TerrainChange(seen) /\ hinted' = primary /\ reference' = reference
  BY DEF Collect, Observe
<1>2. GroundTypeOK BY DEF GroundInv
<1>3. Candidate(Begun(seen.tilt), primary, reference) BY <1>1, <1>2, BegunIsCandidate
<1>4. Candidate(Added(seen), primary, reference) BY <1>1, AddedIsCandidate
<1>5. ~Mature(Begun(seen.tilt))
  <2>1. Len(Begun(seen.tilt).tilts) = 1 BY DEF Begun
  <2> QED BY <2>1, Parameters DEF Mature
<1>6. \/ ~Mature(Added(seen)) /\ pending' = Added(seen)
      \/ pending' = Begun(seen.tilt)
  BY DEF Collect
<1>7. CASE ~Mature(Added(seen)) /\ pending' = Added(seen)
  BY <1>1, <1>4, <1>7, CandidateTyped
<1>8. CASE pending' = Begun(seen.tilt)
  BY <1>1, <1>3, <1>5, <1>8, CandidateTyped
<1> QED BY <1>6, <1>7, <1>8

LEMMA NextInv == GroundInv /\ [Next]_vars => GroundInv'
<1> SUFFICES ASSUME GroundInv, [Next]_vars PROVE GroundInv' OBVIOUS
<1>0. GroundTypeOK BY DEF GroundInv
<1>1. CASE FirstScan
  <2>1. /\ UNCHANGED <<hinted, anchored, reference, slope, piece, pending, steady>>
        /\ primary = 0 /\ primary' \in {0, 1}
    BY <1>1 DEF FirstScan
  <2>2. /\ window' \in Seq(Tilts) /\ Len(window') <= Bootstrap
        /\ frozen' \in BOOLEAN /\ (frozen => frozen')
    <3>1. CASE \E seen \in Ground : ProcessGroundMeasurement(seen)
      BY <1>0, <3>1, WindowTyped
    <3>2. CASE UNCHANGED <<window, frozen>>
      BY <1>0, <3>2 DEF GroundTypeOK
    <3> QED BY <1>1, <3>1, <3>2 DEF FirstScan
  <2>3. hinted' \in 0 .. primary' /\ primary' \in Nat
    BY <1>0, <2>1 DEF GroundTypeOK
  <2>4. GroundTypeOK' BY <1>0, <2>1, <2>2, <2>3 DEF GroundTypeOK
  <2> QED BY <2>1, <2>4, CandidateKept DEF GroundInv
<1>2. ASSUME NEW gravity \in Gravities, NoGround(gravity) PROVE GroundInv'
  <2>1. /\ UNCHANGED <<primary, window, frozen, reference, piece>>
        /\ hinted' = primary /\ pending' = Kept /\ anchored' = frozen
        /\ slope' \in {ActiveSlope(gravity), slope} /\ steady' \in {Unknown, steady}
    BY <1>2 DEF NoGround
  <2>2. ActiveSlope(gravity) \in Nat BY <1>0, SlopeTyped
  <2>3. Unknown \in [tilt : Vector, scans : Nat] BY NoneIsTyped
  <2>4. PendingTyped(pending') /\ (pending' = None \/ Candidate(pending', hinted', reference'))
    BY <2>1, KeptCandidate
  <2>5. hinted' \in 0 .. primary' BY <1>0, <2>1 DEF GroundTypeOK
  <2>6. GroundTypeOK'
    BY <1>0, <2>1, <2>2, <2>3, <2>4, <2>5 DEF GroundTypeOK, PendingTyped, Vector
  <2> QED BY <2>4, <2>6 DEF GroundInv
<1>3. ASSUME NEW seen \in Ground, Learn(seen) PROVE GroundInv'
  <2>1. /\ Observe(seen) /\ UNCHANGED <<reference, slope, piece>>
        /\ hinted' = primary /\ pending' = Kept /\ steady' = Unknown
    BY <1>3 DEF Learn, Observe
  <2>2. PendingTyped(pending') /\ (pending' = None \/ Candidate(pending', hinted', reference'))
    BY <2>1, KeptCandidate
  <2>3. Unknown \in [tilt : Vector, scans : Nat] BY NoneIsTyped
  <2>4. GroundTypeOK'
    BY <1>0, <2>1, <2>2, <2>3, ObserveTyped DEF GroundTypeOK, PendingTyped, Vector
  <2> QED BY <2>2, <2>4 DEF GroundInv
<1>4. ASSUME NEW seen \in Ground, Match(seen) PROVE GroundInv'
  <2>1. /\ Observe(seen) /\ UNCHANGED <<reference, piece>>
        /\ pending' = None /\ steady' = Unknown /\ slope' = ActiveSlope(seen.gravity)
    BY <1>4 DEF Match
  <2>2. slope' \in Nat
    <3>1. seen.gravity \in Gravities BY DEF Ground
    <3> QED BY <1>0, <2>1, <3>1, SlopeTyped
  <2>3. Unknown \in [tilt : Vector, scans : Nat] BY NoneIsTyped
  <2>4. PendingTyped(pending') BY <2>1, CandidateTyped
  <2>5. GroundTypeOK'
    BY <1>0, <2>1, <2>2, <2>3, <2>4, ObserveTyped DEF GroundTypeOK, PendingTyped, Vector
  <2> QED BY <2>1, <2>5 DEF GroundInv
<1>5. ASSUME NEW seen \in Ground, Collect(seen) PROVE GroundInv'
  <2>1. /\ Observe(seen) /\ UNCHANGED <<reference, piece>>
        /\ steady' = Seen(seen) /\ slope' = ActiveSlope(seen.gravity)
    BY <1>5 DEF Collect
  <2>2. slope' \in Nat
    <3>1. seen.gravity \in Gravities BY DEF Ground
    <3> QED BY <1>0, <2>1, <3>1, SlopeTyped
  <2>3. steady' \in [tilt : Vector, scans : Nat] BY <1>0, <2>1, SteadyTyped
  <2>4. PendingTyped(pending') /\ Candidate(pending', hinted', reference')
    BY <1>5, CollectCandidate
  <2>5. GroundTypeOK'
    BY <1>0, <2>1, <2>2, <2>3, <2>4, ObserveTyped DEF GroundTypeOK, PendingTyped, Vector
  <2> QED BY <2>4, <2>5 DEF GroundInv
<1>6. ASSUME NEW seen \in Ground, Switch(seen) PROVE GroundInv'
  <2>1. /\ Observe(seen) /\ pending' = None /\ steady' = Unknown
        /\ TerrainChange(seen) /\ reference' = Added(seen).sum
        /\ slope' = Slope(reference', seen.gravity)
        /\ piece < MaxPieces /\ piece' = piece + 1
    BY <1>6 DEF Switch
  <2>2. reference' \in Vector
    BY <2>1, AddedIsCandidate DEF Candidate
  <2>3. slope' \in Nat
    <3>1. Times(Required, seen.gravity) \in Vector BY Parameters, VectorFacts DEF Ground
    <3> QED BY <2>1, <2>2, <3>1, VectorFacts DEF Slope
  <2>4. piece' \in 0 .. MaxPieces
    <3>1. piece \in 0 .. MaxPieces BY <1>0 DEF GroundTypeOK
    <3>2. MaxPieces \in Nat BY GroundAssumption
    <3> QED BY <2>1, <3>1, <3>2
  <2>5. Unknown \in [tilt : Vector, scans : Nat] BY NoneIsTyped
  <2>6. PendingTyped(pending') BY <2>1, CandidateTyped
  <2>7. GroundTypeOK'
    BY <1>0, <2>1, <2>2, <2>3, <2>4, <2>5, <2>6, ObserveTyped DEF GroundTypeOK, PendingTyped, Vector
  <2> QED BY <2>1, <2>7 DEF GroundInv
<1>7. CASE Promote
  <2>1. /\ UNCHANGED <<hinted, window, frozen, anchored, reference, slope, piece, pending, steady>>
        /\ primary' = primary + 1
    BY <1>7 DEF Promote
  <2>2. primary' \in Nat /\ hinted' \in 0 .. primary' BY <1>0, <2>1 DEF GroundTypeOK
  <2>3. GroundTypeOK' BY <1>0, <2>1, <2>2 DEF GroundTypeOK
  <2> QED BY <2>1, <2>3, CandidateKept DEF GroundInv
<1>8. CASE UNCHANGED vars
  <2>1. GroundTypeOK' BY <1>0, <1>8 DEF GroundTypeOK, vars
  <2> QED BY <1>8, <2>1, CandidateKept DEF GroundInv, vars
<1> QED BY <1>1, <1>2, <1>3, <1>4, <1>5, <1>6, <1>7, <1>8 DEF Next

THEOREM GroundInvariant == Spec => []GroundInv
<1>1. Init => GroundInv BY InitInv
<1>2. GroundInv /\ [Next]_vars => GroundInv' BY NextInv
<1> QED BY <1>1, <1>2, PTL DEF Spec

-----------------------------------------------------------------------------
(* Ground that stays the same: what the scans of a steady tilt have made of  *)
(* the candidate.  All samples show the tilt; or the first one showed        *)
(* another tilt in reach; or more than one did, and the tilt is near their   *)
(* mean.  The first two are stable when they are mature.  The third may have *)
(* to start again, which leaves the first; since at least two samples were   *)
(* not of the run, the run is at most Required - 2 scans long by then.       *)

AllOf(c, t) ==
  /\ c.sum = Times(Len(c.tilts), t)
  /\ \A i \in DOMAIN c.tilts : c.tilts[i] = t

AllButFirst(c, t) ==
  /\ c.sum = Plus(c.tilts[1], Times(Len(c.tilts) - 1, t))
  /\ Gap(c.tilts[1], t) <= Square(Consistency)
  /\ \A i \in DOMAIN c.tilts : i # 1 => c.tilts[i] = t

NearMean(c, t) == Gap(Times(Len(c.tilts), t), c.sum) <= Square(Len(c.tilts) * Consistency)

SteadyRun(c, t, scans) ==
  /\ Len(c.tilts) >= 1
  /\ \/ AllOf(c, t) /\ scans <= Len(c.tilts) + Required - 3
     \/ AllButFirst(c, t) /\ scans + 1 = Len(c.tilts)
     \/ NearMean(c, t) /\ scans + 2 <= Len(c.tilts)

SteadyInv ==
  /\ Len(pending.tilts) = 1 => pending.sum = pending.tilts[1]
  /\ steady.scans > 0 => SteadyRun(pending, steady.tilt, steady.scans)

\* The sample joins c.
Joined(c, t) == [c EXCEPT !.tilts = Append(@, t), !.sum = Plus(@, t)]

LEMMA JoinedFacts ==
  ASSUME NEW c \in [tilts : Seq(Tilts), sum : Vector, submap : Nat], NEW t \in Tilts
  PROVE  /\ Joined(c, t).tilts \in Seq(Tilts) /\ Joined(c, t).sum = Plus(c.sum, t)
         /\ Len(c.tilts) \in Nat /\ Len(Joined(c, t).tilts) = Len(c.tilts) + 1
         /\ DOMAIN Joined(c, t).tilts = 1 .. Len(c.tilts) + 1
         /\ \A i \in DOMAIN c.tilts : Joined(c, t).tilts[i] = c.tilts[i]
         /\ Joined(c, t).tilts[Len(c.tilts) + 1] = t
<1>1. Joined(c, t).tilts = Append(c.tilts, t) /\ Joined(c, t).sum = Plus(c.sum, t)
  BY DEF Joined
<1> QED BY <1>1

LEMMA TimesFacts ==
  ASSUME NEW n \in Nat, NEW a \in Vector, NEW t \in Vector
  PROVE  /\ Times(n + 1, t) = Plus(Times(n, t), t) /\ Times(1, t) = t
         /\ n >= 1 => Plus(Plus(a, Times(n - 1, t)), t) = Plus(a, Times(n, t))
<1>1. t[1] \in Int /\ t[2] \in Int /\ a[1] \in Int /\ a[2] \in Int /\ t = <<t[1], t[2]>>
  BY VectorFacts
<1>2. \A x, y \in Int : (n + 1) * x = n * x + x /\ 1 * x = x /\ y + (n - 1) * x + x = y + n * x
  OBVIOUS
<1> QED BY <1>1, <1>2 DEF Times, Plus

\* A mean may be further away if there are more samples.
LEMMA LimitGrows ==
  ASSUME NEW n \in Nat, NEW K \in Nat
  PROVE  /\ Square(n * K) \in Nat /\ Square(n * K) <= Square((n + 1) * K)
         /\ n >= 1 => Square(K) <= Square(n * K)
<1>1. n * K \in Nat /\ (n + 1) * K \in Nat /\ n * K <= (n + 1) * K OBVIOUS
<1>2. Square(n * K) <= Square((n + 1) * K) BY <1>1, SquareGrows
<1>3. ASSUME n >= 1 PROVE Square(K) <= Square(n * K)
  <2>1. K * n >= K * 1 BY <1>3, Monotone
  <2>2. K <= n * K BY <2>1
  <2> QED BY <1>1, <2>2, SquareGrows
<1>4. Square(n * K) \in Nat BY <1>1, SquareFacts
<1> QED BY <1>2, <1>3, <1>4

\* n copies of a, and a with n - 1 copies of t, are n - 1 times as far apart as
\* a and t; n copies of t are as far from the latter as t from a.
LEMMA GapOfOne ==
  ASSUME NEW n \in Nat, n >= 1, NEW a \in Vector, NEW t \in Vector, NEW K \in Nat,
         Gap(a, t) <= Square(K)
  PROVE  /\ Gap(Times(n, a), Plus(a, Times(n - 1, t))) <= Square(n * K)
         /\ Gap(Times(n, t), Plus(a, Times(n - 1, t))) <= Square(n * K)
<1> DEFINE m == n - 1
<1>1. m \in Nat /\ m + 1 = n OBVIOUS
<1> HIDE DEF m
<1>2. /\ Times(m, a) \in Vector /\ Times(m, t) \in Vector /\ Gap(a, t) \in Nat
      /\ Times(n, a) = Plus(Times(m, a), a) /\ Times(n, t) = Plus(Times(m, t), t)
  BY <1>1, VectorFacts, TimesFacts
<1>3. Plus(a, Times(m, t)) = Plus(Times(m, t), a)
  <2>1. a[1] \in Int /\ a[2] \in Int /\ Times(m, t)[1] \in Int /\ Times(m, t)[2] \in Int
    BY <1>2, VectorFacts
  <2> QED BY <2>1 DEF Plus
<1>4. Gap(Times(n, a), Plus(a, Times(m, t))) = Square(m) * Gap(a, t)
  BY <1>1, <1>2, <1>3, GapMoves, GapScales
<1>5. Gap(Times(n, t), Plus(a, Times(m, t))) = Gap(t, a)
  <2>1. Plus(Times(m, t), t) = Plus(t, Times(m, t))
    <3>1. t[1] \in Int /\ t[2] \in Int /\ Times(m, t)[1] \in Int /\ Times(m, t)[2] \in Int
      BY <1>2, Entries
    <3> QED BY <3>1 DEF Plus
  <2> QED BY <1>2, <2>1, GapMoves
<1>6. Gap(t, a) = Gap(a, t) BY GapMoves
<1>7. Square(K) <= Square(n * K) /\ Square(m * K) <= Square(n * K) /\ Square(n * K) \in Nat
      /\ Square(m * K) \in Nat /\ Square(K) \in Nat
  BY <1>1, LimitGrows, SquareTyped
<1>8. Square(m) * Gap(a, t) <= Square(m * K)
  <2>1. Square(m) \in Nat /\ Square(m * K) = Square(m) * Square(K)
    <3>1. Square(m) \in Nat BY <1>1, SquareTyped
    <3>2. m \in Int /\ K \in Int BY <1>1
    <3>3. Square(m * K) = Square(m) * Square(K) BY ONLY <3>2, SquareFacts
    <3> QED BY <3>1, <3>3
  <2> DEFINE q == Square(m)  g == Gap(a, t)  k == Square(K)
  <2>2. q \in Nat /\ g \in Nat /\ k \in Nat /\ k >= g BY <1>2, <1>7, <2>1
  <2> HIDE DEF q, g, k
  <2>3. q * k >= q * g BY ONLY <2>2, Monotone
  <2>4. q * k \in Int /\ q * g \in Int BY <2>2
  <2>5. q * g <= q * k BY <2>3, <2>4
  <2> QED BY <2>1, <2>5 DEF q, g, k
<1>9. Square(m) * Gap(a, t) \in Nat
  <2>1. Square(m) \in Nat BY <1>1, SquareTyped
  <2> QED BY <1>2, <2>1
<1>10. /\ Gap(Times(n, a), Plus(a, Times(m, t))) <= Square(n * K)
       /\ Gap(Times(n, t), Plus(a, Times(m, t))) <= Square(n * K)
  BY <1>2, <1>4, <1>5, <1>6, <1>7, <1>8, <1>9
<1> QED BY <1>10 DEF m

\* A run of scans goes on with one more sample, which joins the candidate.
LEMMA RunGoesOn ==
  ASSUME NEW c \in [tilts : Seq(Tilts), sum : Vector, submap : Nat], NEW t \in Tilts,
         NEW scans \in Nat, scans >= 1, SteadyRun(c, t, scans), Len(c.tilts) < Required
  PROVE  /\ NearMean(c, t)
         /\ \/ SteadyRun(Joined(c, t), t, scans + 1) /\ Stable(Joined(c, t), TRUE)
            \/ SteadyRun(Joined(c, t), t, scans + 1) /\ scans + 2 <= Len(c.tilts)
<1> DEFINE n == Len(c.tilts)  s == c.sum  d == Joined(c, t)
<1>1. t \in Vector /\ s \in Vector /\ Required \in Nat /\ Required >= 3 /\ Consistency \in Nat
  BY Parameters
<1>2. n \in Nat /\ n >= 1 BY JoinedFacts DEF SteadyRun
<1>3. /\ d.sum = Plus(s, t) /\ Len(d.tilts) = n + 1 /\ DOMAIN d.tilts = 1 .. n + 1
      /\ d.tilts[n + 1] = t /\ DOMAIN c.tilts = 1 .. n
      /\ \A i \in 1 .. n : d.tilts[i] = c.tilts[i]
  BY JoinedFacts
<1>5. \A i \in 1 .. n + 1 : i \in 1 .. n \/ i = n + 1 BY <1>2
<1>6. SUFFICES /\ Gap(Times(n, t), s) <= Square(n * Consistency)
               /\ \/ SteadyRun(d, t, scans + 1) /\ Stable(d, TRUE)
                  \/ SteadyRun(d, t, scans + 1) /\ scans + 2 <= n
  BY DEF NearMean
<1> HIDE DEF n, s, d
<1>4. /\ Times(n + 1, t) = Plus(Times(n, t), t) /\ Times(n, t) \in Vector /\ Times(n + 1, t) \in Vector
      /\ Square(n * Consistency) \in Nat /\ Square(n * Consistency) <= Square((n + 1) * Consistency)
      /\ Square((n + 1) * Consistency) \in Nat /\ n + 1 \in Nat
  <2>1. n + 1 \in Nat BY <1>2
  <2>2. Times(n + 1, t) = Plus(Times(n, t), t) BY ONLY <1>1, <1>2, TimesFacts
  <2>3. Times(n, t) \in Vector /\ Times(n + 1, t) \in Vector
    <3>1. \A k \in Int : Times(k, t) \in Vector BY ONLY <1>1, VectorFacts
    <3> QED BY <1>2, <3>1
  <2>4. \A k \in Nat : /\ Square(k * Consistency) \in Nat
                       /\ Square(k * Consistency) <= Square((k + 1) * Consistency)
    BY ONLY <1>1, LimitGrows
  <2> QED BY ONLY <1>2, <2>1, <2>2, <2>3, <2>4
<1>7. CASE AllOf(c, t) /\ scans <= n + Required - 3
  <2>1. s = Times(n, t) /\ \A i \in 1 .. n : c.tilts[i] = t BY <1>3, <1>7 DEF AllOf, n, s
  <2>2. Gap(Times(n, t), s) <= Square(n * Consistency)
    <3>1. Gap(Times(n, t), Times(n, t)) = 0 BY ONLY <1>4, GapMoves
    <3> QED BY ONLY <1>4, <2>1, <3>1
  <2>3. d.sum = Times(n + 1, t) BY ONLY <1>3, <1>4, <2>1
  <2>4. \A i \in 1 .. n + 1 : d.tilts[i] = t BY ONLY <1>3, <1>5, <2>1
  <2>5. AllOf(d, t) BY ONLY <1>3, <2>3, <2>4 DEF AllOf
  <2>6. scans + 1 <= n + 1 + Required - 3 BY ONLY <1>1, <1>2, <1>7, scans \in Nat
  <2>7. SteadyRun(d, t, scans + 1) BY ONLY <1>2, <1>3, <2>5, <2>6 DEF SteadyRun
  <2>8. Gap(Times(n + 1, t), Times(n + 1, t)) = 0 BY ONLY <1>4, GapMoves
  <2>9. \A i \in DOMAIN d.tilts :
          Gap(Times(Len(d.tilts), d.tilts[i]), d.sum) <= Square(Len(d.tilts) * Consistency)
    BY ONLY <1>3, <1>4, <2>3, <2>4, <2>8
  <2>10. Stable(d, TRUE) BY ONLY <2>9 DEF Stable
  <2> QED BY <2>2, <2>7, <2>10
<1>8. CASE AllButFirst(c, t) /\ scans + 1 = n
  <2> DEFINE a == c.tilts[1]
  <2>1. /\ s = Plus(a, Times(n - 1, t)) /\ Gap(a, t) <= Square(Consistency)
        /\ \A i \in 1 .. n : i # 1 => c.tilts[i] = t
    BY <1>3, <1>8 DEF AllButFirst, n, s
  <2>2. a \in Vector
    <3>1. c.tilts \in Seq(Tilts) /\ 1 \in 1 .. Len(c.tilts) BY <1>2 DEF n
    <3>2. a \in Tilts BY <3>1
    <3> QED BY <3>2, Parameters
  <2>3. d.tilts[1] = a /\ \A i \in 1 .. n + 1 : i # 1 => d.tilts[i] = t
    BY <1>2, <1>3, <1>5, <2>1
  <2> HIDE DEF a
  <2>4. Gap(Times(n, t), s) <= Square(n * Consistency)
    BY ONLY <1>1, <1>2, <2>1, <2>2, GapOfOne
  <2> DEFINE N == Len(d.tilts)
  <2>5. N \in Nat /\ N >= 1 /\ DOMAIN d.tilts = 1 .. N /\ d.sum = Plus(a, Times(N - 1, t))
    <3>1. N = n + 1 /\ N - 1 = n BY <1>2, <1>3
    <3>2. Plus(Plus(a, Times(n - 1, t)), t) = Plus(a, Times(n, t))
      BY ONLY <1>1, <1>2, <2>2, TimesFacts
    <3> QED BY ONLY <1>2, <1>3, <2>1, <3>1, <3>2
  <2>6. AllButFirst(d, t)
    <3>1. \A i \in DOMAIN d.tilts : i # 1 => d.tilts[i] = t BY ONLY <1>3, <2>3
    <3> QED BY ONLY <2>1, <2>3, <2>5, <3>1 DEF AllButFirst
  <2>7. scans + 1 + 1 = n + 1 /\ n + 1 >= 1 BY ONLY <1>2, <1>8, scans \in Nat
  <2>8. SteadyRun(d, t, scans + 1) BY ONLY <1>3, <2>6, <2>7 DEF SteadyRun
  <2>9. /\ Gap(Times(N, a), d.sum) <= Square(N * Consistency)
        /\ Gap(Times(N, t), d.sum) <= Square(N * Consistency)
    <3> HIDE DEF N
    <3> QED BY ONLY <1>1, <2>1, <2>2, <2>5, GapOfOne
  <2>10. \A i \in DOMAIN d.tilts : d.tilts[i] \in {a, t} BY <1>3, <2>3
  <2>11. \A i \in DOMAIN d.tilts :
           Gap(Times(Len(d.tilts), d.tilts[i]), d.sum) <= Square(Len(d.tilts) * Consistency)
    BY ONLY <2>9, <2>10
  <2>12. Stable(d, TRUE) BY ONLY <2>11 DEF Stable
  <2> QED BY <2>4, <2>8, <2>12
<1>9. CASE NearMean(c, t) /\ scans + 2 <= n
  <2>1. Gap(Times(n, t), s) <= Square(n * Consistency) BY <1>9 DEF NearMean, n, s
  <2>2. Gap(Times(n + 1, t), d.sum) = Gap(Times(n, t), s)
    BY ONLY <1>1, <1>3, <1>4, GapMoves
  <2>3. Gap(Times(n, t), s) \in Nat BY ONLY <1>1, <1>4, VectorTyped
  <2>4. Gap(Times(n + 1, t), d.sum) <= Square((n + 1) * Consistency)
    BY ONLY <1>4, <2>1, <2>2, <2>3
  <2>5. NearMean(d, t) BY ONLY <1>3, <2>4 DEF NearMean
  <2>6. scans + 1 + 2 <= n + 1 /\ n + 1 >= 1 BY ONLY <1>2, <1>9, scans \in Nat
  <2>7. SteadyRun(d, t, scans + 1) BY ONLY <1>3, <2>5, <2>6 DEF SteadyRun
  <2> QED BY <1>9, <2>1, <2>7
<1> QED BY <1>7, <1>8, <1>9 DEF SteadyRun, n

\* The first scan of a run joins whatever it agrees with.
LEMMA RunBegins ==
  ASSUME NEW c \in [tilts : Seq(Tilts), sum : Vector, submap : Nat], NEW t \in Tilts,
         Len(c.tilts) >= 1, NearMean(c, t),
         Len(c.tilts) = 1 => c.sum = c.tilts[1]
  PROVE  SteadyRun(Joined(c, t), t, 1)
<1> DEFINE n == Len(c.tilts)  d == Joined(c, t)
<1>1. t \in Vector /\ c.sum \in Vector /\ Consistency \in Nat BY Parameters
<1>2. n \in Nat /\ n >= 1 BY JoinedFacts
<1>3. /\ d.sum = Plus(c.sum, t) /\ Len(d.tilts) = n + 1 /\ DOMAIN d.tilts = 1 .. n + 1
      /\ d.tilts[n + 1] = t
      /\ \A i \in 1 .. n : d.tilts[i] = c.tilts[i]
  BY JoinedFacts
<1>4. Gap(Times(n, t), c.sum) <= Square(n * Consistency) BY DEF NearMean
<1>5. n = 1 => c.sum = c.tilts[1] OBVIOUS
<1>6. SUFFICES SteadyRun(d, t, 1) OBVIOUS
<1> HIDE DEF n, d
<1>10. Times(1, t) = t
  <2>1. 1 \in Nat OBVIOUS
  <2> QED BY <1>1, <2>1, TimesFacts
<1>7. CASE n = 1
  <2>1. /\ d.sum = Plus(d.tilts[1], Times(2 - 1, t)) /\ Len(d.tilts) = 2 /\ DOMAIN d.tilts = 1 .. 2
        /\ d.tilts[2] = t
    <3>1. 2 - 1 = 1 /\ 1 + 1 = 2 OBVIOUS
    <3> QED BY <1>3, <1>5, <1>7, <1>10, <3>1
  <2>2. Gap(c.sum, t) <= Square(Consistency)
    <3>1. 1 * Consistency = Consistency BY <1>1
    <3> QED BY ONLY <1>1, <1>4, <1>7, <1>10, <3>1, GapMoves
  <2>3. d.tilts[1] = c.sum BY <1>3, <1>5, <1>7
  <2>4. AllButFirst(d, t) BY ONLY <2>1, <2>2, <2>3 DEF AllButFirst
  <2> QED BY ONLY <2>1, <2>4 DEF SteadyRun
<1>8. CASE n >= 2
  <2>1. /\ Times(n + 1, t) = Plus(Times(n, t), t)
        /\ Square(n * Consistency) \in Nat /\ Square(n * Consistency) <= Square((n + 1) * Consistency)
    BY ONLY <1>1, <1>2, TimesFacts, LimitGrows
  <2>0. Times(n, t) \in Vector /\ n + 1 \in Nat /\ Square((n + 1) * Consistency) \in Nat
    <3>1. n + 1 \in Nat /\ n \in Int BY <1>2
    <3> QED BY ONLY <1>1, <3>1, VectorFacts, LimitGrows
  <2>2. Gap(Times(n + 1, t), d.sum) = Gap(Times(n, t), c.sum)
    BY ONLY <1>1, <1>3, <2>0, <2>1, GapMoves
  <2>3. Gap(Times(n, t), c.sum) \in Nat BY ONLY <1>1, <2>0, VectorFacts
  <2>4. Gap(Times(n + 1, t), d.sum) <= Square((n + 1) * Consistency)
    BY ONLY <1>4, <2>0, <2>1, <2>2, <2>3
  <2>5. NearMean(d, t) BY ONLY <1>3, <2>4 DEF NearMean
  <2> QED BY ONLY <1>2, <1>3, <1>8, <2>5 DEF SteadyRun
<1> QED BY <1>2, <1>7, <1>8

\* A candidate that starts again with the sample.
LEMMA RunAlone ==
  ASSUME NEW t \in Tilts, NEW scans \in Nat, scans <= Required - 2
  PROVE  SteadyRun(Begun(t), t, scans)
<1>1. t \in Vector /\ Required \in Nat BY Parameters
<1>2. /\ Begun(t).tilts = <<t>> /\ Len(Begun(t).tilts) = 1 /\ Begun(t).sum = Times(1, t)
      /\ \A i \in DOMAIN Begun(t).tilts : Begun(t).tilts[i] = t
  <2>1. 1 \in Nat OBVIOUS
  <2>2. Times(1, t) = t BY <1>1, <2>1, TimesFacts
  <2> QED BY <2>2 DEF Begun
<1>3. AllOf(Begun(t), t) BY <1>2 DEF AllOf
<1>4. scans <= 1 + Required - 3 BY <1>1
<1> QED BY <1>2, <1>3, <1>4 DEF SteadyRun

\* The two outcomes of Added.
LEMMA AddedCases ==
  ASSUME NEW seen, Len(Kept.tilts) \in Nat
  PROVE  \/ /\ Len(Kept.tilts) >= 1 /\ NearMean(Kept, seen.tilt) /\ seen.near
            /\ Added(seen) = Joined(Kept, seen.tilt)
         \/ /\ Len(Kept.tilts) >= 1 /\ seen.near => ~NearMean(Kept, seen.tilt)
            /\ Added(seen) = Begun(seen.tilt)
BY DEF Added, Joined, NearMean

LEMMA CollectKeepsRun ==
  ASSUME GroundTypeOK, SteadyInv, NEW seen \in Ground, Collect(seen)
  PROVE  SteadyInv'
<1> DEFINE t == seen.tilt  n == Len(Kept.tilts)
<1>1. /\ pending \in [tilts : Seq(Tilts), sum : Vector, submap : Nat]
      /\ Len(pending.tilts) < Required /\ steady.scans \in Nat
  BY DEF GroundTypeOK, Vector
<1>2. t \in Tilts /\ Required \in Nat /\ Required >= 3 BY Parameters DEF Ground
<1>3. Kept \in {None, pending} /\ (~Hinted => Kept = pending) BY DEF Kept
<1>4. Kept \in [tilts : Seq(Tilts), sum : Vector, submap : Nat] /\ n \in Nat /\ n < Required
  BY <1>1, <1>2, <1>3, NoneIsTyped
<1>5. n = 1 => Kept.sum = Kept.tilts[1]
  BY <1>3, NoneIsTyped DEF SteadyInv
<1>6. /\ steady' = Seen(seen)
      /\ \/ ~Mature(Added(seen)) /\ pending' = Added(seen)
         \/ Mature(Added(seen)) /\ ~Stable(Added(seen), seen.flat) /\ pending' = Begun(t)
  BY DEF Collect
<1>7. Begun(t).tilts = <<t>> /\ Begun(t).sum = t /\ Len(Begun(t).tilts) = 1 /\ Begun(t).tilts[1] = t
  BY DEF Begun
<1>8. /\ Joined(Kept, t).tilts \in Seq(Tilts) /\ Len(Joined(Kept, t).tilts) = n + 1
  BY <1>2, <1>4, JoinedFacts
<1>9. \/ n >= 1 /\ NearMean(Kept, t) /\ seen.near /\ Added(seen) = Joined(Kept, t)
      \/ (n >= 1 /\ seen.near => ~NearMean(Kept, t)) /\ Added(seen) = Begun(t)
  BY <1>4, AddedCases
<1> HIDE DEF t, n
<1>10. pending' = Begun(t) \/ (n >= 1 /\ NearMean(Kept, t) /\ pending' = Joined(Kept, t))
  BY <1>6, <1>9
<1>11. Len(pending'.tilts) = 1 => pending'.sum = pending'.tilts[1]
  <2>1. CASE pending' = Begun(t)
    BY <1>7, <2>1
  <2>2. CASE n >= 1 /\ pending' = Joined(Kept, t)
    <3>1. Len(pending'.tilts) = n + 1 BY <1>8, <2>2
    <3>2. n + 1 # 1 BY <1>4, <2>2
    <3> QED BY <3>1, <3>2
  <2> QED BY <1>10, <2>1, <2>2
<1>12. steady'.scans > 0 => SteadyRun(pending', steady'.tilt, steady'.scans)
  <2> SUFFICES ASSUME steady'.scans > 0
               PROVE  SteadyRun(pending', steady'.tilt, steady'.scans)
    OBVIOUS
  <2>1. seen.near /\ seen.flat /\ steady'.tilt = t
    BY <1>6 DEF Seen, Unknown, t
  <2>2. \/ steady'.scans = 1
        \/ steady.tilt = t /\ ~Hinted /\ steady.scans >= 1 /\ steady'.scans = steady.scans + 1
    <3>1. steady'.scans \in {1, IF steady.tilt = t /\ ~Hinted THEN steady.scans + 1 ELSE 1}
      BY <1>6, <2>1 DEF Seen, t
    <3> QED BY <1>1, <3>1
  <2>3. CASE steady'.scans = 1
    <3>1. CASE pending' = Begun(t)
      BY <1>2, <2>1, <2>3, <3>1, RunAlone
    <3>2. CASE n >= 1 /\ NearMean(Kept, t) /\ pending' = Joined(Kept, t)
      BY <1>2, <1>4, <1>5, <2>1, <2>3, <3>2, RunBegins DEF n
    <3> QED BY <1>10, <3>1, <3>2
  <2>4. CASE /\ steady.tilt = t /\ ~Hinted
             /\ steady.scans >= 1 /\ steady'.scans = steady.scans + 1
    <3>1. Kept = pending /\ SteadyRun(pending, t, steady.scans)
      BY <1>1, <1>3, <2>4 DEF SteadyInv
    <3>2. /\ NearMean(pending, t)
          /\ SteadyRun(Joined(pending, t), t, steady.scans + 1)
          /\ Stable(Joined(pending, t), TRUE) \/ steady.scans + 2 <= Len(pending.tilts)
      BY <1>1, <1>2, <2>4, <3>1, RunGoesOn
    <3>3. n >= 1 BY <3>1 DEF SteadyRun, n
    <3>4. Added(seen) = Joined(pending, t) BY <1>9, <2>1, <3>1, <3>2, <3>3
    <3>5. CASE pending' = Added(seen)
      BY <2>1, <2>4, <3>2, <3>4, <3>5
    <3>6. CASE ~Stable(Added(seen), seen.flat) /\ pending' = Begun(t)
      <4>1. ~Stable(Joined(pending, t), TRUE) BY <2>1, <3>4, <3>6 DEF Stable
      <4>2. steady.scans + 2 <= n /\ n < Required BY <1>4, <3>1, <3>2, <4>1 DEF n
      <4>3. steady.scans + 1 \in Nat /\ steady.scans + 1 <= Required - 2
        BY <1>1, <1>2, <1>4, <4>2
      <4> QED BY <1>2, <2>1, <2>4, <3>6, <4>3, RunAlone
    <3> QED BY <1>6, <3>5, <3>6
  <2> QED BY <2>2, <2>3, <2>4
<1> QED BY <1>11, <1>12 DEF SteadyInv

LEMMA NextSteadyInv == GroundInv /\ SteadyInv /\ [Next]_vars => SteadyInv'
<1> SUFFICES ASSUME GroundInv, SteadyInv, [Next]_vars PROVE SteadyInv' OBVIOUS
<1>1. GroundTypeOK BY DEF GroundInv
<1>2. Unknown.scans = 0 BY DEF Unknown
<1>3. CASE UNCHANGED <<pending, steady>>
  BY <1>3 DEF SteadyInv
<1>4. CASE pending' \in {None, pending} /\ steady' = Unknown
  BY <1>2, <1>4, NoneIsTyped DEF SteadyInv
<1>5. CASE FirstScan \/ Promote \/ UNCHANGED vars
  BY <1>3, <1>5 DEF FirstScan, Promote, vars
<1>6. ASSUME NEW gravity \in Gravities, NoGround(gravity) PROVE SteadyInv'
  BY <1>3, <1>4, <1>6 DEF NoGround, Kept
<1>7. ASSUME NEW seen \in Ground, Learn(seen) \/ Match(seen) \/ Switch(seen)
      PROVE  SteadyInv'
  BY <1>4, <1>7 DEF Learn, Match, Switch, Kept
<1>8. ASSUME NEW seen \in Ground, Collect(seen) PROVE SteadyInv'
  BY <1>1, <1>8, CollectKeepsRun
<1> QED BY <1>5, <1>6, <1>7, <1>8 DEF Next

-----------------------------------------------------------------------------
(* Theorems *)

\* Every variable of the ground lifecycle has its type; no piece is active
\* before the bootstrap has frozen a reference.
THEOREM GroundTypeCorrect == Spec => []GroundTypeOK
<1>1. GroundInv => GroundTypeOK BY DEF GroundInv
<1> QED BY <1>1, GroundInvariant, PTL

\* A candidate began in the submap that was hinted last, and every sample in it
\* differs from the piece that is active now.
THEOREM PendingStaysFresh == Spec => []PendingIsFresh
<1>1. GroundInv => PendingIsFresh
  <2> SUFFICES ASSUME GroundInv, pending # None
               PROVE  /\ pending.submap = hinted
                      /\ \A i \in DOMAIN pending.tilts : Error(pending.tilts[i]) >= Square(Required * Trigger)
    BY DEF PendingIsFresh
  <2>1. Candidate(pending, hinted, reference) BY DEF GroundInv
  <2> QED BY <2>1 DEF Candidate, Error, Differ
<1> QED BY <1>1, GroundInvariant, PTL

\* For every bootstrap, every number of required scans and all thresholds: the
\* square of the distance of a new piece to the one it replaces is the square of
\* Trigger less the square of Consistency at least, although only single scans
\* are compared with the piece.
THEOREM NewPiecesDiffer == Spec => PiecesDiffer
<1>1. GroundInv /\ [Next]_vars =>
        [piece' # piece =>
           Gap(reference', reference) + Square(Required * Consistency) >= Square(Required * Trigger)]_vars
  <2> SUFFICES ASSUME GroundInv, Next, piece' # piece
               PROVE  Gap(reference', reference) + Square(Required * Consistency)
                        >= Square(Required * Trigger)
    BY DEF vars
  <2>1. \E seen \in Ground : Switch(seen)
    BY DEF Next, FirstScan, NoGround, Learn, Match, Collect, Promote
  <2>2. PICK seen \in Ground : Switch(seen) BY <2>1
  <2>3. /\ TerrainChange(seen) /\ Mature(Added(seen)) /\ reference' = Added(seen).sum
    BY <2>2 DEF Switch
  <2>4. Candidate(Added(seen), primary, reference) BY <2>3, AddedIsCandidate
  <2>5. reference \in Vector BY DEF GroundInv, GroundTypeOK, Vector
  <2> QED BY <2>3, <2>4, <2>5, MatureDiffers DEF Agree, Differ
<1> QED BY <1>1, GroundInvariant, PTL DEF Spec, PiecesDiffer

\* Ground that stays different is adopted: for every number of required scans, a
\* tilt is seen at most 2*Required - 4 times in a row before the scan that makes
\* it the new piece, whatever was pending and however the thresholds are chosen.
THEOREM SteadySlopeIsAlwaysAdopted == Spec => []SteadySlopeIsAdopted
<1>1. Init => SteadyInv
  BY NoneIsTyped DEF Init, SteadyInv, Unknown
<1>2. GroundInv /\ SteadyInv => SteadySlopeIsAdopted
  <2> SUFFICES ASSUME GroundInv, SteadyInv PROVE steady.scans <= 2 * Required - 4
    BY DEF SteadySlopeIsAdopted
  <2> DEFINE n == Len(pending.tilts)  m == steady.scans
  <2>1. n \in Nat /\ n < Required /\ m \in Nat BY DEF GroundInv, GroundTypeOK
  <2>2. Required \in Nat /\ Required >= 3 BY Parameters
  <2>3. m = 0 \/ m <= n + Required - 3 \/ m + 1 = n \/ m + 2 <= n
    BY <2>1 DEF SteadyInv, SteadyRun
  <2>4. SUFFICES m <= 2 * Required - 4 OBVIOUS
  <2> HIDE DEF n, m
  <2> QED BY <2>1, <2>2, <2>3
<1> QED BY <1>1, <1>2, GroundInvariant, NextSteadyInv, PTL DEF Spec

=============================================================================
