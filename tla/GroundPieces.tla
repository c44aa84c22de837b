---------------------------- MODULE GroundPieces ----------------------------
(***************************************************************************)
(* The piecewise frozen ground of LioFrontend::ProcessFrame                *)
(* (src/frontend/lio/lio_frontend.cpp): a reference plane is bootstrapped  *)
(* from the first scans and kept while it fits.  Ground that differs       *)
(* becomes a pending candidate, and, once enough scans agree on it, the    *)
(* new piece that later scans are held to.                                 *)
(*                                                                         *)
(* A plane is the tilt of its normal in the world, as the filter's pose    *)
(* puts it: a vector of two integers, how far the normal leans in x and in *)
(* y, which for the few degrees of a ramp has the angle between two        *)
(* normals as its distance.  Distances are compared by their squares.  How *)
(* far apart two parallel planes are is left open.  The reference is kept  *)
(* times Required, as the mean of that many tilts.                         *)
(***************************************************************************)
EXTENDS Integers, Sequences

SE == INSTANCE SequencesExt

CONSTANTS
  Bootstrap,    \* max(1, anchor_bootstrap_frames)
  Spread,       \* anchor_maximum_normal_spread_deg
  Required,     \* kPendingRequiredFrames
  Consistency,  \* kPendingNormalConsistencyDeg, kPendingMaximumNormalDeviationDeg
  Trigger,      \* kTerrainNormalTriggerDeg
  SlopeDelta,   \* kTerrainSlopeDeltaTriggerDeg
  HardTrigger,  \* kTerrainHardNormalTriggerDeg
  GravityTilt,  \* kTerrainMaximumGravityTiltDeg
  Tilts,        \* tilts of the ground that are seen
  Gravities,    \* tilts of the filter's gravity
  MaxPieces,    \* bound: pieces after the first
  MaxSubmaps    \* bound: primary submaps

ASSUME GroundAssumption ==
  /\ Bootstrap \in Nat /\ Bootstrap >= 1 /\ Required \in Nat /\ Required >= 3
  /\ Spread \in Nat /\ Consistency \in Nat /\ Trigger \in Nat /\ SlopeDelta \in Nat
  /\ HardTrigger \in Nat /\ GravityTilt \in Nat
  /\ Tilts \subseteq Int \X Int /\ Gravities \subseteq Int \X Int
  /\ MaxPieces \in Nat /\ MaxSubmaps \in Nat

VARIABLES
  primary,    \* id of the primary submap, 0 while there is no target
  hinted,     \* ground_last_mapping_submap_id_, 0 before the first
  window,     \* ground_bootstrap_normals_W_
  frozen,     \* ground_reference_frozen_
  anchored,   \* ground_active_anchor_valid_
  reference,  \* ground_reference_normal_W_, times Required
  slope,      \* ground_active_slope_deg_, times Required, squared
  piece,      \* ground_active_piece_id_
  pending,    \* ground_pending_normals_W_, their sum, and the submap it began in
  steady      \* history: a tilt, and for how many scans in a row it was seen

vars == <<primary, hinted, window, frozen, anchored, reference, slope, piece, pending, steady>>

Zero        == <<0, 0>>
Plus(a, b)  == <<a[1] + b[1], a[2] + b[2]>>
Times(n, a) == <<n * a[1], n * a[2]>>
Square(n)   == n * n

\* The square of the distance of two tilts.
Gap(a, b) == Square(a[1] - b[1]) + Square(a[2] - b[2])

\* What a scan with ground shows: its tilt, the tilt of the filter's gravity,
\* whether the plane is near the candidate's (or, before, the others of the
\* bootstrap), and whether the candidate's samples would then lie flat on it.
Ground == [tilt : Tilts, gravity : Gravities, near : BOOLEAN, flat : BOOLEAN]

None    == [tilts |-> <<>>, sum |-> Zero, submap |-> 0]
Unknown == [tilt |-> Zero, scans |-> 0]

Init ==
  /\ primary = 0 /\ hinted = 0
  /\ window = <<>> /\ frozen = FALSE /\ anchored = FALSE
  /\ reference = Zero /\ slope = 0 /\ piece = 0
  /\ pending = None /\ steady = Unknown

-----------------------------------------------------------------------------
(* ProcessGroundMeasurement: bootstrap of the reference, which is horizontal *)

Sum(q) == SE!FoldLeft(Plus, Zero, q)

\* Mutant: the bootstrap keeps every sample.
NewestNever(q) == q

Newest(q) == IF Len(q) > Bootstrap THEN Tail(q) ELSE q

Calm(q) == \A i \in DOMAIN q : Gap(Times(Len(q), q[i]), Sum(q)) <= Square(Len(q) * Spread)

ProcessGroundMeasurement(seen) ==
  /\ window' = IF frozen THEN window ELSE Newest(Append(window, seen.tilt))
  /\ frozen' = (frozen \/ (Len(window') >= Bootstrap /\ seen.near /\ Calm(window')))

\* The first scans have no target, and no lifecycle.
FirstScan ==
  /\ primary = 0 /\ primary' \in {0, 1}
  /\ \/ \E seen \in Ground : ProcessGroundMeasurement(seen)
     \/ UNCHANGED <<window, frozen>>
  /\ UNCHANGED <<hinted, anchored, reference, slope, piece, pending, steady>>

-----------------------------------------------------------------------------
(* The lifecycle *)

\* The primary submap sampled by the node is a hint: what is pending goes.
Hinted == hinted # primary

\* Mutant: the hint does not clear what is pending.
KeptAlways == pending

Kept == IF Hinted THEN None ELSE pending

\* The slope of a plane against the filter's gravity.
Slope(plane, gravity) == Gap(plane, Times(Required, gravity))

\* The frozen reference becomes the first active piece.
ActiveSlope(gravity) == IF anchored THEN slope ELSE Slope(reference, gravity)

Error(tilt) == Gap(Times(Required, tilt), reference)

\* The root of a is larger than the root of b, by d at least.
Exceeds(a, b, d) ==
  a >= b + Square(d) /\ Square(a - b - Square(d)) >= 4 * Square(d) * b

SlopeChanged(seen) ==
  LET now   == Slope(Times(Required, seen.tilt), seen.gravity)
      delta == Required * SlopeDelta
  IN \/ Exceeds(now, ActiveSlope(seen.gravity), delta)
     \/ Exceeds(ActiveSlope(seen.gravity), now, delta)

\* Mutant: a change of slope is enough.
TerrainChangeOfSlope(seen) ==
  /\ Gap(seen.gravity, Zero) <= Square(GravityTilt)
  /\ Error(seen.tilt) >= Square(Required * HardTrigger) \/ SlopeChanged(seen)

\* Height takes no part in this.
TerrainChange(seen) ==
  /\ Gap(seen.gravity, Zero) <= Square(GravityTilt)
  /\ Error(seen.tilt) >= Square(Required * Trigger)
  /\ Error(seen.tilt) >= Square(Required * HardTrigger) \/ SlopeChanged(seen)

Begun(tilt) == [tilts |-> <<tilt>>, sum |-> tilt, submap |-> primary]

Added(seen) ==
  LET n == Len(Kept.tilts)
  IN IF n > 0 /\ seen.near /\ Gap(Times(n, seen.tilt), Kept.sum) <= Square(n * Consistency)
     THEN [Kept EXCEPT !.tilts = Append(@, seen.tilt), !.sum = Plus(@, seen.tilt)]
     ELSE Begun(seen.tilt)

Mature(c) == Len(c.tilts) >= Required

Stable(c, flat) ==
  flat /\ \A i \in DOMAIN c.tilts :
            Gap(Times(Len(c.tilts), c.tilts[i]), c.sum) <= Square(Len(c.tilts) * Consistency)

Seen(seen) ==
  IF seen.near /\ seen.flat
  THEN [tilt |-> seen.tilt, scans |-> IF steady.tilt = seen.tilt /\ ~Hinted THEN steady.scans + 1 ELSE 1]
  ELSE Unknown

\* No trusted ground in this scan.
NoGround(gravity) ==
  /\ primary > 0 /\ hinted' = primary
  /\ anchored' = frozen /\ slope' = IF frozen THEN ActiveSlope(gravity) ELSE slope
  /\ pending' = Kept /\ steady' = IF Hinted THEN Unknown ELSE steady
  /\ UNCHANGED <<primary, window, frozen, reference, piece>>

Observe(seen) ==
  /\ primary > 0 /\ hinted' = primary /\ UNCHANGED primary
  /\ ProcessGroundMeasurement(seen)
  /\ anchored' = frozen'

Learn(seen) ==
  /\ Observe(seen) /\ ~frozen'
  /\ pending' = Kept /\ steady' = Unknown
  /\ UNCHANGED <<reference, slope, piece>>

Match(seen) ==
  /\ Observe(seen) /\ frozen'
  /\ ~TerrainChange(seen)
  /\ pending' = None /\ steady' = Unknown
  /\ slope' = ActiveSlope(seen.gravity)
  /\ UNCHANGED <<reference, piece>>

\* Mutant: an unstable candidate is dropped with this sample.
CollectDropped(seen) ==
  /\ Observe(seen) /\ frozen'
  /\ TerrainChange(seen)
  /\ \/ ~Mature(Added(seen)) /\ pending' = Added(seen)
     \/ Mature(Added(seen)) /\ ~Stable(Added(seen), seen.flat) /\ pending' = None
  /\ steady' = Seen(seen)
  /\ slope' = ActiveSlope(seen.gravity)
  /\ UNCHANGED <<reference, piece>>

\* The candidate grows, or starts again with this sample.
Collect(seen) ==
  /\ Observe(seen) /\ frozen'
  /\ TerrainChange(seen)
  /\ \/ ~Mature(Added(seen)) /\ pending' = Added(seen)
     \/ Mature(Added(seen)) /\ ~Stable(Added(seen), seen.flat) /\ pending' = Begun(seen.tilt)
  /\ steady' = Seen(seen)
  /\ slope' = ActiveSlope(seen.gravity)
  /\ UNCHANGED <<reference, piece>>

\* The candidate replaces the active piece.
Switch(seen) ==
  /\ Observe(seen) /\ frozen'
  /\ TerrainChange(seen) /\ Mature(Added(seen)) /\ Stable(Added(seen), seen.flat)
  /\ piece < MaxPieces /\ piece' = piece + 1
  /\ reference' = Added(seen).sum
  /\ slope' = Slope(reference', seen.gravity)
  /\ pending' = None /\ steady' = Unknown

\* A keyframe of an accepted scan filled the primary submap.
Promote ==
  /\ primary \in 1 .. MaxSubmaps - 1 /\ primary' = primary + 1
  /\ UNCHANGED <<hinted, window, frozen, anchored, reference, slope, piece, pending, steady>>

Next ==
  \/ FirstScan
  \/ \E gravity \in Gravities : NoGround(gravity)
  \/ \E seen \in Ground : Learn(seen) \/ Match(seen) \/ Collect(seen) \/ Switch(seen)
  \/ Promote

Spec == Init /\ [][Next]_vars

-----------------------------------------------------------------------------
(* Properties *)

\* Every variable has its type; there is no piece without a frozen reference.
GroundTypeOK ==
  /\ primary \in Nat /\ hinted \in 0 .. primary
  /\ window \in Seq(Tilts) /\ Len(window) <= Bootstrap
  /\ frozen \in BOOLEAN /\ anchored \in BOOLEAN /\ (anchored => frozen)
  /\ reference \in Int \X Int /\ slope \in Nat /\ piece \in 0 .. MaxPieces
  /\ pending \in [tilts : Seq(Tilts), sum : Int \X Int, submap : Nat]
  /\ Len(pending.tilts) < Required
  /\ steady \in [tilt : Int \X Int, scans : Nat]

\* lio_frontend.cpp:6402: "A new terrain piece is opened only when Ground
\* orientation disagrees with ACTIVE". A candidate is compared with ACTIVE scan
\* by scan, never its mean, which is what becomes the new piece and may be nearer
\* than Trigger when the samples lie at both sides of it. Since each agrees with
\* the mean of those before, it is not much nearer: what is missing from the
\* square of Trigger is at most the square of Consistency.
PiecesDiffer ==
  [][piece' # piece =>
       Gap(reference', reference) + Square(Required * Consistency) >= Square(Required * Trigger)]_vars

\* lio_frontend.cpp:3920: a candidate does not outlive a submap, nor a scan that
\* matches, nor the piece it disagreed with.
PendingIsFresh ==
  pending # None =>
    /\ pending.submap = hinted
    /\ \A i \in DOMAIN pending.tilts : Error(pending.tilts[i]) >= Square(Required * Trigger)

\* Ground that stays different is adopted: a scan that shows the same tilt as the
\* 2*Required - 4 before it settles the matter, whatever was pending at first and
\* although the candidate may have to start again on the way.
SteadySlopeIsAdopted == steady.scans <= 2 * Required - 4
=============================================================================
