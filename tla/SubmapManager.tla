---------------------------- MODULE SubmapManager ----------------------------
(***************************************************************************)
(* Overlapping submaps (src/mapping/submap_manager.cpp).  Scans are        *)
(* registered against the primary submap; before it is full a growing one  *)
(* is begun beside it, both take every new keyframe, and when the primary  *)
(* is full it is finished and the growing one takes its place.             *)
(*                                                                         *)
(* A submap is the set of its keyframe ids, which arrive in increasing     *)
(* order; submaps are numbered from 1, and 0 is kInvalidIndex.  The state  *)
(* field follows from the indices: Primary is active, Growing is growing,  *)
(* the others are Finished.                                                *)
(***************************************************************************)
EXTENDS Naturals, Sequences, FiniteSets

CONSTANT Configs  \* configurations tried: max_keyframes_per_submap, overlap_keyframes

ASSUME ConfigAssumption == Configs \subseteq [size : Nat, overlap : Nat]

VARIABLES
  config,   \* config_, as the constructor leaves it
  submaps,  \* submaps_: the keyframe_ids of each
  clouds,   \* those of them whose points are in cloud_S and cloud_O
  active,   \* active_index_
  growing,  \* growing_index_
  started,  \* last_add_started_new_submap_
  finished  \* last_finished_submap_id_

submapVars == <<config, submaps, clouds, active, growing, started, finished>>

\* Mutant: an overlap as large as the submap is let through.
ClampSizeOnly(c) ==
  LET size == IF c.size < 2 THEN 2 ELSE c.size
  IN [size    |-> size,
      overlap |-> IF c.overlap = 0 THEN 1
                  ELSE IF c.overlap > size THEN size ELSE c.overlap]

\* Mutant: the overlap is brought below a size that may be 0.
ClampOverlapOnly(c) ==
  [size |-> c.size, overlap |-> IF c.overlap >= c.size THEN c.size - 1 ELSE c.overlap]

\* Submaps of two keyframes at least, and a real overlap that is not all of one.
Clamp(c) ==
  LET size == IF c.size < 2 THEN 2 ELSE c.size
  IN [size    |-> size,
      overlap |-> IF c.overlap = 0 THEN 1
                  ELSE IF c.overlap >= size THEN size - 1 ELSE c.overlap]

SubmapInit ==
  /\ config \in {Clamp(c) : c \in Configs}
  /\ submaps = <<>> /\ clouds = <<>>
  /\ active = 0 /\ growing = 0 /\ started = FALSE /\ finished = 0

GrowingStart == config.size - config.overlap

\* AddKeyframeToSubmap for the submaps in "into": each keeps the points of
\* every second keyframe, and a keyframe without finite points is refused.
Insert(id, into, content, usable) ==
  [i \in DOMAIN content |->
     IF usable /\ i \in into THEN content[i] \union {id} ELSE content[i]]
InsertCloud(id, into, content, points, usable) ==
  [i \in DOMAIN points |->
     IF usable /\ i \in into /\ Cardinality(content[i]) % 2 = 0
     THEN points[i] \union {id} ELSE points[i]]

\* Mutant: the growing submap is begun one keyframe late.
LateGrowing(primary, content) ==
  growing = 0 /\ Cardinality(content[primary]) > GrowingStart

StartsGrowing(primary, content) ==
  growing = 0 /\ Cardinality(content[primary]) >= GrowingStart

\* A submap begun for a keyframe that is refused stays, empty.  The promotion
\* fails if nothing is growing.
AddKeyframe(id, usable) ==
  LET first   == active = 0
      primary == IF first THEN 1 ELSE active
      content == IF first THEN Append(submaps, {}) ELSE submaps
      points  == IF first THEN Append(clouds, {}) ELSE clouds
      grows   == StartsGrowing(primary, content)
      opened  == IF grows THEN Append(content, {}) ELSE content
      side    == IF grows THEN Len(opened) ELSE growing
      into    == {primary, side}
      full    == usable /\ Cardinality(opened[primary] \union {id}) >= config.size
      promote == full /\ side # 0
  IN /\ submaps'  = Insert(id, into, opened, usable)
     /\ clouds'   = InsertCloud(id, into, opened,
                      IF grows THEN Append(points, {}) ELSE points, usable)
     /\ active'   = IF promote THEN side ELSE primary
     /\ growing'  = IF promote THEN 0 ELSE side
     /\ started'  = (grows \/ promote)
     /\ finished' = IF promote THEN primary ELSE 0
     /\ UNCHANGED config

\* What it returns.
Added(usable) ==
  /\ usable
  /\ finished' # 0 \/ Cardinality(submaps'[active']) < config.size

FinishedSubmaps == {i \in DOMAIN submaps : i \notin {active, growing}}

-----------------------------------------------------------------------------
(* Properties *)

\* "Final architecture always uses real overlap" (submap_manager.cpp:24): the
\* keyframes of two submaps that follow each other are those of an interval
\* each, and the intervals have a tail and a head of at least the smaller of
\* overlap and size - overlap in common, also when keyframes were refused.
ConsecutiveSubmapsOverlap ==
  \A i \in FinishedSubmaps :
    LET shared == submaps[i] \intersect submaps[i + 1]
    IN /\ i + 1 \in DOMAIN submaps
       /\ Cardinality(submaps[i]) = config.size
       /\ \/ Cardinality(shared) >= config.overlap
          \/ Cardinality(shared) >= config.size - config.overlap
       /\ \A k \in submaps[i] \ shared : \A l \in submaps[i + 1] : k < l
       /\ \A k \in submaps[i] : \A l \in submaps[i + 1] \ shared : k < l

\* The primary submap is never full between two calls, and the one begun beside
\* it is a proper part of it; if there is none, the primary still has room for
\* one to be begun (a promoted submap may already hold more keyframes than
\* that). So a promotion always succeeds, and what takes over is not full yet.
PromotionIsPrepared ==
  active # 0 =>
    /\ Cardinality(submaps[active]) < config.size
    /\ growing = 0 => Cardinality(submaps[active]) \in 0 .. GrowingStart \union 0 .. config.overlap
    /\ growing # 0 => /\ submaps[growing] \subseteq submaps[active]
                      /\ submaps[growing] # submaps[active]
=============================================================================
