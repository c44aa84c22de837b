-------------------------- MODULE MapOutput_proofs --------------------------
(***************************************************************************)
(* Proofs about MapOutput.  The save service of app/lio.cpp refines the    *)
(* map beside the backend and commits what it computed from a copy of the  *)
(* graph: there is nothing in the code that keeps the two apart.  What is  *)
(* proved is what makes it right: a node that forces the refinement is     *)
(* asked to save only when the backend is at rest, and a backend at rest   *)
(* stays still until the call is over.  Without that the run of            *)
(* MCOutputSaveRace has a counterexample.                                  *)
(***************************************************************************)
EXTENDS MapOutput, BackendWorker_proofs

\* How the node is used: app/lo.cpp, which forces nothing, in any way.
Admissible == use.forces => use.quiet

\* The backend has nothing to do, and sleeps or goes to sleep.
Still ==
  /\ running /\ opc = "idle"
  /\ bpc \in {"check", "blocking", "waiting"}
  /\ queue = <<>> /\ ~ready /\ pending = {} /\ work = {}

\* The backend's own invariants, which the save service must not break.
BackendInv == TypeOK /\ Control /\ ResultsInv /\ RefinedLayerIsCurrent

\* Where the service is in the middle of the refinement.
Forcing == {"force", "freeze", "refine", "revise"}

\* The refinement of the save service happens in a still backend; so the graph
\* it copied is the live one for as long as it computes.
ForceInv ==
  /\ use \in [forces : BOOLEAN, quiet : BOOLEAN] /\ Admissible
  /\ spc \in Forcing => use.quiet /\ Still
  /\ frozen \subseteq {LiveGraph}
  /\ frozen # {} => spc = "refine"

\* What has been copied for a reader, or handed out, is of one graph.
CopiesInv ==
  /\ \A maps \in mapCopy : maps.overlay \subseteq {GraphOf(maps)}
  /\ ReadersSeeOneGraph

\* The inductive invariant.
OutputInv == BackendInv /\ ForceInv /\ CopiesInv

-----------------------------------------------------------------------------
(* The backend *)

LEMMA LayersAreCurrent ==
  RefinedLayerIsCurrent <=> /\ overlay \subseteq {LiveGraph}
                            /\ published.overlay \subseteq {GraphOf(published)}
BY DEF RefinedLayerIsCurrent, LiveOutput, LiveGraph, GraphOf

LEMMA NextBackendInv == BackendInv /\ [Next]_vars => BackendInv'
BY NextTypeOK, NextControl, NextResultControl, NextResultsMatchHistory,
   NextRefinedLayerIsCurrent DEF BackendInv, ResultsInv

\* Without a new keyframe and a stop, a backend at rest stays so.
LEMMA StillStaysStill ==
  ASSUME TypeOK, Still, [Next]_vars, running' = running, nextId' = nextId
  PROVE  Still' /\ UNCHANGED LayerVars
<1> USE DEF Still, ownerVars, idVars, inputVars, backendVars, mapVars, slotVars, refinerVars
<1>1. /\ ~EnqueueBackendKeyframe /\ ~StopBackendFlag /\ ~StopNext /\ ~ProcessJob
      /\ ~BackendExit /\ ~BackendTakeReady /\ ~BackendPop /\ ~JobThrows
      /\ ~RefinerTake /\ ~RefinerPublish
  <2>1. ~EnqueueBackendKeyframe
    BY DEF EnqueueBackendKeyframe, HandOver, TypeOK
  <2>2. ~StopBackendFlag /\ ~StopNext
    BY DEF StopBackendFlag, StopNext, StopBackendClearQueue, StopBackendJoin,
           StopRefinerClearSlots, StopRefinerJoin, ResetState
  <2>3. ~ProcessJob /\ ~JobThrows
    BY DEF ProcessJob, InsertKeyframe, RejectLoop, AcceptLoop, SubmitRefinement,
           RefineInPlace, TryCommitRefinement, RefreshBackendOutputSnapshot, JobThrows
  <2>4. ~BackendExit /\ ~BackendTakeReady /\ ~BackendPop
    BY DEF BackendExit, BackendTakeReady, BackendPop
  <2>5. ~RefinerTake /\ ~RefinerPublish
    BY DEF RefinerTake, RefinerPublish
  <2> QED BY <2>1, <2>2, <2>3, <2>4, <2>5
<1>2. UNCHANGED LayerVars
  BY <1>1, LayerFrame DEF StopNext, ProcessJob
<1>3. CASE BackendWait \/ BackendSleep \/ BackendSpuriousWakeup
  BY <1>2, <1>3 DEF BackendWait, BackendSleep, BackendSpuriousWakeup
<1>4. CASE RefinerWait \/ RefinerSleep \/ RefinerExit \/ RefinerSpuriousWakeup
  BY <1>2, <1>4 DEF RefinerWait, RefinerSleep, RefinerExit, RefinerSpuriousWakeup
<1>5. CASE RefinerNotify
  BY <1>2, <1>5 DEF RefinerNotify, NotifyBackend
<1>6. CASE Destroyed \/ UNCHANGED vars
  BY <1>2, <1>6 DEF Destroyed, vars
<1>7. Still'
  BY <1>1, <1>3, <1>4, <1>5, <1>6 DEF Next, BackendNext, RefinerNext
<1> QED BY <1>2, <1>7

\* The save service writes the layer and its revision, nothing else.
LEMMA LayerWritten ==
  ASSUME BackendInv,
         UNCHANGED <<ownerVars, inputVars, bpc, job, backendVars, globalRev,
                     published, slotVars, refinerVars>>,
         refinedRev' \in Nat, overlay' \subseteq {LiveGraph}
  PROVE  BackendInv' /\ LiveGraph' = LiveGraph /\ (Still => Still')
<1> USE DEF BackendInv, ownerVars, idVars, inputVars, backendVars, slotVars, refinerVars
<1>1. LiveGraph' = LiveGraph
  BY DEF LiveGraph
<1>2. TypeOK'
  <2>1. LiveGraph \in Layer
    BY DEF TypeOK, LiveGraph, Layer
  <2>2. overlay' \in SUBSET Layer
    BY <2>1
  <2> QED BY <2>2 DEF TypeOK
<1>3. Control'
  BY DEF Control, OwnerControl, BackendControl, RefinerControl, StartsRefiner
<1>4. ResultsInv'
  BY DEF ResultsInv, ResultControl, ResultsMatchHistory, Describes, Outlived
<1>5. RefinedLayerIsCurrent'
  <2>1. published.overlay \subseteq {GraphOf(published)}
    BY LayersAreCurrent
  <2> QED BY <1>1, <2>1 DEF RefinedLayerIsCurrent, LiveOutput, LiveGraph, GraphOf
<1>6. Still => Still'
  BY DEF Still
<1> QED BY <1>1, <1>2, <1>3, <1>4, <1>5, <1>6

-----------------------------------------------------------------------------
(* The invariant *)

LEMMA OutputInitInv == OutputInit /\ Admissible => OutputInv
<1> SUFFICES ASSUME OutputInit, Admissible PROVE OutputInv
  OBVIOUS
<1>1. BackendInv
  <2>1. Init BY DEF OutputInit
  <2>2. RefinedLayerIsCurrent
    BY <2>1 DEF Init, RefinedLayerIsCurrent, LiveOutput
  <2>3. ResultsInv
    BY <2>1 DEF Init, ResultsInv, ResultControl, ResultsMatchHistory
  <2> QED BY <2>1, <2>2, <2>3, InitTypeOK, InitControl DEF BackendInv
<1>2. ForceInv
  BY OutputAssumption DEF OutputInit, ForceInv, Forcing
<1>3. CopiesInv
  BY DEF OutputInit, CopiesInv, ReadersSeeOneGraph
<1> QED BY <1>1, <1>2, <1>3 DEF OutputInv

\* A step of the backend, beside whatever the save service is doing.
LEMMA BackendStepInv ==
  ASSUME OutputInv, BackendStep
  PROVE  OutputInv'
<1> USE DEF outputVars, topicVars, saveVars
<1>1. Next /\ UNCHANGED outputVars
  BY DEF BackendStep
<1>2. BackendInv'
  BY <1>1, NextBackendInv DEF OutputInv
<1>3. CopiesInv'
  BY <1>1 DEF OutputInv, CopiesInv, ReadersSeeOneGraph, GraphOf
<1>4. ForceInv'
  <2>1. CASE spc \in Forcing
    <3>1. use.quiet /\ Still /\ TypeOK
      BY <2>1 DEF OutputInv, ForceInv, BackendInv
    <3>2. running' = running /\ nextId' = nextId
      BY <2>1, <3>1 DEF BackendStep, Forcing
    <3>3. Still' /\ UNCHANGED LayerVars
      BY <1>1, <3>1, <3>2, StillStaysStill
    <3>4. LiveGraph' = LiveGraph
      BY <3>3 DEF LayerVars, LiveGraph
    <3> QED BY <1>1, <3>3, <3>4 DEF OutputInv, ForceInv, Admissible
  <2>2. CASE spc \notin Forcing
    <3>1. frozen = {}
      BY <2>2 DEF OutputInv, ForceInv, Forcing
    <3> QED BY <1>1, <2>2, <3>1 DEF OutputInv, ForceInv, Admissible
  <2> QED BY <2>1, <2>2
<1> QED BY <1>2, <1>3, <1>4 DEF OutputInv

LEMMA ForceInvSteps ==
  ASSUME OutputInv, ForceRefinement
  PROVE  /\ OutputInv'
         /\ overlay' \in {{}, {LiveGraph}} /\ LiveGraph' = LiveGraph
         /\ published' = published
<1> USE DEF topicVars, OutputInv, BesideForce
<1>1. overlay \subseteq {LiveGraph} /\ frozen \subseteq {LiveGraph}
  BY LayersAreCurrent DEF BackendInv, ForceInv
<1>2. UNCHANGED BesideForce
  BY DEF ForceRefinement, ForceWithdraw, ForceFreeze, ForceReplace, ForceRevise
<1>3. refinedRev' \in Nat /\ overlay' \in {{}, frozen, overlay}
  <2>1. refinedRev \in Nat /\ globalRev \in Nat
    BY DEF BackendInv, TypeOK
  <2> QED
    BY <2>1 DEF ForceRefinement, ForceWithdraw, ForceFreeze, ForceReplace, ForceRevise
<1>4. overlay' \subseteq {LiveGraph}
  BY <1>1, <1>3
<1>5. BackendInv' /\ LiveGraph' = LiveGraph /\ (Still => Still')
  BY <1>2, <1>3, <1>4, LayerWritten
<1>6. use.quiet /\ Still
  BY DEF ForceRefinement, ForceWithdraw, ForceFreeze, ForceReplace, ForceRevise, ForceInv,
         Forcing
<1>7. ForceInv'
  <2>1. CASE ForceWithdraw
    BY <1>1, <1>2, <1>5, <1>6, <2>1 DEF ForceWithdraw, ForceInv, Forcing, Admissible
  <2>2. CASE ForceFreeze
    BY <1>1, <1>2, <1>5, <1>6, <2>2 DEF ForceFreeze, ForceInv, Forcing, Admissible
  <2>3. CASE ForceReplace
    BY <1>2, <1>5, <1>6, <2>3 DEF ForceReplace, ForceInv, Forcing, Admissible
  <2>4. CASE ForceRevise
    BY <1>1, <1>2, <1>5, <1>6, <2>4 DEF ForceRevise, ForceInv, Forcing, Admissible
  <2> QED BY <2>1, <2>2, <2>3, <2>4 DEF ForceRefinement
<1>8. CopiesInv'
  BY <1>2 DEF CopiesInv, ReadersSeeOneGraph, GraphOf
<1>9. overlay' \in {{}, {LiveGraph}}
  BY <1>4
<1> QED BY <1>2, <1>5, <1>7, <1>8, <1>9

\* Reading, publishing and writing leave the backend alone.
LEMMA ReaderInv ==
  ASSUME OutputInv,
         \/ PublishGlobalMapSnapshots \/ PublishPoseGraphPaths
         \/ SaveBegin \/ SaveCopyMaps \/ SaveWrite
  PROVE  OutputInv' /\ UNCHANGED vars
<1> USE DEF topicVars, saveVars, OutputInv
<1>1. UNCHANGED vars /\ UNCHANGED use
  BY DEF PublishGlobalMapSnapshots, PublishPoseGraphPaths, SaveBegin, SaveCopyMaps,
         SaveWrite
<1>2. BackendInv'
  BY <1>1, NextBackendInv
<1>3. LiveGraph' = LiveGraph /\ (Still => Still')
  BY <1>1 DEF vars, ownerVars, idVars, inputVars, backendVars, slotVars, refinerVars,
              LiveGraph, Still
<1>4. published.overlay \subseteq {GraphOf(published)}
  BY LayersAreCurrent DEF BackendInv
<1>5. CASE PublishGlobalMapSnapshots
  <2>1. topics' \subseteq {[graph |-> GraphOf(published), refined |-> published.overlay]}
        /\ UNCHANGED saveVars
    BY <1>5 DEF PublishGlobalMapSnapshots
  <2>2. ForceInv'
    BY <1>1, <1>3, <2>1 DEF ForceInv, Forcing, Admissible
  <2>3. CopiesInv'
    BY <1>4, <2>1 DEF CopiesInv, ReadersSeeOneGraph, GraphOf
  <2> QED BY <1>1, <1>2, <2>2, <2>3
<1>6. CASE PublishPoseGraphPaths
  <2>1. UNCHANGED <<topics, saveVars>>
    BY <1>6 DEF PublishPoseGraphPaths
  <2>2. ForceInv'
    BY <1>1, <1>3, <2>1 DEF ForceInv, Forcing, Admissible
  <2>3. CopiesInv'
    BY <2>1 DEF CopiesInv, ReadersSeeOneGraph, GraphOf
  <2> QED BY <1>1, <1>2, <2>2, <2>3
<1>7. CASE SaveBegin
  <2>1. /\ spc = "idle" /\ UNCHANGED <<topics, frozen, mapCopy, saved>>
        /\ spc' \in {"force", "maps"} /\ (spc' = "force" => use.forces)
        /\ opc = "idle" /\ (use.quiet => BackendAtRest)
    BY <1>7 DEF SaveBegin
  <2>2. spc' \in Forcing => use.quiet /\ Still
    <3> SUFFICES ASSUME spc' = "force" PROVE use.quiet /\ Still
      BY <2>1 DEF Forcing
    <3>1. use.quiet /\ BackendAtRest
      BY <2>1 DEF ForceInv, Admissible
    <3>2. running
      BY <2>1 DEF BackendInv, Control, OwnerControl
    <3> QED BY <2>1, <3>1, <3>2 DEF BackendAtRest, Still
  <2>3. frozen = {}
    BY <2>1 DEF ForceInv, Forcing
  <2>4. ForceInv'
    BY <1>1, <1>3, <2>1, <2>2, <2>3 DEF ForceInv, Forcing, Admissible
  <2>5. CopiesInv'
    BY <2>1 DEF CopiesInv, ReadersSeeOneGraph, GraphOf
  <2> QED BY <1>1, <1>2, <2>4, <2>5
<1>8. CASE SaveCopyMaps
  <2>1. /\ spc = "maps" /\ spc' \in {"idle", "paths"}
        /\ mapCopy' \subseteq {published}
        /\ UNCHANGED <<topics, frozen, saved>>
    BY <1>8 DEF SaveCopyMaps
  <2>2. ForceInv'
    BY <1>1, <1>3, <2>1 DEF ForceInv, Forcing, Admissible
  <2>3. CopiesInv'
    BY <1>4, <2>1 DEF CopiesInv, ReadersSeeOneGraph, GraphOf
  <2> QED BY <1>1, <1>2, <2>2, <2>3
<1>9. CASE SaveWrite
  <2>1. PICK maps \in mapCopy :
          saved' = {[map |-> GraphOf(maps), refined |-> maps.overlay,
                     trajectory |-> path] : path \in trajectory}
    BY <1>9 DEF SaveWrite
  <2>2. spc = "paths" /\ spc' = "idle" /\ mapCopy' = {} /\ UNCHANGED <<topics, frozen>>
    BY <1>9 DEF SaveWrite
  <2>3. ForceInv'
    BY <1>1, <1>3, <2>2 DEF ForceInv, Forcing, Admissible
  <2>4. \A files \in saved' : files.refined \subseteq {files.map}
    BY <2>1 DEF CopiesInv
  <2>5. CopiesInv'
    BY <2>2, <2>4 DEF CopiesInv, ReadersSeeOneGraph, GraphOf
  <2> QED BY <1>1, <1>2, <2>3, <2>5
<1> QED BY <1>5, <1>6, <1>7, <1>8, <1>9

LEMMA OutputNextInv == OutputInv /\ [OutputNext]_<<vars, outputVars>> => OutputInv'
<1> SUFFICES ASSUME OutputInv, [OutputNext]_<<vars, outputVars>> PROVE OutputInv'
  OBVIOUS
<1>1. CASE OutputNext
  BY <1>1, BackendStepInv, ForceInvSteps, ReaderInv DEF OutputNext
<1>2. CASE UNCHANGED <<vars, outputVars>>
  <2>1. BackendInv'
    BY <1>2, NextBackendInv DEF OutputInv
  <2>2. ForceInv'
    BY <1>2 DEF OutputInv, ForceInv, Admissible, Still, LiveGraph, vars, outputVars,
       saveVars, ownerVars, idVars, inputVars, backendVars, slotVars, refinerVars
  <2>3. CopiesInv'
    BY <1>2 DEF OutputInv, CopiesInv, ReadersSeeOneGraph, GraphOf, outputVars, topicVars,
       saveVars
  <2> QED BY <2>1, <2>2, <2>3 DEF OutputInv
<1> QED BY <1>1, <1>2

LEMMA OutputInvariant == OutputSpec /\ Admissible => []OutputInv
  BY OutputInitInv, OutputNextInv, PTL DEF OutputSpec

-----------------------------------------------------------------------------
(* Theorems *)

\* What a reader gets in one piece is of one graph, whichever of the nodes it
\* is, as long as the saves of app/lio.cpp wait for the backend to be at rest.
THEOREM ReadersAlwaysSeeOneGraph == OutputSpec /\ Admissible => []ReadersSeeOneGraph
<1>1. OutputInv => ReadersSeeOneGraph BY DEF OutputInv, CopiesInv
<1> QED BY <1>1, OutputInvariant, PTL

\* Under the same condition the second writer of the map does no harm: the layer
\* it leaves was computed from the graph it lies over.
THEOREM QuietSavesKeepLayerCurrent ==
  OutputSpec /\ Admissible => []SingleWriterKeepsLayerCurrent
<1>1. OutputInv => SingleWriterKeepsLayerCurrent
  BY LayersAreCurrent DEF OutputInv, BackendInv, SingleWriterKeepsLayerCurrent
<1> QED BY <1>1, OutputInvariant, PTL

LEMMA OutputNextRefines ==
  OutputInv /\ [OutputNext]_<<vars, outputVars>> => [Abstract!Next]_(Abstract!vars)
<1> SUFFICES ASSUME OutputInv, [OutputNext]_<<vars, outputVars>>
             PROVE  [Abstract!Next]_(Abstract!vars)
  OBVIOUS
<1>1. CASE BackendStep \/ UNCHANGED vars
  BY <1>1, NextRefines DEF BackendStep, OutputInv, BackendInv
<1>2. CASE ForceRefinement
  <2>1. /\ overlay' \in {{}, {LiveGraph}} /\ LiveGraph' = LiveGraph
        /\ published' = published
    BY <1>2, ForceInvSteps
  <2> QED BY <2>1 DEF Abstract!Next, Abstract!Refine
<1>3. CASE \/ PublishGlobalMapSnapshots \/ PublishPoseGraphPaths
           \/ SaveBegin \/ SaveCopyMaps \/ SaveWrite
  BY <1>1, <1>3, ReaderInv
<1> QED BY <1>1, <1>2, <1>3 DEF OutputNext

\* The whole node, with the refinement of its save service, still implements the
\* abstract view of the refined map.
THEOREM NodeImplementsRefinedLayer == OutputSpec /\ Admissible => ImplementsRefinedLayer
<1>1. OutputInit => Abstract!Init
  BY InitRefines DEF OutputInit
<1> QED BY <1>1, OutputNextRefines, OutputInvariant, PTL
        DEF OutputSpec, ImplementsRefinedLayer, Abstract!Spec

=============================================================================
