------------------------------ MODULE MapOutput ------------------------------
(***************************************************************************)
(* The outputs of the nodes app/lio.cpp and app/lo.cpp, on top of          *)
(* BackendWorker.  The LiDAR worker, which is BackendWorker's owner,       *)
(* publishes the maps and the pose graph paths after every scan; a service *)
(* call, on another thread of the executor, saves maps and trajectories.   *)
(* app/lio.cpp refines the map once more in the thread of the service      *)
(* call, without asking for any lock; app/lo.cpp saves what is published.  *)
(***************************************************************************)
EXTENDS BackendWorker

CONSTANT Uses  \* the ways the node is used that are considered

\* forces: app/lio.cpp, app/lo.cpp otherwise.  quiet: a save is only asked for
\* when the backend is at rest and the bag has ended.
ASSUME OutputAssumption == Uses \subseteq [forces : BOOLEAN, quiet : BOOLEAN]

VARIABLES
  use,           \* the one of Uses this node is
  lastPublished, \* last_published_global_map_revision_
  topics,        \* the clouds last published: [graph, refined]
  trajectory,    \* the graph of optimized_path_msg_, if it was built yet
  spc,           \* control point of the save service
  frozen,        \* frozen_graph_poses of the refinement of the save service
  mapCopy,       \* the BackendMapSnapshot the service holds
  saved          \* what the last successful save wrote: [map, refined, trajectory]

topicVars  == <<lastPublished, topics, trajectory>>
saveVars   == <<spc, frozen, mapCopy, saved>>
outputVars == <<use, topicVars, saveVars>>

GraphOf(out) == [session |-> out.session, epoch |-> out.epoch]

OutputInit ==
  /\ Init /\ use \in Uses
  /\ lastPublished = 0 /\ topics = {} /\ trajectory = {}
  /\ spc = "idle" /\ frozen = {} /\ mapCopy = {} /\ saved = {}

-----------------------------------------------------------------------------
(* The LiDAR worker *)

\* The refined cloud goes out only if it has the revision of the others;
\* otherwise the refined topic keeps what it has.
PublishGlobalMapSnapshots ==
  /\ opc = "idle"
  /\ published.globalRev \notin {0, lastPublished}
  /\ topics' = IF published.refinedRev = published.globalRev
               THEN {[graph |-> GraphOf(published), refined |-> published.overlay]}
               ELSE {}
  /\ lastPublished' = published.globalRev
  /\ UNCHANGED <<vars, use, trajectory, saveVars>>

PublishPoseGraphPaths ==
  /\ opc = "idle"
  /\ published.nodes # {}
  /\ trajectory' = {GraphOf(published)}
  /\ UNCHANGED <<vars, use, lastPublished, topics, saveVars>>

-----------------------------------------------------------------------------
(* The save service; map_save_mutex_ admits one call at a time *)

BackendAtRest ==
  /\ bpc = "waiting" /\ queue = <<>> /\ ~ready
  /\ pending = {} /\ work = {} /\ rpc # "notify"

\* SaveRawOptimizedRefinedMaps: with a loop in the published graph the refined
\* map is rebuilt first.
SaveBegin ==
  /\ spc = "idle" /\ opc = "idle"
  /\ use.quiet => BackendAtRest
  /\ spc' = IF use.forces /\ published.loopEdges > 0 THEN "force" ELSE "maps"
  /\ UNCHANGED <<vars, use, topicVars, frozen, mapCopy, saved>>

\* ForcePostPgoRefinementForSave calls RebuildPostPgoRefinedMap, which writes the
\* refined revision and the overrides without a lock; each write is a step here,
\* so the backend may work between any two.  The backend's own steps are those of
\* BackendWorker: what one of its accesses meets when the service writes at the
\* same moment is a data race, which the quiet uses exclude.
BesideForce == <<ownerVars, inputVars, bpc, job, backendVars, globalRev, published,
                   slotVars, refinerVars, use, topicVars, mapCopy, saved>>

\* The refined revision is withdrawn ...
ForceWithdraw ==
  /\ spc = "force"
  /\ IF keyframes # <<>> /\ nodes # {} /\ globalRev # 0
     THEN refinedRev' = 0 /\ spc' = "freeze"
     ELSE UNCHANGED refinedRev /\ spc' = "idle"
  /\ UNCHANGED <<BesideForce, overlay, frozen>>

\* ... the poses of the graph are copied ...
ForceFreeze ==
  /\ spc = "freeze"
  /\ frozen' = {LiveGraph}
  /\ spc' = "refine"
  /\ UNCHANGED <<BesideForce, overlay, refinedRev>>

\* ... a good while later UpdateRefinedOverrides replaces the overrides by those
\* computed from the copy, unless nothing could be used or it fails ...
ForceReplace ==
  /\ spc = "refine"
  /\ \/ overlay' \in {{}, frozen} /\ spc' = "revise"
     \/ overlay' \in {{}, overlay} /\ spc' = "idle"
  /\ frozen' = {}
  /\ UNCHANGED <<BesideForce, refinedRev>>

\* ... and the refined revision is set to the global one.
ForceRevise ==
  /\ spc = "revise"
  /\ refinedRev' = globalRev
  /\ spc' = "maps"
  /\ UNCHANGED <<BesideForce, overlay, frozen>>

\* GetBackendMapSnapshot; app/lio.cpp insists on agreeing revisions.
SaveCopyMaps ==
  /\ spc = "maps"
  /\ IF published.globalRev = 0
        \/ (use.forces /\ published.refinedRev # published.globalRev)
     THEN mapCopy' = {} /\ spc' = "idle"
     ELSE mapCopy' = {published} /\ spc' = "paths"
  /\ UNCHANGED <<vars, use, topicVars, frozen, saved>>

\* Mutant: the refined cloud is fetched with a getter of its own.
SaveTornMaps ==
  /\ spc = "paths"
  /\ \E maps \in mapCopy :
       saved' = {[map |-> GraphOf(maps), refined |-> published.overlay,
                  trajectory |-> path] : path \in trajectory}
  /\ mapCopy' = {}
  /\ spc' = "idle"
  /\ UNCHANGED <<vars, use, topicVars, frozen>>

\* The trajectories are copied under trajectory_mutex_, and all is written.
SaveWrite ==
  /\ spc = "paths"
  /\ \E maps \in mapCopy :
       saved' = {[map |-> GraphOf(maps), refined |-> maps.overlay,
                  trajectory |-> path] : path \in trajectory}
  /\ mapCopy' = {}
  /\ spc' = "idle"
  /\ UNCHANGED <<vars, use, topicVars, frozen>>

-----------------------------------------------------------------------------
\* The node is destroyed after the executor has returned, and a bag that has
\* ended brings no keyframe during a save.
BackendStep ==
  /\ Next
  /\ spc = "idle" \/ running' = running
  /\ use.quiet => spc = "idle" \/ nextId' = nextId
  /\ UNCHANGED outputVars

ForceRefinement == ForceWithdraw \/ ForceFreeze \/ ForceReplace \/ ForceRevise

OutputNext ==
  \/ BackendStep
  \/ PublishGlobalMapSnapshots \/ PublishPoseGraphPaths
  \/ SaveBegin \/ ForceRefinement \/ SaveCopyMaps \/ SaveWrite

OutputSpec == OutputInit /\ [][OutputNext]_<<vars, outputVars>>

-----------------------------------------------------------------------------
(* Properties *)

\* Whatever a reader gets in one piece, the clouds of one publication or the
\* maps of one saved snapshot, was built from one graph.
ReadersSeeOneGraph ==
  /\ \A clouds \in topics : clouds.refined \subseteq {clouds.graph}
  /\ \A files \in saved : files.refined \subseteq {files.map}

\* backend_worker.cpp:905: the commit of refinements on the one backend thread
\* keeps the map, the revisions and the history single-writer, so a layer is
\* never put over a graph it was not computed from.
SingleWriterKeepsLayerCurrent == overlay \subseteq {LiveGraph}

\* lio.cpp:5935: the refined map is rebuilt before the export so that the saved
\* one corresponds to the final graph: with the backend at rest and a loop in
\* the graph, a call that got past the refinement exports the layer it left.
SaveExportsForcedLayer ==
  [][spc = "maps" /\ spc' # "maps" /\ published.loopEdges > 0
       => \E maps \in mapCopy' : maps.overlay = overlay]_<<vars, outputVars>>
=============================================================================
