---------------------------- MODULE RefinedLayer ----------------------------
(***************************************************************************)
(* What the backend promises about the refined map: a layer of refined     *)
(* poses over the pose graph.  The graph is replaced by a newer one now    *)
(* and then (an optimisation, a reset), which drops the layer; a layer is  *)
(* put over the graph it was computed from; and readers are shown the two  *)
(* together.                                                               *)
(***************************************************************************)
EXTENDS Naturals

VARIABLES
  graph,  \* the identity of the live graph: [session, epoch]
  layer,  \* the graph the refined layer was computed from, if there is one
  shown   \* what readers see: [graph, layer]

vars == <<graph, layer, shown>>

Graph == [session : Nat, epoch : Nat]

Newer(new, old) == \/ new.session > old.session
                   \/ new.session = old.session /\ new.epoch > old.epoch

Init == /\ graph = [session |-> 0, epoch |-> 0]
        /\ layer = {}
        /\ shown = [graph |-> graph, layer |-> layer]

Show == shown' = [graph |-> graph', layer |-> layer']

\* Only a reset shows the new graph at once.
ReplaceGraph == /\ graph' \in Graph
                /\ Newer(graph', graph)
                /\ layer' = {}
                /\ shown' = shown \/ Show

Refine == /\ layer' \in {{}, {graph}}
          /\ UNCHANGED <<graph, shown>>

Publish == Show /\ UNCHANGED <<graph, layer>>

Next == ReplaceGraph \/ Refine \/ Publish

Spec == Init /\ [][Next]_vars

\* The layer belongs to the graph it lies over, and so does the one shown;
\* proved in BackendWorker_proofs.
LayerBelongs == /\ layer \subseteq {graph}
                /\ shown.layer \subseteq {shown.graph}
=============================================================================
