------------------------------ MODULE Topology ------------------------------
(***************************************************************************)
(* app/dashboard/topology/page.tsx and components/dashboard/GraphViewer:   *)
(* the graph is fetched once, when the page mounts.                        *)
(***************************************************************************)
EXTENDS MockRoutes

CONSTANT NoNode  \* null

ASSUME TopologyAssumption == NoNode \notin GraphNodes

VARIABLE topology  \* state of the page

(* "drawn": whose graph is drawn.                                          *)
TopologyState == [drawn : {"none", "answer", "fallback"},
                  nodes : SUBSET GraphNodes,
                  loading : BOOLEAN, error : BOOLEAN,
                  selected : GraphNodes \cup {NoNode}, searching : BOOLEAN]

TopologyTypeOK == topology \in TopologyState

TopologyInit ==
  topology = [drawn |-> "none", nodes |-> {}, loading |-> TRUE, error |-> FALSE,
              selected |-> NoNode, searching |-> FALSE]

Draws(drawn, nodes, failed) ==
  topology' = [topology EXCEPT !.drawn = drawn, !.nodes = nodes,
                               !.loading = FALSE, !.error = failed]

(* The answer to /graph.  An empty graph and a failure both draw the       *)
(* fallback, in real mode too; only the failure says so.                   *)
GraphArrives ==
  /\ topology.loading
  /\ \/ \E nodes \in {GraphNodes, Assets} : Draws("answer", nodes, FALSE)
     \/ Draws("fallback", FallbackNodes, FALSE)
     \/ Draws("fallback", FallbackNodes, TRUE)

(* GraphViewer: safeData, or the empty state when there is nothing.        *)
Viewer == IF topology.loading THEN "loading"
          ELSE IF topology.nodes = {} THEN "empty" ELSE "graph"

(* onNodeClick and onBackgroundClick.                                      *)
ClickGraph ==
  /\ Viewer = "graph"
  /\ \E n \in topology.nodes \cup {NoNode} : topology' = [topology EXCEPT !.selected = n]

(* The search box, and a result of it, which also clears the box.          *)
SearchNode ==
  topology' = [topology EXCEPT !.searching = ~@]

PickResult ==
  /\ topology.searching
  /\ \E n \in topology.nodes :
       topology' = [topology EXCEPT !.selected = n, !.searching = FALSE]

TopologyNext == GraphArrives \/ ClickGraph \/ SearchNode \/ PickResult

TopologySpec == TopologyInit /\ [][TopologyNext]_topology /\ WF_topology(GraphArrives)

(* Node Inspector.                                                         *)
Inspected == IF topology.selected = NoNode THEN "none" ELSE GraphNodeType(topology.selected)

(* paintNode: radius and colour by type, a glow for the selected node.     *)
PaintNode(n) == [radius |-> CASE GraphNodeType(n) = "asset" -> 7
                              [] GraphNodeType(n) = "attack" -> 8
                              [] OTHER -> 6,
                 colour |-> GraphNodeType(n),
                 glow |-> n = topology.selected]

(* linkColor: green for the links of the selected node.                    *)
LinkIsLit(link) == topology.selected \in {link[1], link[2]}

(* What is selected is on the screen, its links are the lit ones, and once *)
(* the answer is there something is drawn, failures included.              *)
SelectionIsDrawn ==
  /\ topology.selected # NoNode => topology.selected \in topology.nodes
  /\ Viewer # "empty"
  /\ \A n \in topology.nodes : PaintNode(n).glow => Inspected = GraphNodeType(n)
=============================================================================
