---------------------------- MODULE TopologyPage ----------------------------
(***************************************************************************)
(* The topology page (app/src/app/topology/page.tsx) over the graph        *)
(* component: polls that replace the snapshot, and what the user chooses,  *)
(* in any order.  Each action ends with the render it causes and with the  *)
(* effects of that render.                                                 *)
(***************************************************************************)
EXTENDS TopologyGraph, NodePlacement

CONSTANTS
    Snapshots,    \* what /api/topology may answer
    Clusters, Categories, Groupings, Metrics,   \* the choices of the selects
    MaxSelected,  \* bound on the nodes of a tag selection
    MaxDrags      \* bound on drags

\* The ends of a snapshot's edges are nodes of it, and no node has the number of
\* a missing field.  The page is opened on bytes; rtt is left out.
ASSUME SnapshotAssumption ==
    \A s \in Snapshots :
       /\ IsFiniteSet(s.nodes) /\ IsFiniteSet(s.edges) /\ 0 \notin s.nodes
       /\ \A e \in s.edges : {e.source, e.target} \subseteq s.nodes /\ \A m \in Metrics : e[m] \in Nat
ASSUME SelectAssumption ==
    "data" \in Metrics /\ Groupings \subseteq {"none", "namespace", "az", "cluster"}

VARIABLES
    snapshot, cluster, category, metric,
    by, expanded,      \* groupBy, expandedGroups
    selected,          \* selectedIds; empty selects everything
    focus,             \* focusId, 0 for none
    hops, cut,         \* minEdgeValue
    view,              \* "graph" or "matrix"
    graph,             \* what the last render drew
    churned, dropped, drags   \* history: a choice outlived its node; drags

pageVars == <<snapshot, cluster, category, metric, by, expanded, selected, focus, cut, view>>
historyVars == <<churned, dropped, drags>>
topologyVars == <<pageVars, hops, graph, placeVars, historyVars>>

Topology == Scoped(snapshot, cluster, category)
Model == GraphModel(Topology, selected, by, expanded, metric, cut)
Live == {<<"node", n>> : n \in Topology.nodes} \cup Model.nodes

\* The focus counts only while its node is in the model.
Active(f, model) == IF f # 0 /\ <<"node", f>> \in model.nodes THEN f ELSE 0

\* What is drawn once the variables have their new values.
Render(wanted) ==
    \E topo \in {Topology'} :
    \E model \in {GraphModel(topo, selected', by', expanded', metric', cut')} :
    \E active \in {Active(focus', model)} :
       /\ hops' = IF view' = "matrix" \/ view # view' \/ active # graph.active THEN 1 ELSE wanted
       /\ graph' = [model |-> model, active |-> active, key |-> LayoutKey(model, by'),
                    live |-> {<<"node", n>> : n \in topo.nodes} \cup model.nodes,
                    shown |-> IF active = 0 THEN model.nodes
                              ELSE Neighbors(model, <<"node", active>>, hops')]
       /\ dropped' = [n \in DOMAIN dropped \cap graph'.live |-> dropped[n]]

Show(wanted) ==
    /\ Render(wanted)
    /\ IF view' = "matrix" THEN Unmount
       ELSE IF view = "matrix" THEN Mount(graph') ELSE Relayout(graph, graph')

\* The first snapshot has arrived; a deep link may have focused a node of it.
PageInit ==
    /\ snapshot \in Snapshots
    /\ focus \in {0} \cup snapshot.nodes
    /\ cluster = All /\ category = All /\ metric = "data" /\ by = "none"
    /\ expanded = {} /\ selected = {} /\ cut = 0 /\ view = "graph" /\ hops = 1
    /\ graph = [model |-> Model, active |-> focus, live |-> Live, key |-> LayoutKey(Model, by),
                shown |-> IF focus = 0 THEN Model.nodes ELSE Neighbors(Model, <<"node", focus>>, 1)]
    /\ stored = Placed(Model.nodes, Empty) /\ cache = stored /\ positions = stored
    /\ rf = [n \in graph.shown |-> 0]
    /\ churned = FALSE /\ dropped = Empty /\ drags = 0

-----------------------------------------------------------------------------
chosenVars == <<by, expanded, selected, focus>>
Wanted == (selected \cup {focus}) \ {0}

Clamped(value) == IF value > MaxEdgeValue(Topology, metric)' THEN MaxEdgeValue(Topology, metric)' ELSE value

Poll ==
    /\ snapshot' \in Snapshots
    /\ UNCHANGED <<cluster, category, metric, chosenVars, view, drags>>
    /\ cut' = Clamped(cut)
    /\ churned' = (churned \/ ~ (Wanted \subseteq Topology'.nodes))
    /\ Show(hops)

SetScope ==
    /\ cluster' \in Clusters \cup {All} /\ category' \in Categories \cup {All}
    /\ <<cluster', category'>> # <<cluster, category>>
    /\ selected' = {} /\ focus' = 0 /\ expanded' = {} /\ churned' = FALSE
    /\ UNCHANGED <<snapshot, metric, by, view, drags>>
    /\ cut' = Clamped(cut)
    /\ Show(hops)

SetMetric ==
    /\ metric' \in Metrics \ {metric}
    /\ cut' = 0
    /\ UNCHANGED <<snapshot, cluster, category, chosenVars, view, churned, drags>>
    /\ Show(hops)

\* The slider of the cut.
SetCut ==
    /\ view = "graph"
    /\ cut' \in 0 .. MaxEdgeValue(Topology, metric)
    /\ UNCHANGED <<snapshot, cluster, category, metric, chosenVars, view, churned, drags>>
    /\ Show(hops)

SetGroupBy ==
    /\ view = "graph"
    /\ by' \in Groupings \ {by}
    /\ expanded' = {}
    /\ UNCHANGED <<snapshot, cluster, category, metric, selected, focus, cut, view, churned, drags>>
    /\ Show(hops)

SetView ==
    /\ view' = IF view = "graph" THEN "matrix" ELSE "graph"
    /\ UNCHANGED <<snapshot, cluster, category, metric, chosenVars, cut, churned, drags>>
    /\ Show(hops)

SetHops ==
    /\ view = "graph" /\ graph.active # 0
    /\ UNCHANGED <<pageVars, churned, drags>>
    /\ Show(3 - hops)

\* handleNodeClick on a collapsed group, and the chip of an expanded one.  A chip
\* stays when a poll or the tags take its group away.
ToggleGroup ==
    /\ view = "graph"
    /\ \/ \E n \in graph.shown : n[1] # "node" /\ expanded' = expanded \cup {n[2]}
       \/ by # "none" /\ graph.model.nodes # {} /\ \E g \in expanded : expanded' = expanded \ {g}
    /\ UNCHANGED <<snapshot, cluster, category, metric, by, selected, focus, cut, view, churned, drags>>
    /\ Show(hops)

\* handleNodeClick on another node, or ESC and a click on the canvas (0).
Focus ==
    /\ view = "graph"
    /\ graph.model.nodes # {}
    /\ \/ focus' = 0 /\ focus # 0
       \/ \E n \in graph.shown : n[1] = "node" /\ focus' = n[2]
    /\ UNCHANGED <<snapshot, cluster, category, metric, by, expanded, selected, cut, view, churned, drags>>
    /\ Show(hops)

\* applyTagSelection.
ApplyTags ==
    /\ selected' \in {s \in SUBSET Topology.nodes : Cardinality(s) <= MaxSelected}
    /\ focus' = IF selected' # {} /\ focus \notin selected' THEN 0 ELSE focus
    /\ UNCHANGED <<snapshot, cluster, category, metric, by, expanded, cut, view, churned, drags>>
    /\ Show(hops)

\* Mutation of Search: the tag selection stays as it is.
SearchUnderTags ==
    /\ view = "graph"
    /\ focus' \in Topology.nodes
    /\ UNCHANGED <<snapshot, cluster, category, metric, by, expanded, selected, cut, view, churned, drags>>
    /\ Show(hops)

\* handleSearchSubmit with a match.
Search ==
    /\ view = "graph"
    /\ focus' \in Topology.nodes
    /\ selected' = IF focus' \in selected THEN selected ELSE {}
    /\ UNCHANGED <<snapshot, cluster, category, metric, by, expanded, cut, view, churned, drags>>
    /\ Show(hops)

\* The user drags a node and leaves it.
Drag ==
    /\ view = "graph" /\ drags < MaxDrags
    /\ drags' = drags + 1
    /\ \E n \in graph.shown :
          /\ DropAt(n, drags')
          /\ dropped' = [m \in DOMAIN dropped \cup {n} |-> IF m = n THEN drags' ELSE dropped[m]]
    /\ UNCHANGED <<pageVars, hops, graph, churned>>

\* The page is loaded again: what is chosen is gone, what is stored is not.
Reload ==
    /\ snapshot' \in Snapshots /\ focus' \in {0} \cup snapshot'.nodes
    /\ cluster' = All /\ category' = All /\ metric' = "data" /\ by' = "none"
    /\ expanded' = {} /\ selected' = {} /\ cut' = 0 /\ view' = "graph"
    /\ churned' = FALSE /\ UNCHANGED drags
    /\ Render(1) /\ Mount(graph')

PageNext ==
    \/ Poll \/ SetScope \/ SetMetric \/ SetCut \/ SetGroupBy \/ SetView \/ SetHops \/ ToggleGroup
    \/ Focus \/ ApplyTags \/ Search \/ Drag \/ Reload

PageSpec == PageInit /\ [][PageNext]_topologyVars

-----------------------------------------------------------------------------
\* The edges the graph draws as one with e.
Together(edges, e) ==
    IF by = "none" THEN {e} ELSE {f \in edges : Ends(f, by, expanded) = Ends(e, by, expanded)}

\* Everything is collapsed and nothing is left out, of pods with all their fields.
Whole ==
    /\ by \in {"namespace", "cluster"} /\ expanded = {} /\ selected = {} /\ cut = 0
    /\ \A n \in Topology.nodes : Service[n] # 0 /\ Namespace[n] # 0

\* No traffic is lost or counted twice between the views.  Whatever the cut, the
\* grouping and the tags, an edge of the chosen nodes is drawn, or what it would be
\* drawn as is lighter than the cut and is counted next to the slider; a chosen
\* node is drawn unless such an edge led to it; nothing lighter than the cut is
\* drawn.  A link of the collapsed graph carries what the matrix has in the cells
\* of its two directions, an arc what it has on its diagonal.
ViewsAgree ==
    LET model == graph.model
        inside == {e \in Topology.edges : {e.source, e.target} \subseteq Kept(Topology, selected)}
        left == inside \ UNION {l.edges : l \in model.links \cup model.selfs}
        matrix == Matrix(Topology, metric, by)
        Cell(x, y) == IF <<x, y>> \in Pairs(Topology, by) THEN matrix[<<x, y>>] ELSE 0
    IN /\ \A e \in left : Cardinality(Ends(e, by, expanded)) = 2 /\ Value(Together(inside, e), metric) < cut
       /\ model.hidden = Cardinality({Together(inside, e) : e \in left})
       /\ \A n \in Kept(Topology, selected) : LET s == Stand(n, by, expanded) IN
             s \in model.nodes \/ \E e \in left : s \in Ends(e, by, expanded)
       /\ \A l \in model.links : l.ends \subseteq model.nodes /\ (cut = 0 \/ Value(l.edges, metric) >= cut)
       /\ Whole => \A l \in model.links \cup model.selfs : \A x, y \in l.ends : l.ends = {x, y} =>
             Value(l.edges, metric) = IF x = y THEN Cell(x, y) ELSE Cell(x, y) + Cell(y, x)

\* No choice of the user empties the graph: it is empty only when the scope is,
\* or when a poll took the nodes of the tag selection; the cut never hides
\* every link that carries traffic, for it is clamped to the heaviest edge of
\* whatever the snapshot and the scope have become; and a focus is never
\* silently dropped: without cut or churn, the graph shows the node the user
\* focused or searched for, or the group it is collapsed into.
SelectionIsShown ==
    /\ ~churned /\ cut = 0 /\ Topology.nodes # {} => graph.model.nodes # {}
    /\ by = "none" /\ selected = {} /\ (\E e \in Topology.edges : Crossing(e) /\ e[metric] > 0)
         => graph.model.links # {}
    /\ focus # 0 /\ ~churned /\ cut = 0 => Stand(focus, by, expanded) \in graph.shown

\* The places in localStorage are those of the page whenever the live nodes fit:
\* a working set that grew past the cap and shrank again is persisted again.
StoredIsCurrent ==
    view = "graph" /\ graph.model.nodes # {} /\ Cardinality(graph.live) <= MaxPersisted => stored = cache

\* "So the drop point survives the NEXT structural change (filter/groupBy) and a
\* page reload, not only value-only polls" (NetworkGraph.tsx:661-664): the place
\* of a dragged node is remembered for as long as the node is in the topology.
DragsPersist ==
    view = "graph" => \A n \in DOMAIN dropped : n \in DOMAIN cache /\ cache[n] = dropped[n]
=============================================================================
