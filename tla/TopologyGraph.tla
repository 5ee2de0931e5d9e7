--------------------------- MODULE TopologyGraph ----------------------------
(***************************************************************************)
(* The graph of the topology page as a function of the snapshot and of     *)
(* what is chosen on the page: app/src/lib/topology.ts, topology-graph.ts  *)
(* and graph-focus.ts.                                                     *)
(*                                                                         *)
(* A snapshot is [nodes, edges]; an edge has the id of each end and its    *)
(* metrics as fields.  Names, clusters, namespaces and zones are numbers,  *)
(* 0 where the field is missing.  What the graph draws as one link is the  *)
(* set of edges it stands for: itself without grouping, all the edges of   *)
(* an unordered pair of ends with it.  Radii and colours are left out, and *)
(* so is the round trip time, whose bundles take a mean instead of a sum.  *)
(***************************************************************************)
EXTENDS Integers, FiniteSets, FiniteSetsExt

CONSTANTS
    Cluster, Namespace, Service, Az,  \* the fields of a node, by its id
    All                               \* no filter on this axis

Value(edges, metric) == MapThenSumSet(LAMBDA e : e[metric], edges)
Crossing(e) == e.source # e.target

-----------------------------------------------------------------------------
\* filterTopology: nodes without a cluster stay as shared peers, and once an
\* axis is filtered only nodes an edge still refers to.
Scoped(topo, cluster, category) ==
    LET near == {n \in topo.nodes : cluster = All \/ Cluster[n] \in {0, cluster}}
        edges == {e \in topo.edges : /\ {e.source, e.target} \subseteq near
                                     /\ category \in {All, e.category}}
    IN IF cluster = All /\ category = All THEN topo
       ELSE [nodes |-> {n \in near : \E e \in edges : n \in {e.source, e.target}},
             edges |-> edges]

MaxEdgeValue(topo, metric) == Max({0} \cup {e[metric] : e \in {x \in topo.edges : Crossing(x)}})

Kept(topo, selected) == IF selected = {} THEN topo.nodes ELSE topo.nodes \cap selected

-----------------------------------------------------------------------------
\* applyGrouping.
GroupKey(n, by) ==
    CASE by = "namespace" -> Namespace[n]
      [] by = "az" -> Az[n]
      [] by = "cluster" -> Cluster[n]

\* effIdOf: what stands for a node in the graph.
Stand(n, by, expanded) ==
    IF by = "none" THEN <<"node", n>>
    ELSE IF GroupKey(n, by) \in expanded THEN <<"node", n>>
    ELSE <<by, GroupKey(n, by)>>

Ends(e, by, expanded) == {Stand(e.source, by, expanded), Stand(e.target, by, expanded)}

\* Mutation of Bundles: edges inside a collapsed group are not aggregated.
BundlesBetweenGroups(edges, by, expanded) ==
    IF by = "none" THEN {{e} : e \in edges}
    ELSE {{e \in edges : Ends(e, by, expanded) = p} :
             p \in {q \in {Ends(e, by, expanded) : e \in edges} : Cardinality(q) = 2}}

Bundles(edges, by, expanded) ==
    IF by = "none" THEN {{e} : e \in edges}
    ELSE {{e \in edges : Ends(e, by, expanded) = p} : p \in {Ends(e, by, expanded) : e \in edges}}

\* buildGraphModel: a link has the edges it stands for and its two ends, an arc
\* a single end.
GraphModel(topo, selected, by, expanded, metric, cut) ==
    LET kept == Kept(topo, selected)
        between == {e \in topo.edges : {e.source, e.target} \subseteq kept}
        drawn == {[edges |-> b, ends |-> UNION {Ends(e, by, expanded) : e \in b}] :
                     b \in Bundles(between, by, expanded)}
        crossing == {l \in drawn : Cardinality(l.ends) = 2}
        links == {l \in crossing : cut = 0 \/ Value(l.edges, metric) >= cut}
        busy == {l \in drawn \ crossing : Value(l.edges, metric) > 0}
        before == UNION {l.ends : l \in crossing}
        after == UNION {l.ends : l \in links \cup busy}
        stands == {Stand(n, by, expanded) : n \in kept}
    IN [nodes |-> IF links = crossing THEN stands ELSE stands \ (before \ after),
        links |-> links,
        selfs |-> drawn \ crossing,
        hidden |-> Cardinality(crossing \ links)]

\* The ids of the nodes and of the links: layoutKey.
LayoutKey(model, by) ==
    [nodes |-> model.nodes,
     edges |-> IF by # "none" THEN {}
               ELSE {<<e.source, e.target, e.category>> : e \in UNION {l.edges : l \in model.links}},
     ends |-> {l.ends : l \in model.links}]

\* neighbors: the nodes within a hop or two of n, in either direction.
Around(model, near) == near \cup UNION {l.ends : l \in {k \in model.links : k.ends \cap near # {}}}
Neighbors(model, n, hops) == IF hops = 1 THEN Around(model, {n}) ELSE Around(model, Around(model, {n}))

-----------------------------------------------------------------------------
\* levelEntityOf: what a node is part of at a level of the matrix and tiers.
\* Only pods have a service, read off their names; other nodes stay themselves.
Entity(n, level) ==
    CASE level = "pod" \/ Service[n] = 0 -> <<"node", n>>
      [] level = "namespace" /\ Namespace[n] = 0 -> <<"node", n>>
      [] level = "service" -> <<"service", Namespace[n], Service[n]>>
      [] level = "namespace" -> <<"namespace", Namespace[n]>>
      [] level = "cluster" -> <<"cluster", Cluster[n]>>

Pair(e, level) == <<Entity(e.source, level), Entity(e.target, level)>>
Pairs(topo, level) == {Pair(e, level) : e \in topo.edges}
Between(topo, level, p) == {e \in topo.edges : Pair(e, level) = p}

\* buildMatrix.
Matrix(topo, metric, level) ==
    [p \in Pairs(topo, level) |-> Value(Between(topo, level, p), metric)]
=============================================================================
