--------------------------- MODULE MCTopologyPage ---------------------------
(***************************************************************************)
(* A small estate for TopologyPage: pods 1 and 2 in a cluster, pod 3 in    *)
(* another.  Pod 2 is what another snapshot has.                           *)
(***************************************************************************)
EXTENDS TopologyPage

MCCluster == <<1, 1, 2>>
MCNamespace == <<1, 1, 2>>
MCService == <<1, 2, 1>>
MCAz == <<1, 2, 1>>

Edge(a, b, c, bytes) ==
    [source |-> a, target |-> b, category |-> c, data |-> bytes, retrans |-> IF bytes > 1 THEN 1 ELSE 0]

Busy ==
    [nodes |-> {1, 2, 3},
     edges |-> {Edge(1, 2, "intra", 1), Edge(2, 2, "intra", 1), Edge(2, 3, "inter", 2), Edge(3, 1, "inter", 1)}]
Left == [nodes |-> {2}, edges |-> {Edge(2, 2, "intra", 1)}]

MCSnapshots == {Busy, Left}
=============================================================================
