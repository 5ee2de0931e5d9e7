---------------------------- MODULE FlowAccounts -----------------------------
(***************************************************************************)
(* What the traffic of a window cost and who exchanged it: the cost,       *)
(* cost-explorer, efficiency, dependencies and network lenses of           *)
(* app/src/lib/analytics.  Prices are per GB, so a row of a billed         *)
(* category costs its bytes here.                                          *)
(***************************************************************************)
EXTENDS FlowRows

CONSTANTS
    Billed,         \* BILLED_CATEGORIES
    ClusterOf,      \* deriveCluster: the cluster of a monitor
    SavingsLimit, MaxLinks, MaxChildren   \* SAVINGS_LIMIT, the caps of the graphs

Data(rows) == Of(rows, "data")
Usd(f) == IF f.category \in Billed THEN f.value ELSE 0
UsdOf(rows) == MapThenSumSet(Usd, rows)

\* An account of bytes and dollars for every label.
Ledger(rows, Label(_)) ==
    [l \in {Label(f) : f \in rows} |->
        LET mine == {f \in rows : Label(f) = l} IN [bytes |-> Total(mine), usd |-> UsdOf(mine)]]

Pair(f, kind) == Touches(f, kind)
PairKey(p) == 100 * Min(p) + Max(p)

\* topCostContributors.  Where categories tie for the most bytes the first met
\* is taken; the model keeps all of them.
Contributor(rows, p) ==
    LET mine == {f \in rows : Pair(f, "service") = p}
        by == Ledger(mine, LAMBDA f : f.category)
    IN [pair |-> p, bytes |-> Total(mine), usd |-> UsdOf(mine),
        categories |-> {c \in DOMAIN by : \A d \in DOMAIN by : by[c].bytes >= by[d].bytes}]

CostBefore(x, y) ==
    \/ x.usd > y.usd
    \/ x.usd = y.usd /\ x.bytes > y.bytes
    \/ x.usd = y.usd /\ x.bytes = y.bytes /\ PairKey(x.pair) < PairKey(y.pair)

TopContributors(rows, n) ==
    First(n, {Contributor(rows, p) : p \in {Pair(f, "service") : f \in rows}}, CostBefore)

\* costLens, with costByCategorySeries, categoryStream and regionArcs.
CostLens(rows) ==
    LET data == Data(rows)
    IN [total |-> UsdOf(data),
        byCategory |-> Ledger(data, LAMBDA f : f.category),
        top |-> TopContributors(data, 20),
        series |-> Ledger(data, LAMBDA f : <<f.category, f.bucket>>),
        arcs |-> Ledger({f \in data : /\ f.category = "INTER_REGION" /\ f.a.region # f.b.region
                                      /\ 0 \notin {f.a.region, f.b.region}},
                        LAMBDA f : <<f.a.region, f.b.region>>)]

Savings(rows) == TopContributors({f \in Data(rows) : Usd(f) > 0}, SavingsLimit)

\* namespacesOf: the namespaces of the ends, unknown where neither has one.
NamespacesOf(f) == IF Touches(f, "namespace") = {0} THEN {0} ELSE Touches(f, "namespace") \ {0}

\* Mutation of NamespaceAccounts: a row within a namespace is added at each end.
NamespaceAccountsPerEnd(rows) ==
    [n \in UNION {NamespacesOf(f) : f \in rows} |->
        LET near == {f \in rows : f.a.ns = n}
            far == {f \in rows : f.b.ns = n}
        IN [bytes |-> Total(near) + Total(far), usd |-> UsdOf(near) + UsdOf(far)]]

\* A row of two namespaces counts in both.
NamespaceAccounts(rows) ==
    [n \in UNION {NamespacesOf(f) : f \in rows} |->
        LET mine == {f \in rows : n \in NamespacesOf(f)} IN [bytes |-> Total(mine), usd |-> UsdOf(mine)]]

\* costExplorerLens.
CostExplorer(rows) ==
    LET data == Data(rows)
    IN [total |-> UsdOf(data),
        byCluster |-> Ledger(data, LAMBDA f : ClusterOf[f.monitor]),
        byMonitor |-> Ledger(data, LAMBDA f : f.monitor),
        byNamespace |-> NamespaceAccounts(data),
        savings |-> Savings(rows),
        trend |-> Ledger(data, LAMBDA f : f.bucket)]

\* efficiencyLens.
Efficiency(rows) ==
    LET data == Data(rows)
        billed == {f \in data : f.category \in Billed}
    IN [bytes |-> Total(data), billed |-> Total(billed), usd |-> UsdOf(data),
        top |-> TopContributors(billed, 8), trend |-> Ledger(data, LAMBDA f : f.bucket)]

-----------------------------------------------------------------------------
\* networkAnalyticsLens: ordered pairs of scopes.
ScopeOf(f, end, scope) ==
    CASE scope = "category" -> f.category
      [] scope = "monitor" -> f.monitor
      [] scope = "port" -> f.port
      [] OTHER -> Key(f[end], scope)

NetworkPairs(rows, from, to) ==
    LET mine == Data(rows) \cup Of(rows, "retrans") \cup Of(rows, "rtt")
        PairOf(f) == <<ScopeOf(f, "a", from), ScopeOf(f, "b", to)>>
    IN [p \in {PairOf(f) : f \in mine} |->
           [bytes |-> Total({f \in Data(mine) : PairOf(f) = p}),
            retrans |-> Total({f \in Of(mine, "retrans") : PairOf(f) = p}),
            rtt |-> Total({f \in Of(mine, "rtt") : PairOf(f) = p}),
            samples |-> Cardinality({f \in Of(mine, "rtt") : PairOf(f) = p}),
            spark |-> Ledger({f \in Data(mine) : PairOf(f) = p}, LAMBDA f : f.bucket)]]

\* pairTotals and paretoTalkers: the pairs by bytes, each with the running sum.
Pareto(rows, n) ==
    LET top == First(n, {Contributor(Data(rows), p) : p \in {Pair(f, "service") : f \in Data(rows)}},
                     LAMBDA x, y : \/ x.bytes > y.bytes
                                   \/ x.bytes = y.bytes /\ PairKey(x.pair) < PairKey(y.pair))
        running[i \in 0 .. Len(top)] == IF i = 0 THEN 0 ELSE running[i - 1] + top[i].bytes
    IN [i \in DOMAIN top |-> [pair |-> top[i].pair, bytes |-> top[i].bytes, running |-> running[i]]]

\* serviceGraph: indexed nodes and the links between different services.
ServiceGraph(rows) ==
    LET between == {f \in Data(rows) : Cardinality(Pair(f, "service")) = 2}
        nodes == SetToSeq(Entities(between, "service"))
        Index(key) == CHOOSE i \in DOMAIN nodes : nodes[i] = key
    IN [nodes |-> nodes,
        links |-> SetToSeq({[source |-> Index(Min(p)), target |-> Index(Max(p)),
                             value |-> Total({f \in between : Pair(f, "service") = p})] :
                                p \in {Pair(f, "service") : f \in between}})]

Heaviest(links, n) == First(n, ToSet(links), LAMBDA l, k : l.value > k.value)

\* capSankeyLinks: the nodes of the kept links, compacted.
CapLinks(graph, n) ==
    IF Len(graph.links) <= n THEN graph
    ELSE LET kept == Heaviest(graph.links, n)
             old == SetToSeq({kept[i].source : i \in DOMAIN kept} \cup {kept[i].target : i \in DOMAIN kept})
             New(j) == CHOOSE i \in DOMAIN old : old[i] = j
         IN [nodes |-> [i \in DOMAIN old |-> graph.nodes[old[i]]],
             links |-> [i \in DOMAIN kept |-> [kept[i] EXCEPT !.source = New(@), !.target = New(@)]]]

\* composition: here an end without a namespace counts as unknown by itself.
Composition(rows) ==
    [namespaces |-> [n \in Entities(Data(rows), "namespace") |-> Total(Touching(Data(rows), "namespace", n))],
     categories |-> Ledger(Data(rows), LAMBDA f : f.category)]

\* pathFrequencyTree: how many rows pass through each prefix of hops.
PathTree(rows) ==
    [p \in UNION {{SubSeq(f.hops, 1, i) : i \in 0 .. Len(f.hops)} : f \in Data(rows)} |->
        Cardinality({f \in Data(rows) : IsPrefix(p, f.hops)})]

\* capPathTreeBreadth: the children of a node that are kept.
Children(tree, p) == {q \in DOMAIN tree : Len(q) = Len(p) + 1 /\ IsPrefix(p, q)}
Broadest(tree, p) == ToSet(First(MaxChildren, Children(tree, p), LAMBDA q, r : tree[q] > tree[r]))
CapBreadth(tree) ==
    {q \in DOMAIN tree : \A i \in 1 .. Len(q) : SubSeq(q, 1, i) \in Broadest(tree, SubSeq(q, 1, i - 1))}

-----------------------------------------------------------------------------
\* A field of an account, added up over the labels.
SumOf(ledger, field) == MapThenSumSet(LAMBDA l : ledger[l][field], DOMAIN ledger)

\* The pairs of two scopes of the network page add up to all bytes, and the buckets of
\* each to its own.
PairsAddUp(rows, from, to) ==
    \A network \in {NetworkPairs(rows, from, to)} :
       /\ SumOf(network, "bytes") = Total(Data(rows))
       /\ \A p \in DOMAIN network : SumOf(network[p].spark, "bytes") = network[p].bytes

\* The accounts of the same rows add up: whatever they group by, the dollars to the
\* cost lens's total and the bytes to all bytes, the namespaces to that and once more
\* what crosses namespaces; the composition gives every known namespace the bytes that
\* the explorer gives it; and no arc between regions is paid for twice.
LedgersAddUp(rows) ==
    LET cost == CostLens(rows)
        explorer == CostExplorer(rows)
        all == Efficiency(rows)
        composition == Composition(rows)
        data == Data(rows)
        crossing == {f \in data : f.a.ns # f.b.ns /\ 0 \notin {f.a.ns, f.b.ns}}
        AddsUp(ledger) == SumOf(ledger, "usd") = cost.total /\ SumOf(ledger, "bytes") = all.bytes
    IN /\ AddsUp(cost.byCategory) /\ AddsUp(cost.series)
       /\ AddsUp(explorer.byCluster) /\ AddsUp(explorer.byMonitor)
       /\ AddsUp(explorer.trend) /\ AddsUp(all.trend)
       /\ cost.total = explorer.total /\ cost.total = all.usd /\ all.usd = all.billed
       /\ SumOf(explorer.byNamespace, "usd") = cost.total + UsdOf(crossing)
       /\ SumOf(explorer.byNamespace, "bytes") = all.bytes + Total(crossing)
       /\ \A n \in (DOMAIN composition.namespaces \cup DOMAIN explorer.byNamespace) \ {0} :
             /\ n \in DOMAIN composition.namespaces /\ n \in DOMAIN explorer.byNamespace
             /\ composition.namespaces[n] = explorer.byNamespace[n].bytes
       /\ composition.categories = cost.byCategory
       /\ SumOf(cost.arcs, "usd") <= UsdOf({f \in data : f.category = "INTER_REGION"})
       /\ PairsAddUp(rows, "service", "category") /\ PairsAddUp(rows, "port", "az")
=============================================================================
