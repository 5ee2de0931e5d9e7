----------------------------- MODULE ToolAnswers -----------------------------
(***************************************************************************)
(* The answers of the tools that the dashboard serves to other agents      *)
(* (app/src/lib/mcp-server.ts), of the point reads of app/src/lib/ddb.ts   *)
(* they rest on, of the search (search.ts) and of the diagnosis' list of   *)
(* anomalies (diagnose-context.ts).  Every tool wraps a lens; what it adds *)
(* is a bound on what it answers.                                          *)
(***************************************************************************)
EXTENDS LensAnswers

CONSTANTS
    MaxRows,       \* MAX_ROWS
    ToolBuckets    \* MAX_BUCKETS of the tools

\* bound: slice counts a negative number from the end.
Bound(list, n) ==
    [rows |-> IF Len(list) <= n THEN list
              ELSE SubSeq(list, 1, IF n < 0 THEN Max({0, Len(list) + n}) ELSE n),
     truncated |-> Len(list) > n]

\* Number(args.limit) || default: 0 stands for a limit that was not given.
LimitOr(limit, default) == IF limit = 0 THEN default ELSE limit

\* bucketsFromRangeMinutes: none for a range that is refused.
BucketsFromRange(minutes) ==
    IF minutes > 5 * ToolBuckets THEN {} ELSE {Max({1, (minutes + 4) \div 5})}

-----------------------------------------------------------------------------
\* The edges of a snapshot of the topology, the busiest first.
Snapshot(rows) ==
    LET Edge(e) == LET mine == {f \in rows : f.edge = e}
                   IN [id |-> e, has |-> {f.metric : f \in mine}, data |-> Total(Of(mine, "data")),
                       retrans |-> Total(Of(mine, "retrans")), timeouts |-> Total(Of(mine, "timeouts")),
                       rtt |-> Max({f.value : f \in Of(mine, "rtt")} \cup {0})]
    IN SetToSortSeq({Edge(e) : e \in {f.edge : f \in Flows(rows)}}, LAMBDA x, y : x.data > y.data)

TopologyTool(edges, limit) == Bound(edges, LimitOr(limit, MaxRows))

\* nfm_top_talkers.
TopTalkersTool(edges, metric, limit) ==
    Bound(SetToSortSeq({e \in ToSet(edges) : metric \in e.has}, LAMBDA x, y : x[metric] > y[metric]),
          LimitOr(limit, 20))

\* topAnomalies of the diagnosis.
Trouble(edge) == edge.retrans + edge.timeouts
TopAnomalies(edges, n) ==
    First(n, {e \in ToSet(edges) : Trouble(e) > 0}, LAMBDA x, y : Trouble(x) > Trouble(y))

\* queryPodFlows: the newest of each index, then the newest of both.
Newest(rows, n) == First(n, rows, LAMBDA f, g : f.bucket > g.bucket)
QueryPodFlows(rows, pod, limit) ==
    LET AtEnd(end) == ToSet(Newest({f \in rows : Key(f[end], "service") = pod}, limit))
    IN Newest(AtEnd("a") \cup AtEnd("b"), limit)
PodFlowsTool(rows, pod, limit) == QueryPodFlows(rows, pod, Min({LimitOr(limit, MaxRows), MaxRows}))

\* The flows page asks for a pod's flows, or for those of a bucket, of one monitor
\* or of all.
FlowsByBucket(rows, bucket, monitor) == {f \in rows : f.bucket = bucket /\ monitor \in {"all", f.monitor}}
FlowsRoute(rows, pod, bucket, monitor, limit) ==
    LET n == Min({Max({LimitOr(limit, 200), 1}), 1000})
    IN IF pod # 0 THEN QueryPodFlows(rows, pod, n)
       ELSE Bound(SetToSeq(FlowsByBucket(rows, bucket, monitor)), n).rows

\* getCollectionHistory: the pointer row, 0 here, is first in a descending query.
CollectionHistory(cycles, pointer, n) ==
    LET rows == (IF pointer THEN <<0>> ELSE <<>>) \o SetToSortSeq(cycles, >)
        kept == SelectSeq(Bound(rows, n + 1).rows, LAMBDA c : c # 0)
    IN Reverse(Bound(kept, n).rows)

-----------------------------------------------------------------------------
\* nfm_schema and nfm_overview.
SchemaTool(nodes, metrics) == [monitors |-> DOMAIN MonitorList(metrics), namespaces |-> {n.ns : n \in nodes} \ {0}]
OverviewTool(rows, metrics) == [kpis |-> OverviewKpis(metrics), summary |-> OverviewSummary(rows, metrics)]

\* nfm_cost_lens and nfm_latency_lens.
CostTool(rows) == [CostLens(rows) EXCEPT !.top = Bound(@, MaxRows).rows]
LatencyTool(rows, width) ==
    [Latency(rows, width) EXCEPT !.slowest = Bound(@, MaxRows).rows, !.tail = Bound(@, MaxRows).rows]

\* nfm_reliability_lens: the services by their rates, those that breach a bar by
\* how far they do.
Rate(tally, metric) == IF tally.bytes = 0 THEN Fraction(0, 1) ELSE Fraction(tally[metric] * Giga, tally.bytes)
Over(tally, metric, bar) == Fraction(Rate(tally, metric).num, Rate(tally, metric).den * bar)
Excess(tally) ==
    LET r == Over(tally, "retrans", RetransRate)
        t == Over(tally, "timeouts", TimeoutRate)
    IN IF More(t, r) THEN t ELSE r
ReliabilityTool(rows) ==
    LET per == RatePer(rows)
        Worse(k, j) ==
            \/ More(Rate(per[k], "retrans"), Rate(per[j], "retrans"))
            \/ ~More(Rate(per[j], "retrans"), Rate(per[k], "retrans"))
                 /\ More(Rate(per[k], "timeouts"), Rate(per[j], "timeouts"))
    IN [hotspots |-> Bound(SetToSortSeq(DOMAIN per, Worse), MaxRows).rows,
        breaches |-> Bound(SetToSortSeq(Breaches(rows), LAMBDA k, j : More(Excess(per[k]), Excess(per[j]))),
                           MaxRows).rows]

\* nfm_anomalies, which compares the windows whatever the prior one holds.
AnomaliesTool(after, before) == Bound(RankedAnomalies(after, before), MaxRows)

\* nfm_alerts.
WorstFirst(events) ==
    SetToSortSeq(events, LAMBDA x, y : Rank(x.severity) < Rank(y.severity) \/ (x.severity = y.severity /\ x.at > y.at))
BoundAlerts(page) ==
    [events |-> Bound(WorstFirst(page.events), MaxRows).rows,
     composite |-> First(MaxRows, page.composite, LAMBDA x, y : x.key < y.key)]
AlertsTool(rows, after, before, metrics, history) ==
    BoundAlerts(AlertsRoute(rows, after, before, metrics, history))

-----------------------------------------------------------------------------
(***************************************************************************)
(* searchEntities: the nodes of the topology, then the ends and monitors   *)
(* of the flows, then the names of the domains, the top ones and those of  *)
(* flows.  `matches` are the labels that the text is part of; addresses,   *)
(* subnets and instances, which the rows here lack, are found like pods.   *)
(* Results are told apart by type and label: of two pods of one name in    *)
(* two namespaces the first one is kept.                                   *)
(***************************************************************************)
Result(type, label, where) == [type |-> type, label |-> label, where |-> where]
EndResults(e) ==
    IF e.name = 0 THEN <<>> ELSE <<Result("pod", e.name, e.ns), Result("service", e.name, e.ns)>>
FlowResults(f) == EndResults(f.a) \o EndResults(f.b) \o <<Result("monitor", f.monitor, 0)>>

Listed(results) ==
    FoldLeft(LAMBDA kept, r : IF \E i \in DOMAIN kept : kept[i].type = r.type /\ kept[i].label = r.label
                              THEN kept ELSE Append(kept, r), <<>>, results)
SearchEntities(matches, nodes, flows, domains, limit) ==
    LET all == [i \in DOMAIN nodes |-> Result("node", nodes[i].name, nodes[i].ns)]
                   \o FlattenSeq([i \in DOMAIN flows |-> FlowResults(flows[i])])
                   \o [i \in DOMAIN domains |-> Result("domain", domains[i], 0)]
    IN Bound(Listed(SelectSeq(all, LAMBDA r : <<r.type, r.label>> \in matches)), limit).rows
=============================================================================
