----------------------------- MODULE LensAnswers -----------------------------
(***************************************************************************)
(* The answers of the routes under app/src/app/api that compose the lenses:*)
(* which windows, filters and settings each uses, and what is left of an   *)
(* answer when CloudWatch does not answer (its metrics are then none).     *)
(***************************************************************************)
EXTENDS FlowScores

CONSTANTS HourOfDay, Now      \* the hour of a bucket, and the time of an answer

\* healthByMonitor's copy in the route of the reliability lens, nhiTimeline.
WorstByBucket(metrics) ==
    LET lanes == Lanes(metrics)
    IN [b \in UNION {DOMAIN lanes[n] : n \in DOMAIN lanes} |->
           Max({lanes[n][b] : n \in {m \in DOMAIN lanes : b \in DOMAIN lanes[m]}})]
Timeline(series) == [b \in DOMAIN series |-> IF series[b] > 0 THEN 1 ELSE 0]

\* correlation: the coefficient is num over the root of dx times dy, none where a
\* side does not vary.  Each point is given as the pair of a mean and a count.
Deviations(points, X(_), Y(_)) ==
    LET n == Cardinality(points)
        sum(F(_)) == MapThenSumSet(F, points)
        dev(F(_), p) == n * F(p) - sum(F)
    IN [num |-> MapThenSumSet(LAMBDA p : dev(X, p) * dev(Y, p), points),
        dx |-> MapThenSumSet(LAMBDA p : dev(X, p) * dev(X, p), points),
        dy |-> MapThenSumSet(LAMBDA p : dev(Y, p) * dev(Y, p), points)]
Correlation(dots) ==
    LET points == {dots[i] : i \in DOMAIN dots}
        scale == FoldSet(LAMBDA p, rest : p.rtt.den * rest, 1, points)
        d == Deviations(points, LAMBDA p : p.rtt.num * (scale \div p.rtt.den), LAMBDA p : p.retrans)
    IN IF Cardinality(points) < 2 \/ d.dx = 0 \/ d.dy = 0 THEN <<>> ELSE <<d>>

\* reliabilityLens and its route.
Reliability(rows, metrics) ==
    LET scatter == Scatter(rows, Cardinality(rows))
    IN [hotspots |-> RatePer(rows), breaches |-> Breaches(rows), nhi |-> Timeline(WorstByBucket(metrics)),
        swimlanes |-> Swimlanes(metrics), scatter |-> scatter, correlation |-> Correlation(scatter)]

\* rttByHourHeatmap, of the hours of one week.
Heatmap(rows) ==
    [h \in {HourOfDay[f.bucket] : f \in Of(rows, "rtt")} |->
        LET mine == {f \in Of(rows, "rtt") : HourOfDay[f.bucket] = h}
        IN [mean |-> Mean(mine), count |-> Cardinality(mine)]]

\* latencyLens.
Latency(rows, width) ==
    [overall |-> Stats(rows), split |-> IntraVsInter(rows), slowest |-> SlowestPaths(rows, 20),
     tail |-> SlowestByTail(rows, 20), trend |-> RttTrend(rows), distribution |-> Distribution(rows, width),
     heatmap |-> Heatmap(rows)]

\* dependenciesLens.
Dependencies(rows) ==
    [graph |-> CapLinks(ServiceGraph(rows), MaxLinks), composition |-> Composition(rows), ports |-> Ports(rows),
     hops |-> HopUsage(rows), tree |-> CapBreadth(PathTree(rows)), pareto |-> Pareto(rows, 20),
     concentration |-> Concentration(rows)]

-----------------------------------------------------------------------------
\* priorCoverage below 0.8: the prior window holds too few hours to compare with.
\* A window of no more than three hours has buckets of five minutes and no bar.
Insufficient(before, hours) == hours > 3 /\ 10 * Cardinality({f.bucket : f \in before}) < 8 * hours

\* The routes of movers and of anomalies: windows of so many hours, one filter.
MoversRoute(after, before, hours, namespace, category) ==
    LET now == Filtered(after, namespace, category)
        then == Filtered(before, namespace, category)
    IN IF Insufficient(before, hours) THEN [insufficient |-> TRUE, movers |-> {}, silent |-> {}]
       ELSE [insufficient |-> FALSE, silent |-> Silent(now, then),
             movers |-> UNION {Movers(now, then, metric) : metric \in {"data", "retrans", "timeouts"}}]
AnomaliesRoute(after, before, hours, namespace, category) ==
    IF Insufficient(before, hours) THEN [insufficient |-> TRUE, anomalies |-> {}]
    ELSE [insufficient |-> FALSE,
          anomalies |-> Anomalies(Filtered(after, namespace, category), Filtered(before, namespace, category))]

\* halfWindowDeltaPct over the buckets of a series: the later half over the
\* earlier, none where the earlier is empty or zero.
HalfDelta(series) ==
    LET buckets == SetToSortSeq(DOMAIN series, <)
        mid == Len(buckets) \div 2
        Half(i, j) == {buckets[k] : k \in i .. j}
        Avg(half) == Fraction(MapThenSumSet(LAMBDA b : series[b], half), Cardinality(half))
        early == Avg(Half(1, mid))
        late == Avg(Half(mid + 1, Len(buckets)))
    IN IF mid = 0 \/ early.num = 0 THEN <<>> ELSE <<[from |-> early, to |-> late]>>

\* The overview: the last hour.
OverviewRoute(rows, metrics) ==
    [kpis |-> OverviewKpis(metrics), delta |-> HalfDelta(Combined(metrics, "data", Added)),
     talkers |-> First(6, ToSet(CostLens(rows).top), CostBefore), breaches |-> Cardinality(Breaches(rows)),
     rates |-> ErrorRates(rows), summary |-> OverviewSummary(rows, metrics)]

\* The scorecard and the monitors.
ScorecardRoute(rows, metrics, namespace, category) == Scorecard(Filtered(rows, namespace, category), metrics)
MonitorsRoute(metrics) ==
    LET list == MonitorList(metrics)
    IN First(Cardinality(DOMAIN list), DOMAIN list, LAMBDA m, n : list[m].bytes > list[n].bytes)
MonitorRoute(metrics, name) == IF name \in Monitors(metrics) THEN <<TrafficSummary(metrics, name)>> ELSE <<>>

\* The report: an hour and the hour before, the billed categories in it by cost.
ReportRoute(after, before, metrics) ==
    LET cost == CostLens(after)
        by == cost.byCategory
        ranked == RankedAnomalies(after, before)
    IN [kpis |-> OverviewKpis(metrics), talkers |-> First(10, ToSet(cost.top), CostBefore),
        breaches |-> Cardinality(Breaches(after)), anomalies |-> SubSeq(ranked, 1, Min({20, Len(ranked)})),
        total |-> cost.total,
        byCategory |-> First(Cardinality(Billed), {c \in Billed \cap DOMAIN by : by[c].usd > 0 \/ by[c].bytes > 0},
            LAMBDA c, d : by[c].usd > by[d].usd \/ (by[c].usd = by[d].usd /\ by[c].bytes > by[d].bytes))]

\* The collection's own events: a cycle with failures warns, one that was only
\* throttled informs.
CollectionEvents(history) ==
    {[kind |-> "collection", key |-> i, severity |-> IF history[i].failed > 0 THEN "warn" ELSE "info", at |-> i] :
        i \in {j \in DOMAIN history : history[j].failed > 0 \/ history[j].throttled > 0}}

Severest(events) == {e \in events : \A d \in events : Rank(e.severity) <= Rank(d.severity)}
Freshest(events) == {e \in events : \A d \in events : e.at >= d.at}
Headed(composite, events) ==
    [composite |-> composite, events |-> events, first |-> Freshest(Severest(events))]

\* The alerts page, whose first events are those of the worst severity and of
\* these the latest.  What CloudWatch says of its alarms is its own.
AlertsRoute(rows, after, before, metrics, history) ==
    LET ofFlows == {e \in ToSet(Events(rows, before, metrics)) : e.kind # "spike"}
        spikes == {e \in ToSet(Events(after, before, metrics)) : e.kind = "spike"}
    IN Headed(Composite(after, before),
              CollectionEvents(history) \cup
                 {[kind |-> e.kind, key |-> e.key, severity |-> e.severity, at |-> Now] : e \in ofFlows \cup spikes})

\* The totals of the categories: what workload insights gave, or else the edges of
\* the topology.  A metric or category without a place is left out.
InsightsRoute(insights, edges, known) ==
    LET source == IF insights = {} THEN edges ELSE insights
    IN [c \in known |-> Tally({f \in source : f.category = c})]
=============================================================================
