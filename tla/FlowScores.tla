----------------------------- MODULE FlowScores ------------------------------
(***************************************************************************)
(* The scores of monitors and of the fleet: CloudWatch's series as         *)
(* app/src/lib/cw-metrics.ts gathers them, the monitor pages (monitors.ts),*)
(* the overview (overview-metrics.ts), the scorecard, and the parts of the *)
(* network, dependencies, latency and reliability lenses that rank or      *)
(* average.  A rate, a mean or a score is a fraction, a record of num and  *)
(* den, and is compared without being computed.                            *)
(***************************************************************************)
EXTENDS FlowAccounts, FlowHealth

Fraction(num, den) == [num |-> num, den |-> den]
More(x, y) == x.num * y.den > y.num * x.den
Plus(x, y) == Fraction(x.num * y.den + y.num * x.den, x.den * y.den)
Mean(rows) == Fraction(Total(rows), Cardinality(rows))

\* The points of CloudWatch's HealthIndicator are rows of a metric of their own.
Flows(rows) == {f \in rows : f.metric # "nhi"}

\* applyFlowFilters; 0 and "all" stand for no filter.
Filtered(rows, namespace, category) ==
    {f \in rows : /\ category = "all" \/ f.category = category
                  /\ namespace = 0 \/ namespace \in Touches(f, "namespace")}

-----------------------------------------------------------------------------
\* getNfmMetrics: a series for every metric and monitor, with its statistic.
Statistic(metric, rows) ==
    CASE metric = "rtt" -> Total(rows) \div Cardinality(rows)
      [] metric = "nhi" -> Max({f.value : f \in rows})
      [] OTHER -> Total(rows)

Metrics(rows) ==
    [key \in {<<f.metric, f.monitor>> : f \in rows} |->
        LET mine == {f \in rows : <<f.metric, f.monitor>> = key}
        IN [b \in {f.bucket : f \in mine} |-> Statistic(key[1], {f \in mine : f.bucket = b})]]

Series(metrics, metric, name) ==
    IF <<metric, name>> \in DOMAIN metrics THEN metrics[<<metric, name>>] ELSE <<>>
Sum(series) == MapThenSumSet(LAMBDA b : series[b], DOMAIN series)
Missing == -1

Latest(series) == IF series = <<>> THEN Missing ELSE series[Max(DOMAIN series)]

\* The values of pairs of a value and where it is from, in ascending order.
Ascending(tagged) ==
    LET ranked == SetToSortSeq(tagged, LAMBDA x, y : x[1] < y[1])
    IN [i \in DOMAIN ranked |-> ranked[i][1]]

Monitors(metrics) == {key[2] : key \in DOMAIN metrics}
SeriesOf(metrics, metric) == {key \in DOMAIN metrics : key[1] = metric}

\* buildMonitorList.
MonitorList(metrics) ==
    [name \in Monitors(metrics) |->
        [nhi |-> Latest(Series(metrics, "nhi", name)), bytes |-> Sum(Series(metrics, "data", name)),
         retrans |-> Sum(Series(metrics, "retrans", name)), timeouts |-> Sum(Series(metrics, "timeouts", name))]]

\* trafficSummary, the page of one monitor.
TrafficSummary(metrics, name) ==
    LET data == Series(metrics, "data", name)
        rtt == Series(metrics, "rtt", name)
        sorted == Ascending({<<rtt[b], b>> : b \in DOMAIN rtt})
    IN [bytes |-> Fraction(Sum(data), Cardinality(DOMAIN data)),
        retrans |-> Sum(Series(metrics, "retrans", name)), timeouts |-> Sum(Series(metrics, "timeouts", name)),
        min |-> IF sorted = <<>> THEN Missing ELSE sorted[1],
        p50 |-> Percentile(sorted, 50), p95 |-> Percentile(sorted, 95)]

\* combineAcrossMonitors: the fleet's value of every bucket.
Combined(metrics, metric, Combine(_)) ==
    LET mine == SeriesOf(metrics, metric)
    IN [b \in UNION {DOMAIN metrics[key] : key \in mine} |->
           Combine({<<metrics[key][b], key>> : key \in {k \in mine : b \in DOMAIN metrics[k]}})]
Added(tagged) == MapThenSumSet(LAMBDA x : x[1], tagged)
Least(tagged) == Min({x[1] : x \in tagged})

\* buildOverviewKpis, without the deltas.
OverviewKpis(metrics) ==
    LET pool == Ascending(UNION {{<<metrics[key][b], <<key, b>>>> : b \in DOMAIN metrics[key]} :
                                    key \in SeriesOf(metrics, "rtt")})
        best == Combined(metrics, "rtt", Least)
        latest == {Latest(metrics[key]) : key \in SeriesOf(metrics, "nhi")}
    IN [bytes |-> Combined(metrics, "data", Added), retrans |-> Sum(Combined(metrics, "retrans", Added)),
        timeouts |-> Sum(Combined(metrics, "timeouts", Added)),
        rtt |-> IF best = <<>> THEN Missing ELSE Min({best[b] : b \in DOMAIN best}),
        p50 |-> Percentile(pool, 50), p95 |-> Percentile(pool, 95),
        nhi |-> IF latest = {} THEN Missing ELSE Max(latest)]

\* errorRateSeries.
ErrorRates(rows) == [b \in {f.bucket : f \in Flows(rows)} |-> Tally({f \in Flows(rows) : f.bucket = b})]

-----------------------------------------------------------------------------
\* The lanes of healthByMonitor, the swimlanes and the timeline of breaches.
Lanes(metrics) == [name \in {key[2] : key \in SeriesOf(metrics, "nhi")} |-> metrics[<<"nhi", name>>]]
Swimlanes(metrics) == LET lanes == Lanes(metrics)
                      IN [name \in DOMAIN lanes |-> [b \in DOMAIN lanes[name] |-> lanes[name][b] = 0]]
BreachTimeline(metrics) ==
    LET lanes == Lanes(metrics)
    IN [b \in UNION {DOMAIN lanes[name] : name \in DOMAIN lanes} |->
           Cardinality({name \in DOMAIN lanes : b \in DOMAIN lanes[name] /\ lanes[name][b] > 0})]

\* availabilityPct, of 1.  A lane without points says nothing.
Availability(lane) == Fraction(Cardinality({b \in DOMAIN lane : lane[b] = 0}), Cardinality(DOMAIN lane))

\* compositeScore: 60 points for health, and 20 each for few retransmissions and
\* few timeouts per GB, which are used up at 20 and at 10 of them.
CompositeScore(available, tally) ==
    LET bytes == IF tally.bytes = 0 THEN 1 ELSE tally.bytes
        Lost(events, scale) == IF tally.bytes = 0 THEN 0 ELSE Min({events * Giga, scale * bytes})
        healthy == IF available.den = 0 THEN Fraction(1, 1) ELSE available
    IN Plus(Fraction(60 * healthy.num, healthy.den),
            Fraction(40 * bytes - Lost(tally.retrans, 20) - 2 * Lost(tally.timeouts, 10), bytes))

ScoreStatus(score) ==
    IF score.num >= 90 * score.den THEN "ok" ELSE IF score.num >= 70 * score.den THEN "warn" ELSE "danger"

\* scorecardLens, with the flows and CloudWatch's lanes; Worst has the services.
MonitorScore(rows, metrics, name) ==
    LET tally == Tally({f \in rows : f.monitor = name})
        available == Availability(Series(metrics, "nhi", name))
        score == CompositeScore(available, tally)
    IN [available |-> available, tally |-> tally, score |-> score, status |-> ScoreStatus(score)]
Scorecard(rows, metrics) ==
    [name \in {f.monitor : f \in Counting(rows)} \cup DOMAIN Lanes(metrics) |-> MonitorScore(rows, metrics, name)]

\* The mean of a fraction of each of them.
MeanOf(set, Value(_)) ==
    LET sum == FoldSet(LAMBDA x, rest : Plus(Value(x), rest), Fraction(0, 1), set)
    IN Fraction(sum.num, sum.den * Cardinality(set))
OverallScore(card) ==
    IF DOMAIN card = {} THEN Fraction(0, 1) ELSE MeanOf(DOMAIN card, LAMBDA name : card[name].score)

\* concentration over the pairs, without the entropy.
Shares(bytes) ==
    LET n == Len(bytes)
        total == IF n = 0 THEN 0 ELSE bytes[n].running
        weighted[i \in 0 .. n] == IF i = 0 THEN 0 ELSE weighted[i - 1] + i * bytes[n + 1 - i].bytes
    IN [n |-> n,
        topShare |-> IF n = 0 THEN Fraction(0, 1) ELSE Fraction(bytes[1].bytes, total),
        gini |-> IF n <= 1 THEN Fraction(0, 1) ELSE Fraction(2 * weighted[n] - (n + 1) * total, n * total)]
Concentration(rows) == Shares(Pareto(rows, Cardinality(Data(rows))))

\* overviewSummary.
OverviewSummary(rows, metrics) ==
    LET card == Scorecard(rows, metrics)
        cost == Efficiency(rows)
    IN [score |-> OverallScore(card), status |-> ScoreStatus(OverallScore(card)),
        billed |-> Fraction(cost.billed, cost.bytes), topShare |-> Concentration(rows).topShare,
        total |-> Cardinality(DOMAIN card), degraded |-> Cardinality({n \in DOMAIN card : card[n].status # "ok"})]

-----------------------------------------------------------------------------
\* deriveEvents for /api/alerts, without the collection's own; the worst first.
Rank(severity) == CHOOSE i \in 1 .. 3 : <<"critical", "warn", "info">>[i] = severity
Events(current, prior, metrics) ==
    LET Event(kind, severity, keys) == {[kind |-> kind, severity |-> severity, key |-> k] : k \in keys}
        lanes == Lanes(metrics)
    IN SetToSortSeq(Event("nhi", "critical", {name \in DOMAIN lanes : Latest(lanes[name]) > 0})
                      \cup Event("breach", "warn", Breaches(current))
                      \cup Event("spike", "warn", {<<m.metric, m.key>> : m \in SpikeEvents(current, prior)}),
                    LAMBDA x, y : Rank(x.severity) < Rank(y.severity))

\* networkAnalyticsLens as it answers: ranked by a metric, cut, with the totals.
RankValue(pair, metric) ==
    CASE metric = "volume" -> Fraction(pair.bytes, 1)
      [] metric = "retransmits" -> Fraction(pair.retrans, 1)
      [] metric = "rtt" -> IF pair.samples = 0 THEN Fraction(-1, 1) ELSE Fraction(pair.rtt, pair.samples)
NetworkAnswer(rows, from, to, metric, n) ==
    LET pairs == NetworkPairs(rows, from, to)
    IN [pairs |-> First(n, DOMAIN pairs,
                        LAMBDA p, q : More(RankValue(pairs[p], metric), RankValue(pairs[q], metric))),
        bytes |-> Total(Data(rows)), retrans |-> Total(Of(rows, "retrans"))]

\* The ports of composition, and hopUsage.
Ports(rows) == Ledger({f \in Data(rows) : f.port # 0}, LAMBDA f : f.port)
Occurrences(hops, type) == Cardinality({i \in DOMAIN hops : hops[i] = type})
HopUsage(rows) ==
    [type \in UNION {ToSet(f.hops) : f \in Data(rows)} |->
        MapThenSumSet(LAMBDA f : Occurrences(f.hops, type), Data(rows))]

\* flowAggregates, the strip of the flows page.
TopTalkers(rows) ==
    [k \in {Key(f.a, "service") : f \in Data(rows)} |-> Total({f \in Data(rows) : Key(f.a, "service") = k})]

\* slowestPaths and rttTrend: means by edge and by bucket.
PathMeans(rows) == [e \in {f.edge : f \in Of(rows, "rtt")} |-> Mean({f \in Of(rows, "rtt") : f.edge = e})]
SlowestPaths(rows, n) == First(n, DOMAIN PathMeans(rows), LAMBDA d, e : More(PathMeans(rows)[d], PathMeans(rows)[e]))
RttTrend(rows) == [b \in {f.bucket : f \in Of(rows, "rtt")} |-> Mean({f \in Of(rows, "rtt") : f.bucket = b})]

\* intraVsInter.
IntraVsInter(rows) ==
    [intra |-> Stats({f \in rows : f.category = "INTRA_AZ"}), inter |-> Stats({f \in rows : f.category = "INTER_AZ"})]

\* rttVsRetrans: the edges with a sample, those with the most retransmissions.
Scatter(rows, cap) ==
    LET Point(e) == LET mine == {f \in rows : f.edge = e}
                    IN [edge |-> e, rtt |-> Mean(Of(mine, "rtt")), retrans |-> Total(Of(mine, "retrans")),
                        bytes |-> Total(Of(mine, "data"))]
    IN First(cap, {Point(e) : e \in {f.edge : f \in Of(rows, "rtt")}},
             LAMBDA p, q : p.retrans > q.retrans \/ (p.retrans = q.retrans /\ p.bytes > q.bytes))

\* detectAnomalies as it answers: the severe first, then by how far the bar was
\* passed.
Magnitude(a, current, prior) ==
    CASE a.kind = "retrans" -> Fraction(RatePer(current)[a.key].retrans * Giga, RatePer(current)[a.key].bytes * RetransRate)
      [] a.kind = "timeouts" -> Fraction(RatePer(current)[a.key].timeouts * Giga, RatePer(current)[a.key].bytes * TimeoutRate)
      [] OTHER -> Fraction(Sums(current, a.metric)[a.key], At(Sums(prior, a.metric), a.key))
RankedAnomalies(current, prior) ==
    SetToSortSeq(Anomalies(current, prior),
        LAMBDA x, y : \/ Rank(x.severity) < Rank(y.severity)
                      \/ /\ x.severity = y.severity
                         /\ More(Magnitude(x, current, prior), Magnitude(y, current, prior)))
=============================================================================
