----------------------------- MODULE FlowHealth ------------------------------
(***************************************************************************)
(* Who is in trouble: the reliability, edge-health, anomaly and movers     *)
(* lenses of app/src/lib/analytics, the composite conditions, the worst    *)
(* services of the scorecard, the events of app/src/lib/alerts.ts and the  *)
(* latency lens.  Rates are per GB and are compared without being computed.*)
(***************************************************************************)
EXTENDS FlowRows

CONSTANTS
    RetransRate, TimeoutRate,   \* the bars, in events per GB
    Sigma, MinDelta,            \* the spike rule: its factor and floors by metric
    RateDanger, RateWarn,       \* the bars of the pairs, in events per GB
    TopN                        \* how many movers a list shows

\* ratePer: the totals of every entity the counting rows touch.
Counting(rows) == Of(rows, "data") \cup Of(rows, "retrans") \cup Of(rows, "timeouts")
Tally(rows) ==
    [bytes |-> Total(Of(rows, "data")), retrans |-> Total(Of(rows, "retrans")),
     timeouts |-> Total(Of(rows, "timeouts"))]
RatePer(rows) ==
    [k \in Entities(Counting(rows), "service") |-> Tally(Touching(rows, "service", k))]

\* thresholdBreaches.
Breaches(rows) ==
    {k \in DOMAIN RatePer(rows) : LET r == RatePer(rows)[k]
        IN RateAbove(r.retrans, r.bytes, RetransRate) \/ RateAbove(r.timeouts, r.bytes, TimeoutRate)}

\* sumsByEntity.
Sums(rows, metric) ==
    [k \in Entities(Of(rows, metric), "service") |-> Total(Touching(Of(rows, metric), "service", k))]
At(sums, k) == IF k \in DOMAIN sums THEN sums[k] ELSE 0

\* moversFor and silentMovers.
Changes(current, prior, metric) ==
    LET cur == Sums(current, metric)
        pri == Sums(prior, metric)
    IN {m \in {[key |-> k, metric |-> metric, current |-> At(cur, k), prior |-> At(pri, k)] :
                   k \in DOMAIN cur \cup DOMAIN pri} : m.current # 0 \/ m.prior # 0}

Change(m) == IF m.current > m.prior THEN m.current - m.prior ELSE m.prior - m.current
MoverBefore(x, y) ==
    \/ Change(x) > Change(y)
    \/ Change(x) = Change(y) /\ x.current > y.current
    \/ Change(x) = Change(y) /\ x.current = y.current /\ x.key < y.key
Movers(current, prior, metric) == ToSet(First(TopN, Changes(current, prior, metric), MoverBefore))

\* silentMovers keeps the first metric of a tie; the model keeps both.
WentSilent(m) == m.prior > 0 /\ m.current = 0
Silent(current, prior) ==
    LET silent == {m \in UNION {Movers(current, prior, metric) : metric \in {"data", "retrans", "timeouts"}} :
                       WentSilent(m)}
    IN {m \in silent : \A o \in silent : o.key = m.key => m.prior >= o.prior}

\* detectAnomalies: the rule on rates and the rule on jumps.
Severity(above) == IF above THEN "critical" ELSE "warn"
RateAnomalies(current, metric, bar) ==
    {[key |-> k, kind |-> metric, metric |-> metric,
      severity |-> Severity(RateAbove(RatePer(current)[k][metric], RatePer(current)[k].bytes, 2 * bar))] :
        k \in {j \in DOMAIN RatePer(current) :
                   RateAbove(RatePer(current)[j][metric], RatePer(current)[j].bytes, bar)}}

\* Mutation of Spikes: an entity without a baseline is flagged.
SpikesOfNew(current, prior, metric) ==
    LET cur == Sums(current, metric)
        pri == Sums(prior, metric)
    IN {[key |-> k, kind |-> "spike", metric |-> metric, severity |-> Severity(cur[k] > 2 * Sigma * At(pri, k))] :
           k \in {j \in DOMAIN cur : /\ cur[j] > Sigma * At(pri, j)
                                     /\ cur[j] - At(pri, j) >= MinDelta[metric]}}

Spikes(current, prior, metric) ==
    LET cur == Sums(current, metric)
        pri == Sums(prior, metric)
    IN {[key |-> k, kind |-> "spike", metric |-> metric, severity |-> Severity(cur[k] > 2 * Sigma * pri[k])] :
           k \in {j \in DOMAIN cur : /\ At(pri, j) > 0 /\ cur[j] > Sigma * At(pri, j)
                                     /\ cur[j] - At(pri, j) >= MinDelta[metric]}}

Anomalies(current, prior) ==
    RateAnomalies(current, "retrans", RetransRate) \cup RateAnomalies(current, "timeouts", TimeoutRate)
        \cup UNION {Spikes(current, prior, metric) : metric \in {"data", "retrans", "timeouts"}}

\* compositeConditions: many retransmissions and half the bytes gone.
Dropped(current, prior) ==
    {m.key : m \in {c \in Changes(current, prior, "data") : c.prior > 0 /\ 2 * c.current <= c.prior}}
Composite(current, prior) ==
    {[key |-> k, severity |-> Severity(RateAbove(RatePer(current)[k].retrans, RatePer(current)[k].bytes, 2 * RateDanger))] :
        k \in {j \in Dropped(current, prior) \cap DOMAIN RatePer(current) :
                   RateAbove(RatePer(current)[j].retrans, RatePer(current)[j].bytes, RateDanger)}}

\* deriveEvents, the events of the flows: breaches and movers that doubled.
SpikeEvents(current, prior) ==
    {m \in Movers(current, prior, "retrans") \cup Movers(current, prior, "timeouts") :
        m.prior > 0 /\ m.current >= 2 * m.prior}

-----------------------------------------------------------------------------
\* The worst services of the scorecard, before its limit.
Worst(rows) ==
    {k \in DOMAIN RatePer(rows) : LET r == RatePer(rows)[k] IN r.bytes > 0 /\ r.retrans + r.timeouts > 0}

\* The health of a pair of the network page: retransmissions alone.
Grade(danger, warn) == IF danger THEN "danger" ELSE IF warn THEN "warn" ELSE "ok"
PairHealth(retrans, bytes) ==
    Grade(RateFrom(retrans, bytes, RateDanger), RateFrom(retrans, bytes, RateWarn))

\* buildHealthMatrix: cells of ordered pairs, skipped where a key is missing.
\* Its service level names services without their namespace.
LevelKey(e, level) == IF level = "service" THEN e.name ELSE Key(e, level)
HealthMatrix(rows, level) ==
    LET keyed == {f \in rows : 0 \notin {LevelKey(f.a, level), LevelKey(f.b, level)}}
        Cell(f) == <<LevelKey(f.a, level), LevelKey(f.b, level)>>
        Graded(t) ==
            LET Reaches(bar) == RateFrom(t.retrans, t.bytes, bar) \/ RateFrom(t.timeouts, t.bytes, bar)
            IN Grade(Reaches(RateDanger), Reaches(RateWarn))
    IN [c \in {Cell(f) : f \in keyed} |-> Graded(Tally({f \in keyed : Cell(f) = c}))]

-----------------------------------------------------------------------------
\* latencyLens: the samples of a set of rows, as percentiles.
Stats(rows) ==
    LET sorted == Sorted(Of(rows, "rtt"))
    IN [p50 |-> Percentile(sorted, 50), p95 |-> Percentile(sorted, 95), p99 |-> Percentile(sorted, 99),
        count |-> Len(sorted)]

\* slowestByTail: the paths by their tail.
Tails(rows) ==
    {[edge |-> e, stats |-> Stats({f \in rows : f.edge = e})] : e \in {f.edge : f \in Of(rows, "rtt")}}
Jitter(t) == t.stats.p95 - t.stats.p50
SlowestByTail(rows, n) ==
    First(n, Tails(rows), LAMBDA x, y : \/ x.stats.p95 > y.stats.p95
                                        \/ x.stats.p95 = y.stats.p95 /\ Jitter(x) > Jitter(y)
                                        \/ x.stats.p95 = y.stats.p95 /\ Jitter(x) = Jitter(y) /\ x.edge < y.edge)

\* rttDistribution: a bin for every multiple of the width from the least to the
\* greatest sample.
Distribution(rows, width) ==
    LET values == {f.value : f \in Of(rows, "rtt")}
    IN [b \in IF values = {} THEN {} ELSE Min(values) \div width .. Max(values) \div width |->
           Cardinality({f \in Of(rows, "rtt") : f.value \div width = b})]
=============================================================================
