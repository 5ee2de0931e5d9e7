------------------------------- MODULE Lenses --------------------------------
(***************************************************************************)
(* The lenses over two windows of rows that fill while rows arrive and     *)
(* slide when the current window becomes the prior one                     *)
(* (getFlowsWindowPair, app/src/lib/ddb.ts).                               *)
(***************************************************************************)
EXTENDS ToolAnswers

CONSTANTS
    Rows,                 \* the rows that may arrive
    MaxCurrent, MaxPrior  \* bounds on the rows of both windows and of the prior one

VARIABLES current, prior
vars == <<current, prior>>

Init == current = {} /\ prior = {}

Arrive ==
    /\ Cardinality(current) + Cardinality(prior) < MaxCurrent
    /\ \E f \in Rows \ current : current' = current \cup {f}
    /\ UNCHANGED prior

Slide ==
    /\ Cardinality(current) <= MaxPrior
    /\ prior' = current /\ current' = {}

Next == Arrive \/ Slide
Spec == Init /\ [][Next]_vars

-----------------------------------------------------------------------------
\* The overview, the list of monitors and the page of each report one fleet.
FleetAdds ==
    LET metrics == Metrics(current)
        fleet == OverviewKpis(metrics)
        list == MonitorList(metrics)
        page == [name \in Monitors(metrics) |-> TrafficSummary(metrics, name)]
        rates == ErrorRates(current)
        timed == {name \in DOMAIN page : page[name].min # Missing}
    IN /\ Sum(fleet.bytes) = SumOf(list, "bytes")
       /\ fleet.retrans = SumOf(list, "retrans") /\ fleet.timeouts = SumOf(page, "timeouts")
       /\ SumOf(rates, "retrans") = fleet.retrans /\ SumOf(rates, "bytes") = SumOf(list, "bytes")
       /\ timed # {} => /\ fleet.rtt = Min({page[name].min : name \in timed})
                        /\ \A q \in {"p50", "p95"} : /\ \E name \in timed : page[name][q] <= fleet[q]
                                                     /\ \E name \in timed : page[name][q] >= fleet[q]
       /\ fleet.nhi = IF DOMAIN Lanes(metrics) = {} THEN Missing
                      ELSE Max({list[name].nhi : name \in DOMAIN Lanes(metrics)})

\* The views that cut the traffic up add up to the accounts: by port, by talker,
\* by bucket of a pair, by hop, and under the filters.
CutsAddUp ==
    LET data == Data(current)
        explorer == CostExplorer(current)
        categories == CostLens(current).byCategory
        network == NetworkPairs(current, "port", "az")
        answer == NetworkAnswer(current, "port", "az", "volume", Cardinality(Rows))
        tree == PathTree(current)
        talkers == TopTalkers(current)
    IN \A lens \in {Dependencies(current)} : \A hops \in {lens.hops}, share \in {lens.concentration} :
       /\ SumOf(lens.ports, "bytes") = Total({f \in data : f.port # 0})
       /\ MapThenSumSet(LAMBDA k : talkers[k], DOMAIN talkers) = SumOf(categories, "bytes")
       /\ answer.bytes = SumOf(network, "bytes") /\ answer.retrans = SumOf(network, "retrans")
       /\ \A type \in DOMAIN hops :
             hops[type] = MapThenSumSet(LAMBDA p : tree[p], {p \in DOMAIN tree : p # <<>> /\ Last(p) = type})
       /\ \A c \in DOMAIN categories : UsdOf(Data(Filtered(current, 0, c))) = categories[c].usd
       /\ \A n \in DOMAIN explorer.byNamespace \ {0} :
             Total(Data(Filtered(current, n, "all"))) = explorer.byNamespace[n].bytes
       /\ share.gini.num >= 0 /\ share.gini.num < share.gini.den
       /\ share.n > 0 => /\ ~More(Fraction(1, share.n), share.topShare)
                         /\ (share.gini.num = 0) = ~More(share.topShare, Fraction(1, share.n))

\* The routes add up: the report's categories and the two halves of the overview's
\* series to their totals, the page of a monitor to its line in the list, the hours
\* of the heatmap to all samples, and the totals by category to the cost lens's.
RoutesAddUp ==
    LET metrics == Metrics(current)
        categories == CostLens(current).byCategory
        heatmap == Heatmap(current)
        trend == RttTrend(current)
        listed == MonitorsRoute(metrics)
        list == MonitorList(metrics)
        totals == InsightsRoute({}, current, DOMAIN categories)
    IN /\ \A report \in {ReportRoute(current, prior, metrics)} :
             MapThenSumSet(LAMBDA c : categories[c].usd, ToSet(report.byCategory)) = report.total
       /\ \A overview \in {OverviewRoute(current, metrics)} : \A i \in DOMAIN overview.delta :
             overview.delta[i].from.num + overview.delta[i].to.num = Sum(overview.kpis.bytes)
       /\ \A i \in DOMAIN listed : LET page == MonitorRoute(metrics, listed[i])
             IN page # <<>> /\ page[1].bytes.num = list[listed[i]].bytes
       /\ MapThenSumSet(LAMBDA h : heatmap[h].count, DOMAIN heatmap) = Cardinality(Of(current, "rtt"))
       /\ \A h \in DOMAIN heatmap : LET mine == {b \in DOMAIN trend : HourOfDay[b] = h}
             IN /\ \E b \in mine : ~More(trend[b], heatmap[h].mean)
                /\ \E b \in mine : ~More(heatmap[h].mean, trend[b])
       /\ \A c \in DOMAIN categories : totals[c].bytes = categories[c].bytes

\* The tools agree with the pages, and what a bound cuts away is never worse than
\* what it leaves: the breaches and the events, the edges of the snapshot (which
\* hold all bytes) by each metric, the flows of a pod by age.  Every breach rests on
\* an edge the diagnosis is told of, the search finds every end and no result twice,
\* and the history of the collection is its newest cycles wherever the pointer is.
ToolsAgree ==
    LET metrics == Metrics(current)
        edges == Snapshot(current)
        per == RatePer(current)
        flows == Flows(current)
        ends == {f.a : f \in flows} \cup {f.b : f \in flows}
        Shows(list, set) == ToSet(list) \subseteq set /\ Len(list) = Min({MaxRows, Cardinality(set)})
    IN \A breaches \in {ReliabilityTool(current).breaches},
          page \in {AlertsRoute(current, current, prior, metrics, <<>>).events},
          events \in {AlertsTool(current, current, prior, metrics, <<>>).events},
          ranked \in {AnomaliesTool(current, prior)},
          all \in {AnomaliesRoute(current, prior, 1, 0, "all").anomalies} :
       /\ Shows(breaches, Breaches(current)) /\ Shows(events, page) /\ Shows(ranked.rows, all)
       /\ ranked.truncated = (Cardinality(all) > MaxRows)
       /\ \A k \in ToSet(breaches), j \in Breaches(current) \ ToSet(breaches) : ~More(Excess(per[j]), Excess(per[k]))
       /\ \A e \in ToSet(events), d \in page \ ToSet(events) : Rank(e.severity) <= Rank(d.severity)
       /\ MapThenSumSet(LAMBDA e : e.data, ToSet(edges)) = Total(Data(current))
       /\ \A metric \in {"data", "retrans", "timeouts"} :
             LET top == ToSet(TopTalkersTool(edges, metric, 1).rows)
             IN \A f \in Of(current, metric) : \E e \in top : e[metric] >= f.value
       /\ \A k \in Breaches(current) : \E e \in ToSet(TopAnomalies(edges, Cardinality(Rows))) :
             \E f \in current : f.edge = e.id /\ k \in Touches(f, "service")
       /\ \A pod \in Entities(flows, "service") \ {0} :
             LET kept == ToSet(PodFlowsTool(flows, pod, 0))
                 mine == Touching(flows, "service", pod)
             IN /\ kept \subseteq mine /\ Cardinality(kept) = Min({MaxRows, Cardinality(mine)})
                /\ \A f \in kept, g \in mine \ kept : f.bucket >= g.bucket
       /\ LET matches == {<<"pod", e.name>> : e \in ends}
              found == SearchEntities(matches, <<>>, SetToSeq(flows), <<>>, 2)
          IN /\ Len(found) = Min({2, Cardinality({e.name : e \in ends} \ {0})})
             /\ \A i, j \in DOMAIN found : found[i].label = found[j].label => i = j
       /\ LET cycles == {f.bucket : f \in current}
              history == CollectionHistory(cycles, TRUE, 1)
          IN /\ history = CollectionHistory(cycles, FALSE, 1)
             /\ cycles # {} => history = <<Max(cycles)>>

\* The lenses that account for the same traffic agree: their accounts add up
\* (FlowAccounts), and the running sum of the pareto ends in all bytes.  What the
\* explorer proposes to save is billed: every proposal names a billed
\* category, costs what the cost lens says the pair costs, and no pair left out
\* costs more.  So do the monitors and the fleet, the views that cut and the tools.
AccountsAgree ==
    \A cost \in {CostLens(current)}, all \in {Efficiency(current)}, pareto \in {Pareto(current, 20)},
       savings \in {Savings(current)} :
    LET top == cost.top
    IN /\ LedgersAddUp(current)
       /\ pareto # <<>> => pareto[Len(pareto)].running = all.bytes
       /\ \A i \in DOMAIN savings :
             /\ savings[i].categories \subseteq Billed
             /\ \E j \in DOMAIN top : top[j].pair = savings[i].pair /\ top[j].usd = savings[i].usd
       /\ \A j \in DOMAIN top : \/ \E i \in DOMAIN savings : savings[i].pair = top[j].pair
                                \/ \A i \in DOMAIN savings : savings[i].usd >= top[j].usd
                                \/ top[j].usd = 0
       /\ FleetAdds /\ CutsAddUp /\ RoutesAddUp /\ ToolsAgree

\* The scores: the timeline counts the swimlanes' unhealthy points, all of what
\* the availability misses; a monitor above a bar of the reliability lens is never
\* ok; the fleet scores between its monitors; without CloudWatch no monitor scores
\* less; and no cell of the health matrix is milder than the same pair of the
\* network page.
ScoresAgree ==
    LET metrics == Metrics(current)
        lanes == Swimlanes(metrics)
        timeline == BreachTimeline(metrics)
    IN \A card \in {Scorecard(current, metrics)}, summary \in {OverviewSummary(current, metrics)},
          flowsOnly \in {ScorecardRoute(current, Metrics({}), 0, "all")} :
       /\ \A b \in DOMAIN timeline : timeline[b] = Cardinality({n \in DOMAIN lanes : b \in DOMAIN lanes[n] /\ ~lanes[n][b]})
       /\ MapThenSumSet(LAMBDA b : timeline[b], DOMAIN timeline)
             = MapThenSumSet(LAMBDA n : card[n].available.den - card[n].available.num, DOMAIN card)
       /\ \A n \in DOMAIN card : LET t == card[n].tally
             IN RateAbove(t.retrans, t.bytes, RetransRate) \/ RateAbove(t.timeouts, t.bytes, TimeoutRate)
                   => card[n].status # "ok"
       /\ DOMAIN card # {} => /\ \E n \in DOMAIN card : ~More(card[n].score, summary.score)
                              /\ \E n \in DOMAIN card : ~More(summary.score, card[n].score)
       /\ summary.status # "ok" /\ summary.total > 0 => summary.degraded > 0
       /\ \A n \in DOMAIN flowsOnly : ~More(card[n].score, flowsOnly[n].score)
       /\ \A level \in {"namespace", "az", "vpc"} :
             LET cells == HealthMatrix(current, level)
                 pairs == NetworkPairs(current, level, level)
             IN \A c \in DOMAIN cells \cap DOMAIN pairs :
                   \/ cells[c] = "danger"
                   \/ PairHealth(pairs[c].retrans, pairs[c].bytes) = "ok"
                   \/ cells[c] = "warn" /\ PairHealth(pairs[c].retrans, pairs[c].bytes) = "warn"

\* The routes agree: the health of the reliability page is bad exactly in the buckets
\* for which the scorecard counts a breach, the overview, the report and the alerts
\* count the same services, and a correlation is within one.
RoutesAgree ==
    LET metrics == Metrics(current)
        breaching == BreachTimeline(metrics)
    IN \A lens \in {Reliability(current, metrics)} :
       /\ {b \in DOMAIN lens.nhi : lens.nhi[b] = 1} = {b \in DOMAIN breaching : breaching[b] > 0}
       /\ OverviewRoute(current, metrics).breaches = Cardinality(lens.breaches)
       /\ ReportRoute(current, prior, metrics).breaches = Cardinality(lens.breaches)
       /\ \A i \in DOMAIN lens.correlation : LET r == lens.correlation[i] IN r.num * r.num <= r.dx * r.dy

\* The events: what is wrong with CloudWatch's indicator heads them exactly while the
\* overview shows it, then come the breaches, before what the collection says of
\* itself; and without CloudWatch no event of the flows is lost.
EventsAgree ==
    LET metrics == Metrics(current)
        breaches == Breaches(current)
        bad == OverviewKpis(metrics).nhi > 0
        History == <<[failed |-> 1, throttled |-> 0], [failed |-> 0, throttled |-> 1], [failed |-> 0, throttled |-> 0]>>
        events == Events(current, prior, metrics)
        OfKind(list, kind) == {e.key : e \in {d \in list : d.kind = kind}}
    IN \A page \in {AlertsRoute(current, current, prior, metrics, History)},
          without \in {AlertsRoute(current, current, prior, Metrics({}), History).events} :
       /\ OfKind(page.events, "breach") = breaches
       /\ \A kind \in {"breach", "spike", "collection"} : OfKind(page.events, kind) = OfKind(without, kind)
       /\ bad => \A e \in page.first : e.kind = "nhi"
       /\ (events # <<>> /\ events[1].kind = "nhi") = bad
       /\ breaches # {} => \A e \in page.first : e.kind # "collection"

\* The lenses that judge services agree: a service breaches a bar exactly when
\* it is a rate anomaly and then is among the worst of the scorecard, a
\* composite is a retransmission anomaly of its severity (the bars are the
\* default settings, which the composite takes for its own), a spike of events the
\* movers list is a spike event of the alerts page, and what one of the pages that
\* compare windows withholds the other does too.  So do the events, and the scores and
\* the routes, which are looked at while the prior window is empty.
VerdictsAgree ==
    \A anomalies \in {Anomalies(current, prior)} :
    LET Of3(kind) == {a \in anomalies : a.kind = kind}
    IN /\ Breaches(current) = {a.key : a \in Of3("retrans") \cup Of3("timeouts")}
       /\ Breaches(current) \subseteq Worst(current)
       /\ \A c \in Composite(current, prior) :
             \E a \in Of3("retrans") : a.key = c.key /\ a.severity = c.severity
       /\ \A a \in Of3("spike") : a.metric # "data" =>
             \A m \in Movers(current, prior, a.metric) : m.key = a.key => m \in SpikeEvents(current, prior)
       /\ \A hours \in {1, 24} : MoversRoute(current, prior, hours, 0, "all").insufficient
                                   = AnomaliesRoute(current, prior, hours, 0, "all").insufficient
       /\ EventsAgree
       /\ prior = {} => ScoresAgree /\ RoutesAgree

\* What is listed first is not exceeded by what follows or is left out: the
\* anomalies of a kind by how far they are above their bar, the pairs of the network
\* page by their metric, the slowest paths by their means, which the scatter has for
\* the same edges and which lie between the quickest and the slowest sample.
ListsRank ==
    LET pairs == NetworkPairs(current, "service", "service")
        means == PathMeans(current)
        slow == SlowestPaths(current, 1)
        dots == Scatter(current, 1)
        samples == Of(current, "rtt")
    IN \A anomalies \in {RankedAnomalies(current, prior)}, lens \in {Latency(current, 5)} :
       \A trend \in {lens.trend}, split \in {lens.split} :
       /\ \A i, j \in DOMAIN anomalies : i < j /\ anomalies[i].kind = anomalies[j].kind /\ anomalies[i].kind # "spike" =>
             ~More(Magnitude(anomalies[j], current, prior), Magnitude(anomalies[i], current, prior))
       /\ \A metric \in {"volume", "retransmits", "rtt"} :
             LET shown == ToSet(NetworkAnswer(current, "service", "service", metric, 1).pairs)
             IN \A p \in shown, q \in DOMAIN pairs \ shown :
                   ~More(RankValue(pairs[q], metric), RankValue(pairs[p], metric))
       /\ \A i \in DOMAIN slow, e \in DOMAIN means : ~More(means[e], means[slow[i]])
       /\ \A i \in DOMAIN dots : dots[i].rtt = means[dots[i].edge]
       /\ \A b \in DOMAIN trend : /\ \E f \in samples : f.value * trend[b].den <= trend[b].num
                                  /\ \E f \in samples : f.value * trend[b].den >= trend[b].num
       /\ split.intra.count + split.inter.count <= Cardinality(samples)

\* Rankings keep what they say they keep.  A capped graph changes what is drawn
\* and never what it says: every kept link joins the services it joined before,
\* with its bytes, the heaviest are kept, and a kept node of the path tree is
\* inside a kept node.  A percentile is the nearest rank: at least that share of
\* the samples is not above it and less than that share is below, and the bins
\* lose no sample.
RankingsHold ==
    LET graph == ServiceGraph(current)
        capped == CapLinks(graph, MaxLinks)
        tree == PathTree(current)
        kept == CapBreadth(tree)
        samples == Of(current, "rtt")
        sorted == Sorted(samples)
        Named(g) == {<<{g.nodes[g.links[i].source], g.nodes[g.links[i].target]}, g.links[i].value>> :
                        i \in DOMAIN g.links}
    IN /\ Named(capped) \subseteq Named(graph)
       /\ \A l \in Named(graph) \ Named(capped) : \A k \in Named(capped) : k[2] >= l[2]
       /\ \A p \in kept : /\ Len(p) > 0 => SubSeq(p, 1, Len(p) - 1) \in kept
                          /\ \A q \in Children(tree, p) \ kept : \A r \in Children(tree, p) \cap kept : tree[r] >= tree[q]
       /\ \A p \in {50, 90, 95, 99} : samples # {} =>
             LET v == Percentile(sorted, p)
             IN /\ 100 * Cardinality({f \in samples : f.value <= v}) >= p * Cardinality(samples)
                /\ 100 * Cardinality({f \in samples : f.value < v}) < p * Cardinality(samples)
       /\ \A t \in Tails(current) : t.stats.p50 <= t.stats.p95 /\ t.stats.p95 <= t.stats.p99
       /\ samples # {} => SlowestByTail(current, 1)[1].stats.p95 >= Stats(current).p50
       /\ \A width \in {1, 2, 5} :
             LET bins == Distribution(current, width)
             IN MapThenSumSet(LAMBDA b : bins[b], DOMAIN bins) = Cardinality(samples)
       /\ ListsRank

\* "A crashed / scaled-to-zero incident signal" (movers.ts:22-24, MoversTab.tsx:7-8):
\* a service of the went-silent list has no traffic in the current window.
SilentMeansGone ==
    \A m \in Silent(current, prior) : At(Sums(current, "data"), m.key) = 0
=============================================================================
