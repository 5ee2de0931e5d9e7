----------------------------- MODULE DnsAnswers ------------------------------
(***************************************************************************)
(* What is said of the name lookups of a cycle: the aggregate that the     *)
(* collector keeps (collector/src/dns.ts), and what the DNS tab derives    *)
(* from it (app/src/lib/analytics/dns-insights.ts, DnsTab.tsx).            *)
(*                                                                         *)
(* A record has the fields name, ns (that of a name in the cluster, 0      *)
(* otherwise), internal, qtype, rcode, client and id (who asked, 0 where   *)
(* the log does not say), ms (Missing where the log does not say), source  *)
(* and ips, the addresses of its answer.                                   *)
(***************************************************************************)
EXTENDS Integers, SequencesExt

CONSTANTS
    Lookups,      \* the records a log may hold
    FlowIps,      \* the addresses of the flows of the cycle
    MaxDomains,   \* how many domains the aggregate keeps
    MaxLookups    \* bound on the records

VARIABLE records

LOCAL Accounts == INSTANCE FlowAccounts
              WITH Giga <- 1, Billed <- {}, ClusterOf <- <<>>, SavingsLimit <- 1, MaxLinks <- 1, MaxChildren <- 1

Missing == -1
Count(P(_)) == Cardinality({i \in DOMAIN records : P(records[i])})
Values(Of(_)) == {Of(records[i]) : i \in DOMAIN records}

\* The key of a failure and the asker of a lookup.
FailKey(r) == IF r.ns # 0 THEN r.ns ELSE r.client
Asker(r) == IF r.id # 0 THEN r.id ELSE r.client
Failed(r) == r.rcode \in {"NXDOMAIN", "SERVFAIL"}

\* pct: no more than p of a hundred samples are below it.
Pct(sorted, p) ==
    IF sorted = <<>> THEN 0 ELSE sorted[Min({Len(sorted) - 1, (p * Len(sorted)) \div 100}) + 1]

\* The durations of some of the records, in ascending order.
Durations(P(_)) ==
    LET timed == {i \in DOMAIN records : records[i].ms # Missing /\ P(records[i])}
        order == SetToSortSeq(timed, LAMBDA i, j : records[i].ms < records[j].ms)
    IN [k \in DOMAIN order |-> records[order[k]].ms]

Stat(source) ==
    LET durs == Durations(LAMBDA r : r.source = source)
    IN [p50 |-> Pct(durs, 50), p95 |-> Pct(durs, 95), samples |-> Len(durs),
        failed |-> Count(LAMBDA r : r.source = source /\ Failed(r)), count |-> Count(LAMBDA r : r.source = source)]

Domains ==
    [name \in Values(LAMBDA r : r.name) |-> Count(LAMBDA r : r.name = name)]
TopDomains == Accounts!First(MaxDomains, DOMAIN Domains, LAMBDA m, n : Domains[m] > Domains[n])

Failures ==
    [key \in Values(FailKey) |->
        [nxdomain |-> Count(LAMBDA r : FailKey(r) = key /\ r.rcode = "NXDOMAIN"),
         servfail |-> Count(LAMBDA r : FailKey(r) = key /\ r.rcode = "SERVFAIL"),
         total |-> Count(LAMBDA r : FailKey(r) = key)]]

\* The graph of resolution: the askers and the names as numbered nodes, in the order
\* of the records.
Nodes == FoldLeft(LAMBDA nodes, r : nodes \o SelectSeq(<<Asker(r), r.name>>, LAMBDA n : n \notin ToSet(nodes)),
                  <<>>, records)
NodeOf(label) == CHOOSE i \in DOMAIN Nodes : Nodes[i] = label
Resolution ==
    [nodes |-> Nodes,
     links |-> SetToSeq({[source |-> NodeOf(Asker(records[i])), target |-> NodeOf(records[i].name),
                          value |-> Count(LAMBDA r : Asker(r) = Asker(records[i]) /\ r.name = records[i].name)] :
                            i \in DOMAIN records})]

\* The name of an address: that of the last answer of the resolver which holds it.
AnswersFor(ip) == {i \in DOMAIN records : records[i].source = "resolver" /\ ip \in records[i].ips}
NameFlow == [ip \in {a \in FlowIps : AnswersFor(a) # {}} |-> records[Max(AnswersFor(ip))].name]

\* aggregateDns.
AggregateDns ==
    LET all == Durations(LAMBDA r : TRUE)
    IN [enabled |-> records # <<>>, topDomains |-> TopDomains, failures |-> Failures,
        latency |-> [p50 |-> Pct(all, 50), p90 |-> Pct(all, 90), p95 |-> Pct(all, 95),
                     max |-> IF all = <<>> THEN 0 ELSE Last(all), count |-> Len(all)],
        queryTypes |-> [t \in Values(LAMBDA r : r.qtype) |-> Count(LAMBDA r : r.qtype = t)],
        resolution |-> Resolution, nameFlow |-> NameFlow,
        bySource |-> [source \in {"coredns", "resolver"} |-> Stat(source)]]

-----------------------------------------------------------------------------
\* The route answers an aggregate that is not enabled where the row is missing.
DnsRoute(row) == IF row = <<>> THEN [enabled |-> FALSE] ELSE row[1]

\* internalExternalSplit, of the domains that were kept.
Inside(domains) == {name \in domains : \E i \in DOMAIN records : records[i].name = name /\ records[i].internal}
Volume(domains) == MapThenSumSet(LAMBDA name : Domains[name], domains)
InternalExternalSplit(dns) ==
    LET shown == ToSet(dns.topDomains)
    IN [internal |-> Volume(Inside(shown)), external |-> Volume(shown \ Inside(shown))]

\* topNxdomainSources, rcodeBreakdown and topResolvers.
TopNxdomainSources(failures, n) ==
    Accounts!First(n, {k \in DOMAIN failures : failures[k].nxdomain > 0},
                   LAMBDA j, k : failures[j].nxdomain > failures[k].nxdomain)
RcodeBreakdown(failures) ==
    [nxdomain |-> MapThenSumSet(LAMBDA k : failures[k].nxdomain, DOMAIN failures),
     servfail |-> MapThenSumSet(LAMBDA k : failures[k].servfail, DOMAIN failures)]
TopResolvers(graph, n) ==
    LET links == ToSet(graph.links)
        Value(label) == MapThenSumSet(LAMBDA l : l.value, {l \in links : graph.nodes[l.source] = label})
        asking == {graph.nodes[l.source] : l \in links}
    IN Accounts!First(n, {[label |-> a, value |-> Value(a)] : a \in asking}, LAMBDA x, y : x.value > y.value)

\* DnsTab: the lists it shows, the graph cut to its heaviest links, and the sources
\* whose latency is shown, which are those with samples.
FailsMore(f, g) == (f.nxdomain + f.servfail) * g.total > (g.nxdomain + g.servfail) * f.total
DnsTab(dns, links) ==
    [domains |-> SubSeq(dns.topDomains, 1, Min({12, Len(dns.topDomains)})),
     resolution |-> Accounts!CapLinks(dns.resolution, links),
     failures |-> Accounts!First(10, DOMAIN dns.failures,
                                 LAMBDA j, k : FailsMore(dns.failures[j], dns.failures[k])),
     nxdomain |-> TopNxdomainSources(dns.failures, 8), resolvers |-> TopResolvers(dns.resolution, 8),
     latency |-> {source \in DOMAIN dns.bySource : dns.bySource[source].samples # 0}]

-----------------------------------------------------------------------------
DnsInit == records = <<>>
Read ==
    /\ Len(records) < MaxLookups
    /\ \E r \in Lookups : records' = Append(records, r)

-----------------------------------------------------------------------------
\* Every view of the lookups counts all of them once: the domains, the types, the
\* links, the keys of the failures and the sources; the failures of the keys are
\* those of the sources.  A percentile is a sample, in order with the others.  The
\* split by inside and outside counts the domains shown, the busiest askers are
\* shown, a cut graph keeps the links it shows, and an address has the name that
\* was last given for it.
DnsAddsUp ==
    LET dns == AggregateDns
        tab == DnsTab(dns, 1)
        split == InternalExternalSplit(dns)
        codes == RcodeBreakdown(dns.failures)
        n == Len(records)
        lat == dns.latency
        Added(ledger, field) == MapThenSumSet(LAMBDA k : ledger[k][field], DOMAIN ledger)
        Named(g) == {<<g.nodes[l.source], g.nodes[l.target], l.value>> : l \in ToSet(g.links)}
    IN /\ Volume(DOMAIN Domains) = n /\ MapThenSumSet(LAMBDA t : dns.queryTypes[t], DOMAIN dns.queryTypes) = n
       /\ MapThenSumSet(LAMBDA l : l[3], Named(dns.resolution)) = n
       /\ Added(dns.failures, "total") = n /\ Added(dns.bySource, "count") = n
       /\ codes.nxdomain + codes.servfail = Added(dns.bySource, "failed")
       /\ Added(dns.bySource, "samples") = lat.count
       /\ lat.p50 <= lat.p90 /\ lat.p90 <= lat.p95 /\ lat.p95 <= lat.max
       /\ \A p \in {50, 90, 95} :
             100 * Count(LAMBDA r : r.ms # Missing /\ r.ms < Pct(Durations(LAMBDA s : TRUE), p)) <= p * lat.count
       /\ split.internal + split.external = Volume(ToSet(dns.topDomains))
       /\ \A name \in DOMAIN Domains \ ToSet(dns.topDomains), shown \in ToSet(dns.topDomains) :
             Domains[shown] >= Domains[name]
       /\ MapThenSumSet(LAMBDA a : a.value, ToSet(tab.resolvers)) = n
       /\ Named(tab.resolution) \subseteq Named(dns.resolution)
       /\ \A ip \in DOMAIN dns.nameFlow : \A i \in AnswersFor(ip) :
             records[i].name # dns.nameFlow[ip] => \E j \in AnswersFor(ip) : j > i
=============================================================================
