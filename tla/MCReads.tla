------------------------------- MODULE MCReads -------------------------------
(***************************************************************************)
(* Reading a window from one end to the other: which rows a request is     *)
(* answered from (WindowPlan), what the lenses say of the rows (Lenses),   *)
(* what is said of the name lookups of a cycle (DnsAnswers), and what the  *)
(* pages show of an answer (UserPages).  None of these depends on another, *)
(* so that each of the four moves only while the others have not begun.    *)
(***************************************************************************)
EXTENDS WindowPlan, UserPages

CONSTANTS Giga, Billed, ClusterOf, SavingsLimit, MaxLinks, MaxChildren, RetransRate, TimeoutRate,
          Sigma, MinDelta, RateDanger, RateWarn, TopN, HourOfDay, Now, MaxRows, ToolBuckets, Rows, MaxCurrent, MaxPrior,
          Lookups, FlowIps, MaxDomains, MaxLookups
VARIABLES current, prior, records

read == <<current, prior>>

Lens == INSTANCE Lenses
Dns == INSTANCE DnsAnswers

\* The rows: three services, two of one name in two namespaces, and an end
\* nothing is known about; an edge with every metric, a pair whose free traffic
\* outweighs its billed traffic, and a path of two hops.
End(name, ns, az) == [name |-> name, ns |-> ns, az |-> az, vpc |-> ns, region |-> az]
Web == End(1, 1, 1)
Store == End(2, 2, 2)
Copy == End(1, 2, 2)
Outside == End(0, 0, 0)

Row(edge, metric, value, bucket, category, hops, a, b) ==
    [edge |-> edge, metric |-> metric, value |-> value, bucket |-> bucket,
     monitor |-> IF edge = 1 THEN "m1" ELSE "m2", port |-> edge % 3, category |-> category, hops |-> hops, a |-> a, b |-> b]

MCRows == {
    Row(1, "data", 10, 1, "INTER_AZ", <<"tgw">>, Web, Store),
    Row(1, "data", 4, 2, "INTER_AZ", <<"tgw">>, Web, Store),
    Row(1, "retrans", 11, 1, "INTER_AZ", <<"tgw">>, Web, Store),
    Row(1, "retrans", 2, 2, "INTER_AZ", <<"tgw">>, Web, Store),
    Row(1, "timeouts", 6, 1, "INTER_AZ", <<"tgw">>, Web, Store),
    Row(2, "data", 20, 1, "INTRA_AZ", <<>>, Store, Web),
    Row(3, "data", 8, 1, "INTER_VPC", <<"vpce", "tgw">>, Store, Copy),
    Row(4, "data", 3, 2, "INTER_REGION", <<"vpce">>, Copy, Outside),
    Row(5, "data", 2, 2, "INTER_REGION", <<>>, Web, Copy),
    Row(1, "rtt", 3, 1, "INTER_AZ", <<"tgw">>, Web, Store),
    Row(1, "rtt", 5, 2, "INTER_AZ", <<"tgw">>, Web, Store),
    Row(3, "rtt", 8, 1, "INTER_VPC", <<"vpce", "tgw">>, Store, Copy),
    Row(1, "nhi", 0, 1, "INTER_AZ", <<>>, Outside, Outside),
    Row(1, "nhi", 1, 2, "INTER_AZ", <<>>, Outside, Outside),
    Row(6, "nhi", 1, 1, "INTER_AZ", <<>>, Outside, Outside)}

MCBilled == {"INTER_AZ", "INTER_VPC", "INTER_REGION"}
MCClusterOf == [m1 |-> "a", m2 |-> "vpc"]
MCHourOfDay == <<0, 1>>
MCMinDelta == [data |-> 5, retrans |-> 9, timeouts |-> 9]

\* The lookups: two names of the cluster and two outside, askers that the log knows
\* by a client, by an id or not at all, answers with and without a duration, and two
\* names of one address.
Lookup(name, ns, qtype, rcode, client, id, ms, source, ips) ==
    [name |-> name, ns |-> ns, internal |-> ns # 0, qtype |-> qtype, rcode |-> rcode, client |-> client,
     id |-> id, ms |-> ms, source |-> source, ips |-> ips]
MCLookups == {
    Lookup(101, 1, "A", "NOERROR", 11, 0, 3, "coredns", {}),
    Lookup(102, 1, "A", "NXDOMAIN", 11, 0, 5, "coredns", {}),
    Lookup(103, 0, "A", "NXDOMAIN", 11, 21, -1, "resolver", {}),
    Lookup(103, 0, "AAAA", "NOERROR", 12, 22, -1, "resolver", {1, 3}),
    Lookup(104, 0, "A", "NOERROR", 0, 0, -1, "resolver", {1, 2}),
    Lookup(104, 0, "A", "SERVFAIL", 12, 0, 9, "coredns", {2})}
-----------------------------------------------------------------------------

ReadInit == PlanInit /\ Lens!Init /\ Dns!DnsInit /\ PagesInit

\* No page has been opened, and nothing is kept of an earlier visit.
NoPage == page = "topology" /\ memory = Fresh

\* A request remembers none before it: each is made of the page that has made none.
Plan ==
    /\ current = {} /\ prior = {} /\ records = <<>> /\ NoPage /\ UNCHANGED <<read, records, pageVars>>
    /\ \/ Tick
       \/ n = DefaultBuckets /\ \E k \in 0 .. MaxAsked : Ask(k)
Look == PlanInit /\ records = <<>> /\ NoPage /\ Lens!Next /\ UNCHANGED <<planVars, records, pageVars>>
Resolve == PlanInit /\ current = {} /\ prior = {} /\ NoPage /\ Dns!Read /\ UNCHANGED <<planVars, read, pageVars>>
Browse == PlanInit /\ current = {} /\ prior = {} /\ records = <<>> /\ PagesStep /\ UNCHANGED <<planVars, read, records>>

ReadNext == Plan \/ Look \/ Resolve \/ Browse
ReadSpec == ReadInit /\ [][ReadNext]_<<planVars, read, records, pageVars>>
-----------------------------------------------------------------------------
\* The accounts of the lenses and of the lookups agree: Lenses, DnsAnswers.  They are
\* accounts of the current window, which fills in every way while the prior window
\* is empty.
AccountsAgree == prior = {} /\ NoPage => Lens!AccountsAgree /\ Dns!DnsAddsUp

\* The verdicts on a service agree, and caps, percentiles and bins keep what they
\* say: Lenses.
JudgementsHold == NoPage => Lens!VerdictsAgree /\ Lens!RankingsHold

\* Silent services are gone: Lenses.
SilentMeansGone == Lens!SilentMeansGone
=============================================================================
