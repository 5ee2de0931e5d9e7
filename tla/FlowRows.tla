------------------------------ MODULE FlowRows -------------------------------
(***************************************************************************)
(* Rows of flow metrics and how the lenses group them                      *)
(* (app/src/lib/analytics/aggregate.ts).                                   *)
(*                                                                         *)
(* A row is a record with the fields edge, metric, value, bucket, monitor, *)
(* category, port, hops (the types of the traversed constructs) and the    *)
(* ends a and b, each a record of the numbers name, ns, az, vpc and        *)
(* region, 0 where the field is missing.  "data" counts bytes, "retrans"   *)
(* and "timeouts" events, and an "rtt" row is a sample.                    *)
(***************************************************************************)
EXTENDS Integers, Sequences, SequencesExt

CONSTANT Giga   \* the bytes of a GB, in the model's unit

Of(rows, metric) == {f \in rows : f.metric = metric}
Total(rows) == MapThenSumSet(LAMBDA f : f.value, rows)

\* entityKey: a service is named within its namespace.
Key(e, kind) ==
    CASE kind = "service" -> IF e.name = 0 THEN 0 ELSE 10 * e.ns + e.name
      [] kind = "namespace" -> e.ns
      [] kind = "az" -> e.az
      [] kind = "vpc" -> e.vpc

\* The entities a row counts for: both its ends, once if they are the same.
Touches(f, kind) == {Key(f.a, kind), Key(f.b, kind)}
Entities(rows, kind) == UNION {Touches(f, kind) : f \in rows}
Touching(rows, kind, key) == {f \in rows : key \in Touches(f, kind)}

\* ratePerGb compared with a bar: nothing per GB where there are no bytes.
RateAbove(events, bytes, bar) == bytes # 0 /\ events * Giga > bar * bytes
RateFrom(events, bytes, bar) == IF bytes = 0 THEN bar = 0 ELSE events * Giga >= bar * bytes

\* The first n of a set in an order.
First(n, set, Before(_, _)) ==
    LET ranked == SetToSortSeq(set, Before)
    IN SubSeq(ranked, 1, IF n < Len(ranked) THEN n ELSE Len(ranked))

\* percentile: nearest rank.  The code's floating point gives the same rank for the
\* percentiles that are asked for.
Percentile(sorted, p) ==
    IF sorted = <<>> THEN 0
    ELSE LET rank == (p * Len(sorted) + 99) \div 100
         IN sorted[IF rank < 1 THEN 1 ELSE rank]

\* The values of rows in ascending order.
Sorted(rows) ==
    LET ranked == SetToSortSeq(rows, LAMBDA f, g : f.value < g.value)
    IN [i \in DOMAIN ranked |-> ranked[i].value]
=============================================================================
