------------------------------ MODULE HourMerge ------------------------------
(***************************************************************************)
(* The rows of the flows table and the hour-grain merge: storage.ts        *)
(* (flowItem), rollup.ts (hourBucketOf, mergeHourEdges) and rollup-store.ts *)
(* (hflowItem).                                                            *)
(*                                                                         *)
(* Time is counted in five-minute ticks, so a bucket is a tick and an hour *)
(* is named by its first tick.                                             *)
(***************************************************************************)
EXTENDS Integers

CONSTANTS
    Keys,     \* monitor, metric, category and edge hash of a row
    Values,   \* what a query can report for a key
    HourLen   \* buckets in an hour (12 in the code)

ASSUME HourLenAssumption == HourLen \in Nat \ {0}

HourOf(t) == t - (t % HourLen)

\* Rows are identified by bucket, or hour, and key.  The sum or mean of an
\* hourly row is a function of the raw rows it was merged from, so the row is
\* represented by that set.
RawItem == [bucket : Nat, key : Keys, value : Values]
HourItem == [hour : Int, key : Keys, from : SUBSET RawItem]

SourceRows(rows, h, k) == {r \in rows : HourOf(r.bucket) = h /\ r.key = k}

MergeHour(rows, h) ==
    {[hour |-> h, key |-> k, from |-> SourceRows(rows, h, k)] :
        k \in {r.key : r \in {x \in rows : HourOf(x.bucket) = h}}}

\* A DynamoDB put: the item replaces the one with the same primary key.
PutRaw(rows, new) ==
    {r \in rows : r.bucket # new.bucket \/ r.key # new.key} \cup {new}

PutHour(rows, new) ==
    {r \in rows : r.hour # new.hour \/ r.key # new.key} \cup {new}
=============================================================================
