----------------------------- MODULE HourLedger -----------------------------
(***************************************************************************)
(* What the hour tier promises, without invocations, clocks or batches:    *)
(* rows come in for hours beyond the horizon only; an hour behind it can   *)
(* be summarised, each sum being the merge of all the hour's rows; and an  *)
(* hour closes when all its sums are there.  Sums do not change or go      *)
(* before the ledger stops answering for the whole hour.                   *)
(***************************************************************************)
EXTENDS HourMerge

VARIABLES
    rows,     \* raw rows
    sums,     \* hourly rows
    closed,   \* hours that readers may take from the hourly rows
    horizon,  \* the newest hour that takes no more rows
    since     \* the oldest hour the ledger answers for

ledger == <<rows, sums, closed, horizon, since>>

Init ==
    /\ rows = {}
    /\ sums = {}
    /\ closed = {}
    /\ horizon \in Int /\ since \in Int

Record(r) ==
    /\ HourOf(r.bucket) > horizon
    /\ rows' = PutRaw(rows, r)
    /\ UNCHANGED <<sums, closed, horizon, since>>

\* Time passes: the horizon moves, and whole hours are forgotten.
Advance ==
    /\ horizon' \in Int
    /\ horizon' > horizon
    /\ since' \in Int /\ since' >= since
    /\ rows' = {r \in rows : HourOf(r.bucket) >= since'}
    /\ sums' = {x \in sums : x.hour >= since'}
    /\ closed' = {h \in closed : h >= since'}

Summarise(x) ==
    /\ x.hour <= horizon
    /\ x \in MergeHour(rows, x.hour)
    /\ sums' = sums \cup {x}
    /\ UNCHANGED <<rows, closed, horizon, since>>

Close(h) ==
    /\ h <= horizon
    /\ MergeHour(rows, h) \subseteq sums
    /\ closed' = closed \cup {h}
    /\ UNCHANGED <<rows, sums, horizon, since>>

\* The row, sum or hour of a step is one that is there after it.
Next ==
    \/ \E r \in rows' : Record(r)
    \/ Advance
    \/ \E x \in sums' : Summarise(x)
    \/ \E h \in closed' : Close(h)

Spec == Init /\ [][Next]_ledger
=============================================================================
