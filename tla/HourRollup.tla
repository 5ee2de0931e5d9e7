----------------------------- MODULE HourRollup -----------------------------
(***************************************************************************)
(* The collector Lambda as it stores five-minute flow rows and closes      *)
(* hours: collector/src/handler.ts (one invocation), storage.ts (raw rows, *)
(* batch writes), rollup.ts (which hours are due, how they merge) and      *)
(* rollup-store.ts (the hour-close step).                                  *)
(*                                                                         *)
(* Invocations overlap: the scheduler starts one every five minutes and    *)
(* POST /api/nfm/refresh starts another at any moment.  An invocation pins *)
(* its clock once, at its start, and may be killed at any step; it is      *)
(* always killed by its timeout.                                           *)
(*                                                                         *)
(* Time is counted in five-minute ticks, so a bucket is a tick and an hour *)
(* is named by its first tick.  Hours before tick 0 are the ones before    *)
(* the first deployment; the code rolls them up too, as empty hours.       *)
(***************************************************************************)
EXTENDS HourMerge, FiniteSets

CONSTANTS
    Invocations,  \* slots for concurrently running invocations
    Timeout,      \* last tick, after its start, an invocation can live in
    Grace,        \* CLOSE_GRACE_MS: ticks between an hour's end and its closing
    Lookback,     \* how many hours eligibleMissingHours looks back at
    MaxPerCycle,  \* how many hours one invocation closes at most
    RawTTL,       \* ticks a raw row lives at least
    MaxTime,      \* bound of the model: the last tick
    None          \* an idle slot's hour

ASSUME LookbackAssumption == Lookback \in Nat /\ MaxPerCycle \in Nat
ASSUME BoundAssumption == RawTTL \in Nat /\ MaxTime \in Nat
\* rollup.ts:8 - the grace must outlast an invocation started just before
\* the hour's end.  In whole ticks: 270 s reach one tick on, 300 s are one.
ASSUME GraceAssumption == Timeout \in Nat /\ Grace \in Nat /\ Timeout <= Grace
ASSUME NoneAssumption == None \notin Int

VARIABLES
    clock,    \* wall clock
    raw,      \* FLOW# items of the flows table
    hflow,    \* HFLOW# items of the flows table
    done,     \* HROLL#done markers of the meta table
    phase,    \* where each invocation is
    start,    \* its pinned `now`
    todo,     \* hours it still has to close
    hour,     \* the hour it is closing
    batch,    \* items its current batchWriteAll has not settled
    dropped   \* whether that batchWriteAll dropped an item

tables == <<raw, hflow, done>>
vars == <<clock, raw, hflow, done, phase, start, todo, hour, batch, dropped>>

Phases == {"idle", "collect", "raw", "list", "hours", "hflow", "mark"}
Running(i) == phase[i] # "idle"
-----------------------------------------------------------------------------
\* Mutation of NewestEligible: the grace is forgotten.
NewestEligibleNoGrace(now) == HourOf(now) - HourLen

\* rollup.ts:24-34 - the newest missing hours of the lookback window.
NewestEligible(now) == HourOf(now - Grace) - HourLen

\* Mutation of EligibleMissing: the cap is applied to the window, before the
\* marked hours are filtered out of it.
EligibleMissingCapFirst(now, marked) ==
    LET window == {NewestEligible(now) - n * HourLen : n \in 0 .. Lookback - 1}
    IN  {h \in window : Cardinality({g \in window : g > h}) < MaxPerCycle} \ marked

EligibleMissing(now, marked) ==
    LET window == {NewestEligible(now) - n * HourLen : n \in 0 .. Lookback - 1}
        missing == window \ marked
    IN  {h \in missing : Cardinality({g \in missing : g > h}) < MaxPerCycle}

\* What a query matrix can return for a bucket: at most one row per key.
Collected(b) ==
    UNION {{{[bucket |-> b, key |-> k, value |-> f[k]] : k \in S} :
                f \in [S -> Values]} : S \in SUBSET Keys}
-----------------------------------------------------------------------------
Init ==
    /\ clock = 0
    /\ raw = {}
    /\ hflow = {}
    /\ done = {}
    /\ phase = [i \in Invocations |-> "idle"]
    /\ start = [i \in Invocations |-> 0]
    /\ todo = [i \in Invocations |-> {}]
    /\ hour = [i \in Invocations |-> None]
    /\ batch = [i \in Invocations |-> {}]
    /\ dropped = [i \in Invocations |-> FALSE]

\* The scheduler, or a manual refresh, invokes the function.
Start(i) ==
    /\ phase[i] = "idle"
    /\ phase' = [phase EXCEPT ![i] = "collect"]
    /\ start' = [start EXCEPT ![i] = clock]
    /\ UNCHANGED <<clock, tables, todo, hour, batch, dropped>>

\* The query matrix has returned; writeCycle hands the rows to batchWriteAll.
Collect(i) ==
    /\ phase[i] = "collect"
    /\ \E items \in Collected(start[i]) : batch' = [batch EXCEPT ![i] = items]
    /\ phase' = [phase EXCEPT ![i] = "raw"]
    /\ UNCHANGED <<clock, tables, start, todo, hour, dropped>>

\* batchWriteAll lands an item.
Land(i, item) ==
    /\ phase[i] \in {"raw", "hflow"}
    /\ IF phase[i] = "raw"
         THEN raw' = PutRaw(raw, item) /\ UNCHANGED hflow
         ELSE hflow' = PutHour(hflow, item) /\ UNCHANGED raw
    /\ batch' = [batch EXCEPT ![i] = @ \ {item}]
    /\ UNCHANGED <<clock, done, phase, start, todo, hour, dropped>>

\* batchWriteAll gives an item up: still unprocessed after four attempts.
Drop(i, item) ==
    /\ phase[i] \in {"raw", "hflow"}
    /\ batch' = [batch EXCEPT ![i] = @ \ {item}]
    /\ dropped' = [dropped EXCEPT ![i] = TRUE]
    /\ UNCHANGED <<clock, tables, phase, start, todo, hour>>

\* writeCycle ignores how many raw rows were dropped.
EndRaw(i) ==
    /\ phase[i] = "raw"
    /\ batch[i] = {}
    /\ phase' = [phase EXCEPT ![i] = "list"]
    /\ dropped' = [dropped EXCEPT ![i] = FALSE]
    /\ UNCHANGED <<clock, tables, start, todo, hour, batch>>

\* runRollupStep reads the markers once, before its first hour.
ListDone(i) ==
    /\ phase[i] = "list"
    /\ todo' = [todo EXCEPT ![i] = EligibleMissing(start[i], done)]
    /\ phase' = [phase EXCEPT ![i] = "hours"]
    /\ UNCHANGED <<clock, tables, start, hour, batch, dropped>>

\* The next hour, newest first, is read and merged.
ReadHour(i, h) ==
    /\ phase[i] = "hours"
    /\ h \in todo[i]
    /\ \A g \in todo[i] : g <= h
    /\ todo' = [todo EXCEPT ![i] = @ \ {h}]
    /\ hour' = [hour EXCEPT ![i] = h]
    /\ batch' = [batch EXCEPT ![i] = MergeHour(raw, h)]
    /\ phase' = [phase EXCEPT ![i] =
                    IF MergeHour(raw, h) = {} THEN "mark" ELSE "hflow"]
    /\ UNCHANGED <<clock, tables, start, dropped>>

\* Mutation of EndHour: dropped items do not withhold the marker.
EndHourAnyway(i) ==
    /\ phase[i] = "hflow"
    /\ batch[i] = {}
    /\ phase' = [phase EXCEPT ![i] = "mark"]
    /\ dropped' = [dropped EXCEPT ![i] = FALSE]
    /\ UNCHANGED <<clock, tables, start, todo, hour, batch>>

\* The hour's batch is settled: the marker is withheld if an item was dropped.
EndHour(i) ==
    /\ phase[i] = "hflow"
    /\ batch[i] = {}
    /\ phase' = [phase EXCEPT ![i] = IF dropped[i] THEN "hours" ELSE "mark"]
    /\ dropped' = [dropped EXCEPT ![i] = FALSE]
    /\ UNCHANGED <<clock, tables, start, todo, hour, batch>>

\* The marker comes last.
Mark(i) ==
    /\ phase[i] = "mark"
    /\ done' = done \cup {hour[i]}
    /\ phase' = [phase EXCEPT ![i] = "hours"]
    /\ UNCHANGED <<clock, raw, hflow, start, todo, hour, batch, dropped>>

\* The slot is free again.
Reset(i) ==
    /\ phase' = [phase EXCEPT ![i] = "idle"]
    /\ start' = [start EXCEPT ![i] = 0]
    /\ todo' = [todo EXCEPT ![i] = {}]
    /\ hour' = [hour EXCEPT ![i] = None]
    /\ batch' = [batch EXCEPT ![i] = {}]
    /\ dropped' = [dropped EXCEPT ![i] = FALSE]
    /\ UNCHANGED <<clock, tables>>

\* Every hour of this invocation is settled and the handler returns.
Finish(i) ==
    /\ phase[i] = "hours"
    /\ todo[i] = {}
    /\ Reset(i)

\* A rejected call ends the invocation, or the rollup step alone (its errors
\* are caught); the timeout kills it.
Crash(i) ==
    /\ Running(i)
    /\ Reset(i)

\* Time passes, but not beyond the life of a running invocation.
Tick ==
    /\ clock < MaxTime
    /\ \A i \in Invocations : Running(i) => clock < start[i] + Timeout
    /\ clock' = clock + 1
    /\ UNCHANGED <<tables, phase, start, todo, hour, batch, dropped>>

\* DynamoDB deletes an expired raw row, at some moment after its TTL.  A row's
\* TTL runs from its write; its bucket is the earliest that write can be.
Expire(r) ==
    /\ clock >= r.bucket + RawTTL
    /\ raw' = raw \ {r}
    /\ UNCHANGED <<clock, hflow, done, phase, start, todo, hour, batch, dropped>>

Step(i) ==
    \/ Collect(i)
    \/ \E item \in batch[i] : Land(i, item)
    \/ \E item \in batch[i] : Drop(i, item)
    \/ EndRaw(i)
    \/ ListDone(i)
    \/ \E h \in todo[i] : ReadHour(i, h)
    \/ EndHour(i)
    \/ Mark(i)
    \/ Finish(i)

Next ==
    \/ \E i \in Invocations : Start(i) \/ Step(i) \/ Crash(i)
    \/ Tick
    \/ \E r \in raw : Expire(r)

Spec == Init /\ [][Next]_vars

\* Time passes, the scheduler keeps invoking the function, and a running
\* invocation goes on; nothing makes a crash or a drop happen.
FairSpec ==
    /\ Spec
    /\ WF_vars(Tick)
    /\ WF_vars(\E i \in Invocations : Start(i))
    /\ \A i \in Invocations : WF_vars(Step(i))
-----------------------------------------------------------------------------
\* Every table, and every invocation's private state, holds what it should.
TypeOK ==
    /\ clock \in 0 .. MaxTime
    /\ raw \subseteq RawItem
    /\ hflow \subseteq HourItem
    /\ done \subseteq Int
    /\ phase \in [Invocations -> Phases]
    /\ start \in [Invocations -> Nat]
    /\ todo \in [Invocations -> SUBSET Int]
    /\ hour \in [Invocations -> Int \cup {None}]
    /\ batch \in [Invocations -> SUBSET (RawItem \cup HourItem)]
    /\ dropped \in [Invocations -> BOOLEAN]

\* Rows of hour h may have been deleted by their TTL.
MayHaveExpired(h) == h + HourLen > 0 /\ clock >= h + RawTTL

\* A row is never committed to an hour that is marked, or that some invocation
\* has found due: rollup.ts:7-11 says why the grace must outlast the timeout.
NoLateRow ==
    [][\A r \in raw' \ raw :
          /\ HourOf(r.bucket) \notin done
          /\ \A j \in Invocations :
                HourOf(r.bucket) \notin todo[j] \cup {hour[j]}]_vars

\* A marked hour is complete: its hourly rows are the merge of every raw row
\* of the hour, none missing, partial or left over, as long as the raw rows
\* are there to compare with (rollup-store.ts:85-95).
MarkedHourExact ==
    \A h \in done :
        ~MayHaveExpired(h) =>
            {x \in hflow : x.hour = h} = MergeHour(raw, h)

\* What an invocation still has to write of the hour it is closing is what it
\* would merge now: the read that precedes the write has not gone stale.
HeldMergeCurrent ==
    \A i \in Invocations :
        phase[i] = "hflow" /\ ~MayHaveExpired(hour[i]) =>
            batch[i] \subseteq MergeHour(raw, hour[i])

\* A step replaces an hourly row by a different one.
Rewrites(h) ==
    \E x \in hflow, y \in hflow' :
        x.hour = h /\ y.hour = h /\ x.key = y.key /\ x # y

\* Closing an hour again, after a crash, a drop or beside another invocation,
\* rewrites identical rows until raw rows of the hour can expire.
RerunIdenticalUntilExpiry ==
    [][\A h \in {x.hour : x \in hflow} : ~MayHaveExpired(h) => ~Rewrites(h)]_vars

\* rollup-store.ts:3-4 - "raw inputs are immutable, so re-running an hour
\* rewrites identical items", with no reservation about the raw rows' TTL.
RerunIdentical ==
    [][\A h \in {x.hour : x \in hflow} : ~Rewrites(h)]_vars

\* An invocation is cut short, or a write is given up.
Failure ==
    \E i \in Invocations :
        \/ Crash(i) /\ ~Finish(i)
        \/ \E item \in batch[i] : Drop(i, item)

\* If failures stop, every hour the lookback reaches is closed in the end,
\* however many are missing and whatever cap one invocation has: the newest
\* hours, tried first, do not starve the older ones.
BacklogCloses ==
    <>[][~Failure]_vars =>
        <>(\A n \in 0 .. Lookback - 1 :
              NewestEligible(MaxTime) - n * HourLen \in done)
-----------------------------------------------------------------------------
\* Why the properties hold: the parts of an inductive invariant.

\* rollup.ts:24-33 - hour h is over, and its grace too, at time t.
Due(h, t) == h + HourLen + Grace <= t

\* Every invocation is within its timeout.
WithinTimeout ==
    \A i \in Invocations :
        Running(i) => start[i] <= clock /\ clock <= start[i] + Timeout

\* Only due hours are under way, summarised or marked.
OnlyDueHours ==
    /\ \A i \in Invocations : \A h \in todo[i] : Due(h, start[i])
    /\ \A i \in Invocations : hour[i] # None => Due(hour[i], start[i])
    /\ \A i \in Invocations : todo[i] # {} \/ hour[i] # None => Running(i)
    /\ \A x \in hflow : Due(x.hour, clock)
    /\ \A h \in done : Due(h, clock)

\* An invocation writes rows of its own bucket, then rows of its hour.
OwnItems ==
    \A i \in Invocations :
        /\ phase[i] = "raw" =>
              batch[i] \subseteq {r \in RawItem : r.bucket = start[i]}
        /\ phase[i] = "hflow" =>
              batch[i] \subseteq {x \in HourItem : x.hour = hour[i]}
        /\ phase[i] \in {"hflow", "mark"} => hour[i] # None

\* No hourly row differs from the merge of its hour.
HourlyRowsCurrent ==
    \A x \in hflow :
        ~MayHaveExpired(x.hour) => x \in MergeHour(raw, x.hour)

\* While nothing was dropped, what is not pending is in the table.
NothingLost ==
    \A i \in Invocations :
        hour[i] # None /\ ~MayHaveExpired(hour[i]) =>
            /\ phase[i] = "hflow" /\ ~dropped[i] =>
                  MergeHour(raw, hour[i]) \subseteq batch[i] \cup hflow
            /\ phase[i] = "mark" => MergeHour(raw, hour[i]) \subseteq hflow

\* The inductive invariant: every hourly row, held or stored, is the merge of
\* an hour that no running invocation can still add to.
IInv ==
    /\ TypeOK
    /\ WithinTimeout
    /\ OnlyDueHours
    /\ OwnItems
    /\ HeldMergeCurrent
    /\ HourlyRowsCurrent
    /\ NothingLost
    /\ MarkedHourExact

-----------------------------------------------------------------------------
(***************************************************************************)
(* The refinement of HourLedger: an hour is behind the horizon once it is  *)
(* over and its grace has passed, and is answered for until the first of   *)
(* its raw rows can expire.                                                *)
(***************************************************************************)
Since == clock - RawTTL + 1

KeptRows == {r \in raw : HourOf(r.bucket) >= Since}
KeptSums == {x \in hflow : x.hour >= Since}
KeptMarks == {h \in done : h >= Since}

Ledger == INSTANCE HourLedger WITH
    rows <- KeptRows, sums <- KeptSums, closed <- KeptMarks,
    horizon <- clock - Grace - HourLen, since <- Since

\* Whatever the interleaving of invocations, crashes, dropped writes and
\* expiring rows, raw rows go to open hours only, hourly rows are complete merges
\* that never change, and a marker closes a fully summarised hour - for every
\* hour whose raw rows cannot have expired.
ImplementsLedger == Ledger!Spec
=============================================================================
