----------------------------- MODULE WindowPlan -----------------------------
(***************************************************************************)
(* Which rows a flow window is read from: app/src/lib/ddb.ts (windowPlan,  *)
(* windowPairPlan) on the bucket count of app/src/lib/analytics/filters.ts. *)
(* A short window is read bucket by bucket; a long one takes hourly rows   *)
(* for its closed hours and raw rows for the newest two.                   *)
(*                                                                         *)
(* Time is counted in five-minute ticks, as in HourMerge.  A plan is a     *)
(* sequence of parts, newest first.                                        *)
(***************************************************************************)
EXTENDS Integers, Sequences

CONSTANTS
    HourLen,        \* buckets in an hour (12)
    Switch,         \* GRAIN_SWITCH_BUCKETS: the longest window read raw (36)
    MaxBuckets,     \* the longest window a route asks for (2016)
    DefaultBuckets, \* the window of a request that names none (12)
    Lag,            \* ticks until the collector has rolled up an ended hour (3)
    RawTTL,         \* ticks a raw row is kept (2016)
    RollupTTL,      \* ticks an hourly row is kept (4320)
    Starts,         \* clock readings the model begins with
    MaxTime,        \* bound of the model: the last tick
    MaxAsked        \* bound of the model: the largest number in a request

ASSUME HourAssumption == HourLen \in Nat \ {0} /\ Starts \subseteq Int
ASSUME BucketAssumption ==
    /\ MaxBuckets \in Nat \ {0} /\ DefaultBuckets \in 1 .. MaxBuckets
    /\ Switch \in Nat /\ 2 * HourLen <= Switch
    /\ MaxTime \in Int /\ MaxAsked \in Nat

\* How the collector's times bound the dashboard's: an hour is rolled up
\* before the next has ended, raw rows outlive the raw part of any plan, and
\* hourly rows the longest pair.
ASSUME LagAssumption == Lag \in Nat /\ Lag <= HourLen
ASSUME TTLAssumption ==
    /\ RawTTL \in Nat /\ 2 * Switch <= RawTTL
    /\ RollupTTL \in Nat /\ 2 * MaxBuckets + 2 * HourLen < RollupTTL

VARIABLES
    now,  \* the bucket under way
    n     \* how many buckets the request asks for

planVars == <<now, n>>

HourOf(t) == t - (t % HourLen)

\* The last n buckets, and the last count hours that ended by open.
RecentBuckets(k, t) == [i \in 1 .. k |-> t - (i - 1)]
ClosedHours(count, open) == [i \in 1 .. count |-> open - i * HourLen]

\* Math.round(n / HourLen): the halves go up.
Hours(k) == (2 * k + HourLen) \div (2 * HourLen)

Parts(grain, buckets) ==
    [i \in 1 .. Len(buckets) |-> [grain |-> grain, bucket |-> buckets[i]]]

\* Mutation of LongWindow: the newest closed hour is read hourly, too.
LongWindowAtOnce(k, t) ==
    LET tail == t - HourOf(t) + 1
    IN  [parts |-> Parts("raw", RecentBuckets(tail, t))
                       \o Parts("hourly", ClosedHours(Hours(k), HourOf(t))),
         ticks |-> Hours(k) * HourLen + tail]

\* Mutation of LongWindow: the hours are counted from the open one, as they
\* were before the newest closed hour was read raw.
LongWindowOverlapping(k, t) ==
    LET tail == t - HourOf(t) + 1 + HourLen
    IN  [parts |-> Parts("raw", RecentBuckets(tail, t))
                       \o Parts("hourly", ClosedHours(Hours(k) - 1, HourOf(t))),
         ticks |-> (Hours(k) - 1) * HourLen + tail]

\* The open hour and the newest closed one are read raw.
LongWindow(k, t) ==
    LET tail == t - HourOf(t) + 1 + HourLen
    IN  [parts |-> Parts("raw", RecentBuckets(tail, t))
                       \o Parts("hourly", ClosedHours(Hours(k) - 1, HourOf(t) - HourLen)),
         ticks |-> (Hours(k) - 1) * HourLen + tail]

PlanOf(k, t) ==
    IF k <= Switch
      THEN [parts |-> Parts("raw", RecentBuckets(k, t)), ticks |-> k]
      ELSE LongWindow(k, t)

\* slice(0, half) and slice(half).
Halves(parts, half, ticks) ==
    [current |-> SubSeq(parts, 1, half),
     prior |-> SubSeq(parts, half + 1, Len(parts)),
     ticks |-> ticks]

PairOf(k, t) ==
    IF k <= Switch
      THEN Halves(Parts("raw", RecentBuckets(2 * k, t)), k, k)
      ELSE Halves(Parts("hourly", ClosedHours(2 * Hours(k), HourOf(t) - HourLen)),
                  Hours(k), Hours(k) * HourLen)

\* bucketsFrom; zero stands for a number that is missing or below one.
Requested(k) ==
    IF k >= 1 THEN (IF k <= MaxBuckets THEN k ELSE MaxBuckets) ELSE DefaultBuckets

PlanInit == now \in Starts /\ n = DefaultBuckets

Ask(k) == n' = Requested(k) /\ UNCHANGED now

Tick == now < MaxTime /\ now' = now + 1 /\ UNCHANGED n

PlanNext == Tick \/ \E k \in 0 .. MaxAsked : Ask(k)

PlanSpec == PlanInit /\ [][PlanNext]_planVars
-----------------------------------------------------------------------------
PlanTypeOK == now \in Int /\ n \in 1 .. MaxBuckets

\* The first and the last tick a part stands for.
From(part) == part.bucket
To(part) == part.bucket + (IF part.grain = "raw" THEN 1 ELSE HourLen) - 1

\* The parts stand for the ticks from .. to, without gap or overlap.
Tile(parts, from, to) ==
    /\ parts # <<>>
    /\ To(parts[1]) = to
    /\ \A i \in 1 .. Len(parts) - 1 : From(parts[i]) = To(parts[i + 1]) + 1
    /\ From(parts[Len(parts)]) = from

\* A window's parts meet at every minute of the hour and whatever length was
\* asked for: they are the last windowSeconds, which the rates are divided
\* by, with no bucket lost or counted twice where the grain changes.
WindowTiles ==
    LET w == PlanOf(n, now) IN Tile(w.parts, now - w.ticks + 1, now)

\* The halves of a pair are of the length it names, of the same grain, and
\* meet, so that neither is favoured when they are compared.
PairTiles ==
    LET p == PairOf(n, now)
        to == To(p.current[1])
        all == p.current \o p.prior
    IN  /\ Tile(p.current, to - p.ticks + 1, to)
        /\ Tile(p.prior, to - 2 * p.ticks + 1, to - p.ticks)
        /\ \A i \in 1 .. Len(all) : all[i].grain = all[1].grain

\* What the routes read tiles the time they answer for: WindowTiles, PairTiles.
PlansTile == WindowTiles /\ PairTiles

PartsRead ==
    LET w == PlanOf(n, now).parts
        p == PairOf(n, now)
        all == w \o p.current \o p.prior
    IN  {all[i] : i \in 1 .. Len(all)}

\* No plan takes an hour's row before the collector, on time, has written it.
HourlyPartsHaveLanded ==
    \A p \in PartsRead : p.grain = "hourly" => To(p) + 1 + Lag <= now

\* No plan reaches back to rows that may have expired: a bucket's rows are
\* written from the bucket on, an hour's after its end.
RowsOutliveReads ==
    \A p \in PartsRead :
        now - To(p) < (IF p.grain = "raw" THEN RawTTL ELSE RollupTTL)
=============================================================================
