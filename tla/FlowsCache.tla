----------------------------- MODULE FlowsCache -----------------------------
(***************************************************************************)
(* The dashboard server's in-process cache of flow windows and of the lens *)
(* results computed from them: app/src/lib/ddb.ts, latestCycleId to        *)
(* getFlowsWindow.  One event loop interleaves the continuations of        *)
(* concurrent requests at every await.                                     *)
(*                                                                         *)
(* A lens result is a cache entry whose computation itself calls the cache *)
(* for its flow window, so an entry can be a caller as well as a request.  *)
(*                                                                         *)
(* The table is external: its status row carries the newest cycle whose    *)
(* rows are all written (writeCycle writes the rows first), and a read     *)
(* returns what the row holds when it is served.                           *)
(***************************************************************************)
EXTENDS Naturals, FiniteSets

CONSTANTS
    Requests,   \* HTTP requests in flight
    Entries,    \* cache entry objects, reused once nothing refers to them
    Probes,     \* probe promises, reused likewise
    Windows,    \* cache keys of flow windows, 'w:12'
    Lenses,     \* cache keys of lens results, 'r:...'
    WindowOf,   \* the window a lens is computed from
    Cap,        \* FLOWS_CACHE_MAX_ENTRIES
    MaxCycle,   \* bound of the model: cycles the collector writes
    MaxGrid,    \* bound of the model: five-minute boundaries passed
    Null

Keys == Windows \cup Lenses
Callers == Requests \cup Entries

ASSUME KeyAssumption ==
    /\ Windows \cap Lenses = {}
    /\ WindowOf \in [Lenses -> Windows]
ASSUME CallerAssumption ==
    /\ Requests \cap Entries = {}
    /\ Probes \cap Entries = {}
ASSUME NullAssumption == Null \notin Entries \cup Probes \cup Keys
ASSUME BoundAssumption == Cap \in Nat /\ MaxCycle \in Nat /\ MaxGrid \in Nat

VARIABLES
    cycle,      \* STATUS#collect/latest in the table, 0 before the first
    grid,       \* the current five-minute boundary
    memo,       \* cycleMemo.p while it is younger than CYCLE_MEMO_MS
    lastCycle,  \* lastCycleId, 0 for 'nocycle'
    probe,      \* each probe: its progress and the cycle it read or resolved to
    caller,     \* each caller: its key, and the probe or entry it awaits
    cache,      \* flowsWindowCache: the entries in the map
    entry       \* each entry: its promise, key, version, and data's cycle

vars == <<cycle, grid, memo, lastCycle, probe, caller, cache, entry>>

Version == [cycle : Nat, grid : Nat]
ProbeRecord == [state : {"free", "sent", "read", "done"}, cycle : Nat]
CallerRecord == [at : {"idle", "probe", "join"}, key : Keys \cup {Null},
                 on : Probes \cup Entries \cup {Null}]
EntryRecord == [state : {"free", "pending", "ok", "failed"},
                key : Keys \cup {Null}, version : Version, data : Nat]

NoProbe == [state |-> "free", cycle |-> 0]
Idle == [at |-> "idle", key |-> Null, on |-> Null]
NoEntry == [state |-> "free", key |-> Null,
            version |-> [cycle |-> 0, grid |-> 0], data |-> 0]

Awaits(cs, at, x) == \E c \in Callers : cs[c].at = at /\ cs[c].on = x

\* Resolved probes and settled entries that nothing refers to go back to the
\* pool: cs are the callers, mm the memo and map the cache they are judged by.
LiveProbes(ps, mm, cs) ==
    [p \in Probes |->
        IF ps[p].state # "done" \/ p = mm \/ Awaits(cs, "probe", p)
        THEN ps[p] ELSE NoProbe]

LiveEntries(es, map, cs) ==
    [e \in Entries |->
        IF es[e].state = "pending" \/ e \in map \/ Awaits(cs, "join", e)
        THEN es[e] ELSE NoEntry]
-----------------------------------------------------------------------------
Init ==
    /\ cycle = 0
    /\ grid = 0
    /\ memo = Null
    /\ lastCycle = 0
    /\ probe = [p \in Probes |-> NoProbe]
    /\ caller = [c \in Callers |-> Idle]
    /\ cache = {}
    /\ entry = [e \in Entries |-> NoEntry]

\* External: the collector writes a cycle's status row.  Cycles are numbered in
\* the order of these writes.
WriteCycle ==
    /\ cycle < MaxCycle
    /\ cycle' = cycle + 1
    /\ UNCHANGED <<grid, memo, lastCycle, probe, caller, cache, entry>>

\* External: the clock passes a five-minute boundary.
RollGrid ==
    /\ grid < MaxGrid
    /\ grid' = grid + 1
    /\ UNCHANGED <<cycle, memo, lastCycle, probe, caller, cache, entry>>

\* CYCLE_MEMO_MS have passed since the memo was set, resolved or not.
MemoExpires ==
    /\ memo # Null
    /\ memo' = Null
    /\ probe' = LiveProbes(probe, Null, caller)
    /\ UNCHANGED <<cycle, grid, lastCycle, caller, cache, entry>>

\* latestCycleId returns the memoized promise, or sends and memoizes a probe.
ProbeFor(p) ==
    IF memo # Null THEN p = memo
    ELSE probe[p].state = "free" /\ p = CHOOSE q \in Probes : probe[q].state = "free"

Sent(p) == IF p = memo THEN probe
           ELSE [probe EXCEPT ![p] = [state |-> "sent", cycle |-> 0]]

\* A request enters cachedFetch and awaits its version.
Call(r, k, p) ==
    /\ caller[r].at = "idle"
    /\ ProbeFor(p)
    /\ memo' = p
    /\ probe' = Sent(p)
    /\ caller' = [caller EXCEPT ![r] = [at |-> "probe", key |-> k, on |-> p]]
    /\ UNCHANGED <<cycle, grid, lastCycle, cache, entry>>

\* The table serves the probe's read.
ProbeRead(p) ==
    /\ probe[p].state = "sent"
    /\ probe' = [probe EXCEPT ![p] = [state |-> "read", cycle |-> cycle]]
    /\ UNCHANGED <<cycle, grid, memo, lastCycle, caller, cache, entry>>

\* Its answer arrives; without a status row it leaves lastCycleId alone.
ProbeResolves(p) ==
    /\ probe[p].state = "read"
    /\ lastCycle' = IF probe[p].cycle = 0 THEN lastCycle ELSE probe[p].cycle
    /\ probe' = [probe EXCEPT ![p] = [state |-> "done", cycle |-> lastCycle']]
    /\ UNCHANGED <<cycle, grid, memo, caller, cache, entry>>

\* It fails, and resolves to the last cycle known.
ProbeFails(p) ==
    /\ probe[p].state \in {"sent", "read"}
    /\ probe' = [probe EXCEPT ![p] = [state |-> "done", cycle |-> lastCycle]]
    /\ UNCHANGED <<cycle, grid, memo, lastCycle, caller, cache, entry>>
-----------------------------------------------------------------------------
HasVersion(c) == caller[c].at = "probe" /\ probe[caller[c].on].state = "done"

\* flowsVersion, once the probe has resolved: the grid is read only then.
VersionFor(c) == [cycle |-> probe[caller[c].on].cycle, grid |-> grid]

\* Mutation of Swept: pending entries of another version are dropped too.
SweptPending(v) == {e \in cache : entry[e].version = v}

\* Settled entries of another version are dropped; pending ones stay.
Swept(v) == {e \in cache : entry[e].state = "pending" \/ entry[e].version = v}

\* Mutation of Join: a hit is given the version it was found under.
JoinRestamping(c, e) ==
    /\ HasVersion(c)
    /\ e \in Swept(VersionFor(c))
    /\ entry[e].key = caller[c].key
    /\ cache' = Swept(VersionFor(c))
    /\ caller' = [caller EXCEPT ![c].at = "join", ![c].on = e]
    /\ probe' = LiveProbes(probe, memo, caller')
    /\ entry' = LiveEntries([entry EXCEPT ![e].version = VersionFor(c)],
                            cache', caller')
    /\ UNCHANGED <<cycle, grid, memo, lastCycle>>

\* The entry under the caller's key survives the sweep, and is joined.
Join(c, e) ==
    /\ HasVersion(c)
    /\ e \in Swept(VersionFor(c))
    /\ entry[e].key = caller[c].key
    /\ cache' = Swept(VersionFor(c))
    /\ caller' = [caller EXCEPT ![c].at = "join", ![c].on = e]
    /\ probe' = LiveProbes(probe, memo, caller')
    /\ entry' = LiveEntries(entry, cache', caller')
    /\ UNCHANGED <<cycle, grid, memo, lastCycle>>

\* Mutation of Capped: the map may be one entry too large.
CappedOneMore(map, new) ==
    LET settled == {e \in map : e # new /\ entry[e].state # "pending"}
        excess == Cardinality(map) - (Cap + 1)
        count == IF Cardinality(map) <= Cap + 1 THEN 0
                 ELSE IF excess < Cardinality(settled) THEN excess
                 ELSE Cardinality(settled)
    IN  {map \ gone : gone \in {s \in SUBSET settled : Cardinality(s) = count}}

\* What the cap leaves of a map that new was put into: settled entries go
\* until the map is small enough or none is left.
Capped(map, new) ==
    LET settled == {e \in map : e # new /\ entry[e].state # "pending"}
        excess == Cardinality(map) - Cap
        count == IF Cardinality(map) <= Cap THEN 0
                 ELSE IF excess < Cardinality(settled) THEN excess
                 ELSE Cardinality(settled)
    IN  {map \ gone : gone \in {s \in SUBSET settled : Cardinality(s) = count}}

\* The caller's key is not in the map: a fetch is started under a new entry,
\* which the caller awaits.  A window's queries begin at once; a lens calls
\* the cache for its window first.
Create(c, e, p) ==
    LET k == caller[c].key
        swept == Swept(VersionFor(c))
        joined == [caller EXCEPT ![c] = [at |-> "join", key |-> k, on |-> e]]
        fetch == [state |-> "pending", key |-> k,
                  version |-> VersionFor(c), data |-> cycle]
    IN
    /\ HasVersion(c)
    /\ \A f \in swept : entry[f].key # k
    /\ entry[e].state = "free"
    /\ e = CHOOSE f \in Entries : entry[f].state = "free"
    /\ cache' \in Capped(swept \cup {e}, e)
    /\ IF k \in Lenses
         THEN /\ ProbeFor(p)
              /\ memo' = p
              /\ caller' = [joined EXCEPT ![e] =
                              [at |-> "probe", key |-> WindowOf[k], on |-> p]]
              /\ probe' = LiveProbes(Sent(p), p, caller')
         ELSE /\ p = caller[c].on
              /\ caller' = joined
              /\ probe' = LiveProbes(probe, memo, caller')
              /\ UNCHANGED memo
    /\ entry' = LiveEntries([entry EXCEPT ![e] = fetch], cache', caller')
    /\ UNCHANGED <<cycle, grid, lastCycle>>

\* An entry's promise settles: a failure leaves the map at once.
Settle(e, outcome, d) ==
    /\ cache' = IF outcome = "failed" THEN cache \ {e} ELSE cache
    /\ entry' = LiveEntries([entry EXCEPT ![e] =
                      [state |-> outcome, key |-> entry[e].key,
                       version |-> entry[e].version, data |-> d]], cache', caller')
    /\ UNCHANGED <<cycle, grid, memo, lastCycle, probe>>

\* A window's queries have all returned, or one was rejected.
WindowSettles(e, outcome) ==
    /\ entry[e].state = "pending"
    /\ entry[e].key \in Windows
    /\ caller' = caller
    /\ Settle(e, outcome, entry[e].data)

\* Mutation of LensSettles: the failure of the window is not passed on.
LensSettlesOnSuccess(e) ==
    /\ caller[e].at = "join"
    /\ entry[caller[e].on].state = "ok"
    /\ caller' = [caller EXCEPT ![e] = Idle]
    /\ Settle(e, entry[caller[e].on].state, entry[caller[e].on].data)

\* A lens computes its result once its window has settled.
LensSettles(e) ==
    /\ caller[e].at = "join"
    /\ entry[caller[e].on].state \in {"ok", "failed"}
    /\ caller' = [caller EXCEPT ![e] = Idle]
    /\ Settle(e, entry[caller[e].on].state, entry[caller[e].on].data)

\* The request is answered with the entry's outcome.
Answer(r) ==
    /\ caller[r].at = "join"
    /\ entry[caller[r].on].state \in {"ok", "failed"}
    /\ caller' = [caller EXCEPT ![r] = Idle]
    /\ entry' = LiveEntries(entry, cache, caller')
    /\ UNCHANGED <<cycle, grid, memo, lastCycle, probe, cache>>

\* The max-age timer, armed when the entry settled.
MaxAge(e) ==
    /\ e \in cache
    /\ entry[e].state = "ok"
    /\ cache' = cache \ {e}
    /\ entry' = LiveEntries(entry, cache', caller)
    /\ UNCHANGED <<cycle, grid, memo, lastCycle, probe, caller>>

ProbeStep(p) == ProbeRead(p) \/ ProbeResolves(p) \/ ProbeFails(p)

EntryStep(e) ==
    \/ \E outcome \in {"ok", "failed"} : WindowSettles(e, outcome)
    \/ LensSettles(e)

Continue(c) ==
    \/ \E e \in Entries : Join(c, e)
    \/ \E e \in Entries, p \in Probes : Create(c, e, p)

Next ==
    \/ WriteCycle
    \/ RollGrid
    \/ MemoExpires
    \/ \E r \in Requests, k \in Keys, p \in Probes : Call(r, k, p)
    \/ \E p \in Probes : ProbeStep(p)
    \/ \E c \in Callers : Continue(c)
    \/ \E e \in Entries : EntryStep(e) \/ MaxAge(e)
    \/ \E r \in Requests : Answer(r)

Spec == Init /\ [][Next]_vars

\* Every call to the table comes back, one way or the other, and the event
\* loop runs every continuation.  Requests, memo and timers owe nothing.
FairSpec ==
    /\ Spec
    /\ \A p \in Probes : WF_vars(ProbeStep(p))
    /\ \A c \in Callers : WF_vars(Continue(c))
    /\ \A e \in Entries : WF_vars(EntryStep(e))
    /\ \A r \in Requests : WF_vars(Answer(r))
-----------------------------------------------------------------------------
\* Every variable holds what it should.
TypeOK ==
    /\ cycle \in 0 .. MaxCycle
    /\ grid \in 0 .. MaxGrid
    /\ memo \in Probes \cup {Null}
    /\ lastCycle \in Nat
    /\ probe \in [Probes -> ProbeRecord]
    /\ caller \in [Callers -> CallerRecord]
    /\ cache \subseteq Entries
    /\ entry \in [Entries -> EntryRecord]

Pending(e) == entry[e].state = "pending"

\* Identical requests share one fetch: no key has two fetches in flight, so
\* neither a version roll nor the cap ever doubles a fan-out (ddb.ts:229-233).
OneFetchPerKey ==
    \A e, f \in Entries :
        Pending(e) /\ Pending(f) /\ entry[e].key = entry[f].key => e = f

\* A cached window holds every row of the cycle its version names: data is
\* never older than the version it is served under.
WindowsAreFresh ==
    \A e \in cache :
        entry[e].key \in Windows => entry[e].data >= entry[e].version.cycle

\* The cap is exceeded by entries in flight only: a new entry that leaves the
\* map above the cap leaves no other settled entry in it.
OnlyPendingAboveCap ==
    [][\A e \in cache' \ cache :
          Cardinality(cache') > Cap => \A f \in cache' \ {e} : entry'[f].state = "pending"]_vars

\* Every request is answered, by a result or an error, whatever it joined.
Answered == \A r \in Requests : caller[r].at # "idle" ~> caller[r].at = "idle"

\* ddb.ts:194-203 - "cached windows / lens outputs stay valid while BOTH hold:
\* (1) the collector hasn't written a new cycle": a result cached under a
\* version reflects that version's cycle.
CachedResultsAreFresh ==
    \A e \in cache :
        entry[e].state = "ok" => entry[e].data >= entry[e].version.cycle

\* ddb.ts:211-213 - "Probe failures are sticky on the last known cycle: a
\* transient blip must not flip the version back and forth": the last known
\* cycle never gives way to an earlier one.
LastKnownCycleIsSticky == [][lastCycle' >= lastCycle]_vars
-----------------------------------------------------------------------------
\* Why the properties hold: the parts of an inductive invariant.

\* A caller awaits what its stage says, for a key of the cache.
CallersAwait ==
    \A c \in Callers :
        /\ caller[c].at # "idle" => caller[c].key \in Keys
        /\ caller[c].at = "probe" => caller[c].on \in Probes
        /\ caller[c].at = "join" => caller[c].on \in Entries

\* The entries that call the cache are lenses being computed.
OnlyLensesCall ==
    \A e \in Entries :
        caller[e].at # "idle" => Pending(e) /\ entry[e].key \in Lenses

\* No probe, and no version, is ahead of the table.
VersionsBehind ==
    /\ lastCycle <= cycle
    /\ \A p \in Probes : probe[p].cycle <= cycle

\* No drop path loses a fetch in flight, and the map has one entry per key.
PendingAreCached == \A e \in Entries : Pending(e) => e \in cache
OneEntryPerKey == \A e, f \in cache : entry[e].key = entry[f].key => e = f

\* The inductive invariant.
IInv ==
    /\ TypeOK
    /\ IsFiniteSet(cache)
    /\ CallersAwait
    /\ OnlyLensesCall
    /\ VersionsBehind
    /\ PendingAreCached
    /\ OneEntryPerKey
    /\ WindowsAreFresh
=============================================================================
