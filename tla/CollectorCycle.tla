--------------------------- MODULE CollectorCycle ---------------------------
(***************************************************************************)
(* One collector invocation against the meta table and the alert topic:    *)
(* collector/src/handler.ts (the order of its steps, the cycle counter,    *)
(* publishReliabilityAlerts), storage.ts (writeCycle), categories.ts and   *)
(* reliability-alert.ts (diffBreachState).                                 *)
(*                                                                         *)
(* Module HourRollup models the flow rows the same invocations write; here *)
(* a cycle's edges matter only for the entities found breaching in them.   *)
(* Invocations overlap, may be killed at any step, and end at the first    *)
(* rejected call outside the steps whose errors the handler catches.       *)
(***************************************************************************)
EXTENDS Integers

CONSTANTS
    Invocations,  \* slots for concurrently running invocations
    Entities,     \* service entities that can breach a threshold
    Every,        \* EXTENDED_CATEGORY_EVERY and DNS_COLLECT_EVERY
    MaxStarts     \* bound of the model: how many invocations are started

ASSUME EveryAssumption == Every \in Nat \ {0}
ASSUME StartsAssumption == MaxStarts \in Nat

VARIABLES
    latest,      \* cycle in STATUS#collect/latest, 0 without the row
    stored,      \* the cycle that wrote each of the other latest rows
    remembered,  \* keys of ALERTSTATE#reliability/latest
    alarms,      \* how many ALARM messages reached the topic, per entity
    oks,         \* how many OK messages did
    starts,      \* invocations started so far
    phase,       \* where each invocation is
    number,      \* its cycle
    breaching,   \* the entities breaching in its edges
    outbox,      \* messages it has not got an answer for
    ran,         \* history: the cycles whose status was written
    exact,       \* history: alert steps have not failed or overlapped so far
    steady       \* history: no status was replaced by that of an older cycle so far

tables == <<latest, stored, remembered, ran, steady>>
topic == <<alarms, oks>>
own == <<number, breaching, outbox>>
vars == <<tables, topic, starts, phase, own, exact>>

Rows == {"topology", "coverage", "insights", "dns"}
Messages == [entity : Entities, state : {"ALARM", "OK"}]
Phases == {"idle", "read", "query", "status", "topology", "coverage",
           "alerts", "publish", "insights", "dns", "rollup"}

\* categoriesForCycle, and the same test for the DNS pass.
Extended(n) == n % Every = 0

\* Mutation of Transitions: every breach is announced, new or not.
TransitionsOfLevel(current, prior) ==
    {[entity |-> k, state |-> "ALARM"] : k \in current} \cup
    {[entity |-> k, state |-> "OK"] : k \in prior \ current}

\* diffBreachState: the transitions since the keys remembered.
Transitions(current, prior) ==
    {[entity |-> k, state |-> "ALARM"] : k \in current \ prior} \cup
    {[entity |-> k, state |-> "OK"] : k \in prior \ current}

Goto(i, p) == phase' = [phase EXCEPT ![i] = p]
-----------------------------------------------------------------------------
Init ==
    /\ latest = 0
    /\ stored = [r \in Rows |-> 0]
    /\ remembered = {}
    /\ alarms = [k \in Entities |-> 0]
    /\ oks = [k \in Entities |-> 0]
    /\ starts = 0
    /\ phase = [i \in Invocations |-> "idle"]
    /\ number = [i \in Invocations |-> 0]
    /\ breaching = [i \in Invocations |-> {}]
    /\ outbox = [i \in Invocations |-> {}]
    /\ ran = {}
    /\ exact = TRUE
    /\ steady = TRUE

Start(i) ==
    /\ phase[i] = "idle"
    /\ starts < MaxStarts
    /\ starts' = starts + 1
    /\ Goto(i, "read")
    /\ UNCHANGED <<tables, topic, own, exact>>

\* Mutation of ReadCycle: the default of a missing counter is off by one.
ReadCycleFromOne(i) ==
    /\ phase[i] = "read"
    /\ \E n \in {IF latest = 0 THEN 1 ELSE latest, 1} :
          number' = [number EXCEPT ![i] = n + 1]
    /\ Goto(i, "query")
    /\ UNCHANGED <<tables, topic, starts, breaching, outbox, exact>>

\* The cycle counter: a failed read counts from the start again.
ReadCycle(i) ==
    /\ phase[i] = "read"
    /\ \E n \in {latest, 0} : number' = [number EXCEPT ![i] = n + 1]
    /\ Goto(i, "query")
    /\ UNCHANGED <<tables, topic, starts, breaching, outbox, exact>>

\* The query matrix returns the cycle's edges.
Query(i) ==
    /\ phase[i] = "query"
    /\ \E current \in SUBSET Entities :
          breaching' = [breaching EXCEPT ![i] = current]
    /\ Goto(i, "status")
    /\ UNCHANGED <<tables, topic, starts, number, outbox, exact>>

\* Mutation of PutStatus: a rejected put is caught, and the invocation goes on.
PutStatusCaught(i) ==
    /\ phase[i] = "status"
    /\ \/ latest' = number[i] /\ ran' = ran \cup {number[i]} /\ steady' = (steady /\ latest <= number[i])
       \/ UNCHANGED <<latest, ran, steady>>
    /\ Goto(i, "topology")
    /\ UNCHANGED <<stored, remembered, topic, starts, own, exact>>

\* writeCycle puts the status rows, that of the cycle and the latest, once the
\* flow rows are settled.
PutStatus(i) ==
    /\ phase[i] = "status"
    /\ latest' = number[i]
    /\ ran' = ran \cup {number[i]}
    /\ steady' = (steady /\ latest <= number[i])
    /\ Goto(i, "topology")
    /\ UNCHANGED <<stored, remembered, topic, starts, own, exact>>

PutRow(i, row) ==
    /\ stored' = [stored EXCEPT ![row] = number[i]]
    /\ UNCHANGED <<latest, remembered, ran, steady>>

\* A row that is left as it is when its data could not be had.
PutOrKeep(i, row) == PutRow(i, row) \/ UNCHANGED tables

\* Then the topology row.
PutTopology(i) ==
    /\ phase[i] = "topology"
    /\ PutRow(i, "topology")
    /\ Goto(i, "coverage")
    /\ UNCHANGED <<topic, starts, own, exact>>

\* And the coverage row, unless the onboarding discovery failed.
PutCoverage(i) ==
    /\ phase[i] = "coverage"
    /\ PutOrKeep(i, "coverage")
    /\ Goto(i, "alerts")
    /\ UNCHANGED <<topic, starts, own, exact>>

\* publishReliabilityAlerts reads the remembered keys and sends every message
\* of the difference at once.
ReadAlerts(i) ==
    /\ phase[i] = "alerts"
    /\ outbox' = [outbox EXCEPT ![i] = Transitions(breaching[i], remembered)]
    /\ exact' = (exact /\ \A j \in Invocations \ {i} :
                              phase[j] # "publish" /\ outbox[j] = {})
    /\ Goto(i, "publish")
    /\ UNCHANGED <<tables, topic, starts, number, breaching>>

\* A message reaches the topic: in time, or after another one was rejected.
Publish(i, m) ==
    /\ IF m.state = "ALARM"
         THEN alarms' = [alarms EXCEPT ![m.entity] = @ + 1] /\ UNCHANGED oks
         ELSE oks' = [oks EXCEPT ![m.entity] = @ + 1] /\ UNCHANGED alarms
    /\ outbox' = [outbox EXCEPT ![i] = @ \ {m}]
    /\ UNCHANGED <<tables, starts, phase, number, breaching, exact>>

\* Mutation of PutAlerts: the messages are not awaited.
PutAlertsUnawaited(i) ==
    /\ phase[i] = "publish"
    /\ remembered' = breaching[i]
    /\ Goto(i, "insights")
    /\ UNCHANGED <<latest, stored, ran, steady, topic, starts, own, exact>>

\* The remembered keys are replaced when all messages were accepted.
PutAlerts(i) ==
    /\ phase[i] = "publish"
    /\ outbox[i] = {}
    /\ remembered' = breaching[i]
    /\ Goto(i, "insights")
    /\ UNCHANGED <<latest, stored, ran, steady, topic, starts, own, exact>>

\* A rejected read, message or put ends the alert step only: its error is
\* caught.  The messages in flight are not called back.
AlertsFail(i) ==
    /\ phase[i] \in {"alerts", "publish"}
    /\ \E lost \in SUBSET outbox[i] : outbox' = [outbox EXCEPT ![i] = @ \ lost]
    /\ exact' = FALSE
    /\ Goto(i, "insights")
    /\ UNCHANGED <<tables, topic, starts, number, breaching>>

\* The workload insights row is put, unless their collection failed.
PutInsights(i) ==
    /\ phase[i] = "insights"
    /\ PutOrKeep(i, "insights")
    /\ Goto(i, IF Extended(number[i]) THEN "dns" ELSE "rollup")
    /\ UNCHANGED <<topic, starts, own, exact>>

\* The DNS row is put, unless the pass failed or found nothing.
PutDns(i) ==
    /\ phase[i] = "dns"
    /\ PutOrKeep(i, "dns")
    /\ Goto(i, "rollup")
    /\ UNCHANGED <<topic, starts, own, exact>>

Reset(i) ==
    /\ Goto(i, "idle")
    /\ number' = [number EXCEPT ![i] = 0]
    /\ breaching' = [breaching EXCEPT ![i] = {}]
    /\ outbox' = [outbox EXCEPT ![i] = {}]
    /\ UNCHANGED <<tables, topic, starts>>

\* The rollup step (module HourRollup) is over and the handler returns.
Finish(i) ==
    /\ phase[i] = "rollup"
    /\ Reset(i)
    /\ UNCHANGED exact

\* The invocation is killed, or a call that is not caught is rejected.
Crash(i) ==
    /\ phase[i] # "idle"
    /\ Reset(i)
    /\ exact' = (exact /\ phase[i] # "publish" /\ outbox[i] = {})

Next ==
    \E i \in Invocations :
        \/ Start(i)
        \/ ReadCycle(i)
        \/ Query(i)
        \/ PutStatus(i)
        \/ PutTopology(i)
        \/ PutCoverage(i)
        \/ ReadAlerts(i)
        \/ \E m \in outbox[i] : Publish(i, m)
        \/ PutAlerts(i)
        \/ AlertsFail(i)
        \/ PutInsights(i)
        \/ PutDns(i)
        \/ Finish(i)
        \/ Crash(i)

Spec == Init /\ [][Next]_vars
-----------------------------------------------------------------------------
\* Every row, counter and private variable holds what it should.
TypeOK ==
    /\ latest \in Nat
    /\ stored \in [Rows -> Nat]
    /\ remembered \subseteq Entities
    /\ alarms \in [Entities -> Nat]
    /\ oks \in [Entities -> Nat]
    /\ starts \in 0 .. MaxStarts
    /\ phase \in [Invocations -> Phases]
    /\ number \in [Invocations -> Nat]
    /\ breaching \in [Invocations -> SUBSET Entities]
    /\ outbox \in [Invocations -> SUBSET Messages]
    /\ ran \subseteq Nat \ {0}
    /\ exact \in BOOLEAN
    /\ steady \in BOOLEAN

\* The rotation leaves no slot out: the counter reaches a cycle only after the
\* one before it was written, so overlapping, crashed and restarted counts
\* never jump over the cycle that collects the extended categories.
NoSlotSkipped == \A n \in ran : n = 1 \/ n - 1 \in ran

\* Each latest row is of a cycle whose status was written, wherever invocations are
\* killed.  As long as the status itself did not go back, which takes a counter that
\* could not be read or an invocation that another one overtook, no row is ahead of
\* it, nor will the invocations that are putting rows put one ahead of it: whoever
\* counts its cycle then is ahead of every row, and only one that overlaps can put
\* an older row over a newer.
RowsFollowStatus ==
    /\ \A row \in Rows : stored[row] \in ran \cup {0}
    /\ steady => /\ \A row \in Rows : stored[row] <= latest
                 /\ \A i \in Invocations :
                       phase[i] \notin {"idle", "read", "query", "status"} => number[i] <= latest

\* Whatever fails or overlaps, an entity is remembered as breaching, or
\* reported as recovered, only if its breach was announced at some time.
BreachesAreAnnounced ==
    \A k \in Entities : k \in remembered \/ oks[k] > 0 => alarms[k] > 0

\* handler.ts:56-59, as far as it holds: as long as no alert step fails or
\* overlaps another, messages alternate between ALARM and OK, and between
\* alert steps the open alarms are the keys remembered.
AlertsAlternate ==
    exact =>
        /\ \A k \in Entities : alarms[k] - oks[k] \in {0, 1}
        /\ (\A i \in Invocations : phase[i] # "publish") =>
              \A k \in Entities : alarms[k] - oks[k] = 1 <=> k \in remembered

\* handler.ts:56-59 - "one ALARM + one eventual OK": when a cycle in which the
\* entity does not breach is remembered, its alarms were all recovered from.
RecoveriesAreAnnounced ==
    [][\A i \in Invocations :
          PutAlerts(i) => \A k \in Entities \ breaching[i] : alarms[k] <= oks[k]]_vars
-----------------------------------------------------------------------------
\* Why the properties hold: the parts of an inductive invariant.

\* A cycle is counted from one that was written, or is the first.
CountsFollowRan ==
    /\ latest \in ran \cup {0}
    /\ \A i \in Invocations :
          /\ number[i] \in {0, 1} \/ number[i] - 1 \in ran
          /\ phase[i] \notin {"idle", "read"} => number[i] # 0
          /\ phase[i] \notin {"idle", "read", "query", "status"} => number[i] \in ran
    /\ steady => \A n \in ran : n <= latest

\* What is sent, or about to be remembered, was or will first be announced.
AnnouncedFirst ==
    /\ \A i \in Invocations : \A m \in outbox[i] :
          m.state = "OK" => alarms[m.entity] > 0
    /\ \A i \in Invocations : phase[i] = "publish" =>
          \A k \in breaching[i] :
              alarms[k] > 0 \/ [entity |-> k, state |-> "ALARM"] \in outbox[i]

Open(k) == alarms[k] - oks[k]

\* Without failure or overlap, one invocation at most is sending, and the open
\* alarms are the keys remembered up to the messages it has not sent.
OneSender ==
    exact =>
        /\ \A i \in Invocations : outbox[i] # {} => phase[i] = "publish"
        /\ \A i, j \in Invocations :
              phase[i] = "publish" /\ phase[j] = "publish" => i = j
        /\ (\A i \in Invocations : phase[i] # "publish") =>
              \A k \in Entities : Open(k) = IF k \in remembered THEN 1 ELSE 0
        /\ \A i \in Invocations : phase[i] = "publish" =>
              \A k \in Entities :
                  /\ [entity |-> k, state |-> "ALARM"] \in outbox[i] =>
                        k \in breaching[i] /\ Open(k) = 0
                  /\ [entity |-> k, state |-> "OK"] \in outbox[i] =>
                        k \notin breaching[i] /\ Open(k) = 1
                  /\ (\A m \in outbox[i] : m.entity # k) =>
                        Open(k) = IF k \in breaching[i] THEN 1 ELSE 0

\* The inductive invariant.
IInv ==
    /\ TypeOK
    /\ CountsFollowRan
    /\ NoSlotSkipped
    /\ RowsFollowStatus
    /\ AnnouncedFirst
    /\ BreachesAreAnnounced
    /\ OneSender
=============================================================================
