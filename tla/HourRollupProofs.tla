-------------------------- MODULE HourRollupProofs --------------------------
(***************************************************************************)
(* Proofs about the hour-close rollup, for every number of concurrent      *)
(* invocations, every hour length, lookback and TTL, and every timeout     *)
(* that does not exceed the grace.                                         *)
(***************************************************************************)
EXTENDS HourRollup, TLAPS

USE HourLenAssumption, GraceAssumption, NoneAssumption, LookbackAssumption,
    BoundAssumption
-----------------------------------------------------------------------------
\* An hour starts at or before each of its ticks, and ends after it.
LEMMA HourOfBounds ==
    ASSUME NEW t \in Int
    PROVE  HourOf(t) \in Int /\ HourOf(t) <= t /\ t < HourOf(t) + HourLen
  <1>1. t % HourLen \in 0 .. HourLen - 1
    OBVIOUS
  <1> QED
    BY <1>1 DEF HourOf

\* eligibleMissingHours returns hours that are over, with their grace.
LEMMA EligibleAreDue ==
    ASSUME NEW now \in Int, NEW marked, NEW h \in EligibleMissing(now, marked)
    PROVE  h \in Int /\ Due(h, now)
  <1>1. PICK n \in 0 .. Lookback - 1 : h = NewestEligible(now) - n * HourLen
    BY DEF EligibleMissing
  <1>2. n * HourLen \in Int /\ n * HourLen >= 0
    BY <1>1
  <1>3. HourOf(now - Grace) \in Int /\ HourOf(now - Grace) <= now - Grace
    BY HourOfBounds
  <1> QED
    BY <1>1, <1>2, <1>3 DEF NewestEligible, Due

\* The merge of an hour is made of hourly rows of that hour.
LEMMA MergeHourType ==
    ASSUME NEW rows \in SUBSET RawItem, NEW h \in Int
    PROVE  /\ MergeHour(rows, h) \subseteq HourItem
           /\ \A x \in MergeHour(rows, h) : x.hour = h
  BY DEF MergeHour, SourceRows, HourItem, RawItem

\* The merge of an hour has one row per key.
LEMMA MergeHourKeys ==
    ASSUME NEW rows, NEW h,
           NEW x \in MergeHour(rows, h), NEW y \in MergeHour(rows, h),
           x.key = y.key
    PROVE  x = y
  BY DEF MergeHour

\* The merge of an hour depends on the hour's raw rows alone.
LEMMA MergeHourLocal ==
    ASSUME NEW rows, NEW rows2, NEW h,
           {r \in rows : HourOf(r.bucket) = h} =
               {r \in rows2 : HourOf(r.bucket) = h}
    PROVE  MergeHour(rows, h) = MergeHour(rows2, h)
  <1>1. \A k : SourceRows(rows, h, k) = SourceRows(rows2, h, k)
    BY DEF SourceRows
  <1> QED
    BY <1>1 DEF MergeHour

\* What a query matrix returns for a bucket are raw rows of that bucket.
LEMMA CollectedType ==
    ASSUME NEW b \in Nat, NEW items \in Collected(b)
    PROVE  items \subseteq {r \in RawItem : r.bucket = b}
  <1>1. PICK S \in SUBSET Keys : \E f \in [S -> Values] :
            items = {[bucket |-> b, key |-> k, value |-> f[k]] : k \in S}
    BY DEF Collected
  <1> QED
    BY <1>1 DEF RawItem
-----------------------------------------------------------------------------
\* A row of a running invocation's bucket belongs to an hour that is not due.
LEMMA RunningHourNotDue ==
    ASSUME IInv, NEW i \in Invocations, Running(i)
    PROVE  ~Due(HourOf(start[i]), clock)
  <1>1. /\ start[i] \in Nat /\ clock \in Nat
        /\ clock <= start[i] + Timeout
    BY DEF IInv, TypeOK, WithinTimeout
  <1>2. HourOf(start[i]) \in Int /\ start[i] < HourOf(start[i]) + HourLen
    BY <1>1, HourOfBounds
  <1> QED
    BY <1>1, <1>2 DEF Due

\* An hour under way is due at the current time.
LEMMA UnderWayIsDue ==
    ASSUME IInv, NEW i \in Invocations, NEW h \in todo[i] \cup {hour[i]},
           h # None
    PROVE  h \in Int /\ Due(h, clock)
  <1>1. /\ start[i] \in Nat /\ clock \in Nat /\ h \in Int
        /\ todo[i] \subseteq Int /\ hour[i] \in Int \cup {None}
    BY DEF IInv, TypeOK
  <1>2. Running(i) /\ Due(h, start[i])
    BY DEF IInv, OnlyDueHours
  <1>3. start[i] <= clock
    BY <1>2 DEF IInv, WithinTimeout
  <1> QED
    BY <1>1, <1>2, <1>3 DEF Due

\* Nothing is stored and nothing runs at first.
LEMMA InitIInv == Init => IInv
  BY DEF Init, IInv, TypeOK, WithinTimeout, OnlyDueHours, OwnItems,
         HeldMergeCurrent, HourlyRowsCurrent, NothingLost, MarkedHourExact,
         Phases, Running

\* Start, and every way to end, leave the tables and the clock alone.
LEMMA StartIInv ==
    ASSUME IInv, NEW i \in Invocations, Start(i) PROVE IInv'
  <1> USE DEF Start, tables
  <1>1. TypeOK'
    BY DEF IInv, TypeOK, Phases
  <1>2. WithinTimeout'
    BY DEF IInv, TypeOK, WithinTimeout, Running
  <1>3. OnlyDueHours'
    BY DEF IInv, TypeOK, OnlyDueHours, Running, Due
  <1>4. OwnItems'
    BY DEF IInv, TypeOK, OwnItems
  <1>5. HeldMergeCurrent' /\ HourlyRowsCurrent' /\ MarkedHourExact'
    BY DEF IInv, TypeOK, HeldMergeCurrent, HourlyRowsCurrent, MarkedHourExact,
           MayHaveExpired
  <1>6. NothingLost'
    BY DEF IInv, TypeOK, NothingLost, MayHaveExpired
  <1> QED
    BY <1>1, <1>2, <1>3, <1>4, <1>5, <1>6 DEF IInv

\* Ending an invocation, by returning or by a crash, forgets its private state only.
LEMMA ResetIInv ==
    ASSUME IInv, NEW i \in Invocations, Reset(i) PROVE IInv'
  <1> USE DEF Reset, tables
  <1>1. TypeOK'
    BY DEF IInv, TypeOK, Phases
  <1>2. WithinTimeout'
    BY DEF IInv, TypeOK, WithinTimeout, Running
  <1>3. OnlyDueHours'
    BY DEF IInv, TypeOK, OnlyDueHours, Running, Due
  <1>4. OwnItems'
    BY DEF IInv, TypeOK, OwnItems
  <1>5. HeldMergeCurrent' /\ HourlyRowsCurrent' /\ MarkedHourExact'
    BY DEF IInv, TypeOK, HeldMergeCurrent, HourlyRowsCurrent, MarkedHourExact,
           MayHaveExpired
  <1>6. NothingLost'
    BY DEF IInv, TypeOK, NothingLost, MayHaveExpired
  <1> QED
    BY <1>1, <1>2, <1>3, <1>4, <1>5, <1>6 DEF IInv

\* The rows a query matrix returns are of the invocation's own bucket.
LEMMA CollectIInv ==
    ASSUME IInv, NEW i \in Invocations, Collect(i) PROVE IInv'
  <1> USE DEF Collect, tables
  <1>1. PICK items \in Collected(start[i]) :
            batch' = [batch EXCEPT ![i] = items]
    OBVIOUS
  <1>2. items \subseteq {r \in RawItem : r.bucket = start[i]}
    BY CollectedType DEF IInv, TypeOK
  <1>3. TypeOK'
    BY <1>1, <1>2 DEF IInv, TypeOK, Phases
  <1>4. WithinTimeout' /\ OnlyDueHours'
    BY DEF IInv, TypeOK, WithinTimeout, OnlyDueHours, Running, Due
  <1>5. OwnItems'
    BY <1>1, <1>2 DEF IInv, TypeOK, OwnItems
  <1>6. HeldMergeCurrent' /\ HourlyRowsCurrent' /\ MarkedHourExact'
    BY <1>1 DEF IInv, TypeOK, HeldMergeCurrent, HourlyRowsCurrent,
                MarkedHourExact, MayHaveExpired
  <1>7. NothingLost'
    BY <1>1 DEF IInv, TypeOK, NothingLost, MayHaveExpired
  <1> QED
    BY <1>3, <1>4, <1>5, <1>6, <1>7 DEF IInv

\* The steps that only settle a batch or move to the next phase.
LEMMA EndRawIInv ==
    ASSUME IInv, NEW i \in Invocations, EndRaw(i) PROVE IInv'
  <1> USE DEF EndRaw, tables
  <1>1. TypeOK'
    BY DEF IInv, TypeOK, Phases
  <1>2. WithinTimeout' /\ OnlyDueHours'
    BY DEF IInv, TypeOK, WithinTimeout, OnlyDueHours, Running, Due
  <1>3. OwnItems' /\ HeldMergeCurrent' /\ HourlyRowsCurrent' /\ MarkedHourExact'
    BY DEF IInv, TypeOK, OwnItems, HeldMergeCurrent, HourlyRowsCurrent,
           MarkedHourExact, MayHaveExpired
  <1>4. NothingLost'
    BY DEF IInv, TypeOK, NothingLost, MayHaveExpired
  <1> QED
    BY <1>1, <1>2, <1>3, <1>4 DEF IInv

\* The hours found missing are due, by the clock pinned at the start.
LEMMA ListDoneIInv ==
    ASSUME IInv, NEW i \in Invocations, ListDone(i) PROVE IInv'
  <1> USE DEF ListDone, tables
  <1>1. start[i] \in Int
    BY DEF IInv, TypeOK
  <1>2. \A h \in EligibleMissing(start[i], done) : h \in Int /\ Due(h, start[i])
    BY <1>1, EligibleAreDue
  <1>3. TypeOK'
    BY <1>2 DEF IInv, TypeOK, Phases
  <1>4. WithinTimeout' /\ OnlyDueHours'
    BY <1>2 DEF IInv, TypeOK, WithinTimeout, OnlyDueHours, Running, Due
  <1>5. OwnItems' /\ HeldMergeCurrent' /\ HourlyRowsCurrent' /\ MarkedHourExact'
    BY DEF IInv, TypeOK, OwnItems, HeldMergeCurrent, HourlyRowsCurrent,
           MarkedHourExact, MayHaveExpired
  <1>6. NothingLost'
    BY DEF IInv, TypeOK, NothingLost, MayHaveExpired
  <1> QED
    BY <1>3, <1>4, <1>5, <1>6 DEF IInv

\* The hour read is due, and what is held to write is its merge.
LEMMA ReadHourIInv ==
    ASSUME IInv, NEW i \in Invocations, NEW h \in todo[i], ReadHour(i, h)
    PROVE  IInv'
  <1> USE DEF ReadHour, tables
  <1>1. h \in Int /\ h # None /\ Running(i) /\ Due(h, start[i])
    BY DEF IInv, TypeOK, OnlyDueHours
  <1>2. MergeHour(raw, h) \subseteq {x \in HourItem : x.hour = h}
    BY <1>1, MergeHourType DEF IInv, TypeOK
  <1>3. TypeOK'
    BY <1>1, <1>2 DEF IInv, TypeOK, Phases
  <1>4. WithinTimeout' /\ OnlyDueHours'
    BY <1>1 DEF IInv, TypeOK, WithinTimeout, OnlyDueHours, Running, Due
  <1>5. OwnItems'
    BY <1>1, <1>2 DEF IInv, TypeOK, OwnItems
  <1>6. HeldMergeCurrent' /\ HourlyRowsCurrent' /\ MarkedHourExact'
    BY DEF IInv, TypeOK, HeldMergeCurrent, HourlyRowsCurrent,
           MarkedHourExact, MayHaveExpired
  <1>7. NothingLost'
    BY DEF IInv, TypeOK, NothingLost, MayHaveExpired
  <1> QED
    BY <1>3, <1>4, <1>5, <1>6, <1>7 DEF IInv

\* A batch that settled without a drop has its whole merge in the table.
LEMMA EndHourIInv ==
    ASSUME IInv, NEW i \in Invocations, EndHour(i) PROVE IInv'
  <1> USE DEF EndHour, tables
  <1>1. TypeOK'
    BY DEF IInv, TypeOK, Phases
  <1>2. WithinTimeout' /\ OnlyDueHours'
    BY DEF IInv, TypeOK, WithinTimeout, OnlyDueHours, Running, Due
  <1>3. OwnItems' /\ HeldMergeCurrent' /\ HourlyRowsCurrent' /\ MarkedHourExact'
    BY DEF IInv, TypeOK, OwnItems, HeldMergeCurrent, HourlyRowsCurrent,
           MarkedHourExact, MayHaveExpired
  <1>4. NothingLost'
    BY DEF IInv, TypeOK, NothingLost, MayHaveExpired
  <1> QED
    BY <1>1, <1>2, <1>3, <1>4 DEF IInv

\* An hour is marked only when its merge is in the table.
LEMMA MarkIInv ==
    ASSUME IInv, NEW i \in Invocations, Mark(i) PROVE IInv'
  <1> USE DEF Mark
  <1>1. hour[i] # None
    BY DEF IInv, OwnItems
  <1>2. hour[i] \in Int /\ Due(hour[i], clock)
    BY <1>1, UnderWayIsDue
  <1>3. TypeOK'
    BY <1>2 DEF IInv, TypeOK, Phases
  <1>4. WithinTimeout' /\ OnlyDueHours'
    BY <1>2 DEF IInv, TypeOK, WithinTimeout, OnlyDueHours, Running, Due
  <1>5. OwnItems' /\ HeldMergeCurrent' /\ HourlyRowsCurrent'
    BY DEF IInv, TypeOK, OwnItems, HeldMergeCurrent, HourlyRowsCurrent,
           MayHaveExpired
  <1>6. NothingLost'
    BY DEF IInv, TypeOK, NothingLost, MayHaveExpired
  <1>7. MarkedHourExact'
    <2> SUFFICES ASSUME NEW h \in done', ~MayHaveExpired(h)'
                 PROVE  {x \in hflow : x.hour = h} = MergeHour(raw, h)
      BY DEF MarkedHourExact
    <2>0. ~MayHaveExpired(h)
      BY DEF MayHaveExpired
    <2>1. CASE h \in done
      BY <2>0, <2>1 DEF IInv, MarkedHourExact
    <2>2. CASE h = hour[i]
      <3>1. MergeHour(raw, h) \subseteq hflow
        BY <1>1, <2>0, <2>2 DEF IInv, NothingLost
      <3>2. \A x \in MergeHour(raw, h) : x.hour = h
        BY <1>2, <2>2, MergeHourType DEF IInv, TypeOK
      <3>3. \A x \in hflow : x.hour = h => x \in MergeHour(raw, h)
        BY <2>0 DEF IInv, HourlyRowsCurrent
      <3> QED
        BY <3>1, <3>2, <3>3
    <2> QED
      BY <2>1, <2>2
  <1> QED
    BY <1>3, <1>4, <1>5, <1>6, <1>7 DEF IInv

\* A dropped item is remembered, so that nothing is claimed of its hour.
LEMMA DropIInv ==
    ASSUME IInv, NEW i \in Invocations, NEW item \in batch[i], Drop(i, item)
    PROVE  IInv'
  <1> USE DEF Drop, tables
  <1>1. TypeOK'
    BY DEF IInv, TypeOK, Phases
  <1>2. WithinTimeout' /\ OnlyDueHours'
    BY DEF IInv, TypeOK, WithinTimeout, OnlyDueHours, Running, Due
  <1>3. OwnItems' /\ HeldMergeCurrent' /\ HourlyRowsCurrent' /\ MarkedHourExact'
    BY DEF IInv, TypeOK, OwnItems, HeldMergeCurrent, HourlyRowsCurrent,
           MarkedHourExact, MayHaveExpired
  <1>4. NothingLost'
    BY DEF IInv, TypeOK, NothingLost, MayHaveExpired
  <1> QED
    BY <1>1, <1>2, <1>3, <1>4 DEF IInv

\* A raw row lands in an hour that is not due: no merge that matters changes.
LEMMA LandRawIInv ==
    ASSUME IInv, NEW i \in Invocations, NEW item \in batch[i],
           Land(i, item), phase[i] = "raw"
    PROVE  IInv'
  <1> USE DEF Land
  <1>1. item \in RawItem /\ item.bucket = start[i]
    BY DEF IInv, OwnItems
  <1>2. raw' = PutRaw(raw, item) /\ UNCHANGED hflow
    OBVIOUS
  <1>3. ~Due(HourOf(start[i]), clock)
    BY RunningHourNotDue DEF Running
  <1>4. \A h : h # HourOf(start[i]) => MergeHour(raw', h) = MergeHour(raw, h)
    <2> TAKE h
    <2> HAVE h # HourOf(start[i])
    <2>1. {r \in raw' : HourOf(r.bucket) = h} = {r \in raw : HourOf(r.bucket) = h}
      BY <1>1, <1>2 DEF PutRaw
    <2> QED
      BY <2>1, MergeHourLocal
  <1>5. \A h : h # None /\ Due(h, clock) => MergeHour(raw', h) = MergeHour(raw, h)
    BY <1>3, <1>4
  <1>6. TypeOK'
    BY <1>1, <1>2 DEF IInv, TypeOK, PutRaw
  <1>7. WithinTimeout' /\ OnlyDueHours'
    BY <1>2 DEF IInv, TypeOK, WithinTimeout, OnlyDueHours, Running, Due
  <1>8. OwnItems'
    BY DEF IInv, TypeOK, OwnItems
  <1>9. \A j \in Invocations :
            hour[j] # None => MergeHour(raw', hour[j]) = MergeHour(raw, hour[j])
    BY <1>5, UnderWayIsDue
  <1>10. HeldMergeCurrent'
    <2> SUFFICES ASSUME NEW j \in Invocations, phase[j] = "hflow",
                        ~MayHaveExpired(hour[j])
                 PROVE  batch'[j] \subseteq MergeHour(raw', hour[j])
      BY DEF HeldMergeCurrent, MayHaveExpired
    <2>1. batch'[j] = batch[j]
      BY DEF IInv, TypeOK
    <2>2. hour[j] # None
      BY DEF IInv, OwnItems
    <2> QED
      BY <1>9, <2>1, <2>2 DEF IInv, HeldMergeCurrent
  <1>11. HourlyRowsCurrent'
    <2>1. \A x \in hflow : Due(x.hour, clock) /\ x.hour # None
      BY DEF IInv, OnlyDueHours, TypeOK, HourItem
    <2> QED
      BY <1>2, <1>5, <2>1 DEF IInv, HourlyRowsCurrent, MayHaveExpired
  <1>12. MarkedHourExact'
    <2>1. \A h \in done : Due(h, clock) /\ h # None
      BY DEF IInv, OnlyDueHours, TypeOK
    <2> QED
      BY <1>2, <1>5, <2>1 DEF IInv, MarkedHourExact, MayHaveExpired
  <1>13. NothingLost'
    <2> SUFFICES ASSUME NEW j \in Invocations, hour[j] # None,
                        ~MayHaveExpired(hour[j])
                 PROVE  /\ phase'[j] = "hflow" /\ ~dropped'[j] =>
                             MergeHour(raw', hour[j]) \subseteq batch'[j] \cup hflow
                        /\ phase'[j] = "mark" =>
                             MergeHour(raw', hour[j]) \subseteq hflow
      BY <1>2 DEF NothingLost, MayHaveExpired
    <2>1. CASE j = i
      BY <2>1 DEF IInv, TypeOK
    <2>2. CASE j # i
      <3>1. batch'[j] = batch[j] /\ phase'[j] = phase[j] /\ dropped'[j] = dropped[j]
        BY <2>2 DEF IInv, TypeOK
      <3> QED
        BY <1>9, <3>1 DEF IInv, NothingLost
    <2> QED
      BY <2>1, <2>2
  <1> QED
    BY <1>6, <1>7, <1>8, <1>10, <1>11, <1>12, <1>13 DEF IInv

\* An hourly row that lands is the hour's merge, or the hour's raw rows may
\* have expired.
LEMMA LandHourIInv ==
    ASSUME IInv, NEW i \in Invocations, NEW item \in batch[i],
           Land(i, item), phase[i] = "hflow"
    PROVE  IInv'
  <1> USE DEF Land
  <1>1. item \in HourItem /\ hour[i] # None
    BY DEF IInv, OwnItems
  <1>2. /\ hflow' = PutHour(hflow, item)
        /\ UNCHANGED <<clock, raw, done, phase, start, todo, hour, dropped>>
        /\ batch' = [batch EXCEPT ![i] = @ \ {item}]
    OBVIOUS
  <1>3. hour[i] \in Int /\ Due(hour[i], clock) /\ item.hour = hour[i]
    BY <1>1, UnderWayIsDue DEF IInv, OwnItems
  <1>4. ~MayHaveExpired(hour[i]) => item \in MergeHour(raw, hour[i])
    BY DEF IInv, HeldMergeCurrent
  \* While the hour's rows cannot have expired, the put adds the row and
  \* removes nothing.
  <1>5. ~MayHaveExpired(hour[i]) => hflow' = hflow \cup {item}
    <2> HAVE ~MayHaveExpired(hour[i])
    <2>1. \A x \in hflow : x.hour = item.hour /\ x.key = item.key => x = item
      BY <1>3, <1>4, MergeHourKeys DEF IInv, HourlyRowsCurrent
    <2> QED
      BY <1>2, <2>1 DEF PutHour
  <1>6. \A x : x \in HourItem /\ x.hour # hour[i] => (x \in hflow' <=> x \in hflow)
    BY <1>2, <1>3 DEF PutHour
  <1>7. \A x \in hflow' : x \in hflow \/ x = item
    BY <1>2 DEF PutHour
  <1>8. TypeOK'
    BY <1>1, <1>2, <1>7 DEF IInv, TypeOK
  <1>9. WithinTimeout' /\ OnlyDueHours'
    BY <1>2, <1>3, <1>7 DEF IInv, TypeOK, WithinTimeout, OnlyDueHours, Running, Due
  <1>10. OwnItems' /\ HeldMergeCurrent'
    BY <1>2 DEF IInv, TypeOK, OwnItems, HeldMergeCurrent, MayHaveExpired
  <1>11. HourlyRowsCurrent'
    BY <1>2, <1>3, <1>4, <1>7 DEF IInv, HourlyRowsCurrent, MayHaveExpired
  <1>12. \A h \in Int : ~MayHaveExpired(h) /\ MergeHour(raw, h) \subseteq hflow =>
             MergeHour(raw, h) \subseteq hflow'
    <2> TAKE h \in Int
    <2>1. CASE h = hour[i]
      BY <1>5, <2>1
    <2>2. CASE h # hour[i]
      BY <1>6, <2>2, MergeHourType DEF IInv, TypeOK
    <2> QED
      BY <2>1, <2>2
  <1>13. NothingLost'
    <2> SUFFICES ASSUME NEW j \in Invocations, hour[j] # None,
                        ~MayHaveExpired(hour[j])
                 PROVE  /\ phase[j] = "hflow" /\ ~dropped[j] =>
                             MergeHour(raw, hour[j]) \subseteq batch'[j] \cup hflow'
                        /\ phase[j] = "mark" =>
                             MergeHour(raw, hour[j]) \subseteq hflow'
      BY <1>2 DEF NothingLost, MayHaveExpired
    <2>1. hour[j] \in Int
      BY DEF IInv, TypeOK
    <2>2. phase[j] = "mark" => MergeHour(raw, hour[j]) \subseteq hflow'
      BY <1>12, <2>1 DEF IInv, NothingLost
    <2>3. ASSUME phase[j] = "hflow", ~dropped[j],
                 NEW x \in MergeHour(raw, hour[j])
          PROVE  x \in batch'[j] \cup hflow'
      <3>1. x \in HourItem /\ x.hour = hour[j]
        BY <2>1, <2>3, MergeHourType DEF IInv, TypeOK
      <3>2. x \in batch[j] \cup hflow
        BY <2>3 DEF IInv, NothingLost
      <3>3. CASE hour[j] = hour[i]
        BY <1>2, <1>5, <3>2, <3>3 DEF IInv, TypeOK
      <3>4. CASE hour[j] # hour[i]
        BY <1>2, <1>6, <3>1, <3>2, <3>4 DEF IInv, TypeOK
      <3> QED
        BY <3>3, <3>4
    <2> QED
      BY <2>2, <2>3
  <1>14. MarkedHourExact'
    <2> SUFFICES ASSUME NEW h \in done, ~MayHaveExpired(h)
                 PROVE  {x \in hflow' : x.hour = h} = MergeHour(raw, h)
      BY <1>2 DEF MarkedHourExact, MayHaveExpired
    <2>1. {x \in hflow : x.hour = h} = MergeHour(raw, h) /\ h \in Int
      BY DEF IInv, MarkedHourExact, TypeOK
    <2>2. MergeHour(raw, h) \subseteq hflow'
      BY <1>12, <2>1
    <2>3. \A x \in MergeHour(raw, h) : x.hour = h
      BY <2>1
    <2>4. \A x \in hflow' : x.hour = h => x \in MergeHour(raw, h)
      BY <1>3, <1>4, <1>7, <2>1
    <2> QED
      BY <2>2, <2>3, <2>4
  <1> QED
    BY <1>8, <1>9, <1>10, <1>11, <1>13, <1>14 DEF IInv

\* Time only makes more hours due, and never passes a timeout.
LEMMA TickIInv == ASSUME IInv, Tick PROVE IInv'
  <1> USE DEF Tick, tables
  <1>1. TypeOK'
    BY DEF IInv, TypeOK
  <1>2. WithinTimeout'
    BY DEF IInv, TypeOK, WithinTimeout, Running
  <1>3. OnlyDueHours'
    <2>1. clock \in Nat /\ clock' = clock + 1
      BY DEF IInv, TypeOK
    <2>2. \A h \in Int : Due(h, clock) => Due(h, clock')
      BY <2>1 DEF Due
    <2>3. (\A x \in hflow : x.hour \in Int) /\ done \subseteq Int
      BY DEF IInv, TypeOK, HourItem
    <2> QED
      BY <2>2, <2>3 DEF IInv, OnlyDueHours, Running
  <1>4. OwnItems'
    BY DEF IInv, OwnItems
  <1>5. \A h \in Int : ~(clock' >= h + RawTTL) => ~MayHaveExpired(h)
    BY DEF IInv, TypeOK, MayHaveExpired
  <1>6. HeldMergeCurrent' /\ NothingLost'
    BY <1>5 DEF IInv, TypeOK, OwnItems, HeldMergeCurrent, NothingLost, MayHaveExpired
  <1>7. HourlyRowsCurrent'
    BY <1>5 DEF IInv, TypeOK, HourItem, HourlyRowsCurrent, MayHaveExpired
  <1>8. MarkedHourExact'
    BY <1>5 DEF IInv, TypeOK, MarkedHourExact, MayHaveExpired
  <1> QED
    BY <1>1, <1>2, <1>3, <1>4, <1>6, <1>7, <1>8 DEF IInv

\* An expired row is one of an hour whose rows may have expired.
LEMMA ExpireIInv == ASSUME IInv, NEW r \in raw, Expire(r) PROVE IInv'
  <1> USE DEF Expire
  <1>1. \A h \in Int : ~MayHaveExpired(h) => MergeHour(raw', h) = MergeHour(raw, h)
    <2> TAKE h \in Int
    <2> HAVE ~MayHaveExpired(h)
    <2>1. clock \in Nat /\ r.bucket \in Nat
      BY DEF IInv, TypeOK, RawItem
    <2>2. /\ HourOf(r.bucket) \in Int /\ HourOf(r.bucket) <= r.bucket
          /\ r.bucket < HourOf(r.bucket) + HourLen
      BY <2>1, HourOfBounds
    <2>3. HourOf(r.bucket) # h
      BY <2>1, <2>2 DEF MayHaveExpired
    <2>4. {x \in raw' : HourOf(x.bucket) = h} = {x \in raw : HourOf(x.bucket) = h}
      BY <2>3
    <2> QED
      BY <2>4, MergeHourLocal
  <1>2. TypeOK'
    BY DEF IInv, TypeOK
  <1>3. WithinTimeout' /\ OnlyDueHours' /\ OwnItems'
    BY DEF IInv, WithinTimeout, OnlyDueHours, OwnItems, Running
  <1>4. HeldMergeCurrent' /\ NothingLost'
    BY <1>1 DEF IInv, TypeOK, OwnItems, HeldMergeCurrent, NothingLost, MayHaveExpired
  <1>5. HourlyRowsCurrent'
    BY <1>1 DEF IInv, TypeOK, HourItem, HourlyRowsCurrent, MayHaveExpired
  <1>6. MarkedHourExact'
    BY <1>1 DEF IInv, TypeOK, MarkedHourExact, MayHaveExpired
  <1> QED
    BY <1>2, <1>3, <1>4, <1>5, <1>6 DEF IInv

\* A step that changes no variable changes no conjunct.
LEMMA StutterIInv == ASSUME IInv, UNCHANGED vars PROVE IInv'
  <1> USE DEF vars, tables
  <1>1. TypeOK' /\ WithinTimeout' /\ OnlyDueHours' /\ OwnItems'
    BY DEF IInv, TypeOK, WithinTimeout, OnlyDueHours, OwnItems, Running
  <1>2. HeldMergeCurrent' /\ HourlyRowsCurrent' /\ NothingLost' /\ MarkedHourExact'
    BY DEF IInv, HeldMergeCurrent, HourlyRowsCurrent, NothingLost,
           MarkedHourExact, MayHaveExpired
  <1> QED
    BY <1>1, <1>2 DEF IInv

\* The invariant is inductive: one case for each action.
LEMMA NextIInv == IInv /\ [Next]_vars => IInv'
  <1> SUFFICES ASSUME IInv, [Next]_vars PROVE IInv'
    OBVIOUS
  <1>1. ASSUME NEW i \in Invocations, Start(i) PROVE IInv'
    BY <1>1, StartIInv
  <1>2. ASSUME NEW i \in Invocations, Step(i) PROVE IInv'
    <2>1. ASSUME NEW item \in batch[i], Land(i, item) PROVE IInv'
      <3>1. phase[i] \in {"raw", "hflow"}
        BY <2>1 DEF Land
      <3> QED
        BY <2>1, <3>1, LandRawIInv, LandHourIInv
    <2>2. ASSUME NEW item \in batch[i], Drop(i, item) PROVE IInv'
      BY <2>2, DropIInv
    <2>3. ASSUME NEW h \in todo[i], ReadHour(i, h) PROVE IInv'
      BY <2>3, ReadHourIInv
    <2>4. CASE Finish(i)
      BY <2>4, ResetIInv DEF Finish
    <2> QED
      BY <1>2, <2>1, <2>2, <2>3, <2>4, CollectIInv, EndRawIInv, ListDoneIInv,
         EndHourIInv, MarkIInv DEF Step
  <1>3. ASSUME NEW i \in Invocations, Crash(i) PROVE IInv'
    BY <1>3, ResetIInv DEF Crash
  <1>4. ASSUME NEW r \in raw, Expire(r) PROVE IInv'
    BY <1>4, ExpireIInv
  <1> QED
    BY <1>1, <1>2, <1>3, <1>4, TickIInv, StutterIInv DEF Next

\* The strengthened invariant holds in every reachable state.
THEOREM Invariance == Spec => []IInv
  BY InitIInv, NextIInv, PTL DEF Spec

\* Every table and every invocation's private state is well typed.
THEOREM TypeCorrect == Spec => []TypeOK
  <1>1. IInv => TypeOK
    BY DEF IInv
  <1> QED
    BY <1>1, Invariance, PTL

\* A marked hour holds exactly the merge of the hour's raw rows, until those
\* may expire: no interleaving of invocations, crash or drop undercounts it.
THEOREM MarkedHoursAreExact == Spec => []MarkedHourExact
  <1>1. IInv => MarkedHourExact
    BY DEF IInv
  <1> QED
    BY <1>1, Invariance, PTL

\* What an invocation holds to write is still what it would merge.
THEOREM HeldMergesAreCurrent == Spec => []HeldMergeCurrent
  <1>1. IInv => HeldMergeCurrent
    BY DEF IInv
  <1> QED
    BY <1>1, Invariance, PTL

\* Rows are only ever added by an invocation that is writing its bucket.
LEMMA NewRows ==
    ASSUME IInv, [Next]_vars, NEW r \in raw' \ raw
    PROVE  \E i \in Invocations : Running(i) /\ r.bucket = start[i]
  <1>1. ASSUME NEW i \in Invocations, NEW item \in batch[i], Land(i, item)
        PROVE  Running(i) /\ r.bucket = start[i]
    <2>1. phase[i] = "raw" /\ r = item
      BY <1>1 DEF Land, PutRaw
    <2> QED
      BY <2>1 DEF IInv, OwnItems, Running
  <1> QED
    BY <1>1 DEF Next, Step, Start, Collect, Drop, EndRaw, ListDone, ReadHour,
       EndHour, Mark, Finish, Crash, Reset, Tick, Expire, vars, tables

\* No row is committed to an hour that is marked or found due, because the
\* grace outlasts the timeout.
THEOREM NoRowIsLate == Spec => NoLateRow
  <1> DEFINE NotLate ==
        \A r \in raw' \ raw :
            /\ HourOf(r.bucket) \notin done
            /\ \A j \in Invocations : HourOf(r.bucket) \notin todo[j] \cup {hour[j]}
  <1>1. ASSUME IInv, [Next]_vars PROVE NotLate
    <2> TAKE r \in raw' \ raw
    <2>1. PICK i \in Invocations : Running(i) /\ r.bucket = start[i]
      BY <1>1, NewRows
    <2>2. ~Due(HourOf(r.bucket), clock)
      BY <1>1, <2>1, RunningHourNotDue
    <2>3. HourOf(r.bucket) # None
      BY <1>1, <2>1, HourOfBounds DEF IInv, TypeOK
    <2>4. HourOf(r.bucket) \notin done
      BY <1>1, <2>2 DEF IInv, OnlyDueHours
    <2>5. \A j \in Invocations : HourOf(r.bucket) \notin todo[j] \cup {hour[j]}
      BY <1>1, <2>2, <2>3, UnderWayIsDue
    <2> QED
      BY <2>4, <2>5
  <1>2. IInv /\ [Next]_vars => [NotLate]_vars
    BY <1>1
  <1> QED
    BY <1>2, Invariance, PTL DEF Spec, NoLateRow

\* Until its raw rows may expire, an hour that is closed again is rewritten
\* with identical rows.
THEOREM RerunsAreIdentical == Spec => RerunIdenticalUntilExpiry
  <1> DEFINE Same ==
        \A h \in {x.hour : x \in hflow} : ~MayHaveExpired(h) => ~Rewrites(h)
  <1>1. ASSUME IInv, IInv', [Next]_vars PROVE Same
    <2> SUFFICES ASSUME NEW x \in hflow, NEW y \in hflow', y.hour = x.hour,
                        x.key = y.key, ~MayHaveExpired(x.hour)
                 PROVE  x = y
      BY DEF Rewrites
    <2>1. x \in MergeHour(raw, x.hour)
      BY <1>1 DEF IInv, HourlyRowsCurrent
    <2>2. CASE y \in hflow
      <3>1. y \in MergeHour(raw, x.hour)
        BY <1>1, <2>2 DEF IInv, HourlyRowsCurrent
      <3> QED
        BY <2>1, <3>1, MergeHourKeys
    <2>3. CASE y \notin hflow
      <3>1. PICK i \in Invocations :
                phase[i] = "hflow" /\ \E item \in batch[i] : y = item
        BY <1>1, <2>3 DEF Next, Step, Start, Collect, Land, Drop, EndRaw,
           ListDone, ReadHour, EndHour, Mark, Finish, Crash, Reset, Tick,
           Expire, PutHour, vars, tables
      <3>2. y.hour = hour[i]
        BY <1>1, <3>1 DEF IInv, OwnItems
      <3>3. y \in MergeHour(raw, x.hour)
        BY <1>1, <3>1, <3>2 DEF IInv, HeldMergeCurrent
      <3> QED
        BY <2>1, <3>3, MergeHourKeys
    <2> QED
      BY <2>2, <2>3
  <1>2. IInv /\ IInv' /\ [Next]_vars => [Same]_vars
    BY <1>1
  <1> QED
    BY <1>2, Invariance, PTL DEF Spec, RerunIdenticalUntilExpiry

-----------------------------------------------------------------------------
(* The refinement of HourLedger.                                           *)

\* The two modules merge hours alike.
LEMMA SameMerge ==
    ASSUME NEW rows, NEW h
    PROVE  Ledger!MergeHour(rows, h) = MergeHour(rows, h)
  BY DEF Ledger!MergeHour, MergeHour, Ledger!SourceRows, SourceRows,
         Ledger!HourOf, HourOf

\* Behind the horizon is due.
LEMMA BehindHorizonIsDue ==
    ASSUME IInv, NEW h \in Int
    PROVE  Due(h, clock) <=> h <= clock - Grace - HourLen
  BY DEF IInv, TypeOK, Due

\* The raw rows of an hour the ledger answers for are all there, and merge alike.
LEMMA KeptMerge ==
    ASSUME IInv, NEW h \in Int, h >= Since
    PROVE  ~MayHaveExpired(h) /\ Ledger!MergeHour(KeptRows, h) = MergeHour(raw, h)
  <1>1. ~MayHaveExpired(h)
    BY DEF IInv, TypeOK, MayHaveExpired, Since
  <1>2. {r \in KeptRows : HourOf(r.bucket) = h} = {r \in raw : HourOf(r.bucket) = h}
    BY DEF KeptRows
  <1> QED
    BY <1>1, <1>2, MergeHourLocal, SameMerge

\* A raw row that lands is recorded, or is of an hour already forgotten.
LEMMA LandRawRefines ==
    ASSUME IInv, NEW i \in Invocations, NEW item \in batch[i], Land(i, item),
           phase[i] = "raw"
    PROVE  [Ledger!Next]_(Ledger!ledger)
  <1>1. item \in RawItem /\ item.bucket = start[i] /\ start[i] \in Int
    BY DEF IInv, OwnItems, TypeOK
  <1>2. ~Due(HourOf(item.bucket), clock) /\ HourOf(item.bucket) \in Int
    BY <1>1, RunningHourNotDue, HourOfBounds DEF Running
  <1>3. HourOf(item.bucket) > clock - Grace - HourLen
    BY <1>2, BehindHorizonIsDue DEF IInv, TypeOK
  <1>4. raw' = PutRaw(raw, item) /\ Since' = Since
        /\ UNCHANGED <<clock, hflow, done, KeptSums, KeptMarks>>
    BY DEF Land, Since, KeptSums, KeptMarks
  <1>5. CASE HourOf(item.bucket) >= Since
    <2>1. KeptRows' = PutRaw(KeptRows, item)
      BY <1>4, <1>5 DEF KeptRows, PutRaw
    <2>2. Ledger!Record(item) /\ item \in KeptRows'
      BY <1>3, <1>4, <2>1 DEF Ledger!Record, Ledger!HourOf, HourOf, Ledger!PutRaw, PutRaw
    <2> QED
      BY <2>2 DEF Ledger!Next
  <1>6. CASE ~(HourOf(item.bucket) >= Since)
    <2>1. KeptRows' = KeptRows
      BY <1>4, <1>6 DEF KeptRows, PutRaw
    <2> QED
      BY <1>4, <2>1 DEF Ledger!ledger
  <1> QED
    BY <1>5, <1>6

\* An hourly row that lands is the hour's sum, or of an hour already forgotten.
LEMMA LandHourRefines ==
    ASSUME IInv, NEW i \in Invocations, NEW item \in batch[i], Land(i, item),
           phase[i] = "hflow"
    PROVE  [Ledger!Next]_(Ledger!ledger)
  <1>1. item.hour = hour[i] /\ hour[i] # None
    BY DEF IInv, OwnItems
  <1>2. item.hour \in Int /\ Due(item.hour, clock)
    BY <1>1, UnderWayIsDue
  <1>3. hflow' = PutHour(hflow, item) /\ Since' = Since
        /\ UNCHANGED <<clock, raw, done, KeptRows, KeptMarks>>
    BY DEF Land, Since, KeptRows, KeptMarks
  <1>4. CASE item.hour >= Since
    <2>1. ~MayHaveExpired(item.hour) /\ item \in MergeHour(raw, item.hour)
      BY <1>1, <1>2, <1>4, KeptMerge DEF IInv, HeldMergeCurrent
    <2>2. \A x \in hflow : x.hour = item.hour /\ x.key = item.key => x = item
      BY <2>1, MergeHourKeys DEF IInv, HourlyRowsCurrent
    <2>3. KeptSums' = KeptSums \cup {item}
      BY <1>3, <1>4, <2>2 DEF KeptSums, PutHour
    <2>4. item \in Ledger!MergeHour(KeptRows, item.hour)
      BY <1>2, <1>4, <2>1, KeptMerge
    <2>5. item.hour <= clock - Grace - HourLen
      BY <1>2, BehindHorizonIsDue
    <2>6. Ledger!Summarise(item) /\ item \in KeptSums'
      BY <1>3, <2>3, <2>4, <2>5 DEF Ledger!Summarise
    <2> QED
      BY <2>6 DEF Ledger!Next
  <1>5. CASE ~(item.hour >= Since)
    <2>1. KeptSums' = KeptSums
      BY <1>3, <1>5 DEF KeptSums, PutHour
    <2> QED
      BY <1>3, <2>1 DEF Ledger!ledger
  <1> QED
    BY <1>4, <1>5

\* A marker closes an hour all of whose sums are there.
LEMMA MarkRefines ==
    ASSUME IInv, NEW i \in Invocations, Mark(i)
    PROVE  [Ledger!Next]_(Ledger!ledger)
  <1> DEFINE h == hour[i]
  <1>1. h # None
    BY DEF IInv, OwnItems, Mark
  <1>2. h \in Int /\ Due(h, clock)
    BY <1>1, UnderWayIsDue
  <1>3. done' = done \cup {h} /\ Since' = Since
        /\ UNCHANGED <<clock, raw, hflow, KeptRows, KeptSums>>
    BY DEF Mark, Since, KeptRows, KeptSums
  <1> HIDE DEF h
  <1>4. CASE h >= Since
    <2>1. ~MayHaveExpired(h) /\ Ledger!MergeHour(KeptRows, h) = MergeHour(raw, h)
      BY <1>2, <1>4, KeptMerge
    <2>2. MergeHour(raw, h) \subseteq hflow
      BY <1>1, <2>1 DEF IInv, NothingLost, Mark, h
    <2>3. \A x \in MergeHour(raw, h) : x.hour = h
      BY DEF MergeHour
    <2>4. Ledger!MergeHour(KeptRows, h) \subseteq KeptSums
      BY <1>4, <2>1, <2>2, <2>3 DEF KeptSums
    <2>5. KeptMarks' = KeptMarks \cup {h}
      BY <1>3, <1>4 DEF KeptMarks
    <2>6. h <= clock - Grace - HourLen
      BY <1>2, BehindHorizonIsDue
    <2>7. Ledger!Close(h) /\ h \in KeptMarks'
      BY <1>3, <2>4, <2>5, <2>6 DEF Ledger!Close
    <2> QED
      BY <2>7 DEF Ledger!Next
  <1>5. CASE ~(h >= Since)
    <2>1. KeptMarks' = KeptMarks
      BY <1>3, <1>5 DEF KeptMarks
    <2> QED
      BY <1>3, <2>1 DEF Ledger!ledger
  <1> QED
    BY <1>4, <1>5

\* Time passes: the rows, sums and marks of the hours forgotten go together.
LEMMA TickRefines == ASSUME IInv, Tick PROVE Ledger!Advance
  <1>1. clock \in Int /\ clock' = clock + 1 /\ raw' = raw /\ hflow' = hflow /\ done' = done
    BY DEF Tick, tables, IInv, TypeOK
  <1>2. Since \in Int /\ Since' = Since + 1
    BY <1>1 DEF Since
  <1>3. /\ \A r \in raw : HourOf(r.bucket) \in Int
        /\ \A x \in hflow : x.hour \in Int
        /\ done \subseteq Int
    BY HourOfBounds DEF IInv, TypeOK, RawItem, HourItem
  <1>4. /\ KeptRows' = {r \in KeptRows : HourOf(r.bucket) >= Since'}
        /\ KeptSums' = {x \in KeptSums : x.hour >= Since'}
        /\ KeptMarks' = {g \in KeptMarks : g >= Since'}
    <2>1. KeptRows' = {r \in raw : HourOf(r.bucket) >= Since + 1}
      BY <1>1, <1>2 DEF KeptRows
    <2>2. KeptSums' = {x \in hflow : x.hour >= Since + 1}
      BY <1>1, <1>2 DEF KeptSums
    <2>3. KeptMarks' = {g \in done : g >= Since + 1}
      BY <1>1, <1>2 DEF KeptMarks
    <2>4. KeptRows' = {r \in KeptRows : HourOf(r.bucket) >= Since'}
      BY <1>2, <1>3, <2>1 DEF KeptRows
    <2>5. KeptSums' = {x \in KeptSums : x.hour >= Since'}
      BY <1>2, <1>3, <2>2 DEF KeptSums
    <2>6. KeptMarks' = {g \in KeptMarks : g >= Since'}
      <3>1. \A g \in done : g >= Since + 1 => g >= Since
        BY <1>2, <1>3
      <3> QED
        BY <1>2, <2>3, <3>1 DEF KeptMarks
    <2> QED
      BY <2>4, <2>5, <2>6
  <1> QED
    BY <1>1, <1>2, <1>4 DEF Ledger!Advance, Ledger!HourOf, HourOf

\* An expiring row is of an hour already forgotten.
LEMMA ExpireRefines ==
    ASSUME IInv, NEW r \in raw, Expire(r) PROVE UNCHANGED Ledger!ledger
  <1>1. r.bucket \in Int /\ clock \in Int /\ HourOf(r.bucket) \in Int
        /\ HourOf(r.bucket) <= r.bucket
    BY HourOfBounds DEF IInv, TypeOK, RawItem
  <1>2. ~(HourOf(r.bucket) >= Since)
    BY <1>1 DEF Expire, Since
  <1>3. KeptRows' = KeptRows
    BY <1>2 DEF Expire, KeptRows, Since
  <1> QED
    BY <1>3 DEF Expire, Ledger!ledger, Since, KeptSums, KeptMarks

\* Every step of the collector is a step of the ledger, or none.
LEMMA StepRefines ==
    ASSUME IInv, [Next]_vars
    PROVE  [Ledger!Next]_(Ledger!ledger)
  <1>1. ASSUME NEW i \in Invocations, NEW item \in batch[i], Land(i, item)
        PROVE  [Ledger!Next]_(Ledger!ledger)
    <2>1. phase[i] \in {"raw", "hflow"}
      BY <1>1 DEF Land
    <2> QED
      BY <1>1, <2>1, LandRawRefines, LandHourRefines
  <1>2. ASSUME NEW i \in Invocations,
               Start(i) \/ Collect(i) \/ EndRaw(i) \/ ListDone(i) \/ EndHour(i)
                 \/ Finish(i) \/ Crash(i)
                 \/ (\E item \in batch[i] : Drop(i, item))
                 \/ (\E h \in todo[i] : ReadHour(i, h))
        PROVE  UNCHANGED <<clock, tables>>
    BY <1>2 DEF Start, Collect, Drop, EndRaw, ListDone, ReadHour, EndHour,
       Finish, Crash, Reset, tables
  <1>3. ASSUME UNCHANGED <<clock, tables>> PROVE UNCHANGED Ledger!ledger
    BY <1>3 DEF tables, Ledger!ledger, Since, KeptRows, KeptSums, KeptMarks
  <1>4. CASE UNCHANGED vars
    BY <1>3, <1>4 DEF vars, tables
  <1>5. CASE Tick
    BY <1>5, TickRefines DEF Ledger!Next
  <1>6. CASE Next
    BY <1>1, <1>2, <1>3, <1>5, <1>6, MarkRefines, ExpireRefines DEF Next, Step
  <1> QED
    BY <1>4, <1>6

\* The collector implements the hour ledger.
THEOREM CollectorImplementsLedger == Spec => ImplementsLedger
  <1>1. Init => Ledger!Init
    BY DEF Init, Ledger!Init, Since, KeptRows, KeptSums, KeptMarks
  <1>2. IInv /\ [Next]_vars => [Ledger!Next]_(Ledger!ledger)
    BY StepRefines
  <1> QED
    BY <1>1, <1>2, Invariance, PTL DEF Spec, ImplementsLedger, Ledger!Spec
=============================================================================
