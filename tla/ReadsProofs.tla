----------------------------- MODULE ReadsProofs -----------------------------
(***************************************************************************)
(* Proofs about what the dashboard reads and shows: the pages and their    *)
(* controls (UserPages), for any things listed, any number of visits and   *)
(* any length of the lists they keep; the accounts of a window's rows      *)
(* (FlowAccounts), for any finite set of them; the plans (WindowPlan),     *)
(* for every clock reading, every length asked for and any length of an    *)
(* hour; and the cache of windows and lens results (FlowsCache), for any   *)
(* number of requests, keys and entries and any cap.                       *)
(***************************************************************************)
EXTENDS UserPages, WindowPlan, FlowsCache, FlowAccounts, FoldTheorems, SequenceTheorems

-----------------------------------------------------------------------------
(* The pages: each invariant speaks of the page that is mounted.           *)

Settings == [Fields -> Options]
Foci == {"fab", "page", "box", "first", "middle", "last"}

\* What the controls of a page may say.
Controls(p, u) ==
    /\ p = "settings"  => u \in [settings : Settings, draft : {None} \cup 0 .. 2]
    /\ p = "anomalies" => u \in [settings : Settings, selected : {0} \cup Named]
    /\ p = "insights"  => u \in [filters : [FilterFields -> Options], tab : Options]
    /\ p = "cost"      => u \in [range : Options]
    /\ p = "network"   => u \in [metric : Options, range : Options, namespace : Options]
    /\ p = "flows"     => u \in [buckets : [1 .. NBuckets -> Int], bucket : {None} \cup Int, monitor : {0} \cup Named,
                                 monitors : SUBSET Named, applied : 0 .. 2]
    /\ p = "paths"     => u \in [edge : {0} \cup Things, recents : Seq(Things)]
    /\ p = "workload"  => u \in [category : {0} \cup Named]
    /\ p = "monitor"   => u \in [view : Options, flow : {0} \cup Things]
    /\ p = "search"    => u \in [typed : 0 .. 2, debounced : 0 .. 2]
    /\ p = "chat"      => u \in [open : {"none", "drawer", "iframe"}, focus : Foci]

Memories == [settings : {None} \cup [Fields -> {1, 2, 9}], filters : {None} \cup [FilterFields -> Options],
             recents : Seq(Things)]
Addresses == [now : Query, next : {None} \cup Query]
Historicals == [body : SUBSET Things]

PageType ==
    /\ page \in Pages \cup {"topology"}
    /\ Controls(page, ui)
    /\ side \in {None} \cup Historicals
    /\ memory \in Memories
    /\ url \in Addresses
    /\ slot \in Int
    /\ chosen \in Seq(Things)
    /\ strayed \in BOOLEAN

\* The request is the one the controls stand for, and what was loaded without an
\* error is the answer to it.
PollInv ==
    /\ poll \in [ask : Asks \cup {None}, data : Told \cup {None}, error : BOOLEAN, loading : BOOLEAN]
    /\ poll.ask = Asked(page, ui)
    /\ poll.ask # None /\ ~poll.loading /\ ~poll.error => poll.data # None /\ poll.data.ask = poll.ask

FlowsInv ==
    page = "flows" =>
       /\ ui.buckets[2] < slot
       /\ ui.monitor # 0 => ui.monitor \in ui.monitors

\* What is shown is what the address says once its replacement is in, and what is stored.
ShownInv ==
    /\ page = "settings" => ui.settings = Parsed(memory.settings)
    /\ page = "insights" /\ ~strayed => ui.filters = Loaded(Latest, memory.filters) /\ ui.tab = TabOf(Latest)
    /\ page = "monitor" /\ ~strayed => ui.view = ViewOf(Latest)
    /\ page = "paths" /\ ~strayed => ui.edge = Latest.edge
    /\ page = "paths" => ui.recents = memory.recents

IsLast(c, e, i) == i \in DOMAIN c /\ c[i] = e /\ \A j \in DOMAIN c : c[j] = e => j <= i
LastIn(c, e) == CHOOSE i \in DOMAIN c : c[i] = e /\ \A j \in DOMAIN c : c[j] = e => j <= i

\* A list holds the last members of a log, each once, newest first.
Newest(c, list) ==
    /\ \A e \in ToSet(c) : IsLast(c, e, LastIn(c, e))
    /\ ToSet(list) \subseteq ToSet(c)
    /\ \A i, j \in DOMAIN list : i < j => LastIn(c, list[i]) > LastIn(c, list[j])
    /\ \A e \in ToSet(c) \ ToSet(list) :
          Len(list) = MaxRecents /\ \A r \in ToSet(list) : LastIn(c, e) < LastIn(c, r)

RecentsInv == Newest(chosen, memory.recents)

PagesInv == PageType /\ PollInv /\ FlowsInv /\ ShownInv /\ RecentsInv /\ DialogHoldsFocus
-----------------------------------------------------------------------------
Silent == {"topology", "settings", "chat"}
Plain == {"overview", "agents", "alerts", "monitors", "monitor", "workload"}

\* What each page asks, and what it is mounted with.
LEMMA AskedIs ==
    ASSUME NEW p, NEW u
    PROVE  /\ p = "anomalies" => Asked(p, u) = [settings |-> u.settings]
           /\ p = "insights" => Asked(p, u) = InsightsAsk(u)
           /\ p = "cost" => Asked(p, u) = [range |-> u.range]
           /\ p = "network" => Asked(p, u) = NetworkAsk(u)
           /\ p = "flows" => Asked(p, u) = FlowsAsk(u)
           /\ p = "paths" => Asked(p, u) = (IF u.edge = 0 THEN None ELSE [edge |-> u.edge])
           /\ p = "search" => Asked(p, u) = (IF u.debounced = 0 THEN None ELSE [q |-> u.debounced])
           /\ p \in Silent => Asked(p, u) = None
           /\ p \in Plain => Asked(p, u) = [page |-> p]
  <1>1. p = "anomalies" => Asked(p, u) = [settings |-> u.settings]
    BY Zenon DEF Asked
  <1>2. p = "insights" => Asked(p, u) = InsightsAsk(u)
    BY Zenon DEF Asked
  <1>3. p = "cost" => Asked(p, u) = [range |-> u.range]
    BY Zenon DEF Asked
  <1>4. p = "network" => Asked(p, u) = NetworkAsk(u)
    BY Zenon DEF Asked
  <1>5. p = "flows" => Asked(p, u) = FlowsAsk(u)
    BY Zenon DEF Asked
  <1>6. p = "paths" => Asked(p, u) = (IF u.edge = 0 THEN None ELSE [edge |-> u.edge])
    BY Zenon DEF Asked
  <1>7. p = "search" => Asked(p, u) = (IF u.debounced = 0 THEN None ELSE [q |-> u.debounced])
    BY Zenon DEF Asked
  <1>8. p \in Silent => Asked(p, u) = None
    BY Zenon DEF Asked, Silent
  <1>9. p \in Plain => Asked(p, u) = [page |-> p]
    BY Zenon DEF Asked, Plain
  <1> QED
    BY <1>1, <1>2, <1>3, <1>4, <1>5, <1>6, <1>7, <1>8, <1>9

\* What each page is mounted with.
LEMMA MountedIs ==
    ASSUME NEW p, NEW query
    PROVE  /\ p = "settings" => Mounted(p, query) = [settings |-> Parsed(memory.settings), draft |-> None]
           /\ p = "anomalies" => Mounted(p, query) = [settings |-> Parsed(memory.settings), selected |-> 0]
           /\ p = "insights" => Mounted(p, query) = InsightsMounted(query)
           /\ p = "cost" => Mounted(p, query) = [range |-> 1]
           /\ p = "network" => Mounted(p, query) = NetworkMounted(query)
           /\ p = "flows" => Mounted(p, query) = FlowsMounted
           /\ p = "paths" => Mounted(p, query) = PathsMounted(query)
           /\ p = "workload" => Mounted(p, query) = [category |-> 0]
           /\ p = "monitor" => Mounted(p, query) = [view |-> ViewOf(query), flow |-> 0]
           /\ p = "search" => Mounted(p, query) = [typed |-> 0, debounced |-> 0]
           /\ p = "chat" => Mounted(p, query) = [open |-> "none", focus |-> "fab"]
  <1>1. p = "settings" => Mounted(p, query) = [settings |-> Parsed(memory.settings), draft |-> None]
    BY Zenon DEF Mounted
  <1>2. p = "anomalies" => Mounted(p, query) = [settings |-> Parsed(memory.settings), selected |-> 0]
    BY Zenon DEF Mounted
  <1>3. p = "insights" => Mounted(p, query) = InsightsMounted(query)
    BY Zenon DEF Mounted
  <1>4. p = "cost" => Mounted(p, query) = [range |-> 1]
    BY Zenon DEF Mounted
  <1>5. p = "network" => Mounted(p, query) = NetworkMounted(query)
    BY Zenon DEF Mounted
  <1>6. p = "flows" => Mounted(p, query) = FlowsMounted
    BY Zenon DEF Mounted
  <1>7. p = "paths" => Mounted(p, query) = PathsMounted(query)
    BY Zenon DEF Mounted
  <1>8. p = "workload" => Mounted(p, query) = [category |-> 0]
    BY Zenon DEF Mounted
  <1>9. p = "monitor" => Mounted(p, query) = [view |-> ViewOf(query), flow |-> 0]
    BY Zenon DEF Mounted
  <1>10. p = "search" => Mounted(p, query) = [typed |-> 0, debounced |-> 0]
    BY Zenon DEF Mounted
  <1>11. p = "chat" => Mounted(p, query) = [open |-> "none", focus |-> "fab"]
    BY Zenon DEF Mounted
  <1> QED
    BY <1>1, <1>2, <1>3, <1>4, <1>5, <1>6, <1>7, <1>8, <1>9, <1>10, <1>11

\* A page is one of those that ask, or one that asks for itself, or a silent one.
LEMMA PageNames ==
    ASSUME NEW p \in Pages \cup {"topology"}
    PROVE  \/ p \in {"anomalies", "insights", "cost", "network", "flows", "paths", "search"}
           \/ p \in Silent \/ (p \in Plain /\ p \in Pages)
  BY PagesAssumption DEF Silent, Plain

\* Whatever its controls may say, a page asks for one of the things that can be asked.
LEMMA AskedType ==
    ASSUME NEW p \in Pages \cup {"topology"}, NEW u, Controls(p, u)
    PROVE  Asked(p, u) \in Asks \cup {None}
  <1>1. CASE p = "anomalies"
    <2>1. u \in [settings : Settings, selected : {0} \cup Named]
      BY <1>1 DEF Controls
    <2>2. u.settings \in Settings /\ Asked(p, u) = [settings |-> u.settings]
      BY <1>1, <2>1, AskedIs
    <2> QED
      BY <2>2 DEF Asks, Settings
  <1>2. CASE p = "insights"
    <2>1. u \in [filters : [FilterFields -> Options], tab : Options]
      BY <1>2 DEF Controls
    <2>2. u.tab \in Options /\ LensQuery(u.filters) \in LensQueries
      BY <2>1 DEF LensQuery, LensQueries, FilterFields
    <2>3. Asked(p, u) = [tab |-> u.tab, query |-> LensQuery(u.filters)]
      BY <1>2, AskedIs DEF InsightsAsk
    <2>4. Asked(p, u) \in [tab : Options, query : LensQueries]
      BY <2>2, <2>3
    <2> QED
      BY <2>4, Zenon DEF Asks
  <1>3. CASE p = "cost"
    <2>1. u \in [range : Options] /\ Asked(p, u) = [range |-> u.range]
      BY <1>3, AskedIs DEF Controls
    <2> QED
      BY <2>1 DEF Asks
  <1>4. CASE p = "network"
    <2>1. u \in [metric : Options, range : Options, namespace : Options]
      BY <1>4 DEF Controls
    <2>2. u.metric \in Options /\ LensQuery([range |-> u.range, namespace |-> u.namespace]) \in LensQueries
      BY <2>1 DEF LensQuery, LensQueries
    <2>3. Asked(p, u) = [metric |-> u.metric, query |-> LensQuery([range |-> u.range, namespace |-> u.namespace])]
      BY <1>4, AskedIs DEF NetworkAsk
    <2>4. Asked(p, u) \in [metric : Options, query : LensQueries]
      BY <2>2, <2>3
    <2> QED
      BY <2>4, Zenon DEF Asks
  <1>5. CASE p = "flows"
    <2>1. u \in [buckets : [1 .. NBuckets -> Int], bucket : {None} \cup Int, monitor : {0} \cup Named,
                 monitors : SUBSET Named, applied : 0 .. 2]
      BY <1>5 DEF Controls
    <2>2. Followed(u) \in Int /\ u.monitor \in {0} \cup Named
      BY <2>1, SizesAssumption DEF Followed
    <2>3. Asked(p, u) = FlowsAsk(u)
      BY <1>5, AskedIs
    <2>4. FlowsAsk(u) = [pod |-> TRUE] \/ FlowsAsk(u) = [bucket |-> Followed(u), monitor |-> u.monitor]
      BY DEF FlowsAsk
    <2>5. [bucket |-> Followed(u), monitor |-> u.monitor] \in [bucket : Int, monitor : {0} \cup Named]
      BY <2>2
    <2>6. [pod |-> TRUE] \in [pod : {TRUE}]
      OBVIOUS
    <2> QED
      BY <2>3, <2>4, <2>5, <2>6 DEF Asks
  <1>6. CASE p = "paths"
    <2>1. u \in [edge : {0} \cup Things, recents : Seq(Things)]
      BY <1>6 DEF Controls
    <2>2. Asked(p, u) = IF u.edge = 0 THEN None ELSE [edge |-> u.edge]
      BY <1>6, AskedIs
    <2> QED
      BY <2>1, <2>2 DEF Asks
  <1>7. CASE p = "search"
    <2>1. u \in [typed : 0 .. 2, debounced : 0 .. 2]
      BY <1>7 DEF Controls
    <2>2. Asked(p, u) = IF u.debounced = 0 THEN None ELSE [q |-> u.debounced]
      BY <1>7, AskedIs
    <2> QED
      BY <2>1, <2>2 DEF Asks, Options
  <1>8. CASE p \in Silent
    BY <1>8, AskedIs
  <1>9. CASE p \in Plain /\ p \in Pages
    <2>1. Asked(p, u) = [page |-> p]
      BY <1>9, AskedIs
    <2> QED
      BY <1>9, <2>1 DEF Asks
  <1> QED
    BY <1>1, <1>2, <1>3, <1>4, <1>5, <1>6, <1>7, <1>8, <1>9, PageNames

\* What is stored, or not, is read as settings and as filters.
LEMMA ParsedType == ASSUME NEW raw PROVE Parsed(raw) \in Settings
  BY DEF Parsed, Settings, Options

LEMMA LoadedType ==
    ASSUME NEW query, NEW raw
    PROVE  Loaded(query, raw) \in [FilterFields -> Options]
  BY DEF Loaded, Options

\* A page is mounted with controls that it has.
LEMMA MountedControls ==
    ASSUME NEW p, NEW query \in Query, PageType
    PROVE  Controls(p, Mounted(p, query))
  <1>1. p = "settings" => Mounted(p, query) \in [settings : Settings, draft : {None} \cup 0 .. 2]
    BY MountedIs, ParsedType
  <1>2. p = "anomalies" => Mounted(p, query) \in [settings : Settings, selected : {0} \cup Named]
    BY MountedIs, ParsedType
  <1>3. p = "insights" => Mounted(p, query) \in [filters : [FilterFields -> Options], tab : Options]
    <2>1. TabOf(query) \in Options
      BY DEF TabOf, Options
    <2> QED
      BY <2>1, MountedIs, LoadedType DEF InsightsMounted
  <1>4. p = "cost" => Mounted(p, query) \in [range : Options]
    BY MountedIs DEF Options
  <1>5. p = "network" => Mounted(p, query) \in [metric : Options, range : Options, namespace : Options]
    <2>1. query.namespace \in 0 .. 2
      BY DEF Query
    <2> QED
      BY <2>1, MountedIs DEF NetworkMounted, Options
  <1>6. p = "flows" => Mounted(p, query) \in
           [buckets : [1 .. NBuckets -> Int], bucket : {None} \cup Int, monitor : {0} \cup Named,
            monitors : SUBSET Named, applied : 0 .. 2]
    <2>1. Recent(slot) \in [1 .. NBuckets -> Int]
      BY DEF Recent, PageType
    <2> QED
      BY <2>1, MountedIs DEF FlowsMounted
  <1>7. p = "paths" => Mounted(p, query) \in [edge : {0} \cup Things, recents : Seq(Things)]
    <2>1. query.edge \in {0} \cup Things /\ memory.recents \in Seq(Things)
      BY DEF Query, PageType, Memories
    <2>2. PathsMounted(query) \in [edge : {0} \cup Things, recents : Seq(Things)]
      BY <2>1 DEF PathsMounted
    <2> QED
      BY <2>2, MountedIs
  <1>8. p = "workload" => Mounted(p, query) \in [category : {0} \cup Named]
    BY MountedIs
  <1>9. p = "monitor" => Mounted(p, query) \in [view : Options, flow : {0} \cup Things]
    BY MountedIs DEF ViewOf, Options
  <1>10. p = "search" => Mounted(p, query) \in [typed : 0 .. 2, debounced : 0 .. 2]
    BY MountedIs
  <1>11. p = "chat" => Mounted(p, query) \in [open : {"none", "drawer", "iframe"}, focus : Foci]
    BY MountedIs DEF Foci
  <1> QED
    BY <1>1, <1>2, <1>3, <1>4, <1>5, <1>6, <1>7, <1>8, <1>9, <1>10, <1>11 DEF Controls

\* A request that has only begun has no answer to be held against it.
LEMMA BlankKeeps ==
    ASSUME page' \in Pages \cup {"topology"}, Controls(page', ui'), poll' = Blank(Asked(page', ui'))
    PROVE  PollInv'
  <1>1. Asked(page, ui)' = Asked(page', ui')
    OBVIOUS
  <1>2. Asked(page', ui') \in Asks \cup {None}
    BY AskedType
  <1> QED
    BY <1>1, <1>2 DEF PollInv, Blank

LEMMA FollowKeeps ==
    ASSUME PollInv, page' = page, page \in Pages \cup {"topology"}, NEW v, ui' = v, Controls(page, v),
           poll' = Follow(page, ui, v)
    PROVE  PollInv'
  <1> DEFINE ask == Asked(page, v)
  <1>1. ask \in Asks \cup {None}
    BY AskedType
  <1>2. Asked(page, ui)' = ask
    OBVIOUS
  <1> HIDE DEF ask
  <1>3. CASE poll' = poll /\ ask = Asked(page, ui)
    BY <1>2, <1>3 DEF PollInv
  <1>4. CASE poll' = Blank(ask)
    BY <1>4, BlankKeeps DEF ask
  <1>5. CASE poll' = [ask |-> ask, data |-> poll.data, error |-> poll.error, loading |-> TRUE]
    BY <1>1, <1>2, <1>5 DEF PollInv
  <1> QED
    BY <1>3, <1>4, <1>5 DEF Follow, ask
-----------------------------------------------------------------------------
\* How many numbers there are up to one.
LEMMA UpTo == ASSUME NEW q \in Nat PROVE IsFiniteSet(1 .. q) /\ Cardinality(1 .. q) = q
  BY FS_Interval

\* A list that does not hold an edge is left as it is.
LEMMA WithoutAbsent ==
    ASSUME NEW S, NEW list \in Seq(S), NEW edge, \A i \in DOMAIN list : list[i] # edge
    PROVE  Without(list, edge) = list
  <1> DEFINE kept == {i \in DOMAIN list : list[i] # edge}
             nth(q) == CHOOSE i \in kept : Cardinality(kept \cap 1 .. i) = q
  <1>1. Len(list) \in Nat /\ DOMAIN list = 1 .. Len(list) /\ kept = 1 .. Len(list)
    OBVIOUS
  <1>2. Cardinality(kept) = Len(list)
    <2> HIDE DEF kept
    <2> QED
      BY <1>1, UpTo
  <1>3. ASSUME NEW q \in kept PROVE Cardinality(kept \cap 1 .. q) = q
    <2>1. kept \cap 1 .. q = 1 .. q
      BY <1>1, <1>3
    <2>2. q \in Nat
      BY <1>1, <1>3
    <2> HIDE DEF kept
    <2> QED
      BY <2>1, <2>2, UpTo
  <1>4. Without(list, edge) = [q \in 1 .. Cardinality(kept) |-> list[nth(q)]]
    BY DEF Without
  <1> HIDE DEF kept
  <1>5. ASSUME NEW q \in kept PROVE nth(q) = q
    BY <1>3, <1>5
  <1> HIDE DEF nth
  <1>6. list = [q \in 1 .. Len(list) |-> list[q]]
    OBVIOUS
  <1> QED
    BY <1>1, <1>2, <1>4, <1>5, <1>6

\* From a list that holds an edge once it is taken out, and what is behind it moves up.
LEMMA WithoutPresent ==
    ASSUME NEW S, NEW list \in Seq(S), NEW edge, NEW p \in DOMAIN list, list[p] = edge,
           \A i \in DOMAIN list : list[i] = edge => i = p
    PROVE  Without(list, edge) = [q \in 1 .. Len(list) - 1 |-> list[IF q < p THEN q ELSE q + 1]]
  <1> DEFINE kept == {i \in DOMAIN list : list[i] # edge}
             nth(q) == CHOOSE i \in kept : Cardinality(kept \cap 1 .. i) = q
  <1>1. Len(list) \in Nat /\ DOMAIN list = 1 .. Len(list) /\ p \in 1 .. Len(list)
    OBVIOUS
  <1>2. kept = (1 .. Len(list)) \ {p}
    BY <1>1
  <1>3. Cardinality(kept) = Len(list) - 1
    <2> HIDE DEF kept
    <2>1. IsFiniteSet(1 .. Len(list)) /\ Cardinality(1 .. Len(list)) = Len(list)
      BY <1>1, UpTo
    <2>2. Cardinality((1 .. Len(list)) \ {p}) = Cardinality(1 .. Len(list)) - 1
      BY <1>1, <2>1, FS_RemoveElement
    <2> QED
      BY <1>2, <2>1, <2>2
  <1>4. Without(list, edge) = [q \in 1 .. Cardinality(kept) |-> list[nth(q)]]
    BY DEF Without
  <1> HIDE DEF kept
  <1>5. ASSUME NEW i \in kept PROVE Cardinality(kept \cap 1 .. i) = IF i < p THEN i ELSE i - 1
    <2>1. i \in 1 .. Len(list) /\ i # p
      BY <1>2, <1>5
    <2>2. IsFiniteSet(1 .. i) /\ Cardinality(1 .. i) = i
      BY <1>1, <2>1, FS_Interval
    <2>3. CASE i < p
      <3>1. kept \cap 1 .. i = 1 .. i
        BY <1>1, <1>2, <2>1, <2>3
      <3> QED
        BY <2>2, <2>3, <3>1
    <2>4. CASE i > p
      <3>1. kept \cap 1 .. i = (1 .. i) \ {p} /\ p \in 1 .. i
        BY <1>1, <1>2, <2>1, <2>4
      <3>3. ~(i < p)
        BY <1>1, <2>1, <2>4
      <3>2. Cardinality((1 .. i) \ {p}) = i - 1
        BY <2>2, <3>1, FS_RemoveElement
      <3> QED
        BY <2>4, <3>1, <3>2, <3>3
    <2> QED
      BY <1>1, <2>1, <2>3, <2>4
  <1>6. ASSUME NEW q \in 1 .. Len(list) - 1 PROVE nth(q) = IF q < p THEN q ELSE q + 1
    <2> DEFINE m == IF q < p THEN q ELSE q + 1
    <2>1. m \in kept /\ (IF m < p THEN m ELSE m - 1) = q
      BY <1>1, <1>2, <1>6
    <2>2. \A i \in kept : Cardinality(kept \cap 1 .. i) = q => i = m
      BY <1>1, <1>2, <1>5, <1>6
    <2> HIDE DEF m
    <2>3. Cardinality(kept \cap 1 .. m) = q
      BY <1>5, <2>1
    <2> QED
      BY <2>1, <2>2, <2>3 DEF m
  <1> HIDE DEF nth
  <1> QED
    BY <1>3, <1>4, <1>6

\* Both together: the place p of the edge is behind the list when the list is without it.
LEMMA WithoutIs ==
    ASSUME NEW S, NEW list \in Seq(S), NEW edge,
           \A i, j \in DOMAIN list : list[i] = list[j] => i = j
    PROVE  \E p \in 1 .. Len(list) + 1 :
              /\ \A i \in DOMAIN list : list[i] = edge <=> i = p
              /\ Without(list, edge) \in Seq(S)
              /\ Len(Without(list, edge)) = IF p <= Len(list) THEN Len(list) - 1 ELSE Len(list)
              /\ \A q \in 1 .. Len(Without(list, edge)) : Without(list, edge)[q] = list[IF q < p THEN q ELSE q + 1]
  <1>1. Len(list) \in Nat /\ DOMAIN list = 1 .. Len(list)
    OBVIOUS
  <1>2. CASE \A i \in DOMAIN list : list[i] # edge
    <2>1. Without(list, edge) = list
      BY <1>2, WithoutAbsent
    <2>2. \A i \in DOMAIN list : list[i] = edge <=> i = Len(list) + 1
      BY <1>1, <1>2
    <2>3. \A q \in 1 .. Len(list) : list[q] = list[IF q < Len(list) + 1 THEN q ELSE q + 1]
      BY <1>1
    <2>4. Len(list) + 1 \in 1 .. Len(list) + 1 /\ ~(Len(list) + 1 <= Len(list))
      BY <1>1
    <2> QED
      BY <2>1, <2>2, <2>3, <2>4
  <1>3. CASE \E p \in DOMAIN list : list[p] = edge
    <2>1. PICK p \in DOMAIN list : list[p] = edge
      BY <1>3
    <2>2. \A i \in DOMAIN list : list[i] = edge => i = p
      BY <2>1
    <2>3. Without(list, edge) = [q \in 1 .. Len(list) - 1 |-> list[IF q < p THEN q ELSE q + 1]]
      BY <2>1, <2>2, WithoutPresent
    <2>4. \A q \in 1 .. Len(list) - 1 : list[IF q < p THEN q ELSE q + 1] \in S
      BY <1>1
    <2>5. p \in 1 .. Len(list) /\ Len(list) - 1 \in Nat
      BY <1>1
    <2>6. Without(list, edge) \in Seq(S) /\ Len(Without(list, edge)) = Len(list) - 1
      <3> DEFINE g(q) == list[IF q < p THEN q ELSE q + 1]
      <3>1. \A q \in 1 .. Len(list) - 1 : g(q) \in S
        BY <2>4
      <3> HIDE DEF g
      <3>2. [q \in 1 .. Len(list) - 1 |-> g(q)] \in Seq(S) /\ Len([q \in 1 .. Len(list) - 1 |-> g(q)]) = Len(list) - 1
        BY <2>5, <3>1
      <3> QED
        BY <2>3, <3>2 DEF g
    <2>7. \A q \in 1 .. Len(Without(list, edge)) : Without(list, edge)[q] = list[IF q < p THEN q ELSE q + 1]
      BY <2>3, <2>5, <2>6
    <2>8. p \in 1 .. Len(list) + 1 /\ p <= Len(list)
      BY <1>1, <2>5
    <2>9. \A i \in DOMAIN list : list[i] = edge <=> i = p
      BY <2>1, <2>2
    <2> QED
      BY <2>6, <2>7, <2>8, <2>9
  <1> QED
    BY <1>2, <1>3

\* An edge that is chosen comes first, before the others in their order.
LEMMA PushedIs ==
    ASSUME NEW S, NEW list, NEW edge \in S, Without(list, edge) \in Seq(S)
    PROVE  LET others == Without(list, edge)
           IN /\ Pushed(list, edge) \in Seq(S)
              /\ Len(Pushed(list, edge)) = IF Len(others) < MaxRecents THEN Len(others) + 1 ELSE MaxRecents
              /\ \A q \in 1 .. Len(Pushed(list, edge)) :
                    Pushed(list, edge)[q] = IF q = 1 THEN edge ELSE others[q - 1]
  <1> DEFINE others == Without(list, edge)
             m == IF Len(others) < MaxRecents THEN Len(others) + 1 ELSE MaxRecents
  <1>1. Pushed(list, edge) = SubSeq(<<edge>> \o others, 1, m)
    BY DEF Pushed
  <1> HIDE DEF others
  <1>2. others \in Seq(S)
    BY DEF others
  <1>3. m \in Nat /\ m <= Len(others) + 1
    BY <1>2, SizesAssumption
  <1> HIDE DEF m
  <1>4. <<edge>> \o others \in Seq(S) /\ Len(<<edge>> \o others) = Len(others) + 1
    BY <1>2
  <1>5. \A q \in 1 .. Len(others) + 1 : (<<edge>> \o others)[q] = IF q = 1 THEN edge ELSE others[q - 1]
    BY <1>2
  <1> HIDE DEF others
  <1>6. Pushed(list, edge) \in Seq(S) /\ Len(Pushed(list, edge)) = m
    BY <1>1, <1>2, <1>3, <1>4
  <1>7. \A q \in 1 .. m : Pushed(list, edge)[q] = (<<edge>> \o others)[q]
    BY <1>1, <1>2, <1>3, <1>4
  <1>8. \A q \in 1 .. m : q \in 1 .. Len(others) + 1
    BY <1>2, <1>3
  <1> QED
    BY <1>5, <1>6, <1>7, <1>8 DEF others, m

\* A member of the log has a last place in it.
LEMMA LastInIs ==
    ASSUME NEW c, DOMAIN c \subseteq Int, NEW e, NEW i, IsLast(c, e, i)
    PROVE  LastIn(c, e) = i
  <1>1. \A k \in DOMAIN c : (c[k] = e /\ \A j \in DOMAIN c : c[j] = e => j <= k) => k = i
    BY DEF IsLast
  <1> QED
    BY <1>1 DEF IsLast, LastIn

\* The log grows by an edge, which is then its last.
LEMMA LastGrows ==
    ASSUME NEW c \in Seq(Things), NEW edge \in Things,
           \A e \in ToSet(c) : IsLast(c, e, LastIn(c, e))
    PROVE  /\ ToSet(Append(c, edge)) = ToSet(c) \cup {edge}
           /\ LastIn(Append(c, edge), edge) = Len(c) + 1
           /\ IsLast(Append(c, edge), edge, Len(c) + 1)
           /\ \A e \in ToSet(c) \ {edge} :
                 LastIn(Append(c, edge), e) = LastIn(c, e) /\ IsLast(Append(c, edge), e, LastIn(c, e))
  <1> DEFINE d == Append(c, edge)
  <1>1. DOMAIN c = 1 .. Len(c) /\ Len(c) \in Nat
    OBVIOUS
  <1>2. DOMAIN d = 1 .. Len(c) + 1 /\ d[Len(c) + 1] = edge /\ \A i \in 1 .. Len(c) : d[i] = c[i]
    OBVIOUS
  <1> HIDE DEF d
  <1>3. ToSet(d) = ToSet(c) \cup {edge}
    <2>1. \A e : e \in ToSet(d) <=> e \in ToSet(c) \cup {edge}
      BY <1>1, <1>2 DEF ToSet
    <2> QED
      BY <2>1
  <1>4. IsLast(d, edge, Len(c) + 1)
    BY <1>1, <1>2 DEF IsLast
  <1>5. ASSUME NEW e \in ToSet(c) \ {edge} PROVE IsLast(d, e, LastIn(c, e))
    BY <1>1, <1>2, <1>5 DEF IsLast
  <1>6. DOMAIN d \subseteq Int
    BY <1>1, <1>2
  <1> QED
    BY <1>3, <1>4, <1>5, <1>6, LastInIs DEF d

\* Where the members of the new list were in the old one, and the other way round.
LEMMA PlacesBack ==
    ASSUME NEW a \in Nat, NEW p \in 1 .. a + 1, NEW q \in 2 .. (IF p <= a THEN a - 1 ELSE a) + 1
    PROVE  /\ (IF q - 1 < p THEN q - 1 ELSE q) \in 1 .. a
           /\ (IF q - 1 < p THEN q - 1 ELSE q) # p
  <1>1. CASE p <= a
    BY <1>1
  <1>2. CASE p = a + 1
    BY <1>2
  <1> QED
    BY <1>1, <1>2

LEMMA PlacesForth ==
    ASSUME NEW a \in Nat, NEW p \in 1 .. a + 1, NEW k \in 1 .. a, k # p,
           NEW m, m = IF k < p THEN k + 1 ELSE k
    PROVE  /\ m \in 2 .. (IF p <= a THEN a - 1 ELSE a) + 1
           /\ (IF m - 1 < p THEN m - 1 ELSE m) = k
  <1>1. CASE p <= a
    BY <1>1
  <1>2. CASE p = a + 1
    BY <1>2
  <1> QED
    BY <1>1, <1>2

\* What holds the last members of the log holds them still when one is chosen.
LEMMA PushedIsNewest ==
    ASSUME NEW c \in Seq(Things), NEW list \in Seq(Things), NEW edge \in Things, Newest(c, list)
    PROVE  Pushed(list, edge) \in Seq(Things) /\ Newest(Append(c, edge), Pushed(list, edge))
  <1> DEFINE d == Append(c, edge)
             new == Pushed(list, edge)
             others == Without(list, edge)
             back(p, q) == IF q - 1 < p THEN q - 1 ELSE q
             L(e) == LastIn(c, e)
             M(e) == LastIn(d, e)
  <1>1. /\ ToSet(d) = ToSet(c) \cup {edge}
        /\ M(edge) = Len(c) + 1 /\ IsLast(d, edge, M(edge))
        /\ \A e \in ToSet(c) \ {edge} : M(e) = L(e) /\ IsLast(d, e, M(e))
    BY LastGrows DEF Newest
  <1>2. \A e \in ToSet(c) : L(e) \in 1 .. Len(c)
    BY DEF Newest, IsLast
  <1>3. Len(list) \in Nat /\ DOMAIN list = 1 .. Len(list) /\ Len(c) \in Nat
    OBVIOUS
  <1>4. \A i \in DOMAIN list : list[i] \in ToSet(list) /\ list[i] \in ToSet(c)
    BY DEF Newest, ToSet
  <1>5. \A i, j \in DOMAIN list : i < j => L(list[i]) > L(list[j])
    BY DEF Newest
  <1>6. \A e \in ToSet(c) \ ToSet(list) : Len(list) = MaxRecents /\ \A r \in ToSet(list) : L(e) < L(r)
    BY DEF Newest
  <1>7. \A i, j \in DOMAIN list : list[i] = list[j] => i = j
    <2> HIDE DEF L
    <2>1. \A i \in DOMAIN list : L(list[i]) \in Int
      BY <1>2, <1>4
    <2> QED
      BY <1>3, <1>5, <2>1
  <1>8. PICK p \in 1 .. Len(list) + 1 :
           /\ \A i \in DOMAIN list : list[i] = edge <=> i = p
           /\ others \in Seq(Things)
           /\ Len(others) = IF p <= Len(list) THEN Len(list) - 1 ELSE Len(list)
           /\ \A q \in 1 .. Len(others) : others[q] = list[IF q < p THEN q ELSE q + 1]
    BY <1>7, WithoutIs
  <1>9. /\ new \in Seq(Things)
        /\ Len(new) = IF Len(others) < MaxRecents THEN Len(others) + 1 ELSE MaxRecents
        /\ \A q \in 1 .. Len(new) : new[q] = IF q = 1 THEN edge ELSE others[q - 1]
    BY <1>8, PushedIs
  <1> HIDE DEF d, new, others, L, M
  <1>10. Len(others) \in Nat /\ Len(new) \in Nat /\ Len(new) <= Len(others) + 1 /\ DOMAIN new = 1 .. Len(new)
    BY <1>8, <1>9, SizesAssumption
  <1>11. \A q \in 2 .. Len(others) + 1 : back(p, q) \in DOMAIN list /\ back(p, q) # p
    <2> SUFFICES ASSUME NEW q \in 2 .. Len(others) + 1 PROVE back(p, q) \in DOMAIN list /\ back(p, q) # p
      OBVIOUS
    <2>1. p \in 1 .. Len(list) + 1 /\ Len(others) = IF p <= Len(list) THEN Len(list) - 1 ELSE Len(list)
      BY <1>8
    <2>2. q \in 2 .. (IF p <= Len(list) THEN Len(list) - 1 ELSE Len(list)) + 1
      BY <2>1
    <2> QED
      BY <1>3, <2>1, <2>2, PlacesBack
  <1>12. new = <<>> \/ (1 \in DOMAIN new /\ new[1] = edge)
    BY <1>9, <1>10
  <1>13. \A q \in 2 .. Len(new) : new[q] = list[back(p, q)] /\ new[q] # edge
    <2> SUFFICES ASSUME NEW q \in 2 .. Len(new)
                 PROVE  new[q] = list[back(p, q)] /\ new[q] # edge
      OBVIOUS
    <2>1. q \in 1 .. Len(new) /\ q # 1 /\ q - 1 \in 1 .. Len(others) /\ q \in 2 .. Len(others) + 1
      BY <1>10
    <2>2. new[q] = others[q - 1]
      BY <1>9, <2>1
    <2>3. others[q - 1] = list[IF q - 1 < p THEN q - 1 ELSE (q - 1) + 1]
      BY <1>8, <2>1
    <2>4. (q - 1) + 1 = q
      BY <1>10
    <2> QED
      BY <1>8, <1>11, <2>1, <2>2, <2>3, <2>4
  <1>14. \A q \in 2 .. Len(new) : new[q] \in ToSet(c) /\ M(new[q]) = L(list[back(p, q)]) /\ M(new[q]) \in 1 .. Len(c)
    BY <1>1, <1>2, <1>4, <1>10, <1>11, <1>13
  <1>15. \A i, j \in DOMAIN new : i < j => M(new[i]) > M(new[j])
    <2> SUFFICES ASSUME NEW i \in DOMAIN new, NEW j \in DOMAIN new, i < j
                 PROVE  M(new[i]) > M(new[j])
      OBVIOUS
    <2>1. j \in 2 .. Len(new)
      BY <1>10
    <2>2. CASE i = 1
      BY <1>1, <1>3, <1>9, <1>10, <1>14, <2>1, <2>2
    <2>3. CASE i # 1
      <3>1. i \in 2 .. Len(new) /\ i \in 2 .. Len(others) + 1 /\ j \in 2 .. Len(others) + 1
        BY <1>10, <2>1, <2>3
      <3>2. back(p, i) < back(p, j)
        BY <1>3, <2>1, <3>1
      <3> QED
        BY <1>5, <1>11, <1>14, <2>1, <3>1, <3>2
    <2> QED
      BY <2>2, <2>3
  <1>16. ToSet(new) \subseteq ToSet(d)
    <2> SUFFICES ASSUME NEW q \in DOMAIN new PROVE new[q] \in ToSet(d)
      BY DEF ToSet
    <2> QED
      BY <1>1, <1>9, <1>10, <1>14
  <1>17. ASSUME NEW e \in ToSet(d) \ ToSet(new)
         PROVE  Len(new) = MaxRecents /\ \A r \in ToSet(new) : M(e) < M(r)
    <2>0. \A q \in DOMAIN new : new[q] # e
      BY <1>17 DEF ToSet
    <2>1. CASE e = edge
      <3>1. Len(new) = 0
        <4>1. 1 \in 1 .. Len(new) => new[1] = edge
          BY <1>9
        <4>2. 1 \notin 1 .. Len(new)
          BY <1>10, <2>0, <2>1, <4>1
        <4> QED
          BY <1>10, <4>2
      <3>2. ToSet(new) = {}
        BY <1>10, <3>1 DEF ToSet
      <3> QED
        BY <1>9, <1>10, <3>1, <3>2
    <2>2. CASE e # edge /\ e \notin ToSet(list)
      <3>1. e \in ToSet(c) /\ M(e) = L(e) /\ L(e) \in 1 .. Len(c)
        BY <1>1, <1>2, <1>17, <2>2
      <3>2. Len(list) = MaxRecents /\ \A r \in ToSet(list) : L(e) < L(r)
        BY <1>6, <2>2, <3>1
      <3>3. Len(new) = MaxRecents
        BY <1>3, <1>8, <1>9, <3>2
      <3>4. \A q \in DOMAIN new : M(e) < M(new[q])
        <4> SUFFICES ASSUME NEW q \in DOMAIN new PROVE M(e) < M(new[q])
          OBVIOUS
        <4>1. CASE q = 1
          BY <1>1, <1>3, <1>9, <1>10, <3>1, <4>1
        <4>2. CASE q # 1
          <5>1. q \in 2 .. Len(new) /\ q \in 2 .. Len(others) + 1
            BY <1>10, <4>2
          <5> QED
            BY <1>4, <1>11, <1>14, <3>1, <3>2, <5>1
        <4> QED
          BY <4>1, <4>2
      <3> QED
        BY <3>3, <3>4 DEF ToSet
    <2>3. CASE e # edge /\ e \in ToSet(list)
      <3>1. PICK k \in DOMAIN list : list[k] = e
        BY <2>3 DEF ToSet
      <3>2. k # p /\ e \in ToSet(c) /\ M(e) = L(list[k])
        BY <1>1, <1>4, <1>8, <2>3, <3>1
      <3> DEFINE m == IF k < p THEN k + 1 ELSE k
      <3>3. m \in 2 .. Len(others) + 1 /\ back(p, m) = k
        <4>1. p \in 1 .. Len(list) + 1 /\ Len(others) = IF p <= Len(list) THEN Len(list) - 1 ELSE Len(list)
          BY <1>8
        <4>2. k \in 1 .. Len(list) /\ k # p
          BY <1>3, <3>2
        <4>3. m = IF k < p THEN k + 1 ELSE k
          OBVIOUS
        <4> HIDE DEF m
        <4>4. Len(list) \in Nat
          BY <1>3
        <4>5. /\ m \in 2 .. (IF p <= Len(list) THEN Len(list) - 1 ELSE Len(list)) + 1
              /\ (IF m - 1 < p THEN m - 1 ELSE m) = k
          BY <4>1, <4>2, <4>3, <4>4, PlacesForth
        <4> QED
          BY <4>1, <4>5
      <3>4. m > Len(new)
        <4>1. ASSUME m \in 2 .. Len(new) PROVE FALSE
          <5>1. new[m] = e /\ m \in DOMAIN new
            BY <1>10, <1>13, <3>1, <3>3, <4>1
          <5> QED
            BY <2>0, <5>1
        <4> QED
          BY <1>10, <3>3, <4>1
      <3>5. Len(new) = MaxRecents
        BY <1>9, <1>10, <3>3, <3>4
      <3>6. L(list[k]) \in 1 .. Len(c)
        BY <1>2, <1>4
      <3>7. \A q \in DOMAIN new : M(e) < M(new[q])
        <4> SUFFICES ASSUME NEW q \in DOMAIN new PROVE M(e) < M(new[q])
          OBVIOUS
        <4>1. CASE q = 1
          BY <1>1, <1>3, <1>9, <1>10, <3>2, <3>6, <4>1
        <4>2. CASE q # 1
          <5>1. q \in 2 .. Len(new) /\ q \in 2 .. Len(others) + 1
            BY <1>10, <4>2
          <5>2. back(p, q) < k
            BY <1>3, <1>10, <3>3, <3>4, <5>1
          <5> QED
            BY <1>5, <1>11, <1>14, <3>2, <5>1, <5>2
        <4> QED
          BY <4>1, <4>2
      <3> QED
        BY <3>5, <3>7 DEF ToSet
    <2> QED
      BY <2>1, <2>2, <2>3
  <1>18. \A e \in ToSet(d) : IsLast(d, e, M(e))
    BY <1>1
  <1>19. Newest(d, new)
    BY <1>15, <1>16, <1>17, <1>18 DEF Newest, M
  <1> QED
    BY <1>9, <1>19 DEF d, new
-----------------------------------------------------------------------------
Texts(range, namespace) == range \in {0, 1, 2, 9} /\ namespace \in 0 .. 2

\* Two fields of a query are written over.
LEMMA OverIs ==
    ASSUME NEW q \in Query, NEW a, NEW b, Texts(a, b)
    PROVE  [q EXCEPT !.range = a, !.namespace = b] \in Query
  <1>1. [q EXCEPT !.range = a, !.namespace = b] = [[q EXCEPT !.range = a] EXCEPT !.namespace = b]
    BY Zenon DEF Query
  <1>2. [q EXCEPT !.range = a] \in Query
    BY DEF Query, Texts
  <1>3. [[q EXCEPT !.range = a] EXCEPT !.namespace = b] \in Query
    BY <1>2 DEF Query, Texts
  <1> QED
    BY <1>1, <1>3, Zenon

\* A page is opened with a query that an address can hold.
LEMMA QueriesType == ASSUME NEW p PROVE Queries(p) \subseteq Query
  <1>1. Bare \in Query
    BY DEF Bare, Query
  <1>2. Queries(p) \subseteq
           {Bare, [Bare EXCEPT !.tab = 2], [Bare EXCEPT !.range = 9, !.namespace = 2], [Bare EXCEPT !.namespace = 2],
            [Bare EXCEPT !.view = 2]} \cup {[Bare EXCEPT !.edge = e] : e \in Things}
    BY Zenon DEF Queries
  <1>3. /\ [Bare EXCEPT !.tab = 2] \in Query /\ [Bare EXCEPT !.range = 9, !.namespace = 2] \in Query
        /\ [Bare EXCEPT !.namespace = 2] \in Query /\ [Bare EXCEPT !.view = 2] \in Query
    <2>1. [Bare EXCEPT !.tab = 2] \in Query
      BY <1>1 DEF Query
    <2>2. [Bare EXCEPT !.range = 9, !.namespace = 2] \in Query
      <3>1. Texts(9, 2)
        BY DEF Texts
      <3> QED
        BY <1>1, <3>1, OverIs, Zenon
    <2>3. [Bare EXCEPT !.namespace = 2] \in Query
      BY <1>1 DEF Query
    <2>4. [Bare EXCEPT !.view = 2] \in Query
      BY <1>1 DEF Query
    <2> QED
      BY <2>1, <2>2, <2>3, <2>4
  <1>4. \A e \in Things : [Bare EXCEPT !.edge = e] \in Query
    BY <1>1 DEF Query
  <1> QED
    BY <1>1, <1>2, <1>3, <1>4

\* A page that is opened or loaded again.
LEMMA MountKeeps ==
    ASSUME PagesInv, NEW p \in Pages, NEW query \in Query, Mount(p, query), UNCHANGED <<memory, slot, chosen>>
    PROVE  PagesInv'
  <1>1. page' = p /\ ui' = Mounted(p, query) /\ poll' = Blank(Asked(page', ui')) /\ side' = None /\ ~strayed'
        /\ url' = [now |-> query, next |-> None] /\ memory' = memory /\ slot' = slot /\ chosen' = chosen
    BY DEF Mount
  <1>2. PageType /\ RecentsInv
    BY DEF PagesInv
  <1>3. Controls(page', ui')
    BY <1>1, <1>2, MountedControls
  <1>4. PageType'
    <2>1. url' \in Addresses
      BY <1>1 DEF Addresses
    <2>2. strayed' \in BOOLEAN
      BY <1>1 DEF Mount
    <2>3. Controls(page, ui)'
      BY <1>3
    <2> QED
      BY <1>1, <1>2, <2>1, <2>2, <2>3 DEF PageType
  <1>5. PollInv'
    BY <1>1, <1>3, BlankKeeps
  <1>6. FlowsInv'
    <2>1. ASSUME p = "flows" PROVE ui'.buckets = Recent(slot) /\ ui'.monitor = 0
      BY <1>1, <2>1, MountedIs DEF FlowsMounted
    <2>2. Recent(slot)[2] = slot - 1 /\ slot \in Int
      BY <1>2, SizesAssumption DEF Recent, PageType
    <2> QED
      BY <1>1, <2>1, <2>2 DEF FlowsInv
  <1>7. ShownInv'
    <2>1. Latest' = query
      BY <1>1 DEF Latest
    <2>2. p = "settings" => ui'.settings = Parsed(memory'.settings)
      BY <1>1, MountedIs
    <2>3. p = "insights" => ui'.filters = Loaded(query, memory'.filters) /\ ui'.tab = TabOf(query)
      BY <1>1, MountedIs DEF InsightsMounted
    <2>4. p = "monitor" => ui'.view = ViewOf(query)
      BY <1>1, MountedIs
    <2>5. p = "paths" => ui'.edge = query.edge /\ ui'.recents = memory'.recents
      <3>1. p = "paths" => ui' = PathsMounted(query)
        BY <1>1, MountedIs
      <3> QED
        BY <1>1, <3>1 DEF PathsMounted
    <2> QED
      BY <1>1, <2>1, <2>2, <2>3, <2>4, <2>5 DEF ShownInv
  <1>8. RecentsInv'
    BY <1>1, <1>2 DEF RecentsInv
  <1>9. DialogHoldsFocus'
    <2>1. p = "chat" => ui' = [open |-> "none", focus |-> "fab"]
      BY <1>1, MountedIs
    <2> QED
      BY <1>1, <2>1 DEF DialogHoldsFocus, Inside
  <1> QED
    BY <1>4, <1>5, <1>6, <1>7, <1>8, <1>9 DEF PagesInv

\* A control that turns leaves the request the one the controls stand for.
LEMMA TurnKeeps ==
    ASSUME PagesInv, page' = page, NEW u, Turn(u), Controls(page, u),
           side' \in {None} \cup Historicals, memory' \in Memories, url' \in Addresses, slot' \in Int,
           chosen' \in Seq(Things), strayed' \in BOOLEAN
    PROVE  ui' = u /\ PageType' /\ PollInv'
  <1>1. ui' = u /\ poll' = Follow(page, ui, u)
    BY DEF Turn
  <1>2. page \in Pages \cup {"topology"} /\ PollInv
    BY DEF PagesInv, PageType
  <1>3. PollInv'
    BY <1>1, <1>2, FollowKeeps
  <1>4. PageType'
    BY <1>1, <1>2 DEF PageType
  <1> QED
    BY <1>1, <1>3, <1>4

Kind == {"settings", "insights", "monitor", "paths", "flows", "chat"}

\* On the other pages nothing is to be kept.
LEMMA PlainTurns ==
    ASSUME PagesInv, NEW u, Turn(u), Controls(page, u), UNCHANGED <<page, side, Kept>>, page \notin Kind
    PROVE  PagesInv'
  <1>1. /\ page' = page /\ side' = side /\ memory' = memory /\ url' = url /\ slot' = slot /\ chosen' = chosen
        /\ strayed' = strayed
    BY DEF Kept
  <1>2. PageType' /\ PollInv'
    BY <1>1, TurnKeeps DEF PagesInv, PageType
  <1>3. FlowsInv' /\ ShownInv' /\ DialogHoldsFocus'
    BY <1>1 DEF Kind, FlowsInv, ShownInv, DialogHoldsFocus
  <1>4. RecentsInv'
    BY <1>1 DEF RecentsInv, PagesInv
  <1> QED
    BY <1>2, <1>3, <1>4 DEF PagesInv

\* The user opens a page, or loads it again.
LEMMA OpenKeeps == ASSUME PagesInv, Open PROVE PagesInv'
  <1>1. PICK p \in Pages : \E query \in Queries(p) : Mount(p, query)
    BY DEF Open
  <1>2. PICK query \in Queries(p) : Mount(p, query)
    BY <1>1
  <1>3. UNCHANGED <<memory, slot, chosen>>
    BY DEF Open
  <1>4. query \in Query
    BY QueriesType
  <1> QED
    BY <1>2, <1>3, <1>4, MountKeeps

LEMMA ReloadKeeps == ASSUME PagesInv, Reload PROVE PagesInv'
  <1>1. page \in Pages /\ url.now \in Query
    BY DEF Reload, PagesInv, PageType, Addresses
  <1>2. Mount(page, url.now) /\ UNCHANGED <<memory, slot, chosen>>
    BY DEF Reload
  <1> QED
    BY <1>1, <1>2, MountKeeps

\* The controls of the pages that keep nothing.
LEMMA PickCostKeeps == ASSUME PagesInv, PickCost PROVE PagesInv'
  <1>1. page = "cost" /\ UNCHANGED <<page, side, Kept>>
    BY DEF PickCost, On
  <1>2. PICK v \in Options : Turn([ui EXCEPT !["range"] = v])
    BY DEF PickCost, PickField
  <1>3. Controls(page, [ui EXCEPT !["range"] = v])
    BY <1>1 DEF PagesInv, PageType, Controls
  <1> QED
    BY <1>1, <1>2, <1>3, PlainTurns DEF Kind

LEMMA PickNetworkKeeps == ASSUME PagesInv, PickNetwork PROVE PagesInv'
  <1>1. page = "network" /\ UNCHANGED <<page, side, Kept>>
    BY DEF PickNetwork, On
  <1>2. PICK field \in {"metric", "range", "namespace"} : PickField(field, Options)
    BY DEF PickNetwork
  <1>3. PICK v \in Options : Turn([ui EXCEPT ![field] = v])
    BY <1>2 DEF PickField
  <1>4. ui \in [metric : Options, range : Options, namespace : Options]
    BY <1>1 DEF PagesInv, PageType, Controls
  <1>5. [ui EXCEPT ![field] = v] \in [metric : Options, range : Options, namespace : Options]
    BY <1>4
  <1>6. Controls(page, [ui EXCEPT ![field] = v])
    BY <1>1, <1>5 DEF Controls
  <1> QED
    BY <1>1, <1>3, <1>6, PlainTurns DEF Kind

\* What a panel lists are names.
LEMMA LoadedBody ==
    ASSUME PagesInv
    PROVE  (IF poll.data = None THEN {} ELSE poll.data.body) \subseteq Named
  BY DEF PagesInv, PollInv, Told

LEMMA PickCategoryKeeps == ASSUME PagesInv, PickCategory PROVE PagesInv'
  <1>1. page = "workload" /\ UNCHANGED <<page, side, Kept>>
    BY DEF PickCategory, On
  <1>2. PICK v \in {0} \cup Offered : Turn([ui EXCEPT !["category"] = v])
    BY DEF PickCategory, PickField
  <1>3. ui \in [category : {0} \cup Named]
    BY <1>1 DEF PagesInv, PageType, Controls
  <1>4. v \in {0} \cup Named
    BY <1>3, LoadedBody DEF Offered
  <1>5. Controls(page, [ui EXCEPT !["category"] = v])
    BY <1>1, <1>3, <1>4 DEF Controls
  <1> QED
    BY <1>1, <1>2, <1>5, PlainTurns DEF Kind

LEMMA PickAnomalyKeeps == ASSUME PagesInv, PickAnomaly PROVE PagesInv'
  <1>1. page = "anomalies" /\ UNCHANGED <<page, side, Kept>>
    BY DEF PickAnomaly, On
  <1>2. PICK v \in {0} \cup (IF poll.data = None THEN {} ELSE poll.data.body) : Turn([ui EXCEPT !["selected"] = v])
    BY DEF PickAnomaly, PickField
  <1>3. ui \in [settings : Settings, selected : {0} \cup Named]
    BY <1>1 DEF PagesInv, PageType, Controls
  <1>4. v \in {0} \cup Named
    BY LoadedBody
  <1>5. Controls(page, [ui EXCEPT !["selected"] = v])
    BY <1>1, <1>3, <1>4 DEF Controls
  <1> QED
    BY <1>1, <1>2, <1>5, PlainTurns DEF Kind

LEMMA TypeKeeps == ASSUME PagesInv, Type PROVE PagesInv'
  <1>1. page = "search" /\ UNCHANGED <<page, side, Kept>>
    BY DEF Type, On
  <1>2. PICK v \in {0} \cup Options : Turn([ui EXCEPT !["typed"] = v])
    BY DEF Type, PickField
  <1>3. ui \in [typed : 0 .. 2, debounced : 0 .. 2]
    BY <1>1 DEF PagesInv, PageType, Controls
  <1>4. v \in 0 .. 2
    BY DEF Options
  <1>5. Controls(page, [ui EXCEPT !["typed"] = v])
    BY <1>1, <1>3, <1>4 DEF Controls
  <1> QED
    BY <1>1, <1>2, <1>5, PlainTurns DEF Kind

LEMMA DebounceKeeps == ASSUME PagesInv, Debounce PROVE PagesInv'
  <1>1. page = "search" /\ UNCHANGED <<page, side, Kept>> /\ Turn([ui EXCEPT !.debounced = ui.typed])
    BY DEF Debounce, On
  <1>2. ui \in [typed : 0 .. 2, debounced : 0 .. 2]
    BY <1>1 DEF PagesInv, PageType, Controls
  <1>3. Controls(page, [ui EXCEPT !.debounced = ui.typed])
    BY <1>1, <1>2 DEF Controls
  <1> QED
    BY <1>1, <1>3, PlainTurns DEF Kind

\* The flows page.
LEMMA FlowsTurns ==
    ASSUME PagesInv, page = "flows", NEW u, Turn(u), Controls(page, u), UNCHANGED <<page, side, Kept>>,
           u.buckets[2] < slot, u.monitor # 0 => u.monitor \in u.monitors
    PROVE  PagesInv'
  <1>1. /\ page' = page /\ side' = side /\ memory' = memory /\ url' = url /\ slot' = slot /\ chosen' = chosen
        /\ strayed' = strayed
    BY DEF Kept
  <1>2. ui' = u /\ PageType' /\ PollInv'
    BY <1>1, TurnKeeps DEF PagesInv, PageType
  <1>3. FlowsInv'
    BY <1>1, <1>2 DEF FlowsInv
  <1>4. ShownInv' /\ DialogHoldsFocus'
    BY <1>1 DEF ShownInv, DialogHoldsFocus
  <1>5. RecentsInv'
    BY <1>1 DEF RecentsInv, PagesInv
  <1> QED
    BY <1>2, <1>3, <1>4, <1>5 DEF PagesInv

FlowsControls == [buckets : [1 .. NBuckets -> Int], bucket : {None} \cup Int, monitor : {0} \cup Named,
                  monitors : SUBSET Named, applied : 0 .. 2]

LEMMA FlowsType ==
    ASSUME PagesInv, page = "flows"
    PROVE  /\ ui \in FlowsControls /\ ui.buckets[2] < slot /\ slot \in Int
           /\ ui.monitor # 0 => ui.monitor \in ui.monitors
  BY DEF PagesInv, PageType, Controls, FlowsInv, FlowsControls

LEMMA PickFlowsKeeps == ASSUME PagesInv, PickFlows PROVE PagesInv'
  <1>1. page = "flows" /\ UNCHANGED <<page, side, Kept>>
    BY DEF PickFlows, On
  <1>2. ui \in FlowsControls /\ ui.buckets[2] < slot /\ (ui.monitor # 0 => ui.monitor \in ui.monitors)
    BY <1>1, FlowsType
  <1>3. CASE PickField("bucket", {None} \cup ToSet(ui.buckets))
    <2>1. PICK v \in {None} \cup ToSet(ui.buckets) : Turn([ui EXCEPT !["bucket"] = v])
      BY <1>3 DEF PickField
    <2>2. v \in {None} \cup Int
      BY <1>2, <2>1 DEF FlowsControls, ToSet
    <2>3. /\ [ui EXCEPT !["bucket"] = v] \in FlowsControls
          /\ [ui EXCEPT !["bucket"] = v].buckets = ui.buckets
          /\ [ui EXCEPT !["bucket"] = v].monitor = ui.monitor
          /\ [ui EXCEPT !["bucket"] = v].monitors = ui.monitors
      BY <1>2, <2>2 DEF FlowsControls
    <2>4. Controls(page, [ui EXCEPT !["bucket"] = v])
      BY <1>1, <2>3 DEF Controls, FlowsControls
    <2> QED
      BY <1>1, <1>2, <2>1, <2>3, <2>4, FlowsTurns
  <1>4. CASE PickField("monitor", {0} \cup ui.monitors)
    <2>1. PICK v \in {0} \cup ui.monitors : Turn([ui EXCEPT !["monitor"] = v])
      BY <1>4 DEF PickField
    <2>2. v \in {0} \cup Named
      BY <1>2, <2>1 DEF FlowsControls
    <2>3. /\ [ui EXCEPT !["monitor"] = v] \in FlowsControls
          /\ [ui EXCEPT !["monitor"] = v].buckets = ui.buckets
          /\ [ui EXCEPT !["monitor"] = v].monitor = v
          /\ [ui EXCEPT !["monitor"] = v].monitors = ui.monitors
      BY <1>2, <2>2 DEF FlowsControls
    <2>4. Controls(page, [ui EXCEPT !["monitor"] = v])
      BY <1>1, <2>3 DEF Controls, FlowsControls
    <2> QED
      BY <1>1, <1>2, <2>1, <2>3, <2>4, FlowsTurns
  <1>5. CASE PickField("applied", 0 .. 2)
    <2>1. PICK v \in 0 .. 2 : Turn([ui EXCEPT !["applied"] = v])
      BY <1>5 DEF PickField
    <2>2. /\ [ui EXCEPT !["applied"] = v] \in FlowsControls
          /\ [ui EXCEPT !["applied"] = v].buckets = ui.buckets
          /\ [ui EXCEPT !["applied"] = v].monitor = ui.monitor
          /\ [ui EXCEPT !["applied"] = v].monitors = ui.monitors
      BY <1>2 DEF FlowsControls
    <2>3. Controls(page, [ui EXCEPT !["applied"] = v])
      BY <1>1, <2>2 DEF Controls, FlowsControls
    <2> QED
      BY <1>1, <1>2, <2>1, <2>2, <2>3, FlowsTurns
  <1> QED
    BY <1>3, <1>4, <1>5 DEF PickFlows

LEMMA RefreshBucketsKeeps == ASSUME PagesInv, RefreshBuckets PROVE PagesInv'
  <1>1. page = "flows" /\ UNCHANGED <<page, side, Kept>> /\ Turn([ui EXCEPT !.buckets = Recent(slot)])
    BY DEF RefreshBuckets, On
  <1>2. ui \in FlowsControls /\ slot \in Int /\ (ui.monitor # 0 => ui.monitor \in ui.monitors)
    BY <1>1, FlowsType
  <1>3. Recent(slot) \in [1 .. NBuckets -> Int] /\ Recent(slot)[2] < slot
    BY <1>2, SizesAssumption DEF Recent
  <1>4. /\ [ui EXCEPT !.buckets = Recent(slot)] \in FlowsControls
        /\ [ui EXCEPT !.buckets = Recent(slot)].buckets = Recent(slot)
        /\ [ui EXCEPT !.buckets = Recent(slot)].monitor = ui.monitor
        /\ [ui EXCEPT !.buckets = Recent(slot)].monitors = ui.monitors
    BY <1>2, <1>3 DEF FlowsControls
  <1>5. Controls(page, [ui EXCEPT !.buckets = Recent(slot)])
    BY <1>1, <1>4 DEF Controls, FlowsControls
  <1> QED
    BY <1>1, <1>2, <1>3, <1>4, <1>5, FlowsTurns

LEMMA SlotPassesKeeps == ASSUME PagesInv, SlotPasses PROVE PagesInv'
  <1>1. page = "flows" /\ slot' = slot + 1 /\ UNCHANGED <<page, ui, poll, side, memory, url, chosen, strayed>>
    BY DEF SlotPasses, On
  <1>2. ui \in FlowsControls /\ ui.buckets[2] < slot /\ slot \in Int /\ (ui.monitor # 0 => ui.monitor \in ui.monitors)
    BY <1>1, FlowsType
  <1>3. ui.buckets[2] \in Int
    BY <1>2, SizesAssumption DEF FlowsControls
  <1>4. FlowsInv'
    BY <1>1, <1>2, <1>3 DEF FlowsInv
  <1>5. PageType'
    BY <1>1, <1>2 DEF PagesInv, PageType
  <1>6. PollInv'
    BY <1>1 DEF PagesInv, PollInv
  <1>7. ShownInv' /\ DialogHoldsFocus'
    BY <1>1 DEF ShownInv, DialogHoldsFocus
  <1>8. RecentsInv'
    BY <1>1 DEF RecentsInv, PagesInv
  <1> QED
    BY <1>4, <1>5, <1>6, <1>7, <1>8 DEF PagesInv

\* The settings page: what is saved is what is shown.
LEMMA SavedIs == ASSUME NEW next \in Settings PROVE Parsed(next) = next /\ next \in [Fields -> {1, 2, 9}]
  <1>1. next # None
    BY AnswersAssumption DEF Settings
  <1>2. \A f \in Fields : next[f] \in Options /\ next[f] \in {1, 2, 9}
    BY DEF Settings, Options
  <1>3. next = [f \in Fields |-> next[f]]
    BY DEF Settings
  <1>4. Parsed(next) = [f \in Fields |-> next[f]]
    BY <1>1, <1>2 DEF Parsed
  <1> QED
    BY <1>2, <1>3, <1>4

LEMMA SaveIs ==
    ASSUME memory \in Memories, NEW next \in {None} \cup [Fields -> {1, 2, 9}], Save(next)
    PROVE  memory' \in Memories /\ memory'.settings = next /\ memory'.recents = memory.recents
  BY DEF Save, Memories

LEMMA SettingsTurns ==
    ASSUME PagesInv, page = "settings", NEW u \in [settings : Settings, draft : {None} \cup 0 .. 2], Turn(u),
           UNCHANGED <<page, side, url, slot, chosen, strayed>>, memory' \in Memories,
           memory'.recents = memory.recents, u.settings = Parsed(memory'.settings)
    PROVE  PagesInv'
  <1>1. page' = page /\ side' = side /\ url' = url /\ slot' = slot /\ chosen' = chosen /\ strayed' = strayed
    OBVIOUS
  <1>2. Controls(page, u)
    BY DEF Controls
  <1>3. ui' = u /\ PageType' /\ PollInv'
    BY <1>1, <1>2, TurnKeeps DEF PagesInv, PageType
  <1>4. ShownInv'
    BY <1>1, <1>3 DEF ShownInv
  <1>5. FlowsInv' /\ DialogHoldsFocus'
    BY <1>1 DEF FlowsInv, DialogHoldsFocus
  <1>6. RecentsInv'
    BY <1>1 DEF RecentsInv, PagesInv
  <1> QED
    BY <1>3, <1>4, <1>5, <1>6 DEF PagesInv

LEMMA SettingsType ==
    ASSUME PagesInv, page = "settings"
    PROVE  /\ ui \in [settings : Settings, draft : {None} \cup 0 .. 2]
           /\ memory \in Memories /\ ui.settings = Parsed(memory.settings)
  BY DEF PagesInv, PageType, Controls, ShownInv

LEMMA SetSettingKeeps == ASSUME PagesInv, SetSetting PROVE PagesInv'
  <1>1. page = "settings" /\ UNCHANGED <<page, side, url, slot, chosen, strayed>>
    BY DEF SetSetting, On
  <1>2. ui \in [settings : Settings, draft : {None} \cup 0 .. 2] /\ memory \in Memories
    BY <1>1, SettingsType
  <1>3. PICK f \in Fields, v \in Options :
           /\ Turn([ui EXCEPT !.settings = [ui.settings EXCEPT ![f] = v]])
           /\ Save([ui.settings EXCEPT ![f] = v])
    BY DEF SetSetting
  <1> DEFINE next == [ui.settings EXCEPT ![f] = v]
  <1>4. next \in Settings
    BY <1>2 DEF Settings
  <1> HIDE DEF next
  <1>5. Turn([ui EXCEPT !.settings = next]) /\ Save(next)
    BY <1>3 DEF next
  <1>6. memory' \in Memories /\ memory'.settings = next /\ memory'.recents = memory.recents /\ Parsed(next) = next
    BY <1>2, <1>4, <1>5, SavedIs, SaveIs
  <1>7. /\ [ui EXCEPT !.settings = next] \in [settings : Settings, draft : {None} \cup 0 .. 2]
        /\ [ui EXCEPT !.settings = next].settings = next
    BY <1>2, <1>4
  <1> QED
    BY <1>1, <1>5, <1>6, <1>7, SettingsTurns

LEMMA TypeNumberKeeps == ASSUME PagesInv, TypeNumber PROVE PagesInv'
  <1>1. page = "settings" /\ UNCHANGED <<page, side, url, slot, chosen, strayed>>
    BY DEF TypeNumber, On
  <1>2. /\ ui \in [settings : Settings, draft : {None} \cup 0 .. 2] /\ memory \in Memories
        /\ ui.settings = Parsed(memory.settings)
    BY <1>1, SettingsType
  <1>3. PICK text \in Options \cup {0} :
           LET next == IF text = 0 THEN ui.settings ELSE [ui.settings EXCEPT !.retrans = text]
           IN Turn([settings |-> next, draft |-> text]) /\ IF text = 0 THEN UNCHANGED memory ELSE Save(next)
    BY DEF TypeNumber
  <1> DEFINE next == IF text = 0 THEN ui.settings ELSE [ui.settings EXCEPT !.retrans = text]
  <1>4. next \in Settings /\ text \in 0 .. 2
    <2>1. ui.settings \in Settings
      BY <1>2
    <2>2. text # 0 => [ui.settings EXCEPT !.retrans = text] \in Settings
      BY <1>3, <2>1 DEF Settings
    <2> QED
      BY <1>3, <2>1, <2>2 DEF Options
  <1>5. text = 0 => next = ui.settings
    OBVIOUS
  <1> HIDE DEF next
  <1>6. Turn([settings |-> next, draft |-> text]) /\ IF text = 0 THEN UNCHANGED memory ELSE Save(next)
    BY <1>3 DEF next
  <1>7. memory' \in Memories /\ next = Parsed(memory'.settings) /\ memory'.recents = memory.recents
    <2>1. CASE text = 0
      BY <1>2, <1>5, <1>6, <2>1
    <2>2. CASE text # 0
      BY <1>2, <1>4, <1>6, <2>2, SavedIs, SaveIs
    <2> QED
      BY <2>1, <2>2
  <1>8. /\ [settings |-> next, draft |-> text] \in [settings : Settings, draft : {None} \cup 0 .. 2]
        /\ [settings |-> next, draft |-> text].settings = next
    BY <1>4
  <1> QED
    BY <1>1, <1>6, <1>7, <1>8, SettingsTurns

LEMMA BlurNumberKeeps == ASSUME PagesInv, BlurNumber PROVE PagesInv'
  <1>1. page = "settings" /\ UNCHANGED <<page, side, url, slot, chosen, strayed>> /\ ui.draft # None
    BY DEF BlurNumber, On
  <1>2. ui \in [settings : Settings, draft : {None} \cup 0 .. 2] /\ memory \in Memories
    BY <1>1, SettingsType
  <1> DEFINE value == IF ui.draft = 0 THEN Defaults.retrans ELSE ui.draft
             next == [ui.settings EXCEPT !.retrans = value]
  <1>3. Turn([settings |-> next, draft |-> None]) /\ Save(next)
    BY DEF BlurNumber
  <1>4. value \in Options
    BY <1>1, <1>2 DEF Options, Defaults, Fields
  <1>5. next \in Settings
    <2> HIDE DEF value
    <2> QED
      BY <1>2, <1>4 DEF Settings
  <1> HIDE DEF next
  <1>6. memory' \in Memories /\ memory'.settings = next /\ memory'.recents = memory.recents /\ Parsed(next) = next
    BY <1>2, <1>3, <1>5, SavedIs, SaveIs
  <1>7. /\ [settings |-> next, draft |-> None] \in [settings : Settings, draft : {None} \cup 0 .. 2]
        /\ [settings |-> next, draft |-> None].settings = next
    BY <1>5
  <1> QED
    BY <1>1, <1>3, <1>6, <1>7, SettingsTurns

LEMMA ResetSettingsKeeps == ASSUME PagesInv, ResetSettings PROVE PagesInv'
  <1>1. /\ page = "settings" /\ UNCHANGED <<page, side, url, slot, chosen, strayed>>
        /\ Turn([settings |-> Defaults, draft |-> None]) /\ Save(None)
    BY DEF ResetSettings, On
  <1>2. memory \in Memories
    BY <1>1, SettingsType
  <1>3. memory' \in Memories /\ memory'.settings = None /\ memory'.recents = memory.recents
    BY <1>1, <1>2, SaveIs
  <1>4. Defaults = Parsed(None) /\ Defaults \in Settings
    BY DEF Defaults, Parsed, Settings, Options
  <1>5. /\ [settings |-> Defaults, draft |-> None] \in [settings : Settings, draft : {None} \cup 0 .. 2]
        /\ [settings |-> Defaults, draft |-> None].settings = Defaults
    BY <1>4
  <1> QED
    BY <1>1, <1>3, <1>4, <1>5, SettingsTurns

\* The pages that write their controls into the address.
LEMMA AddressTurns ==
    ASSUME PagesInv, page \in {"insights", "monitor", "paths"}, page' = page, NEW u, Turn(u), Controls(page, u),
           side' \in {None} \cup Historicals, memory' \in Memories, url' \in Addresses, slot' = slot,
           chosen' \in Seq(Things), strayed' \in BOOLEAN, Newest(chosen', memory'.recents), ui' = u => ShownInv'
    PROVE  PagesInv'
  <1>1. ui' = u /\ PageType' /\ PollInv'
    BY TurnKeeps DEF PagesInv, PageType
  <1>2. ShownInv'
    BY <1>1
  <1>3. FlowsInv' /\ DialogHoldsFocus'
    BY DEF FlowsInv, DialogHoldsFocus
  <1>4. RecentsInv'
    BY DEF RecentsInv
  <1> QED
    BY <1>1, <1>2, <1>3, <1>4 DEF PagesInv

LEMMA LatestType == ASSUME url \in Addresses PROVE Latest \in Query /\ url.now \in Query
  BY DEF Addresses, Latest

LEMMA ReplaceIs ==
    ASSUME url \in Addresses, strayed \in BOOLEAN, NEW query \in Query, NEW wanted, Replace(query, wanted)
    PROVE  /\ url' \in Addresses /\ Latest' = query
           /\ strayed' \in BOOLEAN /\ (~strayed' => ~strayed /\ query = wanted)
  <1>1. url' \in Addresses /\ url'.next = query
    BY DEF Replace, Addresses
  <1>2. Latest' = query
    BY <1>1, AnswersAssumption DEF Latest
  <1> QED
    BY <1>1, <1>2 DEF Replace

\* The address says the filters, whatever is stored.
LEMMA LoadedIs ==
    ASSUME NEW query, NEW raw, NEW filters \in [FilterFields -> Options],
           query.range = filters.range, query.namespace = filters.namespace
    PROVE  Loaded(query, raw) = filters
  <1>1. \A f \in FilterFields : query[f] = filters[f] /\ filters[f] \in Options /\ query[f] # 0
    BY DEF FilterFields, Options
  <1>2. filters = [f \in FilterFields |-> filters[f]]
    OBVIOUS
  <1>3. Loaded(query, raw) = [f \in FilterFields |-> filters[f]]
    BY <1>1 DEF Loaded
  <1> QED
    BY <1>2, <1>3

LEMMA LoadedSame ==
    ASSUME NEW query, NEW other, NEW raw, query.range = other.range, query.namespace = other.namespace
    PROVE  Loaded(query, raw) = Loaded(other, raw)
  <1>1. \A f \in FilterFields : query[f] = other[f]
    BY DEF FilterFields
  <1> QED
    BY <1>1 DEF Loaded

InsightsControls == [filters : [FilterFields -> Options], tab : Options]

\* What the invariant says of the pages that write their address.
LEMMA KeptType ==
    ASSUME PagesInv
    PROVE  /\ side \in {None} \cup Historicals /\ memory \in Memories /\ url \in Addresses /\ slot \in Int
           /\ chosen \in Seq(Things) /\ strayed \in BOOLEAN /\ Newest(chosen, memory.recents)
           /\ page = "insights" => ui \in InsightsControls
           /\ page = "insights" /\ ~strayed => ui.filters = Loaded(Latest, memory.filters) /\ ui.tab = TabOf(Latest)
           /\ page = "monitor" => ui \in [view : Options, flow : {0} \cup Things]
           /\ page = "monitor" /\ ~strayed => ui.view = ViewOf(Latest)
           /\ page = "paths" => ui \in [edge : {0} \cup Things, recents : Seq(Things)]
           /\ page = "paths" /\ ~strayed => ui.edge = Latest.edge
           /\ page = "paths" => ui.recents = memory.recents
  BY DEF PagesInv, PageType, Controls, ShownInv, RecentsInv, InsightsControls

LEMMA SetFilterKeeps == ASSUME PagesInv, SetFilter PROVE PagesInv'
  <1>1. page = "insights" /\ UNCHANGED <<page, side, slot, chosen>>
    BY DEF SetFilter, On
  <1>2. PICK f \in FilterFields, v \in Options :
           LET next == [ui.filters EXCEPT ![f] = v]
               over(query) == [query EXCEPT !.range = next.range, !.namespace = next.namespace]
           IN /\ Turn([ui EXCEPT !.filters = next]) /\ memory' = [memory EXCEPT !.filters = next]
              /\ Replace(over(url.now), over(Latest))
    BY DEF SetFilter
  <1> DEFINE next == [ui.filters EXCEPT ![f] = v]
             over(query) == [query EXCEPT !.range = next.range, !.namespace = next.namespace]
  <1>3. /\ side \in {None} \cup Historicals /\ memory \in Memories /\ url \in Addresses
        /\ chosen \in Seq(Things) /\ strayed \in BOOLEAN /\ Newest(chosen, memory.recents)
        /\ ui \in InsightsControls /\ (~strayed => ui.tab = TabOf(Latest))
    BY <1>1, KeptType
  <1>4. next \in [FilterFields -> Options]
    BY <1>3 DEF InsightsControls
  <1>5. next.range \in Options /\ next.namespace \in Options
    <2> HIDE DEF next
    <2> QED
      BY <1>4 DEF FilterFields
  <1>6. Turn([ui EXCEPT !.filters = next]) /\ memory' = [memory EXCEPT !.filters = next]
        /\ Replace(over(url.now), over(Latest))
    BY <1>2, Zenon
  <1> HIDE DEF next
  <1>7. ASSUME NEW q \in Query
        PROVE  over(q) \in Query /\ over(q).range = next.range /\ over(q).namespace = next.namespace /\ over(q).tab = q.tab
    <2>1. next.range \in {0, 1, 2, 9} /\ next.namespace \in 0 .. 2
      BY <1>5 DEF Options
    <2>2. Texts(next.range, next.namespace)
      BY <2>1 DEF Texts
    <2> DEFINE a == next.range
               b == next.namespace
    <2> HIDE DEF a, b
    <2>3. Texts(a, b)
      BY <2>2 DEF a, b
    <2>4. [q EXCEPT !.range = a, !.namespace = b] \in Query
      BY <1>7, <2>3, OverIs
    <2>5. [q EXCEPT !.range = a, !.namespace = b].range = a
      BY <1>7 DEF Query
    <2>6. [q EXCEPT !.range = a, !.namespace = b].namespace = b
      BY <1>7 DEF Query
    <2>7. [q EXCEPT !.range = a, !.namespace = b].tab = q.tab
      BY <1>7 DEF Query
    <2> QED
      BY <2>4, <2>5, <2>6, <2>7 DEF a, b
  <1> HIDE DEF over
  <1>8. Latest \in Query /\ url.now \in Query
    BY <1>3, LatestType
  <1>9. /\ url' \in Addresses /\ Latest' = over(url.now)
        /\ strayed' \in BOOLEAN /\ (~strayed' => ~strayed /\ over(url.now) = over(Latest))
    BY <1>3, <1>6, <1>7, <1>8, ReplaceIs
  <1>10. memory' \in Memories /\ memory'.recents = memory.recents /\ memory'.filters = next
    BY <1>3, <1>4, <1>6 DEF Memories
  <1>11. /\ [ui EXCEPT !.filters = next] \in InsightsControls
         /\ [ui EXCEPT !.filters = next].filters = next /\ [ui EXCEPT !.filters = next].tab = ui.tab
    BY <1>3, <1>4 DEF InsightsControls
  <1>12. Controls(page, [ui EXCEPT !.filters = next])
    BY <1>1, <1>11 DEF Controls, InsightsControls
  <1>13. ASSUME ui' = [ui EXCEPT !.filters = next] PROVE ShownInv'
    <2>1. Loaded(Latest', memory'.filters) = next
      BY <1>4, <1>7, <1>8, <1>9, LoadedIs
    <2>2. ~strayed' => TabOf(Latest') = ui.tab
      BY <1>3, <1>7, <1>8, <1>9 DEF TabOf
    <2> QED
      BY <1>1, <1>11, <1>13, <2>1, <2>2 DEF ShownInv
  <1> QED
    BY <1>1, <1>3, <1>6, <1>9, <1>10, <1>12, <1>13, AddressTurns

LEMMA SelectTabKeeps == ASSUME PagesInv, SelectTab PROVE PagesInv'
  <1>1. page = "insights" /\ UNCHANGED <<page, side, memory, slot, chosen>>
    BY DEF SelectTab, On
  <1>2. PICK t \in Options :
           /\ Turn([ui EXCEPT !.tab = t])
           /\ Replace([url.now EXCEPT !.tab = t], [Latest EXCEPT !.tab = t])
    BY DEF SelectTab
  <1>3. /\ side \in {None} \cup Historicals /\ memory \in Memories /\ url \in Addresses
        /\ chosen \in Seq(Things) /\ strayed \in BOOLEAN /\ Newest(chosen, memory.recents)
        /\ ui \in InsightsControls /\ (~strayed => ui.filters = Loaded(Latest, memory.filters))
    BY <1>1, KeptType
  <1>4. Latest \in Query /\ url.now \in Query
    BY <1>3, LatestType
  <1>5. ASSUME NEW q \in Query
        PROVE  /\ [q EXCEPT !.tab = t] \in Query /\ [q EXCEPT !.tab = t].tab = t
               /\ [q EXCEPT !.tab = t].range = q.range /\ [q EXCEPT !.tab = t].namespace = q.namespace
    BY DEF Query, Options
  <1>6. /\ url' \in Addresses /\ Latest' = [url.now EXCEPT !.tab = t]
        /\ strayed' \in BOOLEAN /\ (~strayed' => ~strayed /\ [url.now EXCEPT !.tab = t] = [Latest EXCEPT !.tab = t])
    BY <1>2, <1>3, <1>4, <1>5, ReplaceIs
  <1>7. /\ [ui EXCEPT !.tab = t] \in InsightsControls
        /\ [ui EXCEPT !.tab = t].filters = ui.filters /\ [ui EXCEPT !.tab = t].tab = t
    BY <1>3 DEF InsightsControls
  <1>8. Controls(page, [ui EXCEPT !.tab = t])
    BY <1>1, <1>7 DEF Controls, InsightsControls
  <1>9. ASSUME ui' = [ui EXCEPT !.tab = t] PROVE ShownInv'
    <2>1. TabOf(Latest') = t
      BY <1>4, <1>5, <1>6 DEF TabOf
    <2>2. ~strayed' => Loaded(Latest', memory.filters) = ui.filters
      <3>1. SUFFICES ASSUME ~strayed' PROVE Loaded(Latest', memory.filters) = ui.filters
        OBVIOUS
      <3>2. ~strayed /\ Latest' = [Latest EXCEPT !.tab = t]
        BY <1>6, <3>1
      <3>3. Latest'.range = Latest.range /\ Latest'.namespace = Latest.namespace
        BY <1>4, <1>5, <3>2
      <3> QED
        <4>1. Loaded(Latest', memory.filters) = Loaded(Latest, memory.filters)
          BY <3>3, LoadedSame
        <4> QED
          BY <1>3, <3>2, <4>1
    <2> QED
      BY <1>1, <1>7, <1>9, <2>1, <2>2 DEF ShownInv
  <1> QED
    BY <1>1, <1>2, <1>3, <1>6, <1>8, <1>9, AddressTurns

LEMMA SelectViewKeeps == ASSUME PagesInv, SelectView PROVE PagesInv'
  <1>1. page = "monitor" /\ UNCHANGED <<page, memory, slot, chosen>>
    BY DEF SelectView, On
  <1>2. PICK v \in Options \ {ui.view} :
           /\ Turn([view |-> v, flow |-> 0]) /\ side' = None
           /\ Replace([url.now EXCEPT !.view = v], [Latest EXCEPT !.view = v])
    BY DEF SelectView
  <1>3. memory \in Memories /\ url \in Addresses /\ chosen \in Seq(Things) /\ strayed \in BOOLEAN
        /\ Newest(chosen, memory.recents)
    BY KeptType
  <1>4. url.now \in Query
    BY <1>3, LatestType
  <1>5. [url.now EXCEPT !.view = v] \in Query /\ [url.now EXCEPT !.view = v].view = v
    BY <1>4 DEF Query, Options
  <1>6. url' \in Addresses /\ Latest' = [url.now EXCEPT !.view = v] /\ strayed' \in BOOLEAN
    BY <1>2, <1>3, <1>5, ReplaceIs
  <1>7. Controls(page, [view |-> v, flow |-> 0])
    BY <1>1 DEF Controls
  <1>8. ViewOf(Latest') = v
    BY <1>5, <1>6 DEF ViewOf, Options
  <1>9. ASSUME ui' = [view |-> v, flow |-> 0] PROVE ShownInv'
    BY <1>1, <1>8, <1>9 DEF ShownInv
  <1> QED
    BY <1>1, <1>2, <1>3, <1>6, <1>7, <1>9, AddressTurns

LEMMA HistoricalKeeps == ASSUME PagesInv, Historical PROVE PagesInv'
  <1>1. page = "monitor" /\ page' = page /\ UNCHANGED Kept
    BY DEF Historical, On
  <1>2. memory' = memory /\ url' = url /\ slot' = slot /\ chosen' = chosen /\ strayed' = strayed
    BY <1>1 DEF Kept
  <1>3. /\ side \in {None} \cup Historicals /\ memory \in Memories /\ url \in Addresses
        /\ chosen \in Seq(Things) /\ strayed \in BOOLEAN /\ Newest(chosen, memory.recents)
        /\ ui \in [view : Options, flow : {0} \cup Things] /\ (~strayed => ui.view = ViewOf(Latest))
    BY <1>1, KeptType
  <1>4. CASE \E body \in SUBSET Things : side' = [body |-> body] /\ UNCHANGED <<ui, poll>>
    <2>1. side' \in Historicals /\ ui' = ui /\ poll' = poll
      BY <1>4 DEF Historicals
    <2>2. PageType'
      BY <1>1, <1>2, <2>1 DEF PagesInv, PageType
    <2>3. PollInv'
      BY <1>1, <2>1 DEF PagesInv, PollInv
    <2>4. FlowsInv' /\ DialogHoldsFocus'
      BY <1>1 DEF FlowsInv, DialogHoldsFocus
    <2>5. Latest' = Latest
      BY <1>2 DEF Latest
    <2>6. ShownInv'
      BY <1>1, <1>2, <1>3, <2>1, <2>5 DEF ShownInv
    <2>7. RecentsInv'
      BY <1>2, <1>3 DEF RecentsInv
    <2> QED
      BY <2>2, <2>3, <2>4, <2>6, <2>7 DEF PagesInv
  <1>5. CASE side # None /\ PickField("flow", {0} \cup side.body) /\ UNCHANGED side
    <2>1. PICK v \in {0} \cup side.body : Turn([ui EXCEPT !["flow"] = v])
      BY <1>5 DEF PickField
    <2>2. v \in {0} \cup Things
      BY <1>3, <1>5 DEF Historicals
    <2>3. /\ [ui EXCEPT !["flow"] = v] \in [view : Options, flow : {0} \cup Things]
          /\ [ui EXCEPT !["flow"] = v].view = ui.view
      BY <1>3, <2>2
    <2>4. Controls(page, [ui EXCEPT !["flow"] = v])
      BY <1>1, <2>3 DEF Controls
    <2>5. Latest' = Latest
      BY <1>2 DEF Latest
    <2>6. ASSUME ui' = [ui EXCEPT !["flow"] = v] PROVE ShownInv'
      BY <1>1, <1>2, <1>3, <2>3, <2>5, <2>6 DEF ShownInv
    <2> QED
      BY <1>1, <1>2, <1>3, <1>5, <2>1, <2>4, <2>6, AddressTurns
  <1> QED
    BY <1>4, <1>5 DEF Historical

LEMMA SelectEdgeKeeps == ASSUME PagesInv, SelectEdge PROVE PagesInv'
  <1>1. page = "paths" /\ UNCHANGED <<page, side, slot>>
    BY DEF SelectEdge, On
  <1>2. PICK edge \in {0} \cup Things :
           LET recents == IF edge = 0 THEN ui.recents ELSE Pushed(ui.recents, edge)
               query == [Bare EXCEPT !.edge = edge]
           IN /\ Turn([edge |-> edge, recents |-> recents])
              /\ memory' = [memory EXCEPT !.recents = recents]
              /\ Replace(query, query)
              /\ chosen' = IF edge = 0 THEN chosen ELSE Append(chosen, edge)
    BY DEF SelectEdge
  <1> DEFINE recents == IF edge = 0 THEN ui.recents ELSE Pushed(ui.recents, edge)
             query == [Bare EXCEPT !.edge = edge]
  <1>3. /\ side \in {None} \cup Historicals /\ memory \in Memories /\ url \in Addresses
        /\ chosen \in Seq(Things) /\ strayed \in BOOLEAN /\ Newest(chosen, memory.recents)
        /\ ui \in [edge : {0} \cup Things, recents : Seq(Things)] /\ ui.recents = memory.recents
    BY <1>1, KeptType
  <1>4. chosen' \in Seq(Things) /\ recents \in Seq(Things) /\ Newest(chosen', recents)
    <2>1. CASE edge = 0
      BY <1>2, <1>3, <2>1
    <2>2. CASE edge # 0
      <3>1. edge \in Things /\ chosen' = Append(chosen, edge) /\ recents = Pushed(memory.recents, edge)
        BY <1>2, <1>3, <2>2
      <3>2. memory.recents \in Seq(Things)
        BY <1>3
      <3> QED
        BY <1>3, <3>1, <3>2, PushedIsNewest
    <2> QED
      BY <2>1, <2>2
  <1>5. query \in Query /\ query.edge = edge
    BY DEF Query, Bare
  <1> HIDE DEF recents, query
  <1>6. /\ Turn([edge |-> edge, recents |-> recents]) /\ memory' = [memory EXCEPT !.recents = recents]
        /\ Replace(query, query)
    BY <1>2 DEF recents, query
  <1>7. url' \in Addresses /\ Latest' = query /\ strayed' \in BOOLEAN
    BY <1>3, <1>5, <1>6, ReplaceIs
  <1>8. memory' \in Memories /\ memory'.recents = recents
    BY <1>3, <1>4, <1>6 DEF Memories
  <1>9. Controls(page, [edge |-> edge, recents |-> recents])
    BY <1>1, <1>4 DEF Controls
  <1>10. ASSUME ui' = [edge |-> edge, recents |-> recents] PROVE ShownInv'
    BY <1>1, <1>5, <1>7, <1>8, <1>10 DEF ShownInv
  <1> QED
    BY <1>1, <1>3, <1>4, <1>6, <1>7, <1>8, <1>9, <1>10, AddressTurns

PathsControls == [edge : {0} \cup Things, recents : Seq(Things)]

\* A new query of the address leaves the controls alone, but for the edge of a path.
LEMMA ArrivedIs ==
    ASSUME PagesInv, NEW query \in Query
    PROVE  /\ Controls(page, Arrived(query))
           /\ page # "paths" => Arrived(query) = ui
           /\ page = "paths" => /\ Arrived(query).edge = IF query.edge # 0 THEN query.edge ELSE ui.edge
                                /\ Arrived(query).recents = ui.recents
  <1>1. CASE page # "paths" \/ query.edge = 0
    BY <1>1 DEF Arrived, PagesInv, PageType
  <1>2. CASE page = "paths" /\ query.edge # 0
    <2>1. ui \in PathsControls
      BY <1>2, KeptType DEF PathsControls
    <2>2. query.edge \in Things
      BY <1>2 DEF Query
    <2>3. /\ [ui EXCEPT !.edge = query.edge] \in PathsControls
          /\ [ui EXCEPT !.edge = query.edge].edge = query.edge
          /\ [ui EXCEPT !.edge = query.edge].recents = ui.recents
      BY <2>1, <2>2 DEF PathsControls
    <2>4. Arrived(query) = [ui EXCEPT !.edge = query.edge]
      BY <1>2 DEF Arrived
    <2> QED
      BY <1>2, <2>3, <2>4 DEF Controls, PathsControls
  <1> QED
    BY <1>1, <1>2

LEMMA CommitKeeps == ASSUME PagesInv, Commit PROVE PagesInv'
  <1>1. /\ url.next # None /\ Turn(Arrived(url.next)) /\ url' = [now |-> url.next, next |-> None]
        /\ UNCHANGED <<page, side, memory, slot, chosen, strayed>>
    BY DEF Commit
  <1>2. /\ side \in {None} \cup Historicals /\ memory \in Memories /\ url \in Addresses /\ slot \in Int
        /\ chosen \in Seq(Things) /\ strayed \in BOOLEAN
    BY KeptType
  <1>3. url.next \in Query /\ url' \in Addresses
    BY <1>1, <1>2 DEF Addresses
  <1>4. Latest' = url.next /\ Latest = url.next
    BY <1>1 DEF Latest
  <1> DEFINE u == Arrived(url.next)
  <1>5. /\ Controls(page, u)
        /\ page # "paths" => u = ui
        /\ page = "paths" => /\ u.edge = IF url.next.edge # 0 THEN url.next.edge ELSE ui.edge
                             /\ u.recents = ui.recents
    BY <1>3, ArrivedIs
  <1> HIDE DEF u
  <1>6. Turn(u)
    BY <1>1 DEF u
  <1>7. ui' = u /\ PageType' /\ PollInv'
    BY <1>1, <1>2, <1>3, <1>5, <1>6, TurnKeeps
  <1>8. FlowsInv' /\ DialogHoldsFocus'
    BY <1>1, <1>5, <1>7 DEF PagesInv, FlowsInv, DialogHoldsFocus
  <1>9. ShownInv'
    <2>1. ShownInv
      BY DEF PagesInv
    <2>2. CASE page = "paths"
      BY <1>1, <1>4, <1>5, <1>7, <2>1, <2>2 DEF ShownInv
    <2>3. CASE page # "paths"
      BY <1>1, <1>4, <1>5, <1>7, <2>1, <2>3 DEF ShownInv
    <2> QED
      BY <2>2, <2>3
  <1>10. RecentsInv'
    BY <1>1 DEF PagesInv, RecentsInv
  <1> QED
    BY <1>7, <1>8, <1>9, <1>10 DEF PagesInv

LEMMA FollowLinkKeeps == ASSUME PagesInv, FollowLink PROVE PagesInv'
  <1>1. page \in {"insights", "paths"} /\ strayed' = TRUE /\ UNCHANGED <<page, side, memory, slot, chosen>>
    BY DEF FollowLink
  <1>2. PICK query \in Queries(page) : Turn(Arrived(query)) /\ url' = [now |-> query, next |-> None]
    BY DEF FollowLink
  <1>3. /\ side \in {None} \cup Historicals /\ memory \in Memories /\ chosen \in Seq(Things)
        /\ Newest(chosen, memory.recents) /\ (page = "paths" => ui.recents = memory.recents)
    BY KeptType
  <1>4. query \in Query
    BY QueriesType
  <1>5. url' \in Addresses /\ strayed' \in BOOLEAN
    BY <1>1, <1>2, <1>4 DEF Addresses
  <1> DEFINE u == Arrived(query)
  <1>6. Controls(page, u) /\ (page = "paths" => u.recents = ui.recents)
    BY <1>4, ArrivedIs
  <1> HIDE DEF u
  <1>7. Turn(u)
    BY <1>2 DEF u
  <1>8. ASSUME ui' = u PROVE ShownInv'
    BY <1>1, <1>3, <1>6, <1>8 DEF ShownInv
  <1> QED
    BY <1>1, <1>3, <1>5, <1>6, <1>7, <1>8, AddressTurns

\* The chat.
LEMMA ChatTurns ==
    ASSUME PagesInv, page = "chat", NEW open \in {"none", "drawer", "iframe"}, NEW focus,
           focus \in Inside(open) \/ (open = "iframe" /\ focus = "page"),
           Turn([open |-> open, focus |-> focus]), UNCHANGED <<page, side, Kept>>
    PROVE  PagesInv'
  <1> DEFINE u == [open |-> open, focus |-> focus]
  <1>1. /\ page' = page /\ side' = side /\ memory' = memory /\ url' = url /\ slot' = slot /\ chosen' = chosen
        /\ strayed' = strayed
    BY DEF Kept
  <1>2. focus \in Foci
    <2>1. open # "none" => Inside(open) \subseteq Foci
      <3>1. CASE open = "drawer"
        BY <3>1 DEF Inside, Foci, ToSet, Stops
      <3>2. CASE open = "iframe"
        BY <3>2 DEF Inside, Foci, ToSet, Stops
      <3> QED
        BY <3>1, <3>2
    <2>2. Inside("none") \subseteq Foci
      BY DEF Inside, Foci
    <2> QED
      BY <2>1, <2>2 DEF Foci
  <1>3. Controls(page, u)
    BY <1>2 DEF Controls
  <1>4. u.open = open /\ u.focus = focus
    OBVIOUS
  <1> HIDE DEF u
  <1>5. Turn(u)
    BY DEF u
  <1>6. ui' = u /\ PageType' /\ PollInv'
    BY <1>1, <1>3, <1>5, TurnKeeps DEF PagesInv, PageType
  <1>7. DialogHoldsFocus'
    BY <1>4, <1>6 DEF DialogHoldsFocus
  <1>8. FlowsInv' /\ ShownInv'
    BY <1>1 DEF FlowsInv, ShownInv
  <1>9. RecentsInv'
    BY <1>1 DEF RecentsInv, PagesInv
  <1> QED
    BY <1>6, <1>7, <1>8, <1>9 DEF PagesInv

LEMMA InsideIs ==
    /\ Inside("none") = {"fab", "page"}
    /\ Inside("drawer") = {"box", "first", "middle", "last"}
    /\ Inside("iframe") = {"box", "first", "last"}
  <1>1. Stops("drawer") = <<"box", "first", "middle", "last">> /\ Stops("iframe") = <<"box", "first", "last">>
    BY DEF Stops
  <1>2. ToSet(<<"box", "first", "middle", "last">>) = {"box", "first", "middle", "last"}
    BY DEF ToSet
  <1>3. ToSet(<<"box", "first", "last">>) = {"box", "first", "last"}
    BY DEF ToSet
  <1> QED
    BY <1>1, <1>2, <1>3 DEF Inside

LEMMA OpenChatKeeps == ASSUME PagesInv, OpenChat PROVE PagesInv'
  <1>1. page = "chat" /\ UNCHANGED <<page, side, Kept>>
    BY DEF OpenChat, On
  <1>2. PICK open \in {"none", "drawer", "iframe"} : Shown(open)
    BY DEF OpenChat
  <1> DEFINE focus == IF open = "none" THEN "fab" ELSE "box"
  <1>3. focus \in Inside(open)
    BY InsideIs
  <1>4. Turn([open |-> open, focus |-> focus])
    BY <1>2 DEF Shown
  <1> HIDE DEF focus
  <1> QED
    BY <1>1, <1>3, <1>4, ChatTurns

\* Wherever a key of Tab leads, it is in the dialog, or out of the iframe.
LEMMA StopIsInside ==
    ASSUME ui.open \in {"drawer", "iframe"}, ui.focus \in Inside(ui.open) \/ (ui.open = "iframe" /\ ui.focus = "page"),
           NEW back \in BOOLEAN,
           NEW stop \in IF Hears /\ Trapped(back) # {} THEN Trapped(back)
                        ELSE IF ui.focus = "page" THEN {"page"} ELSE Natural(back)
    PROVE  stop \in Inside(ui.open) \/ (ui.open = "iframe" /\ stop = "page")
  <1>1. CASE Hears /\ Trapped(back) # {}
    <2>1. stop \in {"first", "last"}
      BY <1>1 DEF Trapped
    <2> QED
      BY <2>1, InsideIs
  <1>2. CASE ~(Hears /\ Trapped(back) # {}) /\ ui.focus = "page"
    <2>1. stop = "page"
      BY <1>2
    <2>2. ui.open = "iframe"
      BY <1>2, InsideIs
    <2> QED
      BY <2>1, <2>2
  <1>3. CASE ~(Hears /\ Trapped(back) # {}) /\ ui.focus # "page"
    <2>1. stop \in Natural(back) /\ ui.focus \in Inside(ui.open)
      BY <1>3
    <2>2. CASE ui.open = "iframe"
      BY <2>1, <2>2, InsideIs DEF Natural, Stops
    <2>3. CASE ui.open = "drawer"
      <3> DEFINE order == <<"box", "first", "middle", "last">>
                 here == CHOOSE i \in DOMAIN order : order[i] = ui.focus
      <3>1. Hears
        BY <2>3 DEF Hears
      <3>2. Trapped(back) = {}
        BY <1>3, <3>1
      <3>3. Inside(ui.open) = {"box", "first", "middle", "last"} /\ Stops(ui.open) = order
        BY <2>3, InsideIs DEF Stops
      <3>4. back => ui.focus \in {"middle", "last"}
        BY <2>1, <3>2, <3>3 DEF Trapped
      <3>5. ~back => ui.focus \in {"box", "first", "middle"}
        BY <2>1, <3>2, <3>3 DEF Trapped
      <3>6. DOMAIN order = 1 .. 4 /\ order[1] = "box" /\ order[2] = "first" /\ order[3] = "middle" /\ order[4] = "last"
        OBVIOUS
      <3>7. here \in 1 .. 4 /\ order[here] = ui.focus
        BY <2>1, <3>3, <3>6
      <3> DEFINE next == IF back THEN here - 1 ELSE here + 1
      <3> HIDE DEF order, here
      <3>8. next \in 1 .. 4
        BY <3>4, <3>5, <3>6, <3>7
      <3>9. \A i \in 1 .. 4 : order[i] \in {"box", "first", "middle", "last"}
        BY <3>6
      <3>10. Natural(back) = {order[next]} \cup ({ui.focus} \cap {"middle", "last"})
        BY <3>3, <3>6, <3>8 DEF Natural, here
      <3> QED
        BY <2>1, <3>3, <3>8, <3>9, <3>10
    <2> QED
      BY <2>2, <2>3
  <1> QED
    BY <1>1, <1>2, <1>3

LEMMA TabKeeps == ASSUME PagesInv, Tab PROVE PagesInv'
  <1>1. page = "chat" /\ UNCHANGED <<page, side, Kept>> /\ ui.open # "none"
    BY DEF Tab, On
  <1>2. PICK back \in BOOLEAN :
           \E stop \in IF Hears /\ Trapped(back) # {} THEN Trapped(back)
                       ELSE IF ui.focus = "page" THEN {"page"} ELSE Natural(back) :
              Turn([ui EXCEPT !.focus = stop])
    BY DEF Tab
  <1>3. PICK stop \in IF Hears /\ Trapped(back) # {} THEN Trapped(back)
                       ELSE IF ui.focus = "page" THEN {"page"} ELSE Natural(back) :
           Turn([ui EXCEPT !.focus = stop])
    BY <1>2
  <1>4. ui \in [open : {"none", "drawer", "iframe"}, focus : Foci]
    BY <1>1 DEF PagesInv, PageType, Controls
  <1>5. ui.focus \in Inside(ui.open) \/ (ui.open = "iframe" /\ ui.focus = "page")
    BY <1>1 DEF PagesInv, DialogHoldsFocus
  <1>6. stop \in Inside(ui.open) \/ (ui.open = "iframe" /\ stop = "page")
    BY <1>1, <1>4, <1>5, StopIsInside
  <1>7. [ui EXCEPT !.focus = stop] = [open |-> ui.open, focus |-> stop]
    BY <1>4
  <1> QED
    BY <1>1, <1>3, <1>4, <1>6, <1>7, ChatTurns

\* Every answer names what the pages know of.
LEMMA BodiesType ==
    ASSUME PagesInv
    PROVE  Bodies \subseteq SUBSET Named
  <1>1. {{}, {1}, {2}, Things} \subseteq SUBSET Named
    BY DEF Named
  <1>2. CASE page = "flows" /\ poll.ask = Asked(page, ui) /\ "bucket" \in DOMAIN poll.ask /\ poll.ask.monitor # 0
    <2>1. poll.ask = FlowsAsk(ui) /\ ui \in FlowsControls
      BY <1>2, AskedIs, FlowsType
    <2>2. poll.ask = [bucket |-> Followed(ui), monitor |-> ui.monitor]
      BY <1>2, <2>1 DEF FlowsAsk
    <2>3. poll.ask.monitor = ui.monitor /\ ui.monitor \in {0} \cup Named
      BY <2>1, <2>2 DEF FlowsControls
    <2>4. poll.ask.monitor \in Named
      BY <1>2, <2>3
    <2>5. Bodies = {{}, {poll.ask.monitor}}
      BY <1>2, Zenon DEF Bodies
    <2> QED
      BY <2>4, <2>5
  <1> QED
    BY <1>1, <1>2 DEF Bodies

LEMMA ReplyKeeps == ASSUME PagesInv, Reply PROVE PagesInv'
  <1>1. poll.ask # None /\ UNCHANGED <<page, side, Kept>>
    BY DEF Reply
  <1>2. PICK body \in Bodies :
           /\ poll' = [ask |-> poll.ask, data |-> [ask |-> poll.ask, body |-> body], error |-> FALSE, loading |-> FALSE]
           /\ ui' = IF page = "flows" THEN [ui EXCEPT !.monitors = ui.monitors \cup body] ELSE ui
    BY DEF Reply
  <1>3. /\ page' = page /\ side' = side /\ memory' = memory /\ url' = url /\ slot' = slot /\ chosen' = chosen
        /\ strayed' = strayed
    BY <1>1 DEF Kept
  <1>4. body \in SUBSET Named
    BY BodiesType
  <1>5. poll.ask \in Asks /\ poll.ask = Asked(page, ui)
    BY <1>1 DEF PagesInv, PollInv
  <1>6. [ask |-> poll.ask, body |-> body] \in Told /\ [ask |-> poll.ask, body |-> body] # None
    <2>1. [ask |-> poll.ask, body |-> body] \in Told
      BY <1>4, <1>5 DEF Told
    <2> QED
      BY <2>1, AnswersAssumption
  <1>7. page = "flows" =>
           /\ ui' \in FlowsControls /\ ui'.buckets = ui.buckets /\ ui'.bucket = ui.bucket
           /\ ui'.monitor = ui.monitor /\ ui'.monitors = ui.monitors \cup body /\ ui'.applied = ui.applied
    <2> SUFFICES ASSUME page = "flows"
                 PROVE  /\ ui' \in FlowsControls /\ ui'.buckets = ui.buckets /\ ui'.bucket = ui.bucket
                        /\ ui'.monitor = ui.monitor /\ ui'.monitors = ui.monitors \cup body /\ ui'.applied = ui.applied
      OBVIOUS
    <2>1. ui \in FlowsControls /\ ui' = [ui EXCEPT !.monitors = ui.monitors \cup body]
      BY <1>2, FlowsType
    <2>2. ui.monitors \cup body \in SUBSET Named
      BY <1>4, <2>1 DEF FlowsControls
    <2> QED
      BY <2>1, <2>2 DEF FlowsControls
  <1>8. page # "flows" => ui' = ui
    BY <1>2
  <1>9. Asked(page, ui)' = Asked(page, ui)
    <2>1. CASE page = "flows"
      <3>1. FlowsAsk(ui') = FlowsAsk(ui)
        BY <1>7, <2>1 DEF FlowsAsk, Followed
      <3>2. Asked(page, ui) = FlowsAsk(ui) /\ Asked(page, ui') = FlowsAsk(ui')
        BY <2>1, AskedIs
      <3> QED
        BY <1>3, <3>1, <3>2
    <2>2. CASE page # "flows"
      BY <1>3, <1>8, <2>2
    <2> QED
      BY <2>1, <2>2
  <1>10. PollInv'
    <2> DEFINE told == [ask |-> poll.ask, body |-> body]
    <2>1. told.ask = poll.ask
      OBVIOUS
    <2>2. poll' = [ask |-> poll.ask, data |-> told, error |-> FALSE, loading |-> FALSE] /\ told \in Told /\ told # None
      BY <1>2, <1>6
    <2> HIDE DEF told
    <2> QED
      BY <1>5, <1>9, <2>1, <2>2 DEF PollInv
  <1>11. PageType'
    <2>1. CASE page = "flows"
      <3>1. Controls(page, ui')
        BY <1>7, <2>1 DEF Controls, FlowsControls
      <3> QED
        BY <1>3, <3>1 DEF PagesInv, PageType
    <2>2. CASE page # "flows"
      BY <1>3, <1>8, <2>2 DEF PagesInv, PageType
    <2> QED
      BY <2>1, <2>2
  <1>12. FlowsInv'
    <2> SUFFICES ASSUME page = "flows" PROVE FlowsInv'
      BY <1>3 DEF FlowsInv
    <2>1. ui.buckets[2] < slot /\ (ui.monitor # 0 => ui.monitor \in ui.monitors)
      BY FlowsType
    <2> QED
      BY <1>3, <1>7, <2>1 DEF FlowsInv
  <1>13. ShownInv' /\ DialogHoldsFocus'
    <2>1. ShownInv /\ DialogHoldsFocus
      BY DEF PagesInv
    <2>2. CASE page = "flows"
      BY <1>3, <2>2 DEF ShownInv, DialogHoldsFocus
    <2>3. CASE page # "flows"
      <3>1. Latest' = Latest
        BY <1>3 DEF Latest
      <3> QED
        BY <1>3, <1>8, <2>1, <2>3, <3>1 DEF ShownInv, DialogHoldsFocus
    <2> QED
      BY <2>2, <2>3
  <1>14. RecentsInv'
    BY <1>3 DEF RecentsInv, PagesInv
  <1> QED
    BY <1>10, <1>11, <1>12, <1>13, <1>14 DEF PagesInv

\* Nothing but the request changes.
LEMMA PollChanges ==
    ASSUME PagesInv, UNCHANGED <<page, ui, side, Kept>>, PollInv'
    PROVE  PagesInv'
  <1>1. /\ page' = page /\ ui' = ui /\ side' = side /\ memory' = memory /\ url' = url /\ slot' = slot
        /\ chosen' = chosen /\ strayed' = strayed
    BY DEF Kept
  <1>2. Latest' = Latest
    BY <1>1 DEF Latest
  <1>3. PageType' /\ FlowsInv' /\ RecentsInv' /\ DialogHoldsFocus'
    BY <1>1 DEF PagesInv, PageType, FlowsInv, RecentsInv, DialogHoldsFocus
  <1>4. ShownInv'
    BY <1>1, <1>2 DEF PagesInv, ShownInv
  <1> QED
    BY <1>3, <1>4 DEF PagesInv

LEMMA FailKeeps == ASSUME PagesInv, Fail PROVE PagesInv'
  <1>1. /\ poll.ask # None /\ poll' = [ask |-> poll.ask, data |-> poll.data, error |-> TRUE, loading |-> FALSE]
        /\ UNCHANGED <<page, ui, side, visits, Kept>>
    BY DEF Fail
  <1>2. PollInv'
    <2>1. Asked(page, ui)' = Asked(page, ui)
      BY <1>1
    <2> QED
      BY <1>1, <2>1 DEF PagesInv, PollInv
  <1> QED
    BY <1>1, <1>2, PollChanges

\* The invariant holds at the start, and every step keeps it.
LEMMA PagesInitInv == PagesInit => PagesInv
  <1> SUFFICES ASSUME PagesInit PROVE PagesInv
    OBVIOUS
  <1>1. /\ page = "topology" /\ poll = Blank(None) /\ side = None /\ url = [now |-> Bare, next |-> None]
        /\ slot = NBuckets /\ chosen = <<>> /\ strayed = FALSE /\ memory.recents = <<>>
    BY DEF PagesInit, Fresh
  <1>2. memory \in Memories
    <2>1. Fresh \in Memories
      BY DEF Fresh, Memories
    <2>2. [settings |-> [Defaults EXCEPT !.range = 9, !.monitor = 2],
           filters |-> [range |-> 2, namespace |-> 1], recents |-> <<>>] \in Memories
      <3>1. [Defaults EXCEPT !.range = 9, !.monitor = 2] \in [Fields -> {1, 2, 9}]
        <4>1. Defaults \in [Fields -> {1, 2, 9}]
          BY DEF Defaults
        <4>2. [Defaults EXCEPT !.range = 9, !.monitor = 2] = [[Defaults EXCEPT !.range = 9] EXCEPT !.monitor = 2]
          BY <4>1, Zenon
        <4>3. [Defaults EXCEPT !.range = 9] \in [Fields -> {1, 2, 9}]
          BY <4>1
        <4>4. [[Defaults EXCEPT !.range = 9] EXCEPT !.monitor = 2] \in [Fields -> {1, 2, 9}]
          BY <4>3
        <4> QED
          BY <4>2, <4>4, Zenon
      <3>2. [range |-> 2, namespace |-> 1] \in [FilterFields -> Options]
        BY DEF FilterFields, Options
      <3> QED
        BY <3>1, <3>2 DEF Memories
    <2> QED
      BY <2>1, <2>2 DEF PagesInit
  <1>3. url \in Addresses
    BY <1>1, Bare \in Query DEF Addresses, Bare, Query
  <1>4. PageType
    <2>1. Controls(page, ui)
      BY <1>1 DEF Controls
    <2>2. slot \in Int /\ chosen \in Seq(Things)
      BY <1>1, SizesAssumption
    <2> QED
      BY <1>1, <1>2, <1>3, <2>1, <2>2 DEF PageType
  <1>5. PollInv
    <2>1. Asked(page, ui) = None
      BY <1>1, AskedIs DEF Silent
    <2> QED
      BY <1>1, <2>1 DEF PollInv, Blank
  <1>6. FlowsInv /\ ShownInv /\ DialogHoldsFocus
    BY <1>1 DEF FlowsInv, ShownInv, DialogHoldsFocus
  <1>7. RecentsInv
    <2>1. ToSet(<<>>) = {}
      BY DEF ToSet
    <2> QED
      BY <1>1, <2>1 DEF RecentsInv, Newest
  <1> QED
    BY <1>4, <1>5, <1>6, <1>7 DEF PagesInv

LEMMA PagesStepInv == PagesInv /\ [PagesStep]_pageVars => PagesInv'
  <1> SUFFICES ASSUME PagesInv, [PagesStep]_pageVars PROVE PagesInv'
    OBVIOUS
  <1>1. CASE PagesStep
    BY <1>1, OpenKeeps, ReloadKeeps, CommitKeeps, FollowLinkKeeps, PickCostKeeps, PickNetworkKeeps, PickCategoryKeeps, PickAnomalyKeeps, PickFlowsKeeps, RefreshBucketsKeeps, SlotPassesKeeps, SetSettingKeeps, TypeNumberKeeps, BlurNumberKeeps, ResetSettingsKeeps, SetFilterKeeps, SelectTabKeeps, SelectViewKeeps, SelectEdgeKeeps, HistoricalKeeps, TypeKeeps, DebounceKeeps, OpenChatKeeps, TabKeeps, ReplyKeeps, FailKeeps
       DEF PagesStep
  <1>2. CASE UNCHANGED pageVars
    <2>1. poll' = poll /\ UNCHANGED <<page, ui, side, Kept>>
      BY <1>2 DEF pageVars, Kept
    <2>2. PollInv'
      BY <2>1 DEF PagesInv, PollInv
    <2> QED
      BY <2>1, <2>2, PollChanges
  <1> QED
    BY <1>1, <1>2
-----------------------------------------------------------------------------
(* What the invariant says of the panels, of a second visit and of the      *)
(* recent paths.                                                            *)

LEMMA PanelsAre ==
    /\ page = "overview" => Panels = OverviewPanels
    /\ page = "agents" => Panels = AgentsPanels
    /\ page = "alerts" => Panels = AlertsPanels
    /\ page = "anomalies" => Panels = AnomaliesPanels
    /\ page = "cost" => Panels = CostPanels
    /\ page = "insights" => Panels = InsightsPanels
    /\ page = "monitors" => Panels = MonitorsPanels
    /\ page = "monitor" => Panels = MonitorPanels
    /\ page = "network" => Panels = NetworkPanels
    /\ page = "workload" => Panels = WorkloadPanels
    /\ page = "search" => Panels = SearchPanels
    /\ page = "paths" => Panels = PathsPanels
    /\ page = "flows" => Panels = FlowsPanels
  <1>1. page = "overview" => Panels = OverviewPanels
    BY Zenon DEF Panels
  <1>2. page = "agents" => Panels = AgentsPanels
    BY Zenon DEF Panels
  <1>3. page = "alerts" => Panels = AlertsPanels
    BY Zenon DEF Panels
  <1>4. page = "anomalies" => Panels = AnomaliesPanels
    BY Zenon DEF Panels
  <1>5. page = "cost" => Panels = CostPanels
    BY Zenon DEF Panels
  <1>6. page = "insights" => Panels = InsightsPanels
    BY Zenon DEF Panels
  <1>7. page = "monitors" => Panels = MonitorsPanels
    BY Zenon DEF Panels
  <1>8. page = "monitor" => Panels = MonitorPanels
    BY Zenon DEF Panels
  <1>9. page = "network" => Panels = NetworkPanels
    BY Zenon DEF Panels
  <1>10. page = "workload" => Panels = WorkloadPanels
    BY Zenon DEF Panels
  <1>11. page = "search" => Panels = SearchPanels
    BY Zenon DEF Panels
  <1>12. page = "paths" => Panels = PathsPanels
    BY Zenon DEF Panels
  <1>13. page = "flows" => Panels = FlowsPanels
    BY Zenon DEF Panels
  <1> QED
    BY <1>1, <1>2, <1>3, <1>4, <1>5, <1>6, <1>7, <1>8, <1>9, <1>10, <1>11, <1>12, <1>13

Says(panels) == \E panel \in DOMAIN panels : panels[panel] \in {"loading", "error"}

\* A page whose request has no answer yet says so.
LEMMA WaitingIsSaid ==
    ASSUME PagesInv, poll.ask # None, (IF page = "monitor" /\ ui.view = 2 THEN side ELSE poll.data) = None
    PROVE  Says(Panels)
  <1>1. page \notin Silent
    BY AskedIs DEF PagesInv, PollInv
  <1>2. /\ page \in Pages \cup {"topology"}
        /\ page = "monitor" => ui \in [view : Options, flow : {0} \cup Things]
    BY DEF PagesInv, PageType, Controls
  <1>3. CASE page = "monitor" /\ ui.view = 2
    <2>1. Panels = [rows |-> "loading"]
      BY <1>3, PanelsAre DEF MonitorPanels
    <2> QED
      BY <2>1 DEF Says
  <1>4. CASE ~(page = "monitor" /\ ui.view = 2)
    <2>1. poll.data = None /\ (poll.error \/ FirstLoad)
      BY <1>4 DEF PagesInv, PollInv, FirstLoad
    <2>2. ASSUME NEW empty PROVE LensState(empty) \in {"loading", "error"}
      BY <2>1 DEF LensState
    <2>3. TileState = "loading" \/ Notice = "error"
      BY <2>1 DEF TileState, Notice
    <2>4. CASE page = "overview"
      BY <2>3, <2>4, PanelsAre DEF OverviewPanels, Says
    <2>5. CASE page = "agents"
      BY <2>3, <2>5, PanelsAre DEF AgentsPanels, Says
    <2>6. CASE page = "alerts"
      BY <2>2, <2>6, PanelsAre DEF AlertsPanels, Says
    <2>7. CASE page = "anomalies"
      BY <2>2, <2>7, PanelsAre DEF AnomaliesPanels, Says
    <2>8. CASE page = "cost"
      BY <2>1, <2>8, PanelsAre DEF CostPanels, LensState, Says
    <2>9. CASE page = "insights"
      BY <2>2, <2>9, PanelsAre DEF InsightsPanels, Says
    <2>10. CASE page = "monitors"
      BY <2>2, <2>10, PanelsAre DEF MonitorsPanels, Says
    <2>11. CASE page = "monitor"
      <3>1. Panels = MonitorPanels /\ ui.view # 2
        BY <1>4, <2>11, PanelsAre
      <3>2. ui.view = 1
        BY <1>2, <2>11, <3>1 DEF Options
      <3>3. Panels.overview \in {"loading", "error"} /\ DOMAIN Panels = {"overview"}
        BY <2>1, <3>1, <3>2 DEF MonitorPanels, LensState
      <3> QED
        BY <3>3 DEF Says
    <2>12. CASE page = "network"
      BY <2>2, <2>12, PanelsAre DEF NetworkPanels, Says
    <2>13. CASE page = "workload"
      BY <2>2, <2>13, PanelsAre DEF WorkloadPanels, Says
    <2>14. CASE page = "search"
      BY <2>2, <2>14, PanelsAre DEF SearchPanels, Says
    <2>15. CASE page = "paths"
      BY <2>2, <2>15, PanelsAre DEF PathsPanels, Says
    <2>16. CASE page = "flows"
      <3>1. Panels = [count |-> TileState,
                      table |-> IF poll.error THEN "error" ELSE IF Body = {} THEN "empty" ELSE "content"]
        BY <2>16, PanelsAre DEF FlowsPanels
      <3>2. CASE poll.error
        BY <3>1, <3>2 DEF Says
      <3>3. CASE FirstLoad
        BY <3>1, <3>3 DEF Says, TileState
      <3> QED
        BY <2>1, <3>2, <3>3
    <2> QED
      BY <1>1, <1>2, <2>4, <2>5, <2>6, <2>7, <2>8, <2>9, <2>10, <2>11, <2>12, <2>13, <2>14, <2>15, <2>16,
         PagesAssumption DEF Silent
  <1> QED
    BY <1>3, <1>4

\* What is shown follows from it.
LEMMA InvShownIsAsked == PagesInv => ShownIsAsked
  <1> SUFFICES ASSUME PagesInv, poll.ask # None PROVE ShownIsAsked
    BY DEF ShownIsAsked
  <1>1. /\ poll.ask = Asked(page, ui)
        /\ ~poll.loading /\ ~poll.error => poll.data # None /\ poll.data.ask = Asked(page, ui)
    BY DEF PagesInv, PollInv
  <1>2. (IF page = "monitor" /\ ui.view = 2 THEN side ELSE poll.data) = None
           => \E panel \in DOMAIN Panels : Panels[panel] \in {"loading", "error"}
    BY WaitingIsSaid DEF Says
  <1>3. page = "flows" => (ui.bucket = None => Followed(ui) < slot) /\ (ui.monitor # 0 => ui.monitor \in ui.monitors)
    BY FlowsType DEF Followed
  <1> QED
    BY <1>1, <1>2, <1>3 DEF ShownIsAsked

LEMMA InvKeptIsShown == PagesInv => KeptIsShown
  <1> SUFFICES ASSUME PagesInv PROVE KeptIsShown
    OBVIOUS
  <1>1. url.next = None => Latest = url.now
    BY DEF Latest
  <1>2. ShownInv
    BY DEF PagesInv
  <1>3. \A e : LastChosen(e) = LastIn(chosen, e)
    BY DEF LastChosen, LastIn
  <1>4. Newest(chosen, memory.recents)
    BY DEF PagesInv, RecentsInv
  <1>5. page = "paths" =>
           /\ \A i, j \in DOMAIN ui.recents : i < j => LastChosen(ui.recents[i]) > LastChosen(ui.recents[j])
           /\ \A e \in ToSet(chosen) \ ToSet(ui.recents) :
                 Len(ui.recents) = MaxRecents /\ \A r \in ToSet(ui.recents) : LastChosen(e) < LastChosen(r)
    <2> SUFFICES ASSUME page = "paths"
                 PROVE  /\ \A i, j \in DOMAIN ui.recents : i < j => LastChosen(ui.recents[i]) > LastChosen(ui.recents[j])
                        /\ \A e \in ToSet(chosen) \ ToSet(ui.recents) :
                              Len(ui.recents) = MaxRecents /\ \A r \in ToSet(ui.recents) : LastChosen(e) < LastChosen(r)
      OBVIOUS
    <2>1. ui.recents = memory.recents
      BY <1>2 DEF ShownInv
    <2> QED
      BY <1>3, <1>4, <2>1 DEF Newest
  <1> QED
    BY <1>1, <1>2, <1>5 DEF ShownInv, KeptIsShown

\* Whatever the user does and however the answers come, the request is the one the
\* controls stand for and the controls say what is kept (usePolling, useAnalyticsFilters,
\* useSettings, pushRecent).
THEOREM PagesInvariance == PagesSpec => []PagesInv
  BY PagesInitInv, PagesStepInv, PTL DEF PagesSpec

\* Whatever is clicked, typed, answered or failed, on whichever page: a page shows the
\* answer to what its controls ask for or says that it has none, it shows what it would
\* show if it were loaded again, and the focus stays in the dialog that is open.
THEOREM PagesAnswerTheirControls == PagesSpec => []PagesShowTheirAnswers
  <1>1. PagesInv => PagesShowTheirAnswers
    BY InvShownIsAsked, InvKeptIsShown DEF PagesInv, PagesShowTheirAnswers
  <1> QED
    BY <1>1, PagesInvariance, PTL

-----------------------------------------------------------------------------
(* The accounts of a window's rows.                                        *)

\* A window has finitely many rows, which count bytes and events.
Counted(rows) == IsFiniteSet(rows) /\ \A f \in rows : f.value \in Nat

Values(rows) == [f \in rows |-> f.value]
Dollars(rows) == [f \in rows |-> Usd(f)]

LEMMA TotalIter ==
    ASSUME NEW R
    PROVE  \E it : /\ it = CHOOSE g : g = [s \in SUBSET R |-> IF s = {} THEN 0 ELSE Pick(s).value + g[s \ {Pick(s)}]]
                   /\ Total(R) = it[R]
  BY DEF Total, MapThenSumSet, MapThenFoldSet, Pick

LEMMA UsdIter ==
    ASSUME NEW R
    PROVE  \E it : /\ it = CHOOSE g : g = [s \in SUBSET R |-> IF s = {} THEN 0 ELSE Usd(Pick(s)) + g[s \ {Pick(s)}]]
                   /\ UsdOf(R) = it[R]
  BY DEF UsdOf, MapThenSumSet, MapThenFoldSet, Pick

LEMMA SumOfIter ==
    ASSUME NEW L, NEW field
    PROVE  \E it : /\ it = CHOOSE g : g = [s \in SUBSET DOMAIN L |->
                                              IF s = {} THEN 0 ELSE L[Pick(s)][field] + g[s \ {Pick(s)}]]
                   /\ SumOf(L, field) = it[DOMAIN L]
  BY DEF SumOf, MapThenSumSet, MapThenFoldSet, Pick

\* The bytes of a set of rows are a fold over them, and so are the dollars.
LEMMA TotalFolds ==
    ASSUME NEW R, NEW h, Folds(h, Values(R), R)
    PROVE  \E g : Folds(g, Values(R), R) /\ Total(R) = g[R]
  <1>1. PICK it : /\ it = CHOOSE g : g = [s \in SUBSET R |-> IF s = {} THEN 0 ELSE Pick(s).value + g[s \ {Pick(s)}]]
                  /\ Total(R) = it[R]
    BY TotalIter
  <1>2. ASSUME NEW g
        PROVE  Folds(g, Values(R), R)
                 <=> g = [s \in SUBSET R |-> IF s = {} THEN 0 ELSE Pick(s).value + g[s \ {Pick(s)}]]
    <2>1. \A s \in SUBSET R : s # {} => Values(R)[Pick(s)] = Pick(s).value
      BY DEF Pick, Values
    <2> QED
      BY <2>1 DEF Folds
  <1>3. it = [s \in SUBSET R |-> IF s = {} THEN 0 ELSE Pick(s).value + it[s \ {Pick(s)}]]
    BY <1>1, <1>2
  <1> QED
    BY <1>1, <1>2, <1>3

LEMMA UsdFolds ==
    ASSUME NEW R, NEW h, Folds(h, Dollars(R), R)
    PROVE  \E g : Folds(g, Dollars(R), R) /\ UsdOf(R) = g[R]
  <1>1. PICK it : /\ it = CHOOSE g : g = [s \in SUBSET R |-> IF s = {} THEN 0 ELSE Usd(Pick(s)) + g[s \ {Pick(s)}]]
                  /\ UsdOf(R) = it[R]
    BY UsdIter
  <1>2. ASSUME NEW g
        PROVE  Folds(g, Dollars(R), R)
                 <=> g = [s \in SUBSET R |-> IF s = {} THEN 0 ELSE Usd(Pick(s)) + g[s \ {Pick(s)}]]
    <2>1. \A s \in SUBSET R : s # {} => Dollars(R)[Pick(s)] = Usd(Pick(s))
      BY DEF Pick, Dollars
    <2> QED
      BY <2>1 DEF Folds
  <1>3. it = [s \in SUBSET R |-> IF s = {} THEN 0 ELSE Usd(Pick(s)) + it[s \ {Pick(s)}]]
    BY <1>1, <1>2
  <1> QED
    BY <1>1, <1>2, <1>3

LEMMA SumOfIs ==
    ASSUME NEW L, NEW field, NEW w, w = [l \in DOMAIN L |-> L[l][field]], NEW h, Folds(h, w, DOMAIN L)
    PROVE  \E g : Folds(g, w, DOMAIN L) /\ SumOf(L, field) = g[DOMAIN L]
  <1>1. PICK it : /\ it = CHOOSE g : g = [s \in SUBSET DOMAIN L |->
                                              IF s = {} THEN 0 ELSE L[Pick(s)][field] + g[s \ {Pick(s)}]]
                  /\ SumOf(L, field) = it[DOMAIN L]
    BY SumOfIter
  <1>2. ASSUME NEW g
        PROVE  Folds(g, w, DOMAIN L)
                 <=> g = [s \in SUBSET DOMAIN L |-> IF s = {} THEN 0 ELSE L[Pick(s)][field] + g[s \ {Pick(s)}]]
    <2>1. \A s \in SUBSET DOMAIN L : s # {} => w[Pick(s)] = L[Pick(s)][field]
      BY DEF Pick
    <2> QED
      BY <2>1 DEF Folds
  <1>3. it = [s \in SUBSET DOMAIN L |-> IF s = {} THEN 0 ELSE L[Pick(s)][field] + it[s \ {Pick(s)}]]
    BY <1>1, <1>2
  <1> QED
    BY <1>1, <1>2, <1>3

LEMMA CountedIs ==
    ASSUME NEW R, Counted(R)
    PROVE  /\ IsFiniteSet(R) /\ Values(R) \in [R -> Nat] /\ Dollars(R) \in [R -> Nat]
           /\ Values(R) \in [R -> Int] /\ Dollars(R) \in [R -> Int]
           /\ \A T \in SUBSET R : Counted(T)
  <1>1. \A f \in R : Usd(f) \in Nat
    BY DEF Counted, Usd
  <1>2. \A T \in SUBSET R : Counted(T)
    BY FS_Subset DEF Counted
  <1> QED
    BY <1>1, <1>2 DEF Counted, Values, Dollars

\* One fold holds the bytes of every part of the rows, another the dollars.
LEMMA TotalIsFold ==
    ASSUME NEW R, Counted(R)
    PROVE  \E g : IsFold(g, Values(R), R) /\ \A T \in SUBSET R : Total(T) = g[T]
  <1>1. PICK g : Folds(g, Values(R), R)
    BY CountedIs, FoldExists
  <1>2. ASSUME NEW T \in SUBSET R PROVE Total(T) = g[T]
    <2>1. IsFiniteSet(T)
      BY CountedIs DEF Counted
    <2>2. PICK e : Folds(e, Values(T), T)
      BY <2>1, FoldExists
    <2>3. PICK h : Folds(h, Values(T), T) /\ Total(T) = h[T]
      BY <2>2, TotalFolds
    <2>4. \A f \in T : Values(R)[f] = Values(T)[f]
      BY DEF Values
    <2>5. T \in SUBSET (R \cap T) /\ IsFiniteSet(R)
      BY CountedIs
    <2>6. g[T] = h[T]
      BY <1>1, <2>3, <2>4, <2>5, FoldAgree
    <2> QED
      BY <2>3, <2>6
  <1>3. IsFold(g, Values(R), R)
    BY <1>1, CountedIs DEF IsFold
  <1> QED
    BY <1>2, <1>3

LEMMA UsdIsFold ==
    ASSUME NEW R, Counted(R)
    PROVE  \E g : IsFold(g, Dollars(R), R) /\ \A T \in SUBSET R : UsdOf(T) = g[T]
  <1>1. PICK g : Folds(g, Dollars(R), R)
    BY CountedIs, FoldExists
  <1>2. ASSUME NEW T \in SUBSET R PROVE UsdOf(T) = g[T]
    <2>1. IsFiniteSet(T)
      BY CountedIs DEF Counted
    <2>2. PICK e : Folds(e, Dollars(T), T)
      BY <2>1, FoldExists
    <2>3. PICK h : Folds(h, Dollars(T), T) /\ UsdOf(T) = h[T]
      BY <2>2, UsdFolds
    <2>4. \A f \in T : Dollars(R)[f] = Dollars(T)[f]
      BY DEF Dollars
    <2>5. T \in SUBSET (R \cap T) /\ IsFiniteSet(R)
      BY CountedIs
    <2>6. g[T] = h[T]
      BY <1>1, <2>3, <2>4, <2>5, FoldAgree
    <2> QED
      BY <2>3, <2>6
  <1>3. IsFold(g, Dollars(R), R)
    BY <1>1, CountedIs DEF IsFold
  <1> QED
    BY <1>2, <1>3

\* A field of an account adds up to a fold over the rows when each label has the fold
\* of the rows that are sorted under it.
LEMMA PartsAddUp ==
    ASSUME NEW R, NEW f, NEW g, IsFold(g, f, R),
           NEW L, NEW field, IsFiniteSet(DOMAIN L),
           NEW k \in [R -> DOMAIN L], \A l \in DOMAIN L : L[l][field] = g[Part(k, R, l)]
    PROVE  SumOf(L, field) = g[R]
  <1> DEFINE D == DOMAIN L
             w == [l \in D |-> L[l][field]]
  <1>1. \A l \in D : Part(k, R, l) \in SUBSET R
    BY DEF Part
  <1>2. \A l \in D : g[Part(k, R, l)] \in Int
    BY <1>1, FoldInt
  <1>3. w \in [D -> Int]
    BY <1>2
  <1>4. w = [l \in D |-> L[l][field]] /\ \A l \in D : w[l] = g[Part(k, R, l)]
    OBVIOUS
  <1>9. D = DOMAIN L
    OBVIOUS
  <1> HIDE DEF w, D
  <1>5. PICK e : Folds(e, w, D)
    BY <1>9, FoldExists
  <1>6. PICK h : Folds(h, w, D) /\ SumOf(L, field) = h[D]
    BY <1>4, <1>5, <1>9, SumOfIs
  <1>7. IsFold(h, w, D)
    BY <1>3, <1>6, <1>9 DEF IsFold
  <1>8. h[D] = g[R]
    BY <1>4, <1>7, <1>9, FoldParts
  <1> QED
    BY <1>6, <1>8

\* An account of rows that are labelled by a function.
Account(R, lab) ==
    [l \in {lab[f] : f \in R} |->
        [bytes |-> Total({f \in R : lab[f] = l}), usd |-> UsdOf({f \in R : lab[f] = l})]]

LEMMA AccountAddsUp ==
    ASSUME NEW R, Counted(R), NEW lab
    PROVE  SumOf(Account(R, lab), "bytes") = Total(R) /\ SumOf(Account(R, lab), "usd") = UsdOf(R)
  <1> DEFINE L == Account(R, lab)
             k == [f \in R |-> lab[f]]
  <1>1. DOMAIN L = {lab[f] : f \in R}
    BY DEF Account
  <1>2. IsFiniteSet(DOMAIN L)
    BY <1>1, CountedIs, ImageIsFinite
  <1>3. k \in [R -> DOMAIN L]
    BY <1>1
  <1>4. \A l \in DOMAIN L : /\ Part(k, R, l) \in SUBSET R
                            /\ L[l].bytes = Total(Part(k, R, l)) /\ L[l].usd = UsdOf(Part(k, R, l))
    BY <1>1 DEF Account, Part
  <1> HIDE DEF L, k
  <1>5. SumOf(L, "bytes") = Total(R)
    <2>1. PICK g : IsFold(g, Values(R), R) /\ \A T \in SUBSET R : Total(T) = g[T]
      BY TotalIsFold
    <2>2. \A l \in DOMAIN L : L[l]["bytes"] = g[Part(k, R, l)]
      BY <1>4, <2>1
    <2>3. SumOf(L, "bytes") = g[R]
      BY <1>2, <1>3, <2>1, <2>2, PartsAddUp
    <2> QED
      BY <2>1, <2>3
  <1>6. SumOf(L, "usd") = UsdOf(R)
    <2>1. PICK g : IsFold(g, Dollars(R), R) /\ \A T \in SUBSET R : UsdOf(T) = g[T]
      BY UsdIsFold
    <2>2. \A l \in DOMAIN L : L[l]["usd"] = g[Part(k, R, l)]
      BY <1>4, <2>1
    <2>3. SumOf(L, "usd") = g[R]
      BY <1>2, <1>3, <2>1, <2>2, PartsAddUp
    <2> QED
      BY <2>1, <2>3
  <1> QED
    BY <1>5, <1>6 DEF L

\* The bytes of a part of the rows are at most theirs, and so are the dollars.
LEMMA UsdGrows ==
    ASSUME NEW R, Counted(R), NEW T \in SUBSET R
    PROVE  UsdOf(T) <= UsdOf(R)
  <1>1. PICK g : IsFold(g, Dollars(R), R) /\ \A U \in SUBSET R : UsdOf(U) = g[U]
    BY UsdIsFold
  <1>2. Additive(g, R)
    BY <1>1, FoldUnion
  <1>3. T \in SUBSET R /\ R \ T \in SUBSET R /\ R \in SUBSET R /\ T \cap (R \ T) = {} /\ T \cup (R \ T) = R
    OBVIOUS
  <1>4. g[R] = g[T] + g[R \ T]
    BY <1>2, <1>3 DEF Additive
  <1>5. \A f \in R : Dollars(R)[f] \in Nat
    BY CountedIs
  <1>6. g[T] \in Nat /\ g[R \ T] \in Nat
    BY <1>1, <1>3, <1>5, FoldNat
  <1>7. UsdOf(T) = g[T] /\ UsdOf(R) = g[R]
    BY <1>1, <1>3
  <1> QED
    BY <1>4, <1>6, <1>7

\* Dollars are the bytes of what is billed.
LEMMA BilledIs ==
    ASSUME NEW R, Counted(R)
    PROVE  UsdOf(R) = Total({f \in R : f.category \in Billed})
  <1> DEFINE B == {f \in R : f.category \in Billed}
  <1>1. PICK g : IsFold(g, Dollars(R), R) /\ \A U \in SUBSET R : UsdOf(U) = g[U]
    BY UsdIsFold
  <1>2. PICK h : IsFold(h, Values(R), R) /\ \A U \in SUBSET R : Total(U) = h[U]
    BY TotalIsFold
  <1>3. /\ \A f \in B : Dollars(R)[f] = Values(R)[f]
        /\ \A f \in R \ B : Dollars(R)[f] = 0
    BY DEF Dollars, Values, Usd
  <1>4. B \in SUBSET R /\ R \ B \in SUBSET R /\ R \in SUBSET R /\ B \cap (R \ B) = {} /\ B \cup (R \ B) = R
        /\ B \in SUBSET (R \cap R)
    OBVIOUS
  <1>5. IsFiniteSet(R)
    BY CountedIs
  <1> HIDE DEF B
  <1>6. Additive(g, R)
    BY <1>1, FoldUnion
  <1>7. g[R] = g[B] + g[R \ B]
    BY <1>4, <1>6 DEF Additive
  <1>8. g[R \ B] = 0
    BY <1>1, <1>3, <1>4, FoldZero
  <1>9. g[B] = h[B]
    <2>1. Folds(g, Dollars(R), R) /\ Folds(h, Values(R), R)
      BY <1>1, <1>2 DEF IsFold
    <2> QED
      BY <1>3, <1>4, <1>5, <2>1, FoldAgree
  <1>10. g[B] \in Int
    BY <1>1, <1>4, FoldInt
  <1>11. UsdOf(R) = g[R] /\ Total(B) = h[B]
    BY <1>1, <1>2, <1>4
  <1>12. UsdOf(R) = Total(B)
    BY <1>7, <1>8, <1>9, <1>10, <1>11
  <1> QED
    BY <1>12 DEF B

\* Rows of which some are sorted under a second label as well.
LEMMA TwicePartsAddUp ==
    ASSUME NEW R, NEW f, NEW g, IsFold(g, f, R), NEW S \in SUBSET R,
           NEW L, NEW field, IsFiniteSet(DOMAIN L),
           NEW k \in [R -> DOMAIN L], NEW j \in [S -> DOMAIN L],
           \A l \in DOMAIN L : L[l][field] = g[Part(k, R, l)] + g[Part(j, S, l)]
    PROVE  SumOf(L, field) = g[R] + g[S]
  <1> DEFINE D == DOMAIN L
             w == [l \in D |-> L[l][field]]
             u == [l \in D |-> g[Part(k, R, l)]]
             v == [l \in D |-> g[Part(j, S, l)]]
             fS == [x \in S |-> f[x]]
  <1>a. IsFiniteSet(R) /\ f \in [R -> Int] /\ Folds(g, f, R) /\ IsFiniteSet(S)
    BY FS_Subset DEF IsFold
  <1>1. \A l \in D : Part(k, R, l) \in SUBSET R /\ Part(j, S, l) \in SUBSET S /\ Part(j, S, l) \in SUBSET R
    BY DEF Part
  <1>2. \A l \in D : g[Part(k, R, l)] \in Int /\ g[Part(j, S, l)] \in Int
    BY <1>1, FoldInt
  <1>3. u \in [D -> Int] /\ v \in [D -> Int] /\ w \in [D -> Int] /\ fS \in [S -> Int]
    BY <1>a, <1>2
  <1>4. /\ w = [l \in D |-> L[l][field]] /\ \A l \in D : w[l] = u[l] + v[l]
        /\ \A l \in D : u[l] = g[Part(k, R, l)]
        /\ \A l \in D : v[l] = g[Part(j, S, l)]
        /\ \A x \in S : fS[x] = f[x]
    OBVIOUS
  <1>9. D = DOMAIN L
    OBVIOUS
  <1>18. w = [l \in DOMAIN L |-> L[l][field]]
    OBVIOUS
  <1> HIDE DEF u, v, w, D, fS
  <1>5. PICK e : Folds(e, w, D)
    BY <1>9, FoldExists
  <1>6. PICK i : Folds(i, w, D) /\ SumOf(L, field) = i[D]
    <2>1. Folds(e, w, DOMAIN L)
      BY <1>5, <1>9
    <2>2. \E i : Folds(i, w, DOMAIN L) /\ SumOf(L, field) = i[DOMAIN L]
      BY <1>18, <2>1, SumOfIs
    <2> QED
      BY <1>9, <2>2
  <1>7. PICK p : Folds(p, u, D)
    BY <1>9, FoldExists
  <1>8. PICK q : Folds(q, v, D)
    BY <1>9, FoldExists
  <1>10. PICK m : Folds(m, fS, S)
    BY <1>a, FoldExists
  <1>11. IsFold(i, w, D) /\ IsFold(p, u, D) /\ IsFold(q, v, D) /\ IsFold(m, fS, S)
    BY <1>a, <1>3, <1>6, <1>7, <1>8, <1>9, <1>10 DEF IsFold
  <1>12. i[D] = p[D] + q[D]
    BY <1>4, <1>11, FoldAdd
  <1>13. p[D] = g[R]
    BY <1>4, <1>9, <1>11, FoldParts
  <1>14. \A T \in SUBSET S : m[T] = g[T]
    <2> SUFFICES ASSUME NEW T \in SUBSET S PROVE m[T] = g[T]
      OBVIOUS
    <2>1. T \in SUBSET (S \cap R) /\ \A x \in T : fS[x] = f[x]
      BY <1>4
    <2> QED
      BY <1>a, <1>10, <2>1, FoldAgree
  <1>15. \A l \in D : v[l] = m[Part(j, S, l)]
    BY <1>1, <1>4, <1>14
  <1>16. q[D] = m[S]
    BY <1>9, <1>11, <1>15, FoldParts
  <1>17. m[S] = g[S]
    BY <1>14
  <1> QED
    BY <1>6, <1>12, <1>13, <1>16, <1>17

\* The ledgers are such accounts, by category, by category and bucket, by cluster, by
\* monitor, by bucket and by the regions of an arc.
LEMMA CategoryLedger ==
    ASSUME NEW R
    PROVE  Ledger(R, LAMBDA f : f.category) = Account(R, [f \in R |-> f.category])
  <1> DEFINE lab == [f \in R |-> f.category]
  <1>1. {lab[f] : f \in R} = {f.category : f \in R}
    OBVIOUS
  <1>2. \A l : {f \in R : lab[f] = l} = {f \in R : f.category = l}
    OBVIOUS
  <1> HIDE DEF lab
  <1>3. Ledger(R, LAMBDA f : f.category) = Account(R, lab)
    BY <1>1, <1>2, Zenon DEF Ledger, Account
  <1> QED
    BY <1>3 DEF lab

LEMMA SeriesLedger ==
    ASSUME NEW R
    PROVE  Ledger(R, LAMBDA f : <<f.category, f.bucket>>) = Account(R, [f \in R |-> <<f.category, f.bucket>>])
  <1> DEFINE lab == [f \in R |-> <<f.category, f.bucket>>]
  <1>1. {lab[f] : f \in R} = {<<f.category, f.bucket>> : f \in R}
    OBVIOUS
  <1>2. \A l : {f \in R : lab[f] = l} = {f \in R : <<f.category, f.bucket>> = l}
    OBVIOUS
  <1> HIDE DEF lab
  <1>3. Ledger(R, LAMBDA f : <<f.category, f.bucket>>) = Account(R, lab)
    BY <1>1, <1>2, Zenon DEF Ledger, Account
  <1> QED
    BY <1>3 DEF lab

LEMMA ClusterLedger ==
    ASSUME NEW R
    PROVE  Ledger(R, LAMBDA f : ClusterOf[f.monitor]) = Account(R, [f \in R |-> ClusterOf[f.monitor]])
  <1> DEFINE lab == [f \in R |-> ClusterOf[f.monitor]]
  <1>1. {lab[f] : f \in R} = {ClusterOf[f.monitor] : f \in R}
    OBVIOUS
  <1>2. \A l : {f \in R : lab[f] = l} = {f \in R : ClusterOf[f.monitor] = l}
    OBVIOUS
  <1> HIDE DEF lab
  <1>3. Ledger(R, LAMBDA f : ClusterOf[f.monitor]) = Account(R, lab)
    BY <1>1, <1>2, Zenon DEF Ledger, Account
  <1> QED
    BY <1>3 DEF lab

LEMMA MonitorLedger ==
    ASSUME NEW R
    PROVE  Ledger(R, LAMBDA f : f.monitor) = Account(R, [f \in R |-> f.monitor])
  <1> DEFINE lab == [f \in R |-> f.monitor]
  <1>1. {lab[f] : f \in R} = {f.monitor : f \in R}
    OBVIOUS
  <1>2. \A l : {f \in R : lab[f] = l} = {f \in R : f.monitor = l}
    OBVIOUS
  <1> HIDE DEF lab
  <1>3. Ledger(R, LAMBDA f : f.monitor) = Account(R, lab)
    BY <1>1, <1>2, Zenon DEF Ledger, Account
  <1> QED
    BY <1>3 DEF lab

LEMMA BucketLedger ==
    ASSUME NEW R
    PROVE  Ledger(R, LAMBDA f : f.bucket) = Account(R, [f \in R |-> f.bucket])
  <1> DEFINE lab == [f \in R |-> f.bucket]
  <1>1. {lab[f] : f \in R} = {f.bucket : f \in R}
    OBVIOUS
  <1>2. \A l : {f \in R : lab[f] = l} = {f \in R : f.bucket = l}
    OBVIOUS
  <1> HIDE DEF lab
  <1>3. Ledger(R, LAMBDA f : f.bucket) = Account(R, lab)
    BY <1>1, <1>2, Zenon DEF Ledger, Account
  <1> QED
    BY <1>3 DEF lab

LEMMA ArcLedger ==
    ASSUME NEW R
    PROVE  Ledger(R, LAMBDA f : <<f.a.region, f.b.region>>) = Account(R, [f \in R |-> <<f.a.region, f.b.region>>])
  <1> DEFINE lab == [f \in R |-> <<f.a.region, f.b.region>>]
  <1>1. {lab[f] : f \in R} = {<<f.a.region, f.b.region>> : f \in R}
    OBVIOUS
  <1>2. \A l : {f \in R : lab[f] = l} = {f \in R : <<f.a.region, f.b.region>> = l}
    OBVIOUS
  <1> HIDE DEF lab
  <1>3. Ledger(R, LAMBDA f : <<f.a.region, f.b.region>>) = Account(R, lab)
    BY <1>1, <1>2, Zenon DEF Ledger, Account
  <1> QED
    BY <1>3 DEF lab

\* What the namespaces of a row are: that of its first end that has one, and that of
\* its other end when it crosses namespaces.
Crosses(f) == f.a.ns # f.b.ns /\ 0 \notin {f.a.ns, f.b.ns}
Crossing(R) == {f \in R : Crosses(f)}
Near(f) == IF f.a.ns # 0 THEN f.a.ns ELSE f.b.ns
Far(f) == f.b.ns

LEMMA NamespaceKey == ASSUME NEW e PROVE Key(e, "namespace") = e.ns
  BY Zenon DEF Key

LEMMA NamespacesAre ==
    ASSUME NEW f
    PROVE  /\ NamespacesOf(f) = {Near(f)} \cup IF Crosses(f) THEN {Far(f)} ELSE {}
           /\ Crosses(f) => Near(f) # Far(f)
           /\ Touches(f, "namespace") \ {0} = NamespacesOf(f) \ {0}
  <1>1. Touches(f, "namespace") = {f.a.ns, f.b.ns}
    <2>1. Touches(f, "namespace") = {Key(f.a, "namespace"), Key(f.b, "namespace")}
      BY DEF Touches
    <2>2. Key(f.a, "namespace") = f.a.ns /\ Key(f.b, "namespace") = f.b.ns
      BY NamespaceKey
    <2> QED
      BY <2>1, <2>2
  <1> DEFINE x == f.a.ns
             y == f.b.ns
  <1>2. NamespacesOf(f) = IF {x, y} = {0} THEN {0} ELSE {x, y} \ {0}
    BY <1>1, Zenon DEF NamespacesOf
  <1>3. Near(f) = (IF x # 0 THEN x ELSE y) /\ Far(f) = y /\ (Crosses(f) <=> x # y /\ x # 0 /\ y # 0)
    BY DEF Near, Far, Crosses
  <1> HIDE DEF x, y
  <1>4. NamespacesOf(f) = {Near(f)} \cup IF Crosses(f) THEN {Far(f)} ELSE {}
    BY <1>2, <1>3
  <1>5. Crosses(f) => Near(f) # Far(f)
    BY <1>3
  <1>6. {x, y} \ {0} = NamespacesOf(f) \ {0}
    BY <1>2
  <1> QED
    BY <1>1, <1>4, <1>5, <1>6 DEF x, y

LEMMA NamespacesAddUp ==
    ASSUME NEW R, Counted(R)
    PROVE  /\ SumOf(NamespaceAccounts(R), "bytes") = Total(R) + Total(Crossing(R))
           /\ SumOf(NamespaceAccounts(R), "usd") = UsdOf(R) + UsdOf(Crossing(R))
  <1> DEFINE L == NamespaceAccounts(R)
             S == Crossing(R)
             k == [f \in R |-> Near(f)]
             j == [f \in S |-> Far(f)]
             Mine(ns) == {f \in R : ns \in NamespacesOf(f)}
  <1>1. DOMAIN L = UNION {NamespacesOf(f) : f \in R}
    BY DEF NamespaceAccounts
  <1>2. \A ns \in DOMAIN L : L[ns].bytes = Total(Mine(ns)) /\ L[ns].usd = UsdOf(Mine(ns))
    BY <1>1 DEF NamespaceAccounts
  <1>3. S \in SUBSET R /\ \A f \in R : f \in S <=> Crosses(f)
    BY DEF Crossing
  <1>4. DOMAIN L = {k[f] : f \in R} \cup {j[f] : f \in S}
    <2>1. \A f \in R : NamespacesOf(f) = {k[f]} \cup IF f \in S THEN {j[f]} ELSE {}
      BY <1>3, NamespacesAre
    <2> HIDE DEF k, j, S, L
    <2> QED
      BY <1>1, <1>3, <2>1
  <1>5. k \in [R -> DOMAIN L] /\ j \in [S -> DOMAIN L]
    BY <1>4
  <1>6. IsFiniteSet(DOMAIN L)
    <2>1. IsFiniteSet(R) /\ IsFiniteSet(S)
      BY <1>3, CountedIs, FS_Subset
    <2> HIDE DEF k, j, S, L
    <2>2. IsFiniteSet({k[f] : f \in R}) /\ IsFiniteSet({j[f] : f \in S})
      BY <2>1, ImageIsFinite
    <2> QED
      BY <1>4, <2>2, FS_Union
  <1>7. \A ns \in DOMAIN L : /\ Part(k, R, ns) \in SUBSET R /\ Part(j, S, ns) \in SUBSET R
                            /\ Part(k, R, ns) \cap Part(j, S, ns) = {}
                            /\ Part(k, R, ns) \cup Part(j, S, ns) = Mine(ns) /\ Mine(ns) \in SUBSET R
    <2> SUFFICES ASSUME NEW ns
                 PROVE  /\ Part(k, R, ns) \in SUBSET R /\ Part(j, S, ns) \in SUBSET R
                        /\ Part(k, R, ns) \cap Part(j, S, ns) = {}
                        /\ Part(k, R, ns) \cup Part(j, S, ns) = Mine(ns) /\ Mine(ns) \in SUBSET R
      OBVIOUS
    <2>1. \A f \in R : /\ ns \in NamespacesOf(f) <=> (k[f] = ns \/ (f \in S /\ j[f] = ns))
                       /\ ~(k[f] = ns /\ f \in S /\ j[f] = ns)
      BY <1>3, NamespacesAre
    <2> HIDE DEF k, j, S
    <2> QED
      BY <1>3, <2>1 DEF Part
  <1> HIDE DEF L, k, j, S, Mine
  <1>8. SumOf(L, "bytes") = Total(R) + Total(S)
    <2>1. PICK g : IsFold(g, Values(R), R) /\ \A T \in SUBSET R : Total(T) = g[T]
      BY TotalIsFold
    <2>2. Additive(g, R)
      BY <2>1, FoldUnion
    <2>3. ASSUME NEW ns \in DOMAIN L
          PROVE  L[ns]["bytes"] = g[Part(k, R, ns)] + g[Part(j, S, ns)]
      <3>1. L[ns]["bytes"] = g[Mine(ns)]
        BY <1>2, <1>7, <2>1
      <3>2. g[Part(k, R, ns) \cup Part(j, S, ns)] = g[Part(k, R, ns)] + g[Part(j, S, ns)]
        BY <1>7, <2>2 DEF Additive
      <3> QED
        BY <1>7, <3>1, <3>2
    <2>4. SumOf(L, "bytes") = g[R] + g[S]
      BY <1>3, <1>5, <1>6, <2>1, <2>3, TwicePartsAddUp
    <2> QED
      BY <1>3, <2>1, <2>4
  <1>9. SumOf(L, "usd") = UsdOf(R) + UsdOf(S)
    <2>1. PICK g : IsFold(g, Dollars(R), R) /\ \A T \in SUBSET R : UsdOf(T) = g[T]
      BY UsdIsFold
    <2>2. Additive(g, R)
      BY <2>1, FoldUnion
    <2>3. ASSUME NEW ns \in DOMAIN L
          PROVE  L[ns]["usd"] = g[Part(k, R, ns)] + g[Part(j, S, ns)]
      <3>1. L[ns]["usd"] = g[Mine(ns)]
        BY <1>2, <1>7, <2>1
      <3>2. g[Part(k, R, ns) \cup Part(j, S, ns)] = g[Part(k, R, ns)] + g[Part(j, S, ns)]
        BY <1>7, <2>2 DEF Additive
      <3> QED
        BY <1>7, <3>1, <3>2
    <2>4. SumOf(L, "usd") = g[R] + g[S]
      BY <1>3, <1>5, <1>6, <2>1, <2>3, TwicePartsAddUp
    <2> QED
      BY <1>3, <2>1, <2>4
  <1> QED
    BY <1>8, <1>9 DEF L, S

ByBucket(rows) == Ledger(rows, LAMBDA f : f.bucket)

\* The cells of a network are of its rows by the pairs they are of.
IsNetwork(N, rows, pr) ==
    /\ \E M \in SUBSET rows : Data(rows) \subseteq M /\ DOMAIN N = {pr[f] : f \in M}
    /\ \A p \in DOMAIN N :
          /\ N[p].bytes = Total({f \in Data(rows) : pr[f] = p})
          /\ N[p].spark = ByBucket({f \in Data(rows) : pr[f] = p})

LEMMA NetworkIs ==
    ASSUME NEW rows, NEW from, NEW to, NEW N, N = NetworkPairs(rows, from, to),
           NEW pr, pr = [f \in rows |-> <<ScopeOf(f, "a", from), ScopeOf(f, "b", to)>>]
    PROVE  IsNetwork(N, rows, pr)
  <1> DEFINE M == Data(rows) \cup Of(rows, "retrans") \cup Of(rows, "rtt")
             ScopesOf(f) == <<ScopeOf(f, "a", from), ScopeOf(f, "b", to)>>
  <1>1. M \in SUBSET rows /\ Data(rows) \subseteq M /\ Data(M) = Data(rows) /\ Data(rows) \subseteq rows
    BY DEF Data, Of
  <1>2. \A f \in rows : pr[f] = ScopesOf(f)
    OBVIOUS
  <1>3. {ScopesOf(f) : f \in M} = {pr[f] : f \in M}
    <2> HIDE DEF M, ScopesOf
    <2> QED
      BY <1>1, <1>2
  <1>4. \A p : {f \in Data(M) : ScopesOf(f) = p} = {f \in Data(rows) : pr[f] = p}
    <2> HIDE DEF M, ScopesOf
    <2> QED
      BY <1>1, <1>2
  <1>5. DOMAIN N = {ScopesOf(f) : f \in M}
    BY DEF NetworkPairs
  <1>6. \A p \in {ScopesOf(f) : f \in M} :
           /\ N[p].bytes = Total({f \in Data(M) : ScopesOf(f) = p})
           /\ N[p].spark = ByBucket({f \in Data(M) : ScopesOf(f) = p})
    BY DEF NetworkPairs, ByBucket
  <1> HIDE DEF M, ScopesOf
  <1> QED
    BY <1>1, <1>3, <1>4, <1>5, <1>6 DEF IsNetwork

\* For any two scopes, the pairs add up to all bytes and the buckets to the pairs.
LEMMA NetworkAddsUp ==
    ASSUME NEW rows, Counted(rows), NEW from, NEW to
    PROVE  PairsAddUp(rows, from, to)
  <1> DEFINE N == NetworkPairs(rows, from, to)
             pr == [f \in rows |-> <<ScopeOf(f, "a", from), ScopeOf(f, "b", to)>>]
             R == Data(rows)
             k == [f \in R |-> pr[f]]
  <1>1. R \in SUBSET rows
    BY DEF Data, Of
  <1>2. Counted(R) /\ IsFiniteSet(rows)
    BY <1>1, CountedIs
  <1>3. N = NetworkPairs(rows, from, to) /\ pr = [f \in rows |-> <<ScopeOf(f, "a", from), ScopeOf(f, "b", to)>>]
    OBVIOUS
  <1>9. R = Data(rows)
    OBVIOUS
  <1> HIDE DEF N, pr
  <1>4. /\ \E M \in SUBSET rows : R \subseteq M /\ DOMAIN N = {pr[f] : f \in M}
        /\ \A p \in DOMAIN N : /\ N[p].bytes = Total({f \in R : pr[f] = p})
                              /\ N[p].spark = ByBucket({f \in R : pr[f] = p})
    <2>1. IsNetwork(N, rows, pr)
      BY <1>3, NetworkIs
    <2> QED
      BY <2>1 DEF IsNetwork
  <1> HIDE DEF R
  <1>5. PICK M \in SUBSET rows : R \subseteq M /\ DOMAIN N = {pr[f] : f \in M}
    BY <1>4
  <1>6. IsFiniteSet(DOMAIN N)
    <2>1. IsFiniteSet(M)
      BY <1>2, FS_Subset
    <2> QED
      BY <1>5, <2>1, ImageIsFinite
  <1>7. k \in [R -> DOMAIN N]
    BY <1>5
  <1>8. \A p \in DOMAIN N : Part(k, R, p) \in SUBSET R /\ Part(k, R, p) = {f \in R : pr[f] = p}
    BY DEF Part
  <1> HIDE DEF k
  <1>10. SumOf(N, "bytes") = Total(R)
    <2>1. PICK g : IsFold(g, Values(R), R) /\ \A T \in SUBSET R : Total(T) = g[T]
      BY <1>2, TotalIsFold
    <2>2. \A p \in DOMAIN N : N[p]["bytes"] = g[Part(k, R, p)]
      BY <1>4, <1>8, <2>1
    <2>3. SumOf(N, "bytes") = g[R]
      BY <1>6, <1>7, <2>1, <2>2, PartsAddUp
    <2> QED
      BY <2>1, <2>3
  <1>11. ASSUME NEW p \in DOMAIN N PROVE SumOf(N[p].spark, "bytes") = N[p].bytes
    <2> DEFINE mine == {f \in R : pr[f] = p}
               lab == [f \in mine |-> f.bucket]
    <2>1. Counted(mine)
      BY <1>2, CountedIs
    <2>2. N[p].spark = ByBucket(mine) /\ N[p].bytes = Total(mine)
      BY <1>4
    <2> HIDE DEF mine
    <2>3. ByBucket(mine) = Account(mine, lab)
      BY BucketLedger DEF ByBucket
    <2> HIDE DEF lab
    <2>4. SumOf(Account(mine, lab), "bytes") = Total(mine)
      BY <2>1, AccountAddsUp
    <2> QED
      BY <2>2, <2>3, <2>4
  <1> QED
    BY <1>9, <1>10, <1>11 DEF PairsAddUp, N

AddsUpTo(L, bytes, usd) == SumOf(L, "bytes") = bytes /\ SumOf(L, "usd") = usd

LEMMA LedgersAre ==
    ASSUME NEW R, Counted(R)
    PROVE  /\ AddsUpTo(Ledger(R, LAMBDA f : f.category), Total(R), UsdOf(R))
           /\ AddsUpTo(Ledger(R, LAMBDA f : <<f.category, f.bucket>>), Total(R), UsdOf(R))
           /\ AddsUpTo(Ledger(R, LAMBDA f : ClusterOf[f.monitor]), Total(R), UsdOf(R))
           /\ AddsUpTo(Ledger(R, LAMBDA f : f.monitor), Total(R), UsdOf(R))
           /\ AddsUpTo(Ledger(R, LAMBDA f : f.bucket), Total(R), UsdOf(R))
           /\ AddsUpTo(Ledger(R, LAMBDA f : <<f.a.region, f.b.region>>), Total(R), UsdOf(R))
  <1>1. ASSUME NEW lab, NEW L, L = Account(R, lab)
        PROVE  AddsUpTo(L, Total(R), UsdOf(R))
    BY <1>1, AccountAddsUp DEF AddsUpTo
  <1>2. AddsUpTo(Ledger(R, LAMBDA f : f.category), Total(R), UsdOf(R))
    <2> DEFINE L == Ledger(R, LAMBDA f : f.category)
               lab == [f \in R |-> f.category]
    <2>1. L = Account(R, lab)
      BY CategoryLedger
    <2> HIDE DEF L, lab
    <2>2. AddsUpTo(L, Total(R), UsdOf(R))
      BY <1>1, <2>1
    <2> QED
      BY <2>2 DEF L
  <1>3. AddsUpTo(Ledger(R, LAMBDA f : <<f.category, f.bucket>>), Total(R), UsdOf(R))
    <2> DEFINE L == Ledger(R, LAMBDA f : <<f.category, f.bucket>>)
               lab == [f \in R |-> <<f.category, f.bucket>>]
    <2>1. L = Account(R, lab)
      BY SeriesLedger
    <2> HIDE DEF L, lab
    <2>2. AddsUpTo(L, Total(R), UsdOf(R))
      BY <1>1, <2>1
    <2> QED
      BY <2>2 DEF L
  <1>4. AddsUpTo(Ledger(R, LAMBDA f : ClusterOf[f.monitor]), Total(R), UsdOf(R))
    <2> DEFINE L == Ledger(R, LAMBDA f : ClusterOf[f.monitor])
               lab == [f \in R |-> ClusterOf[f.monitor]]
    <2>1. L = Account(R, lab)
      BY ClusterLedger
    <2> HIDE DEF L, lab
    <2>2. AddsUpTo(L, Total(R), UsdOf(R))
      BY <1>1, <2>1
    <2> QED
      BY <2>2 DEF L
  <1>5. AddsUpTo(Ledger(R, LAMBDA f : f.monitor), Total(R), UsdOf(R))
    <2> DEFINE L == Ledger(R, LAMBDA f : f.monitor)
               lab == [f \in R |-> f.monitor]
    <2>1. L = Account(R, lab)
      BY MonitorLedger
    <2> HIDE DEF L, lab
    <2>2. AddsUpTo(L, Total(R), UsdOf(R))
      BY <1>1, <2>1
    <2> QED
      BY <2>2 DEF L
  <1>6. AddsUpTo(Ledger(R, LAMBDA f : f.bucket), Total(R), UsdOf(R))
    <2> DEFINE L == Ledger(R, LAMBDA f : f.bucket)
               lab == [f \in R |-> f.bucket]
    <2>1. L = Account(R, lab)
      BY BucketLedger
    <2> HIDE DEF L, lab
    <2>2. AddsUpTo(L, Total(R), UsdOf(R))
      BY <1>1, <2>1
    <2> QED
      BY <2>2 DEF L
  <1>7. AddsUpTo(Ledger(R, LAMBDA f : <<f.a.region, f.b.region>>), Total(R), UsdOf(R))
    <2> DEFINE L == Ledger(R, LAMBDA f : <<f.a.region, f.b.region>>)
               lab == [f \in R |-> <<f.a.region, f.b.region>>]
    <2>1. L = Account(R, lab)
      BY ArcLedger
    <2> HIDE DEF L, lab
    <2>2. AddsUpTo(L, Total(R), UsdOf(R))
      BY <1>1, <2>1
    <2> QED
      BY <2>2 DEF L
  <1> QED
    BY <1>2, <1>3, <1>4, <1>5, <1>6, <1>7

\* What the lenses of a window say of the money and the bytes adds up, for any finite
\* set of rows, any labels and any billed categories (costLens, costExplorerLens,
\* efficiencyLens, networkAnalyticsLens, composition).
THEOREM AccountsAddUp ==
    ASSUME NEW rows, Counted(rows)
    PROVE  LedgersAddUp(rows) /\ \A from, to : PairsAddUp(rows, from, to)
  <1> DEFINE data == Data(rows)
             arcs == {f \in data : /\ f.category = "INTER_REGION" /\ f.a.region # f.b.region
                                   /\ 0 \notin {f.a.region, f.b.region}}
             inter == {f \in data : f.category = "INTER_REGION"}
             billed == {f \in data : f.category \in Billed}
             crossing == {f \in data : f.a.ns # f.b.ns /\ 0 \notin {f.a.ns, f.b.ns}}
  <1>1. data \in SUBSET rows
    BY DEF Data, Of
  <1>2. Counted(data)
    BY <1>1, CountedIs
  <1>3. AddsUpTo(CostLens(rows).byCategory, Total(data), UsdOf(data))
    <2> DEFINE L == Ledger(data, LAMBDA f : f.category)
    <2>1. CostLens(rows).byCategory = L
      BY DEF CostLens
    <2>2. AddsUpTo(L, Total(data), UsdOf(data))
      BY <1>2, LedgersAre
    <2> HIDE DEF L
    <2> QED
      BY <2>1, <2>2
  <1>4. AddsUpTo(CostLens(rows).series, Total(data), UsdOf(data))
    <2> DEFINE L == Ledger(data, LAMBDA f : <<f.category, f.bucket>>)
    <2>1. CostLens(rows).series = L
      BY DEF CostLens
    <2>2. AddsUpTo(L, Total(data), UsdOf(data))
      BY <1>2, LedgersAre
    <2> HIDE DEF L
    <2> QED
      BY <2>1, <2>2
  <1>5. AddsUpTo(CostExplorer(rows).byCluster, Total(data), UsdOf(data))
    <2> DEFINE L == Ledger(data, LAMBDA f : ClusterOf[f.monitor])
    <2>1. CostExplorer(rows).byCluster = L
      BY DEF CostExplorer
    <2>2. AddsUpTo(L, Total(data), UsdOf(data))
      BY <1>2, LedgersAre
    <2> HIDE DEF L
    <2> QED
      BY <2>1, <2>2
  <1>6. AddsUpTo(CostExplorer(rows).byMonitor, Total(data), UsdOf(data))
    <2> DEFINE L == Ledger(data, LAMBDA f : f.monitor)
    <2>1. CostExplorer(rows).byMonitor = L
      BY DEF CostExplorer
    <2>2. AddsUpTo(L, Total(data), UsdOf(data))
      BY <1>2, LedgersAre
    <2> HIDE DEF L
    <2> QED
      BY <2>1, <2>2
  <1>7. AddsUpTo(CostExplorer(rows).trend, Total(data), UsdOf(data))
    <2> DEFINE L == Ledger(data, LAMBDA f : f.bucket)
    <2>1. CostExplorer(rows).trend = L
      BY DEF CostExplorer
    <2>2. AddsUpTo(L, Total(data), UsdOf(data))
      BY <1>2, LedgersAre
    <2> HIDE DEF L
    <2> QED
      BY <2>1, <2>2
  <1>8. AddsUpTo(Efficiency(rows).trend, Total(data), UsdOf(data))
    <2> DEFINE L == Ledger(data, LAMBDA f : f.bucket)
    <2>1. Efficiency(rows).trend = L
      BY DEF Efficiency
    <2>2. AddsUpTo(L, Total(data), UsdOf(data))
      BY <1>2, LedgersAre
    <2> HIDE DEF L
    <2> QED
      BY <2>1, <2>2
  <1>9. /\ CostLens(rows).total = UsdOf(data) /\ CostExplorer(rows).total = UsdOf(data)
        /\ Efficiency(rows).usd = UsdOf(data) /\ Efficiency(rows).bytes = Total(data)
        /\ Efficiency(rows).billed = UsdOf(data)
    <2>1. CostLens(rows).total = UsdOf(data)
      BY DEF CostLens
    <2>2. CostExplorer(rows).total = UsdOf(data)
      BY DEF CostExplorer
    <2>3. /\ Efficiency(rows).usd = UsdOf(data) /\ Efficiency(rows).bytes = Total(data)
          /\ Efficiency(rows).billed = Total(billed)
      BY DEF Efficiency
    <2>4. UsdOf(data) = Total(billed)
      BY <1>2, BilledIs
    <2> QED
      BY <2>1, <2>2, <2>3, <2>4
  <1>10. /\ SumOf(CostExplorer(rows).byNamespace, "usd") = UsdOf(data) + UsdOf(crossing)
         /\ SumOf(CostExplorer(rows).byNamespace, "bytes") = Total(data) + Total(crossing)
    <2>1. CostExplorer(rows).byNamespace = NamespaceAccounts(data)
      BY DEF CostExplorer
    <2>2. crossing = Crossing(data)
      BY DEF Crossing, Crosses
    <2> QED
      BY <1>2, <2>1, <2>2, NamespacesAddUp
  <1>11. LET known == Composition(rows).namespaces
             spent == CostExplorer(rows).byNamespace
         IN \A ns \in (DOMAIN known \cup DOMAIN spent) \ {0} :
               ns \in DOMAIN known /\ ns \in DOMAIN spent /\ known[ns] = spent[ns].bytes
    <2> DEFINE known == Composition(rows).namespaces
               spent == CostExplorer(rows).byNamespace
    <2>1. known = [ns \in Entities(data, "namespace") |-> Total(Touching(data, "namespace", ns))]
      BY DEF Composition
    <2>2. spent = NamespaceAccounts(data)
      BY DEF CostExplorer
    <2>3. /\ DOMAIN known = UNION {Touches(f, "namespace") : f \in data}
          /\ \A ns \in DOMAIN known : known[ns] = Total({f \in data : ns \in Touches(f, "namespace")})
      BY <2>1 DEF Entities, Touching
    <2>4. /\ DOMAIN spent = UNION {NamespacesOf(f) : f \in data}
          /\ \A ns \in DOMAIN spent : spent[ns].bytes = Total({f \in data : ns \in NamespacesOf(f)})
      BY <2>2 DEF NamespaceAccounts
    <2> HIDE DEF known, spent, data
    <2>5. \A ns, f : ns # 0 => (ns \in Touches(f, "namespace") <=> ns \in NamespacesOf(f))
      BY NamespacesAre
    <2>6. ASSUME NEW ns \in (DOMAIN known \cup DOMAIN spent) \ {0}
          PROVE  ns \in DOMAIN known /\ ns \in DOMAIN spent /\ known[ns] = spent[ns].bytes
      <3>1. ns # 0 /\ {f \in data : ns \in Touches(f, "namespace")} = {f \in data : ns \in NamespacesOf(f)}
        BY <2>5
      <3>2. ns \in DOMAIN known /\ ns \in DOMAIN spent
        BY <2>3, <2>4, <2>5, <3>1
      <3> QED
        BY <2>3, <2>4, <3>1, <3>2
    <2> QED
      BY <2>6 DEF known, spent
  <1>12. Composition(rows).categories = CostLens(rows).byCategory
    <2> DEFINE L == Ledger(data, LAMBDA f : f.category)
    <2>1. CostLens(rows).byCategory = L
      BY DEF CostLens
    <2>2. Composition(rows).categories = L
      BY DEF Composition
    <2> HIDE DEF L
    <2> QED
      BY <2>1, <2>2
  <1>13. SumOf(CostLens(rows).arcs, "usd") <= UsdOf(inter)
    <2> DEFINE L == Ledger(arcs, LAMBDA f : <<f.a.region, f.b.region>>)
    <2>1. CostLens(rows).arcs = L
      BY DEF CostLens
    <2>2. arcs \in SUBSET inter /\ arcs \in SUBSET data /\ inter \in SUBSET data
      OBVIOUS
    <2> HIDE DEF arcs, inter, data
    <2>3. Counted(arcs) /\ Counted(inter)
      BY <1>2, <2>2, CountedIs
    <2>4. AddsUpTo(L, Total(arcs), UsdOf(arcs))
      BY <2>3, LedgersAre
    <2> HIDE DEF L
    <2>5. UsdOf(arcs) <= UsdOf(inter)
      BY <2>2, <2>3, UsdGrows
    <2> QED
      BY <2>1, <2>4, <2>5 DEF AddsUpTo
  <1>14. \A from, to : PairsAddUp(rows, from, to)
    BY NetworkAddsUp
  <1>15. LedgersAddUp(rows)
    <2> DEFINE cost == CostLens(rows)
               explorer == CostExplorer(rows)
               all == Efficiency(rows)
               composition == Composition(rows)
    <2>1. /\ SumOf(cost.byCategory, "usd") = cost.total /\ SumOf(cost.byCategory, "bytes") = all.bytes
          /\ SumOf(cost.series, "usd") = cost.total /\ SumOf(cost.series, "bytes") = all.bytes
          /\ SumOf(explorer.byCluster, "usd") = cost.total /\ SumOf(explorer.byCluster, "bytes") = all.bytes
          /\ SumOf(explorer.byMonitor, "usd") = cost.total /\ SumOf(explorer.byMonitor, "bytes") = all.bytes
          /\ SumOf(explorer.trend, "usd") = cost.total /\ SumOf(explorer.trend, "bytes") = all.bytes
          /\ SumOf(all.trend, "usd") = cost.total /\ SumOf(all.trend, "bytes") = all.bytes
      BY <1>3, <1>4, <1>5, <1>6, <1>7, <1>8, <1>9 DEF AddsUpTo
    <2>2. cost.total = explorer.total /\ cost.total = all.usd /\ all.usd = all.billed
      BY <1>9
    <2>3. /\ SumOf(explorer.byNamespace, "usd") = cost.total + UsdOf(crossing)
          /\ SumOf(explorer.byNamespace, "bytes") = all.bytes + Total(crossing)
      BY <1>9, <1>10
    <2>4. \A ns \in (DOMAIN composition.namespaces \cup DOMAIN explorer.byNamespace) \ {0} :
             /\ ns \in DOMAIN composition.namespaces /\ ns \in DOMAIN explorer.byNamespace
             /\ composition.namespaces[ns] = explorer.byNamespace[ns].bytes
      BY <1>11
    <2>5. composition.categories = cost.byCategory /\ SumOf(cost.arcs, "usd") <= UsdOf(inter)
      BY <1>12, <1>13
    <2>6. PairsAddUp(rows, "service", "category") /\ PairsAddUp(rows, "port", "az")
      BY <1>14
    <2> HIDE DEF cost, explorer, all, composition
    <2> QED
      BY <2>1, <2>2, <2>3, <2>4, <2>5, <2>6 DEF LedgersAddUp, cost, explorer, all, composition
  <1> QED
    BY <1>14, <1>15

-----------------------------------------------------------------------------
(* The plans of windows and the cache (app/src/lib/ddb.ts).                *)

USE HourAssumption, BucketAssumption

PlanPart == [grain : {"raw", "hourly"}, bucket : Int]
PartSeq == Seq(PlanPart)
-----------------------------------------------------------------------------
\* An hour starts at most HourLen - 1 ticks before any tick of it.
LEMMA HourOfBounds ==
    ASSUME NEW t \in Int
    PROVE  /\ HourOf(t) \in Int
           /\ HourOf(t) <= t
           /\ t < HourOf(t) + HourLen
  <1>1. t % HourLen \in 0 .. HourLen - 1
    OBVIOUS
  <1> QED
    BY <1>1 DEF HourOf

\* Rounding adds half an hour at most, and a long window has two hours.
LEMMA HoursBounds ==
    ASSUME NEW k \in Nat, k > Switch
    PROVE  /\ Hours(k) \in Nat
           /\ Hours(k) >= 2
           /\ 2 * (Hours(k) * HourLen) <= 2 * k + HourLen
  <1> DEFINE a == 2 * k + HourLen
             b == 2 * HourLen
  <1>1. a \in Nat /\ b \in Nat \ {0}
    OBVIOUS
  <1>2. a \div b \in Int /\ b * (a \div b) <= a /\ a < b * (a \div b) + b
    <2> HIDE DEF a, b
    <2> QED
      BY <1>1
  <1>3. a >= 2 * b
    OBVIOUS
  <1> DEFINE q == a \div b
  <1>4. q >= 2
    <2>1. SUFFICES ASSUME q <= 1 PROVE FALSE
      BY <1>2
    <2>2. b * q <= b
      <3> HIDE DEF a, b
      <3>1. q \in Int /\ b \in Nat
        BY <1>1, <1>2
      <3> HIDE DEF q
      <3> QED
        BY <2>1, <3>1
    <2> QED
      BY <2>2, <1>2, <1>3
  <1>5. b * q = 2 * (q * HourLen)
    BY <1>2
  <1> QED
    BY <1>2, <1>4, <1>5 DEF Hours

\* The parts of a plan are a part for each bucket.
LEMMA PartsType ==
    ASSUME NEW grain \in {"raw", "hourly"}, NEW k \in Nat,
           NEW buckets \in [1 .. k -> Int]
    PROVE  /\ Parts(grain, buckets) \in PartSeq
           /\ Len(Parts(grain, buckets)) = k
           /\ \A i \in 1 .. k :
                Parts(grain, buckets)[i] = [grain |-> grain, bucket |-> buckets[i]]
  <1>1. buckets \in Seq(Int) /\ Len(buckets) = k
    OBVIOUS
  <1> QED
    BY <1>1 DEF Parts, PartSeq, PlanPart

\* The part at each place of the two kinds of sequence plans are made of.
LEMMA RecentParts ==
    ASSUME NEW k \in Nat, NEW t \in Int
    PROVE  LET parts == Parts("raw", RecentBuckets(k, t))
           IN  /\ parts \in PartSeq
               /\ Len(parts) = k
               /\ \A i \in 1 .. k : parts[i] = [grain |-> "raw", bucket |-> t - (i - 1)]
  <1>1. RecentBuckets(k, t) \in [1 .. k -> Int]
    BY DEF RecentBuckets
  <1> QED
    BY <1>1, PartsType DEF RecentBuckets

LEMMA HoursParts ==
    ASSUME NEW k \in Nat, NEW open \in Int
    PROVE  LET parts == Parts("hourly", ClosedHours(k, open))
           IN  /\ parts \in PartSeq
               /\ Len(parts) = k
               /\ \A i \in 1 .. k :
                    /\ parts[i] = [grain |-> "hourly", bucket |-> open - i * HourLen]
                    /\ i * HourLen \in HourLen .. k * HourLen
  <1>1. ClosedHours(k, open) \in [1 .. k -> Int]
    BY DEF ClosedHours
  <1>2. \A i \in 1 .. k : i * HourLen \in HourLen .. k * HourLen
    OBVIOUS
  <1> QED
    BY <1>1, <1>2, PartsType DEF ClosedHours

\* The last k buckets tile the last k ticks.
LEMMA RecentTile ==
    ASSUME NEW k \in Nat \ {0}, NEW t \in Int
    PROVE  Tile(Parts("raw", RecentBuckets(k, t)), t - k + 1, t)
  <1> DEFINE parts == Parts("raw", RecentBuckets(k, t))
  <1>1. /\ Len(parts) = k
        /\ \A i \in 1 .. k : parts[i] = [grain |-> "raw", bucket |-> t - (i - 1)]
    BY RecentParts
  <1> HIDE DEF parts
  <1>2. parts # <<>> /\ To(parts[1]) = t /\ From(parts[k]) = t - k + 1
    BY <1>1 DEF From, To
  <1>3. \A i \in 1 .. k - 1 : From(parts[i]) = To(parts[i + 1]) + 1
    BY <1>1 DEF From, To
  <1>4. Tile(parts, t - k + 1, t)
    BY <1>1, <1>2, <1>3 DEF Tile
  <1> QED
    BY <1>4 DEF parts

\* The last hours before a tick tile the ticks they are long.
LEMMA HoursTile ==
    ASSUME NEW k \in Nat \ {0}, NEW open \in Int
    PROVE  Tile(Parts("hourly", ClosedHours(k, open)), open - k * HourLen, open - 1)
  <1> DEFINE parts == Parts("hourly", ClosedHours(k, open))
  <1>1. /\ Len(parts) = k
        /\ \A i \in 1 .. k :
             parts[i] = [grain |-> "hourly", bucket |-> open - i * HourLen]
    BY HoursParts
  <1> HIDE DEF parts
  <1>2. parts # <<>> /\ To(parts[1]) = open - 1 /\ From(parts[k]) = open - k * HourLen
    BY <1>1 DEF From, To
  <1>3. ASSUME NEW i \in 1 .. k - 1
        PROVE  From(parts[i]) = To(parts[i + 1]) + 1
    <2>1. /\ parts[i].bucket = open - i * HourLen
          /\ parts[i + 1].bucket = open - (i + 1) * HourLen
          /\ parts[i + 1].grain = "hourly"
      <3>1. i \in 1 .. k /\ i + 1 \in 1 .. k
        OBVIOUS
      <3>2. parts[i] = [grain |-> "hourly", bucket |-> open - i * HourLen]
        BY <1>1, <3>1
      <3>3. parts[i + 1] = [grain |-> "hourly", bucket |-> open - (i + 1) * HourLen]
        BY <1>1, <3>1
      <3> QED
        BY <3>2, <3>3
    <2>2. (i + 1) * HourLen = i * HourLen + HourLen /\ i * HourLen \in Int
      OBVIOUS
    <2>3. From(parts[i]) = open - i * HourLen
      BY <2>1 DEF From
    <2>4. To(parts[i + 1]) = open - (i + 1) * HourLen + HourLen - 1
      BY <2>1 DEF To
    <2> QED
      BY <2>2, <2>3, <2>4
  <1>4. Tile(parts, open - k * HourLen, open - 1)
    BY <1>1, <1>2, <1>3 DEF Tile
  <1> QED
    BY <1>4 DEF parts

\* Tilings that meet make a tiling.
LEMMA TilesMeet ==
    ASSUME NEW p \in PartSeq, NEW q \in PartSeq,
           NEW from \in Int, NEW mid \in Int, NEW to \in Int,
           Tile(p, mid + 1, to), Tile(q, from, mid)
    PROVE  Tile(p \o q, from, to)
  <1> DEFINE a == Len(p)
             b == Len(q)
             r == p \o q
  <1>1. a \in Nat \ {0} /\ b \in Nat \ {0} /\ Len(r) = a + b
    BY DEF Tile, PartSeq
  <1>2. \A i \in 1 .. a : r[i] = p[i]
    BY <1>1 DEF PartSeq
  <1>3. \A i \in 1 .. b : r[a + i] = q[i]
    BY <1>1 DEF PartSeq
  <1>4. r # <<>>
    BY <1>1
  <1> HIDE DEF r
  <1>5. To(r[1]) = to /\ From(r[a + b]) = from
    BY <1>1, <1>2, <1>3 DEF Tile
  <1>6. ASSUME NEW i \in 1 .. a + b - 1
        PROVE  From(r[i]) = To(r[i + 1]) + 1
    <2>1. CASE i < a
      BY <2>1, <1>1, <1>2 DEF Tile
    <2>2. CASE i = a
      <3>1. r[i] = p[a] /\ r[i + 1] = q[1]
        BY <2>2, <1>1, <1>2, <1>3
      <3> QED
        BY <3>1 DEF Tile
    <2>3. CASE i > a
      <3>1. i - a \in 1 .. b - 1 /\ r[i] = q[i - a] /\ r[i + 1] = q[(i - a) + 1]
        <4>1. i - a \in 1 .. b - 1 /\ i - a \in 1 .. b /\ i - a + 1 \in 1 .. b
          BY <2>3, <1>1
        <4>2. a + (i - a) = i /\ a + (i - a + 1) = i + 1
          BY <1>1
        <4>3. r[a + (i - a)] = q[i - a]
          BY <4>1, <1>3
        <4>4. r[a + (i - a + 1)] = q[i - a + 1]
          BY <4>1, <1>3
        <4> QED
          BY <4>1, <4>2, <4>3, <4>4
      <3> QED
        BY <3>1 DEF Tile
    <2> QED
      BY <2>1, <2>2, <2>3, <1>1
  <1>7. Tile(r, from, to)
    BY <1>1, <1>4, <1>5, <1>6 DEF Tile
  <1> QED
    BY <1>7 DEF r

\* The halves of a sequence of parts, element by element.
LEMMA HalvesElements ==
    ASSUME NEW p \in PartSeq, NEW half \in Nat \ {0}, Len(p) = 2 * half, NEW ticks
    PROVE  LET h == Halves(p, half, ticks)
           IN  /\ h.ticks = ticks
               /\ h.current \in PartSeq /\ Len(h.current) = half
               /\ h.prior \in PartSeq /\ Len(h.prior) = half
               /\ \A i \in 1 .. half : h.current[i] = p[i] /\ h.prior[i] = p[half + i]
  <1> DEFINE c == SubSeq(p, 1, half)
             q == SubSeq(p, half + 1, Len(p))
  <1>1. c \in PartSeq /\ Len(c) = half /\ \A i \in 1 .. half : c[i] = p[i]
    <2>1. \A i \in 1 .. half : p[i] \in PlanPart
      BY DEF PartSeq
    <2>2. /\ c \in Seq(PlanPart)
          /\ Len(c) = IF 1 <= half THEN half - 1 + 1 ELSE 0
          /\ \A i \in 1 .. half - 1 + 1 : c[i] = p[1 + i - 1]
      BY <2>1, SubSeqProperties
    <2> QED
      BY <2>2 DEF PartSeq
  <1>2. q \in PartSeq /\ Len(q) = half /\ \A i \in 1 .. half : q[i] = p[half + i]
    <2>1. \A i \in half + 1 .. 2 * half : p[i] \in PlanPart
      BY DEF PartSeq
    <2>2. /\ q \in Seq(PlanPart)
          /\ Len(q) = IF half + 1 <= 2 * half THEN 2 * half - (half + 1) + 1 ELSE 0
          /\ \A i \in 1 .. 2 * half - (half + 1) + 1 : q[i] = p[half + 1 + i - 1]
      BY <2>1, SubSeqProperties
    <2> QED
      BY <2>2 DEF PartSeq
  <1>3. Halves(p, half, ticks) = [current |-> c, prior |-> q, ticks |-> ticks]
    BY DEF Halves
  <1> QED
    BY <1>1, <1>2, <1>3

\* A tiling cut in half makes two that meet.
LEMMA TileCut ==
    ASSUME NEW p \in PartSeq, NEW half \in Nat \ {0}, Len(p) = 2 * half, NEW ticks,
           NEW from \in Int, NEW to \in Int, Tile(p, from, to)
    PROVE  LET h == Halves(p, half, ticks)
           IN  /\ Tile(h.current, From(p[half]), to)
               /\ Tile(h.prior, from, From(p[half]) - 1)
  <1> DEFINE h == Halves(p, half, ticks)
  <1>1. /\ h.current \in PartSeq /\ Len(h.current) = half
        /\ h.prior \in PartSeq /\ Len(h.prior) = half
        /\ \A i \in 1 .. half : h.current[i] = p[i] /\ h.prior[i] = p[half + i]
    BY HalvesElements
  <1>2. /\ To(p[1]) = to
        /\ \A i \in 1 .. 2 * half - 1 : From(p[i]) = To(p[i + 1]) + 1
        /\ From(p[2 * half]) = from
    BY DEF Tile
  <1> HIDE DEF h
  <1>3. Tile(h.current, From(p[half]), to)
    <2>1. ASSUME NEW i \in 1 .. half - 1
          PROVE  From(h.current[i]) = To(h.current[i + 1]) + 1
      <3>1. h.current[i] = p[i] /\ h.current[i + 1] = p[i + 1] /\ i \in 1 .. 2 * half - 1
        BY <1>1
      <3> QED
        BY <1>2, <3>1
    <2>2. h.current # <<>> /\ h.current[1] = p[1] /\ h.current[half] = p[half]
      BY <1>1
    <2> QED
      BY <1>1, <1>2, <2>1, <2>2 DEF Tile
  <1>4. Tile(h.prior, from, From(p[half]) - 1)
    <2>1. ASSUME NEW i \in 1 .. half - 1
          PROVE  From(h.prior[i]) = To(h.prior[i + 1]) + 1
      <3>1. h.prior[i] = p[half + i] /\ h.prior[i + 1] = p[half + (i + 1)]
        <4>1. i \in 1 .. half /\ i + 1 \in 1 .. half
          OBVIOUS
        <4>2. h.prior[i] = p[half + i]
          BY <1>1, <4>1
        <4>3. h.prior[i + 1] = p[half + (i + 1)]
          BY <1>1, <4>1
        <4> QED
          BY <4>2, <4>3
      <3>2. half + i \in 1 .. 2 * half - 1 /\ half + (i + 1) = (half + i) + 1
        OBVIOUS
      <3> QED
        BY <1>2, <3>1, <3>2
    <2>2. h.prior # <<>> /\ h.prior[1] = p[half + 1] /\ h.prior[half] = p[2 * half]
      <3>1. half + half = 2 * half
        OBVIOUS
      <3> QED
        BY <1>1, <3>1
    <2>3. half \in 1 .. Len(p) /\ half + 1 \in 1 .. Len(p)
      OBVIOUS
    <2>4. From(p[half]) \in Int /\ To(p[half + 1]) \in Int
      <3>1. p[half] \in PlanPart /\ p[half + 1] \in PlanPart
        BY <2>3 DEF PartSeq
      <3> QED
        BY <3>1 DEF From, To, PlanPart
    <2>5. From(p[half]) = To(p[half + 1]) + 1
      BY <1>2
    <2>6. To(h.prior[1]) = From(p[half]) - 1
      BY <2>2, <2>4, <2>5
    <2> QED
      BY <1>1, <1>2, <2>1, <2>2, <2>6 DEF Tile
  <1> QED
    BY <1>3, <1>4 DEF h
-----------------------------------------------------------------------------
\* A part that may be read at a tick: its rows are there, and still are.
Sound(part, t) ==
    /\ part.grain = "hourly" => To(part) + 1 + Lag <= t
    /\ t - To(part) < (IF part.grain = "raw" THEN RawTTL ELSE RollupTTL)

AllSound(parts, t) == \A i \in 1 .. Len(parts) : Sound(parts[i], t)

\* Raw buckets are kept long enough for the raw part of a plan.
LEMMA RecentSound ==
    ASSUME NEW k \in Nat, NEW t \in Int, k <= 2 * Switch
    PROVE  AllSound(Parts("raw", RecentBuckets(k, t)), t)
  <1> DEFINE parts == Parts("raw", RecentBuckets(k, t))
  <1>1. /\ Len(parts) = k
        /\ \A i \in 1 .. k : parts[i] = [grain |-> "raw", bucket |-> t - (i - 1)]
    BY RecentParts
  <1> HIDE DEF parts
  <1>2. AllSound(parts, t)
    BY <1>1, TTLAssumption DEF AllSound, Sound, To
  <1> QED
    BY <1>2 DEF parts

\* The hours before the newest closed one are rolled up and kept.
LEMMA HoursSound ==
    ASSUME NEW k \in Nat, NEW t \in Int, k * HourLen + HourLen < RollupTTL
    PROVE  AllSound(Parts("hourly", ClosedHours(k, HourOf(t) - HourLen)), t)
  <1> DEFINE open == HourOf(t) - HourLen
             parts == Parts("hourly", ClosedHours(k, open))
  <1>1. HourOf(t) \in Int /\ HourOf(t) <= t /\ t < HourOf(t) + HourLen
    BY HourOfBounds
  <1>2. open \in Int
    BY <1>1
  <1>3. /\ Len(parts) = k
        /\ \A i \in 1 .. k :
             /\ parts[i] = [grain |-> "hourly", bucket |-> open - i * HourLen]
             /\ i * HourLen \in HourLen .. k * HourLen
    BY <1>2, HoursParts
  <1> HIDE DEF parts
  <1>4. ASSUME NEW i \in 1 .. k
        PROVE  Sound(parts[i], t)
    <2> DEFINE d == i * HourLen
    <2>1. parts[i].grain = "hourly" /\ parts[i].bucket = open - d
      BY <1>3
    <2>2. d \in Int /\ HourLen <= d /\ d <= k * HourLen
      BY <1>3
    <2>3. k * HourLen \in Int
      OBVIOUS
    <2>4. To(parts[i]) = open - d + HourLen - 1
      BY <2>1 DEF To
    <2> HIDE DEF d
    <2>5. To(parts[i]) + 1 + Lag <= t
      BY <1>1, <2>2, <2>4, LagAssumption
    <2>6. t - To(parts[i]) < RollupTTL
      BY <1>1, <2>2, <2>3, <2>4, TTLAssumption
    <2> QED
      BY <2>1, <2>5, <2>6 DEF Sound
  <1>5. AllSound(parts, t)
    BY <1>3, <1>4 DEF AllSound
  <1> QED
    BY <1>5 DEF parts

LEMMA SoundTogether ==
    ASSUME NEW p \in PartSeq, NEW q \in PartSeq, NEW t \in Int,
           AllSound(p, t), AllSound(q, t)
    PROVE  AllSound(p \o q, t)
  <1>1. ASSUME NEW i \in 1 .. Len(p \o q)
        PROVE  Sound((p \o q)[i], t)
    <2>1. CASE i <= Len(p)
      BY <2>1 DEF AllSound, PartSeq
    <2>2. CASE i > Len(p)
      <3>1. i - Len(p) \in 1 .. Len(q) /\ (p \o q)[i] = q[i - Len(p)]
        BY <2>2, ConcatProperties DEF PartSeq
      <3> QED
        BY <3>1 DEF AllSound
    <2> QED
      BY <2>1, <2>2 DEF PartSeq
  <1> QED
    BY <1>1 DEF AllSound
-----------------------------------------------------------------------------
\* What a window is made of, wherever the clock stands in the hour.
LEMMA WindowSound ==
    ASSUME NEW k \in 1 .. MaxBuckets, NEW t \in Int
    PROVE  LET w == PlanOf(k, t)
           IN  /\ w.parts \in PartSeq
               /\ Tile(w.parts, t - w.ticks + 1, t)
               /\ AllSound(w.parts, t)
  <1>1. CASE k <= Switch
    <2>1. /\ Parts("raw", RecentBuckets(k, t)) \in PartSeq
          /\ Tile(Parts("raw", RecentBuckets(k, t)), t - k + 1, t)
          /\ AllSound(Parts("raw", RecentBuckets(k, t)), t)
      <3>1. k \in Nat \ {0} /\ k <= 2 * Switch
        BY <1>1
      <3> QED
        BY <3>1, RecentParts, RecentTile, RecentSound
    <2> QED
      BY <1>1, <2>1 DEF PlanOf
  <1>2. CASE k > Switch
    <2> DEFINE tail == t - HourOf(t) + 1 + HourLen
               open == HourOf(t) - HourLen
               count == Hours(k) - 1
               p == Parts("raw", RecentBuckets(tail, t))
               q == Parts("hourly", ClosedHours(count, open))
               total == count * HourLen + tail
    <2>1. HourOf(t) \in Int /\ HourOf(t) <= t /\ t < HourOf(t) + HourLen
      BY HourOfBounds
    <2>2. count \in Nat \ {0} /\ 2 * (Hours(k) * HourLen) <= 2 * k + HourLen
      BY <1>2, HoursBounds
    <2>3. tail \in Nat \ {0} /\ tail <= 2 * HourLen /\ open \in Int
      BY <2>1
    <2>4. PlanOf(k, t) = [parts |-> p \o q, ticks |-> total]
      BY <1>2 DEF PlanOf, LongWindow
    <2>5. count * HourLen \in Int /\ Hours(k) * HourLen = count * HourLen + HourLen
      <3>1. Hours(k) \in Nat /\ Hours(k) = count + 1
        BY <1>2, HoursBounds
      <3> HIDE DEF count
      <3>2. (count + 1) * HourLen = count * HourLen + HourLen
        BY <2>2
      <3> QED
        BY <2>2, <3>1, <3>2
    <2>6. p \in PartSeq /\ q \in PartSeq
      BY <2>2, <2>3, RecentParts, HoursParts
    <2>7. Tile(p, t - tail + 1, t) /\ Tile(q, open - count * HourLen, open - 1)
      BY <2>2, <2>3, RecentTile, HoursTile
    <2>8. AllSound(p, t)
      BY <2>3, RecentSound
    <2>9. AllSound(q, t)
      <3>1. count * HourLen + HourLen < RollupTTL
        <4> HIDE DEF count
        <4> QED
          BY <2>2, <2>5, TTLAssumption
      <3> QED
        BY <2>2, <3>1, HoursSound
    <2>10. p \o q \in PartSeq
      BY <2>6, ConcatProperties DEF PartSeq
    <2>11. Tile(p \o q, t - total + 1, t)
      <3>1. open - 1 = t - tail /\ open - count * HourLen = t - total + 1
        BY <2>1, <2>3, <2>5
      <3>2. t - tail \in Int /\ t - total + 1 \in Int
        BY <2>3, <2>5
      <3> HIDE DEF p, q, tail, open, total, count
      <3> QED
        BY <2>6, <2>7, <3>1, <3>2, TilesMeet
    <2>12. AllSound(p \o q, t)
      BY <2>6, <2>8, <2>9, SoundTogether
    <2> HIDE DEF p, q, total
    <2> QED
      BY <2>4, <2>10, <2>11, <2>12
  <1> QED
    BY <1>1, <1>2

\* What the halves of a pair are made of.
LEMMA PairSound ==
    ASSUME NEW k \in 1 .. MaxBuckets, NEW t \in Int
    PROVE  \E p \in PartSeq, half \in Nat \ {0}, ticks \in Nat, to \in Int :
             /\ PairOf(k, t) = Halves(p, half, ticks)
             /\ Len(p) = 2 * half
             /\ Tile(p, to - 2 * ticks + 1, to)
             /\ From(p[half]) = to - ticks + 1
             /\ \A i \in 1 .. Len(p) : p[i].grain = p[1].grain
             /\ AllSound(p, t)
  <1>1. CASE k <= Switch
    <2> DEFINE p == Parts("raw", RecentBuckets(2 * k, t))
    <2>1. k \in Nat \ {0} /\ 2 * k \in Nat \ {0} /\ 2 * k <= 2 * Switch
      BY <1>1
    <2>2. PairOf(k, t) = Halves(p, k, k)
      BY <1>1 DEF PairOf
    <2>3. /\ p \in PartSeq
          /\ Len(p) = 2 * k
          /\ \A i \in 1 .. 2 * k : p[i] = [grain |-> "raw", bucket |-> t - (i - 1)]
      BY <2>1, RecentParts
    <2>4. Tile(p, t - 2 * k + 1, t) /\ AllSound(p, t)
      BY <2>1, RecentTile, RecentSound
    <2> HIDE DEF p
    <2>5. p[k] = [grain |-> "raw", bucket |-> t - (k - 1)]
      BY <2>1, <2>3
    <2>6. From(p[k]) = t - k + 1
      BY <2>1, <2>5 DEF From
    <2>7. \A i \in 1 .. Len(p) : p[i].grain = p[1].grain
      BY <2>1, <2>3
    <2> QED
      BY <2>1, <2>2, <2>3, <2>4, <2>6, <2>7
  <1>2. CASE k > Switch
    <2> DEFINE half == Hours(k)
               ticks == half * HourLen
               open == HourOf(t) - HourLen
               p == Parts("hourly", ClosedHours(2 * half, open))
    <2>1. HourOf(t) \in Int
      BY HourOfBounds
    <2>2. half \in Nat \ {0} /\ 2 * half \in Nat \ {0} /\ 2 * ticks <= 2 * k + HourLen
      BY <1>2, HoursBounds
    <2>3. open \in Int
      BY <2>1
    <2>4. PairOf(k, t) = Halves(p, half, ticks)
      BY <1>2 DEF PairOf
    <2> HIDE DEF half, open
    <2>5. ticks \in Nat /\ (2 * half) * HourLen = 2 * ticks
      BY <2>2
    <2>6. /\ p \in PartSeq
          /\ Len(p) = 2 * half
          /\ \A i \in 1 .. 2 * half :
               p[i] = [grain |-> "hourly", bucket |-> open - i * HourLen]
      BY <2>2, <2>3, HoursParts
    <2>7. Tile(p, open - 2 * ticks, open - 1)
      <3>1. Tile(p, open - (2 * half) * HourLen, open - 1)
        BY <2>2, <2>3, HoursTile
      <3> QED
        BY <2>5, <3>1
    <2>8. AllSound(p, t)
      <3>1. (2 * half) * HourLen + HourLen < RollupTTL
        BY <2>2, <2>5, TTLAssumption
      <3> QED
        BY <2>2, <3>1, HoursSound DEF open
    <2> HIDE DEF p, ticks
    <2>9. p[half] = [grain |-> "hourly", bucket |-> open - ticks]
      BY <2>2, <2>6 DEF ticks
    <2>10. From(p[half]) = (open - 1) - ticks + 1
      BY <2>3, <2>5, <2>9 DEF From
    <2>11. \A i \in 1 .. Len(p) : p[i].grain = p[1].grain
      BY <2>2, <2>6
    <2>12. open - 1 \in Int /\ (open - 1) - 2 * ticks + 1 = open - 2 * ticks
      BY <2>3, <2>5
    <2> QED
      BY <2>2, <2>4, <2>5, <2>6, <2>7, <2>8, <2>10, <2>11, <2>12
  <1> QED
    BY <1>1, <1>2
-----------------------------------------------------------------------------
\* A request never reaches a plan with a length that was not clamped.
THEOREM RequestsAreClamped == PlanSpec => []PlanTypeOK
  <1>1. PlanInit => PlanTypeOK
    BY DEF PlanInit, PlanTypeOK
  <1>2. PlanTypeOK /\ [PlanNext]_planVars => PlanTypeOK'
    BY DEF PlanTypeOK, PlanNext, Tick, Ask, Requested, planVars
  <1> QED
    BY <1>1, <1>2, PTL DEF PlanSpec

\* Every window's parts meet, at every minute of the hour and for every
\* length: no bucket is lost or counted twice where the grain changes.
THEOREM WindowsTile == PlanSpec => []WindowTiles
  <1>1. PlanTypeOK => WindowTiles
    BY WindowSound DEF PlanTypeOK, WindowTiles
  <1> QED
    BY <1>1, RequestsAreClamped, PTL

\* The halves of every pair meet, and are of one length and grain.
THEOREM PairsTile == PlanSpec => []PairTiles
  <1>1. PlanTypeOK => PairTiles
    <2> SUFFICES ASSUME PlanTypeOK PROVE PairTiles
      OBVIOUS
    <2>1. PICK p \in PartSeq, half \in Nat \ {0}, ticks \in Nat, to \in Int :
             /\ PairOf(n, now) = Halves(p, half, ticks)
             /\ Len(p) = 2 * half
             /\ Tile(p, to - 2 * ticks + 1, to)
             /\ From(p[half]) = to - ticks + 1
             /\ \A i \in 1 .. Len(p) : p[i].grain = p[1].grain
             /\ AllSound(p, now)
      <3>1. n \in 1 .. MaxBuckets /\ now \in Int
        BY DEF PlanTypeOK
      <3> HIDE DEF PlanTypeOK
      <3> QED
        BY <3>1, PairSound
    <2> DEFINE h == Halves(p, half, ticks)
               all == h.current \o h.prior
    <2>2. /\ h.ticks = ticks
          /\ h.current \in PartSeq /\ Len(h.current) = half
          /\ h.prior \in PartSeq /\ Len(h.prior) = half
          /\ \A i \in 1 .. half : h.current[i] = p[i] /\ h.prior[i] = p[half + i]
      <3>1. Len(p) = 2 * half
        BY <2>1
      <3> QED
        BY <3>1, HalvesElements
    <2>3. /\ Tile(h.current, to - ticks + 1, to)
          /\ Tile(h.prior, to - 2 * ticks + 1, to - ticks)
      <3>1. to - 2 * ticks + 1 \in Int /\ (to - ticks + 1) - 1 = to - ticks
        OBVIOUS
      <3>2. /\ Tile(h.current, From(p[half]), to)
            /\ Tile(h.prior, to - 2 * ticks + 1, From(p[half]) - 1)
        BY <2>1, <3>1, TileCut
      <3> QED
        BY <2>1, <3>1, <3>2
    <2> HIDE DEF h
    <2>4. To(h.current[1]) = to
      BY <2>3 DEF Tile
    <2>5. /\ Len(all) = half + half
          /\ \A i \in 1 .. half + half :
               all[i] = IF i <= half THEN h.current[i] ELSE h.prior[i - half]
      <3>1. h.current \in Seq(PlanPart) /\ h.prior \in Seq(PlanPart)
        BY <2>2 DEF PartSeq
      <3>2. /\ Len(all) = Len(h.current) + Len(h.prior)
            /\ \A i \in 1 .. Len(h.current) + Len(h.prior) :
                 all[i] = IF i <= Len(h.current) THEN h.current[i]
                                                 ELSE h.prior[i - Len(h.current)]
        BY <3>1, ConcatProperties
      <3> QED
        BY <2>2, <3>2
    <2>6. ASSUME NEW i \in 1 .. Len(all)
          PROVE  all[i].grain = p[1].grain
      <3>1. /\ i \in 1 .. 2 * half
            /\ all[i] = IF i <= half THEN h.current[i] ELSE h.prior[i - half]
        <4>1. i \in 1 .. half + half
          BY <2>5
        <4> HIDE DEF all
        <4> QED
          BY <2>5, <4>1
      <3>2. CASE i <= half
        BY <2>1, <2>2, <3>1, <3>2
      <3>3. CASE i > half
        <4>1. i - half \in 1 .. half /\ half + (i - half) = i
          BY <3>1, <3>3
        <4>2. h.prior[i - half] = p[half + (i - half)]
          BY <2>2, <4>1
        <4>3. all[i] = h.prior[i - half]
          BY <3>1, <3>3
        <4>4. all[i] = p[i]
          BY <4>1, <4>2, <4>3
        <4>5. i \in 1 .. Len(p)
          BY <2>1, <3>1
        <4>6. p[i].grain = p[1].grain
          BY <2>1, <4>5
        <4> QED
          BY <4>4, <4>6
      <3> QED
        BY <3>1, <3>2, <3>3
    <2>7. \A i \in 1 .. Len(all) : all[i].grain = all[1].grain
      <3>1. 1 \in 1 .. Len(all)
        BY <2>5
      <3> QED
        BY <2>6, <3>1
    <2> QED
      BY <2>1, <2>2, <2>3, <2>4, <2>7 DEF PairTiles, h
  <1> QED
    BY <1>1, RequestsAreClamped, PTL

\* Windows and pairs alike tile, for every clock reading and length.
THEOREM PlansAlwaysTile == PlanSpec => []PlansTile
  <1>1. WindowTiles /\ PairTiles => PlansTile
    BY DEF PlansTile
  <1> QED
    BY <1>1, WindowsTile, PairsTile, PTL

\* Every part a plan reads may be read.
LEMMA ReadsAreSound ==
    ASSUME PlanTypeOK, NEW part \in PartsRead
    PROVE  Sound(part, now)
  <1> DEFINE w == PlanOf(n, now).parts
             c == PairOf(n, now).current
             q == PairOf(n, now).prior
             all == w \o c \o q
  <1>1. w \in PartSeq /\ AllSound(w, now)
    BY WindowSound DEF PlanTypeOK
  <1>2. /\ c \in PartSeq /\ AllSound(c, now)
        /\ q \in PartSeq /\ AllSound(q, now)
    <2>1. PICK p \in PartSeq, half \in Nat \ {0}, ticks \in Nat, to \in Int :
             /\ PairOf(n, now) = Halves(p, half, ticks)
             /\ Len(p) = 2 * half
             /\ AllSound(p, now)
      BY PairSound DEF PlanTypeOK
    <2>2. /\ c \in PartSeq /\ Len(c) = half
          /\ q \in PartSeq /\ Len(q) = half
          /\ \A i \in 1 .. half : c[i] = p[i] /\ q[i] = p[half + i]
      BY <2>1, HalvesElements
    <2> HIDE DEF c, q
    <2>3. \A i \in 1 .. half : i \in 1 .. Len(p) /\ half + i \in 1 .. Len(p)
      BY <2>1
    <2> QED
      BY <2>1, <2>2, <2>3 DEF AllSound
  <1> HIDE DEF w, c, q
  <1>3. AllSound(all, now)
    <2>1. w \o c \in PartSeq /\ AllSound(w \o c, now)
      BY <1>1, <1>2, ConcatProperties, SoundTogether DEF PartSeq, PlanTypeOK
    <2> QED
      BY <1>2, <2>1, SoundTogether DEF PlanTypeOK
  <1>4. PICK i \in 1 .. Len(all) : part = all[i]
    BY DEF PartsRead, w, c, q
  <1> QED
    BY <1>3, <1>4 DEF AllSound

\* No plan takes an hour's row before the collector, on time, wrote it.
THEOREM HoursHaveLanded == PlanSpec => []HourlyPartsHaveLanded
  <1>1. PlanTypeOK => HourlyPartsHaveLanded
    BY ReadsAreSound DEF HourlyPartsHaveLanded, Sound
  <1> QED
    BY <1>1, RequestsAreClamped, PTL

\* No plan reaches back to rows that may have expired.
THEOREM RowsAreKept == PlanSpec => []RowsOutliveReads
  <1>1. PlanTypeOK => RowsOutliveReads
    BY ReadsAreSound DEF RowsOutliveReads, Sound
  <1> QED
    BY <1>1, RequestsAreClamped, PTL
-----------------------------------------------------------------------------
USE KeyAssumption, CallerAssumption, NullAssumption, BoundAssumption
-----------------------------------------------------------------------------
\* Recycling keeps the probes that matter and empties the others.
LEMMA LiveProbesType ==
    ASSUME NEW ps \in [Probes -> ProbeRecord], NEW mm, NEW cs
    PROVE  /\ LiveProbes(ps, mm, cs) \in [Probes -> ProbeRecord]
           /\ \A p \in Probes : \/ LiveProbes(ps, mm, cs)[p] = ps[p]
                                \/ LiveProbes(ps, mm, cs)[p].cycle = 0
  BY DEF LiveProbes, ProbeRecord, NoProbe

\* Recycling keeps pending and cached entries as they are and empties others.
LEMMA LiveEntriesType ==
    ASSUME NEW es \in [Entries -> EntryRecord], NEW map, NEW cs
    PROVE  /\ LiveEntries(es, map, cs) \in [Entries -> EntryRecord]
           /\ \A e \in Entries :
                /\ es[e].state = "pending" \/ e \in map =>
                      LiveEntries(es, map, cs)[e] = es[e]
                /\ LiveEntries(es, map, cs)[e].state = "pending" =>
                      es[e].state = "pending"
  <1>1. NoEntry \in EntryRecord /\ NoEntry.state = "free"
    BY DEF NoEntry, EntryRecord, Version
  <1> QED
    BY <1>1 DEF LiveEntries

\* A sent probe has read nothing.
LEMMA SentType ==
    ASSUME TypeOK, NEW p \in Probes
    PROVE  /\ Sent(p) \in [Probes -> ProbeRecord]
           /\ \A q \in Probes : Sent(p)[q] = probe[q] \/ Sent(p)[q].cycle = 0
  BY DEF TypeOK, Sent, ProbeRecord

\* The sweep keeps every pending entry and adds none.
LEMMA SweptBounds ==
    ASSUME NEW v
    PROVE  /\ Swept(v) \subseteq cache
           /\ \A e \in cache : Pending(e) => e \in Swept(v)
  BY DEF Swept, Pending

\* The cap takes settled entries only, and never the new one.
LEMMA CappedBounds ==
    ASSUME NEW map, NEW new \in map, NEW rest \in Capped(map, new)
    PROVE  /\ rest \subseteq map
           /\ new \in rest
           /\ \A e \in map : Pending(e) => e \in rest
  BY DEF Capped, Pending

\* A map left above the cap has lost every settled entry but the new one.
LEMMA CappedAboveCap ==
    ASSUME NEW map, IsFiniteSet(map), NEW new \in map,
           NEW rest \in Capped(map, new), Cardinality(rest) > Cap
    PROVE  \A e \in rest \ {new} : Pending(e)
  <1> DEFINE settled == {e \in map : e # new /\ entry[e].state # "pending"}
             excess == Cardinality(map) - Cap
             count == IF Cardinality(map) <= Cap THEN 0
                      ELSE IF excess < Cardinality(settled) THEN excess
                      ELSE Cardinality(settled)
  <1>1. PICK gone \in SUBSET settled : Cardinality(gone) = count /\ rest = map \ gone
    BY DEF Capped
  <1>2. IsFiniteSet(settled) /\ IsFiniteSet(gone)
    BY <1>1, FS_Subset
  <1>3. /\ Cardinality(map) \in Nat
        /\ Cardinality(settled) \in Nat
        /\ Cardinality(gone) \in Nat
    BY <1>2, FS_CardinalityType
  <1>4. Cardinality(rest) = Cardinality(map) - Cardinality(gone)
    <2>1. map \cap gone = gone
      BY <1>1
    <2>2. Cardinality(map \ gone) = Cardinality(map) - Cardinality(map \cap gone)
      BY FS_Difference
    <2> QED
      BY <1>1, <2>1, <2>2
  <1>5. Cardinality(gone) = Cardinality(settled)
    BY <1>1, <1>3, <1>4
  <1>6. gone = settled
    BY <1>1, <1>2, <1>5, FS_Subset
  <1> QED
    BY <1>1, <1>6 DEF Pending
-----------------------------------------------------------------------------
\* Nothing is cached and nobody calls at first.
LEMMA InitIInv == Init => IInv
  <1> SUFFICES ASSUME Init PROVE IInv
    OBVIOUS
  <1>1. TypeOK
    BY DEF Init, TypeOK, NoProbe, ProbeRecord, Idle, CallerRecord, NoEntry,
           EntryRecord, Version
  <1>2. IsFiniteSet(cache)
    BY FS_EmptySet DEF Init
  <1> QED
    BY <1>1, <1>2 DEF IInv, Init, Callers, CallersAwait, OnlyLensesCall,
       VersionsBehind, PendingAreCached, OneEntryPerKey, WindowsAreFresh,
       Pending, NoProbe, Idle, NoEntry

\* The table, the clock and the probes: nothing that is cached changes.
LEMMA ProbesIInv ==
    ASSUME IInv, TypeOK', VersionsBehind', UNCHANGED <<caller, cache, entry>>
    PROVE  IInv'
  BY DEF IInv, CallersAwait, OnlyLensesCall, PendingAreCached, OneEntryPerKey,
         WindowsAreFresh, Pending

\* The collector writes a cycle.
LEMMA WriteCycleIInv == ASSUME IInv, WriteCycle PROVE IInv'
  <1>1. TypeOK'
    BY DEF IInv, TypeOK, WriteCycle
  <1>2. VersionsBehind'
    BY DEF IInv, TypeOK, VersionsBehind, WriteCycle, ProbeRecord
  <1> QED
    BY <1>1, <1>2, ProbesIInv DEF WriteCycle

\* A five-minute boundary passes.
LEMMA RollGridIInv == ASSUME IInv, RollGrid PROVE IInv'
  <1>1. TypeOK'
    BY DEF IInv, TypeOK, RollGrid
  <1>2. VersionsBehind'
    BY DEF IInv, VersionsBehind, RollGrid
  <1> QED
    BY <1>1, <1>2, ProbesIInv DEF RollGrid

\* The memo expires.
LEMMA MemoExpiresIInv == ASSUME IInv, MemoExpires PROVE IInv'
  <1>1. /\ probe' \in [Probes -> ProbeRecord]
        /\ \A p \in Probes : probe'[p] = probe[p] \/ probe'[p].cycle = 0
    BY LiveProbesType DEF IInv, TypeOK, MemoExpires
  <1>2. TypeOK'
    BY <1>1 DEF IInv, TypeOK, MemoExpires
  <1>3. VersionsBehind'
    BY <1>1 DEF IInv, TypeOK, VersionsBehind, MemoExpires
  <1> QED
    BY <1>2, <1>3, ProbesIInv DEF MemoExpires

\* A probe is served, answered or fails: it never learns of a future cycle.
LEMMA ProbeStepIInv ==
    ASSUME IInv, NEW p \in Probes, ProbeStep(p) PROVE IInv'
  <1>1. UNCHANGED <<cycle, grid, memo, caller, cache, entry>>
    BY DEF ProbeStep, ProbeRead, ProbeResolves, ProbeFails
  <1>2. probe[p].cycle \in Nat /\ probe[p].cycle <= cycle /\ lastCycle <= cycle
    BY DEF IInv, TypeOK, VersionsBehind, ProbeRecord
  <1>3. lastCycle' \in Nat /\ lastCycle' <= cycle
    BY <1>2 DEF IInv, TypeOK, ProbeStep, ProbeRead, ProbeResolves, ProbeFails
  <1>4. PICK st \in {"read", "done"}, k \in Nat :
            k <= cycle /\ probe' = [probe EXCEPT ![p] = [state |-> st, cycle |-> k]]
    BY <1>2, <1>3
       DEF IInv, TypeOK, ProbeStep, ProbeRead, ProbeResolves, ProbeFails
  <1>5. probe' \in [Probes -> ProbeRecord]
    BY <1>4 DEF IInv, TypeOK, ProbeRecord
  <1>6. TypeOK'
    BY <1>1, <1>3, <1>5 DEF IInv, TypeOK
  <1>7. VersionsBehind'
    BY <1>1, <1>3, <1>4 DEF IInv, TypeOK, VersionsBehind
  <1> QED
    BY <1>1, <1>6, <1>7, ProbesIInv

\* A request calls the cache and awaits a probe.
LEMMA CallIInv ==
    ASSUME IInv, NEW r \in Requests, NEW k \in Keys, NEW p \in Probes, Call(r, k, p)
    PROVE  IInv'
  <1>1. r \in Callers /\ r \notin Entries
    BY DEF Callers
  <1>2. caller' \in [Callers -> CallerRecord]
    BY <1>1 DEF IInv, TypeOK, Call, CallerRecord
  <1>3. /\ probe' \in [Probes -> ProbeRecord]
        /\ \A q \in Probes : probe'[q] = probe[q] \/ probe'[q].cycle = 0
    BY SentType DEF IInv, Call
  <1>4. TypeOK'
    BY <1>2, <1>3 DEF IInv, TypeOK, Call
  <1>5. CallersAwait'
    BY <1>1 DEF IInv, TypeOK, CallersAwait, Call
  <1>6. OnlyLensesCall'
    BY <1>1 DEF IInv, TypeOK, OnlyLensesCall, Pending, Callers, Call
  <1>7. VersionsBehind'
    BY <1>3 DEF IInv, TypeOK, VersionsBehind, Call
  <1> QED
    BY <1>4, <1>5, <1>6, <1>7 DEF IInv, Call, PendingAreCached,
       OneEntryPerKey, WindowsAreFresh, Pending
-----------------------------------------------------------------------------
\* The version a caller reads is one the table has reached.
LEMMA VersionType ==
    ASSUME IInv, NEW c \in Callers, HasVersion(c)
    PROVE  /\ caller[c].on \in Probes
           /\ caller[c].key \in Keys
           /\ VersionFor(c) \in Version
           /\ VersionFor(c).cycle <= cycle
  <1>1. caller[c].on \in Probes /\ caller[c].key \in Keys
    BY DEF IInv, CallersAwait, HasVersion
  <1>2. probe[caller[c].on].cycle \in Nat /\ probe[caller[c].on].cycle <= cycle
    BY <1>1 DEF IInv, TypeOK, VersionsBehind, ProbeRecord
  <1> QED
    BY <1>1, <1>2 DEF VersionFor, Version, IInv, TypeOK

\* Joining an entry moves the caller and sweeps the map.
LEMMA JoinIInv ==
    ASSUME IInv, NEW c \in Callers, NEW e \in Entries, Join(c, e) PROVE IInv'
  <1>1. cache' \subseteq cache /\ \A f \in cache : Pending(f) => f \in cache'
    BY SweptBounds DEF Join
  <1>2. caller' \in [Callers -> CallerRecord]
    BY DEF IInv, TypeOK, Join, CallerRecord
  <1>3. /\ probe' \in [Probes -> ProbeRecord]
        /\ \A p \in Probes : probe'[p] = probe[p] \/ probe'[p].cycle = 0
    BY LiveProbesType DEF IInv, TypeOK, Join
  <1>4. /\ entry' \in [Entries -> EntryRecord]
        /\ \A f \in Entries :
              /\ Pending(f) \/ f \in cache' => entry'[f] = entry[f]
              /\ entry'[f].state = "pending" => Pending(f)
    BY LiveEntriesType DEF IInv, TypeOK, Join, Pending
  <1>5. TypeOK'
    BY <1>1, <1>2, <1>3, <1>4 DEF IInv, TypeOK, Join
  <1>6. IsFiniteSet(cache)'
    BY <1>1, FS_Subset DEF IInv
  <1>7. CallersAwait'
    BY <1>2 DEF IInv, TypeOK, CallersAwait, Join, HasVersion
  <1>8. OnlyLensesCall'
    <2> SUFFICES ASSUME NEW f \in Entries, caller'[f].at # "idle"
                 PROVE  Pending(f)' /\ entry'[f].key \in Lenses
      BY DEF OnlyLensesCall
    <2>1. f \in Callers /\ caller[f].at # "idle"
      BY DEF IInv, TypeOK, Join, HasVersion, Callers
    <2>2. Pending(f) /\ entry[f].key \in Lenses
      BY <2>1 DEF IInv, OnlyLensesCall
    <2> QED
      BY <2>2, <1>4 DEF Pending
  <1>9. VersionsBehind'
    <2>1. UNCHANGED <<cycle, lastCycle>> /\ cycle \in Nat
      BY DEF Join, IInv, TypeOK
    <2> QED
      BY <1>3, <2>1 DEF IInv, VersionsBehind
  <1>10. PendingAreCached' /\ OneEntryPerKey' /\ WindowsAreFresh'
    BY <1>1, <1>4, <1>5 DEF IInv, TypeOK, PendingAreCached, OneEntryPerKey,
       WindowsAreFresh, Pending
  <1> QED
    BY <1>5, <1>6, <1>7, <1>8, <1>9, <1>10 DEF IInv

\* A new entry goes under a key the map does not hold, with a version the
\* table has reached; a lens's entry becomes a caller.
LEMMA CreateIInv ==
    ASSUME IInv, NEW c \in Callers, NEW e \in Entries, NEW p \in Probes,
           Create(c, e, p)
    PROVE  IInv'
  <1> DEFINE k == caller[c].key
             swept == Swept(VersionFor(c))
             joined == [caller EXCEPT ![c] = [at |-> "join", key |-> k, on |-> e]]
             fetch == [state |-> "pending", key |-> k,
                       version |-> VersionFor(c), data |-> cycle]
             es == [entry EXCEPT ![e] = fetch]
  <1>1. /\ k \in Keys
        /\ VersionFor(c) \in Version
        /\ VersionFor(c).cycle <= cycle
        /\ cycle \in Nat
        /\ e \in Callers
    BY VersionType DEF Create, IInv, TypeOK, Callers
  <1>2. /\ entry[e].state = "free"
        /\ caller[e].at = "idle"
        /\ c # e
    BY DEF Create, IInv, OnlyLensesCall, Pending, HasVersion
  <1>3. /\ \A f \in swept : entry[f].key # k
        /\ swept \subseteq cache
        /\ \A f \in cache : Pending(f) => f \in swept
    BY SweptBounds DEF Create
  <1>4. /\ cache' \subseteq swept \cup {e}
        /\ e \in cache'
        /\ \A f \in cache : Pending(f) => f \in cache'
    BY <1>3, CappedBounds DEF Create
  <1>5. es \in [Entries -> EntryRecord]
    BY <1>1 DEF IInv, TypeOK, EntryRecord
  <1>6. /\ entry' \in [Entries -> EntryRecord]
        /\ entry'[e] = fetch
        /\ \A f \in Entries \ {e} :
              /\ Pending(f) \/ f \in cache' => entry'[f] = entry[f]
              /\ entry'[f].state = "pending" => Pending(f)
    <2>1. entry' = LiveEntries(es, cache', caller')
      BY DEF Create
    <2>2. es[e] = fetch /\ \A f \in Entries \ {e} : es[f] = entry[f]
      BY DEF IInv, TypeOK
    <2> HIDE DEF es
    <2> QED
      BY <1>4, <1>5, <2>1, <2>2, LiveEntriesType DEF Pending
  <1>7. /\ caller' \in [Callers -> CallerRecord]
        /\ caller'[c] = [at |-> "join", key |-> k, on |-> e]
        /\ \A d \in Callers \ {c, e} : caller'[d] = caller[d]
        /\ \/ caller'[e] = caller[e]
           \/ k \in Lenses /\ caller'[e] = [at |-> "probe", key |-> WindowOf[k], on |-> p]
    <2>1. /\ joined \in [Callers -> CallerRecord]
          /\ joined[c] = [at |-> "join", key |-> k, on |-> e]
          /\ \A d \in Callers \ {c} : joined[d] = caller[d]
      BY <1>1 DEF IInv, TypeOK, CallerRecord
    <2>2. CASE k \in Lenses
      <3>1. caller' = [joined EXCEPT ![e] = [at |-> "probe", key |-> WindowOf[k], on |-> p]]
        BY <2>2 DEF Create
      <3>2. [at |-> "probe", key |-> WindowOf[k], on |-> p] \in CallerRecord
        BY <2>2 DEF CallerRecord, Keys
      <3> HIDE DEF joined
      <3> QED
        BY <1>1, <1>2, <2>1, <2>2, <3>1, <3>2
    <2>3. CASE k \notin Lenses
      <3>1. caller' = joined
        BY <2>3 DEF Create
      <3> HIDE DEF joined
      <3> QED
        BY <1>1, <1>2, <2>1, <3>1
    <2> QED
      BY <2>2, <2>3
  <1>8. /\ probe' \in [Probes -> ProbeRecord]
        /\ \A q \in Probes : probe'[q] = probe[q] \/ probe'[q].cycle = 0
    <2>1. /\ Sent(p) \in [Probes -> ProbeRecord]
          /\ \A q \in Probes : Sent(p)[q] = probe[q] \/ Sent(p)[q].cycle = 0
      BY SentType DEF IInv
    <2>2. probe \in [Probes -> ProbeRecord]
      BY DEF IInv, TypeOK
    <2>3. CASE k \in Lenses
      BY <2>1, <2>3, LiveProbesType DEF Create
    <2>4. CASE k \notin Lenses
      BY <2>2, <2>4, LiveProbesType DEF Create
    <2> QED
      BY <2>3, <2>4
  <1> HIDE DEF swept, joined, es
  <1>9. TypeOK'
    BY <1>3, <1>4, <1>6, <1>7, <1>8 DEF IInv, TypeOK, Create
  <1>10. IsFiniteSet(cache)'
    <2>1. IsFiniteSet(swept \cup {e})
      BY <1>3, FS_Subset, FS_AddElement DEF IInv
    <2> QED
      BY <1>4, <2>1, FS_Subset
  <1>11. CallersAwait'
    BY <1>1, <1>2, <1>7 DEF IInv, CallersAwait, Keys
  <1>12. OnlyLensesCall'
    <2> SUFFICES ASSUME NEW f \in Entries, caller'[f].at # "idle"
                 PROVE  Pending(f)' /\ entry'[f].key \in Lenses
      BY DEF OnlyLensesCall
    <2>1. CASE f = e
      BY <2>1, <1>2, <1>6, <1>7 DEF Pending
    <2>2. CASE f # e
      <3>1. caller[f].at # "idle"
        BY <2>2, <1>7 DEF Callers, Create, HasVersion
      <3>2. Pending(f) /\ entry[f].key \in Lenses
        BY <3>1 DEF IInv, OnlyLensesCall
      <3> QED
        BY <2>2, <3>2, <1>6 DEF Pending
    <2> QED
      BY <2>1, <2>2
  <1>13. VersionsBehind'
    BY <1>1, <1>8 DEF IInv, TypeOK, VersionsBehind, Create
  <1>14. PendingAreCached'
    BY <1>4, <1>6 DEF IInv, PendingAreCached, Pending
  <1>15. OneEntryPerKey'
    BY <1>3, <1>4, <1>6, <1>9 DEF IInv, TypeOK, OneEntryPerKey
  <1>16. WindowsAreFresh'
    BY <1>1, <1>3, <1>4, <1>6, <1>9 DEF IInv, TypeOK, WindowsAreFresh
  <1> QED
    BY <1>9, <1>10, <1>11, <1>12, <1>13, <1>14, <1>15, <1>16 DEF IInv
-----------------------------------------------------------------------------
\* An entry settles: it alone changes, and its caller, if any, goes idle.
LEMMA SettleIInv ==
    ASSUME IInv, NEW e \in Entries, NEW outcome \in {"ok", "failed"}, NEW d \in Nat,
           Settle(e, outcome, d),
           entry[e].key \in Lenses \/ d = entry[e].data,
           caller'[e].at = "idle",
           caller' = caller \/ caller' = [caller EXCEPT ![e] = Idle]
    PROVE  IInv'
  <1> DEFINE es == [entry EXCEPT ![e] =
                      [state |-> outcome, key |-> entry[e].key,
                       version |-> entry[e].version, data |-> d]]
  <1>1. es \in [Entries -> EntryRecord]
    BY DEF IInv, TypeOK, EntryRecord
  <1>2. /\ es[e].state = outcome
        /\ es[e].data = d
        /\ es[e].key = entry[e].key
        /\ es[e].version = entry[e].version
        /\ \A f \in Entries \ {e} : es[f] = entry[f]
    BY DEF IInv, TypeOK, EntryRecord
  <1>3. entry' = LiveEntries(es, cache', caller')
    BY DEF Settle
  <1> HIDE DEF es
  <1>4. /\ entry' \in [Entries -> EntryRecord]
        /\ \A f \in cache' : f \in Entries => entry'[f] = es[f]
        /\ \A f \in Entries \ {e} : Pending(f) => entry'[f] = entry[f]
        /\ \A f \in Entries : entry'[f].state = "pending" => f # e /\ Pending(f)
    BY <1>1, <1>2, <1>3, LiveEntriesType DEF Pending
  <1>5. cache' \subseteq cache /\ \A f \in cache \ {e} : f \in cache'
    BY DEF Settle
  <1>6. Idle \in CallerRecord /\ Idle.at = "idle" /\ e \in Callers
    BY DEF Idle, CallerRecord, Callers
  <1>7. /\ caller' \in [Callers -> CallerRecord]
        /\ \A c \in Callers : caller'[c] = caller[c] \/ caller'[c].at = "idle"
    BY <1>6 DEF IInv, TypeOK
  <1>8. TypeOK'
    BY <1>4, <1>5, <1>7 DEF IInv, TypeOK, Settle
  <1>9. IsFiniteSet(cache)'
    BY <1>5, FS_Subset DEF IInv
  <1>10. CallersAwait'
    BY <1>7 DEF IInv, CallersAwait
  <1>11. OnlyLensesCall'
    <2> SUFFICES ASSUME NEW f \in Entries, caller'[f].at # "idle"
                 PROVE  Pending(f)' /\ entry'[f].key \in Lenses
      BY DEF OnlyLensesCall
    <2>1. f # e /\ caller[f].at # "idle"
      BY <1>7 DEF Callers
    <2>2. Pending(f) /\ entry[f].key \in Lenses
      BY <2>1 DEF IInv, OnlyLensesCall
    <2> QED
      BY <1>4, <2>1, <2>2 DEF Pending
  <1>12. VersionsBehind'
    BY DEF IInv, VersionsBehind, Settle
  <1>13. PendingAreCached'
    BY <1>4, <1>5 DEF IInv, PendingAreCached, Pending
  <1>14. OneEntryPerKey'
    BY <1>2, <1>4, <1>5, <1>8 DEF IInv, TypeOK, OneEntryPerKey
  <1>15. WindowsAreFresh'
    BY <1>2, <1>4, <1>5, <1>8 DEF IInv, TypeOK, WindowsAreFresh, KeyAssumption
  <1> QED
    BY <1>8, <1>9, <1>10, <1>11, <1>12, <1>13, <1>14, <1>15 DEF IInv

\* A window's fetch settles, then a lens's computation.
LEMMA EntryStepIInv ==
    ASSUME IInv, NEW e \in Entries, EntryStep(e) PROVE IInv'
  <1>1. ASSUME NEW outcome \in {"ok", "failed"}, WindowSettles(e, outcome)
        PROVE  IInv'
    <2>1. entry[e].data \in Nat
      BY DEF IInv, TypeOK, EntryRecord
    <2>2. caller[e].at = "idle"
      BY <1>1 DEF WindowSettles, IInv, OnlyLensesCall
    <2> QED
      BY <1>1, <2>1, <2>2, SettleIInv DEF WindowSettles
  <1>2. CASE LensSettles(e)
    <2>1. e \in Callers /\ caller[e].on \in Entries
      BY <1>2 DEF LensSettles, IInv, CallersAwait, Callers
    <2>2. entry[caller[e].on].data \in Nat
      BY <2>1 DEF IInv, TypeOK, EntryRecord
    <2>3. entry[e].key \in Lenses
      BY <1>2 DEF LensSettles, IInv, OnlyLensesCall
    <2>4. caller'[e].at = "idle"
      BY <1>2, <2>1 DEF LensSettles, IInv, TypeOK, Idle
    <2> QED
      BY <1>2, <2>2, <2>3, <2>4, SettleIInv DEF LensSettles
  <1> QED
    BY <1>1, <1>2 DEF EntryStep

\* Entries leave the map, or lose their last waiter, once settled.
LEMMA ReleaseIInv ==
    ASSUME IInv, TypeOK',
           entry' = LiveEntries(entry, cache', caller'),
           cache' \subseteq cache,
           \A f \in cache : Pending(f) => f \in cache',
           \A c \in Callers : caller'[c] = caller[c] \/ caller'[c].at = "idle",
           UNCHANGED <<cycle, lastCycle, probe>>
    PROVE  IInv'
  <1>1. \A f \in Entries : /\ Pending(f) \/ f \in cache' => entry'[f] = entry[f]
                           /\ entry'[f].state = "pending" => Pending(f)
    BY LiveEntriesType DEF IInv, TypeOK, Pending
  <1>2. IsFiniteSet(cache)'
    BY FS_Subset DEF IInv
  <1>3. CallersAwait' /\ VersionsBehind'
    BY DEF IInv, CallersAwait, VersionsBehind
  <1>4. OnlyLensesCall'
    BY <1>1 DEF IInv, OnlyLensesCall, Pending, Callers
  <1>5. PendingAreCached' /\ OneEntryPerKey' /\ WindowsAreFresh'
    BY <1>1 DEF IInv, TypeOK, PendingAreCached, OneEntryPerKey,
       WindowsAreFresh, Pending
  <1> QED
    BY <1>2, <1>3, <1>4, <1>5 DEF IInv

\* A request is answered.
LEMMA AnswerIInv == ASSUME IInv, NEW r \in Requests, Answer(r) PROVE IInv'
  <1>1. /\ caller' \in [Callers -> CallerRecord]
        /\ \A c \in Callers : caller'[c] = caller[c] \/ caller'[c].at = "idle"
    BY DEF Answer, IInv, TypeOK, Idle, CallerRecord, Callers
  <1>2. entry' \in [Entries -> EntryRecord]
    BY LiveEntriesType DEF Answer, IInv, TypeOK
  <1>3. TypeOK'
    BY <1>1, <1>2 DEF Answer, IInv, TypeOK
  <1> QED
    BY <1>1, <1>3, ReleaseIInv DEF Answer

\* The max-age timer drops a settled entry.
LEMMA MaxAgeIInv == ASSUME IInv, NEW e \in Entries, MaxAge(e) PROVE IInv'
  <1>1. entry' \in [Entries -> EntryRecord]
    BY LiveEntriesType DEF MaxAge, IInv, TypeOK
  <1>2. TypeOK'
    BY <1>1 DEF MaxAge, IInv, TypeOK
  <1> QED
    BY <1>2, ReleaseIInv DEF MaxAge, Pending

\* The invariant is inductive: one case for each action.
LEMMA NextIInv == IInv /\ [Next]_vars => IInv'
  <1> SUFFICES ASSUME IInv, [Next]_vars PROVE IInv'
    OBVIOUS
  <1>1. CASE WriteCycle \/ RollGrid \/ MemoExpires
    BY <1>1, WriteCycleIInv, RollGridIInv, MemoExpiresIInv
  <1>2. CASE \E r \in Requests, k \in Keys, p \in Probes : Call(r, k, p)
    BY <1>2, CallIInv
  <1>3. CASE \E p \in Probes : ProbeStep(p)
    BY <1>3, ProbeStepIInv
  <1>4. CASE \E c \in Callers : Continue(c)
    BY <1>4, JoinIInv, CreateIInv DEF Continue
  <1>5. CASE \E e \in Entries : EntryStep(e) \/ MaxAge(e)
    BY <1>5, EntryStepIInv, MaxAgeIInv
  <1>6. CASE \E r \in Requests : Answer(r)
    BY <1>6, AnswerIInv
  <1>7. CASE UNCHANGED vars
    BY <1>7 DEF vars, IInv, TypeOK, CallersAwait, OnlyLensesCall, VersionsBehind,
       PendingAreCached, OneEntryPerKey, WindowsAreFresh, Pending
  <1> QED
    BY <1>1, <1>2, <1>3, <1>4, <1>5, <1>6, <1>7 DEF Next
-----------------------------------------------------------------------------
\* The strengthened invariant holds in every reachable state.
THEOREM Invariance == Spec => []IInv
  BY InitIInv, NextIInv, PTL DEF Spec

\* Every variable is well typed.
THEOREM TypeCorrect == Spec => []TypeOK
  <1>1. IInv => TypeOK
    BY DEF IInv
  <1> QED
    BY <1>1, Invariance, PTL

\* A key never has two fetches in flight, whatever rolls, sweeps or caps.
THEOREM FetchesAreShared == Spec => []OneFetchPerKey
  <1>1. IInv => OneFetchPerKey
    BY DEF IInv, OneFetchPerKey, PendingAreCached, OneEntryPerKey
  <1> QED
    BY <1>1, Invariance, PTL

\* A cached window is never older than the version it is served under.
THEOREM CachedWindowsAreFresh == Spec => []WindowsAreFresh
  <1>1. IInv => WindowsAreFresh
    BY DEF IInv
  <1> QED
    BY <1>1, Invariance, PTL

\* Only fetches in flight ever take the map above its cap.
THEOREM CapHoldsOnSettled == Spec => OnlyPendingAboveCap
  <1> DEFINE OnlyPending ==
        \A e \in cache' \ cache :
            Cardinality(cache') > Cap =>
                \A f \in cache' \ {e} : entry'[f].state = "pending"
  <1>1. ASSUME IInv, [Next]_vars, NEW e \in cache' \ cache, Cardinality(cache') > Cap
        PROVE  \A f \in cache' \ {e} : entry'[f].state = "pending"
    <2>1. PICK c \in Callers, new \in Entries, p \in Probes : Create(c, new, p)
      BY <1>1, SweptBounds
         DEF Next, vars, WriteCycle, RollGrid, MemoExpires, Call, ProbeStep,
             ProbeRead, ProbeResolves, ProbeFails, Continue, Join, EntryStep,
             WindowSettles, LensSettles, Settle, MaxAge, Answer
    <2> DEFINE map == Swept(VersionFor(c)) \cup {new}
    <2>2. cache' \in Capped(map, new) /\ cache' \subseteq map
      BY <2>1, CappedBounds DEF Create
    <2>3. e = new
      BY <2>2, <1>1, SweptBounds
    <2>4. IsFiniteSet(map)
      BY <1>1, SweptBounds, FS_Subset, FS_AddElement DEF IInv
    <2>5. \A f \in cache' \ {new} : Pending(f)
      BY <1>1, <2>2, <2>4, CappedAboveCap
    <2>6. TypeOK'
      BY <1>1, NextIInv DEF IInv
    <2>7. \A f \in cache' \ {new} : entry'[f] = entry[f]
      <3> SUFFICES ASSUME NEW f \in cache' \ {new} PROVE entry'[f] = entry[f]
        OBVIOUS
      <3>1. f \in Entries /\ f \in cache'
        BY <2>6 DEF TypeOK
      <3> QED
        BY <2>1, <3>1, <1>1 DEF Create, LiveEntries, IInv, TypeOK
    <2> QED
      BY <2>3, <2>5, <2>7 DEF Pending
  <1>2. IInv /\ [Next]_vars => [OnlyPending]_vars
    BY <1>1
  <1> QED
    BY <1>2, Invariance, PTL DEF Spec, OnlyPendingAboveCap
=============================================================================
