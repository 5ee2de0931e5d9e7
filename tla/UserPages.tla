------------------------------ MODULE UserPages ------------------------------
(***************************************************************************)
(* The pages of the dashboard other than the topology page: one page is    *)
(* mounted at a time, in a document whose address, session storage and     *)
(* local storage outlive it.  A page keeps its controls in ui; one polled  *)
(* request (usePolling, modelled in Browser) asks what the controls say,   *)
(* and its panels show what the last answer held.                          *)
(***************************************************************************)
EXTENDS Integers, Sequences, SequencesExt

CONSTANTS
    None,
    Things,        \* what an answer lists: anomalies, monitors, categories, pods, edges
    Pages,         \* the pages that are modelled
    NBuckets,      \* 12 in the code: buckets the flows page offers
    MaxRecents,    \* MAX_RECENT_PATHS
    MaxSlot,       \* bound on the five-minute slots that pass
    MaxChosen,     \* bound on the edges chosen
    MaxVisits      \* bound on the pages opened

ASSUME PagesAssumption ==
    Pages \subseteq {"overview", "agents", "alerts", "anomalies", "cost", "insights", "monitors", "monitor",
                     "network", "workload", "search", "paths", "flows", "settings", "chat"}
ASSUME SizesAssumption == NBuckets \in Nat /\ NBuckets >= 2 /\ MaxRecents \in Nat

VARIABLES
    page, ui,
    poll,          \* the polled request: [ask, data, error, loading]
    side,          \* the data of a second one: the historical flows of a monitor
    memory,        \* settings (local storage), filters and recents (session storage)
    url,           \* now: the query of the address; next: a replacement under way
    slot,          \* the five-minute slot of the clock
    visits,
    chosen, strayed  \* history: the edges chosen; the address lost a choice

pageVars == <<page, ui, poll, side, memory, url, slot, visits, chosen, strayed>>

\* A control offers choices 1 (its default, "all" of a filter) and 2; in an
\* address or in storage 0 is a missing value and 9 one that nothing accepts.
Options == {1, 2}
Bare == [range |-> 0, namespace |-> 0, tab |-> 0, edge |-> 0, view |-> 0]

\* parseSettings: field by field over the defaults.
Fields == {"range", "retrans", "monitor"}
Defaults == [f \in Fields |-> 1]
Parsed(raw) == [f \in Fields |-> IF raw # None /\ raw[f] \in Options THEN raw[f] ELSE 1]

\* The address over the session storage over the defaults.
FilterFields == {"range", "namespace"}
Loaded(query, raw) ==
    LET merged(f) == IF query[f] # 0 \/ raw = None THEN query[f] ELSE raw[f]
    IN [f \in FilterFields |-> IF merged(f) \in Options THEN merged(f) ELSE 1]

TabOf(query) == IF query.tab \in Options THEN query.tab ELSE 1
ViewOf(query) == IF query.view = 2 THEN 2 ELSE 1

\* The newest buckets, newest first; the newest is still being written.
Recent(now) == [i \in 1 .. NBuckets |-> now - i + 1]
Followed(u) == IF u.bucket # None THEN u.bucket ELSE u.buckets[2]

\* The queries of an address, and what a page may ask, be told and keep.
Query == [range : {0, 1, 2, 9}, namespace : 0 .. 2, tab : 0 .. 2, edge : {0} \cup Things, view : 0 .. 2]
Named == {1, 2} \cup Things
LensQueries == [range : Options, namespace : Options]
Asks ==
    [settings : [Fields -> Options]] \cup [tab : Options, query : LensQueries] \cup [range : Options]
    \cup [metric : Options, query : LensQueries] \cup [pod : {TRUE}]
    \cup [bucket : Int, monitor : {0} \cup Named] \cup [edge : Things] \cup [q : Options] \cup [page : Pages]
Told == [ask : Asks, body : SUBSET Named]

\* None is none of what it stands beside.
ASSUME AnswersAssumption ==
    /\ None \notin [Fields -> Options] /\ None \notin Query
    /\ None \notin Told /\ None \notin [body : SUBSET Things]

\* The request that the controls stand for.
LensQuery(filters) == [range |-> filters.range, namespace |-> filters.namespace]

InsightsAsk(u) == [tab |-> u.tab, query |-> LensQuery(u.filters)]
NetworkAsk(u) == [metric |-> u.metric, query |-> LensQuery([range |-> u.range, namespace |-> u.namespace])]
FlowsAsk(u) == IF u.applied = 2 THEN [pod |-> TRUE] ELSE [bucket |-> Followed(u), monitor |-> u.monitor]

Asked(p, u) ==
    CASE p = "anomalies" -> [settings |-> u.settings]
      [] p = "insights"  -> InsightsAsk(u)
      [] p = "cost"      -> [range |-> u.range]
      [] p = "network"   -> NetworkAsk(u)
      [] p = "flows"     -> FlowsAsk(u)
      [] p = "paths"     -> IF u.edge = 0 THEN None ELSE [edge |-> u.edge]
      [] p = "search"    -> IF u.debounced = 0 THEN None ELSE [q |-> u.debounced]
      [] p \in {"topology", "settings", "chat"} -> None
      [] OTHER           -> [page |-> p]

Blank(ask) == [ask |-> ask, data |-> None, error |-> FALSE, loading |-> ask # None]

\* Mutation of Follow: the effect does not depend on the url.
FollowOnce(p, u, v) == IF (Asked(p, u) = None) # (Asked(p, v) = None) THEN Blank(Asked(p, v)) ELSE poll

\* Another url starts another request and leaves the old data on the page;
\* another tab, and the first edge or query, mount their own.
Follow(p, u, v) ==
    LET ask == Asked(p, v)
    IN IF ask = Asked(p, u) THEN poll
       ELSE IF ask = None \/ poll.ask = None \/ (p = "insights" /\ u.tab # v.tab) THEN Blank(ask)
       ELSE [ask |-> ask, data |-> poll.data, error |-> poll.error, loading |-> TRUE]

\* What a page is mounted with, once its first effects have run.
InsightsMounted(query) == [filters |-> Loaded(query, memory.filters), tab |-> TabOf(query)]
NetworkMounted(query) == [metric |-> 1, range |-> 1, namespace |-> IF query.namespace = 0 THEN 1 ELSE query.namespace]
FlowsMounted == [buckets |-> Recent(slot), bucket |-> None, monitor |-> 0, monitors |-> {}, applied |-> 0]
PathsMounted(query) == [edge |-> query.edge, recents |-> memory.recents]

Mounted(p, query) ==
    CASE p = "settings"  -> [settings |-> Parsed(memory.settings), draft |-> None]
      [] p = "anomalies" -> [settings |-> Parsed(memory.settings), selected |-> 0]
      [] p = "insights"  -> InsightsMounted(query)
      [] p = "cost"      -> [range |-> 1]
      [] p = "network"   -> NetworkMounted(query)
      [] p = "flows"     -> FlowsMounted
      [] p = "paths"     -> PathsMounted(query)
      [] p = "workload"  -> [category |-> 0]
      [] p = "monitor"   -> [view |-> ViewOf(query), flow |-> 0]
      [] p = "search"    -> [typed |-> 0, debounced |-> 0]
      [] p = "chat"      -> [open |-> "none", focus |-> "fab"]
      [] OTHER           -> [still |-> TRUE]

\* What is kept before the first visit, and after one.
Fresh == [settings |-> None, filters |-> None, recents |-> <<>>]

PagesInit ==
    /\ page = "topology" /\ ui = [still |-> TRUE] /\ poll = Blank(None) /\ side = None
    /\ memory \in {Fresh, [settings |-> [Defaults EXCEPT !.range = 9, !.monitor = 2],
                         filters |-> [range |-> 2, namespace |-> 1], recents |-> <<>>]}
    /\ url = [now |-> Bare, next |-> None] /\ slot = NBuckets /\ visits = 0
    /\ chosen = <<>> /\ strayed = FALSE

\* A link, a bookmark or the reload button.
Queries(p) ==
    CASE p = "insights" -> {Bare, [Bare EXCEPT !.tab = 2], [Bare EXCEPT !.range = 9, !.namespace = 2]}
      [] p = "network"  -> {Bare, [Bare EXCEPT !.namespace = 2]}
      [] p = "paths"    -> {Bare} \cup {[Bare EXCEPT !.edge = e] : e \in Things}
      [] p = "monitor"  -> {Bare, [Bare EXCEPT !.view = 2]}
      [] OTHER          -> {Bare}

Mount(p, query) ==
    /\ page' = p /\ ui' = Mounted(p, query) /\ poll' = Blank(Asked(p, Mounted(p, query)))
    /\ side' = None /\ url' = [now |-> query, next |-> None] /\ strayed' = FALSE

Open ==
    /\ visits < MaxVisits /\ visits' = visits + 1
    /\ \E p \in Pages : \E query \in Queries(p) : Mount(p, query)
    /\ UNCHANGED <<memory, slot, chosen>>

Reload ==
    /\ page # "topology" /\ Mount(page, url.now)
    /\ UNCHANGED <<memory, slot, visits, chosen>>

-----------------------------------------------------------------------------
\* What the controls do.
On(p) == page = p /\ visits' = visits
Turn(u) == ui' = u /\ poll' = Follow(page, ui, u)
Kept == <<memory, url, slot, chosen, strayed>>

\* A choice of one control that is kept nowhere.
PickField(field, values) == \E v \in values : Turn([ui EXCEPT ![field] = v])

PickCost == On("cost") /\ PickField("range", Options) /\ UNCHANGED <<page, side, Kept>>

PickNetwork ==
    /\ On("network") /\ UNCHANGED <<page, side, Kept>>
    /\ \E field \in {"metric", "range", "namespace"} : PickField(field, Options)

\* The categories of the snapshot, and a chosen one that left it.
Offered == (IF poll.data = None THEN {} ELSE poll.data.body) \cup ({ui.category} \ {0})
PickCategory == On("workload") /\ PickField("category", {0} \cup Offered) /\ UNCHANGED <<page, side, Kept>>

\* The panel of an anomaly is opened and closed.
PickAnomaly ==
    /\ On("anomalies") /\ UNCHANGED <<page, side, Kept>>
    /\ PickField("selected", {0} \cup (IF poll.data = None THEN {} ELSE poll.data.body))

\* setSetting, the number field and the reset of the settings page.
Save(settings) == memory' = [memory EXCEPT !.settings = settings]

SetSetting ==
    /\ On("settings") /\ ui.draft = None /\ UNCHANGED <<page, side, url, slot, chosen, strayed>>
    /\ \E f \in Fields, v \in Options :
          LET next == [ui.settings EXCEPT ![f] = v]
          IN (f = "monitor" => v \in {1, ui.settings.monitor}) /\ Turn([ui EXCEPT !.settings = next]) /\ Save(next)

TypeNumber ==
    /\ On("settings") /\ UNCHANGED <<page, side, url, slot, chosen, strayed>>
    /\ \E text \in Options \cup {0} :
          LET next == IF text = 0 THEN ui.settings ELSE [ui.settings EXCEPT !.retrans = text]
          IN /\ Turn([settings |-> next, draft |-> text])
             /\ IF text = 0 THEN UNCHANGED memory ELSE Save(next)

BlurNumber ==
    /\ On("settings") /\ ui.draft # None /\ UNCHANGED <<page, side, url, slot, chosen, strayed>>
    /\ LET next == [ui.settings EXCEPT !.retrans = IF ui.draft = 0 THEN Defaults.retrans ELSE ui.draft]
       IN Turn([settings |-> next, draft |-> None]) /\ Save(next)

ResetSettings ==
    /\ On("settings") /\ UNCHANGED <<page, side, url, slot, chosen, strayed>>
    /\ Turn([settings |-> Defaults, draft |-> None]) /\ Save(None)

\* router.replace with a query made from the address: a replacement that was
\* under way is discarded, and with it what only its query held.
Replace(query, wanted) ==
    /\ url' = [url EXCEPT !.next = query]
    /\ strayed' = (strayed \/ query # wanted)

Latest == IF url.next = None THEN url.now ELSE url.next

SetFilter ==
    /\ On("insights") /\ UNCHANGED <<page, side, slot, chosen>>
    /\ \E f \in FilterFields, v \in Options :
          LET next == [ui.filters EXCEPT ![f] = v]
              over(query) == [query EXCEPT !.range = next.range, !.namespace = next.namespace]
          IN /\ Turn([ui EXCEPT !.filters = next]) /\ memory' = [memory EXCEPT !.filters = next]
             /\ Replace(over(url.now), over(Latest))

SelectTab ==
    /\ On("insights") /\ UNCHANGED <<page, side, memory, slot, chosen>>
    /\ \E t \in Options :
          /\ Turn([ui EXCEPT !.tab = t])
          /\ Replace([url.now EXCEPT !.tab = t], [Latest EXCEPT !.tab = t])

SelectView ==
    /\ On("monitor") /\ UNCHANGED <<page, memory, slot, chosen>>
    /\ \E v \in Options \ {ui.view} :
          /\ Turn([view |-> v, flow |-> 0]) /\ side' = None
          /\ Replace([url.now EXCEPT !.view = v], [Latest EXCEPT !.view = v])

\* What is left of a list without an edge, in its order.
Without(list, edge) ==
    LET kept == {i \in DOMAIN list : list[i] # edge}
    IN [n \in 1 .. Cardinality(kept) |-> list[CHOOSE i \in kept : Cardinality(kept \cap 1 .. i) = n]]

\* pushRecent.
Pushed(list, edge) ==
    LET others == Without(list, edge)
    IN SubSeq(<<edge>> \o others, 1, IF Len(others) < MaxRecents THEN Len(others) + 1 ELSE MaxRecents)

SelectEdge ==
    /\ On("paths") /\ UNCHANGED <<page, side, slot>>
    /\ Len(chosen) < MaxChosen
    /\ \E edge \in {0} \cup Things :
          LET recents == IF edge = 0 THEN ui.recents ELSE Pushed(ui.recents, edge)
              query == [Bare EXCEPT !.edge = edge]
          IN /\ Turn([edge |-> edge, recents |-> recents])
             /\ memory' = [memory EXCEPT !.recents = recents]
             /\ Replace(query, query)
             /\ chosen' = IF edge = 0 THEN chosen ELSE Append(chosen, edge)

\* The effect of a new query on the page that is open: only the paths page
\* follows it, and only to an edge.
Arrived(query) == IF page = "paths" /\ query.edge # 0 THEN [ui EXCEPT !.edge = query.edge] ELSE ui

Commit ==
    /\ url.next # None /\ visits' = visits
    /\ Turn(Arrived(url.next)) /\ url' = [now |-> url.next, next |-> None]
    /\ UNCHANGED <<page, side, memory, slot, chosen, strayed>>

\* A link to the page that is already open.
FollowLink ==
    /\ page \in {"insights", "paths"} /\ visits' = visits
    /\ \E query \in Queries(page) :
          Turn(Arrived(query)) /\ url' = [now |-> query, next |-> None]
    /\ strayed' = TRUE /\ UNCHANGED <<page, side, memory, slot, chosen>>

\* The flows page: the bucket and the monitor, how many of the two fields of a
\* pod are filled when they are applied or cleared, and the refresh of its buckets.
PickFlows ==
    /\ On("flows") /\ UNCHANGED <<page, side, Kept>>
    /\ \/ PickField("bucket", {None} \cup ToSet(ui.buckets))
       \/ PickField("monitor", {0} \cup ui.monitors)
       \/ PickField("applied", 0 .. 2)

RefreshBuckets == On("flows") /\ Turn([ui EXCEPT !.buckets = Recent(slot)]) /\ UNCHANGED <<page, side, Kept>>

SlotPasses ==
    /\ On("flows") /\ slot < MaxSlot /\ slot' = slot + 1
    /\ UNCHANGED <<page, ui, poll, side, memory, url, chosen, strayed>>

\* The search box and its debounce; 0 is a text shorter than two characters.
Type == On("search") /\ PickField("typed", {0} \cup Options) /\ UNCHANGED <<page, side, Kept>>
Debounce == On("search") /\ Turn([ui EXCEPT !.debounced = ui.typed]) /\ UNCHANGED <<page, side, Kept>>

\* The historical flows of a monitor have a poll of their own; a click on one
\* opens the sheet of its path, which keeps that flow.
Historical ==
    /\ On("monitor") /\ ui.view = 2 /\ UNCHANGED <<page, Kept>>
    /\ \/ \E body \in SUBSET Things : side' = [body |-> body] /\ UNCHANGED <<ui, poll>>
       \/ side # None /\ PickField("flow", {0} \cup side.body) /\ UNCHANGED side

-----------------------------------------------------------------------------
(* The chat button, its drawer and the modal that holds the chat in an     *)
(* iframe (FloatingChat): one dialog at a time, and where the focus is.    *)

Stops(open) == IF open = "drawer" THEN <<"box", "first", "middle", "last">> ELSE <<"box", "first", "last">>
Inside(open) == IF open = "none" THEN {"fab", "page"} ELSE ToSet(Stops(open))

\* A closed dialog gives the focus back to the button.
Shown(open) == Turn([open |-> open, focus |-> IF open = "none" THEN "fab" ELSE "box"])

\* The iframe is the last stop of its modal: while the focus is in it the
\* document hears no key.
Hears == ~(ui.open = "iframe" /\ ui.focus = "last")

OpenChat ==
    /\ On("chat") /\ UNCHANGED <<page, side, Kept>>
    /\ \/ ui.open = "none" /\ Shown("drawer")
       \/ ui.open # "none" /\ Shown("none")       \* its button, the scrim, or Escape
       \/ ui.open = "drawer" /\ \E mode \in {"drawer", "none", "iframe"} : Shown(mode)  \* a sheet, a window, or a modal

\* What the handler of Tab and Shift+Tab does, and {} for what it leaves to
\* the browser.
Trapped(back) ==
    LET current == ui.focus
        outside == current \notin Inside(ui.open)
    IN IF back /\ (outside \/ current \in {"first", "box"}) THEN {"last"}
       ELSE IF ~back /\ (outside \/ current = "last") THEN {"first"} ELSE {}

\* The browser's own order of the stops; from an end it goes to the page.
Natural(back) ==
    LET order == Stops(ui.open)
        here == CHOOSE i \in DOMAIN order : order[i] = ui.focus
        next == IF back THEN here - 1 ELSE here + 1
    IN IF next \in DOMAIN order THEN {order[next]} \cup ({ui.focus} \cap {"middle", "last"}) ELSE {"page"}

Tab ==
    /\ On("chat") /\ ui.open # "none" /\ UNCHANGED <<page, side, Kept>>
    /\ \E back \in BOOLEAN :
          \E stop \in IF Hears /\ Trapped(back) # {} THEN Trapped(back)
                      ELSE IF ui.focus = "page" THEN {"page"} ELSE Natural(back) :
             Turn([ui EXCEPT !.focus = stop])

-----------------------------------------------------------------------------
\* An answer to what is asked; the flows page learns the monitors it names.
Bodies == IF page = "flows" /\ poll.ask = Asked(page, ui) /\ "bucket" \in DOMAIN poll.ask /\ poll.ask.monitor # 0
          THEN {{}, {poll.ask.monitor}} ELSE {{}, {1}, {2}, Things}

Reply ==
    /\ poll.ask # None /\ (page = "search" => poll.loading)
    /\ \E body \in Bodies :
          /\ poll' = [ask |-> poll.ask, data |-> [ask |-> poll.ask, body |-> body], error |-> FALSE, loading |-> FALSE]
          /\ ui' = IF page = "flows" THEN [ui EXCEPT !.monitors = ui.monitors \cup body] ELSE ui
    /\ UNCHANGED <<page, side, visits, Kept>>

Fail ==
    /\ poll.ask # None /\ (page = "search" => poll.loading)
    /\ poll' = [ask |-> poll.ask, data |-> poll.data, error |-> TRUE, loading |-> FALSE]
    /\ UNCHANGED <<page, ui, side, visits, Kept>>

PagesStep ==
    \/ Open \/ Reload \/ Commit \/ FollowLink
    \/ PickCost \/ PickNetwork \/ PickCategory \/ PickAnomaly \/ PickFlows \/ RefreshBuckets \/ SlotPasses
    \/ SetSetting \/ TypeNumber \/ BlurNumber \/ ResetSettings
    \/ SetFilter \/ SelectTab \/ SelectView \/ SelectEdge \/ Historical
    \/ Type \/ Debounce \/ OpenChat \/ Tab \/ Reply \/ Fail

-----------------------------------------------------------------------------
(* What the panels of a page show.                                         *)

Body == IF poll.data = None THEN {} ELSE poll.data.body
FirstLoad == poll.loading /\ poll.data = None

\* LensState: an error hides what was loaded.
LensState(empty) ==
    IF poll.error THEN "error" ELSE IF FirstLoad THEN "loading" ELSE IF empty THEN "empty" ELSE "content"

\* A tile shows zeros when there is nothing to show.
TileState == IF FirstLoad THEN "loading" ELSE "content"
Notice == IF poll.error THEN "error" ELSE "none"

OverviewPanels ==
    [notice |-> Notice, summary |-> TileState, kpis |-> TileState,
     traffic |-> TileState, golden |-> TileState, talkers |-> TileState, breaches |-> TileState]
AgentsPanels ==
    [notice |-> Notice, tiles |-> TileState,
     cycles |-> IF 1 \notin Body THEN (IF FirstLoad THEN "loading" ELSE "empty") ELSE "content",
     table |-> IF 2 \notin Body THEN (IF FirstLoad THEN "loading" ELSE "empty") ELSE "content"]
AlertsPanels == [alarms |-> LensState(1 \notin Body), events |-> LensState(2 \notin Body), composite |-> LensState(FALSE)]
AnomaliesPanels == [counts |-> TileState, list |-> LensState(Body = {})]
CostPanels == [widgets |-> LensState(FALSE)]
InsightsPanels == [charts |-> LensState(FALSE), lists |-> LensState(Body = {})]
MonitorsPanels == [list |-> LensState(Body = {})]
MonitorPanels ==
    IF ui.view = 1 THEN [overview |-> LensState(FALSE)]
    ELSE [rows |-> IF side = None THEN "loading" ELSE IF side.body = {} THEN "empty" ELSE "content"]
NetworkPanels == [table |-> LensState(Body = {})]
WorkloadPanels == [sections |-> LensState(Body = {})]
SearchPanels == [results |-> LensState(Body = {})]
PathsPanels == [path |-> LensState(Body = {})]
FlowsPanels ==
    [count |-> TileState, table |-> IF poll.error THEN "error" ELSE IF Body = {} THEN "empty" ELSE "content"]

Panels ==
    CASE page = "overview"  -> OverviewPanels
      [] page = "agents"    -> AgentsPanels
      [] page = "alerts"    -> AlertsPanels
      [] page = "anomalies" -> AnomaliesPanels
      [] page = "cost"      -> CostPanels
      [] page = "insights"  -> InsightsPanels
      [] page = "monitors"  -> MonitorsPanels
      [] page = "monitor"   -> MonitorPanels
      [] page = "network"   -> NetworkPanels
      [] page = "workload"  -> WorkloadPanels
      [] page = "search"    -> SearchPanels
      [] page = "paths"     -> PathsPanels
      [] page = "flows"     -> FlowsPanels

-----------------------------------------------------------------------------
\* The request of a page is always the one its controls stand for; once it is
\* answered, and the answer is no error, the page shows the answer to it, and
\* until then it says that it is loading or that it failed.  The flows page
\* follows a bucket that is complete and offers the monitor it filters by.
ShownIsAsked ==
    poll.ask # None =>
       /\ poll.ask = Asked(page, ui)
       /\ ~poll.loading /\ ~poll.error => poll.data # None /\ poll.data.ask = Asked(page, ui)
       /\ (IF page = "monitor" /\ ui.view = 2 THEN side ELSE poll.data) = None
             => \E panel \in DOMAIN Panels : Panels[panel] \in {"loading", "error"}
       /\ page = "flows" => (ui.bucket = None => Followed(ui) < slot) /\ (ui.monitor # 0 => ui.monitor \in ui.monitors)

\* The order of a log: where each member was last chosen.
LastChosen(e) == CHOOSE i \in DOMAIN chosen : chosen[i] = e /\ \A j \in DOMAIN chosen : chosen[j] = e => j <= i

\* What a page shows is what it would show if it were loaded again: the settings,
\* the filters and the tab, the view of a monitor and the edge of a path, unless
\* one replacement of the address overtook another or a link led to the page that
\* was open.  The recent paths are the edges chosen last, each once, newest first.
KeptIsShown ==
    LET settled == url.next = None /\ ~strayed
    IN /\ page = "settings" => ui.settings = Parsed(memory.settings)
       /\ page = "insights" /\ settled
             => ui.filters = Loaded(url.now, memory.filters) /\ ui.tab = TabOf(url.now)
       /\ page = "monitor" /\ settled => ui.view = ViewOf(url.now)
       /\ page = "paths" =>
             /\ settled => ui.edge = url.now.edge
             /\ ui.recents = memory.recents
             /\ \A i, j \in DOMAIN ui.recents : i < j => LastChosen(ui.recents[i]) > LastChosen(ui.recents[j])
             /\ \A e \in ToSet(chosen) \ ToSet(ui.recents) :
                   Len(ui.recents) = MaxRecents /\ \A r \in ToSet(ui.recents) : LastChosen(e) < LastChosen(r)

\* The focus is in the dialog that is open; only the iframe lets it out.
DialogHoldsFocus ==
    page = "chat" => ui.focus \in Inside(ui.open) \/ (ui.open = "iframe" /\ ui.focus = "page")

\* A page shows the answer to what its controls ask for, shows what it would show if
\* it were loaded again, and has the focus in the dialog that is open.
PagesShowTheirAnswers == ShownIsAsked /\ KeptIsShown /\ DialogHoldsFocus

PagesSpec == PagesInit /\ [][PagesStep]_pageVars
=============================================================================
