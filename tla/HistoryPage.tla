----------------------------- MODULE HistoryPage -----------------------------
(***************************************************************************)
(* The history page (app/src/app/history/page.tsx): a query over a range   *)
(* of days of the archive, which the server runs with Athena (api/history/ *)
(* route.ts, app/src/lib/athena.ts) by polling it until a deadline and     *)
(* reading its result page by page.                                        *)
(*                                                                         *)
(* `upto` is how much of the archive had been delivered at the click, and  *)
(* `asked` the request that a result answers; only properties read them.   *)
(***************************************************************************)
EXTENDS FlowArchive

CONSTANTS
    Today, Week,         \* the day of today, and the days of the default range
    Monitors, BadFilter, \* monitors, and a filter text outside the allowed charset
    Limit,               \* rows of a result at most
    PageRows,            \* rows of a page of results, a header among them
    MaxRuns,             \* bound of the model: clicks on Run
    MaxEdits,            \* bound of the model: edits of a field
    Null

VARIABLES
    page,     \* the state of the page's hooks
    request,  \* Null, or the request that is out
    execution \* Null, or the Athena query of that request

pageVars == <<page, request, execution>>

Days == 0..Today

-----------------------------------------------------------------------------
(* The page's sorting of a result (history-sort.ts).                       *)

NoSort == [key |-> Null, dir |-> "desc"]
Columns == {"value", "a_pod_name"}

ToggleColumnSort(sort, key) ==
    IF sort.key = key
    THEN [sort EXCEPT !.dir = IF @ = "asc" THEN "desc" ELSE "asc"]
    ELSE [key |-> key, dir |-> "desc"]

\* The cells of a column in their order; 0 stands for a blank one.
Cell(row, key) == IF key = "value" THEN row.value + 1 ELSE row.a.pod

\* Blank cells are last in either direction.
Precedes(x, y, dir) ==
    IF x = 0 \/ y = 0 THEN x # 0 /\ y = 0
    ELSE IF dir = "asc" THEN x < y ELSE x > y

\* The order of a stable sort of the rows: at each place, the index of the row that
\* has so many before it, itself included.
SortedIndices(rows, Earlier(_, _)) ==
    LET place(i) == Cardinality({j \in DOMAIN rows :
                        Earlier(rows[j], rows[i]) \/ (~Earlier(rows[i], rows[j]) /\ j <= i)})
    IN [n \in DOMAIN rows |-> CHOOSE i \in DOMAIN rows : place(i) = n]

StableSort(rows, Earlier(_, _)) ==
    LET order == SortedIndices(rows, Earlier) IN [i \in DOMAIN rows |-> rows[order[i]]]

SortRowsByColumn(rows, sort) ==
    StableSort(rows, LAMBDA r, q : Precedes(Cell(r, sort.key), Cell(q, sort.key), sort.dir))

SortedRows ==
    IF page.result = Null THEN <<>>
    ELSE IF page.sort.key = Null THEN page.result
    ELSE SortRowsByColumn(page.result, page.sort)

-----------------------------------------------------------------------------
(* The query (buildHistorySql), and what it finds in the archive.          *)

ValidFilter(monitor) == monitor # BadFilter

Matches(entry, opts) ==
    /\ entry.dt \in opts.from..opts.to
    /\ opts.monitor \in {Null, entry.row.monitor}

Newer(e, f) == e.row.bucket > f.row.bucket

Found(opts) ==
    LET rows == Subsequence(archive, {i \in DOMAIN archive : Matches(archive[i], opts)})
        newest == StableSort(rows, Newer)
    IN [i \in {j \in DOMAIN newest : j <= Limit} |-> newest[i].row]

-----------------------------------------------------------------------------
HistoryInit ==
    /\ page = [from |-> Null, to |-> Null, monitor |-> Null, loading |-> FALSE,
               error |-> Null, result |-> Null, range |-> Null, sort |-> NoSort,
               asked |-> Null, runs |-> 0, edits |-> 0]
    /\ request = Null /\ execution = Null

\* The mount effect fills in the last seven days.
Mount ==
    /\ page.from = Null /\ page.to = Null /\ page.runs = 0 /\ page.edits = 0
    /\ page' = [page EXCEPT !.from = Today - Week, !.to = Today]
    /\ UNCHANGED <<request, execution>>

\* The fields stay open while a query runs; a date may be cleared.
Edit ==
    /\ page.edits < MaxEdits
    /\ LET edited == [page EXCEPT !.edits = @ + 1] IN
       \/ \E d \in Days \cup {Null} : page' = [edited EXCEPT !.from = d]
       \/ \E d \in Days \cup {Null} : page' = [edited EXCEPT !.to = d]
       \/ \E f \in Monitors \cup {Null, BadFilter} : page' = [edited EXCEPT !.monitor = f]
    /\ UNCHANGED <<request, execution>>

Failed(p, error) ==
    [p EXCEPT !.error = error, !.result = Null, !.range = Null, !.sort = NoSort]

InvalidRange == page.from = Null \/ page.to = Null \/ page.from > page.to

RunQuery ==
    /\ ~page.loading /\ page.runs < MaxRuns
    /\ IF InvalidRange
       THEN /\ page' = [Failed(page, "range") EXCEPT !.runs = @ + 1]
            /\ UNCHANGED request
       ELSE /\ page' = [page EXCEPT !.loading = TRUE, !.error = Null, !.runs = @ + 1]
            /\ request' = [from |-> page.from, to |-> page.to, monitor |-> page.monitor,
                           upto |-> Len(archive), at |-> "route", late |-> FALSE, read |-> 0, rows |-> <<>>]
    /\ UNCHANGED execution

\* The response reaches the page: `run` goes on with the range it began with.
Shown(rows) ==
    [page EXCEPT !.result = rows, !.sort = NoSort, !.loading = FALSE, !.asked = request,
                 !.range = [from |-> request.from, to |-> request.to]]

Ends500 ==
    /\ page' = [Failed(page, "common") EXCEPT !.loading = FALSE]
    /\ request' = Null /\ execution' = Null

\* The route checks the filters and starts the query.
BeginQuery ==
    /\ request # Null /\ request.at = "route"
    /\ IF ~ValidFilter(request.monitor)
       THEN /\ page' = [Failed(page, "filter") EXCEPT !.loading = FALSE]
            /\ request' = Null /\ UNCHANGED execution
       ELSE \/ Ends500
            \/ /\ request' = [request EXCEPT !.at = "poll"]
               /\ execution' = [state |-> "QUEUED", rows |-> <<>>]
               /\ UNCHANGED page

Polling == request # Null /\ request.at = "poll"

\* The service runs the query, fails it or cancels it, in its own time.
AthenaRuns ==
    /\ Polling /\ execution.state \in {"QUEUED", "RUNNING"}
    /\ \/ execution.state = "QUEUED" /\ execution' = [execution EXCEPT !.state = "RUNNING"]
       \/ execution' = [state |-> "SUCCEEDED", rows |-> Found(request)]
       \/ \E end \in {"FAILED", "CANCELLED"} : execution' = [execution EXCEPT !.state = end]
    /\ UNCHANGED <<page, request>>

\* The deadline of the polling loop passes.
Late ==
    /\ Polling /\ ~request.late
    /\ request' = [request EXCEPT !.late = TRUE]
    /\ UNCHANGED <<page, execution>>

\* A look at the query's state: a success counts even after the deadline.
Poll ==
    /\ Polling
    /\ CASE execution.state = "SUCCEEDED" ->
              request' = [request EXCEPT !.at = "read"] /\ UNCHANGED <<page, execution>>
         [] execution.state \in {"FAILED", "CANCELLED"} -> Ends500
         [] OTHER -> request.late /\ Ends500

Reading == request # Null /\ request.at = "read"

\* The service's result: the header row and the rows, read in pages.
Sheet == <<"header">> \o execution.rows
NextPage == SubSeq(Sheet, request.read + 1,
                   IF request.read + PageRows < Len(Sheet) THEN request.read + PageRows ELSE Len(Sheet))

\* Mutation of NewRows: the first row of every page counts as the header.
NewRowsHeadless == SubSeq(NextPage, 2, Len(NextPage))

\* The header is skipped on the first page only.
NewRows == IF request.read = 0 THEN SubSeq(NextPage, 2, Len(NextPage)) ELSE NextPage

ReadPage ==
    /\ Reading
    /\ \/ Ends500
       \/ LET rows == request.rows \o NewRows
              read == request.read + Len(NextPage)
          IN IF read < Len(Sheet)
             THEN request' = [request EXCEPT !.read = read, !.rows = rows] /\ UNCHANGED <<page, execution>>
             ELSE page' = Shown(rows) /\ request' = Null /\ execution' = Null

\* The connection of the browser is lost; what the server does is not seen.
ConnectionLost == request # Null /\ Ends500

Sort ==
    /\ page.result # Null
    /\ \E key \in Columns : page' = [page EXCEPT !.sort = ToggleColumnSort(@, key)]
    /\ UNCHANGED <<request, execution>>

ServerStep == BeginQuery \/ Late \/ Poll \/ ReadPage

HistoryStep ==
    \/ Mount
    \/ Edit
    \/ RunQuery
    \/ ServerStep
    \/ AthenaRuns
    \/ ConnectionLost
    \/ Sort

\* The page beside the archive.
HistoryNext ==
    \/ ArchiveStep /\ UNCHANGED pageVars
    \/ HistoryStep /\ UNCHANGED archiveVars

HistorySpec == ArchiveInit /\ HistoryInit /\ [][HistoryNext]_<<archiveVars, pageVars>>

-----------------------------------------------------------------------------
(***************************************************************************)
(* A result on the page is the answer for the range above it, whatever was *)
(* typed meanwhile: every row is of a day in the range and of the filter   *)
(* of the click, none twice that the archive has once, newest first, and   *)
(* none is missing that was archived at the click unless the limit cut it  *)
(* off; sorting it moves rows and puts blanks last (page.tsx:97-101,       *)
(* athena.ts:124-145).                                                     *)
(***************************************************************************)
ResultIsOfItsRange ==
    page.result # Null =>
        LET opts == [from |-> page.range.from, to |-> page.range.to, monitor |-> page.asked.monitor]
            shown == page.result
            Copies(r, s) == Cardinality({i \in DOMAIN s : s[i] = r})
            early == [i \in 1..page.asked.upto |-> archive[i].row]
            all == [i \in DOMAIN archive |-> archive[i].row]
        IN /\ page.error = Null
           /\ \A i \in DOMAIN shown :
                /\ Matches([dt |-> Day(shown[i].bucket), row |-> shown[i]], opts)
                /\ Copies(shown[i], shown) <= Copies(shown[i], all)
           /\ \A i, j \in DOMAIN shown : i < j => shown[i].bucket >= shown[j].bucket
           /\ \A i \in DOMAIN early :
                /\ Matches(archive[i], opts) /\ Copies(early[i], shown) < Copies(early[i], early)
                => /\ Len(shown) = Limit
                   /\ \A j \in DOMAIN shown : shown[j].bucket >= early[i].bucket
           /\ \A r \in ToSet(shown) : Copies(r, SortedRows) = Copies(r, shown)
           /\ page.sort.key # Null =>
                \A i, j \in DOMAIN shown :
                    i < j /\ Cell(SortedRows[i], page.sort.key) = 0
                    => Cell(SortedRows[j], page.sort.key) = 0

(***************************************************************************)
(* A click on Run ends, even if Athena never comes to an end: the button   *)
(* is off while the page waits.                                            *)
(***************************************************************************)
RunsEnd == page.loading ~> ~page.loading
=============================================================================
