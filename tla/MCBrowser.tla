----------------------------- MODULE MCBrowser ------------------------------
(***************************************************************************)
(* The browser at the dashboard, and the archive that its history page     *)
(* queries.  The two share no state, so a behaviour of the model takes the *)
(* steps of one of them only.                                              *)
(***************************************************************************)
EXTENDS Browser, HistoryPage, TLC

historyVars == <<archiveVars, pageVars>>

BrowserIdle == tab = [t \in Tabs |-> At("page")] /\ visits = 0 /\ expiries = 0
               /\ ~session /\ poll \in {Blank(url, session) : url \in Urls}
HistoryIdle == seen = {} /\ dropped = {} /\ page.from = Null
               /\ page.edits = 0 /\ page.runs = 0

MCInit == Init /\ HistoryInit /\ ArchiveInit

BrowserMoves == HistoryIdle /\ Next /\ UNCHANGED historyVars

\* The model lets the page ask after the last cycle of the instance, when the
\* Lambda is at rest and nothing went wrong: to a reader of the archive, what
\* is lost is like what comes later.
Quiet ==
    /\ stream = <<>> /\ work = <<>> /\ cycles = MaxCycles
    /\ events = 0 /\ dropped = {} /\ logged = {}

ArchiveMoves ==
    /\ BrowserIdle /\ page.runs = 0
    /\ ArchiveStep /\ UNCHANGED <<vars, pageVars>>
    /\ cycles' + events' <= 3   \* bound of the model

\* Firehose may deliver while a query runs.
Delivery == BrowserIdle /\ request # Null /\ Deliver /\ UNCHANGED <<vars, pageVars>>

PageMoves == BrowserIdle /\ Quiet /\ HistoryStep /\ UNCHANGED <<vars, archiveVars>>

MCNext == BrowserMoves \/ ArchiveMoves \/ Delivery \/ PageMoves

allVars == <<vars, historyVars>>

\* The servers and the hosted page answer, and a polling loop gets on; Athena
\* need not come to an end, and nobody has to click or to poll.
Replies(t) == HistoryIdle /\ Answering(t) /\ Login(t) /\ UNCHANGED historyVars
Polled == HistoryIdle /\ Mounted /\ poll.out # <<>> /\ Answer(1) /\ UNCHANGED historyVars
Served == BrowserIdle /\ Quiet /\ ServerStep /\ UNCHANGED <<vars, archiveVars>>

MCSpec ==
    /\ MCInit /\ [][MCNext]_allVars
    /\ \A t \in Tabs : WF_allVars(Replies(t))
    /\ WF_allVars(Polled)
    /\ WF_allVars(Served)

\* What a wait of the browser ends in: see LoginsEnd and RunsEnd.
WaitsEnd == LoginsEnd /\ RunsEnd

-----------------------------------------------------------------------------
(* Two monitors see connections between two pods, one without a pod, over  *)
(* two days; one connection is seen from both of its ends.                 *)

Pod(n, ip) == [pod |-> n, instance |-> 0, ip |-> ip]
Node(n) == [pod |-> 0, instance |-> n, ip |-> n]
Peer(n) == [pod |-> 0, instance |-> 0, ip |-> n]

Observation(local, remote, monitor, metric, bucket, value) ==
    [local |-> local, remote |-> remote, port |-> 443, monitor |-> monitor,
     metric |-> metric, bucket |-> bucket, value |-> value]

MCCycles ==
    LET m == CHOOSE x \in Monitors : TRUE
        n == CHOOSE x \in Monitors : x # m
        rtt == "ROUND_TRIP_TIME"
        data == "DATA_TRANSFERRED"
    IN {{Observation(Pod(1, 1), Pod(2, 2), m, data, 11, 2),
         Observation(Pod(2, 3), Pod(1, 1), m, data, 11, 1)},
        {Observation(Pod(1, 1), Pod(2, 2), m, rtt, 20, 2),
         Observation(Pod(2, 2), Pod(1, 1), n, rtt, 20, 1)},
        {Observation(Node(1), Peer(5), n, data, 21, 3)}}
=============================================================================
