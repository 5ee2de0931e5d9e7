------------------------------ MODULE Browser -------------------------------
(***************************************************************************)
(* One browser at the dashboard: the login of its tabs, and the data that  *)
(* the page of one of them polls (app/src/lib/use-polling.ts) through the  *)
(* session gate of app/src/middleware.ts.                                  *)
(*                                                                         *)
(* A fetch carries the cookie of the moment it is sent.  A run of the      *)
(* effect is not numbered: `mine` tells the fetches of the present run     *)
(* from those of cancelled ones.                                           *)
(***************************************************************************)
EXTENDS LoginFlow, Sequences, SequencesExt

CONSTANTS
    Viewer,    \* the tab whose page polls
    Urls,
    MaxFetches \* bound of the model: fetches that are out at a time

ASSUME ViewerAssumption == Viewer \in Tabs

Fetches == [url : Urls, mine : BOOLEAN, admitted : BOOLEAN]
Polls == [url : Urls, enabled : BOOLEAN, data : Urls \cup {None}, error : BOOLEAN,
          loading : BOOLEAN, out : Seq(Fetches)]

ASSUME PollNoneAssumption == None \notin Polls

VARIABLE poll  \* None, or the hook's state and its fetches that are out

vars == <<loginVars, poll>>

Mounted == poll # None
Fetch(url) == [url |-> url, mine |-> TRUE, admitted |-> session]
Cancelled(out) == [i \in DOMAIN out |-> [out[i] EXCEPT !.mine = FALSE]]

\* The effect of the hook runs, after the cleanup of its last run.
Effect(p, url) ==
    [p EXCEPT !.url = url, !.enabled = TRUE, !.loading = TRUE,
              !.out = Append(Cancelled(p.out), Fetch(url))]

\* The hook is first run, with the session that is there.
Blank(url, in) ==
    [url |-> url, enabled |-> TRUE, data |-> None, error |-> FALSE, loading |-> TRUE,
     out |-> <<[url |-> url, mine |-> TRUE, admitted |-> in]>>]

Init == LoginInit /\ \E url \in Urls : poll = Blank(url, session)

\* A step of the login; the page of the Viewer is mounted or unmounted by it.
Login(t) ==
    /\ TabStep(t)
    /\ IF t = Viewer /\ tab[t].at = "page" THEN poll' = None
       ELSE IF t = Viewer /\ tab'[t].at = "page"
            THEN \E url \in Urls : poll' = Blank(url, session')
            ELSE UNCHANGED poll

Ages == Expire /\ UNCHANGED poll

Room == Mounted /\ Len(poll.out) < MaxFetches

\* The url changes or refresh() is called while polling is on, or it is switched on
\* again.
Restarts(url) ==
    /\ Room
    /\ poll' = Effect(poll, url)
    /\ UNCHANGED loginVars

\* Mutation of Pause: the early return leaves the indicator as it is.
PauseLoading(url) ==
    /\ Mounted
    /\ poll' = [poll EXCEPT !.url = url, !.enabled = FALSE, !.out = Cancelled(@)]
    /\ UNCHANGED loginVars

\* Polling is switched off, or the url of a paused page changes: nothing is fetched.
Pause(url) ==
    /\ Mounted
    /\ poll' = [poll EXCEPT !.url = url, !.enabled = FALSE, !.loading = FALSE, !.out = Cancelled(@)]
    /\ UNCHANGED loginVars

\* The interval fires; an earlier fetch may still be out.
Tick ==
    /\ Room /\ poll.enabled
    /\ poll' = [poll EXCEPT !.out = Append(@, Fetch(poll.url))]
    /\ UNCHANGED loginVars

\* Mutation of Answer: a fetch of a cancelled run counts as well.
AnswerAll(i) ==
    LET f == poll.out[i]
        rest == [poll EXCEPT !.out = RemoveAt(@, i), !.loading = FALSE]
    IN /\ \/ poll' = [rest EXCEPT !.error = TRUE]
          \/ f.admitted /\ poll' = [rest EXCEPT !.data = f.url, !.error = FALSE]
       /\ UNCHANGED loginVars

\* A fetch ends: refused by the middleware, failed, or with the data of its url.
Answer(i) ==
    LET f == poll.out[i]
        rest == [poll EXCEPT !.out = RemoveAt(@, i), !.loading = @ /\ ~f.mine]
    IN /\ \/ ~f.mine /\ poll' = rest
          \/ f.mine /\ poll' = [rest EXCEPT !.error = TRUE]
          \/ f.mine /\ f.admitted /\ poll' = [rest EXCEPT !.data = f.url, !.error = FALSE]
       /\ UNCHANGED loginVars

Answers == Mounted /\ \E i \in DOMAIN poll.out : Answer(i)

Next ==
    \/ \E t \in Tabs : Login(t)
    \/ Ages
    \/ \E url \in Urls : Restarts(url) \/ Pause(url)
    \/ Tick
    \/ Answers

Spec == Init /\ [][Next]_vars

\* The servers and the hosted page answer; nobody has to click or to poll.
FairSpec ==
    /\ Spec
    /\ \A t \in Tabs : WF_vars(Answering(t) /\ Login(t))
    /\ WF_vars(Mounted /\ poll.out # <<>> /\ Answer(1))

-----------------------------------------------------------------------------
TypeOK ==
    /\ trio \in Logins \cup {None} /\ {marker, session, disturbed} \subseteq BOOLEAN
    /\ \A t \in Tabs : tab[t].at \in Resting \cup {"start", "hosted", "callback"}
    /\ poll \in Polls \cup {None} /\ Mounted <=> tab[Viewer].at = "page"

(***************************************************************************)
(* Tabs that log in at the same time take each other's cookies away        *)
(* (callback/route.ts:22).  When all have come to rest, and no cookie ran  *)
(* out, nobody was refused and nobody logged out, the browser is signed in *)
(* if any of them went to log in.                                          *)
(***************************************************************************)
SomebodyGetsIn ==
    (visits > 0 /\ ~disturbed /\ \A t \in Tabs : tab[t].at \in Resting) => session

(***************************************************************************)
(* The automatic restart does not loop: a tab on its way through a login   *)
(* comes to rest, whatever the other tabs do to its cookies.               *)
(***************************************************************************)
LoginsEnd == \A t \in Tabs : tab[t].at \notin Resting ~> tab[t].at \in Resting

(***************************************************************************)
(* What a page shows is only ever replaced by the data of the url it is    *)
(* at: an answer to a superseded url is discarded (use-polling.ts:14).     *)
(***************************************************************************)
NoForeignData ==
    [][(Mounted /\ poll' # None /\ poll'.data # poll.data) => poll'.data = poll'.url]_vars

(***************************************************************************)
(* A page that shows it is loading has a fetch out that will end that,     *)
(* through every switch, pause, resume and overlap of intervals.           *)
(***************************************************************************)
LoadingHasFetch ==
    Mounted /\ poll.loading => \E i \in DOMAIN poll.out : poll.out[i].mine
=============================================================================
