----------------------------- MODULE LoginFlow ------------------------------
(***************************************************************************)
(* The dashboard's login in one browser: app/src/app/api/auth/login,       *)
(* callback and logout, with the cookies of lib/auth.ts.  Tabs share the   *)
(* cookies; a callback is decided by those sent with it and changes those  *)
(* the browser has when its response arrives.                              *)
(*                                                                         *)
(* PKCE verifier, state and nonce are set and cleared together, so they    *)
(* are one cookie, the login that made them.  The hosted user interface    *)
(* and the token endpoint are external: a code is good for one exchange.   *)
(***************************************************************************)
EXTENDS Naturals

CONSTANTS
    Tabs,
    Logins,      \* identities of logins in flight, more than the tabs
    MaxVisits,   \* bound of the model: clicks on the login page
    MaxExpiries, \* bound of the model: cookies that run out
    None

ASSUME LoginBoundAssumption == MaxVisits \in Nat /\ MaxExpiries \in Nat
ASSUME LoginNoneAssumption == None \notin Logins
ASSUME LoginsAssumption ==  \* no choice of one per tab uses them up
    \A taken \in [Tabs -> Logins \cup {None}] : \E l \in Logins : \A t \in Tabs : l # taken[t]

VARIABLES
    trio,      \* nfm_pkce, nfm_state, nfm_nonce: the login they are of
    marker,    \* nfm_auth_retry
    session,   \* nfm_id_token is there and good
    tab,       \* per tab: the page it is at, its login, the cookies it has sent
    visits, expiries,
    disturbed  \* history: a cookie ran out, a provider refused, someone left

loginVars == <<trio, marker, session, tab, visits, expiries, disturbed>>
cookies == <<trio, marker, session>>
counts == <<visits, expiries>>

At(page) == [at |-> page, login |-> None, trio |-> None, marker |-> FALSE]
Resting == {"page", "login", "error"}

LoginInit ==
    /\ trio = None /\ marker = FALSE /\ session = FALSE
    /\ tab = [t \in Tabs |-> At("page")]
    /\ visits = 0 /\ expiries = 0 /\ disturbed = FALSE

Goes(t, page) == tab' = [tab EXCEPT ![t] = At(page)]

\* The middleware: a page without a session is the login page.
Navigate(t) ==
    /\ tab[t].at = "page" /\ ~session
    /\ Goes(t, "login")
    /\ UNCHANGED <<cookies, counts, disturbed>>

\* The link of the login page, which is the error page as well.
Visit(t) ==
    /\ tab[t].at \in {"login", "error"} /\ visits < MaxVisits
    /\ Goes(t, "start")
    /\ visits' = visits + 1
    /\ UNCHANGED <<cookies, expiries, disturbed>>

FreshLogin == CHOOSE l \in Logins : l # trio /\ \A t \in Tabs : l # tab[t].login

\* GET api/auth/login: the cookies are those of this login from now on.
Start(t) ==
    /\ tab[t].at = "start"
    /\ trio' = FreshLogin
    /\ tab' = [tab EXCEPT ![t] = [At("hosted") EXCEPT !.login = FreshLogin]]
    /\ UNCHANGED <<marker, session, counts, disturbed>>

\* The hosted page sends the browser to the callback, with the code or without.
Return(t) ==
    /\ tab[t].at = "hosted"
    /\ tab' = [tab EXCEPT ![t].at = "callback", ![t].trio = trio, ![t].marker = marker]
    /\ UNCHANGED <<cookies, counts, disturbed>>

ReturnRefused(t) ==
    /\ tab[t].at = "hosted"
    /\ tab' = [tab EXCEPT ![t] = [At("callback") EXCEPT !.marker = marker]]
    /\ disturbed' = TRUE
    /\ UNCHANGED <<cookies, counts>>

StateMatches(t) == tab[t].login # None /\ tab[t].login = tab[t].trio

SignIn(t) ==
    /\ tab[t].at = "callback" /\ StateMatches(t)
    /\ session' = TRUE /\ trio' = None /\ marker' = FALSE
    /\ Goes(t, "page")
    /\ UNCHANGED <<counts, disturbed>>

\* Mutation of Restart: the marker is not looked at.
RestartAlways(t) ==
    /\ tab[t].at = "callback" /\ ~StateMatches(t)
    /\ trio' = None /\ marker' = TRUE
    /\ Goes(t, "start")
    /\ UNCHANGED <<session, counts, disturbed>>

\* A mismatch restarts the login, unless the marker says it has been.
Restart(t) ==
    /\ tab[t].at = "callback" /\ ~StateMatches(t) /\ ~tab[t].marker
    /\ trio' = None /\ marker' = TRUE
    /\ Goes(t, "start")
    /\ UNCHANGED <<session, counts, disturbed>>

\* Mutation of Surface: the marker of the login that failed stays.
SurfaceMarked(t) ==
    /\ tab[t].at = "callback" /\ ~StateMatches(t) /\ tab[t].marker
    /\ trio' = None
    /\ Goes(t, "error")
    /\ UNCHANGED <<marker, session, counts, disturbed>>

\* A mismatch with the marker is shown.
Surface(t) ==
    /\ tab[t].at = "callback" /\ ~StateMatches(t) /\ tab[t].marker
    /\ trio' = None /\ marker' = FALSE
    /\ Goes(t, "error")
    /\ UNCHANGED <<session, counts, disturbed>>

\* The token exchange or the verification of the token fails.
Rejected(t) ==
    /\ tab[t].at = "callback" /\ StateMatches(t)
    /\ trio' = None /\ marker' = FALSE
    /\ Goes(t, "error")
    /\ disturbed' = TRUE
    /\ UNCHANGED <<session, counts>>

Logout(t) ==
    /\ tab[t].at = "page" /\ session
    /\ session' = FALSE
    /\ Goes(t, "login")
    /\ disturbed' = TRUE
    /\ UNCHANGED <<trio, marker, counts>>

Expire ==
    /\ expiries < MaxExpiries
    /\ expiries' = expiries + 1
    /\ disturbed' = TRUE
    /\ \/ trio # None /\ trio' = None /\ UNCHANGED <<marker, session>>
       \/ marker /\ marker' = FALSE /\ UNCHANGED <<trio, session>>
       \/ session /\ session' = FALSE /\ UNCHANGED <<trio, marker>>
    /\ UNCHANGED <<tab, visits>>

\* What the server and the hosted page owe a tab on its way.
Answering(t) ==
    \/ Start(t) \/ Return(t) \/ ReturnRefused(t)
    \/ SignIn(t) \/ Restart(t) \/ Surface(t) \/ Rejected(t)

TabStep(t) == Navigate(t) \/ Visit(t) \/ Answering(t) \/ Logout(t)
=============================================================================
