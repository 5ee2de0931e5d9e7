---------------------------- MODULE Provisioning -----------------------------
(***************************************************************************)
(* The scripts that prepare the account, which are the two custom          *)
(* resources and the gateway, and those who use what they make: the        *)
(* client of the gateway's tools and the dashboard's own server of tools.  *)
(* They share no state, so that a behaviour is one of them.                *)
(***************************************************************************)
EXTENDS CorednsLog, Onboarding, ToolClient, TLC

CONSTANTS Operators, Targets, MaxGateways, MaxRuns
VARIABLES stack, gateways, gatewaysListed, url, run, id, doomed, retried, started, halved

Gateway == INSTANCE GatewaySetup WITH listed <- gatewaysListed, tried <- retried

gatewayState == <<gateways, gatewaysListed, url, run, id, doomed, retried, started, halved>>
scriptState == <<resource, corednsVars, onboardVars, gatewayState>>
toolState == <<clientVars, served>>

ASSUME OperatorAssumption == MaxGateways \in Nat \ {0}

\* The names of tools: two that are cut to the same candidate, one whose first
\* candidate is their second, and one that is accepted as it is and is that candidate.
MCCandidates == (1 :> <<11, 4, 13>>) @@ (2 :> <<11, 4, 13>>) @@ (3 :> <<4, 14, 15>>)

\* The requests to the dashboard and what may be configured.
Presigned == {[genuine |-> g, answer |-> a, caller |-> c] :
    g \in BOOLEAN, a \in {"identity", "refused"},
    c \in {[account |-> 1, arn |-> "user", role |-> "none"], [account |-> 1, arn |-> "session", role |-> "runtime"],
           [account |-> 2, arn |-> "session2", role |-> "runtime"]}}
Methods == {[method |-> m, known |-> k, id |-> i] :
    m \in {"notification", "initialize", "tools/call", "other", "malformed"}, k \in BOOLEAN, i \in {1, 2}}
AnyPresigned == CHOOSE p \in Presigned : p.genuine
AnyCall == CHOOSE c \in Methods : c.method = "tools/call"
Calls ==
    [path : {"health", "static", "api", "page", "mcp"}, origin : BOOLEAN, scheme : {"sts", "bearer"},
     sts : {AnyPresigned}, token : BOOLEAN, session : BOOLEAN, body : {"request"}, call : {AnyCall}]
    \cup [path : {"mcp"}, origin : {TRUE}, scheme : {"sts"},
          sts : Presigned, token : {FALSE}, session : {FALSE}, body : {"request"}, call : {AnyCall}]
    \cup [path : {"mcp"}, origin : {TRUE}, scheme : {"bearer"},
          sts : {AnyPresigned}, token : {TRUE}, session : {FALSE},
          body : {"unparsable", "no request", "request"}, call : Methods]
Environments == {[secret |-> s, disabled |-> d, token |-> t, account |-> 1, allowed |-> {"user", "runtime"}] :
    s \in BOOLEAN, d \in BOOLEAN, t \in BOOLEAN}

Init ==
    /\ InitResource /\ CorednsInit /\ OnboardInit
    /\ stack \in {"dns", "onboarding", "gateway", "client", "server"}
    /\ served = NoAnswer
    /\ IF stack = "client" THEN ClientInit ELSE ClientRest
    /\ IF stack = "gateway" THEN Gateway!GatewayInit
       ELSE /\ gateways = None /\ gatewaysListed = None /\ url = None /\ run = None /\ id = None
            /\ doomed = None /\ retried = None /\ started = None /\ halved = None

Next ==
    /\ UNCHANGED stack
    /\ \/ stack = "dns" /\ CorednsNext /\ UNCHANGED <<onboardVars, gatewayState, toolState>>
       \/ stack = "onboarding" /\ OnboardNext /\ UNCHANGED <<corednsVars, gatewayState, toolState>>
       \/ stack = "gateway" /\ Gateway!GatewayNext /\ UNCHANGED <<resource, corednsVars, onboardVars, toolState>>
       \/ stack = "client" /\ ClientNext /\ UNCHANGED <<scriptState, served>>
       \/ stack = "server" /\ ServeNext(Calls, Environments) /\ UNCHANGED <<scriptState, clientVars>>

Spec == Init /\ [][Next]_<<stack, scriptState, toolState>>

Symmetry == Permutations(Clusters) \cup Permutations(Targets) \cup Permutations(Operators)
-----------------------------------------------------------------------------
\* An answer of success means what it says of every cluster: CorednsLog, Onboarding.
SuccessIsWhole ==
    /\ stack = "dns" => SuccessIsWholeDns
    /\ stack = "onboarding" => SuccessIsWholeOnboarding

\* The url of a finished run serves, a tool shown is the tool that is called, and
\* callers are admitted and answered as configured: GatewaySetup, ToolClient.
ToolsAreReached ==
    /\ stack = "gateway" => Gateway!UrlServes
    /\ ToolsKeepTheirNames /\ CallersAreAnswered

\* It names a gateway that is ready: GatewaySetup.
ReadyWhenDone == stack = "gateway" => Gateway!ReadyWhenDone

\* It has its targets, whatever was stopped before: GatewaySetup.
TargetsWhenDone == stack = "gateway" => Gateway!TargetsWhenDone

\* The agents may publish: Onboarding.
PublishersReady == stack = "onboarding" => AgentsMayPublish
=============================================================================
