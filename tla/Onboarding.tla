----------------------------- MODULE Onboarding ------------------------------
(***************************************************************************)
(* Onboarding the clusters onto Network Flow Monitor: the scope, the       *)
(* add-ons, roles and associations of every cluster, and the monitors      *)
(* (onboarding/onboard_nfm.py).  The invocation may end after every call.  *)
(***************************************************************************)
EXTENDS CustomResource

VARIABLES
    scope,     \* is there a scope
    addons,    \* the add-ons of each cluster: "identity", "agent"
    role,      \* of each cluster's agent: "none", "bare" (without its policy) or "ready"
    assoc,     \* the clusters with an association
    monitors,  \* the monitors, by cluster, and "vpc"
    onboarded, \* the cluster under way
    listed     \* its add-ons, as they were listed

onboardVars == <<scope, addons, role, assoc, monitors, onboarded, listed>>

Desired == Clusters \cup {"vpc"}

OnboardInit ==
    /\ scope = FALSE
    /\ addons = [c \in Clusters |-> {}]
    /\ role = [c \in Clusters |-> "none"]
    /\ assoc = {} /\ monitors = {}
    /\ onboarded = None /\ listed = {}

OnboardRequest == SendRequest /\ UNCHANGED onboardVars

\* Nothing is taken away by a Delete.
OnboardInvoke ==
    /\ Invoke(IF request = "Delete" THEN "done" ELSE "scope")
    /\ UNCHANGED onboardVars

EnsureScope ==
    /\ at = "scope"
    /\ scope' = TRUE
    /\ Goto("next")
    /\ UNCHANGED <<addons, role, assoc, monitors, onboarded, listed>>

ListAddons ==
    /\ at = "next"
    /\ \E c \in todo : onboarded' = c /\ listed' = addons[c]
    /\ Goto("identity")
    /\ UNCHANGED <<scope, addons, role, assoc, monitors>>

\* The add-ons listed before the first of them was made.
CreateAddon(name) ==
    addons' = IF name \in listed THEN addons ELSE [addons EXCEPT ![onboarded] = @ \cup {name}]

IdentityAddon ==
    /\ at = "identity"
    /\ CreateAddon("identity")
    /\ Goto("role")
    /\ UNCHANGED <<scope, role, assoc, monitors, onboarded, listed>>

\* A role that is there is not looked into.
CreateRole ==
    /\ at = "role"
    /\ IF role[onboarded] = "none"
       THEN role' = [role EXCEPT ![onboarded] = "bare"] /\ Goto("attach")
       ELSE Goto("assoc") /\ UNCHANGED role
    /\ UNCHANGED <<scope, addons, assoc, monitors, onboarded, listed>>

AttachPolicy ==
    /\ at = "attach"
    /\ role' = [role EXCEPT ![onboarded] = "ready"]
    /\ Goto("assoc")
    /\ UNCHANGED <<scope, addons, assoc, monitors, onboarded, listed>>

Associate ==
    /\ at = "assoc"
    /\ assoc' = assoc \cup {onboarded}
    /\ Goto("agent")
    /\ UNCHANGED <<scope, addons, role, monitors, onboarded, listed>>

AgentAddon ==
    /\ at = "agent"
    /\ CreateAddon("agent")
    /\ at' = "next" /\ todo' = todo \ {onboarded} /\ onboarded' = None /\ listed' = {}
    /\ UNCHANGED <<request, last, answer, sent, invoked, failed, scope, role, assoc, monitors>>

CreateMonitor ==
    /\ at = "next" /\ todo = {}
    /\ \E m \in Desired \ monitors : monitors' = monitors \cup {m}
    /\ UNCHANGED <<resource, scope, addons, role, assoc, onboarded, listed>>

\* The last call was made, or one of them failed.
OnboardReply ==
    /\ \/ at = "done" /\ Reply("ok")
       \/ at = "next" /\ todo = {} /\ Desired \subseteq monitors /\ Reply("ok")
       \/ at # "idle" /\ Reply("FAILED")
    /\ onboarded' = None /\ listed' = {}
    /\ UNCHANGED <<scope, addons, role, assoc, monitors>>

OnboardDies ==
    /\ Die \/ TimeOut
    /\ onboarded' = None /\ listed' = {}
    /\ UNCHANGED <<scope, addons, role, assoc, monitors>>

OnboardNext ==
    \/ OnboardRequest \/ OnboardInvoke \/ OnboardDies
    \/ EnsureScope \/ ListAddons \/ IdentityAddon \/ CreateRole \/ AttachPolicy
    \/ Associate \/ AgentAddon \/ CreateMonitor
    \/ OnboardReply
-----------------------------------------------------------------------------
Onboarded == request = None /\ answer = "ok" /\ last # "Delete"

\* A success says that everything is there for every cluster, whatever earlier
\* invocations left behind.
SuccessIsWholeOnboarding ==
    Onboarded =>
        /\ scope /\ Desired \subseteq monitors
        /\ \A c \in Clusters : addons[c] = {"identity", "agent"} /\ role[c] # "none" /\ c \in assoc

\* "Idempotent" (the file's first line, docs/runbooks/onboarding.md:15): and the
\* role of every agent may publish.
AgentsMayPublish == Onboarded => \A c \in Clusters : role[c] = "ready"
=============================================================================
