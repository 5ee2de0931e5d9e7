---------------------------- MODULE GatewaySetup -----------------------------
(***************************************************************************)
(* The gateway of the MCP tools, made or repaired by hand and as often as  *)
(* it takes: tools/create_gateway.py.  Every call may fail, and a run may  *)
(* be stopped after every call (Stop).  Nothing keeps two runs apart: a    *)
(* run expects a race where it creates the gateway, and nowhere else.      *)
(*                                                                         *)
(* The service is external, as the script's waits and retries use it: one  *)
(* live gateway has the name; a new one is listed late; creations, updates *)
(* and deletions take effect later, and a target is listed until then; a   *)
(* gateway with targets is not deleted.                                    *)
(***************************************************************************)
EXTENDS Naturals, FiniteSets

CONSTANTS
    Operators,    \* who runs the script
    Targets,      \* its targets (three)
    MaxGateways,  \* bounds of the model
    MaxRuns,
    None

VARIABLES
    gateways,   \* the gateways, by id: auth, status, targets and those being deleted
    listed,     \* the ids list_gateways shows
    url,        \* the id in the url parameter, or None
    run,        \* where each operator's run is
    id,         \* the gateway it works on
    doomed,     \* the targets it has listed and is still to delete
    tried,      \* has its creation failed once
    started,    \* runs so far
    halved      \* history: a run was stopped while it replaced its gateway, or
                \* replaced it beside another run

gatewayVars == <<gateways, listed, url, run, id, doomed, tried, started, halved>>

Ids == 1 .. MaxGateways
Absent == [auth |-> "none", status |-> "absent", targets |-> {}, leaving |-> {}]
Live == {g \in Ids : gateways[g].status \notin {"absent", "gone"}}

GatewayInit ==
    /\ \E auth \in {"AWS_IAM", "NONE"}, there \in BOOLEAN :
         LET first == [auth |-> auth, status |-> "READY", targets |-> Targets, leaving |-> {}]
         IN /\ gateways = [g \in Ids |-> IF there /\ g = 1 THEN first ELSE Absent]
            /\ listed = IF there THEN {1} ELSE {}
            /\ url = IF there THEN 1 ELSE None
    /\ run = [o \in Operators |-> "idle"]
    /\ id = [o \in Operators |-> None] /\ doomed = [o \in Operators |-> {}] /\ tried = {}
    /\ started = 0 /\ halved = FALSE

Service == UNCHANGED <<url, run, id, doomed, tried, started>>
Becomes(g, status) == gateways' = [gateways EXCEPT ![g].status = status]

\* External: the gateway shows up in the list.
Appear(g) == g \in Live \ listed /\ listed' = listed \cup {g} /\ UNCHANGED gateways /\ Service

\* External: what the gateway was told takes effect, or fails.
Settle(g) ==
    /\ \/ /\ gateways[g].status = "UPDATING"
          /\ gateways' = [gateways EXCEPT ![g].status = "READY", ![g].auth = "AWS_IAM"]
       \/ gateways[g].status = "CREATING" /\ Becomes(g, "READY")
       \/ gateways[g].status \in {"CREATING", "UPDATING"} /\ Becomes(g, "FAILED")
    /\ UNCHANGED listed /\ Service

Vanish(g) ==
    /\ gateways[g].status = "DELETING"
    /\ Becomes(g, "gone") /\ listed' = listed \ {g}
    /\ Service

DropTargets(g) ==
    /\ gateways[g].leaving # {}
    /\ gateways' = [gateways EXCEPT ![g].targets = @ \ gateways[g].leaving, ![g].leaving = {}]
    /\ UNCHANGED listed /\ Service

Goes(o, place) == run' = [run EXCEPT ![o] = place]
Works(o, g) == id' = [id EXCEPT ![o] = g]
Local == UNCHANGED <<gateways, listed, url, doomed, started>>

Start(o) ==
    /\ run[o] = "idle" /\ started < MaxRuns
    /\ started' = started + 1
    /\ Goes(o, "find")
    /\ UNCHANGED <<gateways, listed, url, id, doomed, tried>>

\* It is done, or an error or its operator ends it.
Stop(o) ==
    /\ run[o] # "idle"
    /\ Goes(o, "idle") /\ Works(o, None) /\ tried' = tried \ {o} /\ doomed' = [doomed EXCEPT ![o] = {}]
    /\ UNCHANGED <<gateways, listed, url, started>>

\* find_gateway and what ensure_gateway makes of it.
Find(o) ==
    /\ run[o] = "find"
    /\ \/ listed = {} /\ Goes(o, "create") /\ UNCHANGED id
       \/ \E g \in listed :
            /\ Works(o, g)
            /\ Goes(o, IF gateways[g].auth = "AWS_IAM" THEN "targets" ELSE "update")
    /\ UNCHANGED tried /\ Local

Update(o) ==
    /\ run[o] = "update"
    /\ \/ /\ gateways[id[o]].status \in {"READY", "FAILED"}
          /\ Becomes(id[o], "UPDATING") /\ Goes(o, "updating")
       \/ Goes(o, "list") /\ UNCHANGED gateways
    /\ UNCHANGED <<listed, url, id, doomed, tried, started>>

\* wait_ready after an update: a poll that the service refuses counts as a
\* rejected update.  Any other end but READY stops the run.
Updated(o) ==
    /\ run[o] = "updating"
    /\ \/ gateways[id[o]].status = "READY" /\ Goes(o, "targets")
       \/ Goes(o, "list")
    /\ UNCHANGED <<id, tried>> /\ Local

\* delete_gateway_and_targets.
ListTargets(o) ==
    /\ run[o] = "list" /\ id[o] \in Live
    /\ doomed' = [doomed EXCEPT ![o] = gateways[id[o]].targets]
    /\ Goes(o, "drop")
    /\ UNCHANGED <<gateways, listed, url, id, tried, started>>

DeleteTarget(o) ==
    /\ run[o] = "drop" /\ id[o] \in Live
    /\ \E t \in doomed[o] \cap gateways[id[o]].targets :
         /\ doomed' = [doomed EXCEPT ![o] = @ \ {t}]
         /\ gateways' = [gateways EXCEPT ![id[o]].leaving = @ \cup {t}]
    /\ UNCHANGED <<listed, url, run, id, tried, started>>

\* The wait for the targets is capped and its cap ignored.
Drained(o) ==
    /\ run[o] = "drop" /\ doomed[o] = {}
    /\ Goes(o, "delete") /\ UNCHANGED <<id, tried>> /\ Local

DeleteGateway(o) ==
    /\ run[o] = "delete" /\ id[o] \in Live /\ gateways[id[o]].targets = {}
    /\ Becomes(id[o], "DELETING") /\ Goes(o, "deleting")
    /\ UNCHANGED <<listed, url, id, doomed, tried, started>>

Deleted(o) ==
    /\ run[o] = "deleting" /\ id[o] \notin Live
    /\ Goes(o, "create") /\ UNCHANGED <<id, tried>> /\ Local

Make(g) ==
    gateways' = [gateways EXCEPT ![g] = [auth |-> "AWS_IAM", status |-> "CREATING", targets |-> {}, leaving |-> {}]]

Unused == {g \in Ids : gateways[g].status = "absent"}

\* create_gateway, whose error may hide that it was carried out.
Create(o) ==
    /\ run[o] = "create"
    /\ \/ Live # {} /\ Goes(o, "again") /\ UNCHANGED <<gateways, id, tried>>
       \/ /\ Live = {} /\ Unused # {}
          /\ LET g == CHOOSE u \in Unused : \A v \in Unused : u <= v
             IN /\ Make(g)
                /\ \/ Works(o, g) /\ Goes(o, "creating") /\ UNCHANGED tried
                   \/ o \notin tried /\ tried' = tried \cup {o} /\ UNCHANGED <<run, id>>
       \/ o \notin tried /\ tried' = tried \cup {o} /\ UNCHANGED <<gateways, run, id>>
    /\ UNCHANGED <<listed, url, doomed, started>>

Created(o) ==
    /\ run[o] = "creating" /\ gateways[id[o]].status = "READY"
    /\ Goes(o, "targets") /\ UNCHANGED <<id, tried>> /\ Local

\* After a conflict: whatever has the name by now.
FindAgain(o) ==
    /\ run[o] = "again"
    /\ \E g \in listed : Works(o, g)
    /\ Goes(o, "targets") /\ UNCHANGED tried /\ Local

\* create_target, one after the other; those being deleted are listed.
CreateTarget(o) ==
    /\ run[o] = "targets" /\ id[o] \in Live
    /\ \E t \in Targets \ gateways[id[o]].targets :
         gateways' = [gateways EXCEPT ![id[o]].targets = @ \cup {t}]
    /\ UNCHANGED <<listed, url, run, id, doomed, tried, started>>

PutUrl(o) ==
    /\ run[o] = "targets" /\ id[o] \in Live /\ Targets \subseteq gateways[id[o]].targets
    /\ url' = id[o]
    /\ Goes(o, "put") /\ UNCHANGED <<gateways, listed, id, doomed, tried, started>>

\* From where the operator's run deletes what others may work on.
Replaces(o) == run[o] \in {"list", "drop", "delete", "deleting"}

Remember ==
    halved' = \/ halved
              \/ \E o \in Operators : Replaces(o) /\ run'[o] = "idle"
              \/ \E o, p \in Operators : o # p /\ Replaces(o)' /\ run'[p] # "idle"

GatewayNext ==
    /\ \/ \E g \in Ids : Appear(g) \/ Settle(g) \/ Vanish(g) \/ DropTargets(g)
       \/ \E o \in Operators :
            \/ Start(o) \/ Stop(o)
            \/ Find(o) \/ Update(o) \/ Updated(o) \/ ListTargets(o) \/ DeleteTarget(o) \/ Drained(o)
            \/ DeleteGateway(o) \/ Deleted(o) \/ Create(o) \/ Created(o) \/ FindAgain(o)
            \/ CreateTarget(o) \/ PutUrl(o)
    /\ Remember
-----------------------------------------------------------------------------
\* Once a run came to its end the url is that of a gateway that requires signed
\* requests, whatever other runs do, and that is live and has every target unless
\* a run was stopped while it replaced its gateway or replaced it beside another.
UrlServes ==
    \A o \in Operators : run[o] = "put" =>
        /\ gateways[url].auth = "AWS_IAM"
        /\ halved \/ (url \in Live /\ Targets \subseteq gateways[url].targets)

\* "wait until READY" (create_gateway.py:119): and the gateway is ready.
ReadyWhenDone == \A o \in Operators : run[o] = "put" => gateways[url].status = "READY"

\* "each target created only if absent" (create_gateway.py:7-8): and it has its
\* targets, whatever was stopped before.
TargetsWhenDone == \A o \in Operators : run[o] = "put" => Targets \subseteq gateways[url].targets
=============================================================================
