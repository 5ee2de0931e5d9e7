----------------------------- MODULE CorednsLog ------------------------------
(***************************************************************************)
(* The CoreDNS log plugin, enabled on every cluster and disabled again:    *)
(* onboarding/enable_coredns_log.py.                                       *)
(*                                                                         *)
(* A Corefile is what its admins wrote, by a number, and whether it has a  *)
(* log line ("logs"), none but a block that add_log_plugin finds a place   *)
(* in ("open"), or neither ("closed"): that one stays as it is, with a     *)
(* warning.  Admins may edit it at any time, and keep its annotations.     *)
(***************************************************************************)
EXTENDS CustomResource

CONSTANTS
    Attempts,   \* attempts of _patch_with_retry (3)
    MaxEdits    \* bound of the model: edits that stand at a time

Corefiles == [text : Nat, form : {"logs", "open", "closed"}]

ASSUME BackupAssumption == None \notin Corefiles

VARIABLES
    corefile, backup,   \* the ConfigMap: its Corefile and the backup annotation, or None
    admin,              \* the clusters the function's role is an admin of
    cluster,            \* the cluster under way
    tried,              \* its attempts that were denied
    seen,               \* what was read of its ConfigMap
    written,            \* history: the Corefiles admins wrote
    edited,             \* history: the clusters edited since the request
    unrevoked           \* history: the clusters whose access could not be removed

corednsVars == <<corefile, backup, admin, cluster, tried, seen, written, edited, unrevoked>>

Plain(form) == [text |-> 0, form |-> form]

CorednsInit ==
    /\ \E form \in [Clusters -> {"open", "closed"}] : corefile = [c \in Clusters |-> Plain(form[c])]
    /\ backup = [c \in Clusters |-> None]
    /\ admin = {} /\ cluster = None /\ tried = 0 /\ seen = None
    /\ written = [c \in Clusters |-> {corefile[c]}]
    /\ edited = {} /\ unrevoked = {}

\* External: an admin edits a Corefile, with or without a log line or a block.
Edit(c) ==
    /\ \A d \in Clusters : corefile[d].text < MaxEdits
    /\ \E form \in {"logs", "open", "closed"} :
         LET new == [text |-> corefile[c].text + 1, form |-> form]
         IN corefile' = [corefile EXCEPT ![c] = new] /\ written' = [written EXCEPT ![c] = @ \cup {new}]
    /\ edited' = edited \cup {c}
    /\ UNCHANGED <<resource, backup, admin, cluster, tried, seen, unrevoked>>

CorednsRequest ==
    /\ SendRequest
    /\ edited' = {}
    /\ UNCHANGED <<corefile, backup, admin, cluster, tried, seen, written, unrevoked>>

CorednsInvoke ==
    /\ Invoke("next")
    /\ unrevoked' = {}
    /\ UNCHANGED <<corefile, backup, admin, cluster, tried, seen, written, edited>>

Aside == UNCHANGED <<corefile, backup, written, edited>>

\* The next cluster, and _ensure_access; a failure may come before or after the access is there.
Grant ==
    /\ at = "next"
    /\ \E c \in todo :
         /\ cluster' = c
         /\ \/ admin' = admin \cup {c} /\ at' = "read" /\ UNCHANGED failed
            \/ admin' \in {admin, admin \cup {c}} /\ at' = "revoke" /\ failed' = failed \cup {c}
    /\ tried' = 0 /\ seen' = None
    /\ UNCHANGED <<request, last, answer, sent, invoked, todo, unrevoked>> /\ Aside

\* The next thing for this cluster, which has failed or not.
Then(place, bad) ==
    /\ at' = place
    /\ failed' = IF bad THEN failed \cup {cluster} ELSE failed
    /\ UNCHANGED <<request, last, answer, sent, invoked, todo, admin, cluster, unrevoked>>

\* add_log_plugin: the line goes into the first block, if one is found.
WithLog(file) == IF file.form = "open" THEN [file EXCEPT !.form = "logs"] ELSE file

\* There is nothing to undo without a backup, and nothing to do where the file
\* would stay as it is, whether it logs or not.
Settled(file, kept) == IF request = "Delete" THEN kept = None ELSE WithLog(file) = file

Read ==
    /\ at = "read"
    /\ seen' = [file |-> corefile[cluster], backup |-> backup[cluster]]
    /\ Then(IF Settled(corefile[cluster], backup[cluster]) THEN "revoke" ELSE "patch", FALSE)
    /\ UNCHANGED tried /\ Aside

Write(file, kept) ==
    /\ corefile' = [corefile EXCEPT ![cluster] = file]
    /\ backup' = [backup EXCEPT ![cluster] = kept]
    /\ UNCHANGED <<written, edited>>

\* Mutation of PatchMap: every update takes a backup of what it finds.
PatchMapAgain ==
    IF request = "Delete" THEN Write(seen.backup, None)
    ELSE Write(WithLog(seen.file), WithLog(seen.file))

\* One merge patch of the file and the annotation, whatever became of the file
\* since it was read.
PatchMap ==
    IF request = "Delete" THEN Write(seen.backup, None)
    ELSE Write(WithLog(seen.file), IF seen.backup = None THEN seen.file ELSE seen.backup)

\* The patch is applied, though its answer may be lost.
Patch ==
    /\ at = "patch"
    /\ PatchMap
    /\ \E lost \in BOOLEAN : Then("revoke", lost)
    /\ UNCHANGED tried /\ seen' = None

\* Mutation of Denied: the last denial ends the loop without an error.
DeniedQuietly ==
    /\ at \in {"read", "patch"}
    /\ tried' = tried + 1
    /\ Then(IF tried' < Attempts THEN "read" ELSE "revoke", FALSE)
    /\ seen' = None /\ Aside

\* 401 or 403: the access is not there yet.
Denied ==
    /\ at \in {"read", "patch"}
    /\ tried' = tried + 1
    /\ IF tried' < Attempts THEN Then("read", FALSE) ELSE Then("revoke", TRUE)
    /\ seen' = None /\ Aside

\* Any other error.
Break ==
    /\ at \in {"read", "patch"}
    /\ Then("revoke", TRUE)
    /\ UNCHANGED tried /\ seen' = None /\ Aside

\* _remove_access, whose failure is only logged.
Revoke ==
    /\ at = "revoke"
    /\ \/ admin' = admin \ {cluster} /\ UNCHANGED unrevoked
       \/ unrevoked' = unrevoked \cup {cluster} /\ UNCHANGED admin
    /\ at' = "next" /\ todo' = todo \ {cluster}
    /\ cluster' = None /\ tried' = 0 /\ seen' = None
    /\ UNCHANGED <<request, last, answer, sent, invoked, failed>> /\ Aside

\* cfn_outcome.
Outcome ==
    IF failed = {} THEN "ok"
    ELSE IF request # "Delete" /\ failed = Clusters THEN "FAILED" ELSE "partly"

\* What the outermost handler answers.
Caught == IF request = "Delete" THEN "partly" ELSE "FAILED"

\* The loop is over, or could not begin.
CorednsReply ==
    /\ at = "next"
    /\ \/ todo = {} /\ (Reply(Outcome) \/ Reply(Caught))
       \/ todo = Clusters /\ failed = {} /\ Reply(Caught)
    /\ UNCHANGED corednsVars

CorednsDies ==
    /\ Die \/ TimeOut
    /\ cluster' = None /\ tried' = 0 /\ seen' = None
    /\ UNCHANGED <<admin, unrevoked>> /\ Aside

CorednsNext ==
    \/ \E c \in Clusters : Edit(c)
    \/ CorednsRequest \/ CorednsInvoke \/ CorednsDies
    \/ Grant \/ Read \/ Patch \/ Denied \/ Break \/ Revoke
    \/ CorednsReply
-----------------------------------------------------------------------------
\* Whatever is interrupted, denied, lost or edited meanwhile, a Corefile that is
\* not its admins' own comes with a backup that is.
Reversible ==
    \A c \in Clusters :
        /\ corefile[c] \in written[c] \/ backup[c] # None
        /\ backup[c] # None => backup[c] \in written[c]

\* What an unqualified success says of every cluster nobody edited meanwhile: after
\* a create or an update it logs, unless its admins wrote a Corefile without a
\* block for the line, and then that is what it has; after a delete it is as its
\* admins had it.  And the role is an admin nowhere it was not refused to resign,
\* even where an earlier invocation died as one.
SuccessIsWholeDns ==
    request = None /\ answer = "ok" =>
        \A c \in Clusters :
            /\ c \in admin => c \in unrevoked
            /\ c \in edited \/
                 IF last = "Delete" THEN corefile[c] \in written[c] /\ backup[c] = None
                 ELSE corefile[c].form = "logs" \/ (corefile[c].form = "closed" /\ corefile[c] \in written[c])
=============================================================================
