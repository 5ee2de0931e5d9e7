--------------------------- MODULE CustomResource ---------------------------
(***************************************************************************)
(* A CloudFormation custom resource answered by a Lambda function, as the  *)
(* stacks of infra/lib use one (dns-stack.ts, nfm-onboarding-stack.ts).    *)
(*                                                                         *)
(* CloudFormation and Lambda are external: one request is outstanding at a *)
(* time; an invocation that is killed, or whose exception escapes, is      *)
(* started again while its retries last; a request nobody answers fails.   *)
(***************************************************************************)
EXTENDS Naturals, FiniteSets

CONSTANTS
    Clusters,      \* what list_clusters answers
    MaxRequests,   \* bound of the model
    Invocations,   \* how often Lambda starts the function for one request (3)
    None

ASSUME RequestAssumption == None \notin {"Create", "Update", "Delete", "ok"}

VARIABLES
    request,   \* the type of the request outstanding, or None
    last,      \* the type of the request last answered, or None
    answer,    \* its answer: "ok", "partly" (a success that names failures) or "FAILED";
               \* None as long as one is outstanding
    sent,      \* requests so far
    invoked,   \* invocations of this request
    at,        \* where the function is
    todo,      \* the clusters it has not come to
    failed     \* the clusters that failed

resource == <<request, last, answer, sent, invoked, at, todo, failed>>

InitResource ==
    /\ request = None /\ last = None /\ answer = None /\ sent = 0 /\ invoked = 0
    /\ at = "idle" /\ todo = {} /\ failed = {}

\* A stack creates its resource first, and may delete it whatever the answer.
SendRequest ==
    /\ request = None /\ sent < MaxRequests
    /\ request' \in IF last \in {None, "Delete"} THEN {"Create"} ELSE {"Update", "Delete"}
    /\ sent' = sent + 1 /\ answer' = None
    /\ UNCHANGED <<last, invoked, at, todo, failed>>

Invoke(first) ==
    /\ request # None /\ at = "idle" /\ invoked < Invocations
    /\ invoked' = invoked + 1
    /\ at' = first /\ todo' = Clusters /\ failed' = {}
    /\ UNCHANGED <<request, last, answer, sent>>

Goto(place) == at' = place /\ UNCHANGED <<request, last, answer, sent, invoked, todo, failed>>

Rest == at' = "idle" /\ todo' = {} /\ failed' = {}

Reply(status) ==
    /\ request' = None /\ last' = request /\ answer' = status
    /\ Rest /\ invoked' = 0
    /\ UNCHANGED sent

\* The function is killed at its timeout and started again, or could not reply
\* and ends well for Lambda.
Die ==
    /\ at # "idle"
    /\ Rest /\ invoked' \in {invoked, Invocations}
    /\ UNCHANGED <<request, last, answer, sent>>

\* Nobody has answered.
TimeOut == request # None /\ at = "idle" /\ invoked = Invocations /\ Reply("FAILED")
=============================================================================
