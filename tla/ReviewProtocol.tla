--------------------------- MODULE ReviewProtocol ---------------------------
(***************************************************************************)
(* The specialist pull request review of scripts/pr-review: a plan is      *)
(* prepared from the diff, one process per required role calls a provider  *)
(* and records its answer in a slot directory, the results are aggregated, *)
(* and a chair is called only for what they leave open.  The processes     *)
(* share nothing but the files of the slot, under a lock directory a role. *)
(*                                                                         *)
(* A diff, a prompt and a digest are a plan number: plans prepared from    *)
(* the same bytes have the same number, as they have the same digest.  An  *)
(* answer is the kind the validation of role_review.py makes of it.        *)
(***************************************************************************)
EXTENDS Naturals, FiniteSets

CONSTANTS
    Runners,      \* processes that execute run_role.py
    Tags,         \* the roster, ROLES
    Independent,  \* the roles that are always required
    Kiro,         \* the roles started through the preflight
    Retries,      \* PANEL_RETRIES
    HistoryLimit, \* archived attempts a role may have
    Chairs,       \* number of distinct chair models
    FastFail,     \* whether CHAIR_FAST_FAIL_S is set
    MaxPlans,     \* bound of the model: preparations
    MaxLaunches,  \* bound of the model: launches of run_role.py
    None

ASSUME TagAssumption == Independent \subseteq Tags /\ Kiro \subseteq Tags
ASSUME NumberAssumption ==
    /\ Retries \in Nat \ {0} /\ HistoryLimit \in Nat /\ Chairs \in Nat \ {0}
    /\ MaxPlans \in Nat /\ MaxLaunches \in Nat
ASSUME NoneAssumption ==
    None \notin Tags \cup {"clean", "major", "unsound", "terminal", "PASS", "FAIL"}

VARIABLES
    phase,    \* what run-specialists.sh and synthesize_roles.py have reached
    plan,     \* role-plan.json: its content, requirements and completeness
    slot,     \* per role: request, result, claim, lock, attempts and flags
    runner,   \* each run_role.py process
    mode,     \* chair-mode.txt
    chair,    \* chair models not called yet
    verdict,  \* the published last line
    launches, plans,
    nonce,    \* nonces drawn for each role so far, each one new
    said,     \* history: per role, the last sound answer to a request not yet superseded
    spent     \* history: roles with a terminal failure recorded for this plan

vars == <<phase, plan, slot, runner, mode, chair, verdict, launches, plans, nonce, said, spent>>
counters == <<launches, plans, nonce>>
report == <<mode, chair, verdict>>

Sound == {"clean", "major"}
\* validate_response, parse_response and diagnostic_failure, by their result.
Recorded(kind) == IF kind \in Sound \cup {"terminal"} THEN kind ELSE "unsound"
Answers == {"clean", "major", "malformed", "empty", "nonzero", "terminal"}
Retried == {"empty", "nonzero"}

NoRequest == [nonce |-> 0, plan |-> 0]
NoResult == [nonce |-> 0, plan |-> 0, kind |-> None]
EmptySlot == [request |-> NoRequest, result |-> NoResult, claim |-> FALSE,
              lock |-> FALSE, attempts |-> 0, flags |-> {}]
Free == [pc |-> "idle", tag |-> None, nonce |-> 0, plan |-> 0, first |-> TRUE,
         left |-> 0, out |-> NoResult]

Running == {r \in Runners : runner[r].pc # "idle"}
Goes(r, pc) == runner' = [runner EXCEPT ![r].pc = pc]
Ends(r) == runner' = [runner EXCEPT ![r] = Free]
-----------------------------------------------------------------------------
\* routing: a change that is clearly frontend only, and names no AWS or
\* deployment term, needs the independent roles alone; an approved exclusion of
\* every path needs none.
Routes == {Tags, Independent, {}}

Init ==
    /\ phase = "none"
    /\ plan = [content |-> 0, required |-> {}, complete |-> FALSE]
    /\ slot = [t \in Tags |-> EmptySlot]
    /\ runner = [r \in Runners |-> Free]
    /\ mode = None /\ chair = 0 /\ verdict = None
    /\ launches = 0 /\ plans = 0 /\ nonce = [t \in Tags |-> 0]
    /\ said = [t \in Tags |-> NoResult] /\ spent = {}

\* prepare, under run-specialists.sh with an emptied slot directory, or on its
\* own: then locks and preflight flags stay, and runners may be at work.
\* An incomplete plan still replaces the last one.
Prepare(required, complete, new, fresh) ==
    /\ plans < MaxPlans
    /\ fresh => Running = {}
    /\ plans' = plans + 1
    /\ plan' = [content |-> IF new THEN plan.content + 1 ELSE plan.content,
                required |-> IF new THEN required ELSE plan.required,
                complete |-> IF new THEN complete ELSE plan.complete]
    /\ new \/ plan.content > 0
    /\ slot' = [t \in Tags |->
         IF fresh THEN EmptySlot
         ELSE [EmptySlot EXCEPT !.lock = slot[t].lock,
                                !.flags = slot[t].flags \cap {"preflight"}]]
    /\ phase' = "reviewing"
    /\ mode' = None /\ chair' = 0 /\ verdict' = None
    /\ spent' = {} /\ said' = [t \in Tags |-> NoResult]
    /\ UNCHANGED <<runner, launches, nonce>>

-----------------------------------------------------------------------------
\* run: a role that is not required, or an incomplete plan, makes no call.
Launch(r, t) ==
    /\ phase = "reviewing"
    /\ runner[r].pc = "idle"
    /\ launches < MaxLaunches
    /\ plan.complete /\ t \in plan.required
    /\ runner' = [runner EXCEPT ![r] =
         [Free EXCEPT !.pc = "issue", !.tag = t, !.left = Retries]]
    /\ launches' = launches + 1
    /\ UNCHANGED <<phase, plan, slot, report, plans, nonce, said, spent>>

\* Mutation of Reissuable: the earlier result is not looked at.
ReissuableAlways(t) == plan.complete /\ t \in plan.required

\* _issue_request under the lock: a valid result may not be asked for again, and
\* an invalid one goes to the role's history.  Anything refused ends the runner.
Reissuable(t) ==
    /\ plan.complete /\ t \in plan.required
    /\ slot[t].result.kind \notin Sound
    /\ slot[t].result.kind # None => slot[t].attempts < HistoryLimit

IssueRefused(r) ==
    LET t == runner[r].tag
    IN  /\ runner[r].pc = "issue"
        /\ slot[t].lock \/ ~Reissuable(t)
        /\ Ends(r)
        /\ UNCHANGED <<phase, plan, slot, report, counters, said, spent>>

\* Mutation of Archive: a terminal failure is only archived.
ArchiveUnflagged(r) ==
    LET t == runner[r].tag
    IN  /\ runner[r].pc = "issue"
        /\ ~slot[t].lock /\ Reissuable(t)
        /\ slot' = [slot EXCEPT ![t].lock = TRUE,
             ![t].attempts = IF slot[t].result.kind = None THEN @ ELSE @ + 1]
        /\ runner' = [runner EXCEPT ![r].pc = "archived", ![r].plan = plan.content]
        /\ UNCHANGED <<phase, plan, report, counters, said, spent>>

\* A terminal failure is flagged here, before its result is removed.
Archive(r) ==
    LET t == runner[r].tag
        prior == slot[t].result.kind
    IN  /\ runner[r].pc = "issue"
        /\ ~slot[t].lock /\ Reissuable(t)
        /\ slot' = [slot EXCEPT
             ![t].lock = TRUE,
             ![t].attempts = IF prior = None THEN @ ELSE @ + 1,
             ![t].flags = IF prior = "terminal" THEN @ \cup {"terminal"} ELSE @]
        /\ runner' = [runner EXCEPT ![r].pc = "archived", ![r].plan = plan.content]
        /\ UNCHANGED <<phase, plan, report, counters, said, spent>>

\* The receipt carries the plan read when the lock was taken.  The first request
\* of a Kiro role is for the preflight; every provider call has one of its own.
Reissue(r) ==
    LET t == runner[r].tag
    IN  /\ runner[r].pc = "archived"
        /\ nonce' = [nonce EXCEPT ![t] = @ + 1]
        /\ slot' = [slot EXCEPT ![t].lock = FALSE, ![t].claim = FALSE, ![t].result = NoResult,
                                ![t].flags = @ \ {"duplicate"},
                                ![t].request = [nonce |-> nonce[t] + 1, plan |-> runner[r].plan]]
        /\ runner' = [runner EXCEPT
             ![r].nonce = nonce[t] + 1, ![r].first = FALSE, ![r].out = NoResult,
             ![r].pc = IF ~runner[r].first THEN "call"
                       ELSE IF t \in Kiro THEN "preflight" ELSE "issue"]
        /\ said' = [said EXCEPT ![t] = NoResult]
        /\ UNCHANGED <<phase, plan, report, launches, plans, spent>>

\* The startup check fails: the diff is withheld and the failure recorded.
PreflightFails(r, kind) ==
    /\ runner[r].pc = "preflight"
    /\ kind \in {"unsound", "terminal"}
    /\ slot' = [slot EXCEPT ![runner[r].tag].flags = @ \cup {"preflight"}]
    /\ runner' = [runner EXCEPT ![r].pc = "record", ![r].out = [NoResult EXCEPT !.kind = kind]]
    /\ UNCHANGED <<phase, plan, report, counters, said, spent>>

PreflightPasses(r) ==
    /\ runner[r].pc = "preflight"
    /\ Goes(r, "issue")
    /\ UNCHANGED <<phase, plan, slot, report, counters, said, spent>>

\* One provider call, ended by its time limit at the latest.  A failure without
\* a diagnostic, or an empty answer, is asked again while attempts are left.
Call(r, kind) ==
    /\ runner[r].pc = "call"
    /\ said' = [said EXCEPT ![runner[r].tag] =
         IF kind \in Sound /\ slot[runner[r].tag].request.nonce = runner[r].nonce
         THEN [nonce |-> runner[r].nonce, plan |-> runner[r].plan, kind |-> kind] ELSE @]
    /\ runner' = [runner EXCEPT
         ![r].left = @ - 1,
         ![r].pc = IF kind \in Retried /\ runner[r].left > 1 THEN "issue" ELSE "record",
         ![r].out = [NoResult EXCEPT !.kind = Recorded(kind)]]
    /\ UNCHANGED <<phase, plan, slot, report, counters, spent>>
-----------------------------------------------------------------------------
\* record: without the lock, with a claim or over a result it only leaves the
\* duplicate flag, which blocks the aggregation.
RecordRefused(r) ==
    LET t == runner[r].tag
    IN  /\ runner[r].pc = "record"
        /\ slot[t].lock \/ slot[t].claim \/ slot[t].result.kind # None
        /\ slot' = [slot EXCEPT ![t].flags = @ \cup {"duplicate"},
                                ![t].claim = @ \/ ~slot[t].lock]
        /\ Ends(r)
        /\ UNCHANGED <<phase, plan, report, counters, said, spent>>

\* The result this runner will write: valid only for the request issued last.
Result(r) ==
    LET t == runner[r].tag
        known == slot[t].request.plan = plan.content /\ slot[t].request.nonce = runner[r].nonce
    IN  [nonce |-> IF known THEN runner[r].nonce ELSE 0, plan |-> plan.content,
         kind |-> IF known /\ plan.complete /\ t \in plan.required
                  THEN runner[r].out.kind ELSE "unsound"]

Claim(r) ==
    LET t == runner[r].tag
    IN  /\ runner[r].pc = "record"
        /\ ~slot[t].lock /\ ~slot[t].claim /\ slot[t].result.kind = None
        /\ slot' = [slot EXCEPT ![t].lock = TRUE, ![t].claim = TRUE]
        /\ runner' = [runner EXCEPT ![r].pc = "write", ![r].out = Result(r)]
        /\ UNCHANGED <<phase, plan, report, counters, said, spent>>

Write(r) ==
    LET t == runner[r].tag
    IN  /\ runner[r].pc = "write"
        /\ slot' = [slot EXCEPT ![t].lock = FALSE, ![t].result = runner[r].out]
        /\ spent' = IF runner[r].out.kind = "terminal" /\ runner[r].out.plan = plan.content
                    THEN spent \cup {t} ELSE spent
        /\ Ends(r)
        /\ UNCHANGED <<phase, plan, report, counters, said>>

\* A runner is killed: whatever lock it holds stays.
Crash(r) ==
    /\ runner[r].pc # "idle"
    /\ Ends(r)
    /\ UNCHANGED <<phase, plan, slot, report, counters, said, spent>>
-----------------------------------------------------------------------------
\* aggregate, after run-specialists.sh has waited for every runner.
Validated(t) ==
    /\ slot[t].result.kind \in Sound
    /\ slot[t].request.plan = plan.content /\ slot[t].result.plan = plan.content
    /\ slot[t].result.nonce = slot[t].request.nonce

\* Mutation of Failures: a required role without a result is not missed.
FailuresOfResults ==
    \/ ~plan.complete
    \/ \E t \in Tags : slot[t].flags # {}
    \/ \E t \in plan.required : slot[t].result.kind # None /\ ~Validated(t)

\* What blocks the review.
Failures ==
    \/ ~plan.complete
    \/ \E t \in Tags : slot[t].flags # {}
    \/ \E t \in Tags \ plan.required : slot[t].result.kind # None
    \/ \E t \in plan.required : ~Validated(t)

ModeOf == IF Failures THEN "blocked"
          ELSE IF \E t \in plan.required : slot[t].result.kind = "major" THEN "review"
          ELSE "deterministic"

Aggregate ==
    /\ phase = "reviewing"
    /\ Running = {}
    /\ mode' = ModeOf
    /\ phase' = IF ModeOf = "review" THEN "chair" ELSE "published"
    /\ verdict' = CASE ModeOf = "blocked" -> "FAIL"
                    [] ModeOf = "deterministic" -> "PASS"
                    [] OTHER -> None
    /\ chair' = IF ModeOf = "review" THEN Chairs ELSE 0
    /\ UNCHANGED <<plan, slot, runner, counters, said, spent>>

\* synthesize: the chair models are called in turn for an answer that ends in
\* one verdict line.
ChairAnswers(v) ==
    /\ phase = "chair" /\ chair > 0
    /\ phase' = "published"
    /\ verdict' = v /\ chair' = 0
    /\ UNCHANGED <<plan, slot, runner, mode, counters, said, spent>>

\* Mutation of ChairFails: the calls end without a last word.
ChairFailsSilently(kind) ==
    /\ phase = "chair" /\ chair > 0
    /\ chair' = IF kind = "quota" THEN 0 ELSE chair - 1
    /\ UNCHANGED <<phase, verdict, plan, slot, runner, mode, counters, said, spent>>

\* An account limit ends the calls; so does a slow failure if FastFail is set;
\* anything else goes on to the next model, and after the last one it is FAIL.
ChairFails(kind) ==
    LET stops == kind = "quota" \/ (kind = "slow" /\ FastFail) \/ chair = 1
    IN  /\ phase = "chair" /\ chair > 0
        /\ chair' = IF stops THEN 0 ELSE chair - 1
        /\ phase' = IF stops THEN "published" ELSE "chair"
        /\ verdict' = IF stops THEN "FAIL" ELSE None
        /\ UNCHANGED <<plan, slot, runner, mode, counters, said, spent>>

-----------------------------------------------------------------------------
RunnerStep(r) ==
    \/ IssueRefused(r)
    \/ Archive(r)
    \/ Reissue(r)
    \/ \E kind \in {"unsound", "terminal"} : PreflightFails(r, kind)
    \/ PreflightPasses(r)
    \/ \E kind \in Answers : Call(r, kind)
    \/ RecordRefused(r)
    \/ Claim(r)
    \/ Write(r)

ChairStep ==
    \/ \E v \in {"PASS", "FAIL"} : ChairAnswers(v)
    \/ \E kind \in {"quota", "slow", "invalid"} : ChairFails(kind)

Next ==
    \/ \E required \in Routes, complete, new, fresh \in BOOLEAN :
         Prepare(required, complete, new, fresh)
    \/ \E r \in Runners, t \in Tags : Launch(r, t)
    \/ \E r \in Runners : RunnerStep(r) \/ Crash(r)
    \/ Aggregate
    \/ ChairStep

Spec == Init /\ [][Next]_vars

\* The processes and the script run on, and every call has a time limit; nobody
\* has to launch a role or prepare anew.
FairSpec ==
    /\ Spec
    /\ \A r \in Runners : WF_vars(RunnerStep(r))
    /\ WF_vars(Aggregate)
    /\ WF_vars(ChairStep)
-----------------------------------------------------------------------------
Kinds == Sound \cup {"unsound", "terminal"}
ResultRecord == [nonce : Nat, plan : Nat, kind : Kinds \cup {None}]
SlotRecord ==
    [request : [nonce : Nat, plan : Nat], result : ResultRecord, claim : BOOLEAN,
     lock : BOOLEAN, attempts : Nat, flags : SUBSET {"duplicate", "terminal", "preflight"}]

TypeOK ==
    /\ phase \in {"none", "reviewing", "chair", "published"}
    /\ plan \in [content : Nat, required : SUBSET Tags, complete : BOOLEAN]
    /\ slot \in [Tags -> SlotRecord]
    /\ nonce \in [Tags -> Nat] /\ said \in [Tags -> ResultRecord] /\ spent \subseteq Tags
    /\ chair \in Nat

\* The request that slot t answers has had a sound answer from the provider.
Answered(t) ==
    /\ said[t].plan = plan.content /\ said[t].nonce = slot[t].request.nonce
    /\ said[t].kind = "clean" \/ (said[t].kind = "major" /\ mode = "review")

\* A published PASS rests on a complete plan and on a sound answer of every
\* required role's provider to the request issued last, for this very plan; with
\* a severe finding among them only the chair can have given it (aggregate and
\* synthesize: "cannot award coverage" for a missing or failed role).
PassNeedsEveryRole ==
    verdict = "PASS" => plan.complete /\ \A t \in plan.required : Answered(t)

\* Once a quota, model or agent diagnostic was recorded for a role, no later
\* attempt of the same preparation can turn the review into a PASS.
TerminalIsFinal == verdict = "PASS" => spent = {}

\* A valid result is neither replaced nor removed before the next preparation,
\* whatever runners of the same role do.
ValidResultStays ==
    [][\A t \in Tags :
         slot[t].result.kind \in Sound /\ plans' = plans
            => slot'[t].result = slot[t].result]_vars

\* A prepared review is published, through crashed runners, abandoned locks and
\* failing chairs.
EndsInVerdict == (phase = "reviewing") ~> (phase = "published")
=============================================================================
