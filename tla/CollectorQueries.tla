-------------------------- MODULE CollectorQueries --------------------------
(***************************************************************************)
(* The queries of one collector invocation, pass after pass: the matrix    *)
(* (nfm-query.ts), the workload insights (wi-query.ts) and the DNS logs    *)
(* (dns-collect.ts), with the rows the handler puts of the last two.       *)
(*                                                                         *)
(* The insights pool is the matrix's pool over other jobs and without its  *)
(* statistics: the counters are the model's own there.  The variables of   *)
(* QueryMatrix are those of the current pass.                              *)
(***************************************************************************)
EXTENDS QueryMatrix, Functions

CONSTANTS
    Groups,      \* number of log groups: the resolver's, then CoreDNS's
    RecordCap,   \* recordCap
    MaxRecords   \* bound of the model: records of one log query

ASSUME GroupAssumption ==
    Groups \in Nat \ {0} /\ RecordCap \in Nat \ {0} /\ MaxRecords \in Nat

VARIABLES
    pass,      \* the pass the handler has reached
    rejected,  \* history: the pass's jobs, or groups, with a call rejected for good
    log,       \* each log query: its client's stage and polls, its state, its records
    insights,  \* WI#latest: "last", or what this invocation put
    dns        \* DNS#latest: <<>> for the last good one, or this one's records per group

handler == <<pass, rejected, log, insights, dns>>
all == <<matrixVars, handler>>

NoLog == [at |-> "idle", polls |-> 0, query |-> "none", records |-> 0]
NoLogs == [g \in 1 .. Groups |-> NoLog]
OnePage == [j \in Jobs |-> 1]

InitAll ==
    /\ MatrixInit
    /\ pass = "matrix" /\ rejected = {}
    /\ log = NoLogs
    /\ insights = "last" /\ dns = <<>>

PoolDone == queue = {} /\ Busy = {}

\* The next pass has a pool and jobs of its own.
FreshPool ==
    /\ PoolDone
    /\ queue' = Jobs /\ query' = [j \in Jobs |-> "none"] /\ pages' = OnePage
    /\ edges' = [j \in Jobs |-> 0] /\ started' = 0 /\ succeeded' = 0 /\ failed' = 0
    /\ rejected' = {}
    /\ UNCHANGED <<at, job, tries, polls, got>>

\* A call of worker w is rejected for good.
Refused(w) == Reject(w) \/ (StopQuery(w) /\ query'[job[w]] = "running")

PoolStep(w) ==
    /\ pass \in {"matrix", "insights"}
    /\ Step(w)
    /\ rejected' = IF Refused(w) THEN rejected \cup {job[w]} ELSE rejected
    /\ UNCHANGED <<pass, log, insights, dns>>

\* External: a query ends.
FinishQuery == (\E j \in Jobs : QueryEnds(j)) /\ UNCHANGED handler

MatrixEnds ==
    /\ pass = "matrix"
    /\ pass' = "scope"
    /\ FreshPool
    /\ UNCHANGED <<log, insights, dns>>

FindScope ==
    /\ pass = "scope"
    /\ pass' = "insights"
    /\ pages' \in [Jobs -> 1 .. MaxPages]
    /\ UNCHANGED <<queue, at, job, tries, polls, got, query, edges, stats,
                   rejected, log, insights, dns>>

\* Every few cycles the DNS pass follows the insights.
AfterInsights ==
    \/ pass' = "dns" /\ log' = [g \in 1 .. Groups |-> [NoLog EXCEPT !.at = "start"]]
    \/ pass' = "done" /\ UNCHANGED log

\* Without a scope, or without an answer which there are, the collection is
\* empty, and this is put over the last row.
NoScope ==
    /\ pass = "scope"
    /\ insights' = "empty"
    /\ AfterInsights
    /\ UNCHANGED <<matrixVars, rejected, dns>>

InsightsEnd ==
    /\ pass = "insights"
    /\ insights' = IF WithRows = {} THEN "empty" ELSE "rows"
    /\ FreshPool /\ AfterInsights
    /\ UNCHANGED dns
-----------------------------------------------------------------------------
\* runInsights: one query a log group, all at once, and no call tried twice.
LogGoes(g, to) == log' = [log EXCEPT ![g] = to]
LogEnds(g) == LogGoes(g, [log[g] EXCEPT !.at = "done"])

StartLog(g) ==
    /\ log[g].at = "start"
    /\ LogGoes(g, [NoLog EXCEPT !.at = "poll", !.query = "running"])
    /\ UNCHANGED rejected

\* The answer to a poll is a status, and the messages if the query has ended; n
\* of them parse.
PollLog(g) ==
    /\ log[g].at = "poll"
    /\ CASE log[g].query = "succeeded" ->
              \E n \in 0 .. MaxRecords :
                LogGoes(g, [log[g] EXCEPT !.at = "done", !.records = n])
         [] log[g].query = "failed" -> LogEnds(g)
         [] OTHER ->
              LogGoes(g, [log[g] EXCEPT !.polls = @ + 1,
                            !.at = IF log[g].polls + 1 = PollMax THEN "stop" ELSE "poll"])
    /\ UNCHANGED rejected

\* Mutation of StopLog: a query that is too slow is only given up.
StopLogNever(g) ==
    /\ log[g].at = "stop"
    /\ LogEnds(g)
    /\ UNCHANGED rejected

\* A query that is too slow is stopped; a rejection of that is ignored.
StopLog(g) ==
    /\ log[g].at = "stop"
    /\ \/ /\ LogGoes(g, [log[g] EXCEPT !.at = "done",
                           !.query = IF @ = "running" THEN "failed" ELSE @])
          /\ UNCHANGED rejected
       \/ LogEnds(g) /\ rejected' = rejected \cup {g}

\* Any rejection leaves the group without messages.  A start that was rejected
\* may have started the query all the same.
RejectLog(g) ==
    /\ log[g].at \in {"start", "poll"}
    /\ rejected' = rejected \cup {g}
    /\ \/ LogEnds(g)
       \/ log[g].at = "start" /\ LogGoes(g, [NoLog EXCEPT !.at = "done", !.query = "running"])

LogStep(g) ==
    /\ pass = "dns"
    /\ StartLog(g) \/ PollLog(g) \/ StopLog(g) \/ RejectLog(g)
    /\ UNCHANGED <<matrixVars, pass, insights, dns>>

\* External: a log query ends.
FinishLog(g) ==
    /\ log[g].query = "running"
    /\ \E end \in {"succeeded", "failed"} : LogGoes(g, [log[g] EXCEPT !.query = end])
    /\ UNCHANGED <<matrixVars, pass, rejected, insights, dns>>

\* Records are taken group by group up to the cap.
Before(g) == FoldFunctionOnSet(+, 0, [h \in 1 .. Groups |-> log[h].records], 1 .. g - 1)
Kept == [g \in 1 .. Groups |->
           IF log[g].records + Before(g) <= RecordCap THEN log[g].records
           ELSE IF Before(g) < RecordCap THEN RecordCap - Before(g) ELSE 0]

\* An empty aggregate does not replace the last good one.
DnsEnds ==
    /\ pass = "dns" /\ \A g \in 1 .. Groups : log[g].at = "done"
    /\ pass' = "done"
    /\ dns' = IF \E g \in 1 .. Groups : Kept[g] > 0 THEN Kept ELSE dns
    /\ UNCHANGED <<matrixVars, rejected, log, insights>>
-----------------------------------------------------------------------------
HandlerStep == MatrixEnds \/ FindScope \/ NoScope \/ InsightsEnd \/ DnsEnds

NextAll ==
    \/ \E w \in Workers : PoolStep(w)
    \/ FinishQuery
    \/ HandlerStep
    \/ \E g \in 1 .. Groups : LogStep(g) \/ FinishLog(g)

\* Every call comes back, one way or the other; queries need not end.
Invocation ==
    /\ InitAll /\ [][NextAll]_all
    /\ \A w \in Workers : WF_all(PoolStep(w))
    /\ WF_all(HandlerStep)
    /\ \A g \in 1 .. Groups : WF_all(LogStep(g))
-----------------------------------------------------------------------------
\* The invocation gets through its passes, even if no service ends a query.
InvocationEnds == <>(pass = "done")

\* A query nobody waits for any more runs on only if a call about it was
\* rejected: whatever is too slow is stopped, in all three passes.
OnlyRejectedLeftRunning ==
    /\ \A j \in Jobs :
         query[j] = "running" => j \in rejected \/ \E w \in Workers : job[w] = j
    /\ \A g \in 1 .. Groups :
         log[g].query = "running" => g \in rejected \/ log[g].at \in {"poll", "stop"}
=============================================================================
