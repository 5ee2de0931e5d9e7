---------------------------- MODULE QueryMatrix ----------------------------
(***************************************************************************)
(* The collector's query matrix: collector/src/nfm-query.ts.  A pool of    *)
(* workers takes one job (monitor, metric, category) at a time and leads   *)
(* its query through the service: start it, poll its status, fetch its     *)
(* pages.  A throttled call is tried again; any other rejection, a failed  *)
(* query or one too slow fails the job and nothing but the job.            *)
(* wi-query.ts runs the workload insights jobs in the same way.            *)
(*                                                                         *)
(* The service is external: a query, once started, ends on its own and is  *)
(* not known to the service before.  A result is counted in pages; the     *)
(* counts of rows and of throttled calls, which nothing is decided by, are *)
(* left out.                                                               *)
(***************************************************************************)
EXTENDS Naturals, FiniteSets

CONSTANTS
    Jobs,      \* the matrix: one job per monitor, metric and category
    Workers,   \* the pool (CONCURRENCY)
    Retries,   \* how often a throttled call is tried again (4)
    PollMax,   \* statusPollMax
    MaxPages,  \* bound of the model: pages of one result
    None

ASSUME NoneAssumption == None \notin Jobs
ASSUME FiniteAssumption == IsFiniteSet(Jobs) /\ IsFiniteSet(Workers)
ASSUME BoundAssumption ==
    Retries \in Nat /\ PollMax \in Nat \ {0} /\ MaxPages \in Nat \ {0}

VARIABLES
    queue,      \* jobs no worker has taken
    at,         \* where each worker is
    job,        \* the job it has taken
    tries,      \* how often its current call was throttled
    polls,      \* status polls answered for its query
    got,        \* pages it has fetched
    query,      \* the service's state of each job's query
    pages,      \* how many pages the query's result has
    edges,      \* pages of each job in the matrix's result
    started, succeeded, failed   \* CycleStats, as far as it counts jobs

stats == <<started, succeeded, failed>>
service == <<query, pages>>
matrixVars == <<queue, at, job, tries, polls, got, service, edges, stats>>

Stages == {"pick", "start", "poll", "fetch", "stop"}
QueryStates == {"none", "running", "succeeded", "failed"}
Calling(w) == at[w] \in {"start", "poll", "fetch"}
Busy == {w \in Workers : at[w] # "pick"}

MatrixInit ==
    /\ queue = Jobs
    /\ at = [w \in Workers |-> "pick"]
    /\ job = [w \in Workers |-> None]
    /\ tries = [w \in Workers |-> 0]
    /\ polls = [w \in Workers |-> 0]
    /\ got = [w \in Workers |-> 0]
    /\ query = [j \in Jobs |-> "none"]
    /\ pages \in [Jobs -> 1 .. MaxPages]
    /\ edges = [j \in Jobs |-> 0]
    /\ started = 0 /\ succeeded = 0 /\ failed = 0

\* A worker takes a job nobody has taken.  The code's index runs through the
\* jobs in order, which nothing here depends on.
Take(w) ==
    /\ at[w] = "pick"
    /\ \E j \in queue : queue' = queue \ {j} /\ job' = [job EXCEPT ![w] = j]
    /\ at' = [at EXCEPT ![w] = "start"]
    /\ started' = started + 1
    /\ UNCHANGED <<tries, polls, got, service, edges, succeeded, failed>>

\* The call of a worker is answered, and the next one is of this stage.
Proceed(w, stage) ==
    /\ at' = [at EXCEPT ![w] = stage]
    /\ tries' = [tries EXCEPT ![w] = 0]
    /\ UNCHANGED <<queue, job>>

\* The worker is done with its job and looks for another.
Leave(w) ==
    /\ at' = [at EXCEPT ![w] = "pick"]
    /\ job' = [job EXCEPT ![w] = None]
    /\ tries' = [tries EXCEPT ![w] = 0]
    /\ polls' = [polls EXCEPT ![w] = 0]
    /\ got' = [got EXCEPT ![w] = 0]
    /\ UNCHANGED <<queue, pages, started>>

Fail(w) ==
    /\ Leave(w)
    /\ failed' = failed + 1
    /\ UNCHANGED <<edges, succeeded>>

StartQuery(w) ==
    /\ at[w] = "start"
    /\ Proceed(w, "poll")
    /\ query' = [query EXCEPT ![job[w]] = "running"]
    /\ UNCHANGED <<polls, got, pages, edges, stats>>

LastPoll(w) == polls[w] + 1 = PollMax

\* Mutation of PollAgain: the polls are not counted.
PollAgainUncounted(w) ==
    /\ at[w] = "poll"
    /\ query[job[w]] = "running"
    /\ ~LastPoll(w)
    /\ Proceed(w, "poll")
    /\ UNCHANGED <<polls, got, service, edges, stats>>

PollAgain(w) ==
    /\ at[w] = "poll"
    /\ query[job[w]] = "running"
    /\ ~LastPoll(w)
    /\ Proceed(w, "poll")
    /\ polls' = [polls EXCEPT ![w] = @ + 1]
    /\ UNCHANGED <<got, service, edges, stats>>

PollSucceeds(w) ==
    /\ at[w] = "poll"
    /\ query[job[w]] = "succeeded"
    /\ Proceed(w, "fetch")
    /\ UNCHANGED <<polls, got, service, edges, stats>>

PollFails(w) ==
    /\ at[w] = "poll"
    /\ query[job[w]] = "failed"
    /\ Fail(w)
    /\ UNCHANGED query

\* The last poll finds the query still running: it is to be stopped.
GiveUp(w) ==
    /\ at[w] = "poll"
    /\ query[job[w]] = "running"
    /\ LastPoll(w)
    /\ Proceed(w, "stop")
    /\ UNCHANGED <<polls, got, service, edges, stats>>

\* The stop is not tried twice, and its rejection is ignored.
StopQuery(w) ==
    /\ at[w] = "stop"
    /\ \/ query' = [query EXCEPT ![job[w]] = IF @ = "running" THEN "failed" ELSE @]
       \/ UNCHANGED query
    /\ Fail(w)

\* A page arrives; with the last one the job has succeeded.
Fetch(w) ==
    /\ at[w] = "fetch"
    /\ IF got[w] + 1 < pages[job[w]]
         THEN /\ Proceed(w, "fetch")
              /\ got' = [got EXCEPT ![w] = @ + 1]
              /\ UNCHANGED <<polls, pages, edges, started, succeeded>>
         ELSE /\ Leave(w)
              /\ edges' = [edges EXCEPT ![job[w]] = got[w] + 1]
              /\ succeeded' = succeeded + 1
    /\ UNCHANGED <<query, failed>>

\* withRetry: a throttled call is tried again after a pause.
Throttle(w) ==
    /\ Calling(w)
    /\ tries[w] < Retries
    /\ tries' = [tries EXCEPT ![w] = @ + 1]
    /\ UNCHANGED <<queue, at, job, polls, got, service, edges, stats>>

\* Mutation of Reject: a rejected call is logged and the job not counted.
RejectUncounted(w) ==
    /\ Calling(w)
    /\ Leave(w)
    /\ UNCHANGED <<query, edges, succeeded, failed>>

\* Another error, or one throttling too many.  The query is not stopped; a
\* start that was rejected may have started it all the same.
Reject(w) ==
    /\ Calling(w)
    /\ Fail(w)
    /\ \/ UNCHANGED query
       \/ at[w] = "start" /\ query' = [query EXCEPT ![job[w]] = "running"]

\* External: a running query ends.
QueryEnds(j) ==
    /\ query[j] = "running"
    /\ \E end \in {"succeeded", "failed"} : query' = [query EXCEPT ![j] = end]
    /\ UNCHANGED <<queue, at, job, tries, polls, got, pages, edges, stats>>

Step(w) ==
    \/ Take(w)
    \/ StartQuery(w)
    \/ PollAgain(w)
    \/ PollSucceeds(w)
    \/ PollFails(w)
    \/ GiveUp(w)
    \/ StopQuery(w)
    \/ Fetch(w)
    \/ Throttle(w)
    \/ Reject(w)

MatrixNext ==
    \/ \E w \in Workers : Step(w)
    \/ \E j \in Jobs : QueryEnds(j)

MatrixSpec == MatrixInit /\ [][MatrixNext]_matrixVars
-----------------------------------------------------------------------------
\* Every variable holds what it should; no call is tried beyond its limit.
MatrixTypeOK ==
    /\ queue \subseteq Jobs
    /\ at \in [Workers -> Stages]
    /\ job \in [Workers -> Jobs \cup {None}]
    /\ tries \in [Workers -> 0 .. Retries]
    /\ polls \in [Workers -> 0 .. PollMax - 1]
    /\ got \in [Workers -> 0 .. MaxPages - 1]
    /\ query \in [Jobs -> QueryStates]
    /\ pages \in [Jobs -> 1 .. MaxPages]
    /\ edges \in [Jobs -> 0 .. MaxPages]
    /\ started \in Nat /\ succeeded \in Nat /\ failed \in Nat

\* However the workers interleave at the shared index, no job is taken twice.
OneWorkerPerJob ==
    \A v, w \in Workers :
        job[w] # None => job[w] \notin queue /\ (job[v] = job[w] => v = w)

\* A job contributes its whole result or nothing, and only if its query
\* succeeded: a query that fails between pages leaves no rows behind.
EdgesAreWhole ==
    \A j \in Jobs :
        edges[j] # 0 => edges[j] = pages[j] /\ query[j] = "succeeded"

WithRows == {j \in Jobs : edges[j] # 0}

\* The statistics account for every job, whatever calls are rejected: taken
\* jobs have succeeded, failed or are under way, and exactly the succeeded
\* ones have rows.
StatsAddUp ==
    /\ started + Cardinality(queue) = Cardinality(Jobs)
    /\ started = succeeded + failed + Cardinality(Busy)
    /\ succeeded = Cardinality(WithRows)

\* docs/architecture.md:99 - "bounds query volume (<= concurrency 5)": the
\* service never runs more of the matrix's queries than the pool has workers.
QueriesWithinConcurrency ==
    Cardinality({j \in Jobs : query[j] = "running"}) <= Cardinality(Workers)
-----------------------------------------------------------------------------
\* Why the properties hold: the parts of an inductive invariant.

\* A worker holds a job until it picks the next.
HeldJobs == \A w \in Workers : at[w] = "pick" <=> job[w] = None

\* A job not settled has no rows, and its query is as far as its worker knows.
UnsettledJobs ==
    /\ \A j \in queue : query[j] = "none" /\ edges[j] = 0
    /\ \A w \in Workers : at[w] # "pick" =>
          /\ edges[job[w]] = 0
          /\ at[w] = "fetch" => query[job[w]] = "succeeded"
          /\ got[w] < pages[job[w]]
    /\ \A w \in Workers : at[w] # "fetch" => got[w] = 0

\* The inductive invariant.
MatrixInv ==
    /\ MatrixTypeOK
    /\ HeldJobs
    /\ OneWorkerPerJob
    /\ UnsettledJobs
    /\ EdgesAreWhole
    /\ StatsAddUp
=============================================================================
