# nfm-dashboard: models, checks and proofs

The dashboard shows AWS Network Flow Monitor (NFM) data of EKS clusters. A
*collector* Lambda runs every five minutes, asks NFM for the top contributors of
every monitor, metric and category, and writes rows to DynamoDB. A Next.js
*dashboard* on ECS reads them back through an in-process cache, computes lenses
over them and offers an AI assistant. A stream archives the rows to S3. Scripts
prepare the clusters and the gateway of the assistant's tools, and a pipeline of
model processes reviews the repository's own pull requests.

This directory holds TLA+ modules of these parts, the TLC configurations that
check them and TLAPS proofs for all values of the constants. `PROJECT.json` lists
the runs, which definition stands for which lines of the code, the mutations each
property detects, the hazards and the theorems. Paths below are relative to the
repository.

## 1. Inventory

### State and interaction

| part | code | state it keeps | operations | talks to |
|---|---|---|---|---|
| collector invocation | `collector/src/handler.ts` | its pinned `now`, cycle number | one handler run: query, store, alert, insights, DNS, hour close | all of the below |
| query matrix, insights | `collector/src/nfm-query.ts`, `wi-query.ts` | shared job index, statistics; per job its query id, polls, pages | start, poll, stop, fetch, retry | NFM |
| DNS pass | `collector/src/dns-collect.ts`, `dns.ts` | three log queries, the aggregate | start, poll, classify, put | Logs Insights |
| storage | `collector/src/storage.ts` | tables `flows` and `meta` | `batchWriteAll`, `writeCycle` | DynamoDB |
| hour close | `collector/src/rollup.ts`, `rollup-store.ts` | hourly rows `HFLOW#`, markers `HROLL#done` | list markers, read, merge, write, mark | DynamoDB |
| alerts | `collector/src/reliability-alert.ts`, `handler.ts` | `ALERTSTATE#reliability` | detect, diff, publish, remember | SNS |
| archive | `normalize.ts`, `archive-transform.ts` | stream position, Firehose | normalise, batches of stream records, delivery | DynamoDB stream, Firehose |
| flows cache, window plan | `app/src/lib/ddb.ts` | memoized probe, last known cycle, map of promises, timers | `cachedFetch`, `cachedLens`, probe, sweep, cap, plan | DynamoDB |
| lenses and routes | `app/src/lib/analytics/`, `app/src/app/api/` | none | functions of rows and metrics, composed per route | flows cache, CloudWatch |
| assistant | `api/ai/route.ts`, `lib/bedrock.ts` | conversation of one request | turns, tool calls, streaming | Bedrock, tool client |
| chat client | `ChatPanel.tsx`, `lib/use-sse.ts` | history in session storage, a stream | send, stop, retry, follow other documents | assistant |
| tool client and server | `lib/mcp-client.ts`, `lib/mcp-server.ts`, `api/mcp` | list of tools and map of names; none | list, translate names, call; admit, dispatch, bound | gateway, lenses |
| login | `api/auth/*`, `lib/auth.ts`, `middleware.ts` | one-shot cookies, session cookie | start, callback, one restart, logout | Cognito |
| polling client | `lib/use-polling.ts` | data, error, timer, controller | tick, abort, refresh, pause | API routes |
| history | `app/history/page.tsx`, `lib/athena.ts` | fields, result; one query | run, poll to a deadline, read pages, sort | Athena |
| topology page | `app/topology/page.tsx`, `components/topology/` | choices, remembered places of nodes | poll, filter, group, cut, focus, drag | polling client |
| other pages | `app/src/app/*/page.tsx`, `components/` | controls in state, storage and address | choose, link, type, open dialogs | polling client |
| cluster scripts | `onboarding/*.py` | Corefiles and backups; roles, add-ons, monitors | create, delete, retry | EKS, IAM, NFM, CloudFormation |
| gateway setup | `tools/create_gateway.py` | gateway, targets, url parameter | search, update or replace, create, wait | AgentCore |
| review pipeline | `scripts/pr-review/` | a slot directory per role, the verdict | prepare, ask, record, retry, aggregate, chair | model providers |

Invocations of the collector share nothing but the tables: the scheduler starts
one every five minutes and `POST /api/nfm/refresh` starts another at any moment,
so two run side by side, each killed at the latest by its 270 s timeout. The
collector and the dashboard share nothing but the tables either: the collector's
`STATUS#collect/latest` row is the version by which the dashboard's cache knows
that there is something new, and its hourly rows and their times of arrival are
what the window plan is built around. The tabs of a browser share cookies and
storage, the requests of the dashboard its caches, the review's processes files.

### What is hard

* Overlapping, killed and repeated invocations against the same rows.
* A batch write, a stream or a delivery that gives an item up, and what is
  concluded from it.
* Clock boundaries: an hour closes while rows of it may still be written; rows
  expire at about the age up to which hours are still closed.
* State read before an `await` and used after it: the markers, the cycle
  counter, the remembered alert keys, the cache version, the chat history.
* Promises joined by later callers, in a map that is swept and capped meanwhile.
* External queries that are throttled, slow, rejected or never finish.
* Answers that arrive out of order: probes, polls of the clients, streams.
* Cookies, storage and addresses shared by documents that do not know each other.
* Choices on a page that outlive what they chose, when the snapshot churns.
* Scripts and review processes killed between two calls and started again.
* Sums that must agree between lenses which add up the same rows differently.

### Correctness, part by part

* *Hour close*: a marked hour is complete; nothing is written to an hour once it
  is due; every missing hour is closed in the end.
* *Cycle*: no cycle number is skipped; readers never see a row ahead of the
  status; a breach gives one ALARM and one OK.
* *Queries*: each job is counted once, contributes its whole result or nothing,
  is stopped when it is slow, and the invocation ends.
* *Flows cache*: one fetch per key; nothing older than its version is served
  under it; the cap never costs a fetch in flight; every request is answered.
* *Window plan*: the rows of a window add up to exactly its length, the halves of
  a pair are alike, and the rows are there when they are read.
* *Lenses*: accounts of the same rows agree; verdicts on the same service do too;
  caps and percentiles keep what they say.
* *Archive, history*: every row is delivered or counted as lost; a result is of
  the range and filter that were asked for.
* *Assistant, chat*: every tool call has its result; an answer is one answer;
  documents at rest agree; every question ends in an answer, an error or a stop.
* *Login, polling*: tabs that log in together do not all fail; data is of the url
  it is shown under; loading ends.
* *Pages*: what is shown answers the controls, and is what a reload would show;
  what is selected is drawn; the remembered places are those on the screen.
* *Scripts*: a script that says it succeeded did; disabling undoes enabling; the
  published url names a gateway that serves.
* *Review*: a PASS rests on a sound answer of every required role to the request
  issued last; every review ends in a verdict.

The hazards behind these are listed with their lines in `PROJECT.json`.

## 2. Modules

| module | what it is |
|---|---|
| `HourMerge` | rows of the flows table, hours and the hour-grain merge |
| `HourLedger` | abstract specification: what the hour tier promises |
| `HourRollup` | invocations that store rows and close hours, and how they implement `HourLedger` |
| `CollectorCycle` | the handler's steps, the cycle counter, meta rows, alerts |
| `QueryMatrix` | the worker pool and the life of a query |
| `CollectorQueries` | the passes of an invocation: matrix, insights, DNS logs |
| `FlowsCache` | probe, versioned cache, lenses over windows |
| `WindowPlan` | windows and pairs of windows as sequences of parts |
| `FlowRows`, `FlowAccounts`, `FlowHealth`, `FlowScores` | the lenses, each module a layer over the one before |
| `LensAnswers`, `ToolAnswers` | what the routes and the served tools answer with them |
| `Lenses`, `DnsAnswers` | windows and lookups that fill, and what must hold of the answers |
| `UserPages` | the pages: controls, addresses, storage, requests, panels, dialogs |
| `MCReads` | plans, lenses, lookups and pages, checked by one run |
| `AgentLoop`, `ChatPanel` | the assistant's route; the documents that read its stream |
| `LoginFlow`, `Browser` | the login of the tabs of a browser; the page that polls behind it |
| `FlowArchive`, `HistoryPage` | rows to the archive; the page that queries it |
| `MCBrowser` | the browser, and the archive with its page, checked by one run |
| `TopologyGraph`, `NodePlacement`, `TopologyPage`, `MCTopologyPage` | the graph of a snapshot, where nodes are put, the page, a small estate |
| `CustomResource`, `CorednsLog`, `Onboarding` | requests of CloudFormation, and the two scripts that serve them |
| `GatewaySetup`, `ToolClient`, `Provisioning` | the gateway's script; both ends of a tool call; all of these in one run |
| `ReviewProtocol` | the files, processes and verdict of a pull request review |
| `*Proofs` | theorems, see section 4 |
| `FoldTheorems` | lemmas about folds and sums over finite sets, which the proofs share |
| `MC*` | instances for TLC |

### HourRollup and HourLedger

Time is counted in five-minute ticks. `phase[i]` is where invocation slot `i` is
in the handler: `collect` (the query matrix), `raw` (`batchWriteAll` of the
rows), `list` (`listDoneHours`), `hours` (the loop of `runRollupStep`), `hflow`
(`batchWriteAll` of an hour) and `mark` (the `PutCommand` of the marker).
`Land` and `Drop` settle the items of a batch one by one, in any order; `EndRaw`
ignores what was dropped, `EndHour` withholds the marker, as the code does.
`Crash` ends an invocation anywhere; it also stands for an error that the
handler's `try` around the rollup step swallows, since nothing follows it.
`Tick` cannot leave an invocation behind that is past its timeout.

An hourly row is represented by the set of raw rows it was merged from: its sums
and means are functions of that set, so two rows are equal when their sources
are, and "a sum is complete" is an equation on sets. `mergeHourEdges` keeps the
200 largest rows of an hour; the cut is a function of the same rows and is left
out. The hour is read in one step although the code sends twelve queries: rows
of a due hour are no longer written (this is `NoLateRow`), and they expire in any
order and at any time, so every partial reading is that of some later moment.
A row's TTL runs from its write, of which its bucket is the earliest moment.
Hourly rows and markers live 15 days, beyond the 168 hours looked back, and do
not expire in the model.

`HourLedger` has no invocations, no batches and no clock: a set of rows, a set of
sums, a set of closed hours, a horizon and the oldest hour it answers for
(`since`). Rows enter beyond the horizon, sums are complete merges of hours
behind it, an hour closes when its sums are all there, nothing changes, and an
hour is forgotten as a whole. `HourRollup` maps the horizon to
`clock - Grace - HourLen`, the newest hour that is over and past its grace, and
`since` to `clock - RawTTL + 1`, from where no raw row can have expired;
`KeptRows`, `KeptSums` and `KeptMarks` are the parts of the tables not older.

### CollectorCycle

The same handler against the meta table: `read` (the status row, whose failure
restarts the counter at 1, `handler.ts:37-41`), `query`, `status`, `topology`,
`coverage`, the alert step (`alerts`, `publish`), `insights`, `dns`, `rollup`.
Messages leave one by one because `Promise.all` sends them together; a message
may have reached the topic although its answer was lost, and messages under way
when another one is rejected may still arrive. `AlertsFail` is the `catch` around
the step, after which the handler goes on. `ran`, `exact` and `steady` are history
variables: the cycles whose status was written, whether alert steps have neither
failed nor overlapped so far, and whether no status was ever put over that of a later
cycle. The puts of the two status rows (`storage.ts:80-84`) are one step, since only
the second one is read by what is modelled. `RowsFollowStatus` does not say that an
older cycle never replaces a newer one: the puts are unconditional, so it does under
overlap or after a counter that could not be read. It says that a row is always of a
written cycle and that these two are the only ways by which one gets ahead of the
status, which the order of the puts in `writeCycle` is for. The alert topic is always configured
(`infra/lib/data-stack.ts`), so the branch without one is left out. The rates
behind a breach are floating point; the breaching entities are an arbitrary set.

### QueryMatrix and CollectorQueries

`at[w]` is the stage of the query that worker `w` leads through NFM: `pick`,
`start`, `poll`, `fetch`, `stop`. `Throttle` and `Reject` are the two ways a call
can come back other than with an answer; `withRetry` is around every call but the
stop. `QueryEnds` is NFM's side: a started query ends at some time, or never. A
row of the result stands for a page of them, and how many pages each query has
is chosen at the start. A rejected start may have started the query all the
same. The order of the jobs (the shared index) is not modelled.

`CollectorQueries` is the invocation's sequence of passes over the same pool: the
matrix, then the insights if the scope was found, with the row the handler puts
of them even when it was not, then the queries of the log groups, each started,
polled side by side and classified, and the DNS row that is kept when none of
them answered.

### FlowsCache and WindowPlan

A request `Call`s the cache with a key and waits for the version (a memoized
probe of the status row), then joins a pending entry of its key, or one of its
version, or creates one; sweeping what is stale and settled, and capping, are
part of that step, as they are in the code between two `await`s. A lens is an
entry whose computation is itself a caller of the cache. `WindowSettles` and
`LensSettles` succeed or fail; a failed entry drops itself. `MaxAge` is the
timer of an entry. An entry's `data` is the newest cycle written when its fetch
began, which is a lower bound of what a fetch returns. Probe and entry slots are
recycled once nothing refers to them. Which settled entries the cap takes (the
code: the oldest) is left open. Reads of the table are consistent in the model;
DynamoDB's default is eventual, which the code does not guard against either.

`WindowPlan` has `windowPlan`, `windowPairPlan` and the clamp of `?buckets=` as
operators, around a clock and a request. A plan is a sequence of parts, newest
first, raw or hourly. `Hours` is `Math.round(n / 12)` in integers. `Lag`,
`RawTTL` and `RollupTTL` are the collector's side: 15 minutes until an hour's
rows are there (the comment at `ddb.ts:61-64`), 7 and 15 days (`storage.ts:78`,
`rollup-store.ts:13`).

### The lenses and the answers

A row of a window is a record of its edge, metric, value, bucket, monitor,
category, port, traversed constructs and ends; names are numbers, 0 where a field
is missing, and prices are per byte of a billed category. Rates, means and scores
are fractions compared by cross multiplication. `FlowRows` has the grouping
helpers of `aggregate.ts`; `FlowAccounts` cost, explorer, efficiency, network and
dependencies; `FlowHealth` reliability, edge health, anomalies, movers,
composites, alerts and latency; `FlowScores` the monitors, the overview and the
scorecard; `LensAnswers` the routes with the windows, filters and fallbacks each
uses; `ToolAnswers` the served tools, the search and the diagnosis' list.
`Lenses` lets a pair of windows fill row by row and slide, and states the
agreements, the ledgers' (`LedgersAddUp`) in `FlowAccounts`. `DnsAnswers` has the collector's aggregate and the tab's views of it.
`UserPages` mounts one page at a time: `ui` are its controls, `memory` its
storage, `url` the address with the replacement still to be committed, `poll` the
request under way and the last answer, `side` the other requests.

### AgentLoop and ChatPanel

`agent[s]` is the route's progress with request `s`: its turn, the conversation
as sent to the model, the tool calls of the turn still to be answered; `wire[s]`
holds what was sent and not read. `AgentLoop` has the turns, tools that fail or
are not found, the model's failures in the middle of a text, the frames and the
closed reader. In `ChatPanel` a document has its list, the text being streamed,
the last question and the streams it has open; `stored` is the history in
session storage and `events` the documents that have a storage event to handle.
A message of the assistant is the set of requests whose text it holds, which is
what mixing up two answers would show in. A reader goes on after the final frame
until its stream closes, and its connection may fail at any moment (`Break`), also
then; `crossed` is the history of the requests it failed into. A panel that is left
aborts its last request only; the readers of earlier ones go on with its old list. A
panel is opened again (`Mount`) when these are done: two generations of one
document's panel at once are the bound this puts on the model (see section 5).

### LoginFlow, Browser, FlowArchive and HistoryPage

A tab is on its way through login page, hosted page, callback and restart, each
step with the cookies that were sent and the cookies that the browser has when
the answer arrives; the one-shot cookies are one, the login that set them.
`Browser` adds the hook of the page that one tab shows: `poll.out` are the
fetches under way, each with the url and the session it was sent with, and `mine`
for those of the present run of the effect. They answer in any order.

`FlowArchive` follows observations through the order of a flow's ends, the merge
of the views of one edge, writes that leave rows out, whether given up by
`batchWriteAll` or never reached because a call of it failed or the invocation ended
between two batches of 25, the change stream, batches
that are bisected and retried, rows that Firehose refuses, and the partition of a
day. A row's `monitor` stands for its monitor and category; `logged` counts what
the Lambda's log says was lost. `HistoryPage` composes the page, the route and
the query at the service. The browser and the archive share no state, so a
behaviour of `MCBrowser` is one of the two.

### The topology page

`TopologyGraph` are pure functions from a snapshot and the choices to what is
drawn: filter, grouping with expanded groups, the cut of small edges, the
neighbourhood of the focus, and the matrix. `ToggleGroup` expands a group by a click
on its node and collapses it by the chip that stands for an expanded one. `SetCut`
takes every value up to the heaviest edge; the slider's hundred positions on a
logarithmic scale are some of them. `NodePlacement` has the four copies
of a node's place (the cache, local storage, the layout's memo, React Flow's own
nodes) and the effects that copy one to another; a place is 0 where the
simulation put a node and the number of a drag otherwise. Each action of
`TopologyPage` ends with the render it causes and the effects of that render.

### Scripts, tools and the review

`CustomResource` is the contract of CloudFormation and Lambda: one request
outstanding, an invocation that is killed is started again, a request nobody
answers fails. `CorednsLog` patches the Corefiles, with the backup annotation, the
temporary admin entry and retries of denied patches, while admins edit them; a
Corefile logs, has a block that the log line goes into, or neither, and then
`add_log_plugin` leaves it as it is and warns (`WithLog`, `Settled`);
`Onboarding` creates scope, add-ons, roles, associations and monitors, and may
end after each. `GatewaySetup` lets several operators run `create_gateway.py` as
often as they like, side by side, against a service that lists late and deletes later;
`halved` is the history of replacements that were stopped, or not alone. `ToolClient` has the
pages of the tools' list, the cache, the names cut to what the model's service
accepts, and the server's admission and dispatch.

`ReviewProtocol` has the files of a slot (request, result, claim, lock, attempts,
flags), runners that issue, call, record and archive under the lock, late and
duplicate runners of an earlier preparation, the aggregation and the chair. A
diff and the digests made of it are a plan number; a provider's answer is the
kind that its validation makes of it.

## 3. Runs

| run | module, cfg | instance | states | shows |
|---|---|---|---|---|
| `hour_rollup` | `HourRollup` | two slots, one key, one value, hours of two ticks, raw rows live four ticks, four ticks | 446 650 | the hour close, its refinement of `HourLedger`, `BacklogCloses` |
| `collector_cycle` | `MCCollectorCycle` | two slots, two entities, three starts | 2 510 592 | counter, latest rows, alerts |
| `query_matrix` | `CollectorQueries` | three jobs, two workers, one retry, two polls, two pages, two log groups, two records | 558 379 | all passes of an invocation, and that it ends |
| `flows_cache` | `MCFlowsCache` | two requests, a window, a lens over it, a cap of one, one new cycle, one grid boundary | 900 702 | safety of the cache |
| `flows_cache_live` | `MCFlowsCache`, `MCFlowsCacheLive.cfg` | the same without the new cycle, three entries | 101 197 | `Answered` |
| `reads` | `MCReads` | windows: the code's constants, every tick of an hour, lengths up to 288; lenses: up to four rows now and one before; names: up to four lookups; pages: each of the fifteen, one visit | 111 867 | plans, accounts, verdicts, pages |
| `assistant` | `ChatPanel` | two documents, two requests, two tools, two turns | 304 556 | agent loop, chat histories, `EverySendSettles` |
| `browser` | `MCBrowser` | two tabs, three logins, three visits, two urls, two fetches; three observations, one retry, two monitors, one history query | 183 156 | login, polling, archive, history |
| `topology` | `MCTopologyPage` | two snapshots, one cluster to choose, grouping by namespace, two metrics, every cut, one drag, room for one place | 48 376 | views, selection, stored places |
| `topology_drag` | `MCTopologyPage`, `MCTopologyDrag.cfg` | the same with room for all places | | finding 1 |
| `review` | `ReviewProtocol` | two runners, two roles, two attempts, two chairs, two plans, two launches | 328 823 | verdict, terminal failures, valid results, `EndsInVerdict` |
| `provisioning` | `Provisioning` | two clusters with Corefiles of each form, three requests of two invocations, two attempts, one edit; two operators, three runs, two targets, three gateways; two askers, four tool names, one of which is a candidate for two others | 2 080 341 | Corefiles, onboarding, gateway, tool names |

Why the bounds are enough. *Hour close*: what can go wrong needs two invocations,
one that writes late or holds an old merge and one that closes, one hour and its
boundary, and rows that expire inside the run. `Timeout = Grace = 1` is the
tightest case the assumption allows. Keys are independent but for batches that
land in part, which the proofs cover for any number of them. *Cycle*: two slots
overlap while a third start follows a crash of either; two entities suffice to
publish one transition and lose another. *Matrix*: three jobs on two workers
leave one to the worker that is done first; two pages have a first and a last.
*Cache*: a cap of one is exceeded by the second entry, a lens and its window are
two; one cycle and one grid boundary change the version each way. *Windows*: 288
buckets is eight times the switch to hourly parts and reaches every residue of an
hour at both ends; `PlansAlwaysTile` is the proof for all lengths. *Lenses*: two
rows of one edge in two views, and two of another, are what the accounts can
disagree about. *Chat, login*: the races are between two documents; two requests
suffice for a late failure of the first to meet the second (three in one document,
by hand, reach an answer with the text of two); three logins are one more than there
are tabs. *Archive*: two records make a batch that can be
bisected, and one retry is used up. *Topology*: three
nodes of two namespaces and clusters, two of which the other snapshot lacks; with
room for one place the live set passes the cap and comes back. *Review*: one role that is required alone and one
with a fallback; a second plan is what a late runner of the first one meets.
*Provisioning*: one cluster of two fails, or both; a request that is killed once
and started again is the last that may be; `MaxEdits` bounds the edits of a Corefile
that stand at a time; two operators race in pairs, and the third run finds what they
left; of the tools, two compete for one candidate, and one is named as another's. `MCReads` and `Provisioning` choose one
of their parts at the start, since these share nothing.

Deadlock is checked where there is always a next step (`hour_rollup`, the two of
the cache). The others stop by themselves: jobs are done, starts, questions,
visits, requests or drags are used up.

### Fairness

* `HourRollup!FairSpec`: the clock advances; the scheduler invokes
  (`data-stack.ts`, rule `Every5m`); an invocation that is running goes on.
  Neither crashes nor drops are forced or excluded: `BacklogCloses` says *if*
  they stop. The clock of the model stops at `MaxTime` while invocations go on,
  which repeats the last cycle in place of unboundedly many later ones.
* `FlowsCache!FairSpec`: every call to the table comes back, in success or
  failure (the SDK has timeouts and three attempts), and the event loop runs
  every continuation. None on new requests, the memo's expiry or timers.
* `CollectorQueries!Invocation`: every call to NFM and to the logs comes back,
  also as an error. None on what the services do: a query need not end.
* `ChatPanel!FairSpec`: the route makes progress with a request (the model and
  the tools answer, fail or time out) and a document reads the chunks it has
  been sent. None on the user.
* `MCBrowser!MCSpec`: a request under way is answered, per tab, and so is one of
  the polling hook; the history server takes its steps, which its deadline
  bounds. None on Athena, whose query need not end.
* `ReviewProtocol!FairSpec`: a runner that runs takes its next step or dies at its
  timeout, and the jobs that aggregate and chair are scheduled.

## 4. Proofs

Every theorem is for any number of slots, keys, jobs, requests, tabs, runners or
clusters. Per module the argument is an inductive invariant (`IInv`), which TLC
checked as an invariant of the run first, shown to hold initially and to be kept
by each action, one step per action.

* **`HourRollupProofs`** (assumes `Timeout <= Grace`, the relation that
  `rollup.ts:7-11` asks for). `MarkedHourExact` is not inductive: a marker is
  right because nothing that the closing invocation read has changed. `IInv`
  therefore says that invocations are within their timeout (`WithinTimeout`),
  that only due hours are listed, under way, summarised or marked
  (`OnlyDueHours`), that invocations write rows of their own bucket or hour
  (`OwnItems`), that hourly rows held or stored are current (`HeldMergeCurrent`,
  `HourlyRowsCurrent`), and that what is neither pending nor dropped is stored
  (`NothingLost`). A raw row then always belongs to an hour that is not due,
  which gives `NoLateRow`, and from that the rest. `CollectorImplementsLedger` is
  the refinement, step by step, with expiry: a step maps to the ledger's step, a
  `Tick` to its horizon's advance and, where rows become old enough to expire, to
  its forgetting; an expiry itself is a stutter, because only rows not older than
  `since` are mapped.
* **`CollectorProofs`**, in four parts.
  *The archive.* `ArchiveInv` says that every observation was stored or dropped in a
  row of its edge at least as large (`ObservationsKept`), that what is on its way
  (stream, batches, buffer) or archived was stored, and that what was stored is on its
  way, archived, logged or given up. Each action moves rows from one place to the
  next: halves of a batch have its changes between them (`AgainIs`), and what is sent
  for a batch is the flow rows of its changes, neither more nor fewer
  (`FlattenedIs`). The clauses about one state are lemmas about `NormalizeRow`,
  `DedupeEdges` and `BuildTopology`: keys are ordered (`KeysAreOrdered`), so two
  observations of one hash have their ends in one order (`ViewsAreOneRow`), and an
  edge's total is at least each of its rows (`SumAtLeast`). It assumes that a cycle
  has finitely many observations, whose values and buckets are natural numbers.
  *The history page.* `HistorySpec` is the page beside the archive, and
  `ResultIsOfItsRange` is proved of it. `HistoryInv` says
  that a request knows how much had been archived at its click, that what the query
  found answers it (`Answers`: matching entries of the archive, each once, newest
  first, and whatever else matched at the click is behind a full result), that the
  pages read so far are the head of what was found (`RequestOK`, kept by `PagesFit`),
  and that a result answers the range above it (`ResultOK`). An answer stays one while the archive grows
  (`AnswersStand`), and its entries are rows as often as these are archived
  (`AnswersCount`). The two sorts give each row its place (`SortedAre`), so the rows
  are permuted and none is lost or doubled (`CopiesMoved`); blanks compare last in
  either direction (`CellsCompare`). It assumes that the limit is natural and that a
  page of results holds at least one row.
  *The queries.* `HeldJobs` and `UnsettledJobs` tie a worker's stage to its job's
  query and rows, the counters to the cardinalities of the queue, the busy workers
  and the jobs with rows. `InvocationInv` carries this through the passes of
  `CollectorQueries`: each starts from settled workers (`PassOK`), and a query is
  running when the pass is over only if its job was rejected.
  *The cycles.* Cycles in order (`NoSlotSkipped`, `RowsFollowStatus` from
  `CountsFollowRan`), announcements first (`AnnouncedFirst`), and alternation of
  alarms while `exact` (`OneSender`: only one invocation is sending, and the open
  alarms are the remembered keys up to what it has not sent).
* **`ReadsProofs`**, in three parts.
  *The pages.* `PagesInv` is for any things listed, any number of visits and any
  length of the recent list. `PollInv` ties the request to the controls: it is the
  one they stand for, whichever control turned last, and what was loaded without an
  error answers it. `ShownInv` ties the controls to the *latest* address, the
  replacement included while it is not committed, which makes `KeptIsShown`
  inductive: a second choice, a commit and a link all meet it. `RecentsInv` compares
  the recent paths with the log of all choices: each is in the log, later than those
  behind it, and what is missing was chosen earlier than all of them and fell off a
  full list. What `pushRecent` does to that is reasoned by places: an edge taken out
  moves those behind it up by one (`WithoutIs`), the new one comes first
  (`PushedIs`), and its last place in the log is the newest (`LastGrows`). For the
  dialogs, wherever a key of Tab leads is inside (`StopIsInside`). It assumes that
  there are two buckets to choose from, since the flows page starts on the second
  (`SizesAssumption`), and that `None` is none of what is asked, told or kept
  (`AnswersAssumption`).
  *The accounts.* `AccountsAddUp` is the ledgers of `AccountsAgree`, and the pairs of
  any two scopes of the network page, for any finite set of rows of natural values
  (`Counted`) and whatever is billed. A total is a fold over the rows (`TotalIsFold`);
  a ledger has one part of the rows per label, so its sum is the fold of the whole
  (`PartsAddUp`). The namespaces overlap: a row counts for that of its first known end
  and, if it crosses, once more for the other, which makes two ledgers of parts, of all
  rows and of those that cross (`NamespacesAre`, `TwicePartsAddUp`). Dollars are the
  bytes of what is billed, since the rest adds nothing (`FoldZero`).
  *The cache and the plans.* Pending entries are in the map (`PendingAreCached`), which has
  one entry per key (`OneEntryPerKey`); both survive sweep, cap and the recycling
  of slots. Versions are never ahead of the table (`VersionsBehind`), so a fetch
  begun under a version returns its cycle. For the plans: raw buckets tile, closed
  hours tile, tilings that meet make a tiling (`TilesMeet`), one cut in half makes
  two (`TileCut`), rounding adds half an hour at most (`HoursBounds`), which
  bounds the oldest row; the clamp puts every asked length into the range for
  which this is shown (`RequestsAreClamped`).
* **`ReviewProtocolProofs`**: who holds a slot's lock is alone in it (`LockInv`);
  a nonce is of one issue of a request and a result of one nonce (`NonceInv`); what
  a valid result says was answered (`SaidInv`); the attempts spent are those
  recorded (`SpentInv`); the verdict is computed from results that still stand
  (`VerdictInv`).
* **`BrowserProofs`**: `SomebodyComes` says that while no tab is in, one of them
  still holds, or will be given, the one-shot cookies that its callback needs,
  which a refusal alone does not show. For the polling hook, the fetches counted
  as the present run's are of the present url (`MineAreOfUrl`), and one of them is
  out while the page says it is loading. The assumption that there are more
  logins than tabs stands for random values that do not repeat.
  Of the topology page, `PageInv` says that the choices are within what the
  snapshot offers (`ChoicesOK`), that a tag selection and a focus are of this
  topology unless a poll took them (`WantedOK`), that what the last render left is
  the graph of the present choices (`GraphOK`), and that places are those of live
  nodes (`PlacesOK`). Every action ends in a render, so the conditions of the three
  theorems are lemmas about `GraphModel` and `Matrix`. Those are folds over finite
  sets, which `FoldTheorems` is about. `SnapshotAssumption` is what
  `buildTopology` gives: ends of edges are nodes, and metrics are natural numbers.
* **`AssistantProofs`**: `AgentInv` relates the conversation to the tool calls
  still to be answered. `Converged` needs that what is on the wire, in the stream
  and in the list are the parts of one answer (`WireInv`, `StreamInv`, `TextInv`),
  and that every write to the storage is handled or still to be handled by each
  other document. `AnswersAreSeparate` needs to know which text can still be stored:
  a stream belongs to one document (`Owned`); of requests that are not crossed a panel
  reads the one it waits for and no other, and what it has streamed is that one's or
  crossed (`StreamOK`); and no history holds the text of one that is unanswered
  (`Open`, `TextOK`). A late failure adds the request that it meets to `crossed`
  before its text is put anywhere, and whatever is asked beside a live reader joins
  it. Connections may fail at any moment; nothing is assumed of them.
* **`ProvisioningProofs`**: `Reversible` is kept by each action of script and
  admins (`FileTypes` are its types). `SuccessIsWhole` needs of the DNS script that
  what an invocation read is still good to be written when it writes (`SeenOK`) and
  that the clusters it went through are processed (`Processed`, `Done`), one whose
  Corefile has no place for the line among them, which is left as it was, and of the
  onboarding script that each processed cluster is `Whole`, however often the
  request is started again. `None` differs from the requests and from every
  Corefile.
  `ToolsAreReached` has three parts. *The gateway* (`GatewayInv`), for any number of
  operators, runs, stops and failures: one gateway lives at a time; whatever is made
  requires signatures and whatever does not is listed, so that a run that finds
  nothing, or meets a conflict, need not look (`SignedOK`); and unless a replacement
  was stopped or was not alone (`halved`), nothing is being deleted but what the one
  run that replaces is about to (`DeletedByRun`). The script takes no lock: two runs,
  one of which replaces, can publish the url of a gateway that is gone.
  *The names* (`ClientInv`): a name of the map is the first of its tool's candidates
  that is not another's (`MapOK`), so naming again finds the same name, and naming
  takes none away (`NamedKeeps`); if all the candidates of a tool were others', there
  would be more tools than there are (`NameLeft`); the fold of a list is unrolled place
  by place (`NamesGiven`); and pages continue in order, so no tool is listed twice
  (`PageIsOK`). `CandidatesAssumption` stands for the code's counter, which never
  runs out of suffixes. Nothing keeps a candidate apart from a tool's own accepted
  name; `ToolsKeepTheirNames` leaves out the tools whose name was given away like
  that, and these alone. *The answers*: for every request and
  environment (`AnswerHolds`).

* **`FoldTheorems`**: a fold over a finite set exists (`FoldExists`), may take its
  elements in any order (`FoldStep`), agrees with another where their terms do
  (`FoldAgree`), and the folds of the parts of a set add up to that of the whole
  (`FoldUnion`, `FoldParts`). Folds of natural terms are natural numbers (`FoldNat`),
  terms of 0 add nothing (`FoldZero`), and the sum of two folds is the fold of the
  sums (`FoldAdd`). A minimal counterexample (`FiniteMinimal`) takes the place
  of induction. In a finite order, counting what is not behind a member numbers the
  members from one (`PlacesNumber`); a stable comparison is an order
  (`StableIsOrder`), so what is given its place is sorted (`SortedAre`).

What is model-checked only:

* liveness (`BacklogCloses`, `Answered`, `InvocationEnds`, `EverySendSettles`,
  `WaitsEnd`, `EndsInVerdict`), because fairness and `ENABLED` are out of the
  prover's reach;
* `JudgementsHold`, and of `AccountsAgree` all but the ledgers, which are
  `AccountsAddUp`. They are about rankings, searches and cumulative shares over
  sequences. The proof system has no induction rule over data that its backends can
  use; `FoldTheorems` replaces one for sums over sets and for sorts that are written
  by places, as those of the history page are. The rankings of the lenses are
  `SortSeq`, which by its definition determines a sequence only where no two elements
  tie: which of two equal rows comes first is TLC's evaluation.

Some definitions that runs do not check are proved nonetheless, since the others
rest on them: `RerunIdenticalUntilExpiry`, `HeldMergeCurrent`, no job taken twice,
whole results, rows kept for every plan.

## 5. Findings

### With a run

1. `topology_drag`: the merge effect of the graph writes the places of the last
   computed layout over the cache (`NetworkGraph.tsx:504`), also when only the live
   nodes have changed. A node dragged since is put back at the next structural
   change or reload, against `NetworkGraph.tsx:661-664`: "so the drop point survives
   the NEXT structural change (filter/groupBy) and a page reload, not only
   value-only polls".

### By hand

Each of these names a definition of the modules that does not hold. It can be
added to the configuration given, as an `INVARIANT` unless said otherwise.

* `RerunIdentical` (`PROPERTY` of `HourRollup.cfg`, with `Spec` and `MaxTime = 7`):
  "raw inputs are immutable, so re-running an hour rewrites identical items"
  (`rollup-store.ts:3-4`) ends where raw rows expire. The lookback reaches as far
  as their TTL, and an hour without a marker is rewritten with smaller sums.
* `CachedResultsAreFresh` (`MCFlowsCache.cfg`): a lens computed under a new version
  joins a window still being fetched under the old one and is cached under the new
  one, although outputs are to be valid only while no new cycle was written
  (`ddb.ts:194-203`). It lasts until the next version.
* `LastKnownCycleIsSticky` (`PROPERTY`, without `SYMMETRY`, `MaxCycle = 2`): the
  last known cycle (`ddb.ts:210-214`) can go back when two probes answer out of
  order.
* `RecoveriesAreAnnounced` (`PROPERTY` of `MCCollectorCycle.cfg`, without
  `SYMMETRY`): an ALARM without its OK, when an invocation fails after publishing
  and before remembering (`handler.ts:123-128`) and the next cycle sees the
  recovery. If the breach goes on, the same failure announces it twice.
* `QueriesWithinConcurrency` (`CollectorQueries.cfg`): a job whose poll is rejected
  leaves its query running, so NFM runs more of the matrix's queries than the
  concurrency of 5 that `docs/architecture.md:99` calls a bound on query volume.
* `SilentMeansGone` (`MCReads.cfg`): an entity of the went-silent list is to be a
  "crashed / scaled-to-zero incident signal" (`movers.ts:22-23`), but `movers.ts:80`
  asks it of any one metric: a busy service whose retransmissions stop is listed.
* `PublishersReady` (`Provisioning.cfg`): "idempotent" (`onboarding.md:15`,
  `onboard_nfm.py:1`) leaves out a role that was created without its policy by a
  run that ended in between; later runs find the role and never attach it.
* `ReadyWhenDone`, `TargetsWhenDone` (`Provisioning.cfg`): the url is published of
  a gateway that is not READY, or lacks targets, when an existing one is found, against
  `create_gateway.py:119` and the header's lines 7-8.

Three properties hold with an exception that they state, because the code makes one:

* `SuccessIsWhole`: a create answers SUCCESS "ok" although a Corefile without the
  `{` block goes on without a log line. `add_log_plugin` calls this a "silent no-op"
  and prints a warning (`enable_coredns_log.py:16-20`), which
  `test_enable_coredns_log.py:32-39` covers; the caller takes the unchanged file for
  "already in desired state" (lines 93-95), and `cfn_outcome` is not told.
* `ToolsKeepTheirNames`: the map is asked only for shortened names
  (`mcp-client.ts:132-141`), so a tool whose own name is the shortened name of
  another is called as that one from then on.
* `AnswersAreSeparate`: a connection that fails after its final frame was read calls
  `onError` (`use-sse.ts:134-138`) while the next question is being answered. The panel
  settles that one early (`ChatPanel.tsx:175-179`), and stores its text again, or with
  the text of the one after it, when it goes on.

### Observed while modelling

Behaviour a maintainer may want to know of; the modules follow the code.

*Clients.* A panel that is left and opened again while the reader of an earlier answer
still waits for its stream to close has two generations at work; if that connection
fails, the old one stores the list it had over the new one's (not in the model, where
`Mount` waits for the reader). "Restart once per login" (`api/auth/callback`, lines 15-17) is once per
browser when two tabs log in. Answers of one url are applied in order of arrival
(`use-polling.ts:54`). A stream that ends without a final frame leaves the chat, and
the diagnosis page, running. Tab can leave the chat's dialog through the iframe.
Each tab writes the settings whole over another's change. The shown range of a
history result names no filter, and the old result stays while a second query runs;
cancelled and timed-out queries are left running (`athena.ts:117`).

*Pages.* `/flows?ns=&pod=` links (`search.ts:25-28`, `network/page.tsx:146-153`) are
not read by `flows/page.tsx`, whose first request asks for the bucket `undefined` and
is dropped (lines 60-68). `monitors/[name]` asks for no bucket and so gets the newest,
still being written (compare `flows/page.tsx:40`). The paths page keeps its edge when
a link drops `?edge=`. After a change of filter or edge the old data stands under the
new controls until the answer. Two choices before the address is committed lose one,
and a link to `/insights` while on it changes the address but neither tab nor filters
(`useAnalyticsFilters.ts:2`: the URL is the source of truth). Selects do not offer a
value that has vanished, and say "All" while it filters. A failed first load shows
zeros beside its error; the flows table says it is empty while it loads.

*Topology.* A dragged node that isolation hides and shows again is at its layout
place. Narrowing the scope evicts places, which the comment at
`NetworkGraph.tsx:336-338` is to prevent. A search while grouped shows its match as
the collapsed group it is in, and isolates nothing; under a cut it may show nothing
(`page.tsx:370-374` clears the tags only). A link clicked while grouped resolves to
nothing (399-403). The chip of an expanded group stays when a poll or the tags take
the group away. A tag selection whose nodes have all left empties the graph
(`page.tsx:247`).

*Lenses.* The price per byte is 0 without bytes; edge health's service level merges
services of one name across namespaces; the danger level of timeouts is 10 there and
5 in reliability; composites use constants in place of the settings. Scorecard and
reliability take CloudWatch's last 60 minutes whatever window is asked. `/api/alerts`
judges breaches over the default window and composites over a pair of six. A `limit`
that is negative or large escapes `MAX_ROWS` in two served tools. The search keeps
one of two pods of one name in two namespaces. The percentiles of DNS are one rank
above the dashboard's, and its inside/outside split counts only the domains kept.

*Scripts and operations.* `create_gateway.py` skips its wait and its check of the
authoriser where the gateway exists; an update whose polling is refused is followed by
a replacement; two operators, or one that stops a replacement, can leave a stale url. The DNS script's role keeps its
temporary admin entry after a killed run until the next one, and an edit between its
read and its patch is overwritten. The archive only appends: a bucket collected again,
or retried after a timeout, is there twice. Missing data does not breach in
`OpsAlarms`, so a collector that never runs raises none of them.

## 6. Not modelled

* Onboarding discovery of the collector, the CloudWatch and Cost Explorer readers
  and the Python tool servers: they read a service and reshape what it answers. The
  routes that use the readers are modelled with arbitrary metrics.
* CDK stacks, deployment scripts and tests: declarations, and sequences of commands
  without state of their own. The constants they set (TTLs, schedule, timeouts, batch
  sizes) are those of the modules.
* Cryptography of sessions and signatures, rendering, texts, `report.ts`, the older
  shell scripts of the review.
* Eventually consistent reads: every read sees the latest committed row.
* Floating point: sums and rates are integers and fractions. The rank of a percentile
  (`aggregate.ts:34`), which the code computes as a float before it rounds up, was
  compared with the exact one for the shares the lenses ask for (50, 90, 95, 99) and
  up to 20 000 samples: they are equal.
* Of `searchEntities`, results for addresses, subnets and instances: they are found
  and listed like those for pods.

## 7. Plan

The modules of sections 1 and 2 are there, and safety is proved but for what section
4 lists. Still to do, in this order:

1. The rest of `AccountsAgree` (rankings, percentiles, cuts, what routes and tools
   answer), which needs an order of rows in which nothing ties.
2. The CloudWatch readers, if their caches become shared.
