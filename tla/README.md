# MetricBeacon: a verification project

MetricBeacon is a metrics assistant inside Grafana. A user asks a question in a
workbench page; AI Core turns it into a frozen query plan, runs the plan in the
background, stores the answer, the charts and every step in SQLite, and streams
the steps to the browser as events. This directory holds TLA+ models of the
parts of it where order, failure and concurrency matter, the TLC runs that
check them on small instances, and TLAPS proofs of the safety properties for
every value of the constants.

Paths below are relative to `src/`; `ai/` stands for
`services/ai-core/internal/` and `fe/` for `apps/grafana-plugin/frontend/src/workbench/`.

- [1. The system](#1-the-system)
- [2. Plan](#2-plan)
- [3. Models and code](#3-models-and-code)
- [4. Runs, bounds and fairness](#4-runs-bounds-and-fairness)
- [5. What is proved](#5-what-is-proved)
- [6. What is only model-checked, and what is not modelled](#6-what-is-only-model-checked-and-what-is-not-modelled)
- [7. Where code and documents disagree](#7-where-code-and-documents-disagree)

## 1. The system

    browser (workbench, sse.ts)
       |  requests, event stream                         [one EventSource per running task]
    Grafana plugin backend (proxy, identity)
       |
    AI Core: http API -- commands.Service -- go run --> RunAnalysisWorkflow -- runtime
       |          \            |                          |        |             |
       |           \        planner                       |     durable sink   MCP gateway
       |            \          |                          |        |             |
       |          notifier <---+--------------------------+--------+        assistant-mcp
       |                       |                                                 |
       +---------------------- SQLite store                                  Prometheus

| Component | State it keeps | Operations | What makes it correct |
|---|---|---|---|
| Command service (`ai/application/commands/service.go`) | none of its own; a channel of four worker slots | `CreateSession`, `CreateTask` (check of the key, planning, one transaction, notification, `go run`) | one task per life of an idempotency key, however requests race; nobody gets another's resource; one goroutine per task; a refused request leaves nothing behind |
| Analysis workflow (`ai/application/workflows/run_analysis.go`) | its copy of the task row, open tool calls (durable sink) | `Run`, `transition`, `emit`, sink, `persistResult`, deferred clean-up (`failOpenTools`, `fail`), `RecoverInterrupted` | the log is gapless and tells the status; every task ends; a failure closes its calls; no compare-and-set conflicts; recovery leaves no active task |
| Task domain (`ai/domain/task`) | status, version, latest sequence, error | `New`, `Transition`, `Fail`; tool call life cycle | the status only moves forward, a terminal task is frozen |
| Session domain (`ai/domain/session`) | activity time, version | `New`, `Touch` | activity never moves backwards; retries do not touch |
| SQLite store (`ai/adapters/outbound/storage/sqlite`) | all rows | transactions under one write mutex; `Append` (increments `latest_sequence` and inserts), `updateTask` (compare-and-set on version), `Reserve`/`Complete`, pages | unique sequences, one active task per session (partial unique index), atomic transactions |
| Migrations (`migrate.go`) | schema version | one transaction for all pending ones, with the checks, links and indexes of migration 2 | old schema or new one, nothing in between; exactly the data that can be linked are upgraded |
| Notifier (`ai/adapters/outbound/events/inmemory`) | per task a list of channels of capacity one, never shortened | `Subscribe`, `Notify` (never blocks) | no event waits for a heartbeat, no producer waits for a reader |
| HTTP API (`ai/adapters/inbound/http/api.go`) | a cursor per stream | `StreamTaskEvents`, `ReplayTaskEvents`, commands and queries | every event once and in order per connection; a stream ends after the terminal event and not before |
| Event subscription (`fe/sse.ts`) | the last accepted sequence | connect, receive, reconnect, close | accepted events are consecutive over all reconnections |
| List of sessions (`listSessionPageByOwner`, `fe/Workbench.tsx`) | pages the browser holds | load more, refetch, invalidate | no session twice and none skipped while sessions move to the top |
| Workbench and reducers (`fe/Workbench.tsx`, `reducer.ts`, `session-reducer.ts`) | sessions, task states, pending request and its key | history, replay of each task, subscription of the active one, submit and retry | the page shows what the log says; a retry repeats the same request |
| Query plan (`ai/application/commands/query_plan.go`) | none | ranges, steps, points budget | bounds hold for every message, 64-bit durations included; what is accepted is not refused by assistant-mcp |
| Intent planners (`ai/adapters/outbound/agent`) | none | classify the message, one retry | only registered views; the plan is the one that was asked for; a follow-up shows what was last shown |
| Eino runtime (`ai/adapters/outbound/agent/eino/runtime.go`) | call ids, open calls, proposals of a run | `Run`, `begin`, `complete`, the tools, `finish` | the result tells what was executed, whatever the model says; a run that succeeds leaves no call open |
| MCP gateway and assistant-mcp | none | query, search and labels over Prometheus, error mapping | limits on range, step, points, series and samples; a good reply is not refused on its way |
| Plugin backend | none | proxy | identity is derived, never taken from the client |

**Hard behaviours.** Goroutines, request handlers and the recovery meet only in
SQLite: every transaction is atomic, and anything happens between two of them.
The process may die anywhere and comes back through `RecoverInterrupted`;
shutdown does not wait for goroutines, so it is a crash as well. Every store
operation may fail (SQLite error, or the 60 s deadline of a run). Signals of the
notifier collapse; connections break with events in flight. Idempotency keys
expire on a clock that may be set back. Lists are paged while their order changes.
The planner reads numbers of any size into 64-bit durations, and a model that may
say anything drives the Eino planner and runtime. `PROJECT.json` lists each hazard at its
line with the properties that cover it.

## 2. Plan

Done, in the order of importance:

1. `TaskContract`: what a task promises to whoever reads its row or its log.
2. `AnalysisWorkflow`: rows, goroutines, clean-up, crash and recovery; refines
   `TaskContract`. Proofs of all its safety and of the refinement.
3. `TaskCommands`: idempotent creation under races, crashes and a clock that is
   set back. Proofs of all its invariants.
4. `EventStream`: composes `TaskContract` with notifier, stream handler and
   `sse.ts`; safety and liveness of delivery. Proofs of its safety.
5. `Workbench`: the page over the log `TaskContract` promises: history, paged
   replay against a growing log, the subscription as `EventStream` delivers it,
   submit and retry, change of session, reload. Proofs of its invariants and of
   its action property.
6. `QueryPlan`, `MetricTools`, `IntentPlanning`: how a message gets its plan, and
   that the tools take it. Proofs of all their properties.
7. `EinoRuntime` over `MetricTools`: a run driven by a model. Proofs.
8. `SchemaMigrations`: starts on the database of an earlier release, with their
   failures. Proofs of all its safety.
9. `SessionPages`: the keyset pages of sessions that move, as the browser holds
   them. Proofs of its safety.

Left, in the order in which it would add most:

- the older pages of a session's history (`loadMore`), which append to a list
  whose token a later refetch replaces;
- the MCP session of the gateway (`ListTools`, reconnection).

## 3. Models and code

### TaskContract

`status`, `version` and `log` per task. `Accept`, `Advance`, `Report`, `Fail`,
`Announce` are what a reader can see of `CreateTask`, `transition`, `emit` and
the sink, `fail`, and the event after completion. It has no goroutines, no
storage errors and no restarts.

### AnalysisWorkflow

The grain is the code's own: **one SQLite transaction is one step**. Writers are
serialised by `Store.writeMu`, a callback that fails is rolled back as a whole,
and between two transactions any other goroutine, a crash or the recovery may
act.

| State | Code |
|---|---|
| `tasks`, `events`, `tools`, `charts`, `reply` | the tables `tasks`, `task_events`, `tool_calls`, `charts` with their executions, and the assistant message |
| `phase` | down, in `bootstrap.New`, listening |
| `pc`, `item`, `open`, `cursor`, `err` | the next store operation of a goroutine (or of the recovery) for a task; its copy of the row; `durableSink.openCalls`; the view it is at; the error the deferred function works on |

`Append1` and `Append2` are `appendEventInTransaction`: increment
`latest_sequence`, insert under the value read back, subject to the unique
index. `Candidate` is the row a transition writes: the goroutine's copy with the
sequence read again inside the transaction. `Transition`, `Emit`, `StartTool`,
`EndTool`, `PersistReply`, `ProposeChart`, `PersistExecution` are the
transactions of `Run`, the runtime and the sink, in the order `pc` gives.
`OperationFails` is any of them reporting an error (deadline or SQLite);
`CloseTool`, `MarkFailed`, `NothingToFail`, `CleanupFails` are the deferred
function. `Crash` takes all memory; `Restart`, `CloseTool`/`MarkFailed`,
`RecoveryFails` and `Serve` are `bootstrap.New` and `RecoverInterrupted`.

Abstractions: the runtime is the mock one, the only one `bootstrap` wires in
either mode; a query answers or fails; the recovery may interleave the tasks it
takes one after the other, and `failOpenTools` may take the open calls in any
order where the code sorts them (both allow more than the code does). Reading
the conversation changes nothing and its errors are swallowed by the code.

### TaskCommands

`sessions`, `tasks` and `keys` are rows (identifiers are counted up instead of
random). `pc[c]` is where the request of caller `c` is; a retry is a second
caller with the same key and request. `CheckKey` is the look at the key before
planning, **which does not look at the expiry**; `Plan` is everything between
that and the transaction; `Repeat` and `AcceptTask` are the transaction, with and
without a valid row in the way; `Refuse` is any error, after which nothing was
committed; `StartRun` is what happens after the commit. `EndTask` stands for
`AnalysisWorkflow`, of which only "a started task may end" matters here.
`Tick`/`SetBack` are the system clock. `CreateTask` reads it twice, for planning
(`service.go:126`) and in the transaction; the first reading only dates the range of
the plan, which is not in the model, so there is one, in `AcceptTask`.

### EventStream

One task, one subscription of a browser, and a handler per connection it ever
opened. `Produce` takes a step of `TaskContract` and owes its notifications;
`Notify` signals every channel ever subscribed; `Subscribe`, `Replay`, `Check`,
`Wake`, `Heartbeat` are the loop of `StreamTaskEvents`; `Abandon` is a handler
that learns that its client has gone. `wire` is what was written and not yet
received; the plugin backend passes bytes on in order and is part of it.
`Connect`, `Receive`, `StreamEnds`, `Break`, `Leave` are `sse.ts`. `Recover`
appends what recovery may append, and notifies nobody.

Abstractions: the terminal event is read after the row in the code and with it
here, which makes no difference because events never change; the delay between
attempts is left to the scheduler; an attempt made while the process is down
fails and changes nothing.

### Workbench

One page over the rows of `TaskContract`. `state` is the state of
`sessionReducer` (a runtime is the length of the prefix it has reduced, because
the reducer drops everything else; `Told` is the status that prefix says), and
`HistoryLoaded`, `TaskCreated`, `TaskEvents` are its cases. The other variables
are the refs of the component (`sequence`, `pending`, `key`), what each effect
last ran for (`keyed`, `followed`), the requests under way (`history`,
`replays`, `create`) and the cache of the query client (`cached`, `fresh`).

A request has up to three steps: it is made, AI Core reads (`HistoryRead`,
`ReplayRead`, `TaskAnswered`), and the answer arrives (`HistoryArrives`,
`ReplayPage`, `TaskCreation`), so an answer may be old when it comes. An effect
(`HistoryEffect`, `ReplayEffect`, `FollowEffect`) runs some time after the
dispatch that calls for it; a click on a session runs its effects at once, since
React flushes them for discrete events, and is one step (`Select`). `Deliver` is
`onEvent`: that events come in order and without gap from where the subscription
began is what `EventStream` shows. `Invalidated` is `invalidateQueries`: a fetch
under way is cancelled for a new one unless the query has no data yet.

`key` says whether there is an idempotency key, `recorded` what AI Core keeps
under it (`TaskCommands` shows that this is one task). `made` counts, for the
properties only, what was created for the request that is pending.

Abstractions: progress events are left out of the logs, since nothing the
properties speak of depends on their content; a list of tasks fits one page of
the history; the session query is only followed where it finds no session
(`Recover`); a request the page gave up on is not served later (retries that
race are `TaskCommands`' matter); leaving the app and coming back without a
reload, which keeps the query client, is not modelled.

### QueryPlan, MetricTools, IntentPlanning

`QueryPlan` is data only: the policy of `query_plan.go` (`Accepted`, `Plan`,
`AutoStep`, `CPUWindow`) and the reading of amounts in a message (`ReadNumeral`,
`PositiveInteger`, `SaidDuration`). A duration is counted in ticks of which a
second has `Second` and a machine integer `Word` values; a product is `Wrapped`
as in the code, where it happens **before** the bounds are checked. `MetricTools`
is a tool call on its way: what service, registry and adapter of assistant-mcp
check (`InputValid`), what the adapter keeps of a reply (`ParseSeries`; the order of
the rows is left out), what of it fits the contract's types (`MapValue`: a `wide` row
has a finite float64 sample beyond float32) and passes the check of the output
(`OutputValid`), what the handlers let pass (`Authorized`) and what the gateway makes
of an error (`Received`). The answers of the other two tools hold nothing that the
conversion could refuse.

`IntentPlanning` has the tasks of a session (`turns`) and the request that is
planned: `Ask` reads the history and passes the bounds of the API, `PlanMock` is
the mock planner with `ResolvePlannedQueryPlan`, `Generate` a call of the model
behind the Eino planner, of which there are two at most. `OtherTab` is a request
of another tab, resolved in between. Abstractions: the patterns that find views and
amounts in a sentence are represented by what there is to find: views, a range, the
amounts after "每", after "every", and of data points, as digits or as characters,
and, in `data`, which of range and point stand right before "数据", in their order.
What the step patterns make of it is `StepSaid`: they are tried in the code's order,
take seconds and minutes only (`StepUnits`), may match a range that stands before
"数据", and the first that matches decides. A range is its length.

### EinoRuntime

One run. `batch` are the tool calls of the model's last message, run one after
the other: `Begin` (id, limit, `tool.started`), then `Reject`, `Read` or
`ReadView`, then `Complete`; `FinalAnswer` is `finish`. `ids`, `open`,
`proposals` are `sourceCallIDs`, the sink's open calls and the proposals;
`reads` counts executions for the properties only. A view is validated and then
executed, each with its own answer. The loop itself is the library's, of which
only the number of iterations is used.

### SessionPages

`updatedAt` and `withTask` are what a page depends on; `Candidates` and `Selected`
are the SQL of `listSessionPageByOwner` with its extra row, `PageOf` the page and
cursor it is made into; `pages` and `fetch` are the
infinite query of `Workbench.tsx`, whose library is external: a refetch reads as
many pages as there were, one by one, each from the cursor of the one before, and
replaces them at once; loading more cancels a refetch that runs. `moved` is
history: sessions that moved since the first page was read.

### SchemaMigrations

`db` is what is committed (versions, tasks, messages, announcements), `tx` what
the transaction of `migrate` sees. `Begin`, `Skip`, `Apply`, `Relink`, `Refuse`,
`Commit` are its loop, with the checks (`Unambiguous`), `UPDATE`s
(`Backfilled`), unique indexes (`Indexed`) and final checks (`Valid`) of migration 2;
`Fault` is any step that fails, or the end of the process. `Recover`, `Serve`,
`CreateTask`, `Answer`, `Settle` are what happens to the rows afterwards.
`Consistent` is what the rows must be like, written without the code's queries.
Abstractions: one tenant; an event that announces a message is a pair of task
and message (that one task announced a message twice is left out); the columns of
the other migrations; ids of tool calls.

## 4. Runs, bounds and fairness

| Run | Shows | Instance |
|---|---|---|
| `workflow` | all safety of the workflow; accepted tasks end, queued ones get a slot | two tasks of two sessions (a plan of two views, one without views) that compete for one slot, two crashes, two storage errors |
| `workflow_contract` | `AnalysisWorkflow` implements `TaskContract` | three tasks, two of one session, two slots, one crash, one storage error |
| `workflow_terminal_event` | a disagreement, section 7 | as `workflow`, with one crash and one storage error |
| `commands` | keys, answers, sessions, goroutines | two session and four task requests on two keys: two retries of each other, a different request and another user; TTL 2 on a clock 0..3 that may be set back once; two tasks, one crash |
| `stream` | no lost wake-up, nothing lost or repeated; events arrive, streams end | logs up to six events with progress, batches of two, one failure |
| `workbench` | one session, one task per request, no gap after a replay, active until its events; the page catches up | two tasks of one session and a session that is unknown, logs of three events, pages of two, one failed request or reload |
| `workbench_other_tab`, `workbench_early_close` | two disagreements, section 7 | two tasks of another tab; one task of this page; nothing fails |
| `planning` | accepted plans pass the tools, a message gets the plan it asks for, a follow-up the views last shown | a second of two ticks, a word of 2^18; ranges 29 s, 30 s, 6 h, beyond, and wrapping ones; ranges in each unit before "数据", with steps before, after, in English, in hours or none; three turns, a history of two items and three characters |
| `agent` | a success is closed, a result is backed, good replies succeed | two views, four ids, messages of two calls, four messages, three calls; the plan with the most points; every kind of reply, one with a sample beyond float32 among them, limits of two series and three samples |
| `session_pages` | one list, nothing skipped | four sessions, one of another user, pages of one row, two times |
| `migrations` | links hold, refusals are right, upgrades are whole; what can be upgraded is served | every database of two sessions, two tasks and three messages, three versions, one fault |

*Why the bounds are enough.* Tasks interact only through the session index and
the worker slots, so two tasks (three where a session is shared) show every kind
of interaction. In `workflow` one slot makes the second task wait for the first
on every path, so a path that kept its slot would keep it from running; in
`workflow_contract` two slots let goroutines work side by side. Two views are the least for which one call is closed while
another is open or done. Two crashes let a recovery be interrupted and repeated.
A TTL of 2 on a clock up to 3 contains the instants before, at and after expiry,
and two tasks allow a key to be used again. A batch of two against logs of up to
six makes replays of full, partial and empty batches; two connections make a
stale handler and a live one share the notifier. For the page, three events make
a replay of two pages against a log that grows; two tasks of one session follow
each other on the page, and a request that lost its key could make the second;
leaving the session, coming back to it and the unknown one of the URL let answers
for a selection meet the next; one failure is a lost answer to each kind of request,
or a reload at any point. Several sessions that hold tasks are covered for the
safety invariants by the proofs, which take any sessions. A word of 2^18
is the least that holds six hours in ticks with room for products beyond it
that wrap back into the bounds. Pages of one row and two times make every cursor
fall between rows that move, with ties. Three messages are a question, an answer
and one that may be either: the least for which a link can be ambiguous, missing
or wrong; a version after the second shows that later ones are applied or not
with it. `CHECK_DEADLOCK FALSE` is set
where the system may really stop: all tasks have ended, all requests are
answered, the page was left.

*Fairness.* Nothing makes a user submit, a process crash or an operator restart
it.
- `WF(Work(t))`: a goroutine keeps running and every call it makes returns: the
  database has a busy timeout, queries and the run have deadlines.
- `SF(Acquire(t))`: blocked senders on a Go channel are served first in, first
  out, so a queued task gets a slot if slots keep being released.
- `WF(Serve)`: a recovery that has finished goes on to listen.
- In `EventStream`, `WF` for the notification after a commit, for the steps of a
  handler, and for the browser's reactions. **None** for the heartbeat, so the
  wake-up must not depend on it; none for the producer or a supervisor, and
  `EventsArrive` is conditional on a process that eventually stays up.
- In `Workbench`, `WF` for the effects, for each step of a replay and for the
  next event of the subscription, and nothing for AI Core, the user or the
  history: `PageFollows` holds whatever they do. It exempts a task whose replay
  failed, which the code never tries again until the list of tasks changes.
- In `SchemaMigrations`, `WF` for the start as a whole: someone starts the process
  again and it runs. Nothing makes requests come.
- `TasksSettle` assumes, for a task to end, a process that is not down for ever and
  no storage error in Load, clean-up or recovery; its second part, that a queued
  task leaves the queue, assumes neither.

`SessionPages`, `IntentPlanning` and `EinoRuntime` are checked without fairness:
what they promise is safety. The loop of the runtime and the planner's retry are
bounded by counters, so they end if their calls return.

Every property has a mutant in `PROJECT.json`: a plausible bug in one definition
(next to the original, marked `(mutant)`) under which the run fails.

## 5. What is proved

All theorems are about `Spec`, for every value of the constants that satisfies the
assumptions of the modules: any number of tasks, views, slots, crashes and errors;
any callers, keys, users, TTL and clock; any sessions, size of a page and length
of the logs; any clock resolution and word size; any requests, answers and replies.

What recursive definitions compute is proved by induction in the form that needs
no operator as a parameter: a set of numbers that has 0 and the successor of each
of its elements has all (`Induction`), or a nonempty one has a least element
(`LeastNatural`), both from the well-foundedness of the natural numbers.

`AnalysisWorkflowProofs`:
- `TypeCorrect`: `TypeOK` with `CursorOK`, which says that a step over a view is
  at a view of the plan and that a task without a row has written nothing.
- `LogIsGapless`: from `LogStep`, the shape every action has when only the log is
  looked at (one append, two, or none, at the task's own `latest`).
- `NoConflict`: from `MemoryMatches`, that what goroutine or recovery hold of a
  task they work on (status, version, open calls) is what the rows hold. This is
  why no compare-and-set fails although many actors write.
- `RecoveryIsComplete`, `TerminalStaysFrozen`, `FailuresCloseTools`,
  `NoTaskIsOrphaned`: from `StageOK`, which gives for each `pc` the status the row
  must have, which call may be open and what a clean-up still has to do. None of
  the four is inductive alone: that `Serve` finds no active task, say, needs that
  recovery's `pc` covers every active one.
- `ToolsAreLogged`: from `EveryStepIsAToolStep`: to the calls of a task, a step
  makes one move and writes the event of that move, or does neither.
- `LogEndsTerminal`: from `OpenWhileRunning` (a call is open only while tools run,
  or since a failure that could not close it, so nothing is appended for a call
  after a completion), `Announcing` (a goroutine that owes `task.completed` has a
  completed task whose log still ends with the status) and `EndsRight`, which says
  what the whole log holds: no end while the task is active, then the terminal
  status last or, after it, the terminal event.
- `CompletedIsWhole`: from `Delivering`, which gives for each `pc` the calls, charts
  and reply that are done, so that the loops over the views leave none out.
- `WorkflowImplementsContract`: `Spec` implies `TaskContract`'s specification with
  the mapping of `Contract`. `WrittenIsContract` maps every write of a row or a log
  to a step of the contract (`WriteIsCommit`, `WriteOfTwoIsCommit`,
  `AppendIsReport`); a step that writes neither stutters (`UnseenIsStutter`). The log
  the contract sees is the table in the order of its numbers (`RowsGrow`, by
  `LogGapless`).

`EventStreamProofs` proves the safety of its run from `StreamInv`: the types, what
the log holds (`LogOK`: events, the first of them from when the task exists), the
handlers (`HandlersOK`) and the browser (`BrowserOK`), with `NothingLostNorTwice`
itself.
- `StreamTypes`: `TypeOK`.
- `NotifyIsNotLost`: a handler that is past its last page has a channel (the code
  subscribes before it replays) and a signal, the end of the log or a notification
  still to come. What recovery appends without notifying does no harm, since it
  comes before anybody connects, and no handler outlives its process.
- `StreamIsGapless`: from `AcceptedInLog` (what the browser accepted is a stretch
  of the log) and that the log only grows (`RowsGrow`): a page continues where the
  handler is, and a new connection asks from the last event that was accepted.

`SessionPagesProofs`: `PagesAreOneList`, `NoneIsSkipped`. `PagesInv` says the same of
the pages the query has and of the list a running fetch works on (`Reading`): they
are `Chained` (strictly descending, each cursor the last row of its page, and no row
newer than its session, which holds because activity never moves back) and
`Covers` every listed session that did not move, with what is still below the last
cursor. `ChainGrows` and `CoverGrows` are about one more page, `ChainKept` and
`CoverKept` about a session that moves, and `AnswerGoesOn` about a page read while
sessions moved since the one before.

`TaskCommandsProofs` proves every invariant of its run:
- `TypeCorrect`: with `Ready` (who is about to commit still owns the session, and
  nobody is in progress while the process is down).
- `KeysCorrect`: with `Asked` (only task requests create tasks), since a session
  key must never overwrite a task key's row.
- `TaskCreatedOnce`: from the previous: an accepted task found no valid row, the
  row it replaces leads to the last task under the key, and expires a TTL after
  it.
- `AnswersCorrect`: with `MadeMine` (the goroutine a request owes is that of its
  own task) and `Keeps` (an action property: nothing that an answer rests on
  ever changes).
- `GoroutineStartedOnce`: with `NoneAhead` (nothing was started for a task that
  does not exist).
- `SessionCorrect`: counting a session's tasks, by the library's facts about
  finite sets.

`WorkbenchProofs` proves the safety of its passing run:
- `SessionIsOne`: with `RequestOfSession`, since what `onSuccess` selects is the
  session of the request, which must still be the one that is shown.
- `RequestMakesOneTask`: with `RequestInv`: as long as a request is pending, its
  key is kept and leads to whatever was created for it.
- `ReplayLeavesNoGap`: with `PageInv`, which says of every task where its replay,
  the reducer and the subscription are: a replay never asks beyond what the
  reducer has next, a pinned target is never behind the reducer (a replay that
  is cancelled and begins again may find the reducer ahead of its first page),
  and what is followed was replayed. It needs that logs only grow (`RowsStep`),
  that a history brings tasks of its session only (`LoadedOK`), that an answer is
  about a recorded task (`AnswerOK`), and what each case of the reducer keeps
  (`EventsReduced`, `HistoryReduced`, `AnswerReduced`).
- `ActiveUntilEnd`: the action property `ActiveUntilItsEvents`. A history
  and an answer never leave the page without an active task (`HistoryKeepsActive`,
  `AnswerKeepsActive`): the active one stays among those that have not ended, of which
  there is a newest because `Tasks` is finite (`OneIsActive`). So only events end it.
  `EndsOK` says that once an event told an end, nothing after it tells otherwise, so
  that the last status told is the end (`EndIsTold`).

`IntentPlanningProofs` proves all of its run:
- `PlansPass`: every stored plan passes the checks of assistant-mcp. Its core is
  `AcceptedIsResolved` (what `ResolvePlannedQueryPlan` accepts is within the bounds of
  `Resolved`) and `ResolvedIsExecutable`: the budget is counted by
  `d \div (step * Second)` on one side and `(d \div Second) \div step` on the
  other (`SamePoints`), and the largest step always fits (`AutoStepFits`).
- `FollowUpShows`: `planningHistory` walks the turns back within two budgets, and
  the last of what it returns is the last turn with a plan (`HistoryEndsInLast`, from
  `ReadTurnOK`, what each round of the loop keeps).
- `AskedGetsPlanned`: messages that are `Readable` are planned as meant
  (`PlannedAsMeant`). `NumeralIsRead` shows of each Chinese numeral below a thousand
  that reading its characters one by one yields its value; `StepFound` that among any
  number of amounts before "数据" the patterns find the step that was said, and never
  the range; `SaidIsMeant` and `StepIsMeant` go on to the duration and the step.

`InputsAssumption` says what requests are: amounts are texts with a unit (`Messages`), the views
of a message are registered and named once (`parseViews` yields no others), durations
are integers, and the messages of another tab are within the length the API allows.

`EinoRuntimeProofs`: `TypeCorrect`, `SuccessClosesCalls`, `ResultIsTrue`. The
invariant `RunInv` adds that exactly the call that is read is open, and that a
view has a proposal if and only if it was executed once; that every error code is
one the runtime knows comes from `ServiceCode` and `HandedCode`. `GoodRepliesPass`
shows that with a good reply neither the validation nor the execution of a plan is
refused by service, registry or adapter: plans are assumed to be `Resolved`, which
`AcceptedIsResolved` shows of each plan the program makes, and the samples of the rows
that are kept are no more than those of the reply (`SamplesGrow`, by induction over
the rows). A good reply is one within the limits whose samples the contract's types
hold; what becomes of others is in section 7.

`SchemaMigrationsProofs` proves all safety of its run:
- `RowsStayLinked`: `Linked` is inductive with `Sound` (every reference is to a
  row; without it a new task could take over old announcements) and `StartOK`.
  `ChecksSuffice` shows that what the code's checks let through is consistent, and
  `EndKeeps`, `AnswerKeeps`, `CreateKeeps` that writes keep it so.
- `RefusalsAreRight`: by `LinksDecide`, links that make the rows consistent can
  only be the script's, so `UpgradeablePasses`: nothing that could be linked is
  refused.
- `UpgradesAreWhole`: from `Upgrading`, the transaction differs from the committed
  rows by links and recorded versions only.
- `TypeCorrect`: types, from the same invariant.

## 6. What is only model-checked, and what is not modelled

Only model-checked: all liveness (`TasksSettle`, `EventsArrive`, `StreamsEnd`,
`PageFollows`, `UpgradeableIsServed`), since fairness and ENABLED are out of the
prover's reach. Every invariant and action property of a passing run, and the
refinement of `TaskContract`, is also a theorem. `Workbench` has no run for the types of
its page: `PageInv` of `WorkbenchProofs` contains them, as `PagesInv` does for
`SessionPages` and `PlanningInv` for `IntentPlanning`.

Not modelled: see `components` in `PROJECT.json` for each part and its reason.
In short, rendering, the stateless proxy of the plugin, the configuration,
generated clients and scripts keep no state whose order matters; the MCP session
below the gateway, the older pages of a history, and ListTasks/ListMessages paging
are left (section 2). About 9500 of the 17000 lines of implementation are
generated clients, servers and contracts, and most of the rest of what is not
mapped is rendering, decoding of rows and requests, and configuration, so the
share of mapped lines stays well below a third of the whole.

The Eino runtime is not reached by the program as it is wired: `bootstrap`
(`wire.go`) wires the mock runtime in both modes and "eino" only changes the
planner, so `EinoRuntime` shows what its tests could reach.

Not visible in the models: the content of messages, titles and payloads; user
and tenant as separate things (a key comes with its scope); the order in which
SQLite readers see committed rows, which is the commit order.

## 7. Where code and documents disagree

- **`TerminalEventPersisted`** (`workflow_terminal_event`): the documents ask for
  the terminal status, its status event and the terminal event in one
  transaction. Failure does that; completion appends `task.completed` in a
  transaction of its own. A crash or error between the two leaves a completed
  task whose log never gets its terminal event, and a stream on it that is never
  ended by the server.
- **`EndedByItsEvents`** (`workbench_other_tab`): the documents say that a
  history never settles the active task before its events are reduced. The
  reducer keeps the active task's status, but gives the place of the active task
  to a newer one submitted in another tab; the first task's subscription is
  closed, the next history marks it completed, and the events it still had,
  charts included, are not shown until the session is opened again.
- **`ClosedByItsEnd`** (`workbench_early_close`): the page is documented to close a
  subscription after the terminal event. The effect depends on the status of the
  task, which `task.status_changed` makes terminal one event earlier, so the
  terminal event, with the error of a failure, is not shown until a reload.

Other disagreements met while modelling, which no run is spent on:

- *Failed tools.* `basic_mock_skeleton_execution_plan.md:771` lets `tool.failed`
  precede the failure; a storage error in `failOpenTools` does not stop `Run` from
  failing the task (`run_analysis.go:95`), and its call stays started.
- *Expiry of keys.* A record lives 24 hours and `Reserve` takes an expired one over,
  but the check before planning (`service.go:103`) ignores the expiry: a different
  request with an old key is refused for good. The scope of a key has no user,
  although `code_skeleton_design.md:2202` names one.
- *Ended tasks.* An answer of `POST /tasks` that is older than what the replay
  brought makes an ended task active again (`session-reducer.ts:61`): the server
  ends the stream at once and the browser reconnects. A replay that failed is not
  tried again until the list of tasks changes (`Workbench.tsx:83`).
- *Durations.* A number from a message is multiplied before the bounds are checked
  (`mock/planner.go:83`, `query_plan.go:132`): "过去5124096小时" wraps into some 25
  minutes and is accepted. `AskedIsPlanned` leaves such amounts out, and
  `PlansAreExecutable` holds for them, as the bounds are checked on what is left.
- *Ranges read as steps.* "最近30分钟数据" is matched by the pattern of data points too
  (`mock/planner.go:20`), so its range becomes a step, which is not allowed, and the
  message is refused, even if a step in English follows; a step after "每", or a point
  before it, is found first, and "最近6小时数据" is planned, since no step pattern has
  hours. So a step in hours is not found either, and the plan gets an automatic one.
  The reference of `AskedIsPlanned` takes no range for a step; what the code misreads
  in this way is left out by `Readable`.
- *Retryable refusals.* Parameters out of range are refused as not retryable
  (`invalid_argument`), where `natural_language_query_input_execution_plan.md`
  describes them as retryable.
- *Error codes.* The gateway (`gateway.go:128`) passes six codes (`PassedCodes`) and
  makes `dependency_unavailable` of the others; `node_exporter_real_analysis_execution_plan.md:189`
  expects timeouts and missing adapters to stay visible.
- *Samples.* Twenty series of up to 300 points exceed the 5000 samples of an
  answer: `GoodRepliesSucceed` is about replies within the limits, and a plan that was
  accepted can still be refused on its answer.
- *Wide samples.* The adapter keeps float64 samples, the contract's type is float32
  (`grafana_tools.gen.go:331`): a finite sample beyond it fails the conversion
  (`grafana/service.go:84`) and the whole answer is refused with
  `schema_validation_failed`, as if the plan were wrong. `Good` leaves such replies out.
- *Migration of interrupted tasks.* A database of version 1 with two interrupted
  tasks in a session is refused on every start, since the recovery that would
  settle them comes after the migration; `Upgradeable` calls it ambiguous, as the
  unique index does.
- *Runtime and plan.* The Eino runtime does not look at the views of the plan, and
  its query does not look at the status of an execution.
- *Streams.* `afterSequence` and `Last-Event-ID` (`api.go:222`) are not combined as
  `basic_mock_skeleton_execution_plan.md:452` says; the same document's order of a
  shutdown (`:848`) has no counterpart in `main.go`; the plugin answers nothing to a
  negative sequence (`resources.go:283`).
- *Loading more.* It cancels a refetch that runs
  (`workbench_product_ui_migration_execution_plan.md:105` speaks of a list that is
  refreshed); `SessionPages` shows that the pages stay one list all the same.
