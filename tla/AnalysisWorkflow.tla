--------------------------- MODULE AnalysisWorkflow ---------------------------
(***************************************************************************)
(* The durable analysis workflow of AI Core: the SQLite rows of a task,    *)
(* one goroutine per accepted task (RunAnalysisWorkflow.Run, driving the   *)
(* mock runtime, the only one bootstrap wires), the clean-up that runs     *)
(* after an error, the death of the process, and RecoverInterrupted.       *)
(*                                                                         *)
(* The grain is the one the code has: every SQLite transaction is one      *)
(* step (writers are serialised by Store.writeMu and a failing callback is *)
(* rolled back as a whole), and anything may happen between two of them.   *)
(***************************************************************************)
EXTENDS Integers, Sequences, FiniteSets

CONSTANTS
    Tasks,       \* identifiers of the tasks that may be submitted
    SessionOf,   \* SessionOf[t]: the session task t is submitted to
    MaxViews,    \* size of the registry of views (3 in the code)
    Views,       \* Views[t]: how many views the frozen query plan of t holds
    MaxWorkers,  \* capacity of commands.Service.workers (4 in the code)
    MaxCrashes,  \* bound: how often the process dies
    MaxFaults    \* bound: storage errors in Load, clean-up and recovery

ASSUME WorkflowAssumption ==
    /\ MaxViews \in Nat
    /\ Views \in [Tasks -> 0..MaxViews]
    /\ MaxWorkers \in Nat \ {0}
    /\ MaxCrashes \in Nat
    /\ MaxFaults \in Nat

Statuses == {"created", "planning", "running_tools", "validating", "completed", "failed"}
Terminal == {"completed", "failed"}

\* canTransition: the edges of the task status machine.
CanTransition(from, to) ==
    \/ from = "created" /\ to = "planning"
    \/ from = "planning" /\ to = "running_tools"
    \/ from = "running_tools" /\ to = "validating"
    \/ from = "validating" /\ to = "completed"
    \/ from \in Statuses \ Terminal /\ to = "failed"

\* The error codes of the tasks table, by what leads to them: a restart, a
\* tool or MCP error, a storage error or the 60 s deadline.
Codes == {"none", "interrupted", "dependency", "storage"}

Kinds == {"task.created", "task.status_changed", "task.completed", "task.failed",
          "assistant.message.started", "assistant.message.delta",
          "assistant.message.completed", "tool.started", "tool.completed",
          "tool.failed", "chart.created", "chart.execution_completed"}

\* A row of the tasks table ("absent": it does not exist yet), and task.New.
NoRow == [status |-> "absent", version |-> 0, latest |-> 0, code |-> "none"]

\* (mutant) The status is left at Go's zero value.
FirstRowUnset == [status |-> "", version |-> 1, latest |-> 0, code |-> "none"]

FirstRow == [status |-> "created", version |-> 1, latest |-> 0, code |-> "none"]
TaskRows == [status: Statuses \cup {"absent"}, version: Nat, latest: Nat, code: Codes]

\* What an event says, and the row of task_events that holds it.
Says(kind, status, call) == [kind |-> kind, status |-> status, call |-> call]
StatusChanged(status) == Says("task.status_changed", status, 0)
About(kind, call) == Says(kind, "none", call)
EventRow(seq, e) == [seq |-> seq, kind |-> e.kind, status |-> e.status, call |-> e.call]
EventRows == [seq: Nat \ {0}, kind: Kinds, status: Statuses \cup {"none"}, call: Nat]

VARIABLES
    \* SQLite
    tasks,    \* tasks[t]: the row of t
    events,   \* events[t]: the rows of task_events of t
    tools,    \* tools[t][k]: the tool call of the k-th view
    charts,   \* charts[t][k]: the chart of the k-th view
    reply,    \* reply[t]: the assistant message of t exists
    \* memory of the process
    phase,    \* is the process down, recovering or serving
    pc,       \* pc[t]: the next store operation on behalf of t
    item,     \* item[t]: the workflow's own copy of the row of t
    open,     \* open[t]: durableSink.openCalls
    cursor,   \* cursor[t]: the view the runtime or persistResult is at
    err,      \* err[t]: the error the deferred clean-up works on
    \* bounds
    crashes, faults

durable == <<tasks, events, tools, charts, reply>>
bounds == <<crashes, faults>>
vars == <<tasks, events, tools, charts, reply, phase, pc, item, open, cursor, err, crashes, faults>>

Calls == 1..MaxViews
Exists(t) == tasks[t].status # "absent"
Active(t) == Exists(t) /\ tasks[t].status \notin Terminal

\* The goroutine has not got a worker slot, or works in one, or cleans up.
TransitionSteps == {"planning", "running_tools", "validating", "complete"}
RunSteps == TransitionSteps \cup
    {"greet", "delta", "tool_start", "query", "tool_end", "reply", "chart",
     "execution", "announce"}
CleanupSteps == {"close_tools", "mark_failed"}
Steps == {"none", "queued", "load"} \cup RunSteps \cup CleanupSteps

\* (mutant) A queued goroutine already counts.
InSlotQueued == {t \in Tasks : pc[t] # "none"}

\* (mutant) A goroutine whose task has failed returns without its release.
InSlotKept == {t \in Tasks : pc[t] # "queued" /\ (pc[t] # "none" \/ tasks[t].status = "failed")}

InSlot == {t \in Tasks : pc[t] \notin {"none", "queued"}}

Init ==
    /\ tasks = [t \in Tasks |-> NoRow]
    /\ events = [t \in Tasks |-> {}]
    /\ tools = [t \in Tasks |-> [k \in Calls |-> "none"]]
    /\ charts = [t \in Tasks |-> [k \in Calls |-> "none"]]
    /\ reply = [t \in Tasks |-> FALSE]
    /\ phase = "serving"
    /\ pc = [t \in Tasks |-> "none"]
    /\ item = [t \in Tasks |-> NoRow]
    /\ open = [t \in Tasks |-> {}]
    /\ cursor = [t \in Tasks |-> 1]
    /\ err = [t \in Tasks |-> "none"]
    /\ crashes = 0
    /\ faults = 0

-----------------------------------------------------------------------------
(* The event store *)

\* UNIQUE (tenant_id, task_id, sequence).
Unused(t, seq) == \A e \in events[t] : e.seq # seq

\* (mutant) The increment of latest_sequence is lost.
Append1NotCounted(t, row, e) ==
    /\ tasks' = [tasks EXCEPT ![t] = row]
    /\ events' = [events EXCEPT ![t] = @ \cup {EventRow(row.latest + 1, e)}]

\* A transaction that writes row and appends one event or two: each append
\* increments tasks.latest_sequence and inserts under the value it reads back.
Append1(t, row, e) ==
    /\ Unused(t, row.latest + 1)
    /\ tasks' = [tasks EXCEPT ![t] = [row EXCEPT !.latest = @ + 1]]
    /\ events' = [events EXCEPT ![t] = @ \cup {EventRow(row.latest + 1, e)}]

\* (mutant) The second event of a transaction overtakes the first.
Append2Swapped(t, row, e, f) ==
    /\ tasks' = [tasks EXCEPT ![t] = [row EXCEPT !.latest = @ + 2]]
    /\ events' = [events EXCEPT ![t] = @ \cup {EventRow(row.latest + 2, e),
                                              EventRow(row.latest + 1, f)}]

Append2(t, row, e, f) ==
    /\ Unused(t, row.latest + 1)
    /\ Unused(t, row.latest + 2)
    /\ tasks' = [tasks EXCEPT ![t] = [row EXCEPT !.latest = @ + 2]]
    /\ events' = [events EXCEPT ![t] = @ \cup {EventRow(row.latest + 1, e),
                                              EventRow(row.latest + 2, f)}]

\* UPDATE tasks ... WHERE version = the version the workflow holds.
Current(t) == item[t].version = tasks[t].version

\* (mutant) The sequence is not read again.
CandidateStale(t, status, code) ==
    [item[t] EXCEPT !.status = status, !.version = @ + 1, !.code = code]

\* The candidate a transition writes: the workflow's copy, moved to status,
\* with latest_sequence read again inside the transaction.
Candidate(t, status, code) ==
    [item[t] EXCEPT !.status = status, !.version = @ + 1,
                    !.latest = tasks[t].latest, !.code = code]

-----------------------------------------------------------------------------
(* Accepting a task, and its goroutine up to the first write *)

\* (mutant) The index forgets the status "validating".
SessionFreeNarrow(t) ==
    \A u \in Tasks :
        SessionOf[u] = SessionOf[t] => ~Active(u) \/ tasks[u].status = "validating"

\* The partial unique index: one task per session that is not terminal.
SessionFree(t) == \A u \in Tasks : SessionOf[u] = SessionOf[t] => ~Active(u)

\* The transaction of CreateTask, then go s.run.
Create(t) ==
    /\ phase = "serving"
    /\ ~Exists(t)
    /\ SessionFree(t)
    /\ Append1(t, FirstRow, Says("task.created", "created", 0))
    /\ pc' = [pc EXCEPT ![t] = "queued"]
    /\ UNCHANGED <<tools, charts, reply, phase, item, open, cursor, err, bounds>>

Acquire(t) ==
    /\ pc[t] = "queued"
    /\ Cardinality(InSlot) < MaxWorkers
    /\ pc' = [pc EXCEPT ![t] = "load"]
    /\ UNCHANGED <<durable, phase, item, open, cursor, err, bounds>>

\* Tasks().Get: Run returns at once if the task is not "created".
AfterLoad(t) == IF tasks[t].status = "created" THEN "planning" ELSE "none"
Load(t) ==
    /\ pc[t] = "load"
    /\ item' = [item EXCEPT ![t] = tasks[t]]
    /\ pc' = [pc EXCEPT ![t] = AfterLoad(t)]
    /\ UNCHANGED <<durable, phase, open, cursor, err, bounds>>

\* Get fails before the deferred clean-up is installed: Run just returns.
LoadFails(t) ==
    /\ pc[t] = "load"
    /\ faults < MaxFaults
    /\ faults' = faults + 1
    /\ pc' = [pc EXCEPT ![t] = "none"]
    /\ UNCHANGED <<durable, phase, item, open, cursor, err, crashes>>

-----------------------------------------------------------------------------
(* Run: status transitions and plain events *)

\* transition: one transaction, then the copy follows the row.
Transition(t, at, status, then) ==
    /\ pc[t] = at
    /\ CanTransition(item[t].status, status)
    /\ Current(t)
    /\ Append1(t, Candidate(t, status, item[t].code), StatusChanged(status))
    /\ item' = [item EXCEPT ![t] = tasks'[t]]
    /\ pc' = [pc EXCEPT ![t] = then]
    /\ UNCHANGED <<tools, charts, reply, phase, open, cursor, err, bounds>>

StartPlanning(t) == Transition(t, "planning", "planning", "running_tools")
StartTools(t) == Transition(t, "running_tools", "running_tools", "greet")
StartValidating(t) == Transition(t, "validating", "validating", "reply")
Complete(t) == Transition(t, "complete", "completed", "announce")

\* emit: the append is a transaction of its own.
Emit(t, at, kind, then) ==
    /\ pc[t] = at
    /\ Append1(t, tasks[t], About(kind, 0))
    /\ pc' = [pc EXCEPT ![t] = then]
    /\ UNCHANGED <<tools, charts, reply, phase, item, open, cursor, err, bounds>>

Greet(t) == Emit(t, "greet", "assistant.message.started", "delta")
\* A plan without views gets a fixed reply and no query.
Delta(t) ==
    Emit(t, "delta", "assistant.message.delta",
         IF Views[t] = 0 THEN "validating" ELSE "tool_start")
\* The last write of Run; the worker slot is released when it returns.
Announce(t) == Emit(t, "announce", "task.completed", "none")

-----------------------------------------------------------------------------
(* The runtime: for each view in plan order started, query, completed *)

\* (mutant) The loop ends a view early.
LastViewShort(t) == cursor[t] + 1 >= Views[t]

\* The loops over the views of the plan and over the proposals end here.
LastView(t) == cursor[t] >= Views[t]
AfterTool(t) == IF LastView(t) THEN "validating" ELSE "tool_start"
AfterReply(t) == IF Views[t] = 0 THEN "complete" ELSE "chart"
AfterChart(t) == IF LastView(t) THEN "complete" ELSE "chart"

StartTool(t) ==
    LET k == cursor[t] IN
    /\ pc[t] = "tool_start"
    /\ tools[t][k] = "none"                 \* UNIQUE source_call_id
    /\ tools' = [tools EXCEPT ![t][k] = "started"]
    /\ Append1(t, tasks[t], About("tool.started", k))
    /\ open' = [open EXCEPT ![t] = @ \cup {k}]
    /\ pc' = [pc EXCEPT ![t] = "query"]
    /\ UNCHANGED <<charts, reply, phase, item, cursor, err, bounds>>

\* Validate and Execute answer (assistant-mcp is external).
QueryAnswers(t) ==
    /\ pc[t] = "query"
    /\ pc' = [pc EXCEPT ![t] = "tool_end"]
    /\ UNCHANGED <<durable, phase, item, open, cursor, err, bounds>>

\* They fail, or return an expression the runtime refuses.
QueryFails(t) ==
    /\ pc[t] = "query"
    /\ err' = [err EXCEPT ![t] = "dependency"]
    /\ pc' = [pc EXCEPT ![t] = "close_tools"]
    /\ UNCHANGED <<durable, phase, item, open, cursor, bounds>>

\* The sink completes the record it holds; version 1 is a started call.
EndTool(t) ==
    LET k == cursor[t] IN
    /\ pc[t] = "tool_end"
    /\ tools[t][k] = "started"
    /\ tools' = [tools EXCEPT ![t][k] = "completed"]
    /\ Append1(t, tasks[t], About("tool.completed", k))
    /\ open' = [open EXCEPT ![t] = @ \ {k}]
    /\ cursor' = [cursor EXCEPT ![t] = k + 1]
    /\ pc' = [pc EXCEPT ![t] = AfterTool(t)]
    /\ UNCHANGED <<charts, reply, phase, item, err, bounds>>

-----------------------------------------------------------------------------
(* persistResult *)

PersistReply(t) ==
    /\ pc[t] = "reply"
    /\ ~reply[t]                            \* UNIQUE (task_id, role)
    /\ reply' = [reply EXCEPT ![t] = TRUE]
    /\ Append1(t, tasks[t], About("assistant.message.completed", 0))
    /\ cursor' = [cursor EXCEPT ![t] = 1]
    /\ pc' = [pc EXCEPT ![t] = AfterReply(t)]
    /\ UNCHANGED <<tools, charts, phase, item, open, err, bounds>>

ProposeChart(t) ==
    LET k == cursor[t] IN
    /\ pc[t] = "chart"
    /\ charts' = [charts EXCEPT ![t][k] = "proposed"]
    /\ Append1(t, tasks[t], About("chart.created", k))
    /\ pc' = [pc EXCEPT ![t] = "execution"]
    /\ UNCHANGED <<tools, reply, phase, item, open, cursor, err, bounds>>

\* The execution row, the chart's "ready" and the event are one transaction.
PersistExecution(t) ==
    LET k == cursor[t] IN
    /\ pc[t] = "execution"
    /\ charts[t][k] = "proposed"
    /\ charts' = [charts EXCEPT ![t][k] = "ready"]
    /\ Append1(t, tasks[t], About("chart.execution_completed", k))
    /\ cursor' = [cursor EXCEPT ![t] = k + 1]
    /\ pc' = [pc EXCEPT ![t] = AfterChart(t)]
    /\ UNCHANGED <<tools, reply, phase, item, open, err, bounds>>

-----------------------------------------------------------------------------
(* Errors, the deferred clean-up, and recovery *)

\* A store operation of Run fails: the 60 s deadline has passed or SQLite
\* reports an error. The transaction is rolled back. (A write whose guard does
\* not hold would end here too; WritesNeverConflict says that there is none.)
OperationFails(t) ==
    /\ pc[t] \in RunSteps \ {"query"}
    /\ err' = [err EXCEPT ![t] = "storage"]
    /\ pc' = [pc EXCEPT ![t] = "close_tools"]
    /\ UNCHANGED <<durable, phase, item, open, cursor, bounds>>

\* (mutant) The call is completed, its event is forgotten.
CloseToolSilently(t, k) ==
    /\ pc[t] = "close_tools"
    /\ k \in open[t]
    /\ tools' = [tools EXCEPT ![t][k] = "failed"]
    /\ open' = [open EXCEPT ![t] = @ \ {k}]
    /\ UNCHANGED <<tasks, events, charts, reply, phase, pc, item, cursor, err, bounds>>

\* failOpenTools: one transaction per open call.
CloseTool(t, k) ==
    /\ pc[t] = "close_tools"
    /\ k \in open[t]
    /\ tools[t][k] = "started"
    /\ tools' = [tools EXCEPT ![t][k] = "failed"]
    /\ Append1(t, tasks[t], About("tool.failed", k))
    /\ open' = [open EXCEPT ![t] = @ \ {k}]
    /\ UNCHANGED <<charts, reply, phase, pc, item, cursor, err, bounds>>

\* (mutant) fail does not wait for failOpenTools.
FailIsNextEager(t) == pc[t] \in CleanupSteps

\* fail is next once no call is open, or failOpenTools has given up.
FailIsNext(t) == pc[t] = "mark_failed" \/ (pc[t] = "close_tools" /\ open[t] = {})

\* (mutant) A completed task can be failed.
SettledFailed(t) == item[t].status = "failed"

\* (mutant) A task in validating cannot be failed.
SettledBroad(t) == item[t].status \in Terminal \cup {"validating"}

\* The first test of fail.
Settled(t) == item[t].status \in Terminal

\* fail: the row, the status event and the terminal event in one transaction.
MarkFailed(t) ==
    /\ FailIsNext(t)
    /\ ~Settled(t)
    /\ Current(t)
    /\ Append2(t, Candidate(t, "failed", err[t]), StatusChanged("failed"), About("task.failed", 0))
    /\ item' = [item EXCEPT ![t] = tasks'[t]]
    /\ pc' = [pc EXCEPT ![t] = "none"]
    /\ UNCHANGED <<tools, charts, reply, phase, open, cursor, err, bounds>>

\* fail does nothing for a task that is already terminal.
NothingToFail(t) ==
    /\ FailIsNext(t)
    /\ Settled(t)
    /\ pc' = [pc EXCEPT ![t] = "none"]
    /\ UNCHANGED <<durable, phase, item, open, cursor, err, bounds>>

\* Run's clean-up hits a storage error: failOpenTools stops but fail is still
\* attempted; when fail itself does not commit, Run returns all the same.
AfterCleanupError(t) == IF FailIsNext(t) THEN "none" ELSE "mark_failed"
CleanupFails(t) ==
    /\ phase = "serving"
    /\ pc[t] \in CleanupSteps
    /\ FailIsNext(t) => ~Settled(t)
    /\ faults < MaxFaults
    /\ faults' = faults + 1
    /\ pc' = [pc EXCEPT ![t] = AfterCleanupError(t)]
    /\ UNCHANGED <<durable, phase, item, open, cursor, err, crashes>>

\* What is left of the memory of a process that has died.
ProcessGone ==
    /\ phase' = "down"
    /\ pc' = [t \in Tasks |-> "none"]
    /\ item' = [t \in Tasks |-> NoRow]
    /\ open' = [t \in Tasks |-> {}]
    /\ cursor' = [t \in Tasks |-> 1]
    /\ err' = [t \in Tasks |-> "none"]

\* A crash or a shutdown: main closes the store, goroutines are not awaited.
Crash ==
    /\ phase # "down"
    /\ crashes < MaxCrashes
    /\ crashes' = crashes + 1
    /\ ProcessGone
    /\ UNCHANGED <<durable, faults>>

\* (mutant) A status is missing in the list.
InterruptedNarrow == {t \in Tasks : Active(t) /\ tasks[t].status # "validating"}

\* ListNonTerminal.
Interrupted == {t \in Tasks : Active(t)}

\* bootstrap.New: RecoverInterrupted lists the tasks that are not terminal and
\* their started calls; it takes each through failOpenTools and fail.
Restart ==
    /\ phase = "down"
    /\ phase' = "recovering"
    /\ pc' = [t \in Tasks |-> IF t \in Interrupted THEN "close_tools" ELSE "none"]
    /\ item' = [t \in Tasks |-> IF t \in Interrupted THEN tasks[t] ELSE NoRow]
    /\ open' = [t \in Tasks |->
                    IF t \in Interrupted THEN {k \in Calls : tools[t][k] = "started"} ELSE {}]
    /\ err' = [t \in Tasks |-> IF t \in Interrupted THEN "interrupted" ELSE "none"]
    /\ UNCHANGED <<durable, cursor, bounds>>

\* Any error aborts RecoverInterrupted and with it the process.
RecoveryFails ==
    /\ phase = "recovering"
    /\ faults < MaxFaults
    /\ faults' = faults + 1
    /\ ProcessGone
    /\ UNCHANGED <<durable, crashes>>

\* Only then does main start to listen.
Serve ==
    /\ phase = "recovering"
    /\ \A t \in Tasks : pc[t] = "none"
    /\ phase' = "serving"
    /\ UNCHANGED <<durable, pc, item, open, cursor, err, bounds>>

-----------------------------------------------------------------------------
\* Everything the goroutine (or the recovery) does for t once it is running.
Work(t) ==
    \/ Load(t) \/ LoadFails(t)
    \/ StartPlanning(t) \/ StartTools(t) \/ StartValidating(t) \/ Complete(t)
    \/ Greet(t) \/ Delta(t) \/ Announce(t)
    \/ StartTool(t) \/ QueryAnswers(t) \/ QueryFails(t) \/ EndTool(t)
    \/ PersistReply(t) \/ ProposeChart(t) \/ PersistExecution(t)
    \/ OperationFails(t)
    \/ \E k \in Calls : CloseTool(t, k)
    \/ MarkFailed(t) \/ NothingToFail(t) \/ CleanupFails(t)

Next ==
    \/ \E t \in Tasks : Create(t)
    \/ \E t \in Tasks : Acquire(t)
    \/ \E t \in Tasks : Work(t)
    \/ Crash
    \/ Restart
    \/ RecoveryFails
    \/ Serve

\* A goroutine keeps running and every call it makes returns: the store has a
\* busy timeout, tool calls and the run as a whole have deadlines. Blocked
\* senders on a Go channel are served first in, first out, so a queued task
\* gets a slot if slots keep being released. A recovery that was started runs
\* on. Nothing makes a user submit, a process crash or an operator restart it.
Fairness ==
    /\ \A t \in Tasks : WF_vars(Work(t)) /\ SF_vars(Acquire(t))
    /\ WF_vars(Serve)

Spec == Init /\ [][Next]_vars
FairSpec == Spec /\ Fairness

-----------------------------------------------------------------------------
(* The workflow implements the contract a reader relies on *)

\* task_events of t, ORDER BY sequence.
LogOf(t) ==
    [n \in 1..tasks[t].latest |->
        LET e == CHOOSE e \in events[t] : e.seq = n IN Says(e.kind, e.status, e.call)]

Contract == INSTANCE TaskContract WITH
    Calls <- Calls \cup {0},
    status <- [t \in Tasks |-> tasks[t].status],
    version <- [t \in Tasks |-> tasks[t].version],
    log <- [t \in Tasks |-> LogOf(t)]

\* Seen through a row and its log, nothing but the contract's steps happens:
\* one active task per session, status and version move together, no event is
\* rewritten, reordered or reported outside the status it belongs to, whatever
\* crashes, storage errors, clean-ups and recoveries interleave.
ImplementsContract == Contract!Spec

-----------------------------------------------------------------------------
(* What must hold *)

\* Types of every variable.
TypeOK ==
    /\ tasks \in [Tasks -> TaskRows]
    /\ events \in [Tasks -> SUBSET EventRows]
    /\ tools \in [Tasks -> [Calls -> {"none", "started", "completed", "failed"}]]
    /\ charts \in [Tasks -> [Calls -> {"none", "proposed", "ready"}]]
    /\ reply \in [Tasks -> BOOLEAN]
    /\ phase \in {"down", "recovering", "serving"}
    /\ pc \in [Tasks -> Steps]
    /\ item \in [Tasks -> TaskRows]
    /\ open \in [Tasks -> SUBSET Calls]
    /\ cursor \in [Tasks -> Nat \ {0}]
    /\ err \in [Tasks -> Codes]
    /\ crashes \in 0..MaxCrashes
    /\ faults \in 0..MaxFaults

\* The sequences of a task are 1..latest_sequence, each used once, whatever
\* interleaving of appends and row updates produced them: what a replay or a
\* stream that resumes after a sequence relies on (store.go appendEvent).
LogGapless ==
    \A t \in Tasks :
        /\ {e.seq : e \in events[t]} = 1..tasks[t].latest
        /\ \A e, f \in events[t] : e.seq = f.seq => e = f

\* A terminal status event is followed by its terminal event or by nothing,
\* and a terminal event comes only directly after it: no tool, chart or
\* message event reaches a client that has already closed the stream.
TerminalEndsLog ==
    \A t \in Tasks : \A e \in events[t] :
        /\ e.status \in Terminal =>
              \A f \in events[t] : f.seq > e.seq =>
                  /\ f.seq = e.seq + 1
                  /\ f.kind = (IF e.status = "failed" THEN "task.failed" ELSE "task.completed")
        /\ e.kind \in {"task.completed", "task.failed"} =>
              \E f \in events[t] : f.seq = e.seq - 1 /\ f.status \in Terminal

\* Every tool call row has the audit trail its state implies, and no more:
\* the row and its event are written together on each of the three paths
\* (sink, clean-up, recovery).
ToolsMatchLog ==
    \A t \in Tasks : \A k \in Calls :
        LET Logged(kind) == \E e \in events[t] : e.kind = kind /\ e.call = k IN
        /\ (tools[t][k] # "none") <=> Logged("tool.started")
        /\ (tools[t][k] = "completed") <=> Logged("tool.completed")
        /\ (tools[t][k] = "failed") <=> Logged("tool.failed")

\* A completed task has its reply, and for every view of its plan a completed
\* tool call and a chart with an execution: nothing is half delivered.
CompletedIsDelivered ==
    \A t \in Tasks : tasks[t].status = "completed" =>
        /\ reply[t]
        /\ \A k \in 1..Views[t] : tools[t][k] = "completed" /\ charts[t][k] = "ready"

\* What the process remembers of a task it works on is what SQLite holds:
\* the row it will compare-and-set, the calls it will have to close, and a
\* sequence that is free. So no write of the workflow ever conflicts.
WritesNeverConflict ==
    \A t \in Tasks : pc[t] \in RunSteps \cup CleanupSteps =>
        /\ item[t].status = tasks[t].status
        /\ Current(t)
        /\ open[t] = {k \in Calls : tools[t][k] = "started"}
        /\ Unused(t, Candidate(t, "failed", "none").latest + 1)

\* A failed task keeps no call "started": always if recovery failed it, and
\* without a storage error during the clean-up if Run did.
FailureClosesTools ==
    \A t \in Tasks :
        (tasks[t].status = "failed" /\ (tasks[t].code = "interrupted" \/ faults = 0)) =>
            \A k \in Calls : tools[t][k] # "started"

\* While the process serves, a task that is not terminal has a goroutine;
\* otherwise its session could accept no task until the next restart. Only a
\* storage error in Load or in the clean-up can orphan one.
NoOrphan ==
    \A t \in Tasks :
        (phase = "serving" /\ faults = 0 /\ Active(t)) => pc[t] # "none"

\* Recovery is complete: whatever failed on the way, the process starts to
\* serve only when no task of the previous process is left active.
RecoverySettles ==
    [][(phase = "recovering" /\ phase' = "serving") => \A t \in Tasks : ~Active(t)']_vars

\* A terminal task is frozen: status, version, error code, tool calls, charts
\* and reply never change again; only its terminal event may still be added.
TerminalIsFrozen ==
    [][\A t \in Tasks : (Exists(t) /\ ~Active(t)) =>
          /\ tasks'[t] = [tasks[t] EXCEPT !.latest = tasks'[t].latest]
          /\ tools'[t] = tools[t] /\ charts'[t] = charts[t] /\ reply'[t] = reply[t]]_vars

\* If the process stays up, a task that was accepted ends, whether it waited
\* for a slot, lost its tools, ran into its deadline or was interrupted; only
\* a storage error during Load, clean-up or recovery may leave it as it is. And
\* storage errors or not, no path through Run keeps its worker slot: a queued
\* task gets one, or dies with the process.
TasksSettle ==
    /\ (<>[](phase # "down") /\ [](faults = 0)) =>
          \A t \in Tasks : Exists(t) ~> (tasks[t].status \in Terminal)
    /\ \A t \in Tasks : pc[t] = "queued" ~> pc[t] # "queued"

\* Documented (execution plan 2.2): the terminal status, its status event and
\* the terminal event are persisted in one transaction. Then at least a task
\* nothing works on any more would have both.
TerminalEventPersisted ==
    \A t \in Tasks :
        (tasks[t].status \in Terminal /\ pc[t] = "none") =>
            \E e \in events[t] : e.kind \in {"task.completed", "task.failed"}
=============================================================================
