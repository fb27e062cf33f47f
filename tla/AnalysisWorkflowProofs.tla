----------------------- MODULE AnalysisWorkflowProofs -----------------------
(***************************************************************************)
(* Theorems about AnalysisWorkflow, for every value of its constants.      *)
(***************************************************************************)
EXTENDS AnalysisWorkflow, SequenceTheorems, TLAPS

-----------------------------------------------------------------------------
(* Types *)

\* The steps at which nothing has moved the cursor, and those that use it.
EarlySteps == {"queued", "load", "planning", "running_tools", "greet", "delta"}
CursorSteps == {"tool_start", "query", "tool_end", "chart", "execution"}

\* What types need to be inductive: a view is only looked up when it exists.
CursorOK ==
    \A t \in Tasks :
        /\ ~Exists(t) => pc[t] = "none" /\ cursor[t] = 1 /\ tasks[t] = NoRow
        /\ pc[t] \in EarlySteps => cursor[t] = 1
        /\ pc[t] \in CursorSteps => cursor[t] \in 1..Views[t]

Contents == [kind : Kinds, status : Statuses \cup {"none"}, call : Nat]

\* An append keeps the types of the row and the log it writes.
LEMMA Append1Type ==
    ASSUME TypeOK, NEW t \in Tasks, NEW row \in TaskRows, NEW e \in Contents,
           Append1(t, row, e)
    PROVE  /\ tasks' \in [Tasks -> TaskRows]
           /\ events' \in [Tasks -> SUBSET EventRows]
           /\ tasks'[t] = [row EXCEPT !.latest = @ + 1]
           /\ \A u \in Tasks \ {t} : tasks'[u] = tasks[u]
<1>1. [row EXCEPT !.latest = @ + 1] \in TaskRows
    BY DEF TaskRows
<1>2. EventRow(row.latest + 1, e) \in EventRows
    BY DEF EventRow, EventRows, Contents, TaskRows
<1> QED
    BY <1>1, <1>2 DEF Append1, TypeOK

\* Two appends keep the types, and change one row.
LEMMA Append2Type ==
    ASSUME TypeOK, NEW t \in Tasks, NEW row \in TaskRows,
           NEW e \in Contents, NEW f \in Contents, Append2(t, row, e, f)
    PROVE  /\ tasks' \in [Tasks -> TaskRows]
           /\ events' \in [Tasks -> SUBSET EventRows]
           /\ tasks'[t] = [row EXCEPT !.latest = @ + 2]
           /\ \A u \in Tasks \ {t} : tasks'[u] = tasks[u]
<1>1. [row EXCEPT !.latest = @ + 2] \in TaskRows
    BY DEF TaskRows
<1>2. /\ EventRow(row.latest + 1, e) \in EventRows
      /\ EventRow(row.latest + 2, f) \in EventRows
    BY DEF EventRow, EventRows, Contents, TaskRows
<1> QED
    BY <1>1, <1>2 DEF Append2, TypeOK

\* What the actions append is an event of the log.
LEMMA ContentsType ==
    /\ \A s \in Statuses : StatusChanged(s) \in Contents
    /\ \A kind \in Kinds, k \in Nat : About(kind, k) \in Contents
    /\ Says("task.created", "created", 0) \in Contents
BY DEF StatusChanged, About, Says, Contents, Kinds, Statuses

\* The row a transition would write is one.
LEMMA CandidateType ==
    ASSUME TypeOK, NEW t \in Tasks, NEW s \in Statuses, NEW c \in Codes
    PROVE  /\ Candidate(t, s, c) \in TaskRows
           /\ Candidate(t, s, c).status = s
           /\ Candidate(t, s, c).version = item[t].version + 1
           /\ Candidate(t, s, c).latest = tasks[t].latest
           /\ Candidate(t, s, c).code = c
<1>1. PICK row \in TaskRows : row = item[t]
    BY DEF TypeOK
<1>2. PICK now \in TaskRows : now = tasks[t]
    BY DEF TypeOK
<1>3. row.version + 1 \in Nat /\ now.latest \in Nat
    BY DEF TaskRows
<1>4. Candidate(t, s, c) = [row EXCEPT !.status = s, !.version = row.version + 1,
                                       !.latest = now.latest, !.code = c]
    BY <1>1, <1>2 DEF Candidate
<1>5. Candidate(t, s, c) = [status |-> s, version |-> row.version + 1,
                            latest |-> now.latest, code |-> c]
    BY <1>4 DEF TaskRows
<1> QED
    BY <1>1, <1>2, <1>3, <1>5 DEF TaskRows

-----------------------------------------------------------------------------
(* The steps on behalf of one task *)

\* The shape of the actions: an append always continues the row as it is.
LEMMA TypeTransition ==
    ASSUME TypeOK, CursorOK, NEW t \in Tasks, NEW at, NEW to \in Statuses, NEW then \in Steps,
           Transition(t, at, to, then), at \notin CursorSteps, then \notin CursorSteps, at # "none",
           then \in EarlySteps => at \in EarlySteps
    PROVE  TypeOK' /\ CursorOK'
<1>1. /\ Candidate(t, to, item[t].code) \in TaskRows
      /\ Candidate(t, to, item[t].code).status = to
    BY CandidateType DEF TypeOK, TaskRows
<1>2. /\ tasks' \in [Tasks -> TaskRows]
      /\ events' \in [Tasks -> SUBSET EventRows]
      /\ tasks'[t] = [Candidate(t, to, item[t].code) EXCEPT !.latest = @ + 1]
      /\ \A u \in Tasks \ {t} : tasks'[u] = tasks[u]
    BY <1>1, ContentsType, Append1Type DEF Transition
<1>3. tasks'[t].status = to /\ to # "absent"
    BY <1>1, <1>2 DEF TaskRows, Statuses
<1>4. TypeOK'
    BY <1>2 DEF TypeOK, Transition, bounds
<1>5. CursorOK'
    BY <1>2, <1>3 DEF TypeOK, CursorOK, Transition, Exists
<1> QED
    BY <1>4, <1>5

\* Plain events (emit) keep the types.
LEMMA TypeEmit ==
    ASSUME TypeOK, CursorOK, NEW t \in Tasks, NEW at, NEW kind \in Kinds, NEW then \in Steps,
           Emit(t, at, kind, then), at \notin CursorSteps, at # "none",
           then \in EarlySteps => at \in EarlySteps,
           then \in CursorSteps => at \in EarlySteps /\ Views[t] # 0
    PROVE  TypeOK' /\ CursorOK'
<1>1. tasks[t] \in TaskRows /\ About(kind, 0) \in Contents
    BY ContentsType DEF TypeOK
<1>2. /\ tasks' \in [Tasks -> TaskRows]
      /\ events' \in [Tasks -> SUBSET EventRows]
      /\ tasks'[t] = [tasks[t] EXCEPT !.latest = @ + 1]
      /\ \A u \in Tasks \ {t} : tasks'[u] = tasks[u]
    BY <1>1, Append1Type DEF Emit
<1>3. tasks'[t].status = tasks[t].status /\ Exists(t)
    BY <1>1, <1>2 DEF TaskRows, Emit, CursorOK
<1>4. TypeOK'
    BY <1>2 DEF TypeOK, Emit, bounds
<1>5. 1 \in 1..Views[t] \/ Views[t] = 0
    BY WorkflowAssumption
<1>6. CursorOK'
    BY <1>2, <1>3, <1>5 DEF TypeOK, CursorOK, Emit, Exists
<1> QED
    BY <1>4, <1>6

\* A view the cursor is at is one of the registry.
LEMMA CursorInCalls ==
    ASSUME CursorOK, NEW t \in Tasks, pc[t] \in CursorSteps
    PROVE  cursor[t] \in Calls /\ cursor[t] \in Nat /\ cursor[t] <= Views[t]
BY WorkflowAssumption DEF CursorOK, Calls

\* Until the last view is done there is a next one.
LEMMA NextViewExists ==
    ASSUME NEW t \in Tasks, cursor[t] \in Calls, ~LastView(t)
    PROVE  cursor[t] + 1 \in 1..Views[t]
BY WorkflowAssumption DEF Calls, LastView

\* Steps of one task that append one event and keep the rest of the row.
LEMMA AppendKeepsRow ==
    ASSUME TypeOK, CursorOK, NEW t \in Tasks, NEW kind \in Kinds, NEW k \in Nat,
           pc[t] # "none", Append1(t, tasks[t], About(kind, k))
    PROVE  /\ tasks' \in [Tasks -> TaskRows]
           /\ events' \in [Tasks -> SUBSET EventRows]
           /\ \A u \in Tasks : Exists(u)' = Exists(u)
           /\ \A u \in Tasks : ~Exists(u) => tasks'[u] = tasks[u]
<1>1. tasks[t] \in TaskRows /\ About(kind, k) \in Contents
    BY ContentsType DEF TypeOK
<1>2. /\ tasks' \in [Tasks -> TaskRows]
      /\ events' \in [Tasks -> SUBSET EventRows]
      /\ tasks'[t] = [tasks[t] EXCEPT !.latest = @ + 1]
      /\ \A u \in Tasks \ {t} : tasks'[u] = tasks[u]
    BY <1>1, Append1Type
<1>3. tasks'[t].status = tasks[t].status /\ Exists(t)
    BY <1>1, <1>2 DEF TaskRows, CursorOK
<1> QED
    BY <1>2, <1>3 DEF Exists

\* The writes of the sink keep the types.
LEMMA TypeTools ==
    ASSUME TypeOK, CursorOK, NEW t \in Tasks,
           \/ StartTool(t) \/ EndTool(t) \/ \E k \in Calls : CloseTool(t, k)
    PROVE  TypeOK' /\ CursorOK'
<1>1. CASE StartTool(t)
    <2>1. cursor[t] \in Calls /\ cursor[t] \in Nat /\ cursor[t] <= Views[t]
        BY <1>1, CursorInCalls DEF StartTool, CursorSteps
    <2>2. /\ tasks' \in [Tasks -> TaskRows]
          /\ events' \in [Tasks -> SUBSET EventRows]
          /\ \A u \in Tasks : Exists(u)' = Exists(u)
          /\ \A u \in Tasks : ~Exists(u) => tasks'[u] = tasks[u]
        BY <1>1, <2>1, AppendKeepsRow DEF StartTool, Kinds
    <2>3. TypeOK'
        BY <1>1, <2>1, <2>2 DEF TypeOK, StartTool, Steps, RunSteps, TransitionSteps, bounds
    <2>4. CursorOK'
        BY <1>1, <2>1, <2>2 DEF TypeOK, CursorOK, StartTool, EarlySteps, CursorSteps
    <2> QED
        BY <2>3, <2>4
<1>2. CASE EndTool(t)
    <2>1. cursor[t] \in Calls /\ cursor[t] \in Nat /\ cursor[t] <= Views[t]
        BY <1>2, CursorInCalls DEF EndTool, CursorSteps
    <2>2. /\ tasks' \in [Tasks -> TaskRows]
          /\ events' \in [Tasks -> SUBSET EventRows]
          /\ \A u \in Tasks : Exists(u)' = Exists(u)
          /\ \A u \in Tasks : ~Exists(u) => tasks'[u] = tasks[u]
        BY <1>2, <2>1, AppendKeepsRow DEF EndTool, Kinds
    <2>3. cursor[t] + 1 \in Nat \ {0}
        BY <2>1
    <2>4. AfterTool(t) \in {"validating", "tool_start"} /\ (AfterTool(t) = "tool_start" => cursor[t] + 1 \in 1..Views[t])
        BY <2>1, NextViewExists DEF AfterTool
    <2>5. TypeOK'
        BY <1>2, <2>1, <2>2, <2>3, <2>4
        DEF TypeOK, EndTool, Steps, RunSteps, TransitionSteps, bounds
    <2>6. CursorOK'
        BY <1>2, <2>1, <2>2, <2>3, <2>4 DEF TypeOK, CursorOK, EndTool, EarlySteps, CursorSteps
    <2> QED
        BY <2>5, <2>6
<1>3. ASSUME NEW k \in Calls, CloseTool(t, k)
      PROVE  TypeOK' /\ CursorOK'
    <2>1. /\ tasks' \in [Tasks -> TaskRows]
          /\ events' \in [Tasks -> SUBSET EventRows]
          /\ \A u \in Tasks : Exists(u)' = Exists(u)
          /\ \A u \in Tasks : ~Exists(u) => tasks'[u] = tasks[u]
        BY <1>3, AppendKeepsRow DEF CloseTool, Kinds, Calls
    <2>2. TypeOK'
        BY <1>3, <2>1 DEF TypeOK, CloseTool, bounds
    <2>3. CursorOK'
        BY <1>3, <2>1 DEF TypeOK, CursorOK, CloseTool
    <2> QED
        BY <2>2, <2>3
<1> QED
    BY <1>1, <1>2, <1>3

\* The writes of persistResult keep the types.
LEMMA TypeResult ==
    ASSUME TypeOK, CursorOK, NEW t \in Tasks,
           PersistReply(t) \/ ProposeChart(t) \/ PersistExecution(t)
    PROVE  TypeOK' /\ CursorOK'
<1>1. CASE PersistReply(t)
    <2>1. /\ tasks' \in [Tasks -> TaskRows]
          /\ events' \in [Tasks -> SUBSET EventRows]
          /\ \A u \in Tasks : Exists(u)' = Exists(u)
          /\ \A u \in Tasks : ~Exists(u) => tasks'[u] = tasks[u]
        BY <1>1, AppendKeepsRow DEF PersistReply, Kinds
    <2>2. AfterReply(t) \in {"complete", "chart"} /\ (AfterReply(t) = "chart" => 1 \in 1..Views[t])
        BY WorkflowAssumption DEF AfterReply
    <2>3. AfterReply(t) \in Steps
        BY <2>2 DEF Steps, RunSteps, TransitionSteps
    <2>4. reply' \in [Tasks -> BOOLEAN]
        BY <1>1 DEF TypeOK, PersistReply
    <2>5. TypeOK'
        BY <1>1, <2>1, <2>3, <2>4 DEF TypeOK, PersistReply, bounds
    <2>6. CursorOK'
        BY <1>1, <2>1, <2>2 DEF TypeOK, CursorOK, PersistReply, EarlySteps, CursorSteps
    <2> QED
        BY <2>5, <2>6
<1>2. CASE ProposeChart(t)
    <2>1. cursor[t] \in Calls /\ cursor[t] \in Nat /\ cursor[t] <= Views[t]
        BY <1>2, CursorInCalls DEF ProposeChart, CursorSteps
    <2>2. /\ tasks' \in [Tasks -> TaskRows]
          /\ events' \in [Tasks -> SUBSET EventRows]
          /\ \A u \in Tasks : Exists(u)' = Exists(u)
          /\ \A u \in Tasks : ~Exists(u) => tasks'[u] = tasks[u]
        BY <1>2, <2>1, AppendKeepsRow DEF ProposeChart, Kinds
    <2>3. TypeOK'
        BY <1>2, <2>1, <2>2 DEF TypeOK, ProposeChart, Steps, RunSteps, TransitionSteps, bounds
    <2>4. CursorOK'
        BY <1>2, <2>1, <2>2 DEF TypeOK, CursorOK, ProposeChart, EarlySteps, CursorSteps
    <2> QED
        BY <2>3, <2>4
<1>3. CASE PersistExecution(t)
    <2>1. cursor[t] \in Calls /\ cursor[t] \in Nat /\ cursor[t] <= Views[t]
        BY <1>3, CursorInCalls DEF PersistExecution, CursorSteps
    <2>2. /\ tasks' \in [Tasks -> TaskRows]
          /\ events' \in [Tasks -> SUBSET EventRows]
          /\ \A u \in Tasks : Exists(u)' = Exists(u)
          /\ \A u \in Tasks : ~Exists(u) => tasks'[u] = tasks[u]
        BY <1>3, <2>1, AppendKeepsRow DEF PersistExecution, Kinds
    <2>3. cursor[t] + 1 \in Nat \ {0}
        BY <2>1
    <2>4. AfterChart(t) \in {"complete", "chart"} /\ (AfterChart(t) = "chart" => cursor[t] + 1 \in 1..Views[t])
        BY <2>1, NextViewExists DEF AfterChart
    <2>5. TypeOK'
        BY <1>3, <2>1, <2>2, <2>3, <2>4
        DEF TypeOK, PersistExecution, Steps, RunSteps, TransitionSteps, bounds
    <2>6. CursorOK'
        BY <1>3, <2>1, <2>2, <2>3, <2>4 DEF TypeOK, CursorOK, PersistExecution, EarlySteps, CursorSteps
    <2> QED
        BY <2>5, <2>6
<1> QED
    BY <1>1, <1>2, <1>3

\* Accepting a task keeps the types.
LEMMA TypeCreate ==
    ASSUME TypeOK, CursorOK, NEW t \in Tasks, Create(t)
    PROVE  TypeOK' /\ CursorOK'
<1>1. FirstRow \in TaskRows /\ FirstRow.status = "created"
    BY DEF FirstRow, TaskRows, Statuses, Codes
<1>2. /\ tasks' \in [Tasks -> TaskRows]
      /\ events' \in [Tasks -> SUBSET EventRows]
      /\ tasks'[t] = [FirstRow EXCEPT !.latest = @ + 1]
      /\ \A u \in Tasks \ {t} : tasks'[u] = tasks[u]
    BY <1>1, ContentsType, Append1Type DEF Create
<1>3. tasks'[t].status = "created"
    BY <1>1, <1>2 DEF TaskRows
<1>4. TypeOK'
    BY <1>2 DEF TypeOK, Create, Steps, bounds
<1>5. /\ pc' = [pc EXCEPT ![t] = "queued"] /\ ~Exists(t)
      /\ UNCHANGED <<tools, charts, reply, cursor>>
    BY DEF Create
<1>6. ASSUME NEW u \in Tasks
      PROVE  /\ ~Exists(u)' => pc'[u] = "none" /\ cursor'[u] = 1 /\ tasks'[u] = NoRow
             /\ pc'[u] \in EarlySteps => cursor'[u] = 1
             /\ pc'[u] \in CursorSteps => cursor'[u] \in 1..Views[u]
    <2>1. CASE u = t
        <3>1. Exists(u)' /\ cursor'[u] = 1 /\ pc'[u] = "queued"
            BY <1>3, <1>5, <2>1 DEF TypeOK, CursorOK, Exists
        <3> QED
            BY <3>1 DEF CursorSteps
    <2>2. CASE u # t
        BY <1>2, <1>5, <2>2 DEF TypeOK, CursorOK, Exists
    <2> QED
        BY <2>1, <2>2
<1>7. CursorOK'
    BY <1>6 DEF CursorOK
<1> QED
    BY <1>4, <1>7

\* fail keeps the types.
LEMMA TypeMarkFailed ==
    ASSUME TypeOK, CursorOK, NEW t \in Tasks, MarkFailed(t)
    PROVE  TypeOK' /\ CursorOK'
<1>1. /\ Candidate(t, "failed", err[t]) \in TaskRows
      /\ Candidate(t, "failed", err[t]).status = "failed"
    BY CandidateType DEF TypeOK, Statuses
<1>2. /\ tasks' \in [Tasks -> TaskRows]
      /\ events' \in [Tasks -> SUBSET EventRows]
      /\ tasks'[t] = [Candidate(t, "failed", err[t]) EXCEPT !.latest = @ + 2]
      /\ \A u \in Tasks \ {t} : tasks'[u] = tasks[u]
    BY <1>1, ContentsType, Append2Type DEF MarkFailed, Kinds, Statuses
<1>3. tasks'[t].status = "failed"
    BY <1>1, <1>2 DEF TaskRows
<1>4. TypeOK'
    BY <1>2 DEF TypeOK, MarkFailed, Steps, bounds
<1>5. CursorOK'
    BY <1>2, <1>3 DEF TypeOK, CursorOK, MarkFailed, Exists, EarlySteps, CursorSteps
<1> QED
    BY <1>4, <1>5

\* The steps that write no row: they move a goroutine, or the process.
LEMMA TypeMemory ==
    ASSUME TypeOK, CursorOK, NEW t \in Tasks,
           \/ Acquire(t) \/ Load(t) \/ LoadFails(t) \/ QueryAnswers(t) \/ QueryFails(t)
           \/ OperationFails(t) \/ NothingToFail(t) \/ CleanupFails(t)
    PROVE  TypeOK' /\ CursorOK'
<1> USE DEF TypeOK, CursorOK, EarlySteps, CursorSteps, Exists, durable, bounds
<1>1. CASE Acquire(t)
    BY <1>1 DEF Acquire, Steps
<1>2. CASE Load(t)
    <2>1. AfterLoad(t) \in {"planning", "none"}
        BY DEF AfterLoad
    <2> QED
        BY <1>2, <2>1 DEF Load, Steps, RunSteps, TransitionSteps
<1>3. CASE LoadFails(t)
    BY <1>3, WorkflowAssumption DEF LoadFails, Steps
<1>4. CASE QueryAnswers(t)
    BY <1>4 DEF QueryAnswers, Steps, RunSteps
<1>5. CASE QueryFails(t)
    BY <1>5 DEF QueryFails, Steps, CleanupSteps, Codes
<1>6. CASE OperationFails(t)
    BY <1>6 DEF OperationFails, Steps, CleanupSteps, RunSteps, TransitionSteps, Codes
<1>7. CASE NothingToFail(t)
    BY <1>7 DEF NothingToFail, FailIsNext, Steps
<1>8. CASE CleanupFails(t)
    <2>1. AfterCleanupError(t) \in {"none", "mark_failed"}
        BY DEF AfterCleanupError
    <2> QED
        BY <1>8, <2>1, WorkflowAssumption DEF CleanupFails, Steps, CleanupSteps
<1> QED
    BY <1>1, <1>2, <1>3, <1>4, <1>5, <1>6, <1>7, <1>8

\* The process as a whole: death, restart, recovery, service.
LEMMA TypeProcess ==
    ASSUME TypeOK, CursorOK, Crash \/ Restart \/ RecoveryFails \/ Serve
    PROVE  TypeOK' /\ CursorOK'
<1> USE DEF TypeOK, CursorOK, EarlySteps, CursorSteps, Exists, durable, bounds
<1>1. NoRow \in TaskRows
    BY DEF NoRow, TaskRows, Codes
<1>2. CASE Crash
    BY <1>1, <1>2, WorkflowAssumption DEF Crash, ProcessGone, Steps, Codes
<1>3. CASE Restart
    BY <1>1, <1>3 DEF Restart, Interrupted, Active, Steps, CleanupSteps, Codes
<1>4. CASE RecoveryFails
    BY <1>1, <1>4, WorkflowAssumption DEF RecoveryFails, ProcessGone, Steps, Codes
<1>5. CASE Serve
    BY <1>5 DEF Serve
<1> QED
    BY <1>2, <1>3, <1>4, <1>5

\* The empty database is well typed.
LEMMA TypeInit == Init => TypeOK /\ CursorOK
BY WorkflowAssumption
DEF Init, TypeOK, CursorOK, NoRow, TaskRows, EventRows, Steps, Codes, Exists,
    EarlySteps, CursorSteps

\* Every step keeps the types.
LEMMA TypeStep == TypeOK /\ CursorOK /\ [Next]_vars => TypeOK' /\ CursorOK'
<1> SUFFICES ASSUME TypeOK, CursorOK, [Next]_vars
             PROVE  TypeOK' /\ CursorOK'
    OBVIOUS
<1>1. CASE UNCHANGED vars
    BY <1>1 DEF vars, TypeOK, CursorOK, Exists
<1>2. ASSUME NEW t \in Tasks, Create(t)
      PROVE  TypeOK' /\ CursorOK'
    BY <1>2, TypeCreate
<1>3. ASSUME NEW t \in Tasks, Acquire(t)
      PROVE  TypeOK' /\ CursorOK'
    BY <1>3, TypeMemory
<1>4. ASSUME NEW t \in Tasks, Work(t)
      PROVE  TypeOK' /\ CursorOK'
    <2>1. CASE StartPlanning(t) \/ StartTools(t) \/ StartValidating(t) \/ Complete(t)
        BY <2>1, TypeTransition
        DEF StartPlanning, StartTools, StartValidating, Complete, Statuses, Steps, RunSteps,
            TransitionSteps, EarlySteps, CursorSteps
    <2>2. CASE Greet(t) \/ Delta(t) \/ Announce(t)
        BY <2>2, TypeEmit
        DEF Greet, Delta, Announce, Kinds, Steps, RunSteps, TransitionSteps, EarlySteps, CursorSteps
    <2>3. CASE StartTool(t) \/ EndTool(t) \/ \E k \in Calls : CloseTool(t, k)
        BY <2>3, TypeTools
    <2>4. CASE PersistReply(t) \/ ProposeChart(t) \/ PersistExecution(t)
        BY <2>4, TypeResult
    <2>5. CASE MarkFailed(t)
        BY <2>5, TypeMarkFailed
    <2>6. CASE \/ Load(t) \/ LoadFails(t) \/ QueryAnswers(t) \/ QueryFails(t)
               \/ OperationFails(t) \/ NothingToFail(t) \/ CleanupFails(t)
        BY <2>6, TypeMemory
    <2> QED
        BY <1>4, <2>1, <2>2, <2>3, <2>4, <2>5, <2>6 DEF Work
<1>5. CASE Crash \/ Restart \/ RecoveryFails \/ Serve
    BY <1>5, TypeProcess
<1> QED
    BY <1>1, <1>2, <1>3, <1>4, <1>5 DEF Next

\* Every variable keeps its type, and views are only looked up where they exist.
THEOREM TypeCorrect == Spec => [](TypeOK /\ CursorOK)
<1>1. Init => TypeOK /\ CursorOK
    BY TypeInit
<1>2. TypeOK /\ CursorOK /\ [Next]_vars => TypeOK' /\ CursorOK'
    BY TypeStep
<1> QED
    BY <1>1, <1>2, PTL DEF Spec

-----------------------------------------------------------------------------
(* The event log *)

\* All that ever happens to rows and logs: an append of one event or two that
\* continues the sequence of the row as it is in the database.
LogStep ==
    \/ UNCHANGED <<tasks, events>>
    \/ \E t \in Tasks, row \in TaskRows, e \in Contents :
          row.latest = tasks[t].latest /\ Append1(t, row, e)
    \/ \E t \in Tasks, row \in TaskRows, e \in Contents, f \in Contents :
          row.latest = tasks[t].latest /\ Append2(t, row, e, f)

\* To the log, every step is one append, two, or none.
LEMMA EveryStepIsALogStep ==
    ASSUME TypeOK, CursorOK, [Next]_vars
    PROVE  LogStep
<1>1. CASE UNCHANGED vars
    BY <1>1 DEF vars, LogStep
<1>2. ASSUME NEW t \in Tasks, Create(t)
      PROVE  LogStep
    <2>1. FirstRow \in TaskRows /\ FirstRow.latest = 0 /\ tasks[t].latest = 0
        BY <1>2 DEF FirstRow, NoRow, TaskRows, Statuses, Codes, Create, CursorOK
    <2>2. Append1(t, FirstRow, Says("task.created", "created", 0))
        BY <1>2 DEF Create
    <2> QED
        BY <2>1, <2>2, ContentsType DEF LogStep
<1>3. ASSUME NEW t \in Tasks, Work(t)
      PROVE  LogStep
    <2>1. tasks[t] \in TaskRows
        BY DEF TypeOK
    <2>2. ASSUME NEW at, NEW to \in Statuses, NEW then, Transition(t, at, to, then)
          PROVE  LogStep
        <3>1. /\ Candidate(t, to, item[t].code) \in TaskRows
              /\ Candidate(t, to, item[t].code).latest = tasks[t].latest
            BY CandidateType DEF TypeOK, TaskRows
        <3> QED
            BY <2>2, <3>1, ContentsType DEF Transition, LogStep
    <2>3. CASE StartPlanning(t) \/ StartTools(t) \/ StartValidating(t) \/ Complete(t)
        BY <2>2, <2>3 DEF StartPlanning, StartTools, StartValidating, Complete, Statuses
    <2>4. ASSUME NEW kind \in Kinds, NEW k \in Nat, Append1(t, tasks[t], About(kind, k))
          PROVE  LogStep
        BY <2>1, <2>4, ContentsType DEF LogStep
    <2>5. CASE Greet(t) \/ Delta(t) \/ Announce(t) \/ PersistReply(t)
        BY <2>4, <2>5 DEF Greet, Delta, Announce, PersistReply, Emit, Kinds
    <2>6. CASE StartTool(t) \/ EndTool(t) \/ ProposeChart(t) \/ PersistExecution(t)
        <3>1. cursor[t] \in Nat
            BY DEF TypeOK
        <3> QED
            BY <2>4, <2>6, <3>1 DEF StartTool, EndTool, ProposeChart, PersistExecution, Kinds
    <2>7. CASE \E k \in Calls : CloseTool(t, k)
        BY <2>4, <2>7 DEF CloseTool, Kinds, Calls
    <2>8. CASE MarkFailed(t)
        <3>1. /\ Candidate(t, "failed", err[t]) \in TaskRows
              /\ Candidate(t, "failed", err[t]).latest = tasks[t].latest
            BY CandidateType DEF TypeOK, Statuses
        <3>2. Append2(t, Candidate(t, "failed", err[t]), StatusChanged("failed"),
                      About("task.failed", 0))
            BY <2>8 DEF MarkFailed
        <3> QED
            BY <3>1, <3>2, ContentsType DEF LogStep, Statuses, Kinds
    <2>9. CASE \/ Load(t) \/ LoadFails(t) \/ QueryAnswers(t) \/ QueryFails(t)
               \/ OperationFails(t) \/ NothingToFail(t) \/ CleanupFails(t)
        BY <2>9
        DEF Load, LoadFails, QueryAnswers, QueryFails, OperationFails, NothingToFail,
            CleanupFails, durable, LogStep
    <2> QED
        BY <1>3, <2>3, <2>5, <2>6, <2>7, <2>8, <2>9 DEF Work
<1>4. CASE (\E t \in Tasks : Acquire(t)) \/ Crash \/ Restart \/ RecoveryFails \/ Serve
    BY <1>4 DEF Acquire, Crash, Restart, RecoveryFails, Serve, durable, LogStep
<1> QED
    BY <1>1, <1>2, <1>3, <1>4 DEF Next

\* One append keeps the sequences 1..latest.
LEMMA GaplessAppend1 ==
    ASSUME TypeOK, LogGapless, NEW t \in Tasks, NEW row \in TaskRows, NEW e \in Contents,
           row.latest = tasks[t].latest, Append1(t, row, e)
    PROVE  LogGapless'
<1> DEFINE n == tasks[t].latest
           new == EventRow(n + 1, e)
<1>1. n \in Nat /\ new.seq = n + 1
    BY DEF TypeOK, TaskRows, EventRow
<1>2. tasks'[t].latest = n + 1
    BY DEF Append1, TypeOK, TaskRows
<1>3. events'[t] = events[t] \cup {new}
    BY DEF Append1, TypeOK
<1>4. \A u \in Tasks \ {t} : tasks'[u] = tasks[u] /\ events'[u] = events[u]
    BY DEF Append1, TypeOK
<1>5. {g.seq : g \in events'[t]} = 1..(n + 1)
    <2>1. {g.seq : g \in events[t]} = 1..n
        BY DEF LogGapless
    <2> QED
        BY <1>1, <1>3, <2>1
<1>6. \A g, h \in events'[t] : g.seq = h.seq => g = h
    BY <1>3, <1>1 DEF LogGapless, Append1, Unused
<1> QED
    BY <1>2, <1>4, <1>5, <1>6 DEF LogGapless

\* Two appends keep the sequences 1..latest.
LEMMA GaplessAppend2 ==
    ASSUME TypeOK, LogGapless, NEW t \in Tasks, NEW row \in TaskRows,
           NEW e \in Contents, NEW f \in Contents,
           row.latest = tasks[t].latest, Append2(t, row, e, f)
    PROVE  LogGapless'
<1> DEFINE n == tasks[t].latest
           new1 == EventRow(n + 1, e)
           new2 == EventRow(n + 2, f)
<1>1. n \in Nat /\ new1.seq = n + 1 /\ new2.seq = n + 2
    BY DEF TypeOK, TaskRows, EventRow
<1>2. tasks'[t].latest = n + 2
    BY DEF Append2, TypeOK, TaskRows
<1>3. events'[t] = events[t] \cup {new1, new2}
    BY DEF Append2, TypeOK
<1>4. \A u \in Tasks \ {t} : tasks'[u] = tasks[u] /\ events'[u] = events[u]
    BY DEF Append2, TypeOK
<1>5. {g.seq : g \in events'[t]} = 1..(n + 2)
    <2>1. {g.seq : g \in events[t]} = 1..n
        BY DEF LogGapless
    <2> QED
        BY <1>1, <1>3, <2>1
<1>6. \A g, h \in events'[t] : g.seq = h.seq => g = h
    BY <1>3, <1>1 DEF LogGapless, Append2, Unused
<1> QED
    BY <1>2, <1>4, <1>5, <1>6 DEF LogGapless

\* The sequences of every task are 1..latest_sequence, each used once: appends
\* of the runtime, of clean-ups and of recoveries never leave a gap.
THEOREM LogIsGapless == Spec => []LogGapless
<1>1. Init => LogGapless
    BY DEF Init, NoRow, LogGapless
<1>2. TypeOK /\ CursorOK /\ LogGapless /\ [Next]_vars => LogGapless'
    <2> SUFFICES ASSUME TypeOK, CursorOK, LogGapless, [Next]_vars
                 PROVE  LogGapless'
        OBVIOUS
    <2>1. CASE UNCHANGED <<tasks, events>>
        BY <2>1 DEF LogGapless
    <2> QED
        BY <2>1, EveryStepIsALogStep, GaplessAppend1, GaplessAppend2 DEF LogStep
<1> QED
    BY <1>1, <1>2, TypeCorrect, PTL DEF Spec

-----------------------------------------------------------------------------
(* The memory of the process and the database *)

Started(t) == {k \in Calls : tools[t][k] = "started"}

\* What the process remembers of t agrees with SQLite, from the moment it read
\* the row; until then no call of t was ever started.
Matches(t) ==
    /\ (~Exists(t) \/ pc[t] \in {"queued", "load"}) =>
          open[t] = {} /\ \A k \in Calls : tools[t][k] = "none"
    /\ pc[t] \in RunSteps \cup CleanupSteps =>
          /\ item[t].status = tasks[t].status
          /\ item[t].version = tasks[t].version
          /\ open[t] = Started(t)

MemoryMatches == \A t \in Tasks : Matches(t)

\* A step for t leaves the other tasks alone.
Others(t) ==
    \A u \in Tasks \ {t} :
        /\ tasks'[u] = tasks[u] /\ pc'[u] = pc[u] /\ item'[u] = item[u]
        /\ open'[u] = open[u] /\ tools'[u] = tools[u]

\* A step that leaves u alone keeps what is remembered of u.
LEMMA MatchesOthers ==
    ASSUME MemoryMatches, NEW t \in Tasks, Others(t), Matches(t)'
    PROVE  MemoryMatches'
BY DEF MemoryMatches, Matches, Others, Exists, Started

\* An append without another change of the row keeps status and version.
LEMMA AppendKeepsStatus ==
    ASSUME TypeOK, NEW t \in Tasks, NEW e, Append1(t, tasks[t], e)
    PROVE  /\ tasks'[t].status = tasks[t].status
           /\ tasks'[t].version = tasks[t].version
           /\ tasks'[t].code = tasks[t].code
           /\ \A u \in Tasks \ {t} : tasks'[u] = tasks[u]
BY DEF Append1, TypeOK, TaskRows

\* An append to t leaves the other tasks alone.
LEMMA AppendKeepsOthers ==
    ASSUME TypeOK, NEW t \in Tasks, NEW row, NEW e, NEW f,
           Append1(t, row, e) \/ Append2(t, row, e, f)
    PROVE  \A u \in Tasks \ {t} : tasks'[u] = tasks[u]
BY DEF Append1, Append2, TypeOK

\* What is done for t keeps memory and rows of t equal.
LEMMA MatchesStep ==
    ASSUME TypeOK, CursorOK, MemoryMatches, NEW t \in Tasks, Work(t)
    PROVE  MemoryMatches'
<1> USE DEF RunSteps, TransitionSteps, CleanupSteps
<1>1. ASSUME NEW at \in RunSteps, NEW to \in Statuses, NEW then \in RunSteps,
             Transition(t, at, to, then)
      PROVE  MemoryMatches'
    <2>1. Others(t)
        BY <1>1, AppendKeepsOthers DEF Others, Transition, TypeOK
    <2>2. Exists(t)' /\ item'[t] = tasks'[t]
        <3>1. /\ Candidate(t, to, item[t].code) \in TaskRows
              /\ Candidate(t, to, item[t].code).status = to
            BY CandidateType DEF TypeOK, TaskRows
        <3> QED
            BY <1>1, <3>1 DEF Transition, Append1, TypeOK, TaskRows, Exists, Statuses
    <2>3. Matches(t)'
        BY <1>1, <2>2 DEF Transition, MemoryMatches, Matches, Started, TypeOK
    <2> QED
        BY <2>1, <2>3, MatchesOthers
<1>2. CASE StartPlanning(t) \/ StartTools(t) \/ StartValidating(t) \/ Complete(t)
    BY <1>1, <1>2 DEF StartPlanning, StartTools, StartValidating, Complete, Statuses
<1>3. ASSUME NEW at \in RunSteps, NEW kind, NEW then \in RunSteps \cup {"none"},
             Emit(t, at, kind, then)
      PROVE  MemoryMatches'
    <2>1. /\ Others(t)
          /\ tasks'[t].status = tasks[t].status
          /\ tasks'[t].version = tasks[t].version
        BY <1>3, AppendKeepsStatus DEF Others, Emit, TypeOK
    <2>2. Matches(t)'
        BY <1>3, <2>1 DEF Emit, MemoryMatches, Matches, Started, Exists, TypeOK
    <2> QED
        BY <2>1, <2>2, MatchesOthers
<1>4. CASE Greet(t) \/ Delta(t) \/ Announce(t)
    BY <1>3, <1>4 DEF Greet, Delta, Announce
<1>5. CASE StartTool(t) \/ EndTool(t)
    <2>1. cursor[t] \in Calls
        BY <1>5, CursorInCalls DEF StartTool, EndTool, CursorSteps
    <2>2. /\ Others(t)
          /\ tasks'[t].status = tasks[t].status
          /\ tasks'[t].version = tasks[t].version
        BY <1>5, AppendKeepsStatus DEF Others, StartTool, EndTool, TypeOK
    <2>3. pc[t] \in RunSteps /\ Exists(t)
        BY <1>5 DEF StartTool, EndTool, CursorOK
    <2>4. open'[t] = Started(t)'
        BY <1>5, <2>1, <2>3 DEF StartTool, EndTool, MemoryMatches, Matches, Started, TypeOK
    <2>5. pc'[t] \in RunSteps /\ pc'[t] \notin {"queued", "load"}
        BY <1>5 DEF StartTool, EndTool, AfterTool, TypeOK
    <2>6. Matches(t)'
        BY <1>5, <2>2, <2>3, <2>4, <2>5 DEF StartTool, EndTool, MemoryMatches, Matches, Exists
    <2> QED
        BY <2>2, <2>6, MatchesOthers
<1>6. ASSUME NEW k \in Calls, CloseTool(t, k)
      PROVE  MemoryMatches'
    <2>1. /\ Others(t)
          /\ tasks'[t].status = tasks[t].status
          /\ tasks'[t].version = tasks[t].version
        BY <1>6, AppendKeepsStatus DEF Others, CloseTool, TypeOK
    <2>2. Exists(t)
        BY <1>6 DEF CloseTool, CursorOK
    <2>3. open'[t] = Started(t)'
        BY <1>6 DEF CloseTool, MemoryMatches, Matches, Started, TypeOK
    <2>4. Matches(t)'
        BY <1>6, <2>1, <2>2, <2>3 DEF CloseTool, MemoryMatches, Matches, Exists
    <2> QED
        BY <2>1, <2>4, MatchesOthers
<1>7. CASE PersistReply(t) \/ ProposeChart(t) \/ PersistExecution(t)
    <2>1. /\ Others(t)
          /\ tasks'[t].status = tasks[t].status
          /\ tasks'[t].version = tasks[t].version
        BY <1>7, AppendKeepsStatus
        DEF Others, PersistReply, ProposeChart, PersistExecution, TypeOK
    <2>2. pc[t] \in RunSteps /\ Exists(t)
        BY <1>7 DEF PersistReply, ProposeChart, PersistExecution, CursorOK
    <2>3. pc'[t] \in RunSteps /\ pc'[t] \notin {"queued", "load"}
        BY <1>7
        DEF PersistReply, ProposeChart, PersistExecution, AfterReply, AfterChart, TypeOK
    <2>4. Matches(t)'
        BY <1>7, <2>1, <2>2, <2>3
        DEF PersistReply, ProposeChart, PersistExecution, MemoryMatches, Matches, Started, Exists
    <2> QED
        BY <2>1, <2>4, MatchesOthers
<1>8. CASE MarkFailed(t)
    <2>1. Others(t)
        BY <1>8, AppendKeepsOthers DEF Others, MarkFailed, TypeOK
    <2>2. Exists(t)' /\ pc'[t] = "none"
        <3>1. /\ Candidate(t, "failed", err[t]) \in TaskRows
              /\ Candidate(t, "failed", err[t]).status = "failed"
            BY CandidateType DEF TypeOK, Statuses
        <3> QED
            BY <1>8, <3>1 DEF MarkFailed, Append2, TypeOK, TaskRows, Exists
    <2> QED
        BY <2>1, <2>2, MatchesOthers DEF Matches
<1>9. CASE Load(t)
    <2>1. Others(t) /\ tasks' = tasks /\ item'[t] = tasks[t] /\ tools' = tools /\ open' = open
        BY <1>9 DEF Others, Load, durable, TypeOK
    <2>2. pc[t] = "load" /\ Exists(t) /\ pc'[t] \in {"planning", "none"}
        BY <1>9 DEF Load, AfterLoad, CursorOK, TypeOK
    <2>3. Started(t) = {} /\ open[t] = {}
        BY <2>2 DEF MemoryMatches, Matches, Started
    <2> QED
        BY <2>1, <2>2, <2>3, MatchesOthers DEF Matches, Started, Exists
<1>10. CASE \/ LoadFails(t) \/ QueryAnswers(t) \/ QueryFails(t)
            \/ OperationFails(t) \/ NothingToFail(t) \/ CleanupFails(t)
    <2>1. UNCHANGED <<tasks, item, tools, open>>
        BY <1>10
        DEF LoadFails, QueryAnswers, QueryFails, OperationFails, NothingToFail, CleanupFails, durable
    <2>2. Others(t) /\ Exists(t)
        BY <1>10, <2>1
        DEF LoadFails, QueryAnswers, QueryFails, OperationFails, NothingToFail, CleanupFails,
            FailIsNext, Others, TypeOK, CursorOK
    <2>3. \/ pc'[t] = "none"
          \/ pc[t] \in RunSteps \cup CleanupSteps /\ pc'[t] \in RunSteps \cup CleanupSteps
        BY <1>10
        DEF LoadFails, QueryAnswers, QueryFails, OperationFails, NothingToFail, CleanupFails,
            AfterCleanupError, TypeOK
    <2> QED
        BY <2>1, <2>2, <2>3, MatchesOthers DEF MemoryMatches, Matches, Started, Exists
<1> QED
    BY <1>2, <1>4, <1>5, <1>6, <1>7, <1>8, <1>9, <1>10 DEF Work

\* Every step keeps memory and rows equal.
LEMMA MatchesNext ==
    ASSUME TypeOK, CursorOK, MemoryMatches, [Next]_vars
    PROVE  MemoryMatches'
<1>1. CASE UNCHANGED vars
    BY <1>1 DEF vars, MemoryMatches, Matches, Started, Exists
<1>2. ASSUME NEW t \in Tasks, Create(t)
      PROVE  MemoryMatches'
    <2>1. Others(t)
        BY <1>2, AppendKeepsOthers DEF Others, Create, TypeOK
    <2>2. Matches(t)'
        BY <1>2 DEF Create, MemoryMatches, Matches, TypeOK, RunSteps, TransitionSteps, CleanupSteps
    <2> QED
        BY <2>1, <2>2, MatchesOthers
<1>3. ASSUME NEW t \in Tasks, Acquire(t)
      PROVE  MemoryMatches'
    <2>1. Others(t)
        BY <1>3 DEF Others, Acquire, durable, TypeOK
    <2>2. Matches(t)'
        BY <1>3
        DEF Acquire, durable, MemoryMatches, Matches, TypeOK, RunSteps, TransitionSteps, CleanupSteps
    <2> QED
        BY <2>1, <2>2, MatchesOthers
<1>4. ASSUME NEW t \in Tasks, Work(t)
      PROVE  MemoryMatches'
    BY <1>4, MatchesStep
<1>5. CASE Crash \/ RecoveryFails
    BY <1>5
    DEF Crash, RecoveryFails, ProcessGone, durable, MemoryMatches, Matches, Exists,
        RunSteps, TransitionSteps, CleanupSteps
<1>6. CASE Restart
    BY <1>6
    DEF Restart, Interrupted, Active, durable, MemoryMatches, Matches, Started, Exists,
        RunSteps, TransitionSteps, CleanupSteps
<1>7. CASE Serve
    BY <1>7 DEF Serve, durable, MemoryMatches, Matches, Started, Exists
<1> QED
    BY <1>1, <1>2, <1>3, <1>4, <1>5, <1>6, <1>7 DEF Next

\* What goroutines and recovery remember is always what SQLite holds.
LEMMA MemoryAlwaysMatches == Spec => []MemoryMatches
<1>1. Init => MemoryMatches
    BY DEF Init, MemoryMatches, Matches, RunSteps, TransitionSteps, CleanupSteps
<1>2. TypeOK /\ CursorOK /\ MemoryMatches /\ [Next]_vars => MemoryMatches'
    BY MatchesNext
<1> QED
    BY <1>1, <1>2, TypeCorrect, PTL DEF Spec

\* No write of the workflow, its clean-up or the recovery ever conflicts with
\* the database: the version it compares, the calls it will close and the
\* sequence it will insert under are the ones SQLite holds.
THEOREM NoConflict == Spec => []WritesNeverConflict
<1>1. TypeOK /\ MemoryMatches /\ LogGapless => WritesNeverConflict
    <2> SUFFICES ASSUME TypeOK, MemoryMatches, LogGapless,
                        NEW t \in Tasks, pc[t] \in RunSteps \cup CleanupSteps
                 PROVE  /\ item[t].status = tasks[t].status
                        /\ Current(t)
                        /\ open[t] = {k \in Calls : tools[t][k] = "started"}
                        /\ Unused(t, Candidate(t, "failed", "none").latest + 1)
        BY DEF WritesNeverConflict
    <2>1. /\ item[t].status = tasks[t].status
          /\ Current(t)
          /\ open[t] = {k \in Calls : tools[t][k] = "started"}
        BY DEF MemoryMatches, Matches, Started, Current
    <2>2. Candidate(t, "failed", "none").latest = tasks[t].latest /\ tasks[t].latest \in Nat
        BY CandidateType DEF TypeOK, TaskRows, Statuses, Codes
    <2>3. \A e \in events[t] : e.seq \in 1..tasks[t].latest
        BY DEF LogGapless
    <2>4. Unused(t, tasks[t].latest + 1)
        BY <2>2, <2>3 DEF Unused
    <2> QED
        BY <2>1, <2>2, <2>4
<1> QED
    BY <1>1, TypeCorrect, MemoryAlwaysMatches, LogIsGapless, PTL

-----------------------------------------------------------------------------
(* Where a task stands while its goroutine is at a step *)

\* The status of the row at each step of a goroutine.
StatusAt(step) ==
    CASE step \in {"queued", "load", "planning"} -> "created"
      [] step = "running_tools" -> "planning"
      [] step \in {"greet", "delta", "tool_start", "query", "tool_end", "validating"} ->
            "running_tools"
      [] step \in {"reply", "chart", "execution", "complete"} -> "validating"
      [] OTHER -> "completed"

\* Only while the runtime queries, and after that in a clean-up, a call is open.
OpenCall(t) ==
    /\ pc[t] \notin {"query", "tool_end"} \cup CleanupSteps /\ pc[t] # "none" => Started(t) = {}
    /\ pc[t] \in {"query", "tool_end"} => Started(t) = {cursor[t]}
    /\ tasks[t].status = "completed" => Started(t) = {}

Stage(t) ==
    /\ pc[t] \in RunSteps \cup {"queued", "load"} => tasks[t].status = StatusAt(pc[t])
    /\ pc[t] \in CleanupSteps => tasks[t].status # "failed"

\* Clean-ups and phases: mark_failed is only reached after a storage error of a
\* serving process, and a recovery does nothing but clean up what was active.
Cleanup(t) ==
    /\ pc[t] = "mark_failed" => faults > 0 /\ phase = "serving"
    /\ phase = "serving" /\ pc[t] \in CleanupSteps => err[t] # "interrupted"
    /\ phase = "recovering" => pc[t] \in {"none", "close_tools"} /\ (Active(t) => pc[t] # "none")
    /\ phase = "down" => pc[t] = "none"

StageOK == \A t \in Tasks : Stage(t) /\ OpenCall(t) /\ Cleanup(t)

\* A step that leaves u alone keeps the stage of u.
LEMMA StageOthers ==
    ASSUME StageOK, NEW t \in Tasks, Others(t), phase' = phase, faults' \in Nat, faults \in Nat,
           faults' >= faults, \A u \in Tasks \ {t} : cursor'[u] = cursor[u] /\ err'[u] = err[u],
           Stage(t)', OpenCall(t)', Cleanup(t)'
    PROVE  StageOK'
<1>1. ASSUME NEW u \in Tasks \ {t}
      PROVE  Stage(u)' /\ OpenCall(u)' /\ Cleanup(u)'
    <2>1. /\ tasks'[u] = tasks[u] /\ pc'[u] = pc[u] /\ tools'[u] = tools[u]
          /\ cursor'[u] = cursor[u] /\ err'[u] = err[u]
        BY <1>1 DEF Others
    <2>2. Stage(u) /\ OpenCall(u) /\ Cleanup(u)
        BY <1>1 DEF StageOK
    <2>3. Stage(u)'
        BY <2>1, <2>2 DEF Stage
    <2>4. OpenCall(u)'
        BY <2>1, <2>2 DEF OpenCall, Started
    <2>5. Cleanup(u)'
        BY <2>1, <2>2 DEF Cleanup, Active, Exists
    <2> QED
        BY <2>3, <2>4, <2>5
<1> QED
    BY <1>1 DEF StageOK

\* What is done for t takes it from stage to stage.
LEMMA StageStep ==
    ASSUME TypeOK, CursorOK, MemoryMatches, StageOK, NEW t \in Tasks, Work(t)
    PROVE  StageOK'
<1> USE DEF RunSteps, TransitionSteps, CleanupSteps
<1>0. /\ Stage(t) /\ OpenCall(t) /\ Cleanup(t) /\ Matches(t)
      /\ faults \in Nat
    BY WorkflowAssumption DEF StageOK, MemoryMatches, TypeOK
<1>1. ASSUME NEW at \in RunSteps \ {"query", "tool_end"}, NEW to \in Statuses,
             NEW then \in RunSteps \ {"query", "tool_end"},
             StatusAt(then) = to, Transition(t, at, to, then)
      PROVE  StageOK'
    <2>1. Others(t)
        BY <1>1, AppendKeepsOthers DEF Others, Transition, TypeOK
    <2>2. tasks'[t].status = to
        <3>1. /\ Candidate(t, to, item[t].code) \in TaskRows
              /\ Candidate(t, to, item[t].code).status = to
            BY CandidateType DEF TypeOK, TaskRows
        <3> QED
            BY <1>1, <3>1 DEF Transition, Append1, TypeOK, TaskRows
    <2>3. pc'[t] = then /\ pc[t] = at /\ Started(t)' = Started(t)
        BY <1>1 DEF Transition, TypeOK, Started
    <2>4. UNCHANGED <<phase, faults, cursor, err>>
        BY <1>1 DEF Transition, bounds
    <2>5. Stage(t)' /\ OpenCall(t)'
        BY <1>0, <1>1, <2>2, <2>3 DEF Stage, OpenCall
    <2>6. Cleanup(t)'
        BY <1>0, <2>3, <2>4 DEF Cleanup
    <2> QED
        BY <1>0, <2>1, <2>4, <2>5, <2>6, StageOthers
<1>2. CASE StartPlanning(t) \/ StartTools(t) \/ StartValidating(t) \/ Complete(t)
    BY <1>1, <1>2 DEF StartPlanning, StartTools, StartValidating, Complete, Statuses, StatusAt
<1>3. ASSUME NEW at \in RunSteps \ {"query", "tool_end"}, NEW kind,
             NEW then \in (RunSteps \ {"query", "tool_end"}) \cup {"none"},
             then # "none" => StatusAt(then) = StatusAt(at), Emit(t, at, kind, then)
      PROVE  StageOK'
    <2>1. /\ Others(t)
          /\ tasks'[t].status = tasks[t].status
        BY <1>3, AppendKeepsStatus DEF Others, Emit, TypeOK
    <2>2. pc'[t] = then /\ pc[t] = at /\ Started(t)' = Started(t)
        BY <1>3 DEF Emit, TypeOK, Started
    <2>3. UNCHANGED <<phase, faults, cursor, err>>
        BY <1>3 DEF Emit, bounds
    <2>4. Stage(t)' /\ OpenCall(t)'
        BY <1>0, <1>3, <2>1, <2>2 DEF Stage, OpenCall
    <2>5. Cleanup(t)'
        BY <1>0, <2>1, <2>2, <2>3 DEF Cleanup
    <2> QED
        BY <1>0, <2>1, <2>3, <2>4, <2>5, StageOthers
<1>4. CASE Greet(t) \/ Delta(t) \/ Announce(t)
    BY <1>3, <1>4 DEF Greet, Delta, Announce, StatusAt
<1>5. CASE StartTool(t) \/ EndTool(t)
    <2>1. cursor[t] \in Calls
        BY <1>5, CursorInCalls DEF StartTool, EndTool, CursorSteps
    <2>2. /\ Others(t)
          /\ tasks'[t].status = tasks[t].status
          /\ tasks[t].status = "running_tools"
        BY <1>0, <1>5, AppendKeepsStatus
        DEF Others, StartTool, EndTool, TypeOK, Stage, StatusAt
    <2>3. /\ UNCHANGED <<phase, faults, err>>
          /\ \A u \in Tasks \ {t} : cursor'[u] = cursor[u]
        BY <1>5 DEF StartTool, EndTool, bounds, TypeOK
    <2>4. CASE StartTool(t)
        <3>1. pc'[t] = "query" /\ cursor'[t] = cursor[t] /\ Started(t)' = {cursor[t]}
            BY <1>0, <2>1, <2>4 DEF StartTool, TypeOK, OpenCall, Started
        <3>2. Stage(t)' /\ OpenCall(t)'
            BY <2>2, <3>1 DEF Stage, OpenCall, StatusAt
        <3>3. Cleanup(t)'
            BY <1>0, <2>3, <2>4, <3>1 DEF Cleanup, StartTool
        <3> QED
            BY <1>0, <2>2, <2>3, <3>2, <3>3, StageOthers
    <2>5. CASE EndTool(t)
        <3>1. pc'[t] \in {"validating", "tool_start"} /\ Started(t)' = {}
            BY <1>0, <2>1, <2>5 DEF EndTool, AfterTool, TypeOK, OpenCall, Started
        <3>2. Stage(t)' /\ OpenCall(t)'
            BY <2>2, <3>1 DEF Stage, OpenCall, StatusAt
        <3>3. Cleanup(t)'
            BY <1>0, <2>3, <2>5, <3>1 DEF Cleanup, EndTool
        <3> QED
            BY <1>0, <2>2, <2>3, <3>2, <3>3, StageOthers
    <2> QED
        BY <1>5, <2>4, <2>5
<1>6. ASSUME NEW k \in Calls, CloseTool(t, k)
      PROVE  StageOK'
    <2>1. /\ Others(t)
          /\ tasks'[t].status = tasks[t].status
          /\ tasks'[t].version = tasks[t].version
        BY <1>6, AppendKeepsStatus DEF Others, CloseTool, TypeOK
    <2>2. /\ UNCHANGED <<phase, faults, cursor, err>>
          /\ pc'[t] = pc[t] /\ pc[t] = "close_tools"
        BY <1>6 DEF CloseTool, bounds
    <2>3. Started(t)' = Started(t) \ {k}
        BY <1>6 DEF CloseTool, Started, TypeOK
    <2>4. Stage(t)' /\ OpenCall(t)'
        BY <1>0, <2>1, <2>2, <2>3 DEF Stage, OpenCall
    <2>5. Cleanup(t)'
        BY <1>0, <2>1, <2>2 DEF Cleanup, Active, Exists
    <2> QED
        BY <1>0, <2>1, <2>2, <2>4, <2>5, StageOthers
<1>7. CASE PersistReply(t) \/ ProposeChart(t) \/ PersistExecution(t)
    <2>1. /\ Others(t)
          /\ tasks'[t].status = tasks[t].status
          /\ tasks[t].status = "validating"
        BY <1>0, <1>7, AppendKeepsStatus
        DEF Others, PersistReply, ProposeChart, PersistExecution, TypeOK, Stage, StatusAt
    <2>2. /\ UNCHANGED <<phase, faults, err, tools>>
          /\ \A u \in Tasks \ {t} : cursor'[u] = cursor[u]
        BY <1>7 DEF PersistReply, ProposeChart, PersistExecution, bounds, TypeOK
    <2>3. /\ pc'[t] \in {"chart", "execution", "complete"}
          /\ pc[t] \in {"reply", "chart", "execution"}
        BY <1>7
        DEF PersistReply, ProposeChart, PersistExecution, AfterReply, AfterChart, TypeOK
    <2>4. Stage(t)' /\ OpenCall(t)'
        BY <1>0, <2>1, <2>2, <2>3 DEF Stage, OpenCall, Started, StatusAt
    <2>5. Cleanup(t)'
        BY <1>0, <2>2, <2>3 DEF Cleanup
    <2> QED
        BY <1>0, <2>1, <2>2, <2>4, <2>5, StageOthers
<1>8. CASE MarkFailed(t)
    <2>1. Others(t)
        BY <1>8, AppendKeepsOthers DEF Others, MarkFailed, TypeOK
    <2>2. tasks'[t].status = "failed" /\ pc'[t] = "none"
        <3>1. /\ Candidate(t, "failed", err[t]) \in TaskRows
              /\ Candidate(t, "failed", err[t]).status = "failed"
            BY CandidateType DEF TypeOK, Statuses
        <3> QED
            BY <1>8, <3>1 DEF MarkFailed, Append2, TypeOK, TaskRows
    <2>3. UNCHANGED <<phase, faults, cursor, err>>
        BY <1>8 DEF MarkFailed, bounds
    <2>4. Stage(t)' /\ OpenCall(t)' /\ Cleanup(t)'
        BY <2>2 DEF Stage, OpenCall, Cleanup, Active, Terminal
    <2> QED
        BY <1>0, <2>1, <2>3, <2>4, StageOthers
<1>9. CASE Load(t) \/ QueryAnswers(t) \/ NothingToFail(t)
    <2>1. UNCHANGED <<tasks, tools, open, phase, faults, cursor, err>> /\ Others(t)
        BY <1>9 DEF Load, QueryAnswers, NothingToFail, durable, bounds, Others, TypeOK
    <2>2. \/ pc[t] = "load" /\ pc'[t] \in {"planning", "none"}
          \/ pc[t] = "query" /\ pc'[t] = "tool_end"
          \/ pc[t] \in CleanupSteps /\ pc'[t] = "none" /\ tasks[t].status \in Terminal
        BY <1>0, <1>9
        DEF Load, AfterLoad, QueryAnswers, NothingToFail, FailIsNext, Settled, TypeOK, Matches
    <2>3. Stage(t)'
        BY <1>0, <2>1, <2>2 DEF Stage, StatusAt
    <2>4. OpenCall(t)'
        BY <1>0, <2>1, <2>2 DEF OpenCall, Started
    <2>5. Cleanup(t)'
        BY <1>0, <2>1, <2>2 DEF Cleanup, Active, Exists
    <2> QED
        BY <1>0, <2>1, <2>3, <2>4, <2>5, StageOthers
<1>10. CASE LoadFails(t) \/ QueryFails(t) \/ OperationFails(t) \/ CleanupFails(t)
    <2>1. /\ UNCHANGED <<tasks, tools, open, phase, cursor>> /\ Others(t)
          /\ faults' \in Nat /\ faults' >= faults
          /\ \A u \in Tasks \ {t} : err'[u] = err[u]
        BY <1>0, <1>10
        DEF LoadFails, QueryFails, OperationFails, CleanupFails, durable, bounds, Others, TypeOK
    <2>2. \/ pc[t] = "load" /\ pc'[t] = "none"
          \/ /\ pc[t] \in RunSteps /\ pc'[t] = "close_tools"
             /\ err'[t] # "interrupted"
          \/ /\ pc[t] \in CleanupSteps /\ pc'[t] = "none" /\ phase = "serving"
          \/ /\ pc[t] = "close_tools" /\ pc'[t] = "mark_failed" /\ phase = "serving"
             /\ faults' > 0 /\ err'[t] = err[t]
        BY <1>0, <1>10
        DEF LoadFails, QueryFails, OperationFails, CleanupFails, AfterCleanupError, FailIsNext, TypeOK
    <2>3. Stage(t)'
        BY <1>0, <2>1, <2>2 DEF Stage, StatusAt
    <2>4. OpenCall(t)'
        BY <1>0, <2>1, <2>2 DEF OpenCall, Started
    <2>5. Cleanup(t)'
        BY <1>0, <2>1, <2>2 DEF Cleanup, Active, Exists
    <2> QED
        BY <1>0, <2>1, <2>3, <2>4, <2>5, StageOthers
<1> QED
    BY <1>2, <1>4, <1>5, <1>6, <1>7, <1>8, <1>9, <1>10 DEF Work

\* Every step keeps every task at its stage.
LEMMA StageNext ==
    ASSUME TypeOK, CursorOK, MemoryMatches, StageOK, [Next]_vars
    PROVE  StageOK'
<1>1. CASE UNCHANGED vars
    BY <1>1
    DEF vars, StageOK, Stage, OpenCall, Cleanup, Started, Active, Exists
<1>2. ASSUME NEW t \in Tasks, Create(t)
      PROVE  StageOK'
    <2>1. Others(t)
        BY <1>2, AppendKeepsOthers DEF Others, Create, TypeOK
    <2>2. tasks'[t].status = "created" /\ pc'[t] = "queued" /\ phase = "serving"
        <3>1. FirstRow \in TaskRows /\ FirstRow.status = "created"
            BY DEF FirstRow, TaskRows, Statuses, Codes
        <3> QED
            BY <1>2, <3>1 DEF Create, Append1, TypeOK, TaskRows
    <2>3. Started(t)' = {} /\ UNCHANGED <<phase, faults, cursor, err>> /\ faults \in Nat
        BY <1>2, WorkflowAssumption
        DEF Create, bounds, MemoryMatches, Matches, Started, TypeOK
    <2>4. Stage(t)' /\ OpenCall(t)' /\ Cleanup(t)'
        BY <2>2, <2>3
        DEF Stage, OpenCall, Cleanup, StatusAt, RunSteps, TransitionSteps, CleanupSteps
    <2> QED
        BY <2>1, <2>3, <2>4, StageOthers
<1>3. ASSUME NEW t \in Tasks, Acquire(t)
      PROVE  StageOK'
    <2>1. /\ UNCHANGED <<tasks, tools, phase, faults, cursor, err>> /\ Others(t)
          /\ pc[t] = "queued" /\ pc'[t] = "load" /\ faults \in Nat
        BY <1>3, WorkflowAssumption DEF Acquire, durable, bounds, Others, TypeOK
    <2>2. Stage(t) /\ OpenCall(t) /\ Cleanup(t)
        BY DEF StageOK
    <2>3. Stage(t)' /\ OpenCall(t)' /\ Cleanup(t)'
        BY <2>1, <2>2
        DEF Stage, OpenCall, Cleanup, Started, StatusAt, Active, Exists, RunSteps,
            TransitionSteps, CleanupSteps
    <2> QED
        BY <2>1, <2>3, StageOthers
<1>4. ASSUME NEW t \in Tasks, Work(t)
      PROVE  StageOK'
    BY <1>4, StageStep
<1>5. CASE Crash \/ RecoveryFails
    BY <1>5
    DEF Crash, RecoveryFails, ProcessGone, durable, StageOK, Stage, OpenCall, Cleanup, Started,
        RunSteps, TransitionSteps, CleanupSteps
<1>6. CASE Restart
    BY <1>6
    DEF Restart, Interrupted, Active, Exists, Terminal, durable, StageOK, Stage, OpenCall,
        Cleanup, Started, RunSteps, TransitionSteps, CleanupSteps
<1>7. CASE Serve
    BY <1>7
    DEF Serve, durable, bounds, StageOK, Stage, OpenCall, Cleanup, Started, RunSteps,
        TransitionSteps, CleanupSteps
<1> QED
    BY <1>1, <1>2, <1>3, <1>4, <1>5, <1>6, <1>7 DEF Next

\* The next operation for a task always fits its status and its calls.
LEMMA StageAlwaysOK == Spec => []StageOK
<1>1. Init => StageOK
    BY DEF Init, NoRow, StageOK, Stage, OpenCall, Cleanup, Started, RunSteps, TransitionSteps,
           CleanupSteps
<1>2. TypeOK /\ CursorOK /\ MemoryMatches /\ StageOK /\ [Next]_vars => StageOK'
    BY StageNext
<1> QED
    BY <1>1, <1>2, TypeCorrect, MemoryAlwaysMatches, PTL DEF Spec

-----------------------------------------------------------------------------
(* Recovery, terminal tasks, failures *)

\* The process starts to serve only when recovery has left no task active.
THEOREM RecoveryIsComplete == Spec => RecoverySettles
<1>1. TypeOK /\ StageOK /\ [Next]_vars =>
        [(phase = "recovering" /\ phase' = "serving") => \A t \in Tasks : ~Active(t)']_vars
    <2> SUFFICES ASSUME TypeOK, StageOK, Next, phase = "recovering", phase' = "serving"
                 PROVE  \A t \in Tasks : ~Active(t)'
        OBVIOUS
    <2>1. \A t \in Tasks : ~(Create(t) \/ Acquire(t) \/ Work(t))
        <3> SUFFICES ASSUME NEW t \in Tasks, Create(t) \/ Acquire(t) \/ Work(t)
                     PROVE  phase' = phase
            OBVIOUS
        <3> QED
            BY DEF Create, Acquire, Work, Load, LoadFails, StartPlanning, StartTools,
                   StartValidating, Complete, Transition, Greet, Delta, Announce, Emit, StartTool,
                   QueryAnswers, QueryFails, EndTool, PersistReply, ProposeChart, PersistExecution,
                   OperationFails, CloseTool, MarkFailed, NothingToFail, CleanupFails
    <2>2. Serve
        BY <2>1 DEF Next, Crash, RecoveryFails, ProcessGone, Restart
    <2> QED
        BY <2>2 DEF Serve, durable, StageOK, Cleanup, Active, Exists
<1> QED
    BY <1>1, TypeCorrect, StageAlwaysOK, PTL DEF Spec, RecoverySettles

\* A step of one goroutine (or of the recovery) at a terminal task.
LEMMA WorkAtTerminal ==
    ASSUME TypeOK, CursorOK, MemoryMatches, StageOK, NEW t \in Tasks,
           tasks[t].status \in Terminal, Work(t)
    PROVE  \/ Announce(t)
           \/ UNCHANGED <<tasks, tools, charts, reply>>
<1>1. Stage(t) /\ OpenCall(t) /\ Matches(t)
    BY DEF StageOK, MemoryMatches
<1>2. pc[t] \in RunSteps => pc[t] = "announce"
    BY <1>1 DEF Stage, StatusAt, Terminal, RunSteps, TransitionSteps
<1>3. pc[t] \in CleanupSteps => item[t].status \in Terminal /\ open[t] = {}
    BY <1>1 DEF Stage, OpenCall, Matches, Terminal
<1>4. ~MarkFailed(t) /\ \A k \in Calls : ~CloseTool(t, k)
    BY <1>3 DEF MarkFailed, FailIsNext, Settled, CloseTool, CleanupSteps
<1>5. ~(\/ StartPlanning(t) \/ StartTools(t) \/ StartValidating(t) \/ Complete(t)
        \/ Greet(t) \/ Delta(t) \/ StartTool(t) \/ EndTool(t)
        \/ PersistReply(t) \/ ProposeChart(t) \/ PersistExecution(t))
    BY <1>2
    DEF StartPlanning, StartTools, StartValidating, Complete, Transition, Greet, Delta, Emit,
        StartTool, EndTool, PersistReply, ProposeChart, PersistExecution, RunSteps, TransitionSteps
<1> QED
    BY <1>4, <1>5
    DEF Work, Load, LoadFails, QueryAnswers, QueryFails, OperationFails, NothingToFail,
        CleanupFails, durable

\* Steps for a task leave the rows of the other tasks alone.
LEMMA WorkKeepsOthers ==
    ASSUME TypeOK, NEW t \in Tasks, NEW u \in Tasks, u # t, Create(t) \/ Acquire(t) \/ Work(t)
    PROVE  /\ tasks'[u] = tasks[u] /\ tools'[u] = tools[u]
           /\ charts'[u] = charts[u] /\ reply'[u] = reply[u]
<1> USE AppendKeepsOthers DEF TypeOK
<1>1. CASE Create(t) \/ Acquire(t)
    BY <1>1 DEF Create, Acquire, durable
<1>2. CASE StartPlanning(t) \/ StartTools(t) \/ StartValidating(t) \/ Complete(t)
    BY <1>2 DEF StartPlanning, StartTools, StartValidating, Complete, Transition
<1>3. CASE Greet(t) \/ Delta(t) \/ Announce(t)
    BY <1>3 DEF Greet, Delta, Announce, Emit
<1>4. CASE StartTool(t) \/ EndTool(t) \/ \E k \in Calls : CloseTool(t, k)
    BY <1>4 DEF StartTool, EndTool, CloseTool
<1>5. CASE PersistReply(t) \/ ProposeChart(t) \/ PersistExecution(t)
    BY <1>5 DEF PersistReply, ProposeChart, PersistExecution
<1>6. CASE MarkFailed(t)
    BY <1>6 DEF MarkFailed
<1>7. CASE \/ Load(t) \/ LoadFails(t) \/ QueryAnswers(t) \/ QueryFails(t)
           \/ OperationFails(t) \/ NothingToFail(t) \/ CleanupFails(t)
    BY <1>7
    DEF Load, LoadFails, QueryAnswers, QueryFails, OperationFails, NothingToFail, CleanupFails,
        durable
<1> QED
    BY <1>1, <1>2, <1>3, <1>4, <1>5, <1>6, <1>7 DEF Work

\* Once a task is terminal nothing but its terminal event is ever written for it.
THEOREM TerminalStaysFrozen == Spec => TerminalIsFrozen
<1>1. TypeOK /\ CursorOK /\ MemoryMatches /\ StageOK /\ [Next]_vars =>
        [\A t \in Tasks : (Exists(t) /\ ~Active(t)) =>
          /\ tasks'[t] = [tasks[t] EXCEPT !.latest = tasks'[t].latest]
          /\ tools'[t] = tools[t] /\ charts'[t] = charts[t] /\ reply'[t] = reply[t]]_vars
    <2> SUFFICES ASSUME TypeOK, CursorOK, MemoryMatches, StageOK, Next,
                        NEW t \in Tasks, Exists(t), ~Active(t)
                 PROVE  /\ tasks'[t] = [tasks[t] EXCEPT !.latest = tasks'[t].latest]
                        /\ tools'[t] = tools[t] /\ charts'[t] = charts[t] /\ reply'[t] = reply[t]
        OBVIOUS
    <2>1. tasks[t].status \in Terminal /\ tasks[t] \in TaskRows
        BY DEF Active, TypeOK
    <2>2. tasks[t] = [tasks[t] EXCEPT !.latest = tasks[t].latest]
        BY <2>1 DEF TaskRows
    <2>3. CASE Work(t)
        <3>1. CASE Announce(t)
            <4>1. tasks'[t] = [tasks[t] EXCEPT !.latest = @ + 1]
                BY <3>1 DEF Announce, Emit, Append1, TypeOK
            <4>2. tasks'[t] = [tasks[t] EXCEPT !.latest = tasks'[t].latest]
                BY <2>1, <4>1 DEF TaskRows
            <4> QED
                BY <3>1, <4>2 DEF Announce, Emit
        <3>2. CASE UNCHANGED <<tasks, tools, charts, reply>>
            BY <2>2, <3>2
        <3> QED
            BY <2>1, <2>3, <3>1, <3>2, WorkAtTerminal
    <2>4. CASE Create(t)
        BY <2>4 DEF Create
    <2>5. CASE \E u \in Tasks \ {t} : Create(u) \/ Work(u)
        BY <2>2, <2>5, WorkKeepsOthers
    <2>6. CASE (\E u \in Tasks : Acquire(u)) \/ Crash \/ Restart \/ RecoveryFails \/ Serve
        BY <2>2, <2>6 DEF Acquire, Crash, Restart, RecoveryFails, Serve, durable
    <2> QED
        BY <2>3, <2>4, <2>5, <2>6 DEF Next
<1> QED
    BY <1>1, TypeCorrect, MemoryAlwaysMatches, StageAlwaysOK, PTL DEF Spec, TerminalIsFrozen

\* Only fail makes a task "failed".
LEMMA OnlyMarkFailedFails ==
    ASSUME TypeOK, NEW t \in Tasks, Work(t),
           tasks[t].status # "failed", tasks'[t].status = "failed"
    PROVE  MarkFailed(t)
<1>1. ASSUME NEW at, NEW to \in Statuses, NEW then, Transition(t, at, to, then)
      PROVE  to = "failed"
    <2>1. /\ Candidate(t, to, item[t].code) \in TaskRows
          /\ Candidate(t, to, item[t].code).status = to
        BY CandidateType DEF TypeOK, TaskRows
    <2> QED
        BY <1>1, <2>1 DEF Transition, Append1, TypeOK, TaskRows
<1>2. ~(StartPlanning(t) \/ StartTools(t) \/ StartValidating(t) \/ Complete(t))
    BY <1>1 DEF StartPlanning, StartTools, StartValidating, Complete, Statuses
<1>3. ~(Greet(t) \/ Delta(t) \/ Announce(t) \/ StartTool(t) \/ EndTool(t)
        \/ PersistReply(t) \/ ProposeChart(t) \/ PersistExecution(t)
        \/ \E k \in Calls : CloseTool(t, k))
    BY AppendKeepsStatus
    DEF Greet, Delta, Announce, Emit, StartTool, EndTool, PersistReply, ProposeChart,
        PersistExecution, CloseTool
<1>4. ~(\/ Load(t) \/ LoadFails(t) \/ QueryAnswers(t) \/ QueryFails(t)
        \/ OperationFails(t) \/ NothingToFail(t) \/ CleanupFails(t))
    BY DEF Load, LoadFails, QueryAnswers, QueryFails, OperationFails, NothingToFail,
           CleanupFails, durable
<1> QED
    BY <1>2, <1>3, <1>4 DEF Work

\* Storage errors are counted up only.
LEMMA FaultsGrow ==
    ASSUME TypeOK, [Next]_vars
    PROVE  faults \in Nat /\ faults' \in Nat /\ faults <= faults'
<1>1. faults \in Nat
    BY WorkflowAssumption DEF TypeOK
<1>2. faults' = faults \/ faults' = faults + 1
    BY DEF Next, vars, bounds, Create, Acquire, Work, Load, LoadFails, StartPlanning, StartTools,
           StartValidating, Complete, Transition, Greet, Delta, Announce, Emit, StartTool,
           QueryAnswers, QueryFails, EndTool, PersistReply, ProposeChart, PersistExecution,
           OperationFails, CloseTool, MarkFailed, NothingToFail, CleanupFails, Crash, Restart,
           RecoveryFails, Serve
<1> QED
    BY <1>1, <1>2

\* Both what recovery failed and what failed without a storage error in its
\* clean-up has no call left that looks as if it were still running.
THEOREM FailuresCloseTools == Spec => []FailureClosesTools
<1>1. Init => FailureClosesTools
    BY DEF Init, NoRow, FailureClosesTools
<1>2. TypeOK /\ CursorOK /\ MemoryMatches /\ StageOK /\ FailureClosesTools /\ [Next]_vars
        => FailureClosesTools'
    <2> SUFFICES ASSUME TypeOK, CursorOK, MemoryMatches, StageOK, FailureClosesTools, [Next]_vars,
                        NEW t \in Tasks, tasks'[t].status = "failed",
                        tasks'[t].code = "interrupted" \/ faults' = 0
                 PROVE  \A k \in Calls : tools'[t][k] # "started"
        BY DEF FailureClosesTools
    <2>1. faults' = 0 => faults = 0
        BY FaultsGrow
    <2>2. ASSUME tasks'[t] = tasks[t], tools'[t] = tools[t]
          PROVE  \A k \in Calls : tools'[t][k] # "started"
        BY <2>1, <2>2 DEF FailureClosesTools
    <2>3. CASE Work(t) /\ tasks[t].status = "failed"
        <3>1. ~Announce(t)
            BY <2>3 DEF Announce, Emit, StageOK, Stage, StatusAt, RunSteps
        <3> QED
            BY <2>2, <2>3, <3>1, WorkAtTerminal DEF Terminal
    <2>4. CASE Work(t) /\ tasks[t].status # "failed"
        <3>1. MarkFailed(t)
            BY <2>4, OnlyMarkFailedFails
        <3>2. tasks'[t].code = err[t] /\ tools' = tools /\ faults' = faults
            <4>1. /\ Candidate(t, "failed", err[t]) \in TaskRows
                  /\ Candidate(t, "failed", err[t]).code = err[t]
                BY CandidateType DEF TypeOK, Statuses
            <4> QED
                BY <3>1, <4>1 DEF MarkFailed, Append2, bounds, TypeOK, TaskRows
        <3>3. pc[t] # "mark_failed"
            BY <3>2 DEF StageOK, Cleanup, CleanupSteps
        <3>4. Started(t) = {}
            BY <3>1, <3>3 DEF MarkFailed, FailIsNext, MemoryMatches, Matches, CleanupSteps
        <3> QED
            BY <3>2, <3>4 DEF Started
    <2>5. CASE Create(t)
        BY <2>5 DEF Create, MemoryMatches, Matches
    <2>6. CASE \E u \in Tasks \ {t} : Create(u) \/ Work(u)
        BY <2>2, <2>6, WorkKeepsOthers
    <2>7. CASE \/ \E u \in Tasks : Acquire(u)
               \/ Crash \/ Restart \/ RecoveryFails \/ Serve \/ UNCHANGED vars
        BY <2>2, <2>7 DEF Acquire, Crash, Restart, RecoveryFails, Serve, durable, vars
    <2> QED
        BY <2>3, <2>4, <2>5, <2>6, <2>7 DEF Next
<1> QED
    BY <1>1, <1>2, TypeCorrect, MemoryAlwaysMatches, StageAlwaysOK, PTL DEF Spec

\* Without a storage error, a goroutine leaves no active task behind.
LEMMA WorkKeepsAGoroutine ==
    ASSUME TypeOK, CursorOK, MemoryMatches, StageOK, NEW t \in Tasks, Work(t), faults' = 0
    PROVE  pc'[t] # "none" \/ ~Active(t)'
<1>1. Stage(t) /\ Matches(t)
    BY DEF StageOK, MemoryMatches
<1>2. faults = 0
    BY WorkflowAssumption, FaultsGrow DEF Next
<1>3. CASE Load(t)
    BY <1>1, <1>3 DEF Load, AfterLoad, Stage, StatusAt, TypeOK
<1>4. CASE Announce(t)
    <2>1. tasks'[t].status = tasks[t].status
        BY <1>4, AppendKeepsStatus DEF Announce, Emit
    <2> QED
        BY <1>1, <1>4, <2>1
        DEF Announce, Emit, Stage, StatusAt, Active, Terminal, RunSteps, TransitionSteps
<1>5. CASE MarkFailed(t)
    <2>1. /\ Candidate(t, "failed", err[t]) \in TaskRows
          /\ Candidate(t, "failed", err[t]).status = "failed"
        BY CandidateType DEF TypeOK, Statuses
    <2> QED
        BY <1>5, <2>1 DEF MarkFailed, Append2, TypeOK, TaskRows, Active, Terminal
<1>6. CASE NothingToFail(t)
    BY <1>1, <1>6
    DEF NothingToFail, FailIsNext, Settled, Matches, durable, Active, Exists, CleanupSteps
<1>7. ~LoadFails(t) /\ ~CleanupFails(t)
    BY <1>2 DEF LoadFails, CleanupFails
<1>8. CASE \/ StartPlanning(t) \/ StartTools(t) \/ StartValidating(t) \/ Complete(t)
           \/ Greet(t) \/ Delta(t) \/ StartTool(t) \/ QueryAnswers(t) \/ QueryFails(t)
           \/ EndTool(t) \/ PersistReply(t) \/ ProposeChart(t) \/ PersistExecution(t)
           \/ OperationFails(t) \/ \E k \in Calls : CloseTool(t, k)
    BY <1>8
    DEF StartPlanning, StartTools, StartValidating, Complete, Transition, Greet, Delta, Emit,
        StartTool, QueryAnswers, QueryFails, EndTool, AfterTool, PersistReply, AfterReply,
        ProposeChart, PersistExecution, AfterChart, OperationFails, CloseTool, TypeOK
<1> QED
    BY <1>3, <1>4, <1>5, <1>6, <1>7, <1>8 DEF Work

\* While the process serves and no storage error hit Load, a clean-up or a
\* recovery, every active task has a goroutine, so no session stays blocked.
THEOREM NoTaskIsOrphaned == Spec => []NoOrphan
<1>1. Init => NoOrphan
    BY DEF Init, NoRow, NoOrphan, Active, Exists
<1>2. TypeOK /\ CursorOK /\ MemoryMatches /\ StageOK /\ NoOrphan /\ [Next]_vars => NoOrphan'
    <2> SUFFICES ASSUME TypeOK, CursorOK, MemoryMatches, StageOK, NoOrphan, [Next]_vars,
                        NEW t \in Tasks, phase' = "serving", faults' = 0, Active(t)'
                 PROVE  pc'[t] # "none"
        BY DEF NoOrphan
    <2>1. faults = 0
        BY WorkflowAssumption, FaultsGrow
    <2>2. CASE Work(t)
        BY <2>2, WorkKeepsAGoroutine
    <2>3. CASE Create(t) \/ Acquire(t)
        BY <2>3 DEF Create, Acquire, TypeOK
    <2>4. CASE \E u \in Tasks \ {t} : Create(u) \/ Acquire(u) \/ Work(u)
        <3>1. PICK u \in Tasks \ {t} : Create(u) \/ Acquire(u) \/ Work(u)
            BY <2>4
        <3>2. tasks'[t] = tasks[t]
            BY <3>1, WorkKeepsOthers
        <3>3. pc'[t] = pc[t] /\ phase' = phase
            BY <3>1
            DEF Create, Acquire, Work, Load, LoadFails, StartPlanning, StartTools,
                StartValidating, Complete, Transition, Greet, Delta, Announce, Emit, StartTool,
                QueryAnswers, QueryFails, EndTool, PersistReply, ProposeChart, PersistExecution,
                OperationFails, CloseTool, MarkFailed, NothingToFail, CleanupFails, TypeOK
        <3> QED
            BY <2>1, <3>2, <3>3 DEF NoOrphan, Active, Exists
    <2>5. CASE Serve
        BY <2>5 DEF Serve, durable, StageOK, Cleanup, Active, Exists
    <2>6. CASE Crash \/ Restart \/ RecoveryFails
        BY <2>6 DEF Crash, Restart, RecoveryFails, ProcessGone
    <2>7. CASE UNCHANGED vars
        BY <2>1, <2>7 DEF vars, NoOrphan, Active, Exists
    <2> QED
        BY <2>2, <2>3, <2>4, <2>5, <2>6, <2>7 DEF Next
<1> QED
    BY <1>1, <1>2, TypeCorrect, MemoryAlwaysMatches, StageAlwaysOK, PTL DEF Spec
-----------------------------------------------------------------------------
(* The tool calls and their audit trail *)

ToolKinds == {"tool.started", "tool.completed", "tool.failed"}

\* The three ways a call's row changes, each with its event.
ToolMoves == {<<"none", "tool.started", "started">>,
              <<"started", "tool.completed", "completed">>,
              <<"started", "tool.failed", "failed">>}

ToolMoved(t) ==
    \E k \in Calls, m \in ToolMoves :
        /\ tools[t][k] = m[1]
        /\ tools'[t] = [tools[t] EXCEPT ![k] = m[3]]
        /\ Append1(t, tasks[t], About(m[2], k))

\* The calls of t stay as they are, and no event is about one.
ToolsKept(t) ==
    /\ tools'[t] = tools[t]
    /\ events[t] \subseteq events'[t]
    /\ \A e \in events'[t] \ events[t] : e.kind \notin ToolKinds

\* What an append adds to the log of its task, and that it adds to no other.
LEMMA AppendAdds ==
    ASSUME TypeOK, NEW t \in Tasks, NEW row, NEW e, Append1(t, row, e)
    PROVE  /\ events'[t] = events[t] \cup {EventRow(row.latest + 1, e)}
           /\ \A u \in Tasks \ {t} : events'[u] = events[u]
BY DEF Append1, TypeOK

\* The same of two appends.
LEMMA AppendAddsTwo ==
    ASSUME TypeOK, NEW t \in Tasks, NEW row, NEW e, NEW f, Append2(t, row, e, f)
    PROVE  /\ events'[t] = events[t] \cup {EventRow(row.latest + 1, e), EventRow(row.latest + 2, f)}
           /\ \A u \in Tasks \ {t} : events'[u] = events[u]
BY DEF Append2, TypeOK

\* Steps for a task leave the logs of the other tasks alone.
LEMMA WorkKeepsLogs ==
    ASSUME TypeOK, NEW t \in Tasks, NEW u \in Tasks, u # t, Create(t) \/ Acquire(t) \/ Work(t)
    PROVE  events'[u] = events[u]
<1>1. \A row, e, f : Append1(t, row, e) \/ Append2(t, row, e, f) => events'[u] = events[u]
    BY AppendAdds, AppendAddsTwo
<1>2. CASE Create(t) \/ Acquire(t)
    BY <1>1, <1>2 DEF Create, Acquire, durable
<1>3. CASE \/ StartPlanning(t) \/ StartTools(t) \/ StartValidating(t) \/ Complete(t)
           \/ Greet(t) \/ Delta(t) \/ Announce(t)
    BY <1>1, <1>3
    DEF StartPlanning, StartTools, StartValidating, Complete, Transition, Greet, Delta, Announce,
        Emit
<1>4. CASE \/ StartTool(t) \/ EndTool(t) \/ \E k \in Calls : CloseTool(t, k)
           \/ PersistReply(t) \/ ProposeChart(t) \/ PersistExecution(t) \/ MarkFailed(t)
    BY <1>1, <1>4
    DEF StartTool, EndTool, CloseTool, PersistReply, ProposeChart, PersistExecution, MarkFailed
<1>5. CASE \/ Load(t) \/ LoadFails(t) \/ QueryAnswers(t) \/ QueryFails(t)
           \/ OperationFails(t) \/ NothingToFail(t) \/ CleanupFails(t)
    BY <1>5
    DEF Load, LoadFails, QueryAnswers, QueryFails, OperationFails, NothingToFail, CleanupFails,
        durable
<1> QED
    BY <1>2, <1>3, <1>4, <1>5 DEF Work

\* An append of an event that is about no call keeps the trail.
LEMMA AppendElse ==
    ASSUME TypeOK, NEW t \in Tasks, NEW row, NEW e, NEW f, tools'[t] = tools[t],
           e.kind \notin ToolKinds, f.kind \notin ToolKinds,
           Append1(t, row, e) \/ Append2(t, row, e, f)
    PROVE  ToolsKept(t)
<1>1. CASE Append1(t, row, e)
    BY <1>1, AppendAdds DEF ToolsKept, EventRow
<1>2. CASE Append2(t, row, e, f)
    BY <1>2, AppendAddsTwo DEF ToolsKept, EventRow
<1> QED
    BY <1>1, <1>2

\* The kinds of the events that are about no call.
LEMMA OtherKinds ==
    /\ \A s : StatusChanged(s).kind \notin ToolKinds
    /\ \A kind : kind \notin ToolKinds => About(kind, 0).kind \notin ToolKinds
    /\ \A kind, k : kind \notin ToolKinds => About(kind, k).kind \notin ToolKinds
    /\ Says("task.created", "created", 0).kind \notin ToolKinds
BY DEF StatusChanged, About, Says, ToolKinds

\* To the calls of a task, every step is one of the three moves, or none.
LEMMA EveryStepIsAToolStep ==
    ASSUME TypeOK, CursorOK, [Next]_vars, NEW t \in Tasks
    PROVE  ToolMoved(t) \/ ToolsKept(t)
<1>1. ASSUME UNCHANGED <<events, tools>>
      PROVE  ToolsKept(t)
    BY <1>1 DEF ToolsKept
<1>2. CASE Create(t)
    BY <1>2, AppendElse, OtherKinds DEF Create
<1>3. CASE Work(t)
    <2>1. CASE StartPlanning(t) \/ StartTools(t) \/ StartValidating(t) \/ Complete(t)
        BY <2>1, AppendElse, OtherKinds
        DEF StartPlanning, StartTools, StartValidating, Complete, Transition
    <2>2. CASE Greet(t) \/ Delta(t) \/ Announce(t)
        <3>1. PICK kind \in Kinds \ ToolKinds : Append1(t, tasks[t], About(kind, 0))
            BY <2>2 DEF Greet, Delta, Announce, Emit, Kinds, ToolKinds
        <3> QED
            BY <2>2, <3>1, AppendElse, OtherKinds DEF Greet, Delta, Announce, Emit
    <2>3. CASE PersistReply(t) \/ ProposeChart(t) \/ PersistExecution(t)
        <3>1. PICK kind \in Kinds \ ToolKinds, k \in {0, cursor[t]} : Append1(t, tasks[t], About(kind, k))
            BY <2>3 DEF PersistReply, ProposeChart, PersistExecution, Kinds, ToolKinds
        <3> QED
            BY <2>3, <3>1, AppendElse, OtherKinds DEF PersistReply, ProposeChart, PersistExecution
    <2>4. CASE StartTool(t) \/ EndTool(t)
        <3>1. cursor[t] \in Calls
            BY <2>4, CursorInCalls DEF StartTool, EndTool, CursorSteps
        <3> QED
            BY <2>4, <3>1 DEF StartTool, EndTool, ToolMoved, ToolMoves, TypeOK
    <2>5. CASE \E k \in Calls : CloseTool(t, k)
        BY <2>5 DEF CloseTool, ToolMoved, ToolMoves, TypeOK
    <2>6. CASE MarkFailed(t)
        <3>1. About("task.failed", 0).kind \notin ToolKinds
            BY OtherKinds DEF ToolKinds
        <3> QED
            BY <2>6, <3>1, AppendElse, OtherKinds DEF MarkFailed
    <2>7. CASE \/ Load(t) \/ LoadFails(t) \/ QueryAnswers(t) \/ QueryFails(t)
               \/ OperationFails(t) \/ NothingToFail(t) \/ CleanupFails(t)
        BY <1>1, <2>7
        DEF Load, LoadFails, QueryAnswers, QueryFails, OperationFails, NothingToFail,
            CleanupFails, durable
    <2> QED
        BY <1>3, <2>1, <2>2, <2>3, <2>4, <2>5, <2>6, <2>7 DEF Work
<1>4. CASE \E u \in Tasks \ {t} : Create(u) \/ Work(u)
    <2>1. PICK u \in Tasks \ {t} : Create(u) \/ Work(u)
        BY <1>4
    <2>2. tools'[t] = tools[t]
        BY <2>1, WorkKeepsOthers
    <2>3. events'[t] = events[t]
        BY <2>1, WorkKeepsLogs
    <2> QED
        BY <2>2, <2>3 DEF ToolsKept
<1>5. CASE \/ \E u \in Tasks : Acquire(u)
           \/ Crash \/ Restart \/ RecoveryFails \/ Serve \/ UNCHANGED vars
    BY <1>1, <1>5 DEF Acquire, Crash, Restart, RecoveryFails, Serve, durable, vars
<1> QED
    BY <1>2, <1>3, <1>4, <1>5 DEF Next

\* Every tool call has the events its state implies and no others, on each of
\* the three paths that write one, whatever crashes in between.
THEOREM ToolsAreLogged == Spec => []ToolsMatchLog
<1>1. Init => ToolsMatchLog
    BY DEF Init, ToolsMatchLog
<1>2. TypeOK /\ CursorOK /\ ToolsMatchLog /\ [Next]_vars => ToolsMatchLog'
    <2> SUFFICES ASSUME TypeOK, CursorOK, ToolsMatchLog, [Next]_vars,
                        NEW t \in Tasks, NEW k \in Calls
                 PROVE  /\ (tools'[t][k] # "none") <=>
                              \E e \in events'[t] : e.kind = "tool.started" /\ e.call = k
                        /\ (tools'[t][k] = "completed") <=>
                              \E e \in events'[t] : e.kind = "tool.completed" /\ e.call = k
                        /\ (tools'[t][k] = "failed") <=>
                              \E e \in events'[t] : e.kind = "tool.failed" /\ e.call = k
        BY DEF ToolsMatchLog
    <2>0. /\ (tools[t][k] # "none") <=>
                \E e \in events[t] : e.kind = "tool.started" /\ e.call = k
          /\ (tools[t][k] = "completed") <=>
                \E e \in events[t] : e.kind = "tool.completed" /\ e.call = k
          /\ (tools[t][k] = "failed") <=>
                \E e \in events[t] : e.kind = "tool.failed" /\ e.call = k
        BY DEF ToolsMatchLog
    <2>1. CASE ToolsKept(t)
        BY <2>0, <2>1 DEF ToolsKept, ToolKinds
    <2>2. CASE ToolMoved(t)
        <3>1. PICK c \in Calls, m \in ToolMoves :
                 /\ tools[t][c] = m[1]
                 /\ tools'[t] = [tools[t] EXCEPT ![c] = m[3]]
                 /\ Append1(t, tasks[t], About(m[2], c))
            BY <2>2 DEF ToolMoved
        <3> DEFINE new == EventRow(tasks[t].latest + 1, About(m[2], c))
        <3>2. events'[t] = events[t] \cup {new} /\ new.kind = m[2] /\ new.call = c
            BY <3>1, AppendAdds DEF EventRow, About, Says
        <3> HIDE DEF new
        <3>3. \A kind : (\E e \in events'[t] : e.kind = kind /\ e.call = k) <=>
                            (\E e \in events[t] : e.kind = kind /\ e.call = k)
                            \/ (kind = m[2] /\ k = c)
            BY <3>2
        <3>4. tools'[t][k] = IF k = c THEN m[3] ELSE tools[t][k]
            BY <3>1 DEF TypeOK
        <3> QED
            BY <2>0, <3>1, <3>3, <3>4 DEF ToolMoves
    <2> QED
        BY <2>1, <2>2, EveryStepIsAToolStep
<1> QED
    BY <1>1, <1>2, TypeCorrect, PTL DEF Spec
-----------------------------------------------------------------------------
(* What a reader sees of each step: the row and the log *)

\* A call is open while tools run, or since a failure that could not close it.
OpenWhileRunning ==
    \A t \in Tasks : Started(t) # {} => tasks[t].status \in {"running_tools", "failed"}

\* What a step for t may do to the status and the open calls.
LEMMA OpenStep ==
    ASSUME TypeOK, CursorOK, NEW t \in Tasks, Work(t)
    PROVE  \/ pc'[t] \in RunSteps
           \/ /\ Started(t)' \subseteq Started(t)
              /\ tasks'[t].status \in {tasks[t].status, "failed"}
<1> USE DEF RunSteps, TransitionSteps
<1>1. CASE StartPlanning(t) \/ StartTools(t) \/ StartValidating(t) \/ Complete(t)
    BY <1>1 DEF StartPlanning, StartTools, StartValidating, Complete, Transition, TypeOK
<1>2. CASE Greet(t) \/ Delta(t)
    BY <1>2 DEF Greet, Delta, Emit, TypeOK
<1>3. CASE Announce(t)
    BY <1>3, AppendKeepsStatus DEF Announce, Emit, Started
<1>4. CASE StartTool(t) \/ EndTool(t)
    BY <1>4 DEF StartTool, EndTool, AfterTool, TypeOK
<1>5. CASE PersistReply(t) \/ ProposeChart(t) \/ PersistExecution(t)
    BY <1>5 DEF PersistReply, ProposeChart, PersistExecution, AfterReply, AfterChart, TypeOK
<1>6. ASSUME NEW k \in Calls, CloseTool(t, k)
      PROVE  /\ Started(t)' \subseteq Started(t)
             /\ tasks'[t].status = tasks[t].status
    BY <1>6, AppendKeepsStatus DEF CloseTool, Started, TypeOK
<1>7. CASE MarkFailed(t)
    <2>1. /\ Candidate(t, "failed", err[t]) \in TaskRows
          /\ Candidate(t, "failed", err[t]).status = "failed"
        BY CandidateType DEF TypeOK, Statuses
    <2> QED
        BY <1>7, <2>1 DEF MarkFailed, Append2, TypeOK, TaskRows, Started
<1>8. CASE \/ Load(t) \/ LoadFails(t) \/ QueryAnswers(t) \/ QueryFails(t)
           \/ OperationFails(t) \/ NothingToFail(t) \/ CleanupFails(t)
    BY <1>8
    DEF Load, LoadFails, QueryAnswers, QueryFails, OperationFails, NothingToFail, CleanupFails,
        durable, Started
<1> QED
    BY <1>1, <1>2, <1>3, <1>4, <1>5, <1>6, <1>7, <1>8 DEF Work

\* At any step but those between start and end of a call, none is open.
LEMMA OpenAlwaysRuns == Spec => []OpenWhileRunning
<1>1. Init => OpenWhileRunning
    BY DEF Init, OpenWhileRunning, Started
<1>2. TypeOK /\ CursorOK /\ StageOK' /\ OpenWhileRunning /\ [Next]_vars => OpenWhileRunning'
    <2> SUFFICES ASSUME TypeOK, CursorOK, StageOK', OpenWhileRunning, [Next]_vars, NEW t \in Tasks,
                        Started(t)' # {}
                 PROVE  tasks'[t].status \in {"running_tools", "failed"}
        BY DEF OpenWhileRunning
    <2>1. Stage(t)' /\ OpenCall(t)'
        BY DEF StageOK
    <2>2. CASE pc'[t] \in RunSteps \cup {"queued", "load"}
        BY <2>1, <2>2
        DEF Stage, OpenCall, StatusAt, RunSteps, TransitionSteps, CleanupSteps
    <2>3. ASSUME Started(t)' \subseteq Started(t), tasks'[t].status \in {tasks[t].status, "failed"}
          PROVE  tasks'[t].status \in {"running_tools", "failed"}
        BY <2>3 DEF OpenWhileRunning
    <2>4. CASE Work(t)
        BY <2>2, <2>3, <2>4, OpenStep
    <2>5. CASE Create(t)
        BY <2>2, <2>5 DEF Create, TypeOK
    <2>6. CASE \E u \in Tasks \ {t} : Create(u) \/ Work(u)
        BY <2>3, <2>6, WorkKeepsOthers DEF Started
    <2>7. CASE \/ \E u \in Tasks : Acquire(u)
               \/ Crash \/ Restart \/ RecoveryFails \/ Serve \/ UNCHANGED vars
        BY <2>3, <2>7 DEF Acquire, Crash, Restart, RecoveryFails, Serve, durable, vars, Started
    <2> QED
        BY <2>4, <2>5, <2>6, <2>7 DEF Next
<1> QED
    BY <1>1, <1>2, TypeCorrect, StageAlwaysOK, PTL DEF Spec

\* The row that a change of status writes.
NextRow(t, to, code) ==
    [status |-> to, version |-> tasks[t].version + 1, latest |-> tasks[t].latest, code |-> code]

Created(t) ==
    /\ ~Exists(t)
    /\ SessionFree(t)
    /\ Append1(t, FirstRow, Says("task.created", "created", 0))

Advanced(t, to) ==
    /\ to # "failed" /\ CanTransition(tasks[t].status, to)
    /\ \E code \in Codes : Append1(t, NextRow(t, to, code), StatusChanged(to))

Progressed(t) ==
    \E kind \in Kinds, k \in Calls \cup {0} :
        /\ \/ tasks[t].status = "running_tools" /\ kind \in Contract!Progress.running_tools
           \/ tasks[t].status = "validating" /\ kind \in Contract!Progress.validating
        /\ Append1(t, tasks[t], About(kind, k))

Failed(t) ==
    /\ Active(t)
    /\ \E code \in Codes :
          Append2(t, NextRow(t, "failed", code), StatusChanged("failed"), About("task.failed", 0))

Announced(t) ==
    /\ pc[t] = "announce"
    /\ tasks[t].status = "completed"
    /\ Append1(t, tasks[t], About("task.completed", 0))

Written(t) ==
    \/ Created(t)
    \/ \E to \in Statuses : Advanced(t, to)
    \/ Progressed(t)
    \/ Failed(t)
    \/ Announced(t)

\* The candidate of a transition is the row with the next version.
LEMMA CandidateIsNext ==
    ASSUME TypeOK, MemoryMatches, NEW t \in Tasks, pc[t] \in RunSteps \cup CleanupSteps,
           NEW s \in Statuses, NEW c \in Codes
    PROVE  Candidate(t, s, c) = NextRow(t, s, c)
<1>1. /\ Candidate(t, s, c) \in TaskRows
      /\ Candidate(t, s, c).status = s
      /\ Candidate(t, s, c).version = item[t].version + 1
      /\ Candidate(t, s, c).latest = tasks[t].latest
      /\ Candidate(t, s, c).code = c
    BY CandidateType
<1>2. item[t].version = tasks[t].version
    BY DEF MemoryMatches, Matches
<1> QED
    BY <1>1, <1>2 DEF TaskRows, NextRow

\* To a reader, a step for t is one of the five, or none.
LEMMA WorkIsWritten ==
    ASSUME TypeOK, CursorOK, MemoryMatches, StageOK, OpenWhileRunning, NEW t \in Tasks, Work(t)
    PROVE  UNCHANGED <<tasks, events>> \/ Written(t)
<1> USE DEF RunSteps, TransitionSteps
<1>1. Stage(t) /\ OpenCall(t) /\ Matches(t) /\ tasks[t] \in TaskRows /\ item[t] \in TaskRows
    BY DEF StageOK, MemoryMatches, TypeOK
<1>2. ASSUME NEW at \in RunSteps, NEW to \in Statuses \ {"failed"}, NEW then, Transition(t, at, to, then)
      PROVE  Written(t)
    <2>1. item[t].code \in Codes /\ item[t].status = tasks[t].status
        BY <1>1, <1>2 DEF TaskRows, Transition, Matches
    <2>2. Candidate(t, to, item[t].code) = NextRow(t, to, item[t].code)
        BY <1>2, <2>1, CandidateIsNext DEF Transition
    <2>3. Advanced(t, to)
        BY <1>2, <2>1, <2>2 DEF Transition, Advanced
    <2> QED
        BY <2>3 DEF Written
<1>3. CASE StartPlanning(t) \/ StartTools(t) \/ StartValidating(t) \/ Complete(t)
    BY <1>2, <1>3 DEF StartPlanning, StartTools, StartValidating, Complete, Statuses
<1>4. ASSUME NEW kind \in Kinds, NEW k \in Calls \cup {0}, Append1(t, tasks[t], About(kind, k)),
             \/ tasks[t].status = "running_tools" /\ kind \in Contract!Progress.running_tools
             \/ tasks[t].status = "validating" /\ kind \in Contract!Progress.validating
      PROVE  Written(t)
    BY <1>4 DEF Written, Progressed
<1>5. CASE Greet(t) \/ Delta(t)
    <2>1. tasks[t].status = "running_tools"
        BY <1>1, <1>5 DEF Greet, Delta, Emit, Stage, StatusAt
    <2> QED
        BY <1>4, <1>5, <2>1 DEF Greet, Delta, Emit, Kinds, Contract!Progress
<1>6. CASE Announce(t)
    <2>1. tasks[t].status = "completed"
        BY <1>1, <1>6 DEF Announce, Emit, Stage, StatusAt
    <2>2. Announced(t)
        BY <1>6, <2>1 DEF Announce, Emit, Announced
    <2> QED
        BY <2>2 DEF Written
<1>7. CASE StartTool(t) \/ EndTool(t)
    <2>1. cursor[t] \in Calls
        BY <1>7, CursorInCalls DEF StartTool, EndTool, CursorSteps
    <2>2. tasks[t].status = "running_tools"
        BY <1>1, <1>7 DEF StartTool, EndTool, Stage, StatusAt
    <2> QED
        BY <1>4, <1>7, <2>1, <2>2 DEF StartTool, EndTool, Kinds, Contract!Progress
<1>8. ASSUME NEW k \in Calls, CloseTool(t, k)
      PROVE  Written(t)
    <2>1. k \in Started(t) /\ tasks[t].status # "failed"
        BY <1>1, <1>8 DEF CloseTool, Matches, Stage, CleanupSteps
    <2>2. tasks[t].status = "running_tools"
        BY <2>1 DEF OpenWhileRunning
    <2> QED
        BY <1>4, <1>8, <2>2 DEF CloseTool, Kinds, Contract!Progress
<1>9. CASE PersistReply(t) \/ ProposeChart(t) \/ PersistExecution(t)
    <2>1. tasks[t].status = "validating"
        BY <1>1, <1>9 DEF PersistReply, ProposeChart, PersistExecution, Stage, StatusAt
    <2>2. ProposeChart(t) \/ PersistExecution(t) => cursor[t] \in Calls
        BY CursorInCalls DEF ProposeChart, PersistExecution, CursorSteps
    <2> QED
        BY <1>4, <1>9, <2>1, <2>2
        DEF PersistReply, ProposeChart, PersistExecution, Kinds, Contract!Progress
<1>10. CASE MarkFailed(t)
    <2>1. pc[t] \in CleanupSteps /\ err[t] \in Codes
        BY <1>10 DEF MarkFailed, FailIsNext, CleanupSteps, TypeOK
    <2>2. Candidate(t, "failed", err[t]) = NextRow(t, "failed", err[t])
        BY <2>1, CandidateIsNext DEF Statuses
    <2>3. Active(t)
        BY <1>1, <1>10, <2>1 DEF MarkFailed, Settled, Matches, Active, CursorOK, CleanupSteps
    <2>4. Failed(t)
        BY <1>10, <2>1, <2>2, <2>3 DEF MarkFailed, Failed
    <2> QED
        BY <2>4 DEF Written
<1>11. CASE \/ Load(t) \/ LoadFails(t) \/ QueryAnswers(t) \/ QueryFails(t)
            \/ OperationFails(t) \/ NothingToFail(t) \/ CleanupFails(t)
    BY <1>11
    DEF Load, LoadFails, QueryAnswers, QueryFails, OperationFails, NothingToFail, CleanupFails,
        durable
<1> QED
    BY <1>3, <1>5, <1>6, <1>7, <1>8, <1>9, <1>10, <1>11 DEF Work

\* To a reader, every step is one of the five for some task, or none.
LEMMA EveryStepIsWritten ==
    ASSUME TypeOK, CursorOK, MemoryMatches, StageOK, OpenWhileRunning, [Next]_vars
    PROVE  UNCHANGED <<tasks, events>> \/ \E t \in Tasks : Written(t)
<1>1. CASE \E t \in Tasks : Work(t)
    BY <1>1, WorkIsWritten
<1>2. CASE \E t \in Tasks : Create(t)
    BY <1>2 DEF Create, Written, Created
<1>3. CASE \/ \E u \in Tasks : Acquire(u)
           \/ Crash \/ Restart \/ RecoveryFails \/ Serve \/ UNCHANGED vars
    BY <1>3 DEF Acquire, Crash, Restart, RecoveryFails, Serve, durable, vars
<1> QED
    BY <1>1, <1>2, <1>3 DEF Next
-----------------------------------------------------------------------------
(* The end of a log *)

\* Until its event is written, a completed task's log ends with the status.
Announcing ==
    \A t \in Tasks : pc[t] = "announce" =>
        \E e \in events[t] : e.seq = tasks[t].latest /\ e.status = "completed"

\* Only Complete brings a goroutine to the announcement, and it stays there
\* until something is written or the goroutine is gone.
LEMMA AnnounceStep ==
    ASSUME TypeOK, CursorOK, [Next]_vars, NEW t \in Tasks, pc'[t] = "announce"
    PROVE  \/ Complete(t)
           \/ pc[t] = "announce" /\ tasks'[t] = tasks[t] /\ events'[t] = events[t]
<1>1. CASE Work(t)
    BY <1>1
    DEF Work, Load, AfterLoad, LoadFails, StartPlanning, StartTools, StartValidating, Complete,
        Transition, Greet, Delta, Announce, Emit, StartTool, QueryAnswers, QueryFails, EndTool,
        AfterTool, PersistReply, AfterReply, ProposeChart, PersistExecution, AfterChart,
        OperationFails, CloseTool, MarkFailed, NothingToFail, CleanupFails, AfterCleanupError, TypeOK
<1>2. CASE Create(t) \/ Acquire(t)
    BY <1>2 DEF Create, Acquire, TypeOK
<1>3. CASE \E u \in Tasks \ {t} : Create(u) \/ Acquire(u) \/ Work(u)
    <2>1. PICK u \in Tasks \ {t} : Create(u) \/ Acquire(u) \/ Work(u)
        BY <1>3
    <2>2. tasks'[t] = tasks[t] /\ events'[t] = events[t]
        BY <2>1, WorkKeepsOthers, WorkKeepsLogs
    <2>3. pc'[t] = pc[t]
        BY <2>1
        DEF Create, Acquire, Work, Load, LoadFails, StartPlanning, StartTools,
            StartValidating, Complete, Transition, Greet, Delta, Announce, Emit, StartTool,
            QueryAnswers, QueryFails, EndTool, PersistReply, ProposeChart, PersistExecution,
            OperationFails, CloseTool, MarkFailed, NothingToFail, CleanupFails, TypeOK
    <2> QED
        BY <2>2, <2>3
<1>4. CASE Crash \/ Restart \/ RecoveryFails \/ Serve \/ UNCHANGED vars
    BY <1>4 DEF Crash, Restart, RecoveryFails, ProcessGone, Serve, durable, vars
<1> QED
    BY <1>1, <1>2, <1>3, <1>4 DEF Next

\* Only the announcement may follow a completed status.
LEMMA AnnouncingAlways == Spec => []Announcing
<1>1. Init => Announcing
    BY DEF Init, Announcing
<1>2. TypeOK /\ CursorOK /\ MemoryMatches /\ Announcing /\ [Next]_vars => Announcing'
    <2> SUFFICES ASSUME TypeOK, CursorOK, MemoryMatches, Announcing, [Next]_vars, NEW t \in Tasks,
                        pc'[t] = "announce"
                 PROVE  \E e \in events'[t] : e.seq = tasks'[t].latest /\ e.status = "completed"
        BY DEF Announcing
    <2>1. CASE Complete(t)
        <3>1. pc[t] \in RunSteps /\ item[t].code \in Codes
            BY <2>1 DEF Complete, Transition, RunSteps, TransitionSteps, TypeOK, TaskRows
        <3> DEFINE row == NextRow(t, "completed", item[t].code)
        <3>2. Append1(t, row, StatusChanged("completed"))
            BY <2>1, <3>1, CandidateIsNext DEF Complete, Transition, Statuses
        <3>3. tasks'[t].latest = row.latest + 1
            BY <3>2 DEF Append1, TypeOK, NextRow
        <3>4. EventRow(row.latest + 1, StatusChanged("completed")) \in events'[t]
            BY <3>2, AppendAdds
        <3> QED
            BY <3>3, <3>4 DEF EventRow, StatusChanged, Says
    <2> QED
        BY <2>1, AnnounceStep DEF Announcing
<1> QED
    BY <1>1, <1>2, TypeCorrect, MemoryAlwaysMatches, PTL DEF Spec

Endings == {"task.completed", "task.failed"}
EndingOf(status) == IF status = "failed" THEN "task.failed" ELSE "task.completed"

\* The log of an active task says nothing about an end.
NoEnd(t) == \A e \in events[t] : e.status \notin Terminal /\ e.kind \notin Endings

\* The log of a terminal task ends with the terminal status ...
EndsWithStatus(t) ==
    \A e \in events[t] :
        /\ e.kind \notin Endings
        /\ e.status \in Terminal <=> e.seq = tasks[t].latest
        /\ e.status \in Terminal => e.status = tasks[t].status

\* ... or with the event that announces it.
EndsWithEvent(t) ==
    /\ tasks[t].latest >= 2
    /\ \A e \in events[t] :
          /\ e.status \in Terminal <=> e.seq = tasks[t].latest - 1
          /\ e.status \in Terminal => e.status = tasks[t].status
          /\ e.kind \in Endings <=> e.seq = tasks[t].latest
          /\ e.kind \in Endings => e.kind = EndingOf(tasks[t].status)

Ended(t) ==
    IF tasks[t].status \in Terminal THEN EndsWithStatus(t) \/ EndsWithEvent(t) ELSE NoEnd(t)

EndsRight == \A t \in Tasks : Ended(t)

\* What is written for a task keeps the end of its log.
LEMMA EndedStep ==
    ASSUME TypeOK, CursorOK, LogGapless, Announcing, EndsRight, NEW t \in Tasks, Written(t)
    PROVE  Ended(t)'
<1> DEFINE n == tasks[t].latest
<1>1. /\ n \in Nat /\ tasks[t] \in TaskRows
      /\ \A e \in events[t] : e.seq \in 1..n
      /\ \A i \in 1..n : \E e \in events[t] : e.seq = i
      /\ Ended(t)
    <2>1. {e.seq : e \in events[t]} = 1..n
        BY DEF LogGapless
    <2>2. \A e \in events[t] : e.seq \in 1..n
        BY <2>1
    <2>3. \A i \in 1..n : \E e \in events[t] : e.seq = i
        BY <2>1
    <2> QED
        BY <2>2, <2>3 DEF TypeOK, TaskRows, EndsRight
<1>2. CASE Created(t)
    <2>1. n = 0 /\ tasks'[t].status = "created" /\ FirstRow.latest = 0
        BY <1>2 DEF Created, Append1, FirstRow, CursorOK, NoRow, TypeOK
    <2>2. events[t] = {}
        BY <1>1, <2>1
    <2>3. events'[t] = {EventRow(1, Says("task.created", "created", 0))}
        BY <1>2, <2>1, <2>2, AppendAdds DEF Created
    <2> QED
        BY <2>1, <2>3 DEF Ended, NoEnd, Terminal, Endings, EventRow, Says
<1>3. ASSUME NEW to \in Statuses, Advanced(t, to)
      PROVE  Ended(t)'
    <2>1. PICK code \in Codes : Append1(t, NextRow(t, to, code), StatusChanged(to))
        BY <1>3 DEF Advanced
    <2>2. NextRow(t, to, code).latest = n
        BY DEF NextRow
    <2>3. tasks'[t].status = to /\ tasks'[t].latest = n + 1
        BY <2>1 DEF Append1, NextRow, TypeOK
    <2>4. events'[t] = events[t] \cup {EventRow(n + 1, StatusChanged(to))}
        BY <2>1, <2>2, AppendAdds
    <2>5. NoEnd(t) /\ to # "failed"
        BY <1>1, <1>3 DEF Advanced, CanTransition, Ended, Terminal
    <2>6. CASE to \in Terminal
        <3>1. to = "completed"
            BY <2>5, <2>6 DEF Terminal
        <3>2. EndsWithStatus(t)'
            BY <1>1, <2>3, <2>4, <2>5, <3>1
            DEF EndsWithStatus, NoEnd, EventRow, StatusChanged, Says, Terminal, Endings
        <3> QED
            BY <2>3, <2>6, <3>2 DEF Ended
    <2>7. CASE to \notin Terminal
        <3>1. NoEnd(t)'
            BY <2>4, <2>5, <2>7 DEF NoEnd, EventRow, StatusChanged, Says, Endings
        <3> QED
            BY <2>3, <2>7, <3>1 DEF Ended
    <2> QED
        BY <2>6, <2>7
<1>4. CASE Progressed(t)
    <2>1. PICK kind \in Kinds \ Endings, k \in Calls \cup {0} :
             /\ tasks[t].status \in {"running_tools", "validating"}
             /\ Append1(t, tasks[t], About(kind, k))
        BY <1>4 DEF Progressed, Contract!Progress, Endings
    <2>2. tasks'[t].status = tasks[t].status
        BY <2>1, AppendKeepsStatus
    <2>3. events'[t] = events[t] \cup {EventRow(n + 1, About(kind, k))}
        BY <2>1, AppendAdds
    <2>4. NoEnd(t)
        BY <1>1, <2>1 DEF Ended, Terminal
    <2>5. NoEnd(t)'
        BY <2>3, <2>4 DEF NoEnd, EventRow, About, Says, Terminal
    <2> QED
        BY <2>1, <2>2, <2>5 DEF Ended, Terminal
<1>5. CASE Failed(t)
    <2>1. PICK code \in Codes :
             Append2(t, NextRow(t, "failed", code), StatusChanged("failed"), About("task.failed", 0))
        BY <1>5 DEF Failed
    <2>2. NextRow(t, "failed", code).latest = n
        BY DEF NextRow
    <2>3. tasks'[t].status = "failed" /\ tasks'[t].latest = n + 2
        BY <2>1 DEF Append2, NextRow, TypeOK
    <2>4. events'[t] = events[t] \cup {EventRow(n + 1, StatusChanged("failed")),
                                       EventRow(n + 2, About("task.failed", 0))}
        BY <2>1, <2>2, AppendAddsTwo
    <2>5. NoEnd(t)
        BY <1>1, <1>5 DEF Failed, Active, Ended
    <2>6. EndsWithEvent(t)'
        BY <1>1, <2>3, <2>4, <2>5
        DEF EndsWithEvent, NoEnd, EventRow, StatusChanged, About, Says, Terminal, Endings, EndingOf
    <2> QED
        BY <2>3, <2>6 DEF Ended, Terminal
<1>6. CASE Announced(t)
    <2>1. PICK last \in events[t] : last.seq = n /\ last.status = "completed"
        BY <1>6 DEF Announced, Announcing
    <2>2. EndsWithStatus(t)
        BY <1>1, <1>6, <2>1 DEF Announced, Ended, EndsWithEvent, Terminal
    <2>3. tasks'[t].status = "completed" /\ tasks'[t].latest = n + 1
        BY <1>6 DEF Announced, Append1, TypeOK, TaskRows
    <2>4. events'[t] = events[t] \cup {EventRow(n + 1, About("task.completed", 0))}
        BY <1>6, AppendAdds DEF Announced
    <2>5. EndsWithEvent(t)'
        BY <1>1, <1>6, <2>1, <2>2, <2>3, <2>4
        DEF Announced, EndsWithEvent, EndsWithStatus, EventRow, About, Says, Terminal, Endings, EndingOf
    <2> QED
        BY <2>3, <2>5 DEF Ended, Terminal
<1> QED
    BY <1>2, <1>3, <1>4, <1>5, <1>6 DEF Written

\* What is written for a task leaves rows and logs of the others alone.
LEMMA WrittenKeepsOthers ==
    ASSUME TypeOK, NEW t \in Tasks, Written(t), NEW u \in Tasks \ {t}
    PROVE  tasks'[u] = tasks[u] /\ events'[u] = events[u]
<1>1. \A row, e : Append1(t, row, e) => tasks'[u] = tasks[u] /\ events'[u] = events[u]
    BY DEF Append1, TypeOK
<1>2. \A row, e, f : Append2(t, row, e, f) => tasks'[u] = tasks[u] /\ events'[u] = events[u]
    BY DEF Append2, TypeOK
<1> QED
    BY <1>1, <1>2 DEF Written, Created, Advanced, Progressed, Failed, Announced

\* The log of a terminal task ends as its status says.
LEMMA EndsAlwaysRight == Spec => []EndsRight
<1>1. Init => EndsRight
    BY DEF Init, NoRow, EndsRight, Ended, NoEnd, Terminal
<1>2. TypeOK /\ CursorOK /\ MemoryMatches /\ StageOK /\ OpenWhileRunning /\ LogGapless
        /\ Announcing /\ EndsRight /\ [Next]_vars => EndsRight'
    <2> SUFFICES ASSUME TypeOK, CursorOK, MemoryMatches, StageOK, OpenWhileRunning,
                        LogGapless, Announcing, EndsRight, [Next]_vars
                 PROVE  EndsRight'
        OBVIOUS
    <2>1. CASE UNCHANGED <<tasks, events>>
        BY <2>1 DEF EndsRight, Ended, NoEnd, EndsWithStatus, EndsWithEvent
    <2>2. ASSUME NEW t \in Tasks, Written(t)
          PROVE  EndsRight'
        <3>1. Ended(t)'
            BY <2>2, EndedStep
        <3>2. \A u \in Tasks \ {t} : tasks'[u] = tasks[u] /\ events'[u] = events[u]
            BY <2>2, WrittenKeepsOthers
        <3>3. \A u \in Tasks \ {t} : Ended(u)'
            BY <3>2 DEF EndsRight, Ended, NoEnd, EndsWithStatus, EndsWithEvent
        <3> QED
            BY <3>1, <3>3 DEF EndsRight
    <2> QED
        BY <2>1, <2>2, EveryStepIsWritten
<1> QED
    BY <1>1, <1>2, TypeCorrect, MemoryAlwaysMatches, StageAlwaysOK, OpenAlwaysRuns, LogIsGapless,
       AnnouncingAlways, PTL DEF Spec

\* A terminal status event is the last of its log but for the terminal event,
\* and that one comes directly after it: whoever writes them, the run, its
\* clean-up or a recovery, a client that closes on them has missed nothing.
THEOREM LogEndsTerminal == Spec => []TerminalEndsLog
<1>1. TypeOK /\ LogGapless /\ EndsRight => TerminalEndsLog
    <2> SUFFICES ASSUME TypeOK, LogGapless, EndsRight, NEW t \in Tasks, NEW e \in events[t]
                 PROVE  /\ e.status \in Terminal =>
                             \A f \in events[t] : f.seq > e.seq =>
                                /\ f.seq = e.seq + 1
                                /\ f.kind = (IF e.status = "failed" THEN "task.failed" ELSE "task.completed")
                        /\ e.kind \in {"task.completed", "task.failed"} =>
                             \E f \in events[t] : f.seq = e.seq - 1 /\ f.status \in Terminal
        BY DEF TerminalEndsLog
    <2> DEFINE n == tasks[t].latest
    <2>1. n \in Nat /\ Ended(t)
        BY DEF TypeOK, TaskRows, EndsRight
    <2>2. \A f \in events[t] : f.seq \in 1..n
        BY DEF LogGapless
    <2>3. \A i \in 1..n : \E f \in events[t] : f.seq = i
        <3>1. 1..n = {f.seq : f \in events[t]}
            BY DEF LogGapless
        <3> QED
            BY <3>1
    <2>4. CASE NoEnd(t)
        BY <2>4 DEF NoEnd, Endings
    <2>5. CASE EndsWithStatus(t)
        BY <2>1, <2>2, <2>5 DEF EndsWithStatus, Endings
    <2>6. CASE EndsWithEvent(t)
        <3>1. \E f \in events[t] : f.seq = n - 1
            BY <2>1, <2>3, <2>6 DEF EndsWithEvent
        <3> QED
            BY <2>1, <2>2, <2>6, <3>1 DEF EndsWithEvent, Endings, EndingOf
    <2> QED
        BY <2>1, <2>4, <2>5, <2>6 DEF Ended
<1> QED
    BY <1>1, TypeCorrect, LogIsGapless, EndsAlwaysRight, PTL
-----------------------------------------------------------------------------
(* What a completed task holds *)

CallsDone(t, n) == \A k \in 1..n : tools[t][k] = "completed"
ChartsDone(t, n) == \A k \in 1..n : charts[t][k] = "ready"

\* How much of the plan is done at each step: the loops leave nothing out.
Delivery(t) ==
    /\ pc[t] \in {"tool_start", "query", "tool_end"} => CallsDone(t, cursor[t] - 1)
    /\ pc[t] \in {"validating", "reply", "chart", "execution", "complete", "announce"} =>
          CallsDone(t, Views[t])
    /\ pc[t] \in {"chart", "execution"} => reply[t] /\ ChartsDone(t, cursor[t] - 1)
    /\ pc[t] \in {"complete", "announce"} \/ tasks[t].status = "completed" =>
          reply[t] /\ CallsDone(t, Views[t]) /\ ChartsDone(t, Views[t])

Delivering == \A t \in Tasks : Delivery(t)

\* Steps that write no tool call, chart or reply.
LEMMA DeliveryKept ==
    ASSUME TypeOK, CursorOK, NEW t \in Tasks, Delivery(t), UNCHANGED <<tools, charts, reply>>,
           cursor'[t] = cursor[t],
           \/ pc'[t] = pc[t]
           \/ pc[t] = "query" /\ pc'[t] = "tool_end"
           \/ pc[t] = "validating" /\ pc'[t] = "reply"
           \/ pc'[t] \notin {"tool_start", "query", "tool_end", "validating", "reply", "chart",
                             "execution", "complete", "announce"},
           tasks'[t].status = tasks[t].status \/ tasks'[t].status # "completed"
    PROVE  Delivery(t)'
BY DEF Delivery, CallsDone, ChartsDone

\* The work on a task delivers one part after the other.
LEMMA DeliveryStep ==
    ASSUME TypeOK, CursorOK, MemoryMatches, StageOK, Delivering, NEW t \in Tasks, Work(t)
    PROVE  Delivery(t)'
<1> USE DEF RunSteps, TransitionSteps
<1>1. Stage(t) /\ Delivery(t) /\ cursor[t] \in Nat \ {0} /\ Views[t] \in 0..MaxViews /\ MaxViews \in Nat
    BY WorkflowAssumption DEF StageOK, Delivering, TypeOK
<1>2. ASSUME NEW at, NEW to \in Statuses, NEW then, Transition(t, at, to, then)
      PROVE  tasks'[t].status = to
    <2>1. /\ Candidate(t, to, item[t].code) \in TaskRows
          /\ Candidate(t, to, item[t].code).status = to
        BY CandidateType DEF TypeOK, TaskRows
    <2> QED
        BY <1>2, <2>1 DEF Transition, Append1, TypeOK, TaskRows
<1>3. CASE StartPlanning(t) \/ StartTools(t) \/ StartValidating(t)
    <2>1. tasks'[t].status # "completed"
        BY <1>2, <1>3 DEF StartPlanning, StartTools, StartValidating, Statuses
    <2> QED
        BY <1>1, <1>3, <2>1, DeliveryKept
        DEF StartPlanning, StartTools, StartValidating, Transition, TypeOK
<1>4. CASE Complete(t)
    BY <1>1, <1>4 DEF Complete, Transition, Delivery, CallsDone, ChartsDone, TypeOK
<1>5. CASE Greet(t)
    <2>1. tasks'[t].status = tasks[t].status
        BY <1>5, AppendKeepsStatus DEF Greet, Emit
    <2> QED
        BY <1>1, <1>5, <2>1, DeliveryKept DEF Greet, Emit, TypeOK
<1>6. CASE Delta(t)
    <2>1. tasks'[t].status = tasks[t].status /\ tasks[t].status = "running_tools"
        BY <1>1, <1>6, AppendKeepsStatus DEF Delta, Emit, Stage, StatusAt
    <2>2. cursor'[t] = 1
        BY <1>6 DEF Delta, Emit, CursorOK, EarlySteps
    <2>3. CASE Views[t] = 0
        <3>1. pc'[t] = "validating"
            BY <1>6, <2>3 DEF Delta, Emit, TypeOK
        <3> QED
            BY <2>1, <2>3, <3>1 DEF Delivery, CallsDone
    <2>4. CASE Views[t] # 0
        <3>1. pc'[t] = "tool_start"
            BY <1>6, <2>4 DEF Delta, Emit, TypeOK
        <3> QED
            BY <2>1, <2>2, <3>1 DEF Delivery, CallsDone
    <2> QED
        BY <2>3, <2>4
<1>7. CASE Announce(t)
    <2>1. tasks'[t].status = tasks[t].status
        BY <1>7, AppendKeepsStatus DEF Announce, Emit
    <2> QED
        BY <1>1, <1>7, <2>1, DeliveryKept DEF Announce, Emit, TypeOK
<1>8. CASE StartTool(t)
    <2>1. cursor[t] \in Calls
        BY <1>8, CursorInCalls DEF StartTool, CursorSteps
    <2>2. tasks'[t].status = tasks[t].status /\ tasks[t].status = "running_tools"
        BY <1>1, <1>8, AppendKeepsStatus DEF StartTool, Stage, StatusAt
    <2>3. pc'[t] = "query" /\ pc[t] = "tool_start" /\ cursor'[t] = cursor[t]
        BY <1>8 DEF StartTool, TypeOK
    <2>4. \A k \in 1..(cursor[t] - 1) : tools'[t][k] = tools[t][k]
        BY <1>1, <1>8 DEF StartTool, TypeOK
    <2> QED
        BY <1>1, <2>2, <2>3, <2>4 DEF Delivery, CallsDone
<1>9. CASE EndTool(t)
    <2>1. cursor[t] \in Calls /\ cursor[t] <= Views[t]
        BY <1>9, CursorInCalls DEF EndTool, CursorSteps
    <2>2. tasks'[t].status = tasks[t].status /\ tasks[t].status = "running_tools"
        BY <1>1, <1>9, AppendKeepsStatus DEF EndTool, Stage, StatusAt
    <2>3. /\ pc'[t] = AfterTool(t) /\ pc[t] = "tool_end" /\ cursor'[t] = cursor[t] + 1
          /\ tools'[t] = [tools[t] EXCEPT ![cursor[t]] = "completed"]
        BY <1>9 DEF EndTool, TypeOK
    <2>4. \A k \in 1..cursor[t] : tools'[t][k] = "completed"
        <3>1. \A k \in 1..(cursor[t] - 1) : tools'[t][k] = "completed"
            BY <1>1, <2>3 DEF Delivery, CallsDone
        <3>2. tools'[t][cursor[t]] = "completed"
            BY <2>1, <2>3 DEF TypeOK
        <3> QED
            BY <1>1, <3>1, <3>2
    <2> QED
        BY <1>1, <2>1, <2>2, <2>3, <2>4 DEF Delivery, CallsDone, AfterTool, LastView
<1>10. CASE \E k \in Calls : CloseTool(t, k)
    <2>1. tasks'[t].status = tasks[t].status /\ pc'[t] = pc[t] /\ pc[t] = "close_tools"
        BY <1>10, AppendKeepsStatus DEF CloseTool
    <2>2. tasks[t].status # "completed"
        BY <1>10, WorkAtTerminal, <2>1 DEF CloseTool, StageOK, OpenCall, MemoryMatches, Matches, CleanupSteps
    <2> QED
        BY <2>1, <2>2 DEF Delivery
<1>11. CASE PersistReply(t)
    <2>1. tasks'[t].status = tasks[t].status /\ tasks[t].status = "validating"
        BY <1>1, <1>11, AppendKeepsStatus DEF PersistReply, Stage, StatusAt
    <2>2. /\ reply'[t] = TRUE /\ cursor'[t] = 1 /\ tools' = tools
          /\ pc[t] = "reply" /\ pc'[t] = AfterReply(t)
        BY <1>11 DEF PersistReply, TypeOK
    <2> QED
        BY <1>1, <2>1, <2>2 DEF Delivery, CallsDone, ChartsDone, AfterReply
<1>12. CASE ProposeChart(t)
    <2>1. tasks'[t].status = tasks[t].status /\ tasks[t].status = "validating"
        BY <1>1, <1>12, AppendKeepsStatus DEF ProposeChart, Stage, StatusAt
    <2>2. pc'[t] = "execution" /\ pc[t] = "chart" /\ UNCHANGED <<tools, reply, cursor>>
        BY <1>12 DEF ProposeChart, TypeOK
    <2>3. \A k \in 1..(cursor[t] - 1) : charts'[t][k] = charts[t][k]
        BY <1>1, <1>12 DEF ProposeChart, TypeOK
    <2> QED
        BY <1>1, <2>1, <2>2, <2>3 DEF Delivery, CallsDone, ChartsDone
<1>13. CASE PersistExecution(t)
    <2>1. cursor[t] \in Calls /\ cursor[t] <= Views[t]
        BY <1>13, CursorInCalls DEF PersistExecution, CursorSteps
    <2>2. tasks'[t].status = tasks[t].status /\ tasks[t].status = "validating"
        BY <1>1, <1>13, AppendKeepsStatus DEF PersistExecution, Stage, StatusAt
    <2>3. /\ pc'[t] = AfterChart(t) /\ pc[t] = "execution" /\ cursor'[t] = cursor[t] + 1
          /\ charts'[t] = [charts[t] EXCEPT ![cursor[t]] = "ready"]
          /\ UNCHANGED <<tools, reply>>
        BY <1>13 DEF PersistExecution, TypeOK
    <2>4. \A k \in 1..cursor[t] : charts'[t][k] = "ready"
        <3>1. \A k \in 1..(cursor[t] - 1) : charts'[t][k] = "ready"
            BY <1>1, <2>3 DEF Delivery, ChartsDone
        <3>2. charts'[t][cursor[t]] = "ready"
            BY <2>1, <2>3 DEF TypeOK
        <3> QED
            BY <1>1, <3>1, <3>2
    <2> QED
        BY <1>1, <2>1, <2>2, <2>3, <2>4 DEF Delivery, CallsDone, ChartsDone, AfterChart, LastView
<1>14. CASE MarkFailed(t)
    <2>1. /\ Candidate(t, "failed", err[t]) \in TaskRows
          /\ Candidate(t, "failed", err[t]).status = "failed"
        BY CandidateType DEF TypeOK, Statuses
    <2>2. tasks'[t].status = "failed"
        BY <1>14, <2>1 DEF MarkFailed, Append2, TypeOK, TaskRows
    <2> QED
        BY <1>1, <1>14, <2>2, DeliveryKept DEF MarkFailed, TypeOK
<1>15. CASE \/ Load(t) \/ LoadFails(t) \/ QueryAnswers(t) \/ QueryFails(t)
            \/ OperationFails(t) \/ NothingToFail(t) \/ CleanupFails(t)
    BY <1>1, <1>15, DeliveryKept
    DEF Load, AfterLoad, LoadFails, QueryAnswers, QueryFails, OperationFails, NothingToFail,
        CleanupFails, AfterCleanupError, durable, TypeOK
<1> QED
    BY <1>3, <1>4, <1>5, <1>6, <1>7, <1>8, <1>9, <1>10, <1>11, <1>12, <1>13, <1>14, <1>15 DEF Work

\* Every step keeps what was delivered.
LEMMA DeliveryNext ==
    ASSUME TypeOK, CursorOK, MemoryMatches, StageOK, Delivering, [Next]_vars, NEW t \in Tasks
    PROVE  Delivery(t)'
<1>1. Delivery(t)
    BY DEF Delivering
<1>2. CASE Work(t)
    BY <1>2, DeliveryStep
<1>3. CASE Create(t)
    <2>1. tasks'[t].status = "created" /\ pc'[t] = "queued"
        <3>1. FirstRow \in TaskRows /\ FirstRow.status = "created"
            BY DEF FirstRow, TaskRows, Statuses, Codes
        <3> QED
            BY <1>3, <3>1 DEF Create, Append1, TypeOK, TaskRows
    <2> QED
        BY <2>1 DEF Delivery
<1>4. CASE Acquire(t)
    BY <1>1, <1>4, DeliveryKept DEF Acquire, durable, TypeOK
<1>5. CASE \E u \in Tasks \ {t} : Create(u) \/ Acquire(u) \/ Work(u)
    <2>1. PICK u \in Tasks \ {t} : Create(u) \/ Acquire(u) \/ Work(u)
        BY <1>5
    <2>2. /\ tasks'[t] = tasks[t] /\ tools'[t] = tools[t]
          /\ charts'[t] = charts[t] /\ reply'[t] = reply[t]
        BY <2>1, WorkKeepsOthers
    <2>3. pc'[t] = pc[t] /\ cursor'[t] = cursor[t]
        BY <2>1
        DEF Create, Acquire, Work, Load, LoadFails, StartPlanning, StartTools,
            StartValidating, Complete, Transition, Greet, Delta, Announce, Emit, StartTool,
            QueryAnswers, QueryFails, EndTool, PersistReply, ProposeChart, PersistExecution,
            OperationFails, CloseTool, MarkFailed, NothingToFail, CleanupFails, TypeOK
    <2> QED
        BY <1>1, <2>2, <2>3 DEF Delivery, CallsDone, ChartsDone
<1>6. CASE Crash \/ RecoveryFails
    BY <1>1, <1>6 DEF Crash, RecoveryFails, ProcessGone, durable, Delivery, CallsDone, ChartsDone
<1>7. CASE Restart
    BY <1>1, <1>7 DEF Restart, durable, Delivery, CallsDone, ChartsDone
<1>8. CASE Serve \/ UNCHANGED vars
    BY <1>1, <1>8 DEF Serve, durable, vars, Delivery, CallsDone, ChartsDone
<1> QED
    BY <1>2, <1>3, <1>4, <1>5, <1>6, <1>7, <1>8 DEF Next

\* A completed task has its reply and, for every view of its plan, a completed
\* call and a chart with its execution, whatever failed or was repeated.
THEOREM CompletedIsWhole == Spec => []CompletedIsDelivered
<1>1. Init => Delivering
    BY DEF Init, NoRow, Delivering, Delivery
<1>2. TypeOK /\ CursorOK /\ MemoryMatches /\ StageOK /\ Delivering /\ [Next]_vars => Delivering'
    BY DeliveryNext DEF Delivering
<1>3. Delivering => CompletedIsDelivered
    BY DEF Delivering, Delivery, CallsDone, ChartsDone, CompletedIsDelivered
<1> QED
    BY <1>1, <1>2, <1>3, TypeCorrect, MemoryAlwaysMatches, StageAlwaysOK, PTL DEF Spec
-----------------------------------------------------------------------------
(* The workflow implements the contract: the log as a sequence *)

\* Sequences tell the rows of a log apart.
LEMMA OneRow ==
    ASSUME NEW S, \A x, y \in S : x.seq = y.seq => x = y, NEW e \in S
    PROVE  (CHOOSE x \in S : x.seq = e.seq) = e
<1>1. \E x \in S : x.seq = e.seq
    OBVIOUS
<1>2. (CHOOSE x \in S : x.seq = e.seq) \in S /\ (CHOOSE x \in S : x.seq = e.seq).seq = e.seq
    BY <1>1
<1> QED
    BY <1>2

\* A row says what was appended.
LEMMA RowSays ==
    ASSUME NEW seq, NEW e \in Contents
    PROVE  /\ EventRow(seq, e).seq = seq
           /\ Says(EventRow(seq, e).kind, EventRow(seq, e).status, EventRow(seq, e).call) = e
BY DEF EventRow, Says, Contents

\* The log that n rows are, and the sequences 1..n, each used once.
Rows(S, n) == [i \in 1..n |-> LET e == CHOOSE e \in S : e.seq = i IN Says(e.kind, e.status, e.call)]

OneEach(S, n) ==
    /\ \A x, y \in S : x.seq = y.seq => x = y
    /\ \A x \in S : x.seq \in 1..n
    /\ \A i \in 1..n : \E x \in S : x.seq = i

\* A new row with the next sequence is the new last element of the log.
LEMMA RowsGrow ==
    ASSUME NEW n \in Nat, NEW S, NEW e \in Contents, OneEach(S, n)
    PROVE  Rows(S \cup {EventRow(n + 1, e)}, n + 1) = Append(Rows(S, n), e)
<1> DEFINE new == EventRow(n + 1, e)
           T == S \cup {new}
           now == Rows(T, n + 1)
           was == Rows(S, n)
<1>1. /\ \A x, y \in S : x.seq = y.seq => x = y
      /\ \A x \in S : x.seq \in 1..n
      /\ \A i \in 1..n : \E x \in S : x.seq = i
    BY DEF OneEach
<1>2. new.seq = n + 1 /\ Says(new.kind, new.status, new.call) = e
    BY RowSays
<1>3. \A x, y \in T : x.seq = y.seq => x = y
    BY <1>1, <1>2
<1>4. now[n + 1] = e
    <2>1. (CHOOSE x \in T : x.seq = n + 1) = new
        <3> HIDE DEF new, T
        <3>1. new \in T
            BY DEF T
        <3> QED
            BY <1>2, <1>3, <3>1, OneRow
    <2> QED
        BY <1>2, <2>1 DEF Rows
<1>5. ASSUME NEW i \in 1..n
      PROVE  now[i] = was[i]
    <2>1. PICK x \in S : x.seq = i
        BY <1>1
    <2>2. x \in T
        BY <2>1
    <2>3. (CHOOSE y \in S : y.seq = i) = x
        BY <1>1, <2>1, OneRow
    <2>4. (CHOOSE y \in T : y.seq = i) = x
        <3> HIDE DEF T
        <3> QED
            BY <1>3, <2>1, <2>2, OneRow
    <2> QED
        BY <2>3, <2>4 DEF Rows
<1> DEFINE V == {was[i] : i \in 1..n} \cup {e}
<1>6. was \in Seq(V) /\ Len(was) = n /\ e \in V
    <2>1. was \in [1..n -> V]
        BY DEF Rows
    <2> QED
        BY <2>1
<1>7. now \in Seq(V) /\ Len(now) = n + 1
    <2>1. \A i \in 1..n : was[i] \in V
        OBVIOUS
    <2>2. now = [i \in 1..(n + 1) |-> now[i]]
        BY DEF Rows
    <2> HIDE DEF now, was, V
    <2>3. \A i \in 1..(n + 1) : now[i] \in V
        BY <1>4, <1>5, <1>6, <2>1
    <2>4. now \in [1..(n + 1) -> V]
        BY <2>2, <2>3
    <2> QED
        BY <2>4
<1> HIDE DEF now, was, V
<1>8. /\ Append(was, e) \in Seq(V)
      /\ Len(Append(was, e)) = n + 1
      /\ \A i \in 1..n : Append(was, e)[i] = was[i]
      /\ Append(was, e)[n + 1] = e
    BY <1>6, AppendProperties
<1>9. \A i \in 1..(n + 1) : now[i] = Append(was, e)[i]
    BY <1>4, <1>5, <1>8
<1>10. now = Append(was, e)
    BY <1>7, <1>8, <1>9, SeqEqual
<1> QED
    BY <1>10 DEF now, was

\* A gapless log names each of its sequences once.
LEMMA GaplessRows ==
    ASSUME LogGapless, NEW t \in Tasks
    PROVE  OneEach(events[t], tasks[t].latest)
<1>1. {e.seq : e \in events[t]} = 1..tasks[t].latest
    BY DEF LogGapless
<1>2. \A x, y \in events[t] : x.seq = y.seq => x = y
    BY DEF LogGapless
<1>3. \A x \in events[t] : x.seq \in 1..tasks[t].latest
    BY <1>1
<1>4. \A i \in 1..tasks[t].latest : \E x \in events[t] : x.seq = i
    BY <1>1
<1> QED
    BY <1>2, <1>3, <1>4 DEF OneEach

\* What one append does to the log of its task.
LEMMA LogAppends ==
    ASSUME TypeOK, LogGapless, NEW t \in Tasks, NEW row \in TaskRows, row.latest = tasks[t].latest,
           NEW e \in Contents, Append1(t, row, e)
    PROVE  LogOf(t)' = Append(LogOf(t), e)
<1> DEFINE n == tasks[t].latest
           new == EventRow(n + 1, e)
<1>1. n \in Nat /\ tasks'[t].latest = n + 1
    BY DEF Append1, TypeOK, TaskRows
<1>2. events'[t] = events[t] \cup {new}
    BY AppendAdds
<1>3. OneEach(events[t], n)
    BY GaplessRows
<1>4. LogOf(t) = Rows(events[t], n)
    BY DEF LogOf, Rows
<1>5. LogOf(t)' = Rows(events[t] \cup {new}, n + 1)
    BY <1>1, <1>2 DEF LogOf, Rows
<1> HIDE DEF n
<1>6. Rows(events[t] \cup {new}, n + 1) = Append(Rows(events[t], n), e)
    BY <1>1, <1>3, RowsGrow
<1> QED
    BY <1>4, <1>5, <1>6

\* Two appends of one transaction come one after the other.
LEMMA LogAppendsTwo ==
    ASSUME TypeOK, LogGapless, NEW t \in Tasks, NEW row \in TaskRows, row.latest = tasks[t].latest,
           NEW e \in Contents, NEW f \in Contents, Append2(t, row, e, f)
    PROVE  LogOf(t)' = Append(Append(LogOf(t), e), f)
<1> DEFINE n == tasks[t].latest
           S == events[t]
           row1 == EventRow(n + 1, e)
           row2 == EventRow(n + 2, f)
<1>1. n \in Nat /\ n + 1 \in Nat /\ n + 1 + 1 = n + 2 /\ tasks'[t].latest = n + 2
    BY DEF Append2, TypeOK, TaskRows
<1>2. events'[t] = (S \cup {row1}) \cup {row2}
    BY AppendAddsTwo
<1>3. OneEach(S, n)
    BY GaplessRows
<1>4. row1.seq = n + 1
    BY RowSays
<1>5. OneEach(S \cup {row1}, n + 1)
    <2> HIDE DEF row1, n, S
    <2> QED
        BY <1>1, <1>3, <1>4 DEF OneEach
<1>6. LogOf(t) = Rows(S, n)
    BY DEF LogOf, Rows
<1>7. LogOf(t)' = Rows((S \cup {row1}) \cup {row2}, n + 2)
    BY <1>1, <1>2 DEF LogOf, Rows
<1>8. Rows(S \cup {row1}, n + 1) = Append(Rows(S, n), e)
    <2> HIDE DEF n, S
    <2> QED
        BY <1>1, <1>3, RowsGrow
<1>9. Rows((S \cup {row1}) \cup {row2}, n + 2) = Append(Rows(S \cup {row1}, n + 1), f)
    <2> DEFINE S2 == S \cup {row1}
               m == n + 1
    <2>1. m \in Nat /\ OneEach(S2, m)
        BY <1>1, <1>5
    <2>2. row2 = EventRow(m + 1, f) /\ n + 2 = m + 1
        BY <1>1
    <2> HIDE DEF S2, m, row2
    <2>3. Rows(S2 \cup {EventRow(m + 1, f)}, m + 1) = Append(Rows(S2, m), f)
        BY <2>1, RowsGrow
    <2> QED
        BY <2>2, <2>3 DEF S2, m
<1> QED
    BY <1>6, <1>7, <1>8, <1>9

\* The log is a sequence of events.
LEMMA LogType ==
    ASSUME TypeOK, LogGapless, NEW t \in Tasks
    PROVE  LogOf(t) \in Seq(Contents)
<1> DEFINE n == tasks[t].latest
           said(i) == Says((CHOOSE e \in events[t] : e.seq = i).kind,
                           (CHOOSE e \in events[t] : e.seq = i).status,
                           (CHOOSE e \in events[t] : e.seq = i).call)
<1>1. n \in Nat /\ events[t] \subseteq EventRows /\ OneEach(events[t], n)
    BY GaplessRows DEF TypeOK, TaskRows
<1>2. ASSUME NEW i \in 1..n
      PROVE  said(i) \in Contents
    <2>1. \E e \in events[t] : e.seq = i
        BY <1>1, <1>2 DEF OneEach
    <2>2. (CHOOSE e \in events[t] : e.seq = i) \in EventRows
        BY <1>1, <2>1
    <2> QED
        BY <2>2 DEF EventRows, Says, Contents
<1>3. LogOf(t) = [i \in 1..n |-> said(i)]
    BY DEF LogOf
<1> HIDE DEF said, n
<1>4. LogOf(t) \in [1..n -> Contents]
    BY <1>2, <1>3
<1> QED
    BY <1>1, <1>4

\* A log whose rows stay is the same log.
LEMMA LogKept ==
    ASSUME NEW t \in Tasks, tasks'[t] = tasks[t], events'[t] = events[t]
    PROVE  LogOf(t)' = LogOf(t)
<1>1. LogOf(t) = Rows(events[t], tasks[t].latest)
    BY DEF LogOf, Rows
<1>2. LogOf(t)' = Rows(events'[t], tasks'[t].latest)
    BY DEF LogOf, Rows
<1> QED
    BY <1>1, <1>2
-----------------------------------------------------------------------------
(* The workflow implements the contract: step by step *)

\* What the contract's variables stand for.
SeenStatus == [t \in Tasks |-> tasks[t].status]
SeenVersion == [t \in Tasks |-> tasks[t].version]
SeenLog == [t \in Tasks |-> LogOf(t)]

\* Seen by a reader, a write of a row with one event is a commit.
LEMMA WriteIsCommit ==
    ASSUME TypeOK, LogGapless, NEW t \in Tasks, NEW row \in TaskRows, NEW e \in Contents,
           row.latest = tasks[t].latest, row.version = tasks[t].version + 1, Append1(t, row, e)
    PROVE  Contract!Commit(t, row.status, <<e>>)
<1>1. LogOf(t)' = Append(LogOf(t), e)
    BY LogAppends
<1>2. LogOf(t)' = LogOf(t) \o <<e>>
    BY <1>1, LogType, AppendIsConcat
<1>3. /\ tasks'[t].status = row.status /\ tasks'[t].version = tasks[t].version + 1
      /\ \A u \in Tasks \ {t} : tasks'[u] = tasks[u] /\ events'[u] = events[u]
    BY DEF Append1, TypeOK, TaskRows
<1>4. \A u \in Tasks \ {t} : LogOf(u)' = LogOf(u)
    BY <1>3, LogKept
<1>5. SeenStatus' = [SeenStatus EXCEPT ![t] = row.status]
    BY <1>3 DEF SeenStatus
<1>6. SeenVersion' = [SeenVersion EXCEPT ![t] = @ + 1]
    BY <1>3 DEF SeenVersion
<1>7. SeenLog' = [SeenLog EXCEPT ![t] = @ \o <<e>>]
    BY <1>2, <1>4 DEF SeenLog
<1> QED
    BY <1>5, <1>6, <1>7 DEF Contract!Commit, SeenStatus, SeenVersion, SeenLog

\* The same of a write with two events.
LEMMA WriteOfTwoIsCommit ==
    ASSUME TypeOK, LogGapless, NEW t \in Tasks, NEW row \in TaskRows,
           NEW e \in Contents, NEW f \in Contents,
           row.latest = tasks[t].latest, row.version = tasks[t].version + 1, Append2(t, row, e, f)
    PROVE  Contract!Commit(t, row.status, <<e, f>>)
<1>1. LogOf(t)' = Append(Append(LogOf(t), e), f)
    BY LogAppendsTwo
<1>2. LogOf(t)' = LogOf(t) \o <<e, f>>
    BY <1>1, LogType
<1>3. /\ tasks'[t].status = row.status /\ tasks'[t].version = tasks[t].version + 1
      /\ \A u \in Tasks \ {t} : tasks'[u] = tasks[u] /\ events'[u] = events[u]
    BY DEF Append2, TypeOK, TaskRows
<1>4. \A u \in Tasks \ {t} : LogOf(u)' = LogOf(u)
    BY <1>3, LogKept
<1>5. SeenStatus' = [SeenStatus EXCEPT ![t] = row.status]
    BY <1>3 DEF SeenStatus
<1>6. SeenVersion' = [SeenVersion EXCEPT ![t] = @ + 1]
    BY <1>3 DEF SeenVersion
<1>7. SeenLog' = [SeenLog EXCEPT ![t] = @ \o <<e, f>>]
    BY <1>2, <1>4 DEF SeenLog
<1> QED
    BY <1>5, <1>6, <1>7 DEF Contract!Commit, SeenStatus, SeenVersion, SeenLog

\* An event appended to the row as it is changes the log only.
LEMMA AppendIsReport ==
    ASSUME TypeOK, LogGapless, NEW t \in Tasks, NEW e \in Contents, Append1(t, tasks[t], e)
    PROVE  /\ SeenLog' = [SeenLog EXCEPT ![t] = Append(@, e)]
           /\ UNCHANGED <<SeenStatus, SeenVersion>>
<1>1. LogOf(t)' = Append(LogOf(t), e)
    BY LogAppends DEF TypeOK
<1>2. /\ \A u \in Tasks : tasks'[u].status = tasks[u].status /\ tasks'[u].version = tasks[u].version
      /\ \A u \in Tasks \ {t} : tasks'[u] = tasks[u] /\ events'[u] = events[u]
    BY DEF Append1, TypeOK, TaskRows
<1>3. \A u \in Tasks \ {t} : LogOf(u)' = LogOf(u)
    BY <1>2, LogKept
<1>4. UNCHANGED <<SeenStatus, SeenVersion>>
    BY <1>2 DEF SeenStatus, SeenVersion
<1>5. SeenLog' = [SeenLog EXCEPT ![t] = Append(@, e)]
    BY <1>1, <1>3 DEF SeenLog
<1> QED
    BY <1>4, <1>5

\* Before completion is announced, the log ends with the status.
LEMMA LastIsStatus ==
    ASSUME TypeOK, LogGapless, Announcing, EndsRight, NEW t \in Tasks, pc[t] = "announce",
           tasks[t].status = "completed"
    PROVE  LogOf(t)[Len(LogOf(t))].kind # "task.completed"
<1> DEFINE n == tasks[t].latest
<1>1. PICK last \in events[t] : last.seq = n /\ last.status = "completed"
    BY DEF Announcing
<1>2. last.kind # "task.completed"
    BY <1>1, SMTT(30) DEF EndsRight, Ended, EndsWithStatus, EndsWithEvent, Terminal, Endings, TypeOK, TaskRows
<1>3. n \in Nat \ {0}
    BY <1>1 DEF TypeOK, TaskRows, EventRows
<1>4. Len(LogOf(t)) = n
    BY <1>3 DEF LogOf
<1>5. (CHOOSE e \in events[t] : e.seq = n) = last
    BY <1>1, OneRow, GaplessRows DEF OneEach
<1>6. LogOf(t)[n] = Says(last.kind, last.status, last.call)
    BY <1>3, <1>5 DEF LogOf
<1> QED
    BY <1>2, <1>4, <1>6 DEF Says

\* The five writes are the five steps of the contract.
LEMMA WrittenIsContract ==
    ASSUME TypeOK, CursorOK, LogGapless, Announcing, EndsRight, NEW t \in Tasks, Written(t)
    PROVE  Contract!Next
<1>1. /\ tasks[t] \in TaskRows
      /\ SeenStatus[t] = tasks[t].status /\ SeenLog[t] = LogOf(t)
      /\ \A u \in Tasks : Contract!Active(u) <=> Active(u)
    <2>1. \A u \in Tasks : tasks[u].status \in Statuses \cup {"absent"}
        BY DEF TypeOK, TaskRows
    <2>2. DOMAIN Contract!NextStatus = {"created", "planning", "running_tools", "validating"}
        BY DEF Contract!NextStatus
    <2> QED
        BY <2>1, <2>2
        DEF Contract!Active, Active, Exists, Statuses, Terminal, TypeOK, SeenStatus, SeenLog
<1>2. CASE Created(t)
    <2>1. tasks[t] = NoRow /\ FirstRow \in TaskRows
        BY <1>2 DEF Created, CursorOK, FirstRow, TaskRows, Statuses, Codes
    <2>2. Says("task.created", "created", 0) \in Contents
        BY ContentsType
    <2>3. Contract!Commit(t, "created", <<Says("task.created", "created", 0)>>)
        BY <1>2, <2>1, <2>2, WriteIsCommit DEF Created, FirstRow, NoRow
    <2>4. Contract!Accept(t)
        BY <1>1, <1>2, <2>1, <2>3
        DEF Contract!Accept, Contract!Event, Says, Created, SessionFree, NoRow, SeenStatus
    <2> QED
        BY <2>4 DEF Contract!Next
<1>3. ASSUME NEW to \in Statuses, Advanced(t, to)
      PROVE  Contract!Next
    <2>1. PICK code \in Codes : Append1(t, NextRow(t, to, code), StatusChanged(to))
        BY <1>3 DEF Advanced
    <2>2. StatusChanged(to) \in Contents
        BY ContentsType
    <2>3. /\ NextRow(t, to, code) \in TaskRows
          /\ NextRow(t, to, code).status = to
          /\ NextRow(t, to, code).latest = tasks[t].latest
          /\ NextRow(t, to, code).version = tasks[t].version + 1
        BY <1>1 DEF NextRow, TaskRows
    <2>4. Contract!Commit(t, to, <<StatusChanged(to)>>)
        BY <2>1, <2>2, <2>3, WriteIsCommit
    <2>5. Active(t) /\ to = Contract!NextStatus[tasks[t].status]
        BY <1>3 DEF Advanced, CanTransition, Active, Exists, Terminal, Statuses, Contract!NextStatus
    <2>6. Contract!Event("task.status_changed", to, 0) = StatusChanged(to)
        BY DEF Contract!Event, StatusChanged, Says
    <2>7. to = Contract!NextStatus[SeenStatus[t]]
        BY <1>1, <2>5
    <2>8. /\ Contract!Commit(t, to, <<Contract!Event("task.status_changed", to, 0)>>)
          /\ Contract!NextStatus[SeenStatus[t]] = to
        BY <2>4, <2>6, <2>7
    <2>9. Contract!Advance(t)
        BY <1>1, <2>5, <2>8 DEF Contract!Advance, Contract!Commit, SeenStatus
    <2> QED
        BY <2>9 DEF Contract!Next
<1>4. CASE Progressed(t)
    <2>1. PICK kind \in Kinds, k \in Calls \cup {0} :
             /\ \/ tasks[t].status = "running_tools" /\ kind \in Contract!Progress.running_tools
                \/ tasks[t].status = "validating" /\ kind \in Contract!Progress.validating
             /\ Append1(t, tasks[t], About(kind, k))
        BY <1>4 DEF Progressed
    <2>2. tasks[t].status \in DOMAIN Contract!Progress /\ kind \in Contract!Progress[tasks[t].status]
        BY <2>1 DEF Contract!Progress
    <2>3. About(kind, k) \in Contents
        BY WorkflowAssumption, ContentsType DEF Calls
    <2>4. /\ SeenLog' = [SeenLog EXCEPT ![t] = Append(@, About(kind, k))]
          /\ UNCHANGED <<SeenStatus, SeenVersion>>
        BY <2>1, <2>3, AppendIsReport
    <2>5. Contract!Report(t)
        BY <1>1, <2>2, <2>4
        DEF Contract!Report, Contract!Event, About, Says, SeenStatus, SeenVersion, SeenLog
    <2> QED
        BY <2>5 DEF Contract!Next
<1>5. CASE Failed(t)
    <2>1. PICK code \in Codes :
             Append2(t, NextRow(t, "failed", code), StatusChanged("failed"), About("task.failed", 0))
        BY <1>5 DEF Failed
    <2>2. StatusChanged("failed") \in Contents /\ About("task.failed", 0) \in Contents
        BY ContentsType DEF Statuses, Kinds
    <2>3. /\ NextRow(t, "failed", code) \in TaskRows
          /\ NextRow(t, "failed", code).status = "failed"
          /\ NextRow(t, "failed", code).latest = tasks[t].latest
          /\ NextRow(t, "failed", code).version = tasks[t].version + 1
        BY <1>1 DEF NextRow, TaskRows, Statuses
    <2>4. Contract!Commit(t, "failed", <<StatusChanged("failed"), About("task.failed", 0)>>)
        BY <2>1, <2>2, <2>3, WriteOfTwoIsCommit
    <2>5. Contract!Fail(t)
        BY <1>1, <1>5, <2>4 DEF Contract!Fail, Contract!Event, StatusChanged, About, Says, Failed
    <2> QED
        BY <2>5 DEF Contract!Next
<1>6. CASE Announced(t)
    <2>1. About("task.completed", 0) \in Contents
        BY ContentsType DEF Kinds
    <2>2. /\ SeenLog' = [SeenLog EXCEPT ![t] = Append(@, About("task.completed", 0))]
          /\ UNCHANGED <<SeenStatus, SeenVersion>>
        BY <1>6, <2>1, AppendIsReport DEF Announced
    <2>3. LogOf(t)[Len(LogOf(t))].kind # "task.completed"
        BY <1>6, LastIsStatus DEF Announced
    <2>4. Contract!Announce(t)
        BY <1>1, <1>6, <2>2, <2>3
        DEF Contract!Announce, Contract!Event, Announced, About, Says, SeenStatus, SeenVersion, SeenLog
    <2> QED
        BY <2>4 DEF Contract!Next
<1> QED
    BY <1>2, <1>3, <1>4, <1>5, <1>6 DEF Written

\* A step that writes neither row nor event is none to a reader.
LEMMA UnseenIsStutter ==
    ASSUME UNCHANGED <<tasks, events>>
    PROVE  UNCHANGED Contract!vars
<1>1. \A t \in Tasks : LogOf(t)' = LogOf(t)
    BY LogKept
<1>2. UNCHANGED <<SeenStatus, SeenVersion, SeenLog>>
    BY <1>1 DEF SeenStatus, SeenVersion, SeenLog
<1> QED
    BY <1>2 DEF Contract!vars, SeenStatus, SeenVersion, SeenLog

\* The workflow, its clean-up, its crashes and its recovery implement the
\* contract: through a row and its log, nobody sees any other step.
THEOREM WorkflowImplementsContract == Spec => ImplementsContract
<1>1. Init => Contract!Init
    <2> SUFFICES ASSUME Init, NEW t \in Tasks
                 PROVE  LogOf(t) = <<>> /\ tasks[t].status = "absent" /\ tasks[t].version = 0
        BY DEF Contract!Init
    <2> QED
        BY DEF Init, LogOf, NoRow
<1>2. TypeOK /\ CursorOK /\ MemoryMatches /\ StageOK /\ OpenWhileRunning /\ LogGapless
        /\ Announcing /\ EndsRight /\ [Next]_vars => [Contract!Next]_(Contract!vars)
    BY EveryStepIsWritten, WrittenIsContract, UnseenIsStutter
<1> QED
    BY <1>1, <1>2, TypeCorrect, MemoryAlwaysMatches, StageAlwaysOK, OpenAlwaysRuns, LogIsGapless,
       AnnouncingAlways, EndsAlwaysRight, PTL DEF Spec, ImplementsContract, Contract!Spec
=============================================================================
