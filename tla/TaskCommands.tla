---------------------------- MODULE TaskCommands ----------------------------
(***************************************************************************)
(* commands.Service: CreateSession and CreateTask under concurrent requests*)
(* and retries with the same idempotency key, the key table of the store,  *)
(* the touch of the session, the goroutine that is started after the       *)
(* commit, the death of the process, and a system clock that may be set    *)
(* back. What a started goroutine does is AnalysisWorkflow's: here a task  *)
(* is active until it ends.                                                *)
(***************************************************************************)
EXTENDS Integers, Sequences, FiniteSets

CONSTANTS
    SessionCallers, \* requests to create a session; each is sent once, a retry
    TaskCallers,    \* ... or to create a task;  is another one like it
    KeyOf,          \* KeyOf[c]: the key of request c, with its scope
    RequestOf,      \* RequestOf[c]: what c asks for, as the request hash sees it
    UserOf,         \* UserOf[c]: the user c acts for
    SessionOf,      \* SessionOf[c]: the session the task request c names
    TTL,            \* idempotencyTTL (24 h in the code)
    MaxSessions, MaxTasks, MaxNow, MaxBack, MaxCrashes  \* bounds

Callers == SessionCallers \cup TaskCallers
Users == {UserOf[c] : c \in Callers}
Requests == {RequestOf[c] : c \in Callers}
Keys == {KeyOf[c] : c \in Callers}

ASSUME CommandsAssumption ==
    /\ SessionCallers \cap TaskCallers = {}
    /\ \A c \in SessionCallers, d \in TaskCallers : KeyOf[c] # KeyOf[d]
    /\ \A c, d \in TaskCallers : RequestOf[c] = RequestOf[d] => SessionOf[c] = SessionOf[d]
    /\ TTL \in Nat \ {0}
    /\ {MaxSessions, MaxTasks, MaxNow, MaxBack, MaxCrashes} \subseteq Nat

VARIABLES
    \* SQLite; identifiers are random in the code and count up here
    sessions,  \* rows: creator, created_at, updated_at, version
    tasks,     \* rows: session, created_at, active; and who asked for them
    keys,      \* set of rows of idempotency_keys
    \* the process
    up,
    pc,        \* pc[c]: where the request of c is
    made,      \* made[c]: the task whose goroutine the request has to start
    started,   \* started[t]: how many goroutines were ever started for t
    \* the clients
    answer,    \* answer[c]: the response c has got
    \* the environment
    now, back, crashes

durable == <<sessions, tasks, keys>>
clock == <<now, back>>
vars == <<sessions, tasks, keys, up, pc, made, started, answer, now, back, crashes>>

SessionIds == 1..Len(sessions)
TaskIds == 1..Len(tasks)

Says(kind, id) == [kind |-> kind, id |-> id]
Answers == [kind: {"none", "accepted", "conflict", "not_found", "refused", "lost"}, id: Nat]

Init ==
    /\ sessions = <<>>
    /\ tasks = <<>>
    /\ keys = {}
    /\ up = TRUE
    /\ pc = [c \in Callers |-> "new"]
    /\ made = [c \in Callers |-> 0]
    /\ started = [t \in 1..MaxTasks |-> 0]
    /\ answer = [c \in Callers |-> Says("none", 0)]
    /\ now = 0
    /\ back = 0
    /\ crashes = 0

InProgress(c) == pc[c] \notin {"new", "done"}

-----------------------------------------------------------------------------
(* Idempotency keys *)

RowsOf(k) == {row \in keys : row.key = k}

\* (mutant) INSERT OR REPLACE: nothing in the table stops a reservation.
ValidNever(k) == {}

\* What Reserve finds in its way: an expired row is taken over.
Valid(k) == {row \in RowsOf(k) : row.expires > now}

\* (mutant) Complete is left out.
TakeOpen(c, id) ==
    keys' = (keys \ RowsOf(KeyOf[c])) \cup
        {[key |-> KeyOf[c], request |-> RequestOf[c], resource |-> 0, expires |-> now + TTL]}

\* (mutant) The TTL is not added.
TakeShort(c, id) ==
    keys' = (keys \ RowsOf(KeyOf[c])) \cup
        {[key |-> KeyOf[c], request |-> RequestOf[c], resource |-> id, expires |-> now]}

\* Reserve and Complete, which share a transaction.
Take(c, id) ==
    keys' = (keys \ RowsOf(KeyOf[c])) \cup
        {[key |-> KeyOf[c], request |-> RequestOf[c], resource |-> id, expires |-> now + TTL]}

Owned(s, c) == s \in SessionIds /\ sessions[s].owner = UserOf[c]

\* (mutant) The hash is not compared.
FromKeyAny(c, row) == Says("accepted", row.resource)

\* The response a row of the table leads to: GetOwned or ownedTask.
FromKey(c, row) ==
    IF row.request # RequestOf[c] THEN Says("conflict", 0)
    ELSE IF Owned(IF c \in SessionCallers THEN row.resource
                  ELSE tasks[row.resource].session, c)
         THEN Says("accepted", row.resource)
         ELSE Says("not_found", 0)

Respond(c, a) ==
    /\ answer' = [answer EXCEPT ![c] = a]
    /\ pc' = [pc EXCEPT ![c] = "done"]

-----------------------------------------------------------------------------
(* A request arrives *)

Send(c) ==
    /\ up
    /\ pc[c] = "new"
    /\ pc' = [pc EXCEPT ![c] = IF c \in SessionCallers THEN "create" ELSE "check"]
    /\ UNCHANGED <<durable, up, made, started, answer, clock, crashes>>

\* An error of the store, the planner or the plan: nothing was committed.
Refuse(c) ==
    /\ pc[c] \in {"create", "check", "plan", "accept"}
    /\ Respond(c, Says("refused", 0))
    /\ UNCHANGED <<durable, up, made, started, clock, crashes>>

\* (mutant) shouldRun is set before the row is looked at.
RepeatRuns(c) ==
    /\ pc[c] = "accept"
    /\ \E row \in Valid(KeyOf[c]) : made' = [made EXCEPT ![c] = row.resource]
    /\ pc' = [pc EXCEPT ![c] = "start"]
    /\ UNCHANGED <<durable, up, started, answer, clock, crashes>>

\* A transaction that finds a valid row answers from it and changes nothing.
Repeat(c) ==
    /\ pc[c] \in {"create", "accept"}
    /\ \E row \in Valid(KeyOf[c]) : Respond(c, FromKey(c, row))
    /\ UNCHANGED <<durable, up, made, started, clock, crashes>>

CreateSession(c) ==
    /\ pc[c] = "create"
    /\ Valid(KeyOf[c]) = {}
    /\ Len(sessions) < MaxSessions
    /\ sessions' = Append(sessions, [owner |-> UserOf[c], created |-> now, updated |-> now,
                                    version |-> 1])
    /\ Take(c, Len(sessions) + 1)
    /\ Respond(c, Says("accepted", Len(sessions) + 1))
    /\ UNCHANGED <<tasks, up, made, started, clock, crashes>>

-----------------------------------------------------------------------------
(* CreateTask *)

\* The check before planning reads the row of the key, expired or not.
CheckKey(c) ==
    /\ pc[c] = "check"
    /\ \/ /\ RowsOf(KeyOf[c]) = {}
          /\ pc' = [pc EXCEPT ![c] = "plan"]
          /\ UNCHANGED answer
       \/ \E row \in RowsOf(KeyOf[c]) : Respond(c, FromKey(c, row))
    /\ UNCHANGED <<durable, up, made, started, clock, crashes>>

\* The session must be the caller's; then the history is read, the planner
\* asked and the plan resolved, all without a transaction. The clock that is read
\* here only dates the range of the plan; AcceptTask reads it again.
Plan(c) ==
    /\ pc[c] = "plan"
    /\ IF Owned(SessionOf[c], c)
       THEN pc' = [pc EXCEPT ![c] = "accept"] /\ UNCHANGED answer
       ELSE Respond(c, Says("not_found", 0))
    /\ UNCHANGED <<durable, up, made, started, clock, crashes>>

ActiveIn(s) == \E t \in TaskIds : tasks[t].session = s /\ tasks[t].active

\* (mutant) Time may go backwards.
TouchableAlways(s) == TRUE

\* Session.Touch refuses a clock that is behind the last activity.
Touchable(s) == now >= sessions[s].updated

Touched(row) == [row EXCEPT !.updated = now, !.version = @ + 1]

\* The transaction: key, message, task, task.created and the session's touch.
AcceptTask(c) ==
    LET s == SessionOf[c] IN
    /\ pc[c] = "accept"
    /\ Valid(KeyOf[c]) = {}
    /\ ~ActiveIn(s) /\ Touchable(s)
    /\ Len(tasks) < MaxTasks
    /\ tasks' = Append(tasks, [session |-> s, at |-> now, active |-> TRUE,
                               key |-> KeyOf[c], request |-> RequestOf[c]])
    /\ sessions' = [sessions EXCEPT ![s] = Touched(@)]
    /\ Take(c, Len(tasks) + 1)
    /\ made' = [made EXCEPT ![c] = Len(tasks) + 1]
    /\ pc' = [pc EXCEPT ![c] = "start"]
    /\ UNCHANGED <<up, started, answer, clock, crashes>>

\* After the commit: go s.run, then the response.
StartRun(c) ==
    /\ pc[c] = "start"
    /\ started' = [started EXCEPT ![made[c]] = @ + 1]
    /\ made' = [made EXCEPT ![c] = 0]
    /\ Respond(c, Says("accepted", made[c]))
    /\ UNCHANGED <<durable, up, clock, crashes>>

-----------------------------------------------------------------------------
(* The rest of the system *)

Ended(row) == [row EXCEPT !.active = FALSE]

\* AnalysisWorkflow: a task whose goroutine was started reaches its end.
EndTask(t) ==
    /\ up
    /\ started[t] > 0
    /\ tasks[t].active
    /\ tasks' = [tasks EXCEPT ![t] = Ended(@)]
    /\ UNCHANGED <<sessions, keys, up, pc, made, started, answer, clock, crashes>>

\* The requests in progress get no response; whatever was committed stays.
Crash ==
    /\ up
    /\ crashes < MaxCrashes
    /\ crashes' = crashes + 1
    /\ up' = FALSE
    /\ pc' = [c \in Callers |-> IF InProgress(c) THEN "done" ELSE pc[c]]
    /\ made' = [c \in Callers |-> 0]
    /\ answer' = [c \in Callers |-> IF InProgress(c) THEN Says("lost", 0) ELSE answer[c]]
    /\ UNCHANGED <<durable, started, clock>>

\* Before the process serves again, recovery ends every task that is active.
Restart ==
    /\ ~up
    /\ up' = TRUE
    /\ tasks' = [t \in TaskIds |-> Ended(tasks[t])]
    /\ UNCHANGED <<sessions, keys, pc, made, started, answer, clock, crashes>>

Tick ==
    /\ now < MaxNow
    /\ now' = now + 1
    /\ UNCHANGED <<durable, up, pc, made, started, answer, back, crashes>>

SetBack ==
    /\ now > 0
    /\ back < MaxBack
    /\ back' = back + 1
    /\ now' = now - 1
    /\ UNCHANGED <<durable, up, pc, made, started, answer, crashes>>

-----------------------------------------------------------------------------
Next ==
    \/ \E c \in Callers : Send(c) \/ Refuse(c) \/ Repeat(c)
    \/ \E c \in SessionCallers : CreateSession(c)
    \/ \E c \in TaskCallers : CheckKey(c) \/ Plan(c) \/ AcceptTask(c) \/ StartRun(c)
    \/ \E t \in TaskIds : EndTask(t)
    \/ Crash
    \/ Restart
    \/ Tick
    \/ SetBack

Spec == Init /\ [][Next]_vars

-----------------------------------------------------------------------------
(* What must hold *)

SessionRows == [owner: Users, created: Nat, updated: Nat, version: Nat \ {0}]
TaskRows == [session: Nat, at: Nat, active: BOOLEAN, key: Keys, request: Requests]
KeyRows == [key: Keys, request: Requests, resource: Nat \ {0}, expires: Nat]

RowsOK ==
    /\ sessions \in Seq(SessionRows)
    /\ tasks \in Seq(TaskRows)
    /\ \A t \in TaskIds : tasks[t].session \in SessionIds
    /\ Len(tasks) <= MaxTasks
    /\ keys \subseteq KeyRows

\* Types of every variable; a task belongs to a session.
TypeOK ==
    /\ RowsOK
    /\ up \in BOOLEAN
    /\ pc \in [Callers -> {"new", "done", "create", "check", "plan", "accept", "start"}]
    /\ made \in [Callers -> 0..Len(tasks)]
    /\ started \in [1..MaxTasks -> Nat]
    /\ answer \in [Callers -> Answers]
    /\ now \in 0..MaxNow
    /\ back \in 0..MaxBack
    /\ crashes \in 0..MaxCrashes

\* What c asked for.
Mine(c, id) ==
    IF c \in SessionCallers THEN Owned(id, c)
    ELSE /\ id \in TaskIds
         /\ tasks[id].key = KeyOf[c] /\ tasks[id].request = RequestOf[c]
         /\ Owned(tasks[id].session, c)

\* Whoever is told "accepted" gets what he asked for: a task created for his
\* key and his request in a session of his, or a session of his, whoever else
\* used the key and whenever the answer was read from the table.
AnswersAreMine ==
    \A c \in Callers : answer[c].kind = "accepted" => Mine(c, answer[c].id)

\* However requests with one key race, are retried or lose their response,
\* they create one task per life of the key.
OneTaskPerKey ==
    \A t, u \in TaskIds :
        (t < u /\ tasks[t].key = tasks[u].key) => tasks[u].at >= tasks[t].at + TTL

\* A key has one row, it leads to what was created under it last, and lives
\* for TTL from that creation on; no refused or lost request leaves a row.
KeysLeadToResources ==
    /\ \A row, other \in keys : row.key = other.key => row = other
    /\ \A c \in TaskCallers : \A row \in RowsOf(KeyOf[c]) :
          /\ row.resource \in TaskIds
          /\ LET task == tasks[row.resource] IN
             task.key = row.key /\ task.request = row.request /\ row.expires = task.at + TTL
          /\ \A t \in TaskIds : tasks[t].key = row.key => t <= row.resource
    /\ \A t \in TaskIds : RowsOf(tasks[t].key) # {}

TasksOf(s) == {t \in TaskIds : tasks[t].session = s}

\* A session is touched exactly by the tasks it accepts: its version counts
\* them and its activity time, never before its creation, is that of the last
\* one, so the list of sessions is ordered by real activity even when the clock
\* is set back; retries and refusals do not touch it.
SessionReflectsTasks ==
    \A s \in SessionIds :
        /\ sessions[s].version = 1 + Cardinality(TasksOf(s))
        /\ \A t \in TasksOf(s) : tasks[t].at \in sessions[s].created..sessions[s].updated
        /\ sessions[s].updated \in {sessions[s].created} \cup {tasks[t].at : t \in TasksOf(s)}

\* A request has committed t and is about to start its goroutine.
Pending(t) == \E c \in Callers : pc[c] = "start" /\ made[c] = t

\* Every task gets its goroutine once: from the request that created it, never
\* from a retry that found it, and never after a restart.
StartedOnce ==
    /\ \A c, d \in Callers :
          (pc[c] = "start" /\ pc[d] = "start" /\ made[c] = made[d]) => c = d
    /\ \A t \in TaskIds :
          /\ started[t] = 0 \/ (started[t] = 1 /\ ~Pending(t))
          /\ (up /\ tasks[t].active) => (started[t] = 1 \/ Pending(t))
=============================================================================
