------------------------- MODULE TaskCommandsProofs -------------------------
(***************************************************************************)
(* Theorems about TaskCommands, for any callers, keys, TTL and bounds.     *)
(***************************************************************************)
EXTENDS TaskCommands, FiniteSetTheorems, TLAPS

-----------------------------------------------------------------------------
(* Types *)

\* Rows that do not change keep their types.
LEMMA RowsStutter == ASSUME RowsOK, UNCHANGED durable PROVE RowsOK'
BY DEF RowsOK, durable, TaskIds, SessionIds

\* An answer read from the table of keys is one.
LEMMA FromKeyType ==
    ASSUME NEW c \in Callers, NEW row \in KeyRows
    PROVE  FromKey(c, row) \in Answers
BY DEF FromKey, Says, Answers, KeyRows

\* What a transaction leaves in the table of keys.
LEMMA TakeType ==
    ASSUME CommandsAssumption, keys \subseteq KeyRows, now \in Nat,
           NEW c \in Callers, NEW id \in Nat \ {0}, Take(c, id)
    PROVE  /\ keys' \subseteq KeyRows
           /\ \A row \in keys' :
                 \/ row \in keys /\ row.key # KeyOf[c]
                 \/ row = [key |-> KeyOf[c], request |-> RequestOf[c], resource |-> id,
                           expires |-> now + TTL]
           /\ \E row \in keys' : row.key = KeyOf[c]
           /\ \A row \in keys : row.key # KeyOf[c] => row \in keys'
<1> DEFINE new == [key |-> KeyOf[c], request |-> RequestOf[c], resource |-> id,
                   expires |-> now + TTL]
<1>1. new \in KeyRows
    BY DEF KeyRows, Keys, Requests, CommandsAssumption
<1>2. keys' = (keys \ RowsOf(KeyOf[c])) \cup {new}
    BY DEF Take
<1> QED
    BY <1>1, <1>2 DEF RowsOf

\* The transaction of CreateSession.
LEMMA CreateSessionType ==
    ASSUME CommandsAssumption, TypeOK, NEW c \in SessionCallers, CreateSession(c)
    PROVE  /\ RowsOK'
           /\ Len(sessions') = Len(sessions) + 1
           /\ \A s \in SessionIds : sessions'[s] = sessions[s]
           /\ sessions'[Len(sessions) + 1].owner = UserOf[c]
<1> DEFINE new == [owner |-> UserOf[c], created |-> now, updated |-> now, version |-> 1]
<1>0. c \in Callers
    BY DEF Callers
<1>1. new \in SessionRows
    BY <1>0 DEF SessionRows, Users, TypeOK
<1>2. sessions \in Seq(SessionRows) /\ sessions' = Append(sessions, new)
    BY DEF TypeOK, RowsOK, CreateSession
<1>3. /\ sessions' \in Seq(SessionRows)
      /\ Len(sessions') = Len(sessions) + 1
      /\ \A s \in SessionIds : sessions'[s] = sessions[s]
      /\ sessions'[Len(sessions) + 1] = new
    BY <1>1, <1>2 DEF SessionIds
<1>4. keys' \subseteq KeyRows
    BY <1>0, <1>2, TakeType DEF CreateSession, TypeOK, RowsOK
<1>5. SessionIds \subseteq SessionIds'
    BY <1>2, <1>3 DEF SessionIds
<1>6. tasks' = tasks /\ TaskIds' = TaskIds
    BY DEF CreateSession, TaskIds
<1> QED
    BY <1>3, <1>4, <1>5, <1>6 DEF RowsOK, TypeOK

\* A touched row is a row of the same owner.
LEMMA TouchedType ==
    ASSUME NEW row \in SessionRows, now \in Nat
    PROVE  Touched(row) \in SessionRows /\ Touched(row).owner = row.owner
<1>1. row.version + 1 \in Nat \ {0}
    BY DEF SessionRows
<1> QED
    BY <1>1 DEF Touched, SessionRows

\* The transaction of CreateTask.
LEMMA AcceptTaskType ==
    ASSUME CommandsAssumption, TypeOK, NEW c \in TaskCallers, AcceptTask(c),
           SessionOf[c] \in SessionIds
    PROVE  /\ RowsOK'
           /\ Len(tasks') = Len(tasks) + 1
           /\ \A t \in TaskIds : tasks'[t] = tasks[t]
           /\ tasks'[Len(tasks) + 1] = [session |-> SessionOf[c], at |-> now, active |-> TRUE,
                                        key |-> KeyOf[c], request |-> RequestOf[c]]
           /\ SessionIds' = SessionIds
           /\ \A s \in SessionIds : sessions'[s].owner = sessions[s].owner
<1> DEFINE new == [session |-> SessionOf[c], at |-> now, active |-> TRUE,
                   key |-> KeyOf[c], request |-> RequestOf[c]]
<1> DEFINE s == SessionOf[c]
<1> DEFINE touched == Touched(sessions[s])
<1>0. c \in Callers
    BY DEF Callers
<1>1. new \in TaskRows
    BY <1>0 DEF TaskRows, Keys, Requests, TypeOK, SessionIds
<1>2. tasks \in Seq(TaskRows) /\ tasks' = Append(tasks, new)
    BY DEF TypeOK, RowsOK, AcceptTask
<1>3. /\ tasks' \in Seq(TaskRows)
      /\ Len(tasks') = Len(tasks) + 1
      /\ \A t \in TaskIds : tasks'[t] = tasks[t]
      /\ tasks'[Len(tasks) + 1] = new
      /\ TaskIds' = TaskIds \cup {Len(tasks) + 1}
    BY <1>1, <1>2 DEF TaskIds
<1>4. keys' \subseteq KeyRows
    BY <1>0, <1>2, TakeType DEF AcceptTask, TypeOK, RowsOK
<1>5. sessions \in Seq(SessionRows) /\ sessions' = [sessions EXCEPT ![s] = touched]
    BY DEF TypeOK, RowsOK, AcceptTask
<1>6. sessions[s] \in SessionRows
    BY <1>5 DEF SessionIds
<1>7. touched \in SessionRows /\ touched.owner = sessions[s].owner
    BY <1>6, TouchedType DEF TypeOK, CommandsAssumption
<1>8. /\ sessions' \in Seq(SessionRows)
      /\ SessionIds' = SessionIds
      /\ \A r \in SessionIds : sessions'[r].owner = sessions[r].owner
    BY <1>5, <1>7 DEF SessionIds
<1>9. Len(tasks') <= MaxTasks
    BY <1>2, <1>3 DEF AcceptTask, CommandsAssumption
<1>10. ASSUME NEW t \in TaskIds' PROVE tasks'[t].session \in SessionIds'
    <2>1. CASE t \in TaskIds
        BY <2>1, <1>3, <1>8 DEF RowsOK, TypeOK
    <2>2. CASE t = Len(tasks) + 1
        BY <2>2, <1>3, <1>8
    <2> QED
        BY <1>3, <2>1, <2>2
<1> QED
    BY <1>3, <1>4, <1>8, <1>9, <1>10 DEF RowsOK

\* The session of a task that is about to be accepted was found to be the
\* caller's, and sessions stay; goroutines are started only while serving.
Ready ==
    \A c \in Callers :
        /\ pc[c] = "accept" => Owned(SessionOf[c], c)
        /\ pc[c] = "start" => made[c] # 0
        /\ InProgress(c) => up

\* What keeps sessions, their owners, tasks and who asked for them keeps
\* every statement about an answer.
Keeps ==
    /\ SessionIds \subseteq SessionIds'
    /\ \A s \in SessionIds : sessions'[s].owner = sessions[s].owner
    /\ TaskIds \subseteq TaskIds'
    /\ \A t \in TaskIds :
          /\ tasks'[t].session = tasks[t].session
          /\ tasks'[t].at = tasks[t].at
          /\ tasks'[t].key = tasks[t].key
          /\ tasks'[t].request = tasks[t].request

\* The tasks end, one or all, and nothing else about them changes.
LEMMA EndType ==
    ASSUME CommandsAssumption, TypeOK, UNCHANGED <<sessions, keys>>,
           NEW S \in SUBSET TaskIds,
           tasks' = [t \in TaskIds |-> IF t \in S THEN Ended(tasks[t])
                                                  ELSE tasks[t]]
    PROVE  RowsOK' /\ Len(tasks') = Len(tasks) /\ Keeps
<1>1. tasks \in Seq(TaskRows) /\ Len(tasks) \in Nat
    BY DEF TypeOK, RowsOK
<1>2. ASSUME NEW t \in TaskIds
      PROVE  /\ tasks[t] \in TaskRows
             /\ Ended(tasks[t]) \in TaskRows
    <2>1. tasks[t] \in TaskRows
        BY <1>1 DEF TaskIds
    <2> QED
        BY <2>1 DEF TaskRows, Ended
<1>3. tasks' \in Seq(TaskRows) /\ Len(tasks') = Len(tasks)
    BY <1>1, <1>2 DEF TaskIds
<1>4. TaskIds' = TaskIds /\ SessionIds' = SessionIds
    BY <1>3 DEF TaskIds, SessionIds
<1>5. ASSUME NEW t \in TaskIds
      PROVE  /\ tasks'[t].session = tasks[t].session
             /\ tasks'[t].at = tasks[t].at
             /\ tasks'[t].key = tasks[t].key
             /\ tasks'[t].request = tasks[t].request
    <2>1. tasks[t] \in TaskRows
        BY <1>2
    <2>2. tasks'[t] = tasks[t] \/ tasks'[t] = Ended(tasks[t])
        OBVIOUS
    <2> QED
        BY <2>1, <2>2 DEF TaskRows, Ended
<1>6. \A t \in TaskIds' : tasks'[t].session \in SessionIds'
    BY <1>4, <1>5 DEF RowsOK, TypeOK
<1>7. RowsOK'
    BY <1>3, <1>6 DEF RowsOK, TypeOK
<1> QED
    BY <1>3, <1>4, <1>5, <1>7 DEF Keeps

\* Every step keeps the types of the rows, and what answers rest on.
LEMMA StepKeeps ==
    ASSUME CommandsAssumption, TypeOK, Ready, [Next]_vars
    PROVE  RowsOK' /\ Keeps
<1>1. ASSUME UNCHANGED durable PROVE RowsOK' /\ Keeps
    BY <1>1, RowsStutter DEF durable, Keeps, TypeOK, SessionIds, TaskIds
<1>2. ASSUME NEW c \in SessionCallers, CreateSession(c) PROVE RowsOK' /\ Keeps
    <2>1. tasks' = tasks
        BY <1>2 DEF CreateSession
    <2>2. Len(sessions) \in Nat
        BY DEF TypeOK, RowsOK
    <2> QED
        BY <1>2, <2>1, <2>2, CreateSessionType DEF Keeps, SessionIds, TaskIds
<1>3. ASSUME NEW c \in TaskCallers, AcceptTask(c) PROVE RowsOK' /\ Keeps
    <2>1. SessionOf[c] \in SessionIds
        BY <1>3 DEF Ready, Owned, AcceptTask, Callers
    <2>2. Len(tasks) \in Nat
        BY DEF TypeOK, RowsOK
    <2>3. /\ RowsOK'
          /\ Len(tasks') = Len(tasks) + 1
          /\ \A t \in TaskIds : tasks'[t] = tasks[t]
          /\ SessionIds' = SessionIds
          /\ \A s \in SessionIds : sessions'[s].owner = sessions[s].owner
        BY <1>3, <2>1, AcceptTaskType
    <2> QED
        BY <2>2, <2>3 DEF Keeps, TaskIds
<1>4. ASSUME NEW t \in TaskIds, EndTask(t) PROVE RowsOK' /\ Keeps
    <2>1. tasks \in Seq(TaskRows)
        BY DEF TypeOK, RowsOK
    <2>2. {t} \in SUBSET TaskIds /\ DOMAIN tasks = TaskIds
        BY <2>1 DEF TaskIds
    <2>4. tasks' = [u \in TaskIds |-> IF u \in {t} THEN Ended(tasks[u])
                                                  ELSE tasks[u]]
        BY <1>4, <2>2 DEF EndTask
    <2>3. UNCHANGED <<sessions, keys>>
        BY <1>4 DEF EndTask
    <2> QED
        BY <2>2, <2>3, <2>4, EndType
<1>5. CASE Restart
    <2>1. tasks' = [u \in TaskIds |-> IF u \in TaskIds THEN Ended(tasks[u])
                                                      ELSE tasks[u]]
        BY <1>5 DEF Restart
    <2>2. UNCHANGED <<sessions, keys>>
        BY <1>5 DEF Restart
    <2> QED
        BY <2>1, <2>2, EndType
<1>6. \/ UNCHANGED durable
      \/ \E c \in SessionCallers : CreateSession(c)
      \/ \E c \in TaskCallers : AcceptTask(c)
      \/ \E t \in TaskIds : EndTask(t)
      \/ Restart
    BY DEF Next, vars, durable, Send, Refuse, Repeat, CheckKey, Plan, StartRun, Crash, Tick, SetBack
<1> QED
    BY <1>1, <1>2, <1>3, <1>4, <1>5, <1>6

\* The number of tasks, as a bound of `made`.
LEMMA StepLength ==
    ASSUME CommandsAssumption, TypeOK, Ready, [Next]_vars
    PROVE  Len(tasks) \in Nat /\ Len(tasks') \in Nat /\ Len(tasks) <= Len(tasks')
<1>1. Len(tasks) \in Nat /\ Len(tasks') \in Nat /\ TaskIds \subseteq TaskIds'
    BY StepKeeps DEF TypeOK, RowsOK, Keeps
<1> QED
    BY <1>1 DEF TaskIds

\* Every variable keeps its type, whatever requests, clock and crashes do.
THEOREM TypeCorrect == Spec => [](TypeOK /\ Ready)
<1>1. Init => TypeOK /\ Ready
  <2> SUFFICES ASSUME Init PROVE TypeOK /\ Ready
    OBVIOUS
  <2>1. RowsOK
    BY CommandsAssumption DEF Init, RowsOK, TaskIds, SessionIds
  <2> QED
    BY <2>1, CommandsAssumption DEF Init, TypeOK, Ready, InProgress, Answers, Says
<1>2. TypeOK /\ Ready /\ [Next]_vars => (TypeOK /\ Ready)'
  <2> SUFFICES ASSUME TypeOK, Ready, [Next]_vars PROVE TypeOK' /\ Ready'
    OBVIOUS
  <2> USE CommandsAssumption
  <2>a. /\ RowsOK' /\ Keeps
        /\ Len(tasks) \in Nat /\ Len(tasks') \in Nat /\ Len(tasks) <= Len(tasks')
    BY StepKeeps, StepLength
  <2>b. \A c \in Callers : Owned(SessionOf[c], c) => Owned(SessionOf[c], c)'
    BY <2>a DEF Owned, Keeps
  <2>c. \A c \in Callers : \A row \in RowsOf(KeyOf[c]) : FromKey(c, row) \in Answers
    BY FromKeyType DEF RowsOf, TypeOK, RowsOK
  <2>d. \A kind \in {"none", "accepted", "conflict", "not_found", "refused", "lost"}, n \in Nat :
          Says(kind, n) \in Answers
    BY DEF Says, Answers
  <2>1. ASSUME NEW c \in Callers, Send(c) PROVE TypeOK' /\ Ready'
    BY <2>1, <2>a, <2>b DEF Send, durable, clock, TypeOK, Ready, InProgress
  <2>e. ASSUME NEW c \in Callers, NEW a \in Answers, Respond(c, a),
               UNCHANGED <<up, made, started, now, back, crashes>>
        PROVE  TypeOK' /\ Ready'
    <3>1. answer' \in [Callers -> Answers] /\ pc' = [pc EXCEPT ![c] = "done"]
      BY <2>e DEF Respond, TypeOK
    <3>2. made' \in [Callers -> 0..Len(tasks')]
      BY <2>a, <2>e DEF TypeOK
    <3>3. TypeOK'
      BY <2>a, <2>e, <3>1, <3>2 DEF TypeOK
    <3>4. Ready'
      BY <2>b, <2>e, <3>1 DEF TypeOK, Ready, InProgress
    <3> QED
      BY <3>3, <3>4
  <2>f. \A c \in Callers : \A row \in RowsOf(KeyOf[c]) :
           (/\ Respond(c, FromKey(c, row))
            /\ UNCHANGED <<up, made, started, now, back, crashes>>) => TypeOK' /\ Ready'
    BY <2>c, <2>e
  <2>2. ASSUME NEW c \in Callers, Refuse(c) PROVE TypeOK' /\ Ready'
    <3>1. /\ Says("refused", 0) \in Answers /\ Respond(c, Says("refused", 0))
          /\ UNCHANGED <<up, made, started, now, back, crashes>>
      BY <2>2, <2>d DEF Refuse, clock
    <3> QED
      BY <2>e, <3>1
  <2>3. ASSUME NEW c \in Callers, Repeat(c) PROVE TypeOK' /\ Ready'
    <3>1. /\ \E row \in RowsOf(KeyOf[c]) : Respond(c, FromKey(c, row))
          /\ UNCHANGED <<up, made, started, now, back, crashes>>
      BY <2>3 DEF Repeat, Valid, clock
    <3> QED
      BY <2>f, <3>1
  <2>4. ASSUME NEW c \in SessionCallers, CreateSession(c) PROVE TypeOK' /\ Ready'
    <3>1. Len(sessions) + 1 \in Nat /\ c \in Callers
      BY DEF TypeOK, RowsOK, Callers
    <3>2. /\ Respond(c, Says("accepted", Len(sessions) + 1))
          /\ UNCHANGED <<up, made, started, now, back, crashes>>
      BY <2>4 DEF CreateSession, clock
    <3>3. PICK a \in Answers : a = Says("accepted", Len(sessions) + 1)
      BY <2>d, <3>1
    <3> QED
      BY <2>e, <3>1, <3>2, <3>3
  <2>5. ASSUME NEW c \in TaskCallers, CheckKey(c) PROVE TypeOK' /\ Ready'
    <3>1. c \in Callers /\ UNCHANGED <<up, made, started, now, back, crashes>>
      BY <2>5 DEF Callers, CheckKey, clock
    <3>2. CASE pc' = [pc EXCEPT ![c] = "plan"] /\ UNCHANGED answer
      BY <2>5, <2>a, <2>b, <3>1, <3>2 DEF CheckKey, durable, TypeOK, Ready, InProgress
    <3>3. CASE \E row \in RowsOf(KeyOf[c]) : Respond(c, FromKey(c, row))
      BY <2>f, <3>1, <3>3
    <3> QED
      BY <2>5, <3>2, <3>3 DEF CheckKey
  <2>6. ASSUME NEW c \in TaskCallers, Plan(c) PROVE TypeOK' /\ Ready'
    <3>1. /\ c \in Callers /\ pc[c] = "plan"
          /\ UNCHANGED <<durable, up, made, started, now, back, crashes>>
      BY <2>6 DEF Callers, Plan, clock
    <3>2. CASE Owned(SessionOf[c], c) /\ pc' = [pc EXCEPT ![c] = "accept"] /\ UNCHANGED answer
      <4>1. TypeOK'
        BY <2>a, <3>1, <3>2 DEF durable, TypeOK
      <4>2. Ready'
        BY <2>b, <3>1, <3>2 DEF TypeOK, Ready, InProgress
      <4> QED
        BY <4>1, <4>2
    <3>3. CASE Respond(c, Says("not_found", 0))
      <4>1. Says("not_found", 0) \in Answers
        BY <2>d
      <4> QED
        BY <2>e, <3>1, <3>3, <4>1
    <3> QED
      BY <2>6, <3>2, <3>3 DEF Plan
  <2>7. ASSUME NEW c \in TaskCallers, AcceptTask(c) PROVE TypeOK' /\ Ready'
    <3>1. c \in Callers /\ SessionOf[c] \in SessionIds
      BY <2>7 DEF Callers, Ready, Owned, AcceptTask
    <3>2. Len(tasks') = Len(tasks) + 1
      BY <2>7, <3>1, AcceptTaskType
    <3>3. pc' = [pc EXCEPT ![c] = "start"] /\ made' = [made EXCEPT ![c] = Len(tasks) + 1]
      BY <2>7 DEF AcceptTask
    <3>4. UNCHANGED <<up, started, answer, now, back, crashes>>
      BY <2>7 DEF AcceptTask, clock
    <3>5. up
      BY <2>7, <3>1 DEF Ready, InProgress, AcceptTask
    <3> QED
      BY <2>a, <2>b, <3>1, <3>2, <3>3, <3>4, <3>5 DEF TypeOK, Ready, InProgress
  <2>8. ASSUME NEW c \in TaskCallers, StartRun(c) PROVE TypeOK' /\ Ready'
    <3>1. c \in Callers /\ made[c] \in Nat /\ 0 \in 0..Len(tasks)
      BY <2>a DEF TypeOK, Callers
    <3>2. started' \in [1..MaxTasks -> Nat]
      <4>1. started' = [started EXCEPT ![made[c]] = @ + 1] /\ started \in [1..MaxTasks -> Nat]
        BY <2>8 DEF StartRun, TypeOK
      <4>2. \A i \in 1..MaxTasks : started'[i] \in {started[i], started[i] + 1}
        BY <4>1
      <4>3. \A i \in 1..MaxTasks : started[i] \in Nat /\ started[i] + 1 \in Nat
        BY <4>1
      <4> QED
        BY <4>1, <4>2, <4>3
    <3>3. made' \in [Callers -> 0..Len(tasks')]
      BY <2>8, <3>1 DEF StartRun, TypeOK, durable
    <3>4. answer' \in [Callers -> Answers] /\ pc' = [pc EXCEPT ![c] = "done"]
      BY <2>8, <2>d, <3>1 DEF StartRun, Respond, TypeOK
    <3> QED
      BY <2>8, <2>a, <2>b, <3>1, <3>2, <3>3, <3>4
      DEF StartRun, durable, clock, TypeOK, Ready, InProgress
  <2>9. ASSUME NEW t \in TaskIds, EndTask(t) PROVE TypeOK' /\ Ready'
    <3>1. UNCHANGED <<sessions, keys, up, pc, made, started, answer, now, back, crashes>>
      BY <2>9 DEF EndTask, clock
    <3>2. made' \in [Callers -> 0..Len(tasks')]
      BY <2>a, <3>1 DEF TypeOK
    <3>3. Ready'
      BY <2>b, <3>1 DEF Ready, InProgress
    <3>4. TypeOK'
      BY <2>a, <3>1, <3>2 DEF TypeOK
    <3> QED
      BY <3>3, <3>4
  <2>10. CASE Crash
    <3>1. /\ UNCHANGED <<sessions, tasks, keys, started, now, back>>
          /\ crashes' = crashes + 1 /\ crashes < MaxCrashes /\ up' = FALSE
          /\ made' = [c \in Callers |-> 0]
          /\ pc' = [c \in Callers |-> IF InProgress(c) THEN "done" ELSE pc[c]]
          /\ answer' = [c \in Callers |-> IF InProgress(c) THEN Says("lost", 0) ELSE answer[c]]
      BY <2>10 DEF Crash, durable, clock
    <3>2. \A c \in Callers : pc'[c] \in {"new", "done"}
      BY <3>1 DEF InProgress, TypeOK
    <3>3. answer' \in [Callers -> Answers]
      BY <3>1, <2>d DEF TypeOK
    <3>4. Ready'
      BY <3>2 DEF Ready, InProgress
    <3>5. crashes' \in 0..MaxCrashes
      BY <3>1 DEF TypeOK, CommandsAssumption
    <3>6. /\ pc' \in [Callers -> {"new", "done", "create", "check", "plan", "accept", "start"}]
          /\ made' \in [Callers -> 0..Len(tasks')]
      BY <2>a, <3>1, <3>2
    <3>7. up' \in BOOLEAN
      BY <3>1
    <3>8. started' = started /\ now' = now /\ back' = back
      BY <3>1
    <3>9. TypeOK'
      BY <2>a, <3>3, <3>5, <3>6, <3>7, <3>8 DEF TypeOK
    <3> QED
      BY <3>4, <3>9
  <2>11. CASE Restart
    <3>1. UNCHANGED <<sessions, keys, pc, made, started, answer, now, back, crashes>> /\ up'
      BY <2>11 DEF Restart, clock
    <3>2. made' \in [Callers -> 0..Len(tasks')] /\ up' \in BOOLEAN
      BY <2>11, <2>a, <3>1 DEF Restart, TypeOK
    <3>3. Ready'
      BY <2>b, <3>1 DEF Ready, InProgress
    <3>4. TypeOK'
      BY <2>a, <3>1, <3>2 DEF TypeOK
    <3> QED
      BY <3>3, <3>4
  <2>12. CASE Tick
    BY <2>12, <2>a, <2>b DEF Tick, durable, TypeOK, Ready, InProgress
  <2>13. CASE SetBack
    BY <2>13, <2>a, <2>b DEF SetBack, durable, TypeOK, Ready, InProgress
  <2>14. CASE UNCHANGED vars
    BY <2>14, <2>a, <2>b DEF vars, TypeOK, Ready, InProgress
  <2> QED
    BY <2>1, <2>2, <2>3, <2>4, <2>5, <2>6, <2>7, <2>8, <2>9, <2>10, <2>11, <2>12, <2>13, <2>14
    DEF Next
<1> QED
  BY <1>1, <1>2, PTL DEF Spec

-----------------------------------------------------------------------------
(* Keys *)

\* Tasks are created by task requests only.
Asked == \A t \in TaskIds : \E d \in TaskCallers : tasks[t].key = KeyOf[d]

\* AcceptTask, as the table of keys and the log of tasks see it.
LEMMA AcceptFacts ==
    ASSUME CommandsAssumption, TypeOK, Ready, NEW c \in TaskCallers, AcceptTask(c)
    PROVE  /\ Len(tasks) \in Nat /\ now \in Nat
           /\ c \in Callers
           /\ SessionOf[c] \in SessionIds
           /\ TaskIds' = TaskIds \cup {Len(tasks) + 1} /\ Len(tasks) + 1 \notin TaskIds
           /\ \A t \in TaskIds : tasks'[t] = tasks[t] /\ t < Len(tasks) + 1 /\ t <= Len(tasks) + 1
           /\ tasks'[Len(tasks) + 1].session = SessionOf[c]
           /\ tasks'[Len(tasks) + 1].at = now
           /\ tasks'[Len(tasks) + 1].key = KeyOf[c]
           /\ tasks'[Len(tasks) + 1].request = RequestOf[c]
<1>1. Len(tasks) \in Nat /\ now \in Nat /\ c \in Callers
    BY DEF TypeOK, RowsOK, Callers, CommandsAssumption
<1>2. SessionOf[c] \in SessionIds
    BY <1>1 DEF Ready, Owned, AcceptTask
<1>3. /\ Len(tasks') = Len(tasks) + 1
      /\ \A t \in TaskIds : tasks'[t] = tasks[t]
      /\ tasks'[Len(tasks) + 1] = [session |-> SessionOf[c], at |-> now, active |-> TRUE,
                                   key |-> KeyOf[c], request |-> RequestOf[c]]
    BY <1>2, AcceptTaskType
<1>4. /\ TaskIds = 1..Len(tasks) /\ TaskIds' = 1..(Len(tasks) + 1)
      /\ Len(tasks) + 1 \notin TaskIds
      /\ \A t \in TaskIds : t < Len(tasks) + 1 /\ t <= Len(tasks) + 1
    BY <1>1, <1>3 DEF TaskIds
<1>5. 1..(Len(tasks) + 1) = (1..Len(tasks)) \cup {Len(tasks) + 1}
    BY <1>1
<1> QED
    BY <1>1, <1>2, <1>3, <1>4, <1>5

\* What a step can do to keys and tasks.
LEMMA StepShape ==
    ASSUME CommandsAssumption, TypeOK, Ready, [Next]_vars
    PROVE  \/ UNCHANGED keys /\ TaskIds' = TaskIds
           \/ \E c \in SessionCallers : CreateSession(c)
           \/ \E c \in TaskCallers : AcceptTask(c)
<1>1. ASSUME UNCHANGED durable PROVE UNCHANGED keys /\ TaskIds' = TaskIds
    BY <1>1 DEF durable, TaskIds
<1>2. ASSUME NEW t \in TaskIds, EndTask(t) PROVE UNCHANGED keys /\ TaskIds' = TaskIds
    <2>1. tasks \in Seq(TaskRows) /\ tasks' = [tasks EXCEPT ![t] = Ended(@)] /\ keys' = keys
        BY <1>2 DEF EndTask, TypeOK, RowsOK
    <2>2. Len(tasks') = Len(tasks)
        BY <2>1
    <2> QED
        BY <2>1, <2>2 DEF TaskIds
<1>3. ASSUME Restart PROVE UNCHANGED keys /\ TaskIds' = TaskIds
    <2>1. Len(tasks) \in Nat /\ tasks' = [t \in TaskIds |-> Ended(tasks[t])] /\ keys' = keys
        BY <1>3 DEF Restart, TypeOK, RowsOK
    <2>2. Len(tasks') = Len(tasks)
        BY <2>1 DEF TaskIds
    <2> QED
        BY <2>1, <2>2 DEF TaskIds
<1> QED
    BY <1>1, <1>2, <1>3
    DEF Next, vars, durable, Send, Refuse, Repeat, CheckKey, Plan, StartRun, Crash, Tick, SetBack

\* Every step keeps the table of keys and the log of tasks in agreement.
LEMMA KeysStep ==
    ASSUME CommandsAssumption, TypeOK, Ready, Asked, KeysLeadToResources, [Next]_vars
    PROVE  Asked' /\ KeysLeadToResources'
<1> USE CommandsAssumption
<1>k. RowsOK' /\ Keeps
    BY StepKeeps
<1>t. /\ keys \subseteq KeyRows
      /\ now \in Nat
      /\ Len(tasks) \in Nat /\ Len(sessions) \in Nat
      /\ TaskCallers \subseteq Callers /\ SessionCallers \subseteq Callers
    BY DEF TypeOK, RowsOK, Callers
<1>1. ASSUME UNCHANGED keys, TaskIds' = TaskIds PROVE Asked' /\ KeysLeadToResources'
    BY <1>1, <1>k DEF Asked, KeysLeadToResources, RowsOf, Keeps
<1>2. ASSUME NEW c \in SessionCallers, CreateSession(c) PROVE Asked' /\ KeysLeadToResources'
    <2>1. UNCHANGED tasks /\ Take(c, Len(sessions) + 1)
        BY <1>2 DEF CreateSession
    <2>2. TaskIds' = TaskIds /\ tasks' = tasks
        BY <2>1 DEF TaskIds
    <2>3. Asked'
        BY <2>2 DEF Asked
    <2>4. ASSUME NEW d \in TaskCallers PROVE RowsOf(KeyOf[d])' = RowsOf(KeyOf[d])
        <3>1. KeyOf[d] # KeyOf[c]
            BY DEF CommandsAssumption
        <3>2. \A row \in keys' : row.key = KeyOf[d] => row \in keys
            BY <1>t, <2>1, <3>1, TakeType
        <3>3. \A row \in keys : row.key = KeyOf[d] => row \in keys'
            BY <1>t, <2>1, <3>1, TakeType
        <3> QED
            BY <3>2, <3>3 DEF RowsOf
    <2>5. \A row, other \in keys' : row.key = other.key => row = other
        BY <1>t, <2>1, TakeType DEF KeysLeadToResources
    <2> QED
        <3>1. \A t \in TaskIds' : RowsOf(tasks[t].key)' # {}
            <4> SUFFICES ASSUME NEW t \in TaskIds PROVE RowsOf(tasks[t].key)' # {}
                BY <2>2
            <4>1. PICK d \in TaskCallers : tasks[t].key = KeyOf[d]
                BY DEF Asked
            <4>2. RowsOf(KeyOf[d]) # {}
                BY <4>1 DEF KeysLeadToResources
            <4> QED
                BY <4>1, <4>2, <2>2, <2>4
        <3>2. \A d \in TaskCallers : \A row \in RowsOf(KeyOf[d])' :
                 row \in RowsOf(KeyOf[d])
            BY <2>4
        <3> QED
            BY <2>2, <2>3, <2>5, <3>1, <3>2 DEF KeysLeadToResources
<1>3. ASSUME NEW c \in TaskCallers, AcceptTask(c) PROVE Asked' /\ KeysLeadToResources'
    <2> DEFINE new == Len(tasks) + 1
    <2> DEFINE taken == [key |-> KeyOf[c], request |-> RequestOf[c], resource |-> new,
                         expires |-> now + TTL]
    <2>1. SessionOf[c] \in SessionIds /\ Take(c, new)
        BY <1>3, <1>t DEF Ready, Owned, AcceptTask
    <2>2. /\ TaskIds' = TaskIds \cup {new} /\ new \notin TaskIds
          /\ \A t \in TaskIds : tasks'[t] = tasks[t] /\ t <= new
          /\ tasks'[new].key = KeyOf[c]
          /\ tasks'[new].request = RequestOf[c]
          /\ tasks'[new].at = now
        BY <1>3, <1>t, AcceptFacts
    <2>3. /\ \A row \in keys' : (row \in keys /\ row.key # KeyOf[c]) \/ row = taken
          /\ \E row \in keys' : row.key = KeyOf[c]
          /\ \A row \in keys : row.key # KeyOf[c] => row \in keys'
        BY <1>t, <2>1, TakeType
    <2>4. Asked'
        BY <2>2 DEF Asked
    <2>5. \A row, other \in keys' : row.key = other.key => row = other
        BY <2>3 DEF KeysLeadToResources
    <2>6. \A t \in TaskIds' : RowsOf(tasks[t].key)' # {}
        BY <2>2, <2>3 DEF KeysLeadToResources, RowsOf
    <2>7. ASSUME NEW d \in TaskCallers, NEW row \in RowsOf(KeyOf[d])'
          PROVE  /\ row.resource \in TaskIds'
                 /\ tasks'[row.resource].key = row.key
                 /\ tasks'[row.resource].request = row.request
                 /\ row.expires = tasks'[row.resource].at + TTL
                 /\ \A t \in TaskIds' : tasks'[t].key = row.key => t <= row.resource
        <3>1. row \in keys' /\ row.key = KeyOf[d]
            BY DEF RowsOf
        <3>2. CASE row = taken
            BY <3>2, <2>2
        <3>3. CASE row \in keys /\ row.key # KeyOf[c]
            BY <3>1, <3>3, <2>2 DEF KeysLeadToResources, RowsOf
        <3> QED
            BY <3>1, <3>2, <3>3, <2>3
    <2> QED
        BY <2>4, <2>5, <2>6, <2>7 DEF KeysLeadToResources
<1> QED
    BY <1>1, <1>2, <1>3, StepShape

\* A key has one row, which leads to the last task created under it.
THEOREM KeysCorrect == Spec => []KeysLeadToResources
<1>1. Init => Asked /\ KeysLeadToResources
    BY DEF Init, Asked, KeysLeadToResources, RowsOf, TaskIds
<1>2. TypeOK /\ Ready /\ Asked /\ KeysLeadToResources /\ [Next]_vars
        => (Asked /\ KeysLeadToResources)'
    BY KeysStep, CommandsAssumption
<1> QED
    BY <1>1, <1>2, TypeCorrect, PTL DEF Spec

-----------------------------------------------------------------------------
(* One task per life of a key *)

\* Every step keeps the creations under one key a TTL apart.
LEMMA OnceStep ==
    ASSUME CommandsAssumption, TypeOK, Ready, KeysLeadToResources, OneTaskPerKey, [Next]_vars
    PROVE  OneTaskPerKey'
<1>0. \A t \in TaskIds : tasks[t] \in TaskRows
    BY DEF TypeOK, RowsOK, TaskIds
<1>1. /\ TTL \in Nat /\ now \in Nat /\ Len(tasks) \in Nat
      /\ Keeps
      /\ \A t \in TaskIds : tasks[t].at \in Nat
    BY <1>0, StepKeeps DEF TypeOK, RowsOK, TaskRows, CommandsAssumption
<1>2. CASE TaskIds' = TaskIds
    BY <1>1, <1>2 DEF OneTaskPerKey, Keeps
<1>3. ASSUME NEW c \in SessionCallers, CreateSession(c) PROVE OneTaskPerKey'
    BY <1>1, <1>3 DEF OneTaskPerKey, Keeps, CreateSession, TaskIds
<1>4. ASSUME NEW c \in TaskCallers, AcceptTask(c) PROVE OneTaskPerKey'
    <2> DEFINE new == Len(tasks) + 1
    <2>1. ASSUME NEW t \in TaskIds, tasks[t].key = KeyOf[c] PROVE now >= tasks[t].at + TTL
        <3>1. PICK row \in RowsOf(KeyOf[c]) : TRUE
            BY <2>1 DEF KeysLeadToResources
        <3>2. row.expires <= now
            <4>1. Valid(KeyOf[c]) = {} /\ row.expires \in Nat /\ now \in Nat
                BY <1>4, <3>1 DEF AcceptTask, RowsOf, TypeOK, RowsOK, KeyRows, CommandsAssumption
            <4> QED
                BY <4>1, <3>1 DEF Valid
        <3>3. /\ row.resource \in TaskIds
              /\ tasks[row.resource].key = KeyOf[c]
              /\ row.expires = tasks[row.resource].at + TTL
              /\ t <= row.resource
            BY <2>1, <3>1 DEF KeysLeadToResources, RowsOf
        <3>4. CASE t = row.resource
            BY <3>2, <3>3, <3>4, <1>1
        <3>5. CASE t < row.resource
            <4>1. tasks[row.resource].at >= tasks[t].at + TTL
                BY <2>1, <3>3, <3>5 DEF OneTaskPerKey
            <4>2. tasks[row.resource].at \in Nat /\ tasks[t].at \in Nat /\ TTL \in Nat /\ now \in Nat
                BY <3>3, <1>1
            <4>3. now >= tasks[row.resource].at + TTL
                BY <3>2, <3>3, <4>2
            <4>4. tasks[row.resource].at + TTL >= tasks[row.resource].at
                BY <4>2
            <4> QED
                BY <4>1, <4>2, <4>3, <4>4
        <3>6. t = row.resource \/ t < row.resource
            BY <3>3, <1>1 DEF TaskIds
        <3> QED
            BY <3>4, <3>5, <3>6
    <2>2. /\ TaskIds' = TaskIds \cup {new}
          /\ \A t \in TaskIds : tasks'[t] = tasks[t] /\ t < new
          /\ tasks'[new].at = now /\ tasks'[new].key = KeyOf[c]
        BY <1>4, AcceptFacts
    <2>3. SUFFICES ASSUME NEW t \in TaskIds', NEW u \in TaskIds', t < u,
                          tasks'[t].key = tasks'[u].key
                   PROVE  tasks'[u].at >= tasks'[t].at + TTL
        BY DEF OneTaskPerKey
    <2>4. t \in TaskIds
        BY <2>2, <2>3, <1>1 DEF TaskIds
    <2>5. CASE u \in TaskIds
        BY <2>2, <2>3, <2>4, <2>5 DEF OneTaskPerKey
    <2>6. CASE u = new
        BY <2>1, <2>2, <2>3, <2>4, <2>6
    <2> QED
        BY <2>2, <2>5, <2>6
<1> QED
    BY <1>2, <1>3, <1>4, StepShape

\* Requests that share a key create one task per life of the key.
THEOREM TaskCreatedOnce == Spec => []OneTaskPerKey
<1>1. Init => OneTaskPerKey
    BY DEF Init, OneTaskPerKey, TaskIds
<1>2. TypeOK /\ Ready /\ KeysLeadToResources /\ OneTaskPerKey /\ [Next]_vars => OneTaskPerKey'
    BY OnceStep, CommandsAssumption
<1> QED
    BY <1>1, <1>2, TypeCorrect, KeysCorrect, PTL DEF Spec

-----------------------------------------------------------------------------
(* Answers *)

\* Who is about to start a goroutine starts that of his own task.
MadeMine ==
    \A c \in Callers, id \in Nat : (pc[c] = "start" /\ made[c] = id) => Mine(c, id)

\* AnswersAreMine, about the value of the answer.
GivenMine ==
    \A c \in Callers, id \in Nat :
        (answer[c].kind = "accepted" /\ answer[c].id = id) => Mine(c, id)

\* What is mine stays mine.
LEMMA MineStays ==
    ASSUME Keeps, NEW c \in Callers, NEW id, Mine(c, id)
    PROVE  Mine(c, id)'
<1>1. CASE c \in SessionCallers
    BY <1>1 DEF Mine, Owned, Keeps
<1>2. CASE c \notin SessionCallers
    <2>1. /\ id \in TaskIds
          /\ tasks[id].key = KeyOf[c] /\ tasks[id].request = RequestOf[c]
          /\ tasks[id].session \in SessionIds
          /\ sessions[tasks[id].session].owner = UserOf[c]
        BY <1>2 DEF Mine, Owned
    <2>2. /\ id \in TaskIds'
          /\ tasks'[id].session = tasks[id].session
          /\ tasks'[id].key = KeyOf[c] /\ tasks'[id].request = RequestOf[c]
        BY <2>1 DEF Keeps
    <2>3. /\ tasks[id].session \in SessionIds'
          /\ sessions'[tasks[id].session].owner = UserOf[c]
        BY <2>1 DEF Keeps
    <2> QED
        BY <1>2, <2>2, <2>3 DEF Mine, Owned
<1> QED
    BY <1>1, <1>2

\* An answer read from the table is the caller's.
LEMMA FromKeyMine ==
    ASSUME KeysLeadToResources, NEW c \in Callers, NEW row \in RowsOf(KeyOf[c]),
           FromKey(c, row).kind = "accepted"
    PROVE  Mine(c, FromKey(c, row).id)
<1>1. row.key = KeyOf[c]
    BY DEF RowsOf
<1>2. row.request = RequestOf[c]
    BY DEF FromKey, Says
<1>3. CASE c \in SessionCallers
    BY <1>2, <1>3 DEF FromKey, Says, Mine
<1>4. CASE c \in TaskCallers /\ c \notin SessionCallers
    <2>1. /\ row.resource \in TaskIds
          /\ tasks[row.resource].key = KeyOf[c] /\ tasks[row.resource].request = RequestOf[c]
        BY <1>1, <1>2, <1>4 DEF KeysLeadToResources
    <2>2. Owned(tasks[row.resource].session, c) /\ FromKey(c, row).id = row.resource
        BY <1>2, <1>4 DEF FromKey, Says
    <2> QED
        BY <1>4, <2>1, <2>2 DEF Mine
<1> QED
    BY <1>3, <1>4 DEF Callers

\* One caller's place changes at a time; whoever has to start a goroutine after
\* the step had to before it, or has just created the task.
LEMMA MadeStep ==
    ASSUME CommandsAssumption, TypeOK, Ready, MadeMine, [Next]_vars
    PROVE  MadeMine'
<1>k. Keeps
    BY StepKeeps
<1>1. ASSUME \A c \in Callers : pc'[c] = "start" => (pc[c] = "start" /\ made'[c] = made[c])
      PROVE  MadeMine'
    BY <1>1, <1>k, MineStays DEF MadeMine
<1>2. ASSUME NEW c \in TaskCallers, AcceptTask(c) PROVE MadeMine'
    <2>1. PICK new \in Nat : new = Len(tasks) + 1
        BY <1>2, AcceptFacts
    <2>2. /\ new \in TaskIds'
          /\ tasks'[new].session = SessionOf[c]
          /\ tasks'[new].key = KeyOf[c]
          /\ tasks'[new].request = RequestOf[c]
          /\ c \in Callers
        BY <1>2, <2>1, AcceptFacts
    <2>3. SessionOf[c] \in SessionIds' /\ sessions'[SessionOf[c]].owner = UserOf[c]
        BY <1>2, <1>k, <2>2 DEF Ready, AcceptTask, Owned, Keeps
    <2>4. Mine(c, new)'
        BY <2>2, <2>3 DEF Mine, Owned, CommandsAssumption
    <2>5. pc' = [pc EXCEPT ![c] = "start"] /\ made' = [made EXCEPT ![c] = new]
        BY <1>2, <2>1 DEF AcceptTask
    <2>6. made'[c] = new
        BY <2>2, <2>5 DEF TypeOK
    <2>7. ASSUME NEW d \in Callers, d # c, NEW id \in Nat, pc'[d] = "start", made'[d] = id
          PROVE  Mine(d, id)'
        <3>1. pc[d] = "start" /\ made[d] = id
            BY <2>5, <2>7 DEF TypeOK
        <3>2. Mine(d, id)
            BY <3>1 DEF MadeMine
        <3> QED
            BY <1>k, <3>2, MineStays
    <2>8. ASSUME NEW id \in Nat, made'[c] = id PROVE Mine(c, id)'
        BY <2>4, <2>6, <2>8
    <2> QED
        BY <2>7, <2>8 DEF MadeMine
<1>3. \/ \A c \in Callers : pc'[c] = "start" => (pc[c] = "start" /\ made'[c] = made[c])
      \/ \E c \in TaskCallers : AcceptTask(c)
    BY DEF Next, vars, TypeOK, Send, Refuse, Repeat, CreateSession, CheckKey, Plan, StartRun,
           EndTask, Crash, Restart, Tick, SetBack, Respond, InProgress, Callers
<1> QED
    BY <1>1, <1>2, <1>3

\* An answer that a step gives is not "accepted", or the caller's.
LEMMA AnswerStep ==
    ASSUME CommandsAssumption, TypeOK, Ready, KeysLeadToResources, MadeMine, GivenMine,
           [Next]_vars
    PROVE  GivenMine'
<1>k. Keeps /\ TaskCallers \subseteq Callers /\ SessionCallers \subseteq Callers
    BY StepKeeps DEF Callers
<1> DEFINE Fine(c) == \/ answer'[c] = answer[c]
                      \/ answer'[c].kind # "accepted"
                      \/ \A id \in Nat : answer'[c].id = id => Mine(c, id) \/ Mine(c, id)'
<1>0. ASSUME NEW c \in Callers, NEW a \in Answers, Respond(c, a),
             \/ a.kind # "accepted"
             \/ \A id \in Nat : a.id = id => Mine(c, id) \/ Mine(c, id)'
      PROVE  \A d \in Callers : Fine(d)
    <2>1. answer' = [answer EXCEPT ![c] = a] /\ answer \in [Callers -> Answers]
        BY <1>0 DEF Respond, TypeOK
    <2>2. answer'[c] = a /\ \A d \in Callers : d # c => answer'[d] = answer[d]
        BY <2>1
    <2> QED
        BY <1>0, <2>2
<1>1. ASSUME UNCHANGED answer PROVE \A d \in Callers : Fine(d)
    BY <1>1
<1>2. ASSUME NEW c \in Callers, Refuse(c) PROVE \A d \in Callers : Fine(d)
    <2>1. /\ Says("refused", 0) \in Answers /\ Says("refused", 0).kind # "accepted"
          /\ Respond(c, Says("refused", 0))
        BY <1>2 DEF Says, Answers, Refuse
    <2> QED
        BY <1>0, <2>1
<1>3. ASSUME NEW c \in Callers, NEW row \in RowsOf(KeyOf[c]), Respond(c, FromKey(c, row))
      PROVE \A d \in Callers : Fine(d)
    <2>1. FromKey(c, row) \in Answers
        BY FromKeyType DEF TypeOK, RowsOK, RowsOf
    <2>2. PICK a \in Answers : a = FromKey(c, row)
        BY <2>1
    <2>3. a.kind # "accepted" \/ Mine(c, a.id)
        BY <2>2, FromKeyMine
    <2> QED
        BY <1>0, <1>3, <2>2, <2>3
<1>4. ASSUME NEW c \in Callers, Repeat(c) PROVE \A d \in Callers : Fine(d)
    BY <1>3, <1>4 DEF Repeat, Valid
<1>5. ASSUME NEW c \in TaskCallers, CheckKey(c) PROVE \A d \in Callers : Fine(d)
    BY <1>k, <1>1, <1>3, <1>5 DEF CheckKey
<1>6. ASSUME NEW c \in TaskCallers, Plan(c) PROVE \A d \in Callers : Fine(d)
    <2>1. Says("not_found", 0) \in Answers /\ Says("not_found", 0).kind # "accepted"
        BY DEF Says, Answers
    <2>2. UNCHANGED answer \/ Respond(c, Says("not_found", 0))
        BY <1>6 DEF Plan
    <2> QED
        BY <1>k, <1>0, <1>1, <2>1, <2>2
<1>7. ASSUME NEW c \in SessionCallers, CreateSession(c) PROVE \A d \in Callers : Fine(d)
    <2>1. PICK new \in Nat : new = Len(sessions) + 1
        BY DEF TypeOK, RowsOK
    <2>2. PICK a \in Answers : a = Says("accepted", new)
        BY DEF Says, Answers
    <2>3. Respond(c, a) /\ a.id = new
        BY <1>7, <2>1, <2>2 DEF CreateSession, Says
    <2>4. new \in SessionIds' /\ sessions'[new].owner = UserOf[c]
        BY <1>7, <2>1, CreateSessionType DEF SessionIds, TypeOK, RowsOK
    <2>5. Mine(c, new)'
        BY <2>4 DEF Mine, Owned
    <2> QED
        BY <1>k, <1>0, <2>3, <2>5
<1>8. ASSUME NEW c \in TaskCallers, StartRun(c) PROVE \A d \in Callers : Fine(d)
    <2>1. PICK new \in Nat : new = made[c]
        BY <1>k DEF TypeOK
    <2>2. PICK a \in Answers : a = Says("accepted", new)
        BY DEF Says, Answers
    <2>3. Respond(c, a) /\ a.id = new /\ Mine(c, new)
        BY <1>k, <1>8, <2>1, <2>2 DEF StartRun, MadeMine, Says
    <2> QED
        BY <1>k, <1>0, <2>3
<1>9. ASSUME Crash PROVE \A d \in Callers : Fine(d)
    <2>1. \A c \in Callers : answer'[c] = answer[c] \/ answer'[c] = Says("lost", 0)
        BY <1>9 DEF Crash, TypeOK
    <2>2. Says("lost", 0).kind # "accepted"
        BY DEF Says
    <2> QED
        BY <2>1, <2>2
<1>10. UNCHANGED answer \/ (\E c \in Callers : Refuse(c) \/ Repeat(c))
       \/ (\E c \in SessionCallers : CreateSession(c))
       \/ (\E c \in TaskCallers : CheckKey(c) \/ Plan(c) \/ StartRun(c))
       \/ Crash
    BY DEF Next, vars, Send, AcceptTask, EndTask, Restart, Tick, SetBack
<1>11. \A d \in Callers : Fine(d)
    BY <1>1, <1>2, <1>4, <1>5, <1>6, <1>7, <1>8, <1>9, <1>10
<1>12. ASSUME NEW d \in Callers, NEW id \in Nat,
              answer'[d].kind = "accepted", answer'[d].id = id
       PROVE  Mine(d, id)'
    <2>1. Mine(d, id) \/ Mine(d, id)'
        BY <1>11, <1>12 DEF GivenMine
    <2> QED
        BY <1>k, <2>1, MineStays
<1> QED
    BY <1>12 DEF GivenMine

\* Nobody is told of a task or a session that is not what he asked for, his own.
THEOREM AnswersCorrect == Spec => []AnswersAreMine
<1>1. Init => MadeMine /\ GivenMine
    BY DEF Init, MadeMine, GivenMine, Says
<1>2. TypeOK /\ Ready /\ KeysLeadToResources /\ MadeMine /\ GivenMine /\ [Next]_vars
        => (MadeMine /\ GivenMine)'
    BY MadeStep, AnswerStep, CommandsAssumption
<1>3. TypeOK /\ GivenMine => AnswersAreMine
    BY DEF TypeOK, Answers, GivenMine, AnswersAreMine
<1> QED
    BY <1>1, <1>2, <1>3, TypeCorrect, KeysCorrect, PTL DEF Spec

-----------------------------------------------------------------------------
(* One goroutine per task *)

\* No goroutine was started for a task that does not exist yet.
NoneAhead == \A t \in 1..MaxTasks : t \notin TaskIds => started[t] = 0

\* Steps that end tasks at most, and leave alone who has to start a goroutine.
LEMMA StartedFrame ==
    ASSUME StartedOnce, NoneAhead, UNCHANGED started, TaskIds' = TaskIds, up' => up,
           \A c \in Callers : /\ pc'[c] = "start" <=> pc[c] = "start"
                              /\ made'[c] = made[c],
           \A t \in TaskIds : tasks'[t].active => tasks[t].active
    PROVE  StartedOnce' /\ NoneAhead'
<1>1. \A t \in TaskIds : Pending(t)' <=> Pending(t)
    BY DEF Pending
<1> QED
    BY <1>1 DEF StartedOnce, NoneAhead

\* Every step keeps the goroutines and the requests that owe one in agreement.
LEMMA StartedStep ==
    ASSUME CommandsAssumption, TypeOK, Ready, StartedOnce, NoneAhead, [Next]_vars
    PROVE  StartedOnce' /\ NoneAhead'
<1>t. /\ Len(tasks) \in Nat /\ Len(tasks) <= MaxTasks /\ MaxTasks \in Nat
      /\ TaskCallers \subseteq Callers /\ SessionCallers \subseteq Callers
      /\ TaskIds \subseteq 1..MaxTasks
    BY DEF TypeOK, RowsOK, Callers, CommandsAssumption, TaskIds
<1>1. ASSUME UNCHANGED <<tasks, made, started, up>>,
             \A c \in Callers : pc'[c] = "start" <=> pc[c] = "start"
      PROVE  StartedOnce' /\ NoneAhead'
    <2>1. /\ UNCHANGED started /\ TaskIds' = TaskIds /\ up' = up
          /\ \A c \in Callers : made'[c] = made[c]
          /\ \A t \in TaskIds : tasks'[t].active => tasks[t].active
        BY <1>1 DEF TaskIds
    <2> QED
        BY <1>1, <2>1, StartedFrame
<1>2. ASSUME NEW c \in TaskCallers, AcceptTask(c) PROVE StartedOnce' /\ NoneAhead'
    <2>1. PICK new \in Nat : new = Len(tasks) + 1
        BY <1>t
    <2>2. /\ TaskIds' = TaskIds \cup {new} /\ new \notin TaskIds
          /\ \A t \in TaskIds : tasks'[t] = tasks[t]
        BY <1>2, <2>1, AcceptFacts
    <2>3. /\ pc' = [pc EXCEPT ![c] = "start"] /\ made' = [made EXCEPT ![c] = new]
          /\ started' = started /\ up' = up /\ pc[c] = "accept"
        BY <1>2, <2>1 DEF AcceptTask
    <2>4. /\ pc'[c] = "start" /\ made'[c] = new
          /\ \A d \in Callers : d # c => pc'[d] = pc[d] /\ made'[d] = made[d]
        BY <1>t, <2>3 DEF TypeOK
    <2>5. \A d \in Callers : made[d] # new
        BY <1>t, <2>1 DEF TypeOK
    <2>6. Pending(new)'
        BY <1>t, <2>4 DEF Pending
    <2>7. ASSUME NEW t \in TaskIds PROVE Pending(t)' <=> Pending(t)
        BY <1>t, <2>2, <2>3, <2>4 DEF Pending
    <2>8. new \in 1..MaxTasks /\ started[new] = 0
        BY <1>2, <1>t, <2>1, <2>2 DEF AcceptTask, NoneAhead
    <2>9. NoneAhead'
        BY <2>2, <2>3 DEF NoneAhead
    <2>10. \A d, e \in Callers :
              (pc'[d] = "start" /\ pc'[e] = "start" /\ made'[d] = made'[e]) => d = e
        BY <2>4, <2>5 DEF StartedOnce
    <2>11. ASSUME NEW t \in TaskIds'
           PROVE  /\ started'[t] = 0 \/ (started'[t] = 1 /\ ~Pending(t)')
                  /\ (up' /\ tasks'[t].active) => (started'[t] = 1 \/ Pending(t)')
        <3>1. CASE t = new
            BY <2>3, <2>6, <2>8, <3>1
        <3>2. CASE t \in TaskIds
            BY <2>2, <2>3, <2>7, <3>2 DEF StartedOnce
        <3> QED
            BY <2>2, <3>1, <3>2
    <2> QED
        BY <2>9, <2>10, <2>11 DEF StartedOnce
<1>3. ASSUME NEW c \in TaskCallers, StartRun(c) PROVE StartedOnce' /\ NoneAhead'
    <2>1. PICK new \in Nat : new = made[c]
        BY <1>t DEF TypeOK
    <2>2. c \in Callers /\ pc[c] = "start" /\ new # 0 /\ new \in 0..Len(tasks)
        BY <1>3, <1>t, <2>1 DEF StartRun, Ready, TypeOK
    <2>3. new \in TaskIds /\ new \in 1..MaxTasks
        BY <1>t, <2>2 DEF TaskIds
    <2>4. started[new] = 0
        BY <2>1, <2>2, <2>3 DEF StartedOnce, Pending
    <2>5. /\ started' = [started EXCEPT ![new] = started[new] + 1]
          /\ made' = [made EXCEPT ![c] = 0]
          /\ pc' = [pc EXCEPT ![c] = "done"]
          /\ tasks' = tasks /\ up' = up
        BY <1>3, <2>1 DEF StartRun, Respond, durable
    <2>6. /\ started'[new] = 1
          /\ \A t \in 1..MaxTasks : t # new => started'[t] = started[t]
        BY <2>3, <2>4, <2>5 DEF TypeOK
    <2>7. /\ pc'[c] = "done"
          /\ \A d \in Callers : d # c => pc'[d] = pc[d] /\ made'[d] = made[d]
        BY <2>2, <2>5 DEF TypeOK
    <2>8. TaskIds' = TaskIds
        BY <2>5 DEF TaskIds
    <2>9. ~Pending(new)'
        BY <2>1, <2>2, <2>7 DEF Pending, StartedOnce
    <2>10. ASSUME NEW t \in TaskIds, t # new PROVE Pending(t)' <=> Pending(t)
        BY <2>1, <2>2, <2>7, <2>10 DEF Pending
    <2>11. NoneAhead'
        BY <2>3, <2>6, <2>8 DEF NoneAhead
    <2>12. \A d, e \in Callers :
              (pc'[d] = "start" /\ pc'[e] = "start" /\ made'[d] = made'[e]) => d = e
        BY <2>7 DEF StartedOnce
    <2>13. ASSUME NEW t \in TaskIds
           PROVE  /\ started'[t] = 0 \/ (started'[t] = 1 /\ ~Pending(t)')
                  /\ (up' /\ tasks'[t].active) => (started'[t] = 1 \/ Pending(t)')
        <3>1. CASE t = new
            BY <2>6, <2>9, <3>1
        <3>2. CASE t # new
            BY <1>t, <2>5, <2>6, <2>10, <3>2 DEF StartedOnce
        <3> QED
            BY <3>1, <3>2
    <2> QED
        BY <2>8, <2>11, <2>12, <2>13 DEF StartedOnce
<1>4. ASSUME NEW t \in TaskIds, EndTask(t) PROVE StartedOnce' /\ NoneAhead'
    <2>1. tasks \in Seq(TaskRows) /\ tasks' = [tasks EXCEPT ![t] = Ended(tasks[t])]
        BY <1>4 DEF EndTask, TypeOK, RowsOK
    <2>2. TaskIds' = TaskIds /\ \A u \in TaskIds : u # t => tasks'[u] = tasks[u]
        BY <2>1 DEF TaskIds
    <2>3. \A u \in TaskIds : tasks'[u].active => tasks[u].active
        BY <1>4, <2>1, <2>2 DEF EndTask
    <2>4. UNCHANGED <<started, up, pc, made>>
        BY <1>4 DEF EndTask
    <2> QED
        BY <2>2, <2>3, <2>4, StartedFrame
<1>5. ASSUME Crash PROVE StartedOnce' /\ NoneAhead'
    <2>1. up' = FALSE /\ tasks' = tasks /\ started' = started
        BY <1>5 DEF Crash, durable
    <2>2. \A c \in Callers : pc'[c] # "start"
        BY <1>5 DEF Crash, InProgress
    <2>3. \A t \in TaskIds : ~Pending(t)'
        BY <2>2 DEF Pending
    <2>4. TaskIds' = TaskIds
        BY <2>1 DEF TaskIds
    <2> QED
        BY <2>1, <2>2, <2>3, <2>4 DEF StartedOnce, NoneAhead
<1>6. ASSUME Restart PROVE StartedOnce' /\ NoneAhead'
    <2>1. /\ tasks' = [t \in TaskIds |-> Ended(tasks[t])]
          /\ UNCHANGED <<pc, made, started>>
        BY <1>6 DEF Restart
    <2>2. Len(tasks') = Len(tasks)
        BY <1>t, <2>1 DEF TaskIds
    <2>3. TaskIds' = TaskIds
        BY <2>2 DEF TaskIds
    <2>4. ASSUME NEW t \in TaskIds PROVE ~tasks'[t].active
        <3>1. tasks[t] \in TaskRows /\ tasks'[t] = Ended(tasks[t])
            BY <2>1 DEF TypeOK, RowsOK, TaskIds
        <3> QED
            BY <3>1 DEF Ended, TaskRows
    <2>5. \A t \in TaskIds : Pending(t)' <=> Pending(t)
        BY <2>1 DEF Pending
    <2> QED
        BY <2>1, <2>3, <2>4, <2>5 DEF StartedOnce, NoneAhead
<1>7. \/ UNCHANGED <<tasks, made, started, up>>
          /\ \A c \in Callers : pc'[c] = "start" <=> pc[c] = "start"
      \/ \E c \in TaskCallers : AcceptTask(c) \/ StartRun(c)
      \/ \E t \in TaskIds : EndTask(t)
      \/ Crash \/ Restart
    BY DEF Next, vars, TypeOK, durable, Send, Refuse, Repeat, CreateSession, CheckKey, Plan,
           Tick, SetBack, Respond, Callers
<1> QED
    BY <1>1, <1>2, <1>3, <1>4, <1>5, <1>6, <1>7

\* Every task gets its goroutine once, from the request that created it.
THEOREM GoroutineStartedOnce == Spec => []StartedOnce
<1>1. Init => StartedOnce /\ NoneAhead
    BY DEF Init, StartedOnce, NoneAhead, TaskIds
<1>2. TypeOK /\ Ready /\ StartedOnce /\ NoneAhead /\ [Next]_vars
        => (StartedOnce /\ NoneAhead)'
    BY StartedStep, CommandsAssumption
<1> QED
    BY <1>1, <1>2, TypeCorrect, PTL DEF Spec

-----------------------------------------------------------------------------
(* Sessions *)

\* There are finitely many tasks, so they can be counted.
LEMMA TasksOfFinite ==
    ASSUME TypeOK, NEW s
    PROVE  IsFiniteSet(TasksOf(s)) /\ Cardinality(TasksOf(s)) \in Nat
<1>1. IsFiniteSet(TaskIds)
    BY FS_Interval DEF TypeOK, RowsOK, TaskIds
<1>2. TasksOf(s) \subseteq TaskIds
    BY DEF TasksOf
<1> QED
    BY <1>1, <1>2, FS_Subset, FS_CardinalityType

\* The fields of a session have their types, and those of a touched one follow.
LEMMA TouchedFields ==
    ASSUME TypeOK, CommandsAssumption, NEW s \in SessionIds
    PROVE  /\ sessions[s].created \in Nat /\ sessions[s].updated \in Nat
           /\ sessions[s].version \in Nat /\ now \in Nat
           /\ Touched(sessions[s]).created = sessions[s].created
           /\ Touched(sessions[s]).updated = now
           /\ Touched(sessions[s]).version = sessions[s].version + 1
<1>1. sessions[s] \in SessionRows /\ now \in Nat
    BY DEF TypeOK, RowsOK, SessionIds, CommandsAssumption
<1> QED
    BY <1>1 DEF SessionRows, Touched

\* Every step keeps sessions and their tasks in agreement.
LEMMA SessionStep ==
    ASSUME CommandsAssumption, TypeOK, Ready, SessionReflectsTasks, [Next]_vars
    PROVE  SessionReflectsTasks'
<1>k. Keeps /\ Len(tasks) \in Nat /\ Len(sessions) \in Nat /\ now \in Nat
    BY StepKeeps DEF TypeOK, RowsOK, CommandsAssumption
<1>1. ASSUME UNCHANGED sessions, TaskIds' = TaskIds PROVE SessionReflectsTasks'
    <2>1. \A t \in TaskIds : tasks'[t].session = tasks[t].session /\ tasks'[t].at = tasks[t].at
        BY <1>k DEF Keeps
    <2>2. SessionIds' = SessionIds
        BY <1>1 DEF SessionIds
    <2>3. \A s \in SessionIds : TasksOf(s)' = TasksOf(s)
        BY <1>1, <2>1 DEF TasksOf
    <2>4. \A s \in SessionIds : \A t \in TasksOf(s) : tasks'[t].at = tasks[t].at
        BY <2>1 DEF TasksOf
    <2> QED
        BY <1>1, <2>2, <2>3, <2>4 DEF SessionReflectsTasks
<1>2. ASSUME NEW c \in SessionCallers, CreateSession(c) PROVE SessionReflectsTasks'
    <2>1. PICK new \in Nat : new = Len(sessions) + 1
        BY <1>k
    <2>2. /\ SessionIds' = SessionIds \cup {new} /\ new \notin SessionIds
          /\ \A s \in SessionIds : sessions'[s] = sessions[s]
          /\ sessions'[new] = [owner |-> UserOf[c], created |-> now, updated |-> now,
                               version |-> 1]
        <3>1. sessions \in Seq(SessionRows)
            BY DEF TypeOK, RowsOK
        <3>2. sessions' = Append(sessions, [owner |-> UserOf[c], created |-> now,
                                            updated |-> now, version |-> 1])
            BY <1>2 DEF CreateSession
        <3> QED
            BY <1>k, <2>1, <3>1, <3>2 DEF SessionIds
    <2>3. tasks' = tasks /\ TaskIds' = TaskIds
        BY <1>2 DEF CreateSession, TaskIds
    <2>4. \A s \in SessionIds' : TasksOf(s)' = TasksOf(s)
        BY <2>3 DEF TasksOf
    <2>5. TasksOf(new) = {}
        BY <2>2 DEF TasksOf, TypeOK, RowsOK
    <2>6. Cardinality(TasksOf(new)) = 0
        BY <2>5, FS_EmptySet
    <2>7. ASSUME NEW s \in SessionIds'
          PROVE  /\ sessions'[s].version = 1 + Cardinality(TasksOf(s))
                 /\ \A t \in TasksOf(s) : tasks[t].at \in sessions'[s].created..sessions'[s].updated
                 /\ sessions'[s].updated \in
                        {sessions'[s].created} \cup {tasks[t].at : t \in TasksOf(s)}
        <3>1. CASE s \in SessionIds
            BY <2>2, <3>1 DEF SessionReflectsTasks
        <3>2. CASE s = new
            BY <2>2, <2>5, <2>6, <3>2
        <3> QED
            BY <2>2, <3>1, <3>2
    <2> QED
        BY <2>3, <2>4, <2>7 DEF SessionReflectsTasks
<1>3. ASSUME NEW c \in TaskCallers, AcceptTask(c) PROVE SessionReflectsTasks'
    <2>1. PICK new \in Nat : new = Len(tasks) + 1
        BY <1>k
    <2>2. PICK mine \in SessionIds : mine = SessionOf[c]
        BY <1>3, AcceptFacts
    <2>3. /\ TaskIds' = TaskIds \cup {new} /\ new \notin TaskIds
          /\ \A t \in TaskIds : tasks'[t] = tasks[t]
          /\ tasks'[new].session = mine /\ tasks'[new].at = now
        BY <1>3, <2>1, <2>2, AcceptFacts
    <2>4. /\ SessionIds' = SessionIds
          /\ \A s \in SessionIds : s # mine => sessions'[s] = sessions[s]
          /\ sessions'[mine] = Touched(sessions[mine])
        <3>1. sessions \in Seq(SessionRows)
            BY DEF TypeOK, RowsOK
        <3>2. sessions' = [sessions EXCEPT ![mine] = Touched(sessions[mine])]
            BY <1>3, <2>2 DEF AcceptTask
        <3> QED
            BY <2>2, <3>1, <3>2 DEF SessionIds
    <2>5. now >= sessions[mine].updated
        BY <1>3, <2>2 DEF AcceptTask, Touchable
    <2>6. TasksOf(mine)' = TasksOf(mine) \cup {new} /\ new \notin TasksOf(mine)
        BY <2>3 DEF TasksOf
    <2>7. \A s \in SessionIds : s # mine => TasksOf(s)' = TasksOf(s)
        BY <2>3 DEF TasksOf
    <2>8. /\ Cardinality(TasksOf(mine)) \in Nat
          /\ Cardinality(TasksOf(mine) \cup {new}) = Cardinality(TasksOf(mine)) + 1
        BY <2>6, TasksOfFinite, FS_AddElement
    <2>9. \A s \in SessionIds : \A t \in TasksOf(s) : tasks'[t].at = tasks[t].at
        BY <2>3 DEF TasksOf
    <2>10. ASSUME NEW s \in SessionIds, s # mine
           PROVE  /\ sessions'[s].version = 1 + Cardinality(TasksOf(s)')
                  /\ \A t \in TasksOf(s)' :
                         tasks'[t].at \in sessions'[s].created..sessions'[s].updated
                  /\ sessions'[s].updated \in
                         {sessions'[s].created} \cup {tasks'[t].at : t \in TasksOf(s)'}
        BY <2>4, <2>7, <2>9, <2>10 DEF SessionReflectsTasks
    <2>11. /\ sessions'[mine].created = sessions[mine].created
           /\ sessions'[mine].updated = now
           /\ sessions'[mine].version = sessions[mine].version + 1
           /\ sessions[mine].created \in Nat /\ sessions[mine].updated \in Nat
        BY <2>4, TouchedFields
    <2>12. /\ sessions'[mine].version = 1 + Cardinality(TasksOf(mine)')
           /\ \A t \in TasksOf(mine)' :
                  tasks'[t].at \in sessions'[mine].created..sessions'[mine].updated
           /\ sessions'[mine].updated \in
                  {sessions'[mine].created} \cup {tasks'[t].at : t \in TasksOf(mine)'}
        <3>1. sessions'[mine].version = 1 + Cardinality(TasksOf(mine)')
            <4>1. sessions[mine].version = 1 + Cardinality(TasksOf(mine))
                BY DEF SessionReflectsTasks
            <4> QED
                BY <4>1, <2>6, <2>8, <2>11
        <3>2. ASSUME NEW t \in TasksOf(mine)
              PROVE  tasks'[t].at \in sessions'[mine].created..sessions'[mine].updated
            <4>1. tasks[t].at \in sessions[mine].created..sessions[mine].updated
                BY DEF SessionReflectsTasks
            <4>2. tasks'[t].at = tasks[t].at /\ now \in Nat
                BY <2>9, <1>k
            <4> QED
                BY <4>1, <4>2, <2>5, <2>11
        <3>3. sessions[mine].created <= sessions[mine].updated
            <4>1. \/ sessions[mine].updated = sessions[mine].created
                  \/ \E t \in TasksOf(mine) : sessions[mine].updated = tasks[t].at
                BY DEF SessionReflectsTasks
            <4>2. \A t \in TasksOf(mine) :
                    tasks[t].at \in sessions[mine].created..sessions[mine].updated
                BY DEF SessionReflectsTasks
            <4> QED
                BY <4>1, <4>2, <2>11
        <3>4. tasks'[new].at \in sessions'[mine].created..sessions'[mine].updated
            BY <2>3, <2>5, <2>11, <3>3, <1>k
        <3>5. new \in TasksOf(mine)' /\ sessions'[mine].updated = tasks'[new].at
            BY <2>3, <2>6, <2>11
        <3>6. \A t \in TasksOf(mine)' : t \in TasksOf(mine) \/ t = new
            BY <2>6
        <3> QED
            BY <3>1, <3>2, <3>4, <3>5, <3>6
    <2> QED
        BY <2>4, <2>10, <2>12 DEF SessionReflectsTasks
<1>4. \/ UNCHANGED sessions /\ TaskIds' = TaskIds
      \/ \E c \in SessionCallers : CreateSession(c)
      \/ \E c \in TaskCallers : AcceptTask(c)
    <2>1. \/ UNCHANGED sessions
          \/ \E c \in SessionCallers : CreateSession(c)
          \/ \E c \in TaskCallers : AcceptTask(c)
        BY DEF Next, vars, durable, Send, Refuse, Repeat, CheckKey, Plan, StartRun, EndTask,
               Crash, Restart, Tick, SetBack
    <2> QED
        BY <2>1, StepShape
<1> QED
    BY <1>1, <1>2, <1>3, <1>4

\* A session counts its tasks and is as recent as the last of them.
THEOREM SessionCorrect == Spec => []SessionReflectsTasks
<1>1. Init => SessionReflectsTasks
    BY DEF Init, SessionReflectsTasks, SessionIds
<1>2. TypeOK /\ Ready /\ SessionReflectsTasks /\ [Next]_vars => SessionReflectsTasks'
    BY SessionStep, CommandsAssumption
<1> QED
    BY <1>1, <1>2, TypeCorrect, PTL DEF Spec
=============================================================================
