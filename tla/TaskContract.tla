---------------------------- MODULE TaskContract ----------------------------
(***************************************************************************)
(* What AI Core promises about an analysis task to whoever reads its row   *)
(* or its events, without goroutines, worker slots, storage errors or      *)
(* restarts: a status that only moves forward, one active task per         *)
(* session, and a log that is only appended to and that tells the status,  *)
(* with the progress events that belong to it, in order.                   *)
(***************************************************************************)
EXTENDS Naturals, Sequences

CONSTANTS
    Tasks,      \* the tasks that may be submitted
    SessionOf,  \* SessionOf[t]: the session task t is submitted to
    Calls       \* what a progress event may be about; 0: the task as a whole

VARIABLES
    status,   \* status[t]: the status a reader of the row sees
    version,  \* version[t]: how often the row was written
    log       \* log[t]: the events of t by sequence

vars == <<status, version, log>>

Event(kind, says, call) == [kind |-> kind, status |-> says, call |-> call]

\* The successor of each status while nothing fails.
NextStatus == [created |-> "planning", planning |-> "running_tools",
               running_tools |-> "validating", validating |-> "completed"]

Active(t) == status[t] \in DOMAIN NextStatus

\* The progress events that may be reported in each status.
Progress == [running_tools |-> {"assistant.message.started", "assistant.message.delta",
                                "tool.started", "tool.completed", "tool.failed"},
             validating |-> {"assistant.message.completed", "chart.created",
                             "chart.execution_completed"}]

Init ==
    /\ status = [t \in Tasks |-> "absent"]
    /\ version = [t \in Tasks |-> 0]
    /\ log = [t \in Tasks |-> <<>>]

\* The row is written once and the events es are appended, atomically.
Commit(t, to, es) ==
    /\ status' = [status EXCEPT ![t] = to]
    /\ version' = [version EXCEPT ![t] = @ + 1]
    /\ log' = [log EXCEPT ![t] = @ \o es]

Accept(t) ==
    /\ status[t] = "absent"
    /\ \A u \in Tasks : SessionOf[u] = SessionOf[t] => ~Active(u)
    /\ Commit(t, "created", <<Event("task.created", "created", 0)>>)

Advance(t) ==
    /\ Active(t)
    /\ LET to == NextStatus[status[t]] IN
       Commit(t, to, <<Event("task.status_changed", to, 0)>>)

Report(t) ==
    /\ status[t] \in DOMAIN Progress
    /\ \E kind \in Progress[status[t]], call \in Calls :
          log' = [log EXCEPT ![t] = Append(@, Event(kind, "none", call))]
    /\ UNCHANGED <<status, version>>

Fail(t) ==
    /\ Active(t)
    /\ Commit(t, "failed", <<Event("task.status_changed", "failed", 0),
                             Event("task.failed", "none", 0)>>)

\* Completion is announced by a step of its own, once, or never.
Announce(t) ==
    /\ status[t] = "completed"
    /\ log[t][Len(log[t])].kind # "task.completed"
    /\ log' = [log EXCEPT ![t] = Append(@, Event("task.completed", "none", 0))]
    /\ UNCHANGED <<status, version>>

Next == \E t \in Tasks : Accept(t) \/ Advance(t) \/ Report(t) \/ Fail(t) \/ Announce(t)

Spec == Init /\ [][Next]_vars
=============================================================================
