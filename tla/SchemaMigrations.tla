--------------------------- MODULE SchemaMigrations ---------------------------
(***************************************************************************)
(* How AI Core starts on the database an earlier release left: Open runs   *)
(* the pending migrations in one transaction (migrate.go), New recovers    *)
(* what was interrupted, then requests are served. Migration 2 links each  *)
(* message to its task and refuses data it cannot link; the others have no *)
(* check, and their columns are left out. A start may fail or die at any   *)
(* step and is tried again.                                                *)
(***************************************************************************)
EXTENDS Integers, FiniteSets

CONSTANTS
    Sessions, Tasks, Messages,
    RolesOf,    \* the roles a message may have had in the old database
    Latest,     \* the last version of allMigrations (6 in the code)
    MaxFaults   \* bound on storage errors and crashes

\* NULL, and the row of an id that is not there.
None == [row |-> "none"]

ASSUME MigrationsAssumption ==
    /\ None \notin Tasks
    /\ RolesOf \in [Messages -> SUBSET {"user", "assistant"}]
    /\ Latest \in Nat /\ Latest >= 2
    /\ MaxFaults \in Nat

VARIABLES
    db,       \* what is committed: versions applied, and rows
    tx,       \* what the transaction of migrate sees
    pc,       \* where the start of the process is
    version,  \* the migration that is next
    mine,     \* tasks this process accepted
    refused,  \* the last start found the data ambiguous
    faults

vars == <<db, tx, pc, version, mine, refused, faults>>

TaskRows == [session : Sessions, input : Messages, active : BOOLEAN]
MessageRows == [session : Sessions, role : {"user", "assistant"}, task : Tasks \cup {None}]
Databases == [applied : SUBSET (1..Latest),
              task : [Tasks -> TaskRows \cup {None}],
              message : [Messages -> MessageRows \cup {None}],
              announced : SUBSET (Tasks \X Messages)]  \* assistant.message.completed

HasTask(d, t) == d.task[t] # None
HasMessage(d, m) == d.message[m] # None
TaskIds(d) == {t \in Tasks : HasTask(d, t)}
MessageIds(d) == {m \in Messages : HasMessage(d, m)}
ActiveTasks(d) == {t \in TaskIds(d) : d.task[t].active}
InRole(d, role) == {m \in MessageIds(d) : d.message[m].role = role}

\* The tasks that have user message m as their input, and the tasks whose
\* events announced assistant message m.
AskedBy(d, m) == {t \in TaskIds(d) : d.task[t].input = m /\ d.task[t].session = d.message[m].session}
AnnouncedBy(d, m) == {t \in TaskIds(d) : <<t, m>> \in d.announced}

OneOf(S) == \E x \in S : S = {x}

-----------------------------------------------------------------------------
(* The checks and statements of migration 2 *)

\* (mutant) Who announced a message is not counted.
ClearUncounted(d) ==
    /\ \A t \in TaskIds(d) :
          LET m == d.task[t].input
          IN  HasMessage(d, m) /\ d.message[m].session = d.task[t].session /\ d.message[m].role = "user"
    /\ \A t, u \in TaskIds(d) : d.task[t].input = d.task[u].input => t = u
    /\ \A m \in InRole(d, "user") : OneOf(AskedBy(d, m))
    /\ \A t, u \in ActiveTasks(d) : d.task[t].session = d.task[u].session => t = u

\* (mutant) A session may have no more than one task at all.
ClearSingleTurn(d) ==
    /\ \A t \in TaskIds(d) :
          LET m == d.task[t].input
          IN  HasMessage(d, m) /\ d.message[m].session = d.task[t].session /\ d.message[m].role = "user"
    /\ \A t, u \in TaskIds(d) : d.task[t].input = d.task[u].input => t = u
    /\ \A m \in InRole(d, "user") : OneOf(AskedBy(d, m))
    /\ \A m \in InRole(d, "assistant") : OneOf(AnnouncedBy(d, m))
    /\ \A t, u \in TaskIds(d) : d.task[t].session = d.task[u].session => t = u

\* Every task's input is a user message of its session and nobody else's; each
\* user message is the input of one task and each assistant message was
\* announced by one; a session has one active task at most.
Unambiguous(d) ==
    /\ \A t \in TaskIds(d) :
          LET m == d.task[t].input
          IN  HasMessage(d, m) /\ d.message[m].session = d.task[t].session /\ d.message[m].role = "user"
    /\ \A t, u \in TaskIds(d) : d.task[t].input = d.task[u].input => t = u
    /\ \A m \in InRole(d, "user") : OneOf(AskedBy(d, m))
    /\ \A m \in InRole(d, "assistant") : OneOf(AnnouncedBy(d, m))
    /\ \A t, u \in ActiveTasks(d) : d.task[t].session = d.task[u].session => t = u

\* A scalar subquery: any of the rows, or NULL.
AnyOf(S) == IF S = {} THEN None ELSE CHOOSE x \in S : TRUE

Link(d, m) == IF d.message[m].role = "user" THEN AnyOf(AskedBy(d, m)) ELSE AnyOf(AnnouncedBy(d, m))

\* (mutant) Messages are linked to any task of their session.
LinkedBySession(d) ==
    [d EXCEPT !.message = [m \in Messages |->
        IF HasMessage(d, m)
        THEN [d.message[m] EXCEPT !.task = AnyOf({t \in TaskIds(d) : d.task[t].session = d.message[m].session})]
        ELSE None]]

\* The UPDATEs of the script: messages.task_id of both roles.
Backfilled(d) ==
    [d EXCEPT !.message = [m \in Messages |->
        IF HasMessage(d, m) THEN [d.message[m] EXCEPT !.task = Link(d, m)] ELSE None]]

\* The unique indexes: (task, role) of messages, the input and the active task.
Indexed(d) ==
    /\ \A m, n \in MessageIds(d) :
          (d.message[m].task # None /\ d.message[m].task = d.message[n].task
              /\ d.message[m].role = d.message[n].role) => m = n
    /\ \A t, u \in TaskIds(d) : d.task[t].input = d.task[u].input => t = u
    /\ \A t, u \in ActiveTasks(d) : d.task[t].session = d.task[u].session => t = u

\* Each message has a task of its session, each task's input is linked back.
Valid(d) ==
    /\ \A m \in MessageIds(d) : d.message[m].task # None
    /\ \A t \in TaskIds(d) :
          LET m == d.task[t].input
          IN  /\ HasMessage(d, m) /\ d.message[m].session = d.task[t].session
              /\ d.message[m].task = t /\ d.message[m].role = "user"
    /\ \A m \in MessageIds(d) :
          LET t == d.message[m].task
          IN  t \in TaskIds(d) /\ d.task[t].session = d.message[m].session

-----------------------------------------------------------------------------
(* What a database must be like from version 2 on *)

Consistent(d) ==
    /\ Indexed(d)
    /\ Valid(d)
    /\ \A m \in InRole(d, "user") : d.task[d.message[m].task].input = m
    /\ \A m \in InRole(d, "assistant") : AnnouncedBy(d, m) = {d.message[m].task}

\* The foreign keys of 0001: an event's task and a task's input exist.
Referenced(d) ==
    /\ \A t \in TaskIds(d) : HasMessage(d, d.task[t].input)
    /\ \A e \in d.announced : HasTask(d, e[1])

\* The links are all the upgrade may choose.
WithLinks(d, links) ==
    [d EXCEPT !.message = [m \in Messages |->
        IF HasMessage(d, m) THEN [d.message[m] EXCEPT !.task = links[m]] ELSE None]]

Upgradeable(d) == \E links \in [Messages -> Tasks] : Consistent(WithLinks(d, links))

\* The rows of version 1, which has no links.
OldDatabase(task, message, announced) ==
    [applied |-> {1}, task |-> task, message |-> message, announced |-> announced]

OldMessages ==
    {f \in [Messages -> [session : Sessions, role : {"user", "assistant"}, task : {None}] \cup {None}] :
        \A m \in Messages : f[m] # None => f[m].role \in RolesOf[m]}

\* A new file, a database of version 1, or one that a release which knew the
\* first n migrations left.
Init ==
    /\ \E task \in [Tasks -> TaskRows \cup {None}], message \in OldMessages :
       \E announced \in SUBSET (Tasks \X {m \in Messages : message[m] # None /\ message[m].role = "assistant"}) :
          LET old == OldDatabase(task, message, announced)
          IN  /\ Referenced(old)
              /\ \/ db = old
                 \/ TaskIds(old) \cup MessageIds(old) = {} /\ db = [old EXCEPT !.applied = {}]
                 \/ \E links \in [Messages -> Tasks] :
                       /\ Consistent(WithLinks(old, links))
                       /\ \E n \in 2..Latest : db = [WithLinks(old, links) EXCEPT !.applied = 1..n]
    /\ tx = db
    /\ pc = "down"
    /\ version = 1
    /\ mine = {}
    /\ refused = FALSE
    /\ faults = 0

-----------------------------------------------------------------------------
(* Open *)

Begin ==
    /\ pc = "down"
    /\ pc' = "migrating"
    /\ UNCHANGED <<db, tx, version, mine, refused, faults>>

Record(d) == tx' = [d EXCEPT !.applied = @ \cup {version}]
Proceed == version' = version + 1 /\ UNCHANGED <<db, pc, mine, refused, faults>>

\* A version that was recorded is skipped.
Skip ==
    /\ pc = "migrating" /\ version \in tx.applied
    /\ Proceed
    /\ UNCHANGED tx

\* A script without checks.
Apply ==
    /\ pc = "migrating" /\ version \in (1..Latest) \ (tx.applied \cup {2})
    /\ Record(tx)
    /\ Proceed

\* Migration 2, whose checks and indexes hold.
Relink ==
    /\ pc = "migrating" /\ version = 2 /\ 2 \notin tx.applied
    /\ Unambiguous(tx) /\ Indexed(Backfilled(tx)) /\ Valid(Backfilled(tx))
    /\ Record(Backfilled(tx))
    /\ Proceed

Exit ==
    /\ pc' = "down"
    /\ tx' = db
    /\ version' = 1
    /\ mine' = {}

\* One does not: the transaction is rolled back and the process ends.
Refuse ==
    /\ pc = "migrating" /\ version = 2 /\ 2 \notin tx.applied
    /\ ~(Unambiguous(tx) /\ Indexed(Backfilled(tx)) /\ Valid(Backfilled(tx)))
    /\ Exit
    /\ refused' = TRUE
    /\ UNCHANGED <<db, faults>>

\* (mutant) Every migration is committed on its own.
CommitEach ==
    /\ pc = "migrating"
    /\ db' = tx
    /\ pc' = IF version > Latest THEN "recovering" ELSE "migrating"
    /\ refused' = FALSE
    /\ UNCHANGED <<tx, version, mine, faults>>

Commit ==
    /\ pc = "migrating" /\ version > Latest
    /\ db' = tx
    /\ pc' = "recovering"
    /\ refused' = FALSE
    /\ UNCHANGED <<tx, version, mine, faults>>

\* A statement fails, the store is not healthy, the profile or the model cannot
\* be loaded, recovery fails, or the process dies.
Fault ==
    /\ pc # "down"
    /\ faults < MaxFaults
    /\ faults' = faults + 1
    /\ Exit
    /\ UNCHANGED <<db, refused>>

-----------------------------------------------------------------------------
(* New, and the requests *)

\* RecoverInterrupted fails one task per transaction.
Recover(t) ==
    /\ pc = "recovering"
    /\ t \in ActiveTasks(db)
    /\ db' = [db EXCEPT !.task[t].active = FALSE]
    /\ UNCHANGED <<tx, pc, version, mine, refused, faults>>

Serve ==
    /\ pc = "recovering"
    /\ ActiveTasks(db) = {}
    /\ pc' = "serving"
    /\ UNCHANGED <<db, tx, version, mine, refused, faults>>

\* CreateTask inserts the message, then the task.
CreateTask(t, m, s) ==
    /\ pc = "serving"
    /\ ~HasTask(db, t) /\ ~HasMessage(db, m)
    /\ \A u \in ActiveTasks(db) : db.task[u].session # s
    /\ db' = [db EXCEPT !.task[t] = [session |-> s, input |-> m, active |-> TRUE],
                        !.message[m] = [session |-> s, role |-> "user", task |-> t]]
    /\ mine' = mine \cup {t}
    /\ UNCHANGED <<tx, pc, version, refused, faults>>

\* The workflow appends the assistant's message, with its event.
Answer(t, m) ==
    /\ pc = "serving"
    /\ t \in ActiveTasks(db) /\ ~HasMessage(db, m)
    /\ \A n \in InRole(db, "assistant") : db.message[n].task # t
    /\ db' = [db EXCEPT !.message[m] = [session |-> db.task[t].session, role |-> "assistant", task |-> t],
                        !.announced = @ \cup {<<t, m>>}]
    /\ UNCHANGED <<tx, pc, version, mine, refused, faults>>

\* It completes or fails the task.
Settle(t) ==
    /\ pc = "serving"
    /\ t \in ActiveTasks(db)
    /\ db' = [db EXCEPT !.task[t].active = FALSE]
    /\ UNCHANGED <<tx, pc, version, mine, refused, faults>>

-----------------------------------------------------------------------------
Migrate == Begin \/ Skip \/ Apply \/ Relink \/ Refuse \/ Commit
Start == Migrate \/ (\E t \in Tasks : Recover(t)) \/ Serve
Write == \E t \in Tasks :
            \/ Settle(t)
            \/ \E m \in Messages : Answer(t, m) \/ \E s \in Sessions : CreateTask(t, m, s)

Next == Start \/ Fault \/ Write

Spec == Init /\ [][Next]_vars

\* The process is started again by whoever supervises it, and runs.
FairSpec == Spec /\ WF_vars(Start)
-----------------------------------------------------------------------------
(* What must hold *)

\* Types of every variable.
TypeOK ==
    /\ db \in Databases /\ tx \in Databases
    /\ pc \in {"down", "migrating", "recovering", "serving"}
    /\ version \in 1..(Latest + 1)
    /\ mine \in SUBSET Tasks
    /\ refused \in BOOLEAN
    /\ faults \in 0..MaxFaults

\* From version 2 on the committed rows fit together: nothing the checks let
\* through, the script wrote or the program added later breaks a link.
Linked == 2 \in db.applied => Consistent(db)

\* Data are refused only if no links at all would make them consistent.
RefusedIsAmbiguous ==
    refused => 2 \notin db.applied /\ ~Upgradeable(db)

\* An old database changes only by becoming the latest one, in one step that
\* adds links and touches no row otherwise; whatever fails before leaves it as
\* it was.
UpgradedWhole ==
    [][db.applied # 1..Latest =>
          \/ db' = db
          \/ /\ db'.applied = 1..Latest
             /\ db'.task = db.task /\ db'.announced = db.announced
             /\ \E links \in [Messages -> Tasks \cup {None}] : db'.message = WithLinks(db, links).message]_vars

\* A database whose messages can be linked ends up being served, through every
\* start that failed.
UpgradeableIsServed ==
    (2 \notin db.applied /\ Upgradeable(db)) ~> pc = "serving"
=============================================================================
