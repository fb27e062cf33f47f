------------------------------ MODULE Workbench ------------------------------
(***************************************************************************)
(* The page of the Grafana app: Workbench.tsx, its reducer and its React   *)
(* effects, over the rows and the logs AI Core promises (TaskContract).    *)
(* A page loads the history of its session, replays the log of every task  *)
(* it learns of, then follows the active task by a subscription, which     *)
(* brings the events of the log in order (EventStream). Requests are       *)
(* served some time after they are made and answered later still, and an   *)
(* effect runs some time after the dispatch that calls for it; a click     *)
(* runs its effects at once.                                               *)
(***************************************************************************)
EXTENDS Naturals, Sequences, FiniteSets, FiniteSetsExt

CONSTANTS
    Sessions,   \* the sessions there may be
    Gone,       \* one of them that AI Core does not know (another volume)
    Tasks,      \* the tasks by age: 1, 2, ...
    SessionOf,  \* SessionOf[t]: the session t is submitted to
    Elsewhere,  \* the tasks another tab submits
    Page,       \* events per page of a replay (200 in the code)
    MaxLog,     \* bound on the events of a task
    MaxFaults   \* bound on failed requests and on reloads of the page

ASSUME WorkbenchAssumption ==
    /\ Tasks \subseteq Nat \ {0} /\ IsFiniteSet(Tasks) /\ Elsewhere \subseteq Tasks
    /\ Gone \in Sessions /\ SessionOf \in [Tasks -> Sessions \ {Gone}]
    /\ Page \in Nat \ {0} /\ {MaxLog, MaxFaults} \subseteq Nat
    /\ "none" \notin Sessions

VARIABLES
    \* AI Core
    status, version, log,
    sessions,   \* the sessions that exist
    \* the page: the reducer, the state and the refs of the component
    state,      \* the state of sessionReducer
    sessionId,  \* the selected session
    route,      \* the session the URL names
    sequence,   \* sequenceByTask: the last event a replay or the stream gave
    pending,    \* pendingTask: the session of the request that is submitted
    key,        \* there is an idempotencyKey
    recorded,   \* the task AI Core recorded under that key; 0: none
    made,       \* the tasks created since pendingTask was set
    \* the page: effects and requests
    replays,    \* replays[t]: the replay of t
    keyed,      \* the tasks (taskOrderKey) the replay effect last ran for
    stream,     \* the subscription: its task and the last event it accepted
    followed,   \* what the subscription effect last ran for
    history,    \* the history query of the selected session: its fetch
    cached,     \* cached[s]: the data of the history query of s, if any
    fresh,      \* that data changed and its effect did not run yet
    create,     \* the mutation that creates a task
    \* the environment
    faults

rows == <<status, version, log>>
refs == <<sequence, pending, key, recorded, made>>
effects == <<replays, keyed, stream, followed>>
query == <<history, cached, fresh>>
page == <<state, sessionId, route, refs, effects, query, create>>
vars == <<status, version, log, sessions, state, sessionId, route, sequence, pending, key,
          recorded, made, replays, keyed, stream, followed, history, cached, fresh, create, faults>>

Contract == INSTANCE TaskContract WITH Calls <- {0}

None == "none"
Ended == {"completed", "failed"}
Snapshot(s) == [t \in Tasks |-> IF SessionOf[t] = s THEN status[t] ELSE "absent"]

-----------------------------------------------------------------------------
(* The reducer *)

InitialState(s) ==
    [sessionId |-> s, tasks |-> [t \in Tasks |-> "absent"], active |-> 0,
     latest |-> [t \in Tasks |-> 0], replayed |-> {}]

\* The tasks of taskOrder.
Known(st) == {t \in Tasks : st.tasks[t] # "absent"}

\* The newest task that has not ended; 0: none.
FindActive(tasks) ==
    LET open == {t \in Tasks : tasks[t] \notin Ended \cup {"absent"}} IN
    IF open = {} THEN 0 ELSE Max(open)

\* (mutant) What the history says replaces what the page shows.
HistoryReplaces(st, s, loaded) ==
    IF s # st.sessionId THEN st
    ELSE LET tasks == [t \in Tasks |-> IF loaded[t] = "absent" THEN st.tasks[t] ELSE loaded[t]]
         IN [st EXCEPT !.tasks = tasks, !.active = FindActive(tasks)]

\* history.loaded: an active task that has not ended is kept as it is shown.
HistoryLoaded(st, s, loaded) ==
    IF s # st.sessionId THEN st
    ELSE LET keeps(t) == t = st.active /\ st.tasks[t] \notin Ended
             tasks == [t \in Tasks |-> IF loaded[t] = "absent" \/ keeps(t)
                                       THEN st.tasks[t] ELSE loaded[t]]
         IN [st EXCEPT !.tasks = tasks, !.active = FindActive(tasks)]

TaskCreated(st, s, t, as) ==
    IF s # st.sessionId \/ SessionOf[t] # st.sessionId THEN st
    ELSE [st EXCEPT !.tasks[t] = as, !.active = t]

\* What an event makes of the status of a runtime.
Says(event) == CASE event.kind = "task.status_changed" -> {event.status}
                 [] event.kind = "task.completed" -> {"completed"}
                 [] event.kind = "task.failed" -> {"failed"}
                 [] OTHER -> {}

\* The status of the runtime after n events of t, and what the page then shows.
Told(t, n) == UNION {Says(log[t][i]) : i \in {k \in 1..n : \A j \in (k + 1)..n : Says(log[t][j]) = {}}}
ShownAfter(st, t, n) == IF Told(t, n) = {} THEN st.tasks[t] ELSE CHOOSE s \in Told(t, n) : TRUE

\* task.event for the events of t from `from` to `to`: those the runtime has
\* are ignored, and so is everything after a gap.
TaskEvents(st, t, from, to) ==
    IF \/ SessionOf[t] # st.sessionId \/ st.tasks[t] = "absent"
       \/ to <= st.latest[t] \/ from > st.latest[t] + 1
    THEN st
    ELSE LET ends == \E i \in (st.latest[t] + 1)..to : ShownAfter(st, t, i) \in Ended
         IN [st EXCEPT !.tasks[t] = ShownAfter(st, t, to), !.latest[t] = to,
                       !.active = IF @ = t /\ ends THEN 0 ELSE @]

-----------------------------------------------------------------------------
(* The page when it is opened *)

NoReplays == [t \in Tasks |-> [pc |-> "idle", next |-> 0, upto |-> 0, target |-> 0]]
NoFetch == [pc |-> "idle", loaded |-> [t \in Tasks |-> "absent"]]
FetchOf(s) == [NoFetch EXCEPT !.pc = IF s = None THEN "idle" ELSE "asked"]
NoStream == [task |-> 0, last |-> 0]
NoMutation == [pc |-> "idle", task |-> 0, as |-> "absent"]

\* What the subscription effect depends on.
Watched(st, s) == [session |-> s, task |-> st.active,
                   status |-> IF st.active = 0 THEN "absent" ELSE st.tasks[st.active],
                   replayed |-> st.active \in st.replayed]

\* The page with nothing but a session s selected; data, if any, is cached.
Shown(s, data) ==
    /\ state' = InitialState(s)
    /\ sessionId' = s /\ route' = s
    /\ sequence' = [t \in Tasks |-> 0]
    /\ replays' = NoReplays /\ keyed' = {}
    /\ stream' = NoStream /\ followed' = Watched(InitialState(s), s)
    /\ history' = FetchOf(s)
    /\ fresh' = (data # {})

\* A request that failed is forgotten with the session it was made in.
Opened(s, data) ==
    /\ Shown(s, data)
    /\ pending' = None /\ key' = FALSE /\ recorded' = 0 /\ made' = {}

Init ==
    /\ Contract!Init
    /\ sessions \in SUBSET (Sessions \ {Gone})
    /\ route \in sessions \cup {None, Gone}
    /\ sessionId = route
    /\ state = InitialState(route)
    /\ sequence = [t \in Tasks |-> 0]
    /\ pending = None /\ key = FALSE /\ recorded = 0 /\ made = {}
    /\ replays = NoReplays /\ keyed = {}
    /\ stream = NoStream /\ followed = Watched(state, route)
    /\ history = FetchOf(route)
    /\ cached = [s \in Sessions |-> {}] /\ fresh = FALSE
    /\ create = NoMutation
    /\ faults = 0

Fault == faults < MaxFaults /\ faults' = faults + 1

-----------------------------------------------------------------------------
(* AI Core *)

\* Of the tasks of a session the oldest is created first.
Accept(t) ==
    /\ SessionOf[t] \in sessions
    /\ \A u \in Tasks : u < t /\ SessionOf[u] = SessionOf[t] => status[u] # "absent"
    /\ Contract!Accept(t)

Work ==
    /\ \E t \in Tasks :
          \/ Contract!Advance(t) \/ Contract!Fail(t) \/ Contract!Announce(t)
          \/ t \in Elsewhere /\ Accept(t)
    /\ \A t \in Tasks : Len(log'[t]) <= MaxLog
    /\ UNCHANGED <<sessions, page, faults>>

-----------------------------------------------------------------------------
(* The history of the session *)

\* Both lists of the history are answered; the slower of them later.
HistoryRead ==
    /\ history.pc = "asked"
    /\ sessionId \in sessions
    /\ history' = [pc |-> "read", loaded |-> Snapshot(sessionId)]
    /\ UNCHANGED <<rows, sessions, state, sessionId, route, refs, effects, cached, fresh,
                   create, faults>>

\* Data that is equal to the cached is not a change.
HistoryArrives ==
    /\ history.pc = "read"
    /\ history' = NoFetch
    /\ cached' = [cached EXCEPT ![sessionId] = {history.loaded}]
    /\ fresh' = (fresh \/ cached' # cached)
    /\ UNCHANGED <<rows, sessions, state, sessionId, route, refs, effects, create, faults>>

\* After three retries. The history of a session that is gone is an error, too.
HistoryFails ==
    /\ history.pc # "idle"
    /\ IF sessionId \in sessions THEN Fault ELSE UNCHANGED faults
    /\ history' = NoFetch
    /\ UNCHANGED <<rows, sessions, state, sessionId, route, refs, effects, cached, fresh, create>>

HistoryEffect ==
    /\ fresh
    /\ fresh' = FALSE
    /\ \E loaded \in cached[sessionId] : state' = HistoryLoaded(state, sessionId, loaded)
    /\ UNCHANGED <<rows, sessions, sessionId, route, refs, effects, history, cached, create, faults>>

\* The window gets the focus.
Focus ==
    /\ sessionId # None /\ history.pc = "idle"
    /\ history' = FetchOf(sessionId)
    /\ UNCHANGED <<rows, sessions, state, sessionId, route, refs, effects, cached, fresh,
                   create, faults>>

\* invalidateQueries for session s: a fetch under way is cancelled for a new
\* one, unless it is the first.
Invalidated(s) == IF s # sessionId \/ (cached[s] = {} /\ history.pc # "idle") THEN history
                                                                             ELSE FetchOf(s)

-----------------------------------------------------------------------------
(* The replay of the logs *)

\* Every replay under way is cancelled and begins again.
ReplayEffect ==
    /\ keyed # Known(state)
    /\ keyed' = Known(state)
    /\ replays' = [t \in Tasks |-> IF t \in Known(state) \ state.replayed
                                   THEN [pc |-> "asked", next |-> 1, upto |-> 0, target |-> 0]
                                   ELSE NoReplays[t]]
    /\ UNCHANGED <<rows, sessions, state, sessionId, route, refs, stream, followed, query,
                   create, faults>>

Least(i, j) == IF i < j THEN i ELSE j

\* The first page pins the target, its token carries it to the next.
ReplayRead(t) ==
    /\ replays[t].pc = "asked"
    /\ LET target == IF replays[t].target = 0 THEN Len(log[t]) ELSE replays[t].target IN
       replays' = [replays EXCEPT ![t] = [pc |-> "read", next |-> @.next, target |-> target,
                                          upto |-> Least(@.next + Page - 1, target)]]
    /\ UNCHANGED <<rows, sessions, state, sessionId, route, refs, keyed, stream, followed,
                   query, create, faults>>

\* A page of a replay; the last one makes t replayed up to `last`.
ReplayPageTo(t, last) ==
    LET r == replays[t]
        ends == r.upto = r.target
        applied == TaskEvents(state, t, r.next, r.upto)
    IN
    /\ r.pc = "read"
    /\ state' = IF ends /\ SessionOf[t] = state.sessionId
                THEN [applied EXCEPT !.replayed = @ \cup {t}] ELSE applied
    /\ sequence' = [sequence EXCEPT ![t] = IF ends THEN last ELSE r.upto]
    /\ replays' = [replays EXCEPT ![t] = IF ends THEN NoReplays[t]
                                         ELSE [r EXCEPT !.pc = "asked", !.next = r.upto + 1]]
    /\ UNCHANGED <<rows, sessions, sessionId, route, pending, key, recorded, made, keyed,
                   stream, followed, query, create, faults>>

\* (mutant) The target is the latest event there is.
ReplayPageLatest(t) == ReplayPageTo(t, Len(log[t]))

ReplayPage(t) == ReplayPageTo(t, replays[t].target)

\* Nobody catches the error, nothing tries again.
ReplayFails(t) ==
    /\ replays[t].pc \in {"asked", "read"}
    /\ Fault
    /\ replays' = [replays EXCEPT ![t].pc = "failed"]
    /\ UNCHANGED <<rows, sessions, state, sessionId, route, refs, keyed, stream, followed,
                   query, create>>

-----------------------------------------------------------------------------
(* The subscription *)

\* (mutant) The effect does not wait for the replay to end it runs for.
FollowEffectEarly ==
    /\ [followed EXCEPT !.replayed = FALSE] # [Watched(state, sessionId) EXCEPT !.replayed = FALSE]
    /\ followed' = Watched(state, sessionId)
    /\ stream' = IF state.active \in state.replayed /\ state.tasks[state.active] \notin Ended
                 THEN [task |-> state.active, last |-> sequence[state.active]] ELSE NoStream
    /\ UNCHANGED <<rows, sessions, state, sessionId, route, refs, replays, keyed, query,
                   create, faults>>

\* The subscription is closed, and another one opened from the last event known
\* while the active task is replayed and has not ended.
FollowEffect ==
    /\ followed # Watched(state, sessionId)
    /\ followed' = Watched(state, sessionId)
    /\ stream' = IF state.active \in state.replayed /\ state.tasks[state.active] \notin Ended
                 THEN [task |-> state.active, last |-> sequence[state.active]] ELSE NoStream
    /\ UNCHANGED <<rows, sessions, state, sessionId, route, refs, replays, keyed, query,
                   create, faults>>

\* The next event of the subscription; a terminal one closes it.
Deliver ==
    LET t == stream.task
        n == stream.last + 1
    IN
    /\ t # 0 /\ n <= Len(log[t])
    /\ sequence' = [sequence EXCEPT ![t] = n]
    /\ state' = TaskEvents(state, t, n, n)
    /\ stream' = IF log[t][n].kind \in {"task.completed", "task.failed"} THEN NoStream
                                                                        ELSE [stream EXCEPT !.last = n]
    /\ history' = Invalidated(followed.session)
    /\ UNCHANGED <<rows, sessions, sessionId, route, pending, key, recorded, made, replays,
                   keyed, followed, cached, fresh, create, faults>>

-----------------------------------------------------------------------------
(* Submitting a request *)

\* The form: not while a task is active, a request is out or the history loads
\* (or the session does, which is not followed here).
\* A request that failed is submitted again as it was.
Submit ==
    /\ state.active = 0 /\ create.pc = "idle" /\ history.pc = "idle"
    /\ IF pending = None /\ sessionId = None
       THEN /\ create' = [create EXCEPT !.pc = "session"]
            /\ UNCHANGED <<pending, key, recorded, made>>
       ELSE /\ create' = [create EXCEPT !.pc = "task"]
            /\ pending' = IF pending = None THEN sessionId ELSE pending
            /\ made' = IF pending = None THEN {} ELSE made
            /\ key' = TRUE
            /\ recorded' = IF key THEN recorded ELSE 0
    /\ UNCHANGED <<rows, sessions, state, sessionId, route, sequence, effects, query, faults>>

\* The session is created and selected, and the request goes on.
SessionCreated ==
    /\ create.pc = "session"
    /\ \E s \in Sessions \ (sessions \cup {Gone}) :
          /\ sessions' = sessions \cup {s}
          /\ pending' = s /\ sessionId' = s
          /\ state' = InitialState(s)
          /\ history' = FetchOf(s)
    /\ made' = {}
    /\ key' = TRUE
    /\ recorded' = IF key THEN recorded ELSE 0
    /\ create' = [create EXCEPT !.pc = "task"]
    /\ UNCHANGED <<rows, route, sequence, effects, cached, fresh, faults>>

\* No answer comes, whether the session was created or not.
SessionFails ==
    /\ create.pc = "session"
    /\ Fault
    /\ \/ UNCHANGED sessions
       \/ \E s \in Sessions \ (sessions \cup {Gone}) : sessions' = sessions \cup {s}
    /\ create' = NoMutation
    /\ UNCHANGED <<rows, state, sessionId, route, refs, effects, query>>

\* CreateTask, once for a key.
TaskAnswered ==
    /\ create.pc = "task"
    /\ IF recorded # 0
       THEN /\ create' = [pc |-> "answered", task |-> recorded, as |-> status[recorded]]
            /\ UNCHANGED <<rows, recorded, made>>
       ELSE \E t \in Tasks \ Elsewhere :
               /\ SessionOf[t] = pending
               /\ Accept(t)
               /\ recorded' = t
               /\ made' = made \cup {t}
               /\ create' = [pc |-> "answered", task |-> t, as |-> "created"]
    /\ UNCHANGED <<sessions, state, sessionId, route, sequence, pending, key, effects, query, faults>>

\* The session is not known, or has an active task.
TaskRefused ==
    /\ create.pc = "task" /\ recorded = 0
    /\ \/ pending \notin sessions
       \/ \E t \in Tasks : SessionOf[t] = pending /\ Contract!Active(t)
    /\ create' = NoMutation
    /\ UNCHANGED <<rows, sessions, state, sessionId, route, refs, effects, query, faults>>

\* (mutant) The key of a request that failed is forgotten.
TaskForgotten ==
    /\ create.pc \in {"task", "answered"}
    /\ Fault
    /\ create' = NoMutation
    /\ key' = FALSE /\ recorded' = 0
    /\ UNCHANGED <<rows, sessions, state, sessionId, route, sequence, pending, made, effects,
                   query>>

\* The answer is an error of the way, or lost after the task was created.
TaskFails ==
    /\ create.pc \in {"task", "answered"}
    /\ Fault
    /\ create' = NoMutation
    /\ UNCHANGED <<rows, sessions, state, sessionId, route, refs, effects, query>>

\* onSuccess: the task is active as it was answered, and the page is where it is.
TaskCreation ==
    /\ create.pc = "answered"
    /\ create' = NoMutation
    /\ key' = FALSE /\ recorded' = 0 /\ pending' = None
    /\ sessionId' = pending /\ route' = pending
    /\ state' = TaskCreated(state, pending, create.task, create.as)
    /\ history' = IF pending = sessionId THEN Invalidated(pending) ELSE FetchOf(pending)
    /\ fresh' = IF pending = sessionId THEN fresh ELSE cached[pending] # {}
    /\ UNCHANGED <<rows, sessions, sequence, made, effects, cached, faults>>

-----------------------------------------------------------------------------
(* Another session, or none *)

\* (mutant) The request that failed in a session is kept when it is left.
SelectKeepsRequest(s) ==
    /\ create.pc = "idle"
    /\ s = None \/ (s # sessionId /\ \E t \in Tasks : SessionOf[t] = s /\ status[t] # "absent")
    /\ Shown(s, IF s = None THEN {} ELSE cached[s])
    /\ UNCHANGED <<rows, sessions, pending, key, recorded, made, cached, create, faults>>

\* selectConversation, for a session of the menu (those with a task) or none.
Select(s) ==
    /\ create.pc = "idle"
    /\ s = None \/ (s # sessionId /\ \E t \in Tasks : SessionOf[t] = s /\ status[t] # "absent")
    /\ Opened(s, IF s = None THEN {} ELSE cached[s])
    /\ UNCHANGED <<rows, sessions, cached, create, faults>>

\* The session query found no such session: everything about it is forgotten.
Recover ==
    /\ sessionId \notin sessions \cup {None}
    /\ Opened(None, {})
    /\ UNCHANGED <<rows, sessions, cached, create, faults>>

\* The page is loaded again, from its URL.
Reload ==
    /\ Fault
    /\ Opened(route, {})
    /\ cached' = [s \in Sessions |-> {}]
    /\ create' = NoMutation
    /\ UNCHANGED <<rows, sessions>>

-----------------------------------------------------------------------------
Next ==
    \/ Work
    \/ HistoryRead \/ HistoryArrives \/ HistoryFails \/ HistoryEffect \/ Focus
    \/ ReplayEffect
    \/ \E t \in Tasks : ReplayRead(t) \/ ReplayPage(t) \/ ReplayFails(t)
    \/ FollowEffect \/ Deliver
    \/ Submit \/ SessionCreated \/ SessionFails
    \/ TaskAnswered \/ TaskRefused \/ TaskFails \/ TaskCreation
    \/ \E s \in Sessions \cup {None} : Select(s)
    \/ Recover \/ Reload

Spec == Init /\ [][Next]_vars

\* Effects run, and the replay and the stream answer, which EventStream shows
\* of the stream. Nothing is assumed of AI Core, of the user, of the history.
Fairness ==
    /\ WF_vars(HistoryEffect) /\ WF_vars(ReplayEffect) /\ WF_vars(FollowEffect)
    /\ \A t \in Tasks : WF_vars(ReplayRead(t)) /\ WF_vars(ReplayPage(t))
    /\ WF_vars(Deliver)

FairSpec == Spec /\ Fairness
-----------------------------------------------------------------------------
(* What must hold *)

Statuses == {"created", "planning", "running_tools", "validating", "completed", "failed"}

\* The component and its reducer show the same session, so that what arrives
\* for the one is not refused by the other, however late an answer is.
OneSession == sessionId = state.sessionId

\* A subscription goes on where the reducer stands: from the end of the replay
\* over every change of status no event is missing, which the reducer would
\* refuse the rest of the log for, and none comes twice.
NoGapAfterReplay ==
    /\ \A t \in state.replayed : sequence[t] = state.latest[t]
    /\ stream.task \in Known(state) => stream.last = state.latest[stream.task]

\* A request makes one task however often it is submitted and whatever answer
\* is lost: a retry carries the key and the session of the first attempt.
OneTaskPerRequest == Cardinality(made) <= 1

\* A task stays active on the page until its own events, or another task, end
\* that: a history that is ahead of the stream does not close the stream before
\* the rest of the log, and the charts in it, have been reduced.
ActiveUntilItsEvents ==
    [][\A t \in Known(state) :
          (/\ state.active = t /\ state.tasks[t] \notin Ended
           /\ state'.sessionId = state.sessionId /\ state'.active = 0
           /\ t \in Known(state'))
          => Told(t, state'.latest[t]) # {} /\ Told(t, state'.latest[t]) \subseteq Ended]_vars

\* current_codebase_overview.md says that the history does not settle a task
\* before its events are reduced: a task that was replayed is shown as ended
\* once its events said so.
EndedByItsEvents ==
    \A t \in state.replayed : state.tasks[t] \in Ended => Told(t, state.latest[t]) # {}
                                  /\ Told(t, state.latest[t]) \subseteq Ended

\* The page catches up with the log of its active task again and again, unless
\* the replay failed: no lag of an effect and no change of session or status
\* leaves it waiting for an event that is there.
PageFollows ==
    \A t \in Tasks : []<>(state.active = t => \/ state.latest[t] = Len(log[t])
                                              \/ replays[t].pc = "failed"
                                              \/ state.tasks[t] \in Ended)

\* current_codebase_overview.md says that a subscription is closed once its
\* terminal event was received: while the page stays with its session, nothing
\* else leaves it without one, a change of status that comes first included.
ClosedByItsEnd ==
    [][stream.task \in Known(state') /\ stream'.task = 0 =>
          LET t == stream.task
          IN  state'.latest[t] > 0 /\ log[t][state'.latest[t]].kind \in {"task.completed", "task.failed"}]_vars
=============================================================================
