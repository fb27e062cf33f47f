---------------------------- MODULE WorkbenchProofs ----------------------------
(***************************************************************************)
(* Proofs about Workbench, for any sessions, tasks, page size, logs and    *)
(* number of failures: the page keeps to one session, a request makes one  *)
(* task however often it is submitted, no event is missing between the     *)
(* replay of a log and the subscription that goes on from it, and a task   *)
(* is active until its events end it.                                      *)
(***************************************************************************)
EXTENDS Workbench, FiniteSetTheorems, WellFoundedInduction, TLAPS

-----------------------------------------------------------------------------
(* The page keeps to one session *)

Shape == "sessionId" \in DOMAIN state /\ "pc" \in DOMAIN create

\* A request that is out was made in the session that is shown, so that what
\* its answer selects is what the reducer shows.
RequestOfSession ==
    /\ pending \in {None, sessionId}
    /\ create.pc \in {"task", "answered"} => pending = sessionId
    /\ create.pc = "session" => sessionId = None

SessionInv == Shape /\ OneSession /\ RequestOfSession

\* What the reducer makes of a history, an answer or events is of its session.
LEMMA ReducerKeepsSession ==
    ASSUME NEW st, "sessionId" \in DOMAIN st
    PROVE  /\ \A s, loaded : /\ "sessionId" \in DOMAIN HistoryLoaded(st, s, loaded)
                             /\ HistoryLoaded(st, s, loaded).sessionId = st.sessionId
           /\ \A s, t, as : /\ "sessionId" \in DOMAIN TaskCreated(st, s, t, as)
                            /\ TaskCreated(st, s, t, as).sessionId = st.sessionId
           /\ \A t, from, to : /\ "sessionId" \in DOMAIN TaskEvents(st, t, from, to)
                               /\ TaskEvents(st, t, from, to).sessionId = st.sessionId
<1>1. ASSUME NEW s, NEW loaded
      PROVE  /\ "sessionId" \in DOMAIN HistoryLoaded(st, s, loaded)
             /\ HistoryLoaded(st, s, loaded).sessionId = st.sessionId
  BY DEF HistoryLoaded
<1>2. ASSUME NEW s, NEW t, NEW as
      PROVE  /\ "sessionId" \in DOMAIN TaskCreated(st, s, t, as)
             /\ TaskCreated(st, s, t, as).sessionId = st.sessionId
  BY DEF TaskCreated
<1>3. ASSUME NEW t, NEW from, NEW to
      PROVE  /\ "sessionId" \in DOMAIN TaskEvents(st, t, from, to)
             /\ TaskEvents(st, t, from, to).sessionId = st.sessionId
  BY DEF TaskEvents
<1> QED BY <1>1, <1>2, <1>3

LEMMA SessionInvInit == Init => SessionInv
  BY DEF Init, SessionInv, Shape, OneSession, RequestOfSession, InitialState, NoMutation

\* A page that is opened shows its session and has no request.
LEMMA OpenedKeeps ==
    ASSUME NEW s, NEW data, Opened(s, data), create'.pc \notin {"session"} \/ s = None,
           "pc" \in DOMAIN create', create'.pc \in {"task", "answered"} => s = None
    PROVE  SessionInv'
  BY DEF Opened, Shown, InitialState, SessionInv, Shape, OneSession, RequestOfSession

LEMMA SessionInvStep == SessionInv /\ [Next]_vars => SessionInv'
<1> SUFFICES ASSUME SessionInv, [Next]_vars PROVE SessionInv'
  OBVIOUS
<1> USE DEF SessionInv
<1>k. ASSUME sessionId' = sessionId, pending' = pending, create' = create,
             "sessionId" \in DOMAIN state', state'.sessionId = state.sessionId
      PROVE  SessionInv'
  BY <1>k DEF Shape, OneSession, RequestOfSession
<1>u. ASSUME sessionId' = sessionId, pending' = pending, create' = create, state' = state
      PROVE  SessionInv'
  BY <1>u DEF Shape, OneSession, RequestOfSession
<1>i. ASSUME create' = NoMutation, sessionId' = sessionId, pending' = pending, state' = state
      PROVE  SessionInv'
  BY <1>i DEF Shape, OneSession, RequestOfSession, NoMutation
<1>1. CASE Work
  BY <1>1, <1>u DEF Work, page, refs
<1>2. CASE HistoryRead \/ HistoryArrives \/ HistoryFails \/ Focus
  BY <1>2, <1>u DEF HistoryRead, HistoryArrives, HistoryFails, Focus, refs
<1>3. CASE HistoryEffect
  <2>1. PICK loaded : state' = HistoryLoaded(state, sessionId, loaded)
    BY <1>3 DEF HistoryEffect
  <2>2. sessionId' = sessionId /\ pending' = pending /\ create' = create
    BY <1>3 DEF HistoryEffect, refs
  <2> QED BY <2>1, <2>2, <1>k, ReducerKeepsSession DEF Shape
<1>4. CASE ReplayEffect \/ FollowEffect
  BY <1>4, <1>u DEF ReplayEffect, FollowEffect, refs
<1>5. ASSUME NEW t \in Tasks, ReplayRead(t) \/ ReplayFails(t) PROVE SessionInv'
  BY <1>5, <1>u DEF ReplayRead, ReplayFails, refs
<1>6. ASSUME NEW t \in Tasks, ReplayPage(t) PROVE SessionInv'
  <2> DEFINE applied == TaskEvents(state, t, replays[t].next, replays[t].upto)
  <2>1. state' \in {applied, [applied EXCEPT !.replayed = @ \cup {t}]}
    BY <1>6 DEF ReplayPage, ReplayPageTo
  <2>2. sessionId' = sessionId /\ pending' = pending /\ create' = create
    BY <1>6 DEF ReplayPage, ReplayPageTo
  <2>3. "sessionId" \in DOMAIN applied /\ applied.sessionId = state.sessionId
    BY ReducerKeepsSession DEF Shape
  <2>4. "sessionId" \in DOMAIN state' /\ state'.sessionId = state.sessionId
    <3> HIDE DEF applied
    <3> QED BY <2>1, <2>3
  <2> QED BY <2>2, <2>4, <1>k
<1>7. CASE Deliver
  <2>1. PICK t, n : state' = TaskEvents(state, t, n, n)
    BY <1>7 DEF Deliver
  <2>2. sessionId' = sessionId /\ pending' = pending /\ create' = create
    BY <1>7 DEF Deliver
  <2> QED BY <2>1, <2>2, <1>k, ReducerKeepsSession DEF Shape
<1>8. CASE Submit
  <2>1. sessionId' = sessionId /\ state' = state /\ create' \in {[create EXCEPT !.pc = "session"],
                                                                 [create EXCEPT !.pc = "task"]}
    BY <1>8 DEF Submit
  <2>2. CASE pending = None /\ sessionId = None
    <3>1. create' = [create EXCEPT !.pc = "session"] /\ pending' = pending
      BY <1>8, <2>2 DEF Submit
    <3> QED BY <2>1, <2>2, <3>1 DEF Shape, OneSession, RequestOfSession
  <2>3. CASE ~(pending = None /\ sessionId = None)
    <3>1. create' = [create EXCEPT !.pc = "task"]
          /\ pending' = IF pending = None THEN sessionId ELSE pending
      BY <1>8, <2>3 DEF Submit
    <3> QED BY <2>1, <2>3, <3>1 DEF Shape, OneSession, RequestOfSession
  <2> QED BY <2>2, <2>3
<1>9. CASE SessionCreated
  <2>1. PICK s \in Sessions : pending' = s /\ sessionId' = s /\ state' = InitialState(s)
    BY <1>9 DEF SessionCreated
  <2>2. create' = [create EXCEPT !.pc = "task"]
    BY <1>9 DEF SessionCreated
  <2> QED BY <2>1, <2>2 DEF Shape, OneSession, RequestOfSession, InitialState
<1>10. CASE SessionFails \/ TaskRefused \/ TaskFails
  BY <1>10, <1>i DEF SessionFails, TaskRefused, TaskFails, refs
<1>11. CASE TaskAnswered
  <2>1. sessionId' = sessionId /\ pending' = pending /\ state' = state /\ create.pc = "task"
    BY <1>11 DEF TaskAnswered
  <2>2. PICK t, as : create' = [pc |-> "answered", task |-> t, as |-> as]
    BY <1>11 DEF TaskAnswered
  <2> QED BY <2>1, <2>2 DEF Shape, OneSession, RequestOfSession
<1>12. CASE TaskCreation
  <2>1. create.pc = "answered" /\ create' = NoMutation /\ pending' = None /\ sessionId' = pending
        /\ state' = TaskCreated(state, pending, create.task, create.as)
    BY <1>12 DEF TaskCreation
  <2>2. "sessionId" \in DOMAIN state' /\ state'.sessionId = state.sessionId
    BY <2>1, ReducerKeepsSession DEF Shape
  <2> QED BY <2>1, <2>2 DEF Shape, OneSession, RequestOfSession, NoMutation
<1>13. ASSUME NEW s \in Sessions \cup {None}, Select(s) PROVE SessionInv'
  <2>1. create.pc = "idle" /\ create' = create
    BY <1>13 DEF Select
  <2> QED BY <1>13, <2>1, OpenedKeeps DEF Select, Shape
<1>14. CASE Recover
  BY <1>14, OpenedKeeps DEF Recover, Shape
<1>15. CASE Reload
  BY <1>15, OpenedKeeps DEF Reload, NoMutation
<1>16. CASE UNCHANGED vars
  BY <1>16, <1>u DEF vars
<1> QED
  BY <1>1, <1>2, <1>3, <1>4, <1>5, <1>6, <1>7, <1>8, <1>9, <1>10, <1>11, <1>12, <1>13, <1>14,
     <1>15, <1>16 DEF Next

\* The component and the reducer show the same session, however late the
\* answers of requests are and whatever is selected in between.
THEOREM SessionIsOne == Spec => []OneSession
<1>1. SessionInv => OneSession
  BY DEF SessionInv
<1> QED BY <1>1, SessionInvInit, SessionInvStep, PTL DEF Spec

-----------------------------------------------------------------------------
(* A request makes one task *)

\* What was created for a request that is pending is what AI Core recorded
\* under its key, which is kept as long as the request is pending.
RequestInv ==
    /\ pending # None => key = TRUE /\ made \subseteq {recorded} \ {0}
    /\ made = {} \/ \E t \in Tasks : made = {t}

LEMMA RequestInvInit == Init => RequestInv
  BY DEF Init, RequestInv

LEMMA RequestInvStep == RequestInv /\ [Next]_vars => RequestInv'
<1> SUFFICES ASSUME RequestInv, [Next]_vars PROVE RequestInv'
  OBVIOUS
<1>u. ASSUME pending' = pending, key' = key, recorded' = recorded, made' = made
      PROVE  RequestInv'
  BY <1>u DEF RequestInv
<1>o. ASSUME NEW s, NEW data, Opened(s, data) PROVE RequestInv'
  BY <1>o DEF Opened, RequestInv
<1>1. CASE Work \/ HistoryRead \/ HistoryArrives \/ HistoryFails \/ HistoryEffect \/ Focus
  BY <1>1, <1>u DEF Work, HistoryRead, HistoryArrives, HistoryFails, HistoryEffect, Focus, page, refs
<1>2. CASE ReplayEffect \/ FollowEffect \/ Deliver
  BY <1>2, <1>u DEF ReplayEffect, FollowEffect, Deliver, refs
<1>3. ASSUME NEW t \in Tasks, ReplayRead(t) \/ ReplayPage(t) \/ ReplayFails(t) PROVE RequestInv'
  BY <1>3, <1>u DEF ReplayRead, ReplayPage, ReplayPageTo, ReplayFails, refs
<1>4. CASE Submit
  <2>1. CASE pending = None /\ sessionId = None
    BY <1>4, <2>1, <1>u DEF Submit
  <2>2. CASE pending = None /\ sessionId # None
    <3>1. made' = {}
      BY <1>4, <2>2 DEF Submit
    <3>2. key' = TRUE
      BY <1>4, <2>2 DEF Submit
    <3> QED BY <3>1, <3>2 DEF RequestInv
  <2>3. CASE pending # None
    <3>1. key = TRUE
      BY <2>3 DEF RequestInv
    <3>2. key' = TRUE /\ pending' = pending /\ made' = made
      BY <1>4, <2>3 DEF Submit
    <3>3. recorded' = recorded
      BY <1>4, <2>3, <3>1 DEF Submit
    <3> QED BY <3>1, <3>2, <3>3, <1>u
  <2> QED BY <2>1, <2>2, <2>3
<1>5. CASE SessionCreated
  BY <1>5 DEF SessionCreated, RequestInv
<1>6. CASE SessionFails \/ TaskRefused \/ TaskFails
  BY <1>6, <1>u DEF SessionFails, TaskRefused, TaskFails, refs
<1>7. CASE TaskAnswered
  <2>1. pending' = pending /\ key' = key
    BY <1>7 DEF TaskAnswered
  <2>2. CASE recorded # 0
    BY <1>7, <2>1, <2>2, <1>u DEF TaskAnswered
  <2>3. CASE recorded = 0
    <3>1. PICK t \in Tasks : SessionOf[t] = pending /\ recorded' = t /\ made' = made \cup {t}
      BY <1>7, <2>3 DEF TaskAnswered
    <3>2. pending # None /\ t # 0
      BY <3>1, WorkbenchAssumption DEF None
    <3>3. made = {} /\ key = TRUE
      BY <2>3, <3>2 DEF RequestInv
    <3> QED BY <2>1, <3>1, <3>2, <3>3 DEF RequestInv
  <2> QED BY <2>2, <2>3
<1>8. CASE TaskCreation
  BY <1>8 DEF TaskCreation, RequestInv
<1>9. ASSUME NEW s \in Sessions \cup {None}, Select(s) PROVE RequestInv'
  BY <1>9, <1>o DEF Select
<1>10. CASE Recover \/ Reload
  BY <1>10, <1>o DEF Recover, Reload
<1>11. CASE UNCHANGED vars
  BY <1>11, <1>u DEF vars
<1> QED BY <1>1, <1>2, <1>3, <1>4, <1>5, <1>6, <1>7, <1>8, <1>9, <1>10, <1>11 DEF Next

\* However often a request is submitted, and whichever of its answers are
\* lost, AI Core creates one task for it: the key outlives a failure and is
\* forgotten only with the request.
THEOREM RequestMakesOneTask == Spec => []OneTaskPerRequest
<1>1. RequestInv => OneTaskPerRequest
  <2> SUFFICES ASSUME RequestInv PROVE Cardinality(made) <= 1
    BY DEF OneTaskPerRequest
  <2>1. CASE made = {}
    BY <2>1, FS_EmptySet
  <2>2. CASE \E t \in Tasks : made = {t}
    BY <2>2, FS_Singleton
  <2> QED BY <2>1, <2>2 DEF RequestInv
<1> QED BY <1>1, RequestInvInit, RequestInvStep, PTL DEF Spec
-----------------------------------------------------------------------------
(* What AI Core shows only grows *)

Kinds == {"task.created", "task.status_changed", "task.completed", "task.failed"}
Said == Statuses \cup {"none"}
Row == [kind: Kinds, status: Said, call: {0}]

RowsOK ==
    /\ status \in [Tasks -> Said \cup {"absent"}]
    /\ log \in [Tasks -> Seq(Row)]

Grows == \A t \in Tasks : /\ Len(log[t]) <= Len(log'[t])
                          /\ status[t] # "absent" => status'[t] # "absent"

LEMMA RowsInit == Init => RowsOK
<1>1. <<>> \in Seq(Row)
  OBVIOUS
<1> QED BY <1>1 DEF Init, RowsOK, Contract!Init

\* Events appended to one log, with a status that is not "absent".
LEMMA Appended ==
    ASSUME RowsOK, NEW t \in Tasks, NEW to \in Said \cup {"absent"}, to # "absent" \/ to = status[t],
           NEW es \in Seq(Row),
           status' = [status EXCEPT ![t] = to], log' = [log EXCEPT ![t] = log[t] \o es]
    PROVE  RowsOK' /\ Grows
<1>1. \A u \in Tasks : log[u] \in Seq(Row) /\ Len(log[u]) \in Nat
  BY DEF RowsOK
<1>2. log[t] \o es \in Seq(Row) /\ Len(log[t] \o es) = Len(log[t]) + Len(es) /\ Len(es) \in Nat
  BY <1>1
<1>3. log' \in [Tasks -> Seq(Row)] /\ status' \in [Tasks -> Said \cup {"absent"}]
  BY <1>2 DEF RowsOK
<1>4. ASSUME NEW u \in Tasks PROVE Len(log[u]) <= Len(log'[u])
  <2>1. CASE u = t
    BY <1>1, <1>2, <2>1 DEF RowsOK
  <2>2. CASE u # t
    <3>1. log'[u] = log[u]
      BY <2>2 DEF RowsOK
    <3> QED BY <1>1, <3>1
  <2> QED BY <2>1, <2>2
<1>5. ASSUME NEW u \in Tasks, status[u] # "absent" PROVE status'[u] # "absent"
  BY <1>5 DEF RowsOK
<1> QED BY <1>3, <1>4, <1>5 DEF RowsOK, Grows

LEMMA Committed ==
    ASSUME RowsOK, NEW t \in Tasks, NEW to \in Said, NEW es \in Seq(Row),
           Contract!Commit(t, to, es)
    PROVE  RowsOK' /\ Grows
<1>1. to # "absent"
  BY DEF Said, Statuses
<1> QED BY <1>1, Appended DEF Contract!Commit

\* One event, or two.
LEMMA EventsAreRows ==
    /\ \A k \in Kinds, s \in Said : <<Contract!Event(k, s, 0)>> \in Seq(Row)
    /\ <<Contract!Event("task.status_changed", "failed", 0),
         Contract!Event("task.failed", "none", 0)>> \in Seq(Row)
<1>1. \A k \in Kinds, s \in Said : Contract!Event(k, s, 0) \in Row
  BY DEF Contract!Event, Row
<1>2. \A e, f \in Row : <<e>> \in Seq(Row) /\ <<e, f>> \in Seq(Row)
  OBVIOUS
<1>3. {"task.status_changed", "task.failed"} \subseteq Kinds /\ {"failed", "none"} \subseteq Said
  BY DEF Kinds, Said, Statuses
<1> QED BY <1>1, <1>2, <1>3

LEMMA AcceptGrows ==
    ASSUME RowsOK, NEW t \in Tasks, Contract!Accept(t) PROVE RowsOK' /\ Grows
<1>1. Contract!Commit(t, "created", <<Contract!Event("task.created", "created", 0)>>)
  BY DEF Contract!Accept
<1>2. "created" \in Said /\ "task.created" \in Kinds
  BY DEF Said, Statuses, Kinds
<1> QED BY <1>1, <1>2, Committed, EventsAreRows

LEMMA AdvanceGrows ==
    ASSUME RowsOK, NEW t \in Tasks, Contract!Advance(t) PROVE RowsOK' /\ Grows
<1> DEFINE to == Contract!NextStatus[status[t]]
<1>1. to \in Said
  <2>1. status[t] \in {"created", "planning", "running_tools", "validating"}
    BY DEF Contract!Advance, Contract!Active, Contract!NextStatus
  <2>2. to \in {"planning", "running_tools", "validating", "completed"}
    BY <2>1 DEF Contract!NextStatus
  <2> QED BY <2>2 DEF Said, Statuses
<1>2. Contract!Commit(t, to, <<Contract!Event("task.status_changed", to, 0)>>)
  BY DEF Contract!Advance
<1> HIDE DEF to
<1>3. <<Contract!Event("task.status_changed", to, 0)>> \in Seq(Row)
  BY <1>1, EventsAreRows DEF Kinds
<1> QED BY <1>1, <1>2, <1>3, Committed

LEMMA FailGrows ==
    ASSUME RowsOK, NEW t \in Tasks, Contract!Fail(t) PROVE RowsOK' /\ Grows
<1>1. Contract!Commit(t, "failed", <<Contract!Event("task.status_changed", "failed", 0),
                                     Contract!Event("task.failed", "none", 0)>>)
  BY DEF Contract!Fail
<1>2. "failed" \in Said
  BY DEF Said, Statuses
<1> QED BY <1>1, <1>2, Committed, EventsAreRows

LEMMA AnnounceGrows ==
    ASSUME RowsOK, NEW t \in Tasks, Contract!Announce(t) PROVE RowsOK' /\ Grows
<1> DEFINE e == Contract!Event("task.completed", "none", 0)
<1>1. <<e>> \in Seq(Row) /\ log[t] \in Seq(Row)
  BY EventsAreRows DEF RowsOK, Kinds, Said
<1>2. log' = [log EXCEPT ![t] = Append(log[t], e)] /\ status' = status
  BY DEF Contract!Announce
<1> HIDE DEF e
<1>3. Append(log[t], e) = log[t] \o <<e>>
  BY <1>1
<1>4. status' = [status EXCEPT ![t] = status[t]] /\ status[t] \in Said \cup {"absent"}
  BY <1>2 DEF RowsOK
<1>5. log' = [log EXCEPT ![t] = log[t] \o <<e>>]
  BY <1>2, <1>3
<1> QED BY <1>1, <1>4, <1>5, Appended

LEMMA RowsStep == RowsOK /\ [Next]_vars => RowsOK' /\ Grows
<1> SUFFICES ASSUME RowsOK, [Next]_vars PROVE RowsOK' /\ Grows
  OBVIOUS
<1>u. ASSUME status' = status, log' = log PROVE RowsOK' /\ Grows
  BY <1>u DEF RowsOK, Grows
<1>1. CASE Work
  <2>1. PICK t \in Tasks : \/ Contract!Advance(t) \/ Contract!Fail(t) \/ Contract!Announce(t)
                           \/ Contract!Accept(t)
    BY <1>1 DEF Work, Accept
  <2> QED BY <2>1, AcceptGrows, AdvanceGrows, FailGrows, AnnounceGrows
<1>2. CASE TaskAnswered
  <2>1. CASE recorded # 0
    BY <1>2, <2>1, <1>u DEF TaskAnswered, rows
  <2>2. CASE recorded = 0
    <3>1. PICK t \in Tasks : Contract!Accept(t)
      BY <1>2, <2>2 DEF TaskAnswered, Accept
    <3> QED BY <3>1, AcceptGrows
  <2> QED BY <2>1, <2>2
<1>3. CASE HistoryRead \/ HistoryArrives \/ HistoryFails \/ HistoryEffect \/ Focus
  BY <1>3, <1>u DEF HistoryRead, HistoryArrives, HistoryFails, HistoryEffect, Focus, rows
<1>4. CASE ReplayEffect \/ FollowEffect \/ Deliver
  BY <1>4, <1>u DEF ReplayEffect, FollowEffect, Deliver, rows
<1>5. ASSUME NEW t \in Tasks, ReplayRead(t) \/ ReplayPage(t) \/ ReplayFails(t)
      PROVE  RowsOK' /\ Grows
  BY <1>5, <1>u DEF ReplayRead, ReplayPage, ReplayPageTo, ReplayFails, rows
<1>6. CASE Submit \/ SessionCreated \/ SessionFails \/ TaskRefused \/ TaskFails \/ TaskCreation
  BY <1>6, <1>u DEF Submit, SessionCreated, SessionFails, TaskRefused, TaskFails, TaskCreation, rows
<1>7. ASSUME NEW s \in Sessions \cup {None}, Select(s) PROVE RowsOK' /\ Grows
  BY <1>7, <1>u DEF Select, rows
<1>8. CASE Recover \/ Reload
  BY <1>8, <1>u DEF Recover, Reload, rows
<1>9. CASE UNCHANGED vars
  BY <1>9, <1>u DEF vars
<1> QED BY <1>1, <1>2, <1>3, <1>4, <1>5, <1>6, <1>7, <1>8, <1>9 DEF Next

-----------------------------------------------------------------------------
(* What a history or an answer brings *)

Brought(s) == {loaded \in [Tasks -> Said \cup {"absent"}] :
                  \A t \in Tasks : loaded[t] # "absent" => SessionOf[t] = s}

\* A history has tasks of its session only.
LoadedOK ==
    /\ {sessionId, route} \subseteq Sessions \cup {None}
    /\ fresh = TRUE \/ history.pc # "idle" => sessionId \in Sessions
    /\ history.loaded \in Brought(sessionId)
    /\ cached \in [Sessions -> SUBSET [Tasks -> Said \cup {"absent"}]]
    /\ \A s \in Sessions : cached[s] \subseteq Brought(s)

LEMMA SnapshotBrought == ASSUME RowsOK, NEW s PROVE Snapshot(s) \in Brought(s)
  BY DEF Snapshot, Brought, RowsOK

LEMMA FetchBrought ==
    ASSUME NEW s, NEW u \in Sessions \cup {None}
    PROVE  FetchOf(u).loaded \in Brought(s) /\ (FetchOf(u).pc # "idle" => u \in Sessions)
  BY DEF FetchOf, NoFetch, Brought

LEMMA LoadedInit == Init => LoadedOK
<1> SUFFICES ASSUME Init PROVE LoadedOK
  OBVIOUS
<1>1. sessionId = route /\ route \in Sessions \cup {None}
  BY WorkbenchAssumption DEF Init
<1>2. history = FetchOf(route) /\ fresh = FALSE
  BY DEF Init
<1>3. cached = [s \in Sessions |-> {}]
  BY DEF Init
<1> QED BY <1>1, <1>2, <1>3, FetchBrought DEF LoadedOK

LEMMA LoadedStep == LoadedOK /\ RowsOK /\ SessionInv /\ [Next]_vars => LoadedOK'
<1> SUFFICES ASSUME LoadedOK, RowsOK, SessionInv, [Next]_vars PROVE LoadedOK'
  OBVIOUS
<1>t. /\ sessionId \in Sessions \cup {None} /\ route \in Sessions \cup {None}
      /\ pending \in {None, sessionId}
  BY DEF LoadedOK, SessionInv, RequestOfSession
<1>u. ASSUME sessionId' = sessionId, route' = route, history' = history, cached' = cached,
             fresh' \in {FALSE, fresh}
      PROVE  LoadedOK'
  BY <1>u DEF LoadedOK, Brought
<1>f. ASSUME sessionId' = sessionId, route' = route, cached' = cached, fresh' \in {FALSE, fresh},
             history'.loaded \in Brought(sessionId), history'.pc # "idle" => sessionId \in Sessions
      PROVE  LoadedOK'
  BY <1>f DEF LoadedOK, Brought
<1>o. ASSUME NEW s \in Sessions \cup {None}, NEW data, Opened(s, data), s = None => data = {},
             cached' \in {cached, [u \in Sessions |-> {}]}
      PROVE  LoadedOK'
  <2>1. sessionId' = s /\ route' = s /\ history' = FetchOf(s) /\ fresh' = (data # {})
    BY <1>o DEF Opened, Shown
  <2>2. FetchOf(s).loaded \in Brought(s) /\ (FetchOf(s).pc # "idle" => s \in Sessions)
    BY FetchBrought
  <2>3. fresh' = TRUE => s \in Sessions
    BY <1>o, <2>1
  <2> QED BY <1>o, <2>1, <2>2, <2>3 DEF LoadedOK, Brought
<1>1. CASE Work
  BY <1>1, <1>u DEF Work, page, query
<1>2. CASE HistoryRead
  <2>1. sessionId' = sessionId /\ route' = route /\ cached' = cached /\ fresh' = fresh
        /\ history' = [pc |-> "read", loaded |-> Snapshot(sessionId)] /\ history.pc = "asked"
    BY <1>2 DEF HistoryRead
  <2>2. sessionId \in Sessions
    BY <2>1 DEF LoadedOK
  <2> QED BY <2>1, <2>2, <1>f, SnapshotBrought
<1>3. CASE HistoryArrives
  <2>1. sessionId' = sessionId /\ route' = route /\ history' = NoFetch /\ history.pc = "read"
        /\ cached' = [cached EXCEPT ![sessionId] = {history.loaded}]
    BY <1>3 DEF HistoryArrives
  <2>2. sessionId \in Sessions
    BY <2>1 DEF LoadedOK
  <2>3. NoFetch.pc = "idle" /\ NoFetch.loaded \in Brought(sessionId)
    BY DEF NoFetch, Brought
  <2>4. history.loaded \in Brought(sessionId)
    BY DEF LoadedOK
  <2> QED BY <2>1, <2>2, <2>3, <2>4, <1>t DEF LoadedOK, Brought
<1>4. CASE HistoryFails
  <2>1. sessionId' = sessionId /\ route' = route /\ cached' = cached /\ fresh' = fresh
        /\ history' = NoFetch
    BY <1>4 DEF HistoryFails
  <2>2. NoFetch.pc = "idle" /\ NoFetch.loaded \in Brought(sessionId)
    BY DEF NoFetch, Brought
  <2> QED BY <2>1, <2>2, <1>f
<1>5. CASE HistoryEffect
  BY <1>5, <1>u DEF HistoryEffect
<1>6. CASE Focus
  <2>1. sessionId' = sessionId /\ route' = route /\ cached' = cached /\ fresh' = fresh
        /\ history' = FetchOf(sessionId)
    BY <1>6 DEF Focus
  <2> QED BY <2>1, <1>f, <1>t, FetchBrought
<1>7. CASE ReplayEffect \/ FollowEffect
  BY <1>7, <1>u DEF ReplayEffect, FollowEffect, query
<1>8. ASSUME NEW t \in Tasks, ReplayRead(t) \/ ReplayPage(t) \/ ReplayFails(t) PROVE LoadedOK'
  BY <1>8, <1>u DEF ReplayRead, ReplayPage, ReplayPageTo, ReplayFails, query
<1>i. \A s : Invalidated(s) = history \/ (s = sessionId /\ Invalidated(s) = FetchOf(sessionId))
  BY DEF Invalidated
<1>9. CASE Deliver
  <2>1. sessionId' = sessionId /\ route' = route /\ cached' = cached /\ fresh' = fresh
        /\ history' = Invalidated(followed.session)
    BY <1>9 DEF Deliver
  <2>2. CASE history' = history
    BY <2>1, <2>2, <1>u
  <2>3. CASE history' = FetchOf(sessionId)
    BY <2>1, <2>3, <1>f, <1>t, FetchBrought
  <2> QED BY <2>1, <2>2, <2>3, <1>i
<1>10. CASE Submit \/ SessionFails \/ TaskAnswered \/ TaskRefused \/ TaskFails
  BY <1>10, <1>u DEF Submit, SessionFails, TaskAnswered, TaskRefused, TaskFails, query
<1>11. CASE SessionCreated
  <2>1. PICK s \in Sessions : sessionId' = s /\ history' = FetchOf(s)
    BY <1>11 DEF SessionCreated
  <2>2. route' = route /\ cached' = cached
    BY <1>11 DEF SessionCreated
  <2>3. FetchOf(s).loaded \in Brought(s)
    BY FetchBrought
  <2> QED BY <2>1, <2>2, <2>3, <1>t DEF LoadedOK, Brought
<1>12. CASE TaskCreation
  <2>1. pending = sessionId
    BY <1>12 DEF TaskCreation, SessionInv, RequestOfSession
  <2>2. sessionId' = sessionId /\ route' = sessionId /\ cached' = cached /\ fresh' = fresh
        /\ history' = Invalidated(sessionId)
    BY <1>12, <2>1 DEF TaskCreation
  <2>3. history'.loaded \in Brought(sessionId) /\ (history'.pc # "idle" => sessionId \in Sessions)
    BY <2>2, <1>i, <1>t, FetchBrought DEF LoadedOK
  <2> QED BY <2>2, <2>3, <1>t DEF LoadedOK, Brought
<1>13. ASSUME NEW s \in Sessions \cup {None}, Select(s) PROVE LoadedOK'
  BY <1>13, <1>o DEF Select
<1>14. CASE Recover
  <2>1. Opened(None, {}) /\ cached' = cached
    BY <1>14 DEF Recover
  <2> QED BY <2>1, <1>o
<1>15. CASE Reload
  <2>1. Opened(route, {}) /\ cached' = [s \in Sessions |-> {}]
    BY <1>15 DEF Reload
  <2> QED BY <2>1, <1>o, <1>t
<1>16. CASE UNCHANGED vars
  BY <1>16, <1>u DEF vars
<1> QED
  BY <1>1, <1>2, <1>3, <1>4, <1>5, <1>6, <1>7, <1>8, <1>9, <1>10, <1>11, <1>12, <1>13, <1>14,
     <1>15, <1>16 DEF Next

\* An answer is about a task that was recorded.
AnswerOK ==
    /\ recorded \in Tasks \cup {0}
    /\ recorded # 0 => status[recorded] # "absent"
    /\ create.pc = "answered" => create.task \in Tasks /\ create.as \in Said

LEMMA AnswerInit == Init => AnswerOK
  BY DEF Init, AnswerOK, NoMutation

LEMMA AnswerStep ==
    AnswerOK /\ RowsOK /\ SessionInv /\ Grows /\ RowsOK' /\ [Next]_vars => AnswerOK'
<1> SUFFICES ASSUME AnswerOK, RowsOK, SessionInv, Grows, RowsOK', [Next]_vars PROVE AnswerOK'
  OBVIOUS
<1>n. NoMutation.pc = "idle"
  BY DEF NoMutation
<1>k. ASSUME recorded' \in {0, recorded}, create' = create \/ create'.pc # "answered"
      PROVE  AnswerOK'
  BY <1>k DEF AnswerOK, Grows
<1>p. ASSUME NEW pc, pc # "answered", create' = [create EXCEPT !.pc = pc]
      PROVE  create'.pc # "answered"
  BY <1>p DEF SessionInv, Shape
<1>1. CASE Work
  BY <1>1, <1>k DEF Work, page, refs
<1>2. CASE HistoryRead \/ HistoryArrives \/ HistoryFails \/ HistoryEffect \/ Focus
  BY <1>2, <1>k DEF HistoryRead, HistoryArrives, HistoryFails, HistoryEffect, Focus, refs
<1>3. CASE ReplayEffect \/ FollowEffect \/ Deliver
  BY <1>3, <1>k DEF ReplayEffect, FollowEffect, Deliver, refs
<1>4. ASSUME NEW t \in Tasks, ReplayRead(t) \/ ReplayPage(t) \/ ReplayFails(t) PROVE AnswerOK'
  BY <1>4, <1>k DEF ReplayRead, ReplayPage, ReplayPageTo, ReplayFails, refs
<1>5. CASE Submit
  <2>1. recorded' \in {0, recorded}
    BY <1>5 DEF Submit
  <2>2. PICK pc \in {"session", "task"} : create' = [create EXCEPT !.pc = pc]
    BY <1>5 DEF Submit
  <2> QED BY <2>1, <2>2, <1>p, <1>k
<1>6. CASE SessionCreated
  <2>1. recorded' \in {0, recorded} /\ create' = [create EXCEPT !.pc = "task"]
    BY <1>6 DEF SessionCreated
  <2> QED BY <2>1, <1>p, <1>k
<1>7. CASE SessionFails \/ TaskRefused \/ TaskFails
  BY <1>7, <1>k, <1>n DEF SessionFails, TaskRefused, TaskFails, refs
<1>8. CASE TaskAnswered
  <2>1. CASE recorded # 0
    <3>1. recorded' = recorded
          /\ create' = [pc |-> "answered", task |-> recorded, as |-> status[recorded]]
      BY <1>8, <2>1 DEF TaskAnswered
    <3>2. recorded \in Tasks /\ status[recorded] \in Said
      BY <2>1 DEF AnswerOK, RowsOK
    <3> QED BY <3>1, <3>2, <2>1 DEF AnswerOK, Grows
  <2>2. CASE recorded = 0
    <3>1. PICK t \in Tasks : /\ Accept(t) /\ recorded' = t
                             /\ create' = [pc |-> "answered", task |-> t, as |-> "created"]
      BY <1>8, <2>2 DEF TaskAnswered
    <3>2. status' = [status EXCEPT ![t] = "created"]
      BY <3>1 DEF Accept, Contract!Accept, Contract!Commit
    <3>3. status'[t] = "created"
      BY <3>2 DEF RowsOK
    <3>4. "created" \in Said
      BY DEF Said, Statuses
    <3> QED BY <3>1, <3>3, <3>4 DEF AnswerOK
  <2> QED BY <2>1, <2>2
<1>9. CASE TaskCreation
  BY <1>9, <1>k, <1>n DEF TaskCreation
<1>10. ASSUME NEW s \in Sessions \cup {None}, Select(s) PROVE AnswerOK'
  BY <1>10, <1>k DEF Select, Opened
<1>11. CASE Recover \/ Reload
  BY <1>11, <1>k, <1>n DEF Recover, Reload, Opened
<1>12. CASE UNCHANGED vars
  BY <1>12, <1>k DEF vars
<1> QED BY <1>1, <1>2, <1>3, <1>4, <1>5, <1>6, <1>7, <1>8, <1>9, <1>10, <1>11, <1>12 DEF Next
-----------------------------------------------------------------------------
(* The replay and the subscription *)

Names == Said \cup {"absent"}

\* The fields of the reducer's state that its cases keep.
Fields(st) ==
    /\ {"sessionId", "tasks", "active", "latest", "replayed"} \subseteq DOMAIN st
    /\ st.tasks \in [Tasks -> Names]
    /\ st.latest \in [Tasks -> Nat]

PageOK ==
    /\ Fields(state)
    /\ sequence \in [Tasks -> Nat]
    /\ replays \in [Tasks -> [pc: {"idle", "asked", "read", "failed"}, next: Nat, upto: Nat,
                              target: Nat]]
    /\ stream \in [task: Tasks \cup {0}, last: Nat]
    /\ state.replayed \subseteq Known(state)

Replaying(t) == replays[t].pc \in {"asked", "read"}

\* A replay asks for what the reducer has next, or had before it began again,
\* and its target is never behind the reducer.
ReplayOK(t) ==
    /\ t \in Known(state) \ state.replayed
    /\ replays[t].next <= state.latest[t] + 1
    /\ replays[t].target <= Len(log[t])
    /\ replays[t].target # 0 \/ replays[t].pc = "read" => state.latest[t] <= replays[t].target
    /\ replays[t].pc = "read" => replays[t].upto = Least(replays[t].next + Page - 1, replays[t].target)

TaskOK(t) ==
    /\ state.latest[t] <= Len(log[t])
    /\ t \in Known(state) => SessionOf[t] = state.sessionId
    /\ t \in state.replayed => sequence[t] = state.latest[t]
    /\ stream.task = t => t \in state.replayed /\ stream.last = state.latest[t]
    /\ Replaying(t) => ReplayOK(t)

PageInv == PageOK /\ \A t \in Tasks : TaskOK(t)

\* The status the events of a task say is never "absent".
LEMMA ShownIsSaid ==
    ASSUME RowsOK, NEW st, NEW t \in Tasks, NEW n \in 0..Len(log[t]), st.tasks[t] \in Said
    PROVE  ShownAfter(st, t, n) \in Said
<1>1. \A e \in Row : Says(e) \subseteq Said
  BY DEF Row, Kinds, Says, Said, Statuses
<1>2. \A i \in 1..n : log[t][i] \in Row
  <2>1. log[t] \in Seq(Row)
    BY DEF RowsOK
  <2> QED BY <2>1
<1>3. Told(t, n) \subseteq Said
  BY <1>1, <1>2 DEF Told
<1> QED BY <1>3 DEF ShownAfter

\* What the reducer has next of the log of a task it knows.
Fits(st, t, from, to) ==
    /\ SessionOf[t] = st.sessionId /\ st.tasks[t] # "absent"
    /\ st.latest[t] < to /\ from <= st.latest[t] + 1

\* What every case of the reducer does: it hides no task, and adds tasks of
\* the session only.
Reduced(st, r) ==
    /\ Fields(r) /\ r.sessionId = st.sessionId /\ r.replayed = st.replayed
    /\ \A t \in Tasks : t \in Known(st) => t \in Known(r)
    /\ \A t \in Tasks : t \in Known(r) => t \in Known(st) \/ SessionOf[t] = st.sessionId

LEMMA NothingReduced == \A st : Fields(st) => Reduced(st, st)
  BY DEF Reduced

\* Events that fit are reduced; no other field that matters here changes.
LEMMA EventsReduced ==
    ASSUME RowsOK, NEW st, Fields(st), NEW t \in Tasks, NEW from \in Nat,
           NEW to \in 0..Len(log[t])
    PROVE  /\ Reduced(st, TaskEvents(st, t, from, to))
           /\ TaskEvents(st, t, from, to).latest =
                  IF Fits(st, t, from, to) THEN [st.latest EXCEPT ![t] = to] ELSE st.latest
<1> DEFINE r == TaskEvents(st, t, from, to)
<1>1. CASE ~Fits(st, t, from, to)
  <2>1. r = st
    BY <1>1 DEF TaskEvents, Fits, Fields
  <2> HIDE DEF r
  <2>2. Reduced(st, r) /\ r.latest = st.latest
    BY <2>1, NothingReduced
  <2> QED BY <1>1, <2>2 DEF r
<1>2. CASE Fits(st, t, from, to)
  <2>1. st.tasks[t] \in Said
    BY <1>2 DEF Fits, Fields, Names
  <2>2. ShownAfter(st, t, to) \in Said
    BY <2>1, ShownIsSaid
  <2> DEFINE ends == \E i \in (st.latest[t] + 1)..to : ShownAfter(st, t, i) \in Ended
             active == IF st.active = t /\ ends THEN 0 ELSE st.active
  <2>3. r = [st EXCEPT !.tasks[t] = ShownAfter(st, t, to), !.latest[t] = to, !.active = active]
    <3>1. ~(\/ SessionOf[t] # st.sessionId \/ st.tasks[t] = "absent"
            \/ to <= st.latest[t] \/ from > st.latest[t] + 1)
      BY <1>2 DEF Fits, Fields
    <3> QED BY <3>1 DEF TaskEvents
  <2> HIDE DEF r, active
  <2>4. /\ {"sessionId", "tasks", "active", "latest", "replayed"} \subseteq DOMAIN r
        /\ r.sessionId = st.sessionId /\ r.replayed = st.replayed
        /\ r.tasks = [st.tasks EXCEPT ![t] = ShownAfter(st, t, to)]
        /\ r.latest = [st.latest EXCEPT ![t] = to]
    BY <2>3 DEF Fields
  <2>5. r.tasks \in [Tasks -> Names] /\ r.latest \in [Tasks -> Nat]
    BY <2>2, <2>4 DEF Fields, Names
  <2>6. Known(r) = Known(st)
    <3>1. "absent" \notin Said
      BY DEF Said, Statuses
    <3> QED BY <2>1, <2>2, <2>4, <3>1 DEF Fields, Known
  <2>7. Reduced(st, r)
    BY <2>4, <2>5, <2>6 DEF Fields, Reduced
  <2> QED BY <1>2, <2>4, <2>7 DEF r
<1> QED BY <1>1, <1>2

\* A history or an answer adds tasks of the session and hides none.
LEMMA HistoryReduced ==
    ASSUME NEW st, Fields(st), NEW s, NEW loaded \in Brought(s)
    PROVE  /\ Reduced(st, HistoryLoaded(st, s, loaded))
           /\ HistoryLoaded(st, s, loaded).latest = st.latest
<1> DEFINE r == HistoryLoaded(st, s, loaded)
<1>1. CASE s # st.sessionId
  <2>1. r = st
    BY <1>1 DEF HistoryLoaded
  <2> HIDE DEF r
  <2>2. Reduced(st, r) /\ r.latest = st.latest
    BY <2>1, NothingReduced
  <2> QED BY <2>2 DEF r
<1>2. CASE s = st.sessionId
  <2> DEFINE keeps(t) == t = st.active /\ st.tasks[t] \notin Ended
             tasks == [t \in Tasks |-> IF loaded[t] = "absent" \/ keeps(t)
                                       THEN st.tasks[t] ELSE loaded[t]]
  <2>1. r = [st EXCEPT !.tasks = tasks, !.active = FindActive(tasks)]
    BY <1>2 DEF HistoryLoaded
  <2>2. tasks \in [Tasks -> Names]
    BY DEF Fields, Brought, Names
  <2>3. \A t \in Tasks : st.tasks[t] # "absent" => tasks[t] # "absent"
    OBVIOUS
  <2>4. \A t \in Tasks : st.tasks[t] = "absent" /\ tasks[t] # "absent" => SessionOf[t] = s
    BY DEF Brought
  <2> HIDE DEF r, tasks
  <2>5. /\ {"sessionId", "tasks", "active", "latest", "replayed"} \subseteq DOMAIN r
        /\ r.sessionId = st.sessionId /\ r.replayed = st.replayed
        /\ r.tasks = tasks /\ r.latest = st.latest
    BY <2>1 DEF Fields
  <2>6. Reduced(st, r)
    BY <1>2, <2>2, <2>3, <2>4, <2>5 DEF Fields, Known, Reduced
  <2> QED BY <2>5, <2>6 DEF r
<1> QED BY <1>1, <1>2

LEMMA AnswerReduced ==
    ASSUME NEW st, Fields(st), NEW s, NEW t \in Tasks, NEW as \in Said
    PROVE  /\ Reduced(st, TaskCreated(st, s, t, as))
           /\ TaskCreated(st, s, t, as).latest = st.latest
<1> DEFINE r == TaskCreated(st, s, t, as)
<1>1. CASE s # st.sessionId \/ SessionOf[t] # st.sessionId
  <2>1. r = st
    BY <1>1 DEF TaskCreated
  <2> HIDE DEF r
  <2>2. Reduced(st, r) /\ r.latest = st.latest
    BY <2>1, NothingReduced
  <2> QED BY <2>2 DEF r
<1>2. CASE s = st.sessionId /\ SessionOf[t] = st.sessionId
  <2>1. r = [st EXCEPT !.tasks[t] = as, !.active = t]
    BY <1>2 DEF TaskCreated
  <2>2. as # "absent" /\ as \in Names
    BY DEF Said, Statuses, Names
  <2> HIDE DEF r
  <2>3. /\ {"sessionId", "tasks", "active", "latest", "replayed"} \subseteq DOMAIN r
        /\ r.sessionId = st.sessionId /\ r.replayed = st.replayed
        /\ r.tasks = [st.tasks EXCEPT ![t] = as] /\ r.latest = st.latest
    BY <2>1 DEF Fields
  <2>4. Reduced(st, r)
    BY <1>2, <2>2, <2>3 DEF Fields, Known, Reduced
  <2> QED BY <2>3, <2>4 DEF r
<1> QED BY <1>1, <1>2
LEMMA PageInit == Init => PageInv
<1> SUFFICES ASSUME Init PROVE PageInv
  OBVIOUS
<1>1. /\ state = InitialState(route) /\ sequence = [t \in Tasks |-> 0] /\ replays = NoReplays
      /\ stream = NoStream /\ log = [t \in Tasks |-> <<>>]
  BY DEF Init, Contract!Init
<1>2. PageOK
  BY <1>1 DEF PageOK, InitialState, NoReplays, NoStream, Fields, Names
<1>3. ASSUME NEW t \in Tasks PROVE TaskOK(t)
  <2>1. log[t] = <<>> /\ Len(log[t]) = 0 /\ t # 0
    BY <1>1, WorkbenchAssumption
  <2>2. state.latest[t] = 0 /\ state.replayed = {} /\ t \notin Known(state)
    BY <1>1 DEF InitialState, Known
  <2>3. stream.task = 0 /\ ~Replaying(t)
    BY <1>1 DEF NoStream, Replaying, NoReplays
  <2> QED BY <2>1, <2>2, <2>3 DEF TaskOK
<1> QED BY <1>2, <1>3 DEF PageInv

\* A page that is opened has nothing that is replayed or followed.
LEMMA OpenedPage ==
    ASSUME RowsOK', NEW s, NEW data, Opened(s, data) PROVE PageInv'
<1>1. /\ state' = InitialState(s) /\ sequence' = [t \in Tasks |-> 0] /\ replays' = NoReplays
      /\ stream' = NoStream
  BY DEF Opened, Shown
<1>2. PageOK'
  BY <1>1 DEF PageOK, InitialState, NoReplays, NoStream, Fields, Names
<1>3. ASSUME NEW t \in Tasks PROVE TaskOK(t)'
  <2>1. Len(log'[t]) \in Nat /\ t # 0
    BY WorkbenchAssumption DEF RowsOK
  <2>2. state'.latest[t] = 0 /\ state'.replayed = {} /\ state'.tasks[t] = "absent"
    BY <1>1 DEF InitialState
  <2>3. stream'.task = 0 /\ replays'[t].pc = "idle"
    BY <1>1 DEF NoStream, NoReplays
  <2> QED BY <2>1, <2>2, <2>3 DEF TaskOK, Replaying, Known
<1> QED BY <1>2, <1>3 DEF PageInv

\* The reducer may learn of tasks while nothing is replayed or followed further.
LEMMA ReducedPage ==
    ASSUME PageInv, RowsOK, RowsOK', Grows,
           Reduced(state, state'), state'.latest = state.latest,
           sequence' = sequence, replays' = replays, stream' = stream
    PROVE  PageInv'
<1>1. \A t \in Tasks : Len(log[t]) \in Nat /\ Len(log'[t]) \in Nat /\ Len(log[t]) <= Len(log'[t])
  BY DEF RowsOK, Grows
<1>2. /\ {"sessionId", "tasks", "active", "latest", "replayed"} \subseteq DOMAIN state'
      /\ state'.tasks \in [Tasks -> Names] /\ state'.latest \in [Tasks -> Nat]
      /\ state'.sessionId = state.sessionId /\ state'.replayed = state.replayed
      /\ \A t \in Tasks : state.tasks[t] # "absent" => state'.tasks[t] # "absent"
      /\ \A t \in Tasks : state'.tasks[t] # "absent"
                              => state.tasks[t] # "absent" \/ SessionOf[t] = state.sessionId
  BY DEF Reduced, Fields, Known
<1>3. PageOK'
  BY <1>2 DEF PageInv, PageOK, Known, Fields
<1>4. ASSUME NEW t \in Tasks PROVE TaskOK(t)'
  <2>1. TaskOK(t) /\ state.latest[t] \in Nat /\ replays[t].target \in Nat
    BY DEF PageInv, PageOK, Fields
  <2>2. /\ state'.latest[t] <= Len(log'[t])
        /\ t \in Known(state)' => SessionOf[t] = state'.sessionId
    BY <1>1, <1>2, <2>1 DEF TaskOK, Known
  <2>3. (Replaying(t) => ReplayOK(t))'
    BY <1>1, <1>2, <2>1 DEF TaskOK, Replaying, ReplayOK, Known
  <2> QED BY <1>2, <2>1, <2>2, <2>3 DEF TaskOK
<1> QED BY <1>3, <1>4 DEF PageInv

LEMMA SamePage ==
    ASSUME PageInv, RowsOK, RowsOK', Grows, state' = state, sequence' = sequence,
           replays' = replays, stream' = stream
    PROVE  PageInv'
<1>1. Reduced(state, state)
  BY NothingReduced DEF PageInv, PageOK
<1>2. Reduced(state, state')
  BY <1>1
<1> QED BY <1>2, ReducedPage

LEMMA ReplayEffectPage == ASSUME PageInv, RowsOK, ReplayEffect PROVE PageInv'
<1>1. /\ state' = state /\ sequence' = sequence /\ stream' = stream /\ log' = log
      /\ replays' = [t \in Tasks |-> IF t \in Known(state) \ state.replayed
                                     THEN [pc |-> "asked", next |-> 1, upto |-> 0, target |-> 0]
                                     ELSE NoReplays[t]]
  BY DEF ReplayEffect, rows, refs
<1> DEFINE asked == [pc |-> "asked", next |-> 1, upto |-> 0, target |-> 0]
           idle == [pc |-> "idle", next |-> 0, upto |-> 0, target |-> 0]
<1>2. ASSUME NEW t \in Tasks
      PROVE  replays'[t] = IF t \in Known(state) \ state.replayed THEN asked ELSE idle
  <2>1. NoReplays[t] = idle
    BY DEF NoReplays
  <2>2. replays'[t] = IF t \in Known(state) \ state.replayed THEN asked ELSE NoReplays[t]
    BY <1>1
  <2> HIDE DEF asked, idle
  <2> QED BY <2>1, <2>2
<1>3. PageOK'
  <2> DEFINE R == [pc: {"idle", "asked", "read", "failed"}, next: Nat, upto: Nat, target: Nat]
  <2>1. asked \in R /\ idle \in R
    OBVIOUS
  <2>2. replays' = [t \in Tasks |-> replays'[t]]
    BY <1>1
  <2>3. replays' \in [Tasks -> R]
    <3> HIDE DEF asked, idle, R
    <3> QED BY <1>2, <2>1, <2>2
  <2> QED BY <1>1, <2>3 DEF PageInv, PageOK, Fields, Known
<1>4. ASSUME NEW t \in Tasks PROVE TaskOK(t)'
  <2>1. TaskOK(t) /\ state.latest[t] \in Nat /\ Len(log[t]) \in Nat
    BY DEF PageInv, PageOK, Fields, RowsOK
  <2>2. CASE t \in Known(state) \ state.replayed
    <3>1. replays'[t].pc = "asked" /\ replays'[t].next = 1 /\ replays'[t].target = 0
      BY <1>2, <2>2
    <3> HIDE DEF asked, idle
    <3>2. replays'[t].next <= state'.latest[t] + 1 /\ replays'[t].target <= Len(log'[t])
      BY <1>1, <2>1, <3>1
    <3>3. ReplayOK(t)'
      BY <1>1, <2>2, <3>1, <3>2 DEF ReplayOK, Known
    <3> QED BY <1>1, <2>1, <3>3 DEF TaskOK, Known
  <2>3. CASE t \notin Known(state) \ state.replayed
    <3>1. replays'[t].pc = "idle"
      BY <1>2, <2>3
    <3> HIDE DEF asked, idle
    <3> QED BY <1>1, <2>1, <3>1 DEF TaskOK, Known, Replaying
  <2> QED BY <2>2, <2>3
<1> QED BY <1>3, <1>4 DEF PageInv

\* A step of the replay of t that leaves the reducer alone.
LEMMA ReplayStepPage ==
    ASSUME PageInv, NEW t \in Tasks,
           NEW r \in [pc: {"idle", "asked", "read", "failed"}, next: Nat, upto: Nat, target: Nat],
           replays' = [replays EXCEPT ![t] = r],
           state' = state, sequence' = sequence, stream' = stream, log' = log,
           (Replaying(t) => ReplayOK(t))'
    PROVE  PageInv'
<1>1. PageOK'
  BY DEF PageInv, PageOK, Fields, Known
<1>2. ASSUME NEW u \in Tasks PROVE TaskOK(u)'
  <2>1. TaskOK(u)
    BY DEF PageInv
  <2>2. CASE u = t
    BY <2>1, <2>2 DEF TaskOK, Known
  <2>3. CASE u # t
    <3>1. replays'[u] = replays[u]
      BY <2>3 DEF PageInv, PageOK
    <3> QED BY <2>1, <3>1 DEF TaskOK, Replaying, ReplayOK, Known
  <2> QED BY <2>2, <2>3
<1> QED BY <1>1, <1>2 DEF PageInv

LEMMA ReplayReadPage ==
    ASSUME PageInv, RowsOK, NEW t \in Tasks, ReplayRead(t) PROVE PageInv'
<1> DEFINE old == replays[t]
           target == IF old.target = 0 THEN Len(log[t]) ELSE old.target
           upto == Least(old.next + Page - 1, target)
           r == [pc |-> "read", next |-> old.next, target |-> target, upto |-> upto]
<1>1. /\ state' = state /\ sequence' = sequence /\ stream' = stream /\ log' = log
      /\ replays' = [replays EXCEPT ![t] = r] /\ old.pc = "asked"
  BY DEF ReplayRead, rows, refs
<1>2. /\ old.next \in Nat /\ old.target \in Nat /\ Len(log[t]) \in Nat /\ state.latest[t] \in Nat
      /\ Page \in Nat \ {0}
  BY WorkbenchAssumption DEF PageInv, PageOK, Fields, RowsOK
<1>3. target \in Nat /\ upto \in Nat
  BY <1>2 DEF Least
<1>4. r \in [pc: {"idle", "asked", "read", "failed"}, next: Nat, upto: Nat, target: Nat]
  BY <1>2, <1>3
<1>5. TaskOK(t) /\ ReplayOK(t)
  BY <1>1 DEF PageInv, TaskOK, Replaying
<1>6. replays'[t] = r
  BY <1>1 DEF PageInv, PageOK
<1>7. target <= Len(log[t]) /\ state.latest[t] <= target
  BY <1>2, <1>5 DEF TaskOK, ReplayOK
<1>8. ReplayOK(t)'
  <2> HIDE DEF target
  <2> QED BY <1>1, <1>5, <1>6, <1>7 DEF ReplayOK, Known
<1> HIDE DEF r
<1> QED BY <1>1, <1>4, <1>8, ReplayStepPage

LEMMA ReplayFailsPage ==
    ASSUME PageInv, RowsOK, NEW t \in Tasks, ReplayFails(t) PROVE PageInv'
<1> DEFINE r == [replays[t] EXCEPT !.pc = "failed"]
<1>1. /\ state' = state /\ sequence' = sequence /\ stream' = stream /\ log' = log
      /\ replays' = [replays EXCEPT ![t] = r]
  BY DEF ReplayFails, rows, refs
<1>2. r \in [pc: {"idle", "asked", "read", "failed"}, next: Nat, upto: Nat, target: Nat]
      /\ r.pc = "failed"
  BY DEF PageInv, PageOK
<1> HIDE DEF r
<1>3. ~Replaying(t)'
  BY <1>1, <1>2 DEF PageInv, PageOK, Replaying
<1> QED BY <1>1, <1>2, <1>3, ReplayStepPage

LEMMA FollowEffectPage ==
    ASSUME PageInv, RowsOK, FollowEffect PROVE PageInv'
<1>1. state' = state /\ sequence' = sequence /\ replays' = replays /\ log' = log
  BY DEF FollowEffect, rows, refs
<1>2. \/ stream' = [task |-> 0, last |-> 0]
      \/ /\ state.active \in state.replayed
         /\ stream' = [task |-> state.active, last |-> sequence[state.active]]
  BY DEF FollowEffect, NoStream
<1>3. state.replayed \subseteq Tasks /\ sequence \in [Tasks -> Nat]
  BY DEF PageInv, PageOK, Known
<1>4. stream' \in [task: Tasks \cup {0}, last: Nat]
  BY <1>2, <1>3
<1>5. PageOK'
  BY <1>1, <1>4 DEF PageInv, PageOK, Fields, Known
<1>6. ASSUME NEW t \in Tasks PROVE TaskOK(t)'
  <2>1. TaskOK(t) /\ t # 0
    BY WorkbenchAssumption DEF PageInv
  <2>2. stream'.task = t => t \in state.replayed /\ stream'.last = sequence[t]
    BY <1>2, <2>1
  <2> QED BY <1>1, <2>1, <2>2 DEF TaskOK, Replaying, ReplayOK, Known
<1> QED BY <1>5, <1>6 DEF PageInv
\* A page of the replay of t is reduced: the reducer is where the page ends, or
\* further, and at the target when the replay ends.
LEMMA ReplayPagePage ==
    ASSUME PageInv, RowsOK, NEW t \in Tasks, ReplayPage(t) PROVE PageInv'
<1> DEFINE r == replays[t]
           ends == r.upto = r.target
           applied == TaskEvents(state, t, r.next, r.upto)
           next == IF ends THEN NoReplays[t] ELSE [r EXCEPT !.pc = "asked", !.next = r.upto + 1]
<1>1. /\ stream' = stream /\ log' = log /\ r.pc = "read"
      /\ state' = IF ends /\ SessionOf[t] = state.sessionId
                  THEN [applied EXCEPT !.replayed = @ \cup {t}] ELSE applied
      /\ sequence' = [sequence EXCEPT ![t] = IF ends THEN r.target ELSE r.upto]
      /\ replays' = [replays EXCEPT ![t] = next]
  BY DEF ReplayPage, ReplayPageTo, rows
<1>2. /\ r \in [pc: {"idle", "asked", "read", "failed"}, next: Nat, upto: Nat, target: Nat]
      /\ Len(log[t]) \in Nat /\ state.latest[t] \in Nat /\ Fields(state)
      /\ Page \in Nat \ {0}
  BY WorkbenchAssumption DEF PageInv, PageOK, Fields, RowsOK
<1>3. TaskOK(t) /\ ReplayOK(t)
  BY <1>1 DEF PageInv, TaskOK, Replaying
<1>4. /\ r.upto <= r.target /\ r.target <= Len(log[t]) /\ state.latest[t] <= r.target
      /\ r.next <= state.latest[t] + 1
      /\ t \in Known(state) /\ t \notin state.replayed /\ SessionOf[t] = state.sessionId
  BY <1>1, <1>2, <1>3 DEF ReplayOK, TaskOK, Least
<1>5. r.upto \in 0..Len(log[t]) /\ r.next \in Nat
  BY <1>2, <1>4
<1>6. /\ Reduced(state, applied)
      /\ applied.latest = IF Fits(state, t, r.next, r.upto)
                          THEN [state.latest EXCEPT ![t] = r.upto] ELSE state.latest
  BY <1>2, <1>5, EventsReduced
<1>7. Fits(state, t, r.next, r.upto) <=> state.latest[t] < r.upto
  BY <1>4 DEF Fits, Known
<1>8. PICK st : st = applied
  OBVIOUS
<1> HIDE DEF applied
<1>9. /\ {"sessionId", "tasks", "active", "latest", "replayed"} \subseteq DOMAIN st
      /\ st.tasks \in [Tasks -> Names] /\ st.latest \in [Tasks -> Nat]
      /\ st.sessionId = state.sessionId /\ st.replayed = state.replayed
      /\ \A u \in Tasks : st.tasks[u] # "absent"
                              => state.tasks[u] # "absent" \/ SessionOf[u] = state.sessionId
      /\ \A u \in Tasks : state.tasks[u] # "absent" => st.tasks[u] # "absent"
  BY <1>6, <1>8 DEF Reduced, Fields, Known
<1>10. /\ st.latest[t] \in Nat /\ state.latest[t] <= st.latest[t] /\ r.upto <= st.latest[t]
       /\ st.latest[t] <= r.target
       /\ \A u \in Tasks : u # t => st.latest[u] = state.latest[u]
  BY <1>2, <1>4, <1>6, <1>7, <1>8 DEF Fields
<1>11. /\ {"sessionId", "tasks", "active", "latest", "replayed"} \subseteq DOMAIN state'
       /\ state'.tasks = st.tasks /\ state'.latest = st.latest /\ state'.sessionId = st.sessionId
       /\ state'.replayed = IF ends THEN st.replayed \cup {t} ELSE st.replayed
  BY <1>1, <1>4, <1>8, <1>9
<1>12. next \in [pc: {"idle", "asked", "read", "failed"}, next: Nat, upto: Nat, target: Nat]
  <2>1. CASE ends
    <3>1. next = [pc |-> "idle", next |-> 0, upto |-> 0, target |-> 0]
      BY <2>1 DEF NoReplays
    <3> HIDE DEF next
    <3> QED BY <3>1
  <2>2. CASE ~ends
    <3>1. PICK old : old = r
      OBVIOUS
    <3>2. next = [old EXCEPT !.pc = "asked", !.next = old.upto + 1]
      BY <2>2, <3>1
    <3> HIDE DEF next, r, ends
    <3>3. old.upto + 1 \in Nat
      BY <1>2, <3>1
    <3> QED BY <1>2, <3>1, <3>2, <3>3
  <2> QED BY <2>1, <2>2
<1>13. PageOK'
  <2>1. replays' \in [Tasks -> [pc: {"idle", "asked", "read", "failed"}, next: Nat, upto: Nat,
                                target: Nat]]
    <3> HIDE DEF next
    <3> QED BY <1>1, <1>12 DEF PageInv, PageOK
  <2>2. sequence' \in [Tasks -> Nat]
    <3>1. (IF ends THEN r.target ELSE r.upto) \in Nat
      BY <1>2
    <3> QED BY <1>1, <3>1 DEF PageInv, PageOK
  <2>3. state'.replayed \subseteq Known(state)'
    BY <1>4, <1>9, <1>11 DEF PageInv, PageOK, Known
  <2> HIDE DEF r, ends, next
  <2> QED BY <1>1, <1>9, <1>11, <2>1, <2>2, <2>3 DEF PageInv, PageOK, Fields
<1>14. TaskOK(t)'
  <2>1. /\ state'.latest[t] <= Len(log'[t]) /\ SessionOf[t] = state'.sessionId
        /\ stream'.task # t
    BY <1>1, <1>2, <1>3, <1>4, <1>9, <1>10, <1>11 DEF TaskOK
  <2>2. replays'[t] = next /\ sequence'[t] = IF ends THEN r.target ELSE r.upto
    <3> HIDE DEF next
    <3> QED BY <1>1 DEF PageInv, PageOK
  <2>3. CASE ends
    <3>1. replays'[t].pc = "idle" /\ sequence'[t] = r.target
      BY <2>2, <2>3 DEF NoReplays
    <3>2. r.target = st.latest[t]
      BY <1>2, <1>10, <2>3
    <3> QED BY <1>11, <2>1, <3>1, <3>2 DEF TaskOK, Replaying
  <2>4. CASE ~ends
    <3>1. replays'[t].pc = "asked" /\ replays'[t].next = r.upto + 1 /\ replays'[t].target = r.target
      BY <1>2, <2>2, <2>4
    <3>2. t \notin state'.replayed /\ t \in Known(state)'
      BY <1>4, <1>9, <1>11, <2>4 DEF Known
    <3>3. replays'[t].next <= state'.latest[t] + 1
      BY <1>2, <1>10, <1>11, <3>1
    <3>4. ReplayOK(t)'
      BY <1>1, <1>4, <1>10, <1>11, <3>1, <3>2, <3>3 DEF ReplayOK
    <3> QED BY <2>1, <3>2, <3>4 DEF TaskOK
  <2> QED BY <2>3, <2>4
<1>15. ASSUME NEW u \in Tasks, u # t PROVE TaskOK(u)'
  <2>1. TaskOK(u) /\ state.latest[u] \in Nat
    BY <1>2 DEF PageInv, Fields
  <2>2. replays'[u] = replays[u] /\ sequence'[u] = sequence[u]
    <3> HIDE DEF next
    <3> QED BY <1>1, <1>15 DEF PageInv, PageOK
  <2>3. /\ state'.latest[u] = state.latest[u] /\ (u \in state'.replayed <=> u \in state.replayed)
        /\ state'.sessionId = state.sessionId
        /\ u \in Known(state) => u \in Known(state)'
        /\ u \in Known(state)' => u \in Known(state) \/ SessionOf[u] = state.sessionId
    BY <1>9, <1>10, <1>11, <1>15 DEF Known
  <2>4. log' = log /\ stream' = stream
    BY <1>1
  <2> HIDE DEF r, ends, next
  <2> QED BY <2>1, <2>2, <2>3, <2>4 DEF TaskOK, Replaying, ReplayOK
<1> QED BY <1>13, <1>14, <1>15 DEF PageInv

\* The next event of the subscription is the reducer's next.
LEMMA DeliverPage == ASSUME PageInv, RowsOK, Deliver PROVE PageInv'
<1>1. PICK t \in Tasks : t = stream.task
  BY DEF Deliver, PageInv, PageOK
<1> DEFINE n == stream.last + 1
           applied == TaskEvents(state, t, n, n)
<1>2. /\ n <= Len(log[t]) /\ state' = applied /\ sequence' = [sequence EXCEPT ![t] = n]
      /\ stream' \in {[task |-> 0, last |-> 0], [stream EXCEPT !.last = n]}
      /\ replays' = replays /\ log' = log
  BY <1>1 DEF Deliver, NoStream, rows
<1>3. stream.last \in Nat /\ Len(log[t]) \in Nat /\ Fields(state) /\ sequence \in [Tasks -> Nat]
  BY DEF PageInv, PageOK, RowsOK
<1>4. n \in 0..Len(log[t]) /\ n \in Nat
  BY <1>2, <1>3
<1>5. TaskOK(t) /\ state.replayed \subseteq Known(state)
  BY DEF PageInv, PageOK
<1>6. /\ t \in state.replayed /\ stream.last = state.latest[t] /\ t \in Known(state)
      /\ SessionOf[t] = state.sessionId /\ ~Replaying(t)
  BY <1>1, <1>5 DEF TaskOK, ReplayOK
<1>7. Fits(state, t, n, n)
  BY <1>3, <1>6 DEF Fits, Known
<1>8. Reduced(state, applied) /\ applied.latest = [state.latest EXCEPT ![t] = n]
  BY <1>3, <1>4, <1>7, EventsReduced
<1> HIDE DEF applied
<1>9. /\ {"sessionId", "tasks", "active", "latest", "replayed"} \subseteq DOMAIN state'
      /\ state'.tasks \in [Tasks -> Names] /\ state'.latest = [state.latest EXCEPT ![t] = n]
      /\ state'.sessionId = state.sessionId /\ state'.replayed = state.replayed
      /\ \A u \in Tasks : state.tasks[u] # "absent" => state'.tasks[u] # "absent"
      /\ \A u \in Tasks : state'.tasks[u] # "absent"
                              => state.tasks[u] # "absent" \/ SessionOf[u] = state.sessionId
  BY <1>2, <1>8 DEF Reduced, Fields, Known
<1>10. stream' \in [task: Tasks \cup {0}, last: Nat] /\ stream'.task \in {0, t}
       /\ (stream'.task = t => stream'.last = n)
  <2>1. t # 0 /\ stream \in [task: Tasks \cup {0}, last: Nat]
    BY WorkbenchAssumption DEF PageInv, PageOK
  <2>2. CASE stream' = [task |-> 0, last |-> 0]
    BY <2>1, <2>2
  <2>3. CASE stream' = [stream EXCEPT !.last = n]
    BY <1>1, <1>4, <2>1, <2>3
  <2> QED BY <1>2, <2>2, <2>3
<1>11. PageOK'
  <2>1. state'.latest \in [Tasks -> Nat] /\ sequence' \in [Tasks -> Nat]
    BY <1>2, <1>3, <1>4, <1>9 DEF Fields
  <2>2. state'.replayed \subseteq Known(state)'
    BY <1>5, <1>9 DEF Known
  <2> QED BY <1>2, <1>9, <1>10, <2>1, <2>2 DEF PageInv, PageOK, Fields
<1>12. TaskOK(t)'
  <2>1. state'.latest[t] = n /\ sequence'[t] = n
    BY <1>2, <1>3, <1>9 DEF Fields
  <2>2. ~Replaying(t)'
    BY <1>2, <1>6 DEF Replaying
  <2> QED BY <1>2, <1>6, <1>9, <1>10, <2>1, <2>2 DEF TaskOK
<1>13. ASSUME NEW u \in Tasks, u # t PROVE TaskOK(u)'
  <2>1. TaskOK(u) /\ u # 0
    BY WorkbenchAssumption DEF PageInv
  <2>2. state'.latest[u] = state.latest[u] /\ sequence'[u] = sequence[u] /\ stream'.task # u
    BY <1>2, <1>3, <1>9, <1>10, <1>13, <2>1 DEF Fields
  <2>3. (u \in Known(state) => u \in Known(state)')
        /\ (u \in Known(state)' => u \in Known(state) \/ SessionOf[u] = state.sessionId)
    BY <1>9 DEF Known
  <2>4. replays' = replays /\ log' = log /\ state'.sessionId = state.sessionId
        /\ state'.replayed = state.replayed
    BY <1>2, <1>9
  <2> QED BY <2>1, <2>2, <2>3, <2>4 DEF TaskOK, Replaying, ReplayOK
<1> QED BY <1>11, <1>12, <1>13 DEF PageInv

\* While no session is selected no task is known, replayed or followed.
LEMMA SessionCreatedPage ==
    ASSUME PageInv, SessionInv, RowsOK, SessionCreated PROVE PageInv'
<1>1. PICK s : state' = InitialState(s)
  BY DEF SessionCreated
<1>2. sequence' = sequence /\ replays' = replays /\ stream' = stream /\ log' = log
  BY DEF SessionCreated, effects, rows
<1>3. state.sessionId = None
  BY DEF SessionCreated, SessionInv, OneSession, RequestOfSession
<1>4. ASSUME NEW t \in Tasks PROVE ~Replaying(t) /\ stream.task # t
  <2>1. TaskOK(t) /\ SessionOf[t] # None /\ state.replayed \subseteq Known(state)
    BY WorkbenchAssumption DEF PageInv, PageOK, None
  <2>2. t \notin Known(state)
    BY <1>3, <2>1 DEF TaskOK
  <2> QED BY <2>1, <2>2 DEF TaskOK, ReplayOK
<1>5. PageOK'
  BY <1>1, <1>2 DEF PageInv, PageOK, InitialState, Fields, Names
<1>6. ASSUME NEW t \in Tasks PROVE TaskOK(t)'
  <2>1. state'.latest[t] = 0 /\ state'.replayed = {} /\ state'.tasks[t] = "absent"
    BY <1>1 DEF InitialState
  <2>2. Len(log'[t]) \in Nat
    BY <1>2 DEF RowsOK
  <2>3. ~Replaying(t)' /\ stream'.task # t
    BY <1>2, <1>4 DEF Replaying
  <2> QED BY <2>1, <2>2, <2>3 DEF TaskOK, Known
<1> QED BY <1>5, <1>6 DEF PageInv

LEMMA PageStep ==
    /\ PageInv /\ RowsOK /\ SessionInv /\ LoadedOK /\ AnswerOK /\ RowsOK' /\ Grows /\ [Next]_vars
    => PageInv'
<1> SUFFICES ASSUME PageInv, RowsOK, SessionInv, LoadedOK, AnswerOK, RowsOK', Grows,
                    [Next]_vars
             PROVE  PageInv'
  OBVIOUS
<1>1. CASE Work
  BY <1>1, SamePage DEF Work, page, refs, effects
<1>2. CASE HistoryRead \/ HistoryArrives \/ HistoryFails \/ Focus
  BY <1>2, SamePage DEF HistoryRead, HistoryArrives, HistoryFails, Focus, refs, effects
<1>3. CASE HistoryEffect
  <2>1. fresh /\ sequence' = sequence /\ replays' = replays /\ stream' = stream
    BY <1>3 DEF HistoryEffect, refs, effects
  <2>2. PICK loaded \in cached[sessionId] : state' = HistoryLoaded(state, sessionId, loaded)
    BY <1>3 DEF HistoryEffect
  <2>3. loaded \in Brought(sessionId)
    BY <2>1, <2>2 DEF LoadedOK
  <2>4. Fields(state)
    BY DEF PageInv, PageOK
  <2>5. /\ Reduced(state, HistoryLoaded(state, sessionId, loaded))
        /\ HistoryLoaded(state, sessionId, loaded).latest = state.latest
    BY <2>3, <2>4, HistoryReduced
  <2>6. Reduced(state, state') /\ state'.latest = state.latest
    BY <2>2, <2>5
  <2> QED BY <2>1, <2>6, ReducedPage
<1>4. CASE ReplayEffect
  BY <1>4, ReplayEffectPage
<1>5. ASSUME NEW t \in Tasks, ReplayRead(t) \/ ReplayPage(t) \/ ReplayFails(t) PROVE PageInv'
  BY <1>5, ReplayReadPage, ReplayPagePage, ReplayFailsPage
<1>6. CASE FollowEffect \/ Deliver
  BY <1>6, FollowEffectPage, DeliverPage
<1>7. CASE Submit \/ SessionFails \/ TaskAnswered \/ TaskRefused \/ TaskFails
  BY <1>7, SamePage DEF Submit, SessionFails, TaskAnswered, TaskRefused, TaskFails, refs, effects
<1>8. CASE SessionCreated
  BY <1>8, SessionCreatedPage
<1>9. CASE TaskCreation
  <2>1. sequence' = sequence /\ replays' = replays /\ stream' = stream /\ create.pc = "answered"
        /\ state' = TaskCreated(state, pending, create.task, create.as)
    BY <1>9 DEF TaskCreation, effects
  <2>2. create.task \in Tasks /\ create.as \in Said /\ Fields(state)
    BY <2>1 DEF AnswerOK, PageInv, PageOK
  <2>3. /\ Reduced(state, TaskCreated(state, pending, create.task, create.as))
        /\ TaskCreated(state, pending, create.task, create.as).latest = state.latest
    BY <2>2, AnswerReduced
  <2>4. Reduced(state, state') /\ state'.latest = state.latest
    BY <2>1, <2>3
  <2> QED BY <2>1, <2>4, ReducedPage
<1>10. ASSUME NEW s \in Sessions \cup {None}, Select(s) PROVE PageInv'
  BY <1>10, OpenedPage DEF Select
<1>11. CASE Recover \/ Reload
  BY <1>11, OpenedPage DEF Recover, Reload
<1>12. CASE UNCHANGED vars
  BY <1>12, SamePage DEF vars
<1> QED
  BY <1>1, <1>2, <1>3, <1>4, <1>5, <1>6, <1>7, <1>8, <1>9, <1>10, <1>11, <1>12 DEF Next

\* The invariant of the page, its requests and AI Core's rows, from which the rest
\* follows.
LEMMA InvHolds == Spec => [](SessionInv /\ RowsOK /\ LoadedOK /\ AnswerOK /\ PageInv)
<1> DEFINE Inv == SessionInv /\ RowsOK /\ LoadedOK /\ AnswerOK /\ PageInv
<1>1. Init => Inv
  BY SessionInvInit, RowsInit, LoadedInit, AnswerInit, PageInit
<1>2. Inv /\ [Next]_vars => Inv'
  <2> SUFFICES ASSUME Inv, [Next]_vars PROVE Inv'
    OBVIOUS
  <2>1. RowsOK' /\ Grows /\ SessionInv'
    BY RowsStep, SessionInvStep
  <2>2. LoadedOK' /\ AnswerOK'
    BY <2>1, LoadedStep, AnswerStep
  <2>3. PageInv'
    BY <2>1, PageStep
  <2> QED BY <2>1, <2>2, <2>3
<1> QED BY <1>1, <1>2, PTL DEF Spec

\* A subscription goes on where the reducer stands, for any page size, length
\* of the logs, and order of answers, effects and events.
THEOREM ReplayLeavesNoGap == Spec => []NoGapAfterReplay
<1>1. PageInv => NoGapAfterReplay
  <2> SUFFICES ASSUME PageInv PROVE NoGapAfterReplay
    OBVIOUS
  <2>1. /\ state.replayed \subseteq Tasks /\ Known(state) \subseteq Tasks
        /\ \A t \in Tasks : TaskOK(t)
    BY DEF PageInv, PageOK, Known
  <2> QED BY <2>1 DEF TaskOK, NoGapAfterReplay
<1> QED BY <1>1, InvHolds, PTL

-----------------------------------------------------------------------------
(* The newest of some tasks, the last of some events *)

\* Numbers, some of which there are, have a least one.
LEMMA LeastNatural ==
    ASSUME NEW S \in SUBSET Nat, S # {}
    PROVE  \E n \in S : \A m \in S : n <= m
<1> DEFINE R == OpToRel(<, Nat)
<1>1. IsWellFoundedOn(R, Nat)
  BY NatLessThanWellFounded
<1>2. \A m, n \in Nat : m < n => <<m, n>> \in R
  BY DEF OpToRel
<1> HIDE DEF R
<1>3. PICK n \in S : \A m \in S : <<m, n>> \notin R
  BY <1>1, WFMin
<1>4. \A m \in S : ~(m < n)
  BY <1>2, <1>3
<1> QED BY <1>3, <1>4

\* Finitely many have a greatest: it is the one that the fewest are above.
LEMMA GreatestNatural ==
    ASSUME NEW S \in SUBSET Nat, IsFiniteSet(S), S # {}
    PROVE  \E n \in S : \A m \in S : m <= n
<1> DEFINE Above(n) == {m \in S : m > n}
           Counts == {Cardinality(Above(n)) : n \in S}
<1>1. \A n \in S : IsFiniteSet(Above(n)) /\ Cardinality(Above(n)) \in Nat
  BY FS_Subset, FS_CardinalityType
<1>2. PICK c \in Counts : \A d \in Counts : c <= d
  <2>1. Counts \in SUBSET Nat /\ Counts # {}
    BY <1>1
  <2> HIDE DEF Counts
  <2> QED BY <2>1, LeastNatural
<1>3. PICK n \in S : \A m \in S : Cardinality(Above(n)) <= Cardinality(Above(m))
  BY <1>2
<1>4. ASSUME NEW m \in S, m > n PROVE FALSE
  <2>0. \A k \in S : k \in Nat
    OBVIOUS
  <2>1. Above(m) \subseteq Above(n) /\ m \in Above(n) /\ m \notin Above(m)
    <3>1. \A k \in S : k > m => k > n
      BY <1>4, <2>0
    <3>2. Above(m) \subseteq Above(n)
      BY <3>1
    <3>3. m \in Above(n)
      BY <1>4
    <3>4. m \notin Above(m)
      BY <2>0
    <3> QED BY <3>2, <3>3, <3>4
  <2> HIDE DEF Above
  <2>2. /\ Cardinality(Above(m)) <= Cardinality(Above(n))
        /\ Cardinality(Above(m)) = Cardinality(Above(n)) => Above(m) = Above(n)
    BY <1>1, <2>1, FS_Subset
  <2>3. Cardinality(Above(m)) \in Nat /\ Cardinality(Above(n)) \in Nat
    BY <1>1, <1>4
  <2>4. Cardinality(Above(n)) <= Cardinality(Above(m))
    BY <1>3
  <2>5. Cardinality(Above(m)) = Cardinality(Above(n))
    BY <2>2, <2>3, <2>4
  <2> QED BY <2>1, <2>2, <2>5
<1> QED BY <1>3, <1>4

\* A task that has not ended makes the newest such task the active one.
LEMMA OneIsActive ==
    ASSUME NEW tasks, NEW t \in Tasks, tasks[t] \notin Ended \cup {"absent"}
    PROVE  FindActive(tasks) \in Tasks /\ FindActive(tasks) # 0
<1> DEFINE unended == {u \in Tasks : tasks[u] \notin Ended \cup {"absent"}}
<1>1. unended \in SUBSET Nat /\ IsFiniteSet(unended) /\ unended # {}
  BY WorkbenchAssumption, FS_Subset
<1>2. FindActive(tasks) = Max(unended)
  BY <1>1 DEF FindActive
<1>3. unended \subseteq Tasks
  OBVIOUS
<1> HIDE DEF unended
<1>4. PICK n \in unended : \A m \in unended : m <= n
  BY <1>1, GreatestNatural
<1>5. \A m \in unended : n >= m
  BY <1>1, <1>4
<1>6. Max(unended) \in unended
  BY <1>4, <1>5 DEF Max
<1> QED BY <1>2, <1>3, <1>6, WorkbenchAssumption

-----------------------------------------------------------------------------
(* What the events of a task say of its end *)

SaysEnd(event) == Says(event) \cap Ended # {}

\* Once an event said that a task has ended, so does its row, and no event says
\* anything else.
EndsFor(events, shown) ==
    \A i \in 1..Len(events) : SaysEnd(events[i]) =>
        shown \in Ended /\ \A j \in i..Len(events) : Says(events[j]) \subseteq Ended

EndsOK == \A t \in Tasks : EndsFor(log[t], status[t])

\* Events of a task that has not ended may end it, those of one that has may
\* only say so.
LEMMA EndsAppended ==
    ASSUME NEW a \in Seq(Row), NEW b \in Seq(Row), NEW from, NEW to,
           EndsFor(a, from), EndsFor(b, to),
           from \in Ended => to \in Ended /\ \A i \in 1..Len(b) : Says(b[i]) \subseteq Ended
    PROVE  EndsFor(a \o b, to)
<1> DEFINE c == a \o b
<1>1. /\ Len(a) \in Nat /\ Len(b) \in Nat /\ Len(c) = Len(a) + Len(b)
      /\ \A i \in 1..Len(a) : c[i] = a[i]
      /\ \A i \in 1..Len(b) : c[Len(a) + i] = b[i]
  OBVIOUS
<1> HIDE DEF c
<1>2. \A i \in (Len(a) + 1)..Len(c) : i - Len(a) \in 1..Len(b) /\ c[i] = b[i - Len(a)]
  <2> SUFFICES ASSUME NEW i \in (Len(a) + 1)..Len(c)
               PROVE  i - Len(a) \in 1..Len(b) /\ c[i] = b[i - Len(a)]
    OBVIOUS
  <2>1. i - Len(a) \in 1..Len(b) /\ Len(a) + (i - Len(a)) = i
    BY <1>1
  <2> QED BY <1>1, <2>1
<1>3. ASSUME NEW i \in 1..Len(c), SaysEnd(c[i])
      PROVE  to \in Ended /\ \A j \in i..Len(c) : Says(c[j]) \subseteq Ended
  <2>1. CASE i \in 1..Len(a)
    <3>1. from \in Ended /\ \A j \in i..Len(a) : Says(a[j]) \subseteq Ended
      BY <1>1, <1>3, <2>1 DEF EndsFor
    <3>2. to \in Ended /\ \A j \in 1..Len(b) : Says(b[j]) \subseteq Ended
      BY <3>1
    <3>3. ASSUME NEW j \in i..Len(c) PROVE Says(c[j]) \subseteq Ended
      <4>1. CASE j <= Len(a)
        BY <1>1, <2>1, <3>1, <4>1
      <4>2. CASE ~(j <= Len(a))
        <5>1. j \in (Len(a) + 1)..Len(c)
          BY <1>1, <2>1, <4>2
        <5> QED BY <1>2, <3>2, <5>1
      <4> QED BY <4>1, <4>2
    <3> QED BY <3>2, <3>3
  <2>2. CASE i \notin 1..Len(a)
    <3> DEFINE k == i - Len(a)
    <3>1. i \in (Len(a) + 1)..Len(c)
      BY <1>1, <2>2
    <3>2. k \in 1..Len(b) /\ c[i] = b[k]
      BY <1>2, <3>1
    <3>3. to \in Ended /\ \A j \in k..Len(b) : Says(b[j]) \subseteq Ended
      BY <1>3, <3>2 DEF EndsFor
    <3>4. ASSUME NEW j \in i..Len(c) PROVE Says(c[j]) \subseteq Ended
      <4>1. j \in (Len(a) + 1)..Len(c) /\ j - Len(a) \in k..Len(b)
        BY <1>1, <3>1
      <4> QED BY <1>2, <3>3, <4>1
    <3> QED BY <3>3, <3>4
  <2> QED BY <2>1, <2>2
<1>4. EndsFor(c, to)
  BY <1>3 DEF EndsFor
<1> QED BY <1>4 DEF c

\* What the events of the contract say.
LEMMA EventSays ==
    /\ \A s : Says(Contract!Event("task.status_changed", s, 0)) = {s}
    /\ \A s : Says(Contract!Event("task.completed", s, 0)) = {"completed"}
    /\ \A s : Says(Contract!Event("task.failed", s, 0)) = {"failed"}
    /\ \A s : Says(Contract!Event("task.created", s, 0)) = {}
  BY DEF Contract!Event, Says

\* Events that keep what was said of the end of the task.
LEMMA EndsCommitted ==
    ASSUME RowsOK, EndsOK, NEW t \in Tasks, NEW to, NEW es \in Seq(Row),
           status' = [status EXCEPT ![t] = to], log' = [log EXCEPT ![t] = log[t] \o es],
           EndsFor(es, to),
           status[t] \in Ended => to \in Ended /\ \A i \in 1..Len(es) : Says(es[i]) \subseteq Ended
    PROVE  EndsOK'
<1>1. log[t] \in Seq(Row) /\ EndsFor(log[t], status[t])
  BY DEF RowsOK, EndsOK
<1>2. EndsFor(log[t] \o es, to)
  BY <1>1, EndsAppended
<1>3. ASSUME NEW u \in Tasks PROVE EndsFor(log'[u], status'[u])
  <2>1. CASE u = t
    BY <1>2, <2>1 DEF RowsOK
  <2>2. CASE u # t
    <3>1. log'[u] = log[u] /\ status'[u] = status[u]
      BY <2>2 DEF RowsOK
    <3> QED BY <3>1 DEF EndsOK
  <2> QED BY <2>1, <2>2
<1> QED BY <1>3 DEF EndsOK

\* One event.
LEMMA OneEvent ==
    ASSUME NEW e \in Row, NEW to, SaysEnd(e) => to \in Ended /\ Says(e) \subseteq Ended
    PROVE  EndsFor(<<e>>, to) /\ <<e>> \in Seq(Row)
<1>1. <<e>> \in Seq(Row) /\ Len(<<e>>) = 1 /\ <<e>>[1] = e
  OBVIOUS
<1> QED BY <1>1 DEF EndsFor

\* The two of a failure.
LEMMA TwoEvents ==
    ASSUME NEW e \in Row, NEW f \in Row, NEW to \in Ended,
           Says(e) \subseteq Ended, Says(f) \subseteq Ended
    PROVE  EndsFor(<<e, f>>, to) /\ <<e, f>> \in Seq(Row)
<1>1. <<e, f>> \in Seq(Row) /\ Len(<<e, f>>) = 2 /\ <<e, f>>[1] = e /\ <<e, f>>[2] = f
  OBVIOUS
<1> QED BY <1>1 DEF EndsFor

\* No event said so before there is any.
LEMMA EndsInit == Init => EndsOK
<1> SUFFICES ASSUME Init, NEW t \in Tasks PROVE EndsFor(log[t], status[t])
  BY DEF EndsOK
<1>1. log[t] = <<>> /\ Len(log[t]) = 0
  BY DEF Init, Contract!Init
<1> QED BY <1>1 DEF EndsFor

\* The steps of AI Core, one by one.
LEMMA AcceptEnds == ASSUME RowsOK, EndsOK, NEW t \in Tasks, Contract!Accept(t) PROVE EndsOK'
<1> DEFINE e == Contract!Event("task.created", "created", 0)
<1>1. /\ status' = [status EXCEPT ![t] = "created"] /\ log' = [log EXCEPT ![t] = log[t] \o <<e>>]
      /\ status[t] = "absent"
  BY DEF Contract!Accept, Contract!Commit
<1>2. e \in Row /\ Says(e) = {}
  BY EventSays DEF Row, Kinds, Said, Statuses, Contract!Event
<1> HIDE DEF e
<1>3. EndsFor(<<e>>, "created") /\ <<e>> \in Seq(Row)
  BY <1>2, OneEvent DEF SaysEnd
<1>4. status[t] \notin Ended
  BY <1>1 DEF Ended
<1> QED BY <1>1, <1>3, <1>4, EndsCommitted

LEMMA AdvanceEnds == ASSUME RowsOK, EndsOK, NEW t \in Tasks, Contract!Advance(t) PROVE EndsOK'
<1> DEFINE to == Contract!NextStatus[status[t]]
           e == Contract!Event("task.status_changed", to, 0)
<1>1. /\ status' = [status EXCEPT ![t] = to] /\ log' = [log EXCEPT ![t] = log[t] \o <<e>>]
      /\ status[t] \in {"created", "planning", "running_tools", "validating"}
  BY DEF Contract!Advance, Contract!Commit, Contract!Active, Contract!NextStatus
<1>2. to \in Said
  <2>1. to \in {"planning", "running_tools", "validating", "completed"}
    BY <1>1 DEF Contract!NextStatus
  <2> QED BY <2>1 DEF Said, Statuses
<1>3. e \in Row /\ Says(e) = {to}
  BY <1>2, EventSays DEF Row, Kinds, Contract!Event
<1> HIDE DEF to, e
<1>4. SaysEnd(e) => to \in Ended /\ Says(e) \subseteq Ended
  BY <1>3 DEF SaysEnd
<1>5. EndsFor(<<e>>, to) /\ <<e>> \in Seq(Row)
  BY <1>3, <1>4, OneEvent
<1>6. status[t] \notin Ended
  BY <1>1 DEF Ended
<1> QED BY <1>1, <1>5, <1>6, EndsCommitted

LEMMA FailEnds == ASSUME RowsOK, EndsOK, NEW t \in Tasks, Contract!Fail(t) PROVE EndsOK'
<1> DEFINE e == Contract!Event("task.status_changed", "failed", 0)
           f == Contract!Event("task.failed", "none", 0)
<1>1. /\ status' = [status EXCEPT ![t] = "failed"] /\ log' = [log EXCEPT ![t] = log[t] \o <<e, f>>]
      /\ status[t] \in {"created", "planning", "running_tools", "validating"}
  BY DEF Contract!Fail, Contract!Commit, Contract!Active, Contract!NextStatus
<1>2. e \in Row /\ f \in Row /\ Says(e) = {"failed"} /\ Says(f) = {"failed"}
  BY EventSays DEF Row, Kinds, Said, Statuses, Contract!Event
<1> HIDE DEF e, f
<1>3. "failed" \in Ended /\ status[t] \notin Ended
  BY <1>1 DEF Ended
<1>4. EndsFor(<<e, f>>, "failed") /\ <<e, f>> \in Seq(Row)
  BY <1>2, <1>3, TwoEvents
<1> QED BY <1>1, <1>3, <1>4, EndsCommitted

LEMMA AnnounceEnds == ASSUME RowsOK, EndsOK, NEW t \in Tasks, Contract!Announce(t) PROVE EndsOK'
<1> DEFINE e == Contract!Event("task.completed", "none", 0)
<1>1. /\ status' = status /\ log' = [log EXCEPT ![t] = Append(log[t], e)] /\ status[t] = "completed"
  BY DEF Contract!Announce
<1>2. e \in Row /\ Says(e) = {"completed"} /\ log[t] \in Seq(Row)
  BY EventSays DEF Row, Kinds, Said, Contract!Event, RowsOK
<1> HIDE DEF e
<1>3. "completed" \in Ended
  BY DEF Ended
<1>4. EndsFor(<<e>>, "completed") /\ <<e>> \in Seq(Row)
  BY <1>2, <1>3, OneEvent
<1>5. Append(log[t], e) = log[t] \o <<e>> /\ Len(<<e>>) = 1 /\ <<e>>[1] = e
  BY <1>2
<1>6. log' = [log EXCEPT ![t] = log[t] \o <<e>>] /\ status' = [status EXCEPT ![t] = "completed"]
  BY <1>1, <1>5 DEF RowsOK
<1>7. \A i \in 1..Len(<<e>>) : Says(<<e>>[i]) \subseteq Ended
  BY <1>2, <1>3, <1>5
<1> QED BY <1>3, <1>4, <1>6, <1>7, EndsCommitted

LEMMA EndsStep == RowsOK /\ EndsOK /\ [Next]_vars => EndsOK'
<1> SUFFICES ASSUME RowsOK, EndsOK, [Next]_vars PROVE EndsOK'
  OBVIOUS
<1>u. ASSUME status' = status, log' = log PROVE EndsOK'
  BY <1>u DEF EndsOK
<1>1. CASE Work
  <2>1. PICK t \in Tasks : \/ Contract!Advance(t) \/ Contract!Fail(t) \/ Contract!Announce(t)
                           \/ Contract!Accept(t)
    BY <1>1 DEF Work, Accept
  <2> QED BY <2>1, AcceptEnds, AdvanceEnds, FailEnds, AnnounceEnds
<1>2. CASE TaskAnswered
  <2>1. CASE recorded # 0
    BY <1>2, <2>1, <1>u DEF TaskAnswered, rows
  <2>2. CASE recorded = 0
    <3>1. PICK t \in Tasks : Contract!Accept(t)
      BY <1>2, <2>2 DEF TaskAnswered, Accept
    <3> QED BY <3>1, AcceptEnds
  <2> QED BY <2>1, <2>2
<1>3. CASE HistoryRead \/ HistoryArrives \/ HistoryFails \/ HistoryEffect \/ Focus
  BY <1>3, <1>u DEF HistoryRead, HistoryArrives, HistoryFails, HistoryEffect, Focus, rows
<1>4. CASE ReplayEffect \/ FollowEffect \/ Deliver
  BY <1>4, <1>u DEF ReplayEffect, FollowEffect, Deliver, rows
<1>5. ASSUME NEW t \in Tasks, ReplayRead(t) \/ ReplayPage(t) \/ ReplayFails(t)
      PROVE  EndsOK'
  BY <1>5, <1>u DEF ReplayRead, ReplayPage, ReplayPageTo, ReplayFails, rows
<1>6. CASE Submit \/ SessionCreated \/ SessionFails \/ TaskRefused \/ TaskFails \/ TaskCreation
  BY <1>6, <1>u DEF Submit, SessionCreated, SessionFails, TaskRefused, TaskFails, TaskCreation, rows
<1>7. ASSUME NEW s \in Sessions \cup {None}, Select(s) PROVE EndsOK'
  BY <1>7, <1>u DEF Select, rows
<1>8. CASE Recover \/ Reload
  BY <1>8, <1>u DEF Recover, Reload, rows
<1>9. CASE UNCHANGED vars
  BY <1>9, <1>u DEF vars
<1> QED BY <1>1, <1>2, <1>3, <1>4, <1>5, <1>6, <1>7, <1>8, <1>9 DEF Next

\* What the events said last is what is told of the end: if any said that the
\* task has ended, only that is told.
LEMMA EndIsTold ==
    ASSUME RowsOK, EndsOK, NEW st, NEW t \in Tasks, NEW to \in 0..Len(log[t]), NEW i \in 1..to,
           st.tasks[t] \notin Ended, ShownAfter(st, t, i) \in Ended
    PROVE  Told(t, to) # {} /\ Told(t, to) \subseteq Ended
<1> DEFINE said(k) == Says(log[t][k])
<1>0. Len(log[t]) \in Nat /\ EndsFor(log[t], status[t])
  BY DEF RowsOK, EndsOK
<1>1. PICK k \in 1..i : said(k) \cap Ended # {}
  <2>1. Told(t, i) # {}
    BY DEF ShownAfter
  <2>2. ShownAfter(st, t, i) \in Told(t, i)
    BY <2>1 DEF ShownAfter
  <2> QED BY <2>2 DEF Told
<1>2. \A j \in k..Len(log[t]) : said(j) \subseteq Ended
  BY <1>0, <1>1 DEF EndsFor, SaysEnd
<1>3. k \in 1..to
  BY <1>0, <1>1
<1>4. Told(t, to) \subseteq Ended
  <2> SUFFICES ASSUME NEW s \in Told(t, to) PROVE s \in Ended
    OBVIOUS
  <2>1. PICK m \in 1..to : s \in said(m) /\ \A j \in (m + 1)..to : said(j) = {}
    BY DEF Told
  <2>2. ~(m < k)
    BY <1>0, <1>1, <1>3, <2>1
  <2>3. m \in k..Len(log[t])
    BY <1>0, <1>3, <2>1, <2>2
  <2> QED BY <1>2, <2>1, <2>3
<1>5. Told(t, to) # {}
  <2> DEFINE telling == {j \in 1..to : said(j) # {}}
  <2>1. telling \in SUBSET Nat /\ telling # {} /\ IsFiniteSet(telling)
    <3>1. IsFiniteSet(1..to)
      BY <1>0, FS_Interval
    <3> QED BY <1>1, <1>3, <3>1, FS_Subset
  <2>2. PICK m \in telling : \A j \in telling : j <= m
    <3> HIDE DEF telling
    <3> QED BY <2>1, GreatestNatural
  <2>3. m \in 1..to /\ said(m) # {} /\ \A j \in (m + 1)..to : said(j) = {}
    <3>1. m \in 1..to /\ said(m) # {}
      OBVIOUS
    <3>2. ASSUME NEW j \in (m + 1)..to PROVE said(j) = {}
      <4>1. j \in 1..to /\ ~(j <= m)
        BY <1>0, <3>1
      <4>2. j \notin telling
        BY <2>2, <4>1
      <4> QED BY <4>1, <4>2
    <3> QED BY <3>1, <3>2
  <2> QED BY <2>3 DEF Told
<1> QED BY <1>4, <1>5

-----------------------------------------------------------------------------
(* The active task *)

\* What a step must show that takes the active task t from it.
EndTold(t) == Told(t, state'.latest[t]) # {} /\ Told(t, state'.latest[t]) \subseteq Ended

UntilItsEvents ==
    \A t \in Known(state) :
       (/\ state.active = t /\ state.tasks[t] \notin Ended
        /\ state'.sessionId = state.sessionId /\ state'.active = 0
        /\ t \in Known(state'))
       => EndTold(t)

\* Of events only the task's own end that it is active, and only if they said
\* its end.
LEMMA EventsKeepActive ==
    ASSUME RowsOK, EndsOK, NEW st, Fields(st), NEW t \in Tasks, NEW u \in Tasks, NEW from \in Nat,
           NEW to \in 0..Len(log[u]), st.active = t, st.tasks[t] \notin Ended,
           TaskEvents(st, u, from, to).active = 0
    PROVE  LET told == Told(t, TaskEvents(st, u, from, to).latest[t])
           IN  told # {} /\ told \subseteq Ended
<1> DEFINE r == TaskEvents(st, u, from, to)
           ends == \E i \in (st.latest[u] + 1)..to : ShownAfter(st, u, i) \in Ended
           active == IF st.active = u /\ ends THEN 0 ELSE st.active
<1>1. t # 0
  BY WorkbenchAssumption
<1>2. ~(\/ SessionOf[u] # st.sessionId \/ st.tasks[u] = "absent"
        \/ to <= st.latest[u] \/ from > st.latest[u] + 1)
  <2>1. r # st
    BY <1>1
  <2> QED BY <2>1 DEF TaskEvents
<1>3. r = [st EXCEPT !.tasks[u] = ShownAfter(st, u, to), !.latest[u] = to, !.active = active]
  BY <1>2 DEF TaskEvents
<1>4. r.active = active /\ r.latest = [st.latest EXCEPT ![u] = to]
  <2> HIDE DEF active, r
  <2> QED BY <1>3 DEF Fields
<1>5. u = t /\ ends
  BY <1>1, <1>4
<1>6. r.latest[t] = to
  BY <1>4, <1>5 DEF Fields
<1>7. PICK i \in (st.latest[t] + 1)..to : ShownAfter(st, t, i) \in Ended
  BY <1>5
<1>8. i \in 1..to
  <2>1. st.latest[t] \in Nat
    BY DEF Fields
  <2> QED BY <2>1
<1>9. Told(t, to) # {} /\ Told(t, to) \subseteq Ended
  BY <1>5, <1>7, <1>8, EndIsTold
<1> QED BY <1>6, <1>9

\* No history ends that a task is active.
LEMMA HistoryKeepsActive ==
    ASSUME NEW st, Fields(st), NEW t \in Known(st), st.active = t, st.tasks[t] \notin Ended,
           NEW s, NEW loaded
    PROVE  HistoryLoaded(st, s, loaded).active # 0
<1>0. t \in Tasks /\ st.tasks[t] # "absent" /\ t # 0
  BY WorkbenchAssumption DEF Known
<1>1. CASE s # st.sessionId
  BY <1>0, <1>1 DEF HistoryLoaded
<1>2. CASE s = st.sessionId
  <2> DEFINE keeps(u) == u = st.active /\ st.tasks[u] \notin Ended
             tasks == [u \in Tasks |-> IF loaded[u] = "absent" \/ keeps(u)
                                       THEN st.tasks[u] ELSE loaded[u]]
             r == HistoryLoaded(st, s, loaded)
  <2>1. r = [st EXCEPT !.tasks = tasks, !.active = FindActive(tasks)]
    BY <1>2 DEF HistoryLoaded
  <2>2. tasks[t] = st.tasks[t]
    BY <1>0
  <2> HIDE DEF tasks, r
  <2>3. r.active = FindActive(tasks)
    BY <2>1 DEF Fields
  <2>4. FindActive(tasks) # 0
    BY <1>0, <2>2, OneIsActive
  <2> QED BY <2>3, <2>4 DEF r
<1> QED BY <1>1, <1>2

\* An answer makes another task active.
LEMMA AnswerKeepsActive ==
    ASSUME NEW st, Fields(st), st.active # 0, NEW s, NEW t \in Tasks, NEW as
    PROVE  TaskCreated(st, s, t, as).active # 0
<1>1. t # 0
  BY WorkbenchAssumption
<1>2. CASE s # st.sessionId \/ SessionOf[t] # st.sessionId
  BY <1>2 DEF TaskCreated
<1>3. CASE ~(s # st.sessionId \/ SessionOf[t] # st.sessionId)
  <2>1. TaskCreated(st, s, t, as) = [st EXCEPT !.tasks[t] = as, !.active = t]
    BY <1>3 DEF TaskCreated
  <2> QED BY <1>1, <2>1 DEF Fields
<1> QED BY <1>2, <1>3

\* A page of a replay, an event of the subscription: they are of the log.
LEMMA ReplayKeepsActive ==
    ASSUME PageInv, RowsOK, EndsOK, NEW u \in Tasks, ReplayPage(u) PROVE UntilItsEvents
<1> DEFINE r == replays[u]
           applied == TaskEvents(state, u, r.next, r.upto)
<1>1. r.pc = "read" /\ state' \in {applied, [applied EXCEPT !.replayed = @ \cup {u}]}
  BY DEF ReplayPage, ReplayPageTo
<1>2. /\ r \in [pc: {"idle", "asked", "read", "failed"}, next: Nat, upto: Nat, target: Nat]
      /\ Len(log[u]) \in Nat /\ Fields(state) /\ Page \in Nat \ {0}
  BY WorkbenchAssumption DEF PageInv, PageOK, RowsOK
<1>3. TaskOK(u) /\ ReplayOK(u)
  BY <1>1 DEF PageInv, TaskOK, Replaying
<1>4. r.upto <= r.target /\ r.target <= Len(log[u])
  BY <1>1, <1>2, <1>3 DEF ReplayOK, Least
<1>5. r.upto \in 0..Len(log[u]) /\ r.next \in Nat
  BY <1>2, <1>4
<1>6. {"active", "latest"} \subseteq DOMAIN applied
  <2>1. Reduced(state, applied)
    BY <1>2, <1>5, EventsReduced
  <2> HIDE DEF applied
  <2> QED BY <2>1 DEF Reduced, Fields
<1>7. state'.active = applied.active /\ state'.latest = applied.latest
  <2> HIDE DEF applied
  <2> QED BY <1>1, <1>6
<1>8. ASSUME NEW t \in Known(state), state.active = t, state.tasks[t] \notin Ended, state'.active = 0
      PROVE  EndTold(t)
  <2>1. t \in Tasks /\ applied.active = 0
    BY <1>7, <1>8 DEF Known
  <2>2. Told(t, applied.latest[t]) # {} /\ Told(t, applied.latest[t]) \subseteq Ended
    BY <1>2, <1>5, <1>8, <2>1, EventsKeepActive
  <2> QED BY <1>7, <2>2 DEF EndTold
<1> QED BY <1>8 DEF UntilItsEvents

LEMMA DeliverKeepsActive ==
    ASSUME PageInv, RowsOK, EndsOK, Deliver PROVE UntilItsEvents
<1>1. PICK u \in Tasks : u = stream.task
  BY DEF Deliver, PageInv, PageOK
<1> DEFINE n == stream.last + 1
<1>2. n <= Len(log[u]) /\ state' = TaskEvents(state, u, n, n)
  BY <1>1 DEF Deliver
<1>3. stream.last \in Nat /\ Len(log[u]) \in Nat /\ Fields(state)
  BY DEF PageInv, PageOK, RowsOK
<1>4. n \in 0..Len(log[u]) /\ n \in Nat
  BY <1>2, <1>3
<1>5. ASSUME NEW t \in Known(state), state.active = t, state.tasks[t] \notin Ended, state'.active = 0
      PROVE  EndTold(t)
  <2>1. t \in Tasks /\ TaskEvents(state, u, n, n).active = 0
    BY <1>2, <1>5 DEF Known
  <2> HIDE DEF n
  <2>2. LET told == Told(t, TaskEvents(state, u, n, n).latest[t])
        IN  told # {} /\ told \subseteq Ended
    BY <1>3, <1>4, <1>5, <2>1, EventsKeepActive
  <2> QED BY <1>2, <2>2 DEF EndTold
<1> QED BY <1>5 DEF UntilItsEvents

LEMMA ActiveStep ==
    ASSUME PageInv, RowsOK, EndsOK, AnswerOK, [Next]_vars PROVE [UntilItsEvents]_vars
<1>0. \A t \in Known(state) : t \in Tasks /\ t # 0
  BY WorkbenchAssumption DEF Known
<1>f. Fields(state)
  BY DEF PageInv, PageOK
<1>u. ASSUME state' = state PROVE UntilItsEvents
  BY <1>0, <1>u DEF UntilItsEvents
<1>n. ASSUME NEW s, state' = InitialState(s) PROVE UntilItsEvents
  BY <1>n DEF UntilItsEvents, InitialState, Known
<1>o. ASSUME NEW s, NEW data, Opened(s, data) PROVE UntilItsEvents
  BY <1>n, <1>o DEF Opened, Shown
<1>1. CASE Work \/ HistoryRead \/ HistoryArrives \/ HistoryFails \/ Focus \/ ReplayEffect \/ FollowEffect
  BY <1>1, <1>u DEF Work, page, HistoryRead, HistoryArrives, HistoryFails, Focus, ReplayEffect, FollowEffect
<1>2. CASE HistoryEffect
  <2>1. PICK loaded : state' = HistoryLoaded(state, sessionId, loaded)
    BY <1>2 DEF HistoryEffect
  <2> QED BY <1>f, <2>1, HistoryKeepsActive DEF UntilItsEvents
<1>3. ASSUME NEW t \in Tasks, ReplayRead(t) \/ ReplayFails(t) PROVE UntilItsEvents
  BY <1>3, <1>u DEF ReplayRead, ReplayFails
<1>4. ASSUME NEW t \in Tasks, ReplayPage(t) PROVE UntilItsEvents
  BY <1>4, ReplayKeepsActive
<1>5. CASE Deliver
  BY <1>5, DeliverKeepsActive
<1>6. CASE Submit \/ SessionFails \/ TaskAnswered \/ TaskRefused \/ TaskFails
  BY <1>6, <1>u DEF Submit, SessionFails, TaskAnswered, TaskRefused, TaskFails
<1>7. CASE SessionCreated
  BY <1>7, <1>n DEF SessionCreated
<1>8. CASE TaskCreation
  <2>1. state' = TaskCreated(state, pending, create.task, create.as) /\ create.task \in Tasks
    BY <1>8 DEF TaskCreation, AnswerOK
  <2> QED BY <1>0, <1>f, <2>1, AnswerKeepsActive DEF UntilItsEvents
<1>9. CASE (\E s \in Sessions \cup {None} : Select(s)) \/ Recover \/ Reload
  BY <1>9, <1>o DEF Select, Recover, Reload
<1>10. CASE UNCHANGED vars
  BY <1>10
<1> QED
  BY <1>1, <1>2, <1>3, <1>4, <1>5, <1>6, <1>7, <1>8, <1>9, <1>10 DEF Next

\* A task that is active on the page stays it until the events that were
\* reduced, or another task or session, end that, however far ahead a history
\* or an answer is (session-reducer.ts: history.loaded, task.event).
THEOREM ActiveUntilEnd == Spec => ActiveUntilItsEvents
<1>1. Init => EndsOK
  BY EndsInit
<1>2. RowsOK /\ EndsOK /\ [Next]_vars => EndsOK'
  BY EndsStep
<1>3. PageInv /\ RowsOK /\ EndsOK /\ AnswerOK /\ [Next]_vars =>
        [\A t \in Known(state) :
          (/\ state.active = t /\ state.tasks[t] \notin Ended
           /\ state'.sessionId = state.sessionId /\ state'.active = 0
           /\ t \in Known(state'))
          => Told(t, state'.latest[t]) # {} /\ Told(t, state'.latest[t]) \subseteq Ended]_vars
  BY ActiveStep DEF UntilItsEvents, EndTold
<1> QED BY <1>1, <1>2, <1>3, InvHolds, PTL DEF Spec, ActiveUntilItsEvents
=============================================================================
