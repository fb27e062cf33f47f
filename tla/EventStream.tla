----------------------------- MODULE EventStream -----------------------------
(***************************************************************************)
(* How the log of one task reaches a browser: the goroutine that appends   *)
(* and then notifies, the in-memory notifier, API.StreamTaskEvents with a  *)
(* handler per connection, and subscribeTaskEvents (sse.ts), which         *)
(* reconnects from the last event it accepted. The log itself is the one   *)
(* TaskContract promises; the Grafana backend between the two ends passes  *)
(* the stream through and is a part of the wire here.                      *)
(***************************************************************************)
EXTENDS Integers, Sequences

CONSTANTS
    Task,      \* the task that is watched
    Batch,     \* events per Replay (200 in the code)
    Reported,  \* bound: the kinds of progress events that are reported
    MaxLog,    \* bound on the log
    MaxBreaks  \* bound on broken connections, storage errors and crashes

ASSUME StreamAssumption ==
    /\ Batch \in Nat \ {0}
    /\ {MaxLog, MaxBreaks} \subseteq Nat

VARIABLES
    \* the producer: the rows of TaskContract, and the process
    status, version, log,
    up,        \* the process serves requests
    working,   \* the goroutine that creates or runs the task is there
    unsent,    \* how many events it has committed and not yet notified
    \* the server: handlers[n] is the one of the n-th connection
    handlers,
    wire,      \* what was written to the open connection and not received
    \* the browser
    source,    \* the connection that is open; 0: none
    first,     \* where the subscription started; -1: not yet
    accepted,  \* the events handed to onEvent
    closed,    \* the subscription is closed for good
    \* the environment
    breaks

rows == <<status, version, log>>
producer == <<status, version, log, working, unsent>>
browser == <<source, first, accepted, closed>>
vars == <<status, version, log, up, working, unsent, handlers, wire,
          source, first, accepted, closed, breaks>>

Contract == INSTANCE TaskContract WITH
    Tasks <- {Task}, SessionOf <- [t \in {Task} |-> t], Calls <- {0}

Events == log[Task]
Settled == status[Task] \in {"completed", "failed"}
Terminal(n) == Events[n].kind \in {"task.completed", "task.failed"}

Connections == 1..Len(handlers)
Alive == {"subscribe", "replay", "check", "wait"}

LastAccepted == first + Len(accepted)

Init ==
    /\ Contract!Init
    /\ up = TRUE
    /\ working = TRUE
    /\ unsent = 0
    /\ handlers = <<>>
    /\ wire = <<>>
    /\ source = 0
    /\ first = -1
    /\ accepted = <<>>
    /\ closed = FALSE
    /\ breaks = 0

-----------------------------------------------------------------------------
(* The goroutine of the task *)

\* Within the bounds.
Bounded ==
    /\ Len(log'[Task]) <= MaxLog
    /\ \A i \in 1..Len(log'[Task]) :
          log'[Task][i].kind \in Reported \/ ~(\E p \in DOMAIN Contract!Progress : log'[Task][i].kind \in Contract!Progress[p])

\* A transaction that appends to the log; the notifications of the one before
\* are out.
Produce ==
    /\ up /\ working
    /\ unsent = 0
    /\ Contract!Next
    /\ Bounded
    /\ unsent' = Len(log'[Task]) - Len(Events)
    /\ UNCHANGED <<up, working, handlers, wire, browser, breaks>>

\* (mutant) The channel has no buffer: only who waits hears.
NotifyUnbuffered ==
    /\ up
    /\ unsent > 0
    /\ unsent' = unsent - 1
    /\ handlers' = [n \in Connections |->
                       IF handlers[n].pc = "wait" THEN [handlers[n] EXCEPT !.signal = TRUE]
                                                  ELSE handlers[n]]
    /\ UNCHANGED <<rows, up, working, wire, browser, breaks>>

\* (mutant) One channel for a task: the first to subscribe keeps it.
NotifyFirst ==
    /\ up
    /\ unsent > 0
    /\ unsent' = unsent - 1
    /\ handlers' = [n \in Connections |->
                       [handlers[n] EXCEPT !.signal = @ \/ (n = 1 /\ handlers[n].subscribed)]]
    /\ UNCHANGED <<rows, up, working, wire, browser, breaks>>

\* Notify: a send to each channel ever subscribed that blocks on none: a
\* channel holds one signal. Nobody unsubscribes.
Notify ==
    /\ up
    /\ unsent > 0
    /\ unsent' = unsent - 1
    /\ handlers' = [n \in Connections |->
                       [handlers[n] EXCEPT !.signal = @ \/ handlers[n].subscribed]]
    /\ UNCHANGED <<rows, up, working, wire, browser, breaks>>

\* CreateTask reads task.created back before it notifies and lets an error go.
ForgetNotify ==
    /\ unsent > 0
    /\ Len(Events) = 1
    /\ unsent' = 0
    /\ UNCHANGED <<rows, up, working, handlers, wire, browser, breaks>>

-----------------------------------------------------------------------------
(* StreamTaskEvents, on connection n *)

Become(n, h) == handlers' = [handlers EXCEPT ![n] = h]
Goto(n, pc) == Become(n, [handlers[n] EXCEPT !.pc = pc])

Subscribe(n) ==
    /\ handlers[n].pc = "subscribe"
    /\ Become(n, [handlers[n] EXCEPT !.pc = "replay", !.subscribed = TRUE])
    /\ UNCHANGED <<producer, up, wire, browser, breaks>>

\* The events after `after` up to `last` are written and replayed on; when
\* there is none the row is looked at. What is written to a connection the
\* browser has left is lost.
ReplayTo(n, after, last) ==
    /\ handlers[n].pc = "replay"
    /\ IF last > after
       THEN /\ Become(n, [handlers[n] EXCEPT !.after = last])
            /\ wire' = IF n = source THEN wire \o [i \in 1..(last - after) |-> after + i]
                                     ELSE wire
       ELSE Goto(n, "check") /\ UNCHANGED wire
    /\ UNCHANGED <<producer, up, browser, breaks>>

Least(i, j) == IF i < j THEN i ELSE j

\* (mutant) The cursor goes up by the batch asked for.
ReplayBeyond(n) == ReplayTo(n, handlers[n].after,
                            IF handlers[n].after < Len(Events) THEN handlers[n].after + Batch
                                                               ELSE handlers[n].after)

\* A batch at most.
Replay(n) == ReplayTo(n, handlers[n].after, Least(handlers[n].after + Batch, Len(Events)))

\* (mutant) Only task.completed ends the stream.
CheckCompleted(n) ==
    /\ handlers[n].pc = "check"
    /\ Goto(n, IF /\ Settled /\ handlers[n].after >= Len(Events)
                  /\ Events[Len(Events)].kind = "task.completed"
               THEN "done" ELSE "wait")
    /\ UNCHANGED <<producer, up, wire, browser, breaks>>

\* The stream ends when the row is settled, everything in it was written, and
\* its last event is a terminal one. (That event is read after the row, by its
\* sequence, and an event never changes.)
Check(n) ==
    /\ handlers[n].pc = "check"
    /\ Goto(n, IF /\ Settled /\ handlers[n].after >= Len(Events) /\ Terminal(Len(Events))
               THEN "done" ELSE "wait")
    /\ UNCHANGED <<producer, up, wire, browser, breaks>>

Wake(n) ==
    /\ handlers[n].pc = "wait"
    /\ handlers[n].signal
    /\ Become(n, [handlers[n] EXCEPT !.pc = "replay", !.signal = FALSE])
    /\ UNCHANGED <<producer, up, wire, browser, breaks>>

Heartbeat(n) ==
    /\ handlers[n].pc = "wait"
    /\ Goto(n, "replay")
    /\ UNCHANGED <<producer, up, wire, browser, breaks>>

\* A read of the store fails.
StoreFails(n) ==
    /\ handlers[n].pc \in Alive
    /\ breaks < MaxBreaks
    /\ breaks' = breaks + 1
    /\ Goto(n, "done")
    /\ UNCHANGED <<producer, up, wire, browser>>

\* The handler of a connection the browser has left notices: its context is
\* done, or a write fails. Its channel stays in the notifier.
Abandon(n) ==
    /\ n # source
    /\ handlers[n].pc \in Alive
    /\ Goto(n, "done")
    /\ UNCHANGED <<producer, up, wire, browser, breaks>>

-----------------------------------------------------------------------------
(* subscribeTaskEvents, in the browser *)

\* A watcher knows the task and the log up to some event, none of which says
\* that the task is settled.
Watch ==
    /\ first = -1
    /\ \E n \in 0..Len(Events) :
          /\ status[Task] # "absent"
          /\ \A i \in 1..n : Events[i].status \notin {"completed", "failed"}
          /\ first' = n
    /\ UNCHANGED <<producer, up, handlers, wire, source, accepted, closed, breaks>>

ConnectFrom(after) ==
    /\ up
    /\ first >= 0 /\ source = 0 /\ ~closed
    /\ source' = Len(handlers) + 1
    /\ handlers' = Append(handlers, [pc |-> "subscribe", after |-> after,
                                     subscribed |-> FALSE, signal |-> FALSE])
    /\ UNCHANGED <<producer, up, wire, first, accepted, closed, breaks>>

\* (mutant) Each connection starts where the subscription did.
ConnectAgain == ConnectFrom(first)

\* The first connection and, after the delay, every other. One that finds the
\* process down fails and is tried again: nothing changes.
Connect == ConnectFrom(LastAccepted)

\* A known event is ignored, one that is not the next closes the connection,
\* the next is accepted and closes the subscription if it is a terminal one.
Receive ==
    /\ source # 0 /\ wire # <<>>
    /\ LET n == Head(wire) IN
       /\ accepted' = IF n = LastAccepted + 1 THEN Append(accepted, n) ELSE accepted
       /\ closed' = (n = LastAccepted + 1 /\ Terminal(n))
       /\ source' = IF closed' \/ n > LastAccepted + 1 THEN 0 ELSE source
       /\ wire' = IF source' = 0 THEN <<>> ELSE Tail(wire)
    /\ UNCHANGED <<producer, up, handlers, first, breaks>>

\* onerror after the end of the stream: everything written was received.
StreamEnds ==
    /\ source # 0
    /\ handlers[source].pc = "done" /\ wire = <<>>
    /\ source' = 0
    /\ UNCHANGED <<producer, up, handlers, wire, first, accepted, closed, breaks>>

\* onerror after the connection broke: what is on the wire is lost.
Break ==
    /\ source # 0
    /\ breaks < MaxBreaks
    /\ breaks' = breaks + 1
    /\ source' = 0
    /\ wire' = <<>>
    /\ UNCHANGED <<producer, up, handlers, first, accepted, closed>>

\* close(): the page leaves the task.
Leave ==
    /\ first >= 0 /\ ~closed
    /\ closed' = TRUE
    /\ source' = 0
    /\ wire' = <<>>
    /\ UNCHANGED <<producer, up, handlers, first, accepted, breaks>>

-----------------------------------------------------------------------------
(* The process dies and comes back *)

Crash ==
    /\ up
    /\ breaks < MaxBreaks
    /\ breaks' = breaks + 1
    /\ up' = FALSE
    /\ working' = (status[Task] = "absent")
    /\ unsent' = 0
    /\ handlers' = [n \in Connections |->
                       [handlers[n] EXCEPT !.pc = "done", !.subscribed = FALSE, !.signal = FALSE]]
    /\ UNCHANGED <<rows, wire, browser>>

\* Recovery appends what it reports about open calls, then fails the task;
\* there is nobody to notify.
Recover ==
    /\ ~up
    /\ Contract!Report(Task) \/ Contract!Fail(Task)
    /\ Bounded
    /\ UNCHANGED <<up, working, unsent, handlers, wire, browser, breaks>>

Restart ==
    /\ ~up
    /\ ~Contract!Active(Task)
    /\ up' = TRUE
    /\ UNCHANGED <<producer, handlers, wire, browser, breaks>>

-----------------------------------------------------------------------------
Handle(n) == Subscribe(n) \/ Replay(n) \/ Check(n) \/ Wake(n)

Next ==
    \/ Produce \/ Notify \/ ForgetNotify
    \/ \E n \in Connections : Handle(n) \/ Heartbeat(n) \/ StoreFails(n) \/ Abandon(n)
    \/ Watch \/ Connect \/ Receive \/ StreamEnds \/ Break \/ Leave
    \/ Crash \/ Recover \/ Restart

Spec == Init /\ [][Next]_vars

\* Goroutines get their turn and the browser handles what arrives and
\* reconnects. Nothing is assumed of the heartbeat, of the goroutine's progress
\* or of a supervisor.
Fairness ==
    /\ WF_vars(Notify)
    /\ \A n \in 1..(MaxBreaks + 1) : WF_vars(n \in Connections /\ Handle(n))
    /\ WF_vars(Connect) /\ WF_vars(Receive) /\ WF_vars(StreamEnds)

FairSpec == Spec /\ Fairness
-----------------------------------------------------------------------------
(* What must hold *)

\* Types of every variable; no cursor is beyond the log.
TypeOK ==
    /\ status \in [{Task} -> {"absent", "created", "planning", "running_tools", "validating",
                              "completed", "failed"}]
    /\ version \in [{Task} -> Nat]
    /\ Len(Events) \in 0..MaxLog
    /\ up \in BOOLEAN /\ working \in BOOLEAN
    /\ unsent \in 0..Len(Events)
    /\ handlers \in Seq([pc: Alive \cup {"done"}, after: 0..Len(Events),
                         subscribed: BOOLEAN, signal: BOOLEAN])
    /\ wire \in Seq(1..Len(Events))
    /\ source \in {0} \cup Connections
    /\ first \in -1..Len(Events)
    /\ accepted \in Seq(1..Len(Events))
    /\ closed \in BOOLEAN
    /\ breaks \in 0..MaxBreaks

\* A handler that waits has written the whole log, or a signal is in its
\* channel, or the producer still has a notification to send: no event sits in
\* the store until the next heartbeat.
NoLostWakeup ==
    \A n \in Connections :
        (handlers[n].pc = "wait" /\ ~handlers[n].signal) =>
            handlers[n].after = Len(Events) \/ unsent > 0

\* What the browser accepted, what is on the wire and the handler's cursor fit
\* together over every reconnection: each event after the first is sent once on
\* a connection, in order, and none is skipped.
NothingLostNorTwice ==
    /\ \A i \in 1..Len(accepted) : accepted[i] = first + i
    /\ source # 0 =>
          /\ \A i \in 1..Len(wire) : wire[i] = LastAccepted + i
          /\ handlers[source].after = LastAccepted + Len(wire)

\* Once the process stays up, the browser catches up with the log again and
\* again, whatever was lost before and without any help from the heartbeat: no
\* event waits for ever, and with the terminal event the subscription closes.
EventsArrive ==
    <>[]up => []<>(first >= 0 => LastAccepted = Len(Events) \/ closed)

\* Once the log ends in its terminal event, no handler of the task remains,
\* those of connections the browser has left included.
StreamsEnd ==
    \A n \in 1..(MaxBreaks + 1) :
        (n \in Connections /\ Events # <<>> /\ Terminal(Len(Events)))
            ~> (n \in Connections /\ handlers[n].pc = "done")
=============================================================================
