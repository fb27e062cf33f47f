------------------------- MODULE EventStreamProofs --------------------------
(***************************************************************************)
(* Theorems about EventStream, for every batch size, bound on the log and  *)
(* number of broken connections, storage errors and crashes.               *)
(***************************************************************************)
EXTENDS EventStream, SequenceTheorems, TLAPS

-----------------------------------------------------------------------------
(* The inductive invariant *)

StatusesSeen == {"absent", "created", "planning", "running_tools", "validating",
                 "completed", "failed"}

Kinds == {"task.created", "task.status_changed", "task.completed", "task.failed",
          "assistant.message.started", "assistant.message.delta", "assistant.message.completed",
          "tool.started", "tool.completed", "tool.failed", "chart.created",
          "chart.execution_completed"}
Entries == [kind: Kinds, status: StatusesSeen \cup {"none"}, call: {0}]

Handlers(n) == [pc: Alive \cup {"done"}, after: 0..n, subscribed: BOOLEAN, signal: BOOLEAN]

\* The log is one of events, and a task that exists has its first.
LogOK ==
    /\ log \in [{Task} -> Seq(Entries)]
    /\ status[Task] # "absent" => Events # <<>>

\* A handler past its subscription has a channel; one that has seen the end of
\* the log has written something, and will hear of what came since; none is
\* left of a process that is gone.
HandlerOK(n) ==
    LET h == handlers[n] IN
    /\ h.pc \in {"replay", "check", "wait"} => h.subscribed
    /\ h.pc \in {"check", "wait"} =>
          h.after >= 1 /\ (h.signal \/ h.after = Len(Events) \/ unsent > 0)
    /\ ~up => h.pc = "done"

HandlersOK == \A n \in Connections : HandlerOK(n)

\* Nothing is connected before the watch, and a task that is watched exists.
\* Nothing is on a wire that is not connected.
BrowserOK ==
    /\ first = -1 => handlers = <<>> /\ accepted = <<>> /\ source = 0
    /\ first # -1 => Events # <<>>
    /\ source = 0 => wire = <<>>

StreamInv == TypeOK /\ LogOK /\ HandlersOK /\ BrowserOK /\ NothingLostNorTwice
-----------------------------------------------------------------------------
(* The rows *)

\* What an append does to a sequence of events.
LEMMA Appended ==
    ASSUME NEW s \in Seq(Entries), NEW e \in Entries
    PROVE  /\ Append(s, e) \in Seq(Entries)
           /\ Len(Append(s, e)) = Len(s) + 1
           /\ \A i \in 1..Len(s) : Append(s, e)[i] = s[i]
BY AppendProperties

\* What a concatenation does to it.
LEMMA Concatenated ==
    ASSUME NEW s \in Seq(Entries), NEW es \in Seq(Entries)
    PROVE  /\ s \o es \in Seq(Entries)
           /\ Len(s \o es) = Len(s) + Len(es)
           /\ \A i \in 1..Len(s) : (s \o es)[i] = s[i]
<1>1. Len(s) \in Nat /\ Len(es) \in Nat
    OBVIOUS
<1> QED
    BY <1>1, ConcatProperties

\* A status is written with one event or two.
LEMMA CommitGrows ==
    ASSUME TypeOK, LogOK, NEW to \in StatusesSeen \ {"absent"}, NEW es \in Seq(Entries),
           Len(es) >= 1, Contract!Commit(Task, to, es)
    PROVE  /\ status' \in [{Task} -> StatusesSeen] /\ version' \in [{Task} -> Nat]
           /\ log' \in [{Task} -> Seq(Entries)] /\ status'[Task] # "absent"
           /\ Len(Events') >= Len(Events) + 1
           /\ \A i \in 1..Len(Events) : Events'[i] = Events[i]
<1>1. /\ Events \in Seq(Entries) /\ Len(Events) \in Nat /\ Len(es) \in Nat
      /\ status \in [{Task} -> StatusesSeen] /\ version \in [{Task} -> Nat]
    BY DEF LogOK, TypeOK, StatusesSeen, Events
<1>2. /\ Events \o es \in Seq(Entries)
      /\ Len(Events \o es) = Len(Events) + Len(es)
      /\ \A i \in 1..Len(Events) : (Events \o es)[i] = Events[i]
    BY <1>1, Concatenated
<1>3. Events' = Events \o es
    BY DEF Contract!Commit, LogOK, Events
<1>4. status' \in [{Task} -> StatusesSeen] /\ status'[Task] = to
    BY <1>1 DEF Contract!Commit
<1>5. version' \in [{Task} -> Nat]
    BY <1>1 DEF Contract!Commit
<1>6. log' \in [{Task} -> Seq(Entries)]
    BY <1>2 DEF Contract!Commit, LogOK
<1> QED
    BY <1>1, <1>2, <1>3, <1>4, <1>5, <1>6

\* An event is appended and the row stays.
LEMMA ReportGrows ==
    ASSUME TypeOK, LogOK, NEW e \in Entries, status[Task] # "absent",
           log' = [log EXCEPT ![Task] = Append(@, e)], UNCHANGED <<status, version>>
    PROVE  /\ status' \in [{Task} -> StatusesSeen] /\ version' \in [{Task} -> Nat]
           /\ log' \in [{Task} -> Seq(Entries)] /\ status'[Task] # "absent"
           /\ Len(Events') >= Len(Events) + 1
           /\ \A i \in 1..Len(Events) : Events'[i] = Events[i]
<1>1. Events \in Seq(Entries) /\ Len(Events) \in Nat
    BY DEF LogOK, TypeOK, Events
<1>2. /\ Append(Events, e) \in Seq(Entries)
      /\ Len(Append(Events, e)) = Len(Events) + 1
      /\ \A i \in 1..Len(Events) : Append(Events, e)[i] = Events[i]
    BY <1>1, Appended
<1>3. Events' = Append(Events, e)
    BY DEF LogOK, Events
<1>4. log' \in [{Task} -> Seq(Entries)]
    BY <1>2 DEF LogOK
<1> QED
    BY <1>1, <1>2, <1>3, <1>4 DEF TypeOK, StatusesSeen

\* Whatever happens to the rows appends at least one event to the log, and
\* leaves those that are in it.
LEMMA RowsGrow ==
    ASSUME TypeOK, LogOK, Contract!Next
    PROVE  /\ status' \in [{Task} -> StatusesSeen] /\ version' \in [{Task} -> Nat]
           /\ log' \in [{Task} -> Seq(Entries)] /\ status'[Task] # "absent"
           /\ Len(Events') >= Len(Events) + 1
           /\ \A i \in 1..Len(Events) : Events'[i] = Events[i]
<1>1. CASE Contract!Accept(Task)
    <2> DEFINE es == <<Contract!Event("task.created", "created", 0)>>
    <2>1. es \in Seq(Entries) /\ Len(es) >= 1 /\ "created" \in StatusesSeen \ {"absent"}
        BY DEF Contract!Event, Entries, Kinds, StatusesSeen
    <2>2. Contract!Commit(Task, "created", es)
        BY <1>1 DEF Contract!Accept
    <2> HIDE DEF es
    <2> QED
        BY <2>1, <2>2, CommitGrows
<1>2. CASE Contract!Advance(Task)
    <2> DEFINE es(to) == <<Contract!Event("task.status_changed", to, 0)>>
    <2>1. PICK to \in StatusesSeen \ {"absent"} : to = Contract!NextStatus[status[Task]]
        BY <1>2 DEF Contract!Advance, Contract!Active, Contract!NextStatus, StatusesSeen
    <2>2. es(to) \in Seq(Entries) /\ Len(es(to)) >= 1
        BY DEF Contract!Event, Entries, Kinds
    <2>3. Contract!Commit(Task, to, es(to))
        BY <1>2, <2>1 DEF Contract!Advance, Contract!Commit
    <2> HIDE DEF es
    <2> QED
        BY <2>1, <2>2, <2>3, CommitGrows
<1>3. CASE Contract!Report(Task)
    <2>1. PICK kind \in Contract!Progress[status[Task]] :
             log' = [log EXCEPT ![Task] = Append(@, Contract!Event(kind, "none", 0))]
        BY <1>3 DEF Contract!Report
    <2>2. kind \in Kinds /\ status[Task] # "absent"
        BY <1>3 DEF Contract!Report, Contract!Progress, Kinds
    <2>3. Contract!Event(kind, "none", 0) \in Entries
        BY <2>2 DEF Contract!Event, Entries
    <2> QED
        BY <1>3, <2>1, <2>2, <2>3, ReportGrows DEF Contract!Report
<1>4. CASE Contract!Fail(Task)
    <2> DEFINE es == <<Contract!Event("task.status_changed", "failed", 0),
                       Contract!Event("task.failed", "none", 0)>>
    <2>1. es \in Seq(Entries) /\ Len(es) >= 1 /\ "failed" \in StatusesSeen \ {"absent"}
        BY DEF Contract!Event, Entries, Kinds, StatusesSeen
    <2>2. Contract!Commit(Task, "failed", es)
        BY <1>4 DEF Contract!Fail
    <2> HIDE DEF es
    <2> QED
        BY <2>1, <2>2, CommitGrows
<1>5. CASE Contract!Announce(Task)
    <2>1. Contract!Event("task.completed", "none", 0) \in Entries
        BY DEF Contract!Event, Entries, Kinds
    <2> QED
        BY <1>5, <2>1, ReportGrows DEF Contract!Announce
<1> QED
    BY <1>1, <1>2, <1>3, <1>4, <1>5 DEF Contract!Next
-----------------------------------------------------------------------------
(* The handlers *)

\* A function on the first n positions is a sequence.
LEMMA FunctionIsSeq ==
    ASSUME NEW S, NEW n \in Nat, NEW f \in [1..n -> S]
    PROVE  f \in Seq(S) /\ Len(f) = n
OBVIOUS

\* What the types say of the numbers and of one handler.
LEMMA Facts ==
    ASSUME TypeOK
    PROVE  /\ Len(Events) \in Nat /\ Len(Events) <= MaxLog /\ Len(handlers) \in Nat
           /\ MaxLog \in Nat /\ MaxBreaks \in Nat /\ Batch \in Nat \ {0}
           /\ handlers \in Seq(Handlers(Len(Events)))
           /\ \A n \in Connections : handlers[n] \in Handlers(Len(Events))
           /\ wire \in Seq(1..Len(Events)) /\ Len(wire) \in Nat
           /\ accepted \in Seq(1..Len(Events)) /\ Len(accepted) \in Nat
           /\ first \in Int /\ first >= -1 /\ LastAccepted \in Int
<1>1. handlers \in Seq(Handlers(Len(Events))) /\ Len(Events) \in 0..MaxLog /\ MaxLog \in Nat
    BY StreamAssumption DEF TypeOK, Handlers
<1>2. Len(handlers) \in Nat /\ \A n \in Connections : handlers[n] \in Handlers(Len(Events))
    BY <1>1, LenProperties DEF Connections
<1>3. wire \in Seq(1..Len(Events)) /\ accepted \in Seq(1..Len(Events)) /\ first \in -1..Len(Events)
    BY DEF TypeOK
<1>4. Len(wire) \in Nat /\ Len(accepted) \in Nat
    BY <1>3
<1> QED
    BY <1>1, <1>2, <1>3, <1>4, StreamAssumption DEF LastAccepted

\* What fits a log fits a longer one.
LEMMA Wider ==
    ASSUME NEW m \in Nat, NEW n \in Nat, m <= n
    PROVE  /\ \A s \in Seq(1..m) : s \in Seq(1..n)
           /\ \A s \in Seq(Handlers(m)) : s \in Seq(Handlers(n))
<1>1. 1..m \subseteq 1..n
    OBVIOUS
<1>2. Handlers(m) \subseteq Handlers(n)
    BY DEF Handlers
<1>3. ASSUME NEW S, NEW T, S \subseteq T, NEW s \in Seq(S)
      PROVE  s \in Seq(T)
    <2>1. Len(s) \in Nat /\ s \in [1..Len(s) -> S]
        BY LenProperties
    <2>2. s \in [1..Len(s) -> T]
        BY <1>3, <2>1
    <2> QED
        BY <2>1, <2>2
<1> QED
    BY <1>1, <1>2, <1>3

\* A handler takes a step, the others stay.
LEMMA BecomeType ==
    ASSUME TypeOK, NEW n \in Connections, NEW h \in Handlers(Len(Events)), Become(n, h)
    PROVE  /\ handlers' \in Seq(Handlers(Len(Events)))
           /\ Len(handlers') = Len(handlers)
           /\ handlers'[n] = h
           /\ \A m \in Connections \ {n} : handlers'[m] = handlers[m]
<1>1. handlers \in Seq(Handlers(Len(Events))) /\ Len(handlers) \in Nat /\ n \in 1..Len(handlers)
    BY Facts DEF Connections
<1>2. handlers' = [handlers EXCEPT ![n] = h]
    BY DEF Become
<1> QED
    BY <1>1, <1>2, ExceptSeq DEF Connections

\* A step of the n-th handler keeps the invariant, if what it writes fits what
\* the browser has, and what it leaves behind fits the log.
LEMMA HandlerStep ==
    ASSUME StreamInv, NEW n \in Connections, NEW h \in Handlers(Len(Events)), Become(n, h),
           UNCHANGED <<producer, up, browser>>, wire' \in Seq(1..Len(Events)),
           breaks' \in 0..MaxBreaks,
           h.pc \in {"replay", "check", "wait"} => h.subscribed,
           h.pc \in {"check", "wait"} =>
              h.after >= 1 /\ (h.signal \/ h.after = Len(Events) \/ unsent > 0),
           ~up => h.pc = "done",
           n # source => wire' = wire,
           n = source => /\ \A i \in 1..Len(wire') : wire'[i] = LastAccepted + i
                         /\ h.after = LastAccepted + Len(wire')
    PROVE  StreamInv'
<1> USE DEF StreamInv, producer, browser
<1>1. /\ handlers' \in Seq(Handlers(Len(Events)))
      /\ Len(handlers') = Len(handlers)
      /\ handlers'[n] = h
      /\ \A m \in Connections \ {n} : handlers'[m] = handlers[m]
    BY BecomeType
<1>2. /\ Events' = Events /\ Connections' = Connections /\ LastAccepted' = LastAccepted
      /\ 0 \notin Connections
    BY <1>1 DEF Events, Connections, LastAccepted
<1>3. TypeOK'
    BY <1>1, <1>2 DEF TypeOK, Handlers
<1>4. LogOK'
    BY <1>2 DEF LogOK
<1>5. HandlersOK'
    BY <1>1, <1>2 DEF HandlersOK, HandlerOK
<1>6. BrowserOK'
    <2>1. first # -1
        BY DEF BrowserOK, Connections
    <2> QED
        BY <1>2, <2>1 DEF BrowserOK
<1>7. NothingLostNorTwice'
    <2>1. \A i \in 1..Len(accepted') : accepted'[i] = first' + i
        BY DEF NothingLostNorTwice
    <2>2. CASE source = n
        BY <1>1, <1>2, <2>1, <2>2 DEF NothingLostNorTwice
    <2>3. CASE source # n /\ source # 0
        <3>1. source \in Connections \ {n}
            BY <2>3 DEF TypeOK
        <3> QED
            BY <1>1, <1>2, <2>1, <2>3, <3>1 DEF NothingLostNorTwice
    <2>4. CASE source = 0
        BY <2>1, <2>4 DEF NothingLostNorTwice
    <2> QED
        BY <2>2, <2>3, <2>4
<1> QED
    BY <1>3, <1>4, <1>5, <1>6, <1>7

\* A step of a handler that writes nothing.
LEMMA QuietStep ==
    ASSUME StreamInv, NEW n \in Connections, NEW pc \in Alive \cup {"done"}, NEW sub \in BOOLEAN,
           NEW sig \in BOOLEAN,
           Become(n, [handlers[n] EXCEPT !.pc = pc, !.subscribed = sub, !.signal = sig]),
           UNCHANGED <<producer, up, browser, wire>>, breaks' \in 0..MaxBreaks,
           pc \in {"replay", "check", "wait"} => sub,
           pc \in {"check", "wait"} =>
              handlers[n].after >= 1
                /\ (sig \/ handlers[n].after = Len(Events) \/ unsent > 0),
           ~up => pc = "done"
    PROVE  StreamInv'
<1> DEFINE h == [handlers[n] EXCEPT !.pc = pc, !.subscribed = sub, !.signal = sig]
<1>1. handlers[n] \in Handlers(Len(Events)) /\ wire \in Seq(1..Len(Events))
    BY Facts DEF StreamInv
<1>2. /\ h \in Handlers(Len(Events))
      /\ h.pc = pc /\ h.subscribed = sub /\ h.signal = sig /\ h.after = handlers[n].after
    BY <1>1 DEF Handlers
<1>3. n # 0
    BY Facts DEF StreamInv, Connections
<1>4. n = source => /\ \A i \in 1..Len(wire) : wire[i] = LastAccepted + i
                    /\ h.after = LastAccepted + Len(wire)
    BY <1>2, <1>3 DEF StreamInv, NothingLostNorTwice
<1> HIDE DEF h
<1>5. Become(n, h) /\ wire' = wire
    BY DEF h
<1> QED
    BY <1>1, <1>2, <1>4, <1>5, HandlerStep

\* The record that a handler is.
LEMMA HandlerFields ==
    ASSUME StreamInv, NEW n \in Connections
    PROVE  /\ handlers[n] \in Handlers(Len(Events))
           /\ handlers[n].pc \in Alive \cup {"done"}
           /\ handlers[n].subscribed \in BOOLEAN /\ handlers[n].signal \in BOOLEAN
           /\ handlers[n].after \in Nat /\ handlers[n].after <= Len(Events)
           /\ HandlerOK(n)
           /\ \A pc : [handlers[n] EXCEPT !.pc = pc] =
                      [handlers[n] EXCEPT !.pc = pc, !.subscribed = handlers[n].subscribed,
                                          !.signal = handlers[n].signal]
<1>1. handlers[n] \in Handlers(Len(Events)) /\ Len(Events) \in Nat
    BY Facts DEF StreamInv
<1>2. HandlerOK(n)
    BY DEF StreamInv, HandlersOK
<1>3. \A pc : [handlers[n] EXCEPT !.pc = pc] =
              [handlers[n] EXCEPT !.pc = pc, !.subscribed = handlers[n].subscribed,
                                  !.signal = handlers[n].signal]
    <2> DEFINE r == handlers[n]
    <2>1. r = [pc |-> r.pc, after |-> r.after, subscribed |-> r.subscribed, signal |-> r.signal]
        BY <1>1 DEF Handlers
    <2> HIDE DEF r
    <2>2. \A pc : [r EXCEPT !.pc = pc] =
                  [r EXCEPT !.pc = pc, !.subscribed = r.subscribed, !.signal = r.signal]
        BY <2>1
    <2> QED
        BY <2>2 DEF r
<1>4. /\ handlers[n].pc \in Alive \cup {"done"}
      /\ handlers[n].subscribed \in BOOLEAN /\ handlers[n].signal \in BOOLEAN
      /\ handlers[n].after \in Nat /\ handlers[n].after <= Len(Events)
    BY <1>1 DEF Handlers
<1> QED
    BY <1>1, <1>2, <1>3, <1>4

\* A handler gets its channel.
LEMMA SubscribeStep ==
    ASSUME StreamInv, NEW n \in Connections, Subscribe(n)
    PROVE  StreamInv'
<1>1. /\ handlers[n] \in Handlers(Len(Events)) /\ HandlerOK(n) /\ handlers[n].signal \in BOOLEAN
      /\ breaks' \in 0..MaxBreaks
    BY HandlerFields DEF Subscribe, StreamInv, TypeOK
<1>2. [handlers[n] EXCEPT !.pc = "replay", !.subscribed = TRUE] =
      [handlers[n] EXCEPT !.pc = "replay", !.subscribed = TRUE, !.signal = handlers[n].signal]
    BY <1>1 DEF Handlers
<1>3. Become(n, [handlers[n] EXCEPT !.pc = "replay", !.subscribed = TRUE,
                                    !.signal = handlers[n].signal])
    BY <1>2 DEF Subscribe, Become
<1> QED
    BY <1>1, <1>3, QuietStep DEF Subscribe, HandlerOK, Alive

\* A handler looks at the row: what it goes by is the log it has written.
LEMMA CheckStep ==
    ASSUME StreamInv, NEW n \in Connections, Check(n)
    PROVE  StreamInv'
<1>1. /\ handlers[n] \in Handlers(Len(Events)) /\ HandlerOK(n)
      /\ handlers[n].subscribed \in BOOLEAN /\ handlers[n].signal \in BOOLEAN
      /\ breaks' \in 0..MaxBreaks
    BY HandlerFields DEF Check, StreamInv, TypeOK
<1>2. PICK pc \in {"done", "wait"} : Goto(n, pc)
    BY DEF Check
<1>3. Become(n, [handlers[n] EXCEPT !.pc = pc, !.subscribed = handlers[n].subscribed,
                                    !.signal = handlers[n].signal])
    BY <1>2, HandlerFields DEF Goto, Become
<1> QED
    BY <1>1, <1>2, <1>3, QuietStep DEF Check, HandlerOK, Alive

\* A handler wakes up, by its channel or its heartbeat.
LEMMA WakeStep ==
    ASSUME StreamInv, NEW n \in Connections, Wake(n) \/ Heartbeat(n)
    PROVE  StreamInv'
<1>1. /\ handlers[n] \in Handlers(Len(Events)) /\ HandlerOK(n)
      /\ handlers[n].subscribed \in BOOLEAN /\ handlers[n].signal \in BOOLEAN
      /\ breaks' \in 0..MaxBreaks
    BY HandlerFields DEF Wake, Heartbeat, StreamInv, TypeOK
<1>2. CASE Wake(n)
    <2>1. [handlers[n] EXCEPT !.pc = "replay", !.signal = FALSE] =
          [handlers[n] EXCEPT !.pc = "replay", !.subscribed = handlers[n].subscribed, !.signal = FALSE]
        BY <1>1 DEF Handlers
    <2>2. Become(n, [handlers[n] EXCEPT !.pc = "replay", !.subscribed = handlers[n].subscribed,
                                        !.signal = FALSE])
        BY <1>2, <2>1 DEF Wake, Become
    <2> QED
        BY <1>1, <1>2, <2>2, QuietStep DEF Wake, HandlerOK, Alive
<1>3. CASE Heartbeat(n)
    <2>1. Become(n, [handlers[n] EXCEPT !.pc = "replay", !.subscribed = handlers[n].subscribed,
                                        !.signal = handlers[n].signal])
        BY <1>3, HandlerFields DEF Heartbeat, Goto, Become
    <2> QED
        BY <1>1, <1>3, <2>1, QuietStep DEF Heartbeat, HandlerOK, Alive
<1> QED
    BY <1>2, <1>3

\* A handler ends: the store failed it, or its connection is gone.
LEMMA DoneStep ==
    ASSUME StreamInv, NEW n \in Connections, StoreFails(n) \/ Abandon(n)
    PROVE  StreamInv'
<1>1. handlers[n].subscribed \in BOOLEAN /\ handlers[n].signal \in BOOLEAN
    BY HandlerFields
<1>2. breaks' \in 0..MaxBreaks /\ UNCHANGED <<producer, up, browser, wire>> /\ Goto(n, "done")
    BY Facts, SMTT(30) DEF StoreFails, Abandon, StreamInv, TypeOK
<1>3. Become(n, [handlers[n] EXCEPT !.pc = "done", !.subscribed = handlers[n].subscribed,
                                    !.signal = handlers[n].signal])
    BY <1>2, HandlerFields DEF Goto, Become
<1> QED
    BY <1>1, <1>2, <1>3, QuietStep

\* A batch is written, in order and where the last one ended; or there is
\* nothing left, and something was written before.
LEMMA ReplayStep ==
    ASSUME StreamInv, NEW n \in Connections, Replay(n)
    PROVE  StreamInv'
<1> DEFINE after == handlers[n].after
           last == Least(after + Batch, Len(Events))
<1>1. /\ handlers[n] \in Handlers(Len(Events)) /\ HandlerOK(n) /\ handlers[n].pc = "replay"
      /\ handlers[n].subscribed \in BOOLEAN /\ handlers[n].signal \in BOOLEAN
      /\ after \in Nat /\ after <= Len(Events) /\ Len(Events) \in Nat /\ Batch \in Nat \ {0}
      /\ breaks' \in 0..MaxBreaks /\ UNCHANGED <<producer, up, browser>>
    BY HandlerFields, Facts DEF Replay, ReplayTo, StreamInv, TypeOK
<1>2. Events # <<>> /\ Len(Events) >= 1
    <2>1. first # -1
        BY Facts DEF StreamInv, BrowserOK, Connections
    <2>2. Events # <<>> /\ Events \in Seq(Entries)
        BY <2>1 DEF StreamInv, BrowserOK, LogOK, Events
    <2> QED
        BY <1>1, <2>2
<1>3. CASE last > after
    <2> DEFINE h == [handlers[n] EXCEPT !.after = last]
               batch == [i \in 1..(last - after) |-> after + i]
    <2>1. /\ Become(n, h)
          /\ wire' = IF n = source THEN wire \o batch ELSE wire
        BY <1>3 DEF Replay, ReplayTo
    <2>2. last \in 0..Len(Events)
        BY <1>1 DEF Least
    <2>3. /\ h \in Handlers(Len(Events)) /\ h.pc = "replay" /\ h.after = last
          /\ h.subscribed = handlers[n].subscribed
        BY <1>1, <2>2 DEF Handlers
    <2>4. handlers[n].subscribed /\ up
        BY <1>1 DEF HandlerOK
    <2>5. batch \in Seq(1..Len(Events)) /\ Len(batch) = last - after
          /\ \A i \in 1..(last - after) : batch[i] = after + i
        <3>1. last - after \in Nat
            BY <1>1, <1>3, <2>2
        <3>2. batch \in [1..(last - after) -> 1..Len(Events)]
            BY <1>1, <1>3, <2>2
        <3> QED
            BY <3>1, <3>2
    <2>6. wire \in Seq(1..Len(Events)) /\ Len(wire) \in Nat /\ LastAccepted \in Int /\ n # 0
        BY Facts DEF StreamInv, Connections
    <2> HIDE DEF h, batch, last, after
    <2>7. /\ wire \o batch \in Seq(1..Len(Events))
          /\ Len(wire \o batch) = Len(wire) + (last - after)
          /\ \A i \in 1..Len(wire) : (wire \o batch)[i] = wire[i]
          /\ \A i \in (Len(wire) + 1)..(Len(wire) + (last - after)) :
                (wire \o batch)[i] = after + (i - Len(wire))
        <3>1. last - after \in Nat
            BY <1>1, <1>3, <2>2
        <3>2. /\ wire \o batch \in Seq(1..Len(Events))
              /\ Len(wire \o batch) = Len(wire) + Len(batch)
              /\ \A i \in 1..(Len(wire) + Len(batch)) : (wire \o batch)[i] =
                    IF i <= Len(wire) THEN wire[i] ELSE batch[i - Len(wire)]
            BY <2>5, <2>6, ConcatProperties
        <3> QED
            BY <2>5, <2>6, <3>1, <3>2
    <2>8. n = source => /\ \A i \in 1..Len(wire') : wire'[i] = LastAccepted + i
                        /\ h.after = LastAccepted + Len(wire')
        <3>1. SUFFICES ASSUME n = source
                       PROVE  /\ \A i \in 1..Len(wire') : wire'[i] = LastAccepted + i
                              /\ h.after = LastAccepted + Len(wire')
            OBVIOUS
        <3>2. /\ \A i \in 1..Len(wire) : wire[i] = LastAccepted + i
              /\ after = LastAccepted + Len(wire)
            BY <2>6, <3>1 DEF StreamInv, NothingLostNorTwice, after
        <3>3. wire' = wire \o batch
            BY <2>1, <3>1
        <3> QED
            BY <1>1, <2>2, <2>3, <2>6, <2>7, <3>2, <3>3
    <2>9. wire' \in Seq(1..Len(Events)) /\ (n # source => wire' = wire)
        BY <2>1, <2>6, <2>7
    <2> QED
        BY <1>1, <2>1, <2>3, <2>4, <2>8, <2>9, HandlerStep
<1>4. CASE ~(last > after)
    <2>1. after = Len(Events)
        BY <1>1, <1>4 DEF Least
    <2>2. Goto(n, "check") /\ UNCHANGED wire
        BY <1>4 DEF Replay, ReplayTo
    <2>3. Become(n, [handlers[n] EXCEPT !.pc = "check", !.subscribed = handlers[n].subscribed,
                                        !.signal = handlers[n].signal])
        BY <2>2, HandlerFields DEF Goto, Become
    <2> QED
        BY <1>1, <1>2, <2>1, <2>2, <2>3, QuietStep DEF HandlerOK, Alive
<1> QED
    BY <1>3, <1>4
-----------------------------------------------------------------------------
(* The producer *)

\* What holds of the log, holds of it when it is longer.
LEMMA GrowStep ==
    ASSUME StreamInv, Contract!Next, Bounded
    PROVE  /\ Len(Events') >= Len(Events) + 1 /\ Len(Events') \in 0..MaxLog
           /\ status' \in [{Task} -> StatusesSeen] /\ version' \in [{Task} -> Nat]
           /\ log' \in [{Task} -> Seq(Entries)] /\ Events' # <<>>
           /\ handlers \in Seq(Handlers(Len(Events')))
           /\ wire \in Seq(1..Len(Events')) /\ accepted \in Seq(1..Len(Events'))
           /\ first \in -1..Len(Events')
<1>1. /\ status' \in [{Task} -> StatusesSeen] /\ version' \in [{Task} -> Nat]
      /\ log' \in [{Task} -> Seq(Entries)]
      /\ Len(Events') >= Len(Events) + 1
    BY RowsGrow DEF StreamInv
<1>2. Events' \in Seq(Entries) /\ Len(Events') \in Nat /\ Len(Events) \in Nat
    BY <1>1, Facts DEF Events, StreamInv
<1>3. Len(Events') <= MaxLog /\ MaxLog \in Nat
    BY Facts DEF Bounded, Events, StreamInv
<1>4. /\ handlers \in Seq(Handlers(Len(Events')))
      /\ wire \in Seq(1..Len(Events')) /\ accepted \in Seq(1..Len(Events'))
    <2>1. Len(Events) <= Len(Events')
        BY <1>1, <1>2
    <2> QED
        BY <1>2, <2>1, Wider, Facts DEF StreamInv
<1>5. first \in -1..Len(Events')
    BY <1>1, <1>2 DEF StreamInv, TypeOK
<1>6. Events' # <<>>
    BY <1>1, <1>2
<1> QED
    BY <1>1, <1>2, <1>3, <1>4, <1>5, <1>6

\* An event is stored: whoever waits for it will be notified.
LEMMA ProduceStep ==
    ASSUME StreamInv, Produce
    PROVE  StreamInv'
<1> USE DEF StreamInv, Produce, browser
<1>1. /\ Len(Events') >= Len(Events) + 1 /\ Len(Events') \in 0..MaxLog
      /\ status' \in [{Task} -> StatusesSeen] /\ version' \in [{Task} -> Nat]
      /\ log' \in [{Task} -> Seq(Entries)] /\ Events' # <<>>
      /\ handlers \in Seq(Handlers(Len(Events')))
      /\ wire \in Seq(1..Len(Events')) /\ accepted \in Seq(1..Len(Events'))
      /\ first \in -1..Len(Events')
    BY GrowStep
<1>2. unsent' \in 0..Len(Events') /\ unsent' > 0
    <2>1. unsent' = Len(Events') - Len(Events) /\ Len(Events) \in Nat
        BY Facts DEF Events
    <2> QED
        BY <1>1, <2>1
<1>3. Connections' = Connections /\ LastAccepted' = LastAccepted
    BY DEF Connections, LastAccepted
<1>4. TypeOK'
    BY <1>1, <1>2, <1>3 DEF TypeOK, Handlers, StatusesSeen
<1>5. LogOK'
    BY <1>1 DEF LogOK
<1>6. HandlersOK'
    BY <1>2, <1>3 DEF HandlersOK, HandlerOK
<1>7. BrowserOK'
    BY <1>1 DEF BrowserOK
<1>8. NothingLostNorTwice'
    BY <1>3 DEF NothingLostNorTwice
<1> QED
    BY <1>4, <1>5, <1>6, <1>7, <1>8

\* A recovery appends while no handler is left.
LEMMA RecoverStep ==
    ASSUME StreamInv, Recover
    PROVE  StreamInv'
<1> USE DEF StreamInv, Recover, browser
<1>1. /\ Len(Events') >= Len(Events) + 1 /\ Len(Events') \in 0..MaxLog
      /\ status' \in [{Task} -> StatusesSeen] /\ version' \in [{Task} -> Nat]
      /\ log' \in [{Task} -> Seq(Entries)] /\ Events' # <<>>
      /\ handlers \in Seq(Handlers(Len(Events')))
      /\ wire \in Seq(1..Len(Events')) /\ accepted \in Seq(1..Len(Events'))
      /\ first \in -1..Len(Events')
    <2>1. Contract!Next
        BY DEF Contract!Next
    <2> QED
        BY <2>1, GrowStep
<1>2. unsent' \in 0..Len(Events')
    <2>1. unsent \in 0..Len(Events) /\ Len(Events) \in Nat
        BY Facts DEF TypeOK
    <2> QED
        BY <1>1, <2>1
<1>3. Connections' = Connections /\ LastAccepted' = LastAccepted
    BY DEF Connections, LastAccepted
<1>4. TypeOK'
    BY <1>1, <1>2, <1>3 DEF TypeOK, Handlers, StatusesSeen
<1>5. LogOK'
    BY <1>1 DEF LogOK
<1>6. HandlersOK'
    <2>1. \A n \in Connections : handlers[n].pc = "done"
        BY DEF HandlersOK, HandlerOK
    <2> QED
        BY <1>3, <2>1 DEF HandlersOK, HandlerOK
<1>7. BrowserOK'
    BY <1>1 DEF BrowserOK
<1>8. NothingLostNorTwice'
    BY <1>3 DEF NothingLostNorTwice
<1> QED
    BY <1>4, <1>5, <1>6, <1>7, <1>8

\* A step of all handlers at once, to which only channels and ends matter.
LEMMA AllStep ==
    ASSUME StreamInv, UNCHANGED <<rows, wire, browser>>,
           handlers' \in Seq(Handlers(Len(Events))), Len(handlers') = Len(handlers),
           \A n \in Connections : handlers'[n].after = handlers[n].after /\ HandlerOK(n)',
           up' \in BOOLEAN, working' \in BOOLEAN, unsent' \in 0..Len(Events), breaks' \in 0..MaxBreaks
    PROVE  StreamInv'
<1> USE DEF StreamInv, rows, browser
<1>1. Events' = Events /\ Connections' = Connections /\ LastAccepted' = LastAccepted
    BY DEF Events, Connections, LastAccepted
<1>2. TypeOK'
    BY <1>1 DEF TypeOK, Handlers
<1>3. LogOK'
    BY <1>1 DEF LogOK
<1>4. HandlersOK'
    BY <1>1 DEF HandlersOK
<1>5. BrowserOK'
    <2>1. handlers = <<>> => handlers' = <<>>
        BY Facts
    <2> QED
        BY <1>1, <2>1 DEF BrowserOK
<1>6. NothingLostNorTwice'
    BY <1>1 DEF NothingLostNorTwice, TypeOK
<1> QED
    BY <1>2, <1>3, <1>4, <1>5, <1>6

\* Every channel gets its signal before the last notification is out.
LEMMA NotifyStep ==
    ASSUME StreamInv, Notify
    PROVE  StreamInv'
<1> USE DEF StreamInv, Notify
<1>1. /\ Len(handlers) \in Nat /\ Len(Events) \in Nat
      /\ \A n \in Connections : handlers[n] \in Handlers(Len(Events)) /\ HandlerOK(n)
    BY Facts DEF HandlersOK
<1>2. \A n \in Connections :
         /\ handlers'[n] = [handlers[n] EXCEPT !.signal = @ \/ handlers[n].subscribed]
         /\ handlers'[n] \in Handlers(Len(Events))
         /\ handlers'[n].pc = handlers[n].pc /\ handlers'[n].after = handlers[n].after
         /\ handlers'[n].subscribed = handlers[n].subscribed
         /\ handlers'[n].subscribed => handlers'[n].signal
    BY <1>1 DEF Handlers
<1>3. handlers' \in Seq(Handlers(Len(Events))) /\ Len(handlers') = Len(handlers)
    <2>1. handlers' \in [1..Len(handlers) -> Handlers(Len(Events))]
        BY <1>2 DEF Connections
    <2> QED
        BY <1>1, <2>1
<1>4. up' = up /\ Len(Events') = Len(Events)
    BY DEF Events, rows
<1>5. \A n \in Connections : HandlerOK(n)'
    BY <1>1, <1>2, <1>4 DEF HandlerOK
<1>6. unsent' \in 0..Len(Events)
    <2>1. unsent \in 0..Len(Events) /\ unsent > 0 /\ unsent' = unsent - 1
        BY DEF TypeOK
    <2> QED
        BY <1>1, <2>1
<1>7. /\ UNCHANGED <<rows, wire, browser>>
      /\ up' \in BOOLEAN /\ working' \in BOOLEAN /\ breaks' \in 0..MaxBreaks
    BY DEF TypeOK
<1> QED
    BY <1>2, <1>3, <1>5, <1>6, <1>7, AllStep

\* What is not notified is the first event, which no handler has passed.
LEMMA ForgetStep ==
    ASSUME StreamInv, ForgetNotify
    PROVE  StreamInv'
<1> USE DEF StreamInv, ForgetNotify
<1>1. \A n \in Connections : HandlerOK(n)'
    <2>1. \A n \in Connections : HandlerOK(n) /\ handlers[n].after \in Nat
                                   /\ handlers[n].after <= Len(Events)
        BY HandlerFields
    <2>2. Len(Events') = 1 /\ unsent' = 0 /\ up' = up /\ Len(Events) = 1
        BY DEF Events, rows
    <2> QED
        BY <2>1, <2>2 DEF HandlerOK
<1>2. unsent' \in 0..Len(Events) /\ handlers \in Seq(Handlers(Len(Events)))
    BY Facts
<1>3. /\ UNCHANGED <<rows, wire, browser, handlers>>
      /\ up' \in BOOLEAN /\ working' \in BOOLEAN /\ breaks' \in 0..MaxBreaks
    BY DEF TypeOK
<1> QED
    BY <1>1, <1>2, <1>3, AllStep

\* No handler survives the process.
LEMMA CrashStep ==
    ASSUME StreamInv, Crash
    PROVE  StreamInv'
<1> USE DEF StreamInv, Crash
<1>1. /\ Len(handlers) \in Nat /\ Len(Events) \in Nat /\ MaxBreaks \in Nat
      /\ \A n \in Connections : handlers[n] \in Handlers(Len(Events))
    BY Facts
<1>2. \A n \in Connections :
         /\ handlers'[n] \in Handlers(Len(Events))
         /\ handlers'[n].pc = "done" /\ handlers'[n].after = handlers[n].after
    BY <1>1 DEF Handlers
<1>3. handlers' \in Seq(Handlers(Len(Events))) /\ Len(handlers') = Len(handlers)
    <2>1. handlers' \in [1..Len(handlers) -> Handlers(Len(Events))]
        BY <1>2 DEF Connections
    <2> QED
        BY <1>1, <2>1, FunctionIsSeq
<1>4. \A n \in Connections : HandlerOK(n)'
    BY <1>2 DEF HandlerOK
<1>5. UNCHANGED <<rows, wire, browser>> /\ up' \in BOOLEAN /\ working' \in BOOLEAN
    BY Zenon
<1>6. breaks' \in 0..MaxBreaks /\ unsent' \in 0..Len(Events)
    <2>1. breaks \in 0..MaxBreaks /\ breaks < MaxBreaks /\ breaks' = breaks + 1 /\ unsent' = 0
        BY DEF TypeOK
    <2> HIDE DEF Crash
    <2> QED
        BY <1>1, <2>1
<1> QED
    BY <1>2, <1>3, <1>4, <1>5, <1>6, AllStep

\* The process is back, without handlers.
LEMMA RestartStep ==
    ASSUME StreamInv, Restart
    PROVE  StreamInv'
<1> USE DEF StreamInv, Restart, producer
<1>1. handlers \in Seq(Handlers(Len(Events)))
    BY Facts
<1>2. \A n \in Connections : handlers[n].pc = "done"
    BY DEF HandlersOK, HandlerOK
<1>3. \A n \in Connections : HandlerOK(n)'
    BY <1>2 DEF HandlerOK
<1>4. UNCHANGED <<rows, wire, browser, handlers>> /\ up' \in BOOLEAN
    BY DEF rows
<1>5. working' \in BOOLEAN /\ breaks' \in 0..MaxBreaks /\ unsent' \in 0..Len(Events)
    BY DEF TypeOK
<1> QED
    BY <1>1, <1>3, <1>4, <1>5, AllStep
-----------------------------------------------------------------------------
(* The browser *)

\* A step of the browser that leaves the server alone.
LEMMA BrowserStep ==
    ASSUME StreamInv, UNCHANGED <<producer, up, handlers>>, breaks' \in 0..MaxBreaks,
           wire' \in Seq(1..Len(Events)), source' \in {0} \cup Connections,
           first' \in -1..Len(Events), accepted' \in Seq(1..Len(Events)), closed' \in BOOLEAN,
           BrowserOK', NothingLostNorTwice'
    PROVE  StreamInv'
<1> USE DEF StreamInv, producer
<1>1. Events' = Events /\ Connections' = Connections
    BY DEF Events, Connections
<1>2. TypeOK'
    BY <1>1 DEF TypeOK, Handlers
<1>3. LogOK' /\ HandlersOK'
    BY <1>1 DEF LogOK, HandlersOK, HandlerOK
<1> QED
    BY <1>2, <1>3

\* The connection is over: what was accepted stays.
LEMMA DisconnectStep ==
    ASSUME StreamInv, UNCHANGED <<producer, up, handlers, first, accepted>>,
           breaks' \in 0..MaxBreaks, wire' = <<>>, source' = 0, closed' \in BOOLEAN
    PROVE  StreamInv'
<1> USE DEF StreamInv
<1>1. /\ first \in -1..Len(Events) /\ accepted \in Seq(1..Len(Events))
      /\ wire' \in Seq(1..Len(Events)) /\ source' \in {0} \cup Connections
    BY DEF TypeOK
<1>2. Events' = Events
    BY DEF Events, producer
<1>3. BrowserOK'
    BY <1>2 DEF BrowserOK
<1>4. NothingLostNorTwice'
    BY DEF NothingLostNorTwice
<1> QED
    BY <1>1, <1>3, <1>4, BrowserStep

\* The end of a stream, a broken connection and a page that is left.
LEMMA LeaveStep ==
    ASSUME StreamInv, StreamEnds \/ Break \/ Leave
    PROVE  StreamInv'
<1>1. /\ UNCHANGED <<producer, up, handlers, first, accepted>>
      /\ wire' = <<>> /\ source' = 0
    BY DEF StreamEnds, Break, Leave
<1>2. breaks' \in 0..MaxBreaks
    BY Facts, SMTT(30) DEF StreamEnds, Break, Leave, StreamInv, TypeOK
<1>3. closed' \in BOOLEAN
    BY DEF StreamEnds, Break, Leave, StreamInv, TypeOK
<1> QED
    BY <1>1, <1>2, <1>3, DisconnectStep

\* The watch starts with nothing connected and nothing accepted.
LEMMA WatchStep ==
    ASSUME StreamInv, Watch
    PROVE  StreamInv'
<1> USE DEF StreamInv
<1>1. PICK n \in 0..Len(Events) : first' = n /\ status[Task] # "absent"
    BY DEF Watch
<1>2. /\ UNCHANGED <<producer, up, handlers, wire, source, accepted, closed, breaks>>
      /\ handlers = <<>> /\ accepted = <<>> /\ source = 0 /\ wire = <<>>
    BY DEF Watch, BrowserOK
<1>3. Events' = Events /\ Events # <<>> /\ Len(Events) \in Nat
    BY <1>1, <1>2, Facts DEF Events, producer, LogOK
<1>4. BrowserOK'
    BY <1>1, <1>2, <1>3 DEF BrowserOK
<1>5. NothingLostNorTwice'
    <2>1. accepted' = <<>> /\ source' = 0
        BY <1>2
    <2> QED
        BY <2>1 DEF NothingLostNorTwice
<1>6. /\ first' \in -1..Len(Events) /\ accepted' \in Seq(1..Len(Events))
      /\ wire' \in Seq(1..Len(Events)) /\ source' \in {0} \cup Connections
      /\ closed' \in BOOLEAN /\ breaks' \in 0..MaxBreaks
    BY <1>1, <1>2, <1>3 DEF TypeOK
<1> QED
    BY <1>2, <1>4, <1>5, <1>6, BrowserStep

\* What was accepted is a part of the log.
LEMMA AcceptedInLog ==
    ASSUME StreamInv, first # -1
    PROVE  LastAccepted \in 0..Len(Events)
<1>1. /\ first \in 0..Len(Events) /\ Len(accepted) \in Nat /\ Len(Events) \in Nat
      /\ accepted \in Seq(1..Len(Events))
      /\ \A i \in 1..Len(accepted) : accepted[i] = first + i
    BY Facts DEF StreamInv, TypeOK, NothingLostNorTwice
<1>2. CASE Len(accepted) = 0
    BY <1>1, <1>2 DEF LastAccepted
<1>3. CASE Len(accepted) # 0
    <2>1. /\ Len(accepted) \in 1..Len(accepted)
          /\ accepted[Len(accepted)] \in 1..Len(Events)
        BY <1>1, <1>3
    <2>2. accepted[Len(accepted)] = first + Len(accepted)
        BY <1>1, <2>1
    <2> QED
        BY <1>1, <2>1, <2>2 DEF LastAccepted
<1> QED
    BY <1>2, <1>3

\* A connection starts after the last event accepted, with a handler of its own.
LEMMA ConnectStep ==
    ASSUME StreamInv, Connect
    PROVE  StreamInv'
<1> USE DEF StreamInv
<1> DEFINE h == [pc |-> "subscribe", after |-> LastAccepted, subscribed |-> FALSE, signal |-> FALSE]
<1>1. /\ up /\ first >= 0 /\ source = 0
      /\ source' = Len(handlers) + 1 /\ handlers' = Append(handlers, h)
      /\ UNCHANGED <<producer, up, wire, first, accepted, closed, breaks>>
    BY DEF Connect, ConnectFrom
<1>2. /\ Len(Events) \in Nat /\ Len(handlers) \in Nat /\ handlers \in Seq(Handlers(Len(Events)))
      /\ LastAccepted \in 0..Len(Events)
    BY <1>1, Facts, AcceptedInLog
<1>3. /\ h \in Handlers(Len(Events))
      /\ h.pc = "subscribe" /\ h.after = LastAccepted
    BY <1>2 DEF Handlers, Alive
<1> HIDE DEF h
<1>4. /\ handlers' \in Seq(Handlers(Len(Events)))
      /\ Len(handlers') = Len(handlers) + 1
      /\ \A n \in 1..Len(handlers) : handlers'[n] = handlers[n]
      /\ handlers'[Len(handlers) + 1] = h
    BY <1>1, <1>2, <1>3, AppendProperties
<1>5. /\ Events' = Events /\ Connections' = Connections \cup {Len(handlers) + 1}
      /\ LastAccepted' = LastAccepted
    BY <1>1, <1>2, <1>4 DEF Events, Connections, LastAccepted, producer
<1>6. TypeOK'
    BY <1>1, <1>4, <1>5 DEF TypeOK, Handlers, producer
<1>7. LogOK'
    BY <1>1, <1>5 DEF LogOK, producer
<1>8. HandlersOK'
    <2>1. \A n \in Connections : HandlerOK(n)'
        BY <1>1, <1>4, <1>5 DEF HandlersOK, HandlerOK, Connections, producer
    <2>2. ASSUME NEW n \in {Len(handlers) + 1}
          PROVE  HandlerOK(n)'
        <3>1. handlers'[n].pc = "subscribe" /\ up'
            BY <1>1, <1>3, <1>4
        <3> QED
            BY <3>1 DEF HandlerOK
    <2> QED
        BY <1>5, <2>1, <2>2 DEF HandlersOK
<1>9. BrowserOK'
    <2>1. first # -1 /\ source' # 0
        BY <1>1, <1>2
    <2> QED
        BY <1>1, <1>5, <2>1 DEF BrowserOK
<1>10. NothingLostNorTwice'
    <2>1. wire = <<>> /\ wire' = wire
        BY <1>1 DEF BrowserOK
    <2>2. handlers'[source'].after = LastAccepted /\ LastAccepted \in Int
        BY <1>1, <1>2, <1>3, <1>4
    <2> QED
        BY <1>1, <1>5, <2>1, <2>2 DEF NothingLostNorTwice
<1> QED
    BY <1>6, <1>7, <1>8, <1>9, <1>10
\* What arrives is the next event: it is accepted, and a terminal one closes
\* the subscription.
LEMMA ReceiveStep ==
    ASSUME StreamInv, Receive
    PROVE  StreamInv'
<1> USE DEF StreamInv
<1> DEFINE n == Head(wire)
<1>1. /\ source # 0 /\ wire # <<>>
      /\ accepted' = IF n = LastAccepted + 1 THEN Append(accepted, n) ELSE accepted
      /\ source' \in {0, source}
      /\ wire' = IF source' = 0 THEN <<>> ELSE Tail(wire)
      /\ UNCHANGED <<producer, up, handlers, first, breaks>>
    BY DEF Receive
<1>2. /\ wire \in Seq(1..Len(Events)) /\ Len(wire) \in Nat \ {0}
      /\ accepted \in Seq(1..Len(Events)) /\ Len(accepted) \in Nat
      /\ Len(Events) \in Nat /\ first \in Int /\ first # -1
      /\ first \in -1..Len(Events) /\ breaks \in 0..MaxBreaks /\ source \in {0} \cup Connections
    BY <1>1, Facts DEF TypeOK, BrowserOK
<1>3. /\ \A i \in 1..Len(wire) : wire[i] = LastAccepted + i
      /\ handlers[source].after = LastAccepted + Len(wire)
      /\ \A i \in 1..Len(accepted) : accepted[i] = first + i
    BY <1>1 DEF NothingLostNorTwice
<1>4. n = LastAccepted + 1 /\ n \in 1..Len(Events)
    BY <1>2, <1>3
<1> HIDE DEF n
<1>5. /\ accepted' = Append(accepted, n)
      /\ accepted' \in Seq(1..Len(Events)) /\ Len(accepted') = Len(accepted) + 1
      /\ \A i \in 1..Len(accepted) : accepted'[i] = accepted[i]
      /\ accepted'[Len(accepted) + 1] = n
    BY <1>1, <1>2, <1>4, AppendProperties
<1>6. LastAccepted' = LastAccepted + 1
    BY <1>1, <1>2, <1>5 DEF LastAccepted
<1>7. \A i \in 1..Len(accepted') : accepted'[i] = first' + i
    <2>1. SUFFICES ASSUME NEW i \in 1..Len(accepted')
                   PROVE  accepted'[i] = first' + i
        OBVIOUS
    <2>2. first' = first /\ n = first + Len(accepted) + 1
        BY <1>1, <1>4 DEF LastAccepted
    <2>3. CASE i \in 1..Len(accepted)
        BY <1>2, <1>3, <1>5, <2>2, <2>3
    <2>4. CASE i = Len(accepted) + 1
        BY <1>2, <1>5, <2>2, <2>4
    <2> QED
        BY <1>2, <1>5, <2>3, <2>4, SMTT(30)
<1>8. closed' \in BOOLEAN
    <2>1. closed' = (n = LastAccepted + 1 /\ Terminal(n))
        BY DEF Receive, n
    <2> QED
        BY <2>1, Zenon
<1>9. Events' = Events /\ Events # <<>>
    BY <1>1, <1>2 DEF Events, producer, BrowserOK
<1>10. CASE source' = 0
    <2>1. wire' = <<>> /\ wire' \in Seq(1..Len(Events))
        BY <1>1, <1>10
    <2>2. BrowserOK'
        BY <1>1, <1>2, <1>9, <1>10, <2>1 DEF BrowserOK
    <2>3. NothingLostNorTwice'
        BY <1>7, <1>10 DEF NothingLostNorTwice
    <2> QED
        BY <1>1, <1>2, <1>5, <1>8, <1>10, <2>1, <2>2, <2>3, BrowserStep
<1>11. CASE source' # 0
    <2>1. source' = source /\ wire' = Tail(wire)
        BY <1>1, <1>11
    <2>2. /\ wire' \in Seq(1..Len(Events)) /\ Len(wire') = Len(wire) - 1
          /\ \A i \in 1..Len(wire') : wire'[i] = wire[i + 1]
        BY <1>1, <1>2, <2>1, HeadTailProperties
    <2>3. BrowserOK'
        BY <1>1, <1>2, <1>9, <1>11 DEF BrowserOK
    <2>4. NothingLostNorTwice'
        <3>1. LastAccepted \in Int
            BY <1>2 DEF LastAccepted
        <3>2. \A i \in 1..Len(wire') : wire'[i] = LastAccepted' + i
            BY <1>2, <1>3, <1>6, <2>2, <3>1
        <3>3. handlers'[source'].after = LastAccepted + Len(wire)
            BY <1>1, <1>3, <2>1
        <3>4. LastAccepted' + Len(wire') = LastAccepted + Len(wire)
            BY <1>2, <1>6, <2>2, <3>1
        <3> QED
            BY <1>7, <3>2, <3>3, <3>4 DEF NothingLostNorTwice
    <2> QED
        BY <1>1, <1>2, <1>5, <1>8, <2>1, <2>2, <2>3, <2>4, BrowserStep
<1> QED
    BY <1>10, <1>11
-----------------------------------------------------------------------------
(* The theorems *)

\* The invariant holds when nothing has happened.
LEMMA InitStream == Init => StreamInv
<1> SUFFICES ASSUME Init
             PROVE  StreamInv
    OBVIOUS
<1>1. /\ status = [t \in {Task} |-> "absent"] /\ version = [t \in {Task} |-> 0]
      /\ log = [t \in {Task} |-> <<>>]
    BY DEF Init, Contract!Init
<1>2. Events = <<>> /\ Len(Events) = 0 /\ MaxLog \in Nat /\ MaxBreaks \in Nat
    BY <1>1, StreamAssumption DEF Events
<1>3. TypeOK
    <2>1. /\ status \in [{Task} -> StatusesSeen] /\ version \in [{Task} -> Nat]
          /\ Len(Events) \in 0..MaxLog
        BY <1>1, <1>2 DEF StatusesSeen
    <2>2. /\ up \in BOOLEAN /\ working \in BOOLEAN /\ closed \in BOOLEAN
          /\ source \in {0} \cup Connections
        BY DEF Init
    <2>3. unsent \in 0..Len(Events) /\ first \in -1..Len(Events) /\ breaks \in 0..MaxBreaks
        <3>1. unsent = 0 /\ first = -1 /\ breaks = 0
            BY DEF Init
        <3> QED
            BY <1>2, <3>1
    <2>4. /\ handlers \in Seq(Handlers(Len(Events)))
          /\ wire \in Seq(1..Len(Events)) /\ accepted \in Seq(1..Len(Events))
        BY DEF Init
    <2> QED
        BY <2>1, <2>2, <2>3, <2>4 DEF TypeOK, StatusesSeen, Handlers
<1>4. LogOK
    BY <1>1, <1>2 DEF LogOK
<1>5. HandlersOK /\ BrowserOK /\ NothingLostNorTwice
    BY DEF Init, HandlersOK, Connections, BrowserOK, NothingLostNorTwice
<1> QED
    BY <1>3, <1>4, <1>5 DEF StreamInv

\* Every step keeps it.
LEMMA NextStream == StreamInv /\ [Next]_vars => StreamInv'
<1> SUFFICES ASSUME StreamInv, [Next]_vars
             PROVE  StreamInv'
    OBVIOUS
<1>1. CASE Produce \/ Notify \/ ForgetNotify
    BY <1>1, ProduceStep, NotifyStep, ForgetStep
<1>2. ASSUME NEW n \in Connections, Handle(n) \/ Heartbeat(n) \/ StoreFails(n) \/ Abandon(n)
      PROVE  StreamInv'
    BY <1>2, SubscribeStep, ReplayStep, CheckStep, WakeStep, DoneStep DEF Handle
<1>3. CASE Watch \/ Connect \/ Receive
    BY <1>3, WatchStep, ConnectStep, ReceiveStep
<1>4. CASE StreamEnds \/ Break \/ Leave
    BY <1>4, LeaveStep
<1>5. CASE Crash \/ Recover \/ Restart
    BY <1>5, CrashStep, RecoverStep, RestartStep
<1>6. CASE UNCHANGED vars
    <2>1. Events' = Events /\ Connections' = Connections /\ LastAccepted' = LastAccepted
        BY <1>6 DEF vars, Events, Connections, LastAccepted
    <2>2. TypeOK'
        BY <1>6, <2>1 DEF vars, StreamInv, TypeOK
    <2>3. LogOK' /\ BrowserOK' /\ NothingLostNorTwice'
        BY <1>6, <2>1 DEF vars, StreamInv, LogOK, BrowserOK, NothingLostNorTwice
    <2>4. HandlersOK'
        BY <1>6, <2>1 DEF vars, StreamInv, HandlersOK, HandlerOK
    <2> QED
        BY <2>2, <2>3, <2>4 DEF StreamInv
<1> QED
    BY <1>1, <1>2, <1>3, <1>4, <1>5, <1>6 DEF Next

\* The invariant of the stream: the rows, the handlers and the browser fit.
THEOREM StreamIsSound == Spec => []StreamInv
<1> QED
    BY InitStream, NextStream, PTL DEF Spec

\* Every variable has its type, and no cursor of a handler or of the browser is
\* beyond the log.
THEOREM StreamTypes == Spec => []TypeOK
<1>1. StreamInv => TypeOK
    BY DEF StreamInv
<1> QED
    BY <1>1, StreamIsSound, PTL

\* A handler that waits without a signal has written the whole log, or a
\* notification is still to come: a Notify between its last read of the log and
\* its wait is not lost.
THEOREM NotifyIsNotLost == Spec => []NoLostWakeup
<1>1. StreamInv => NoLostWakeup
    BY DEF StreamInv, HandlersOK, HandlerOK, NoLostWakeup
<1> QED
    BY <1>1, StreamIsSound, PTL

\* Over every reconnection the browser accepts each event after the first once
\* and in order, and the wire and the cursor of the open connection continue
\* where it stopped.
THEOREM StreamIsGapless == Spec => []NothingLostNorTwice
<1>1. StreamInv => NothingLostNorTwice
    BY DEF StreamInv
<1> QED
    BY <1>1, StreamIsSound, PTL
=============================================================================
