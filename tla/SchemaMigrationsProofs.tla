------------------------- MODULE SchemaMigrationsProofs -------------------------
(***************************************************************************)
(* Proofs about SchemaMigrations, for any sessions, tasks, messages and    *)
(* roles, any last version and any number of faults: rows stay linked,     *)
(* exactly the data that can be linked are upgraded, and at once.          *)
(***************************************************************************)
EXTENDS SchemaMigrations, TLAPS

-----------------------------------------------------------------------------
(* Rows *)

\* NULL is no row.
LEMMA NoneIsNoRow == None \notin TaskRows /\ None \notin MessageRows
<1>1. ASSUME None \in TaskRows PROVE FALSE
    <2>1. None.session \in Sessions /\ DOMAIN None = {"session", "input", "active"}
        BY <1>1 DEF TaskRows
    <2>2. DOMAIN None = {"row"}
        BY DEF None
    <2> QED BY <2>1, <2>2
<1>2. ASSUME None \in MessageRows PROVE FALSE
    <2>1. DOMAIN None = {"session", "role", "task"}
        BY <1>2 DEF MessageRows
    <2>2. DOMAIN None = {"row"}
        BY DEF None
    <2> QED BY <2>1, <2>2
<1> QED BY <1>1, <1>2

\* What a row that is there looks like.
LEMMA RowsThere ==
    ASSUME NEW d \in Databases
    PROVE  /\ TaskIds(d) \subseteq Tasks /\ MessageIds(d) \subseteq Messages
           /\ \A t \in TaskIds(d) : d.task[t] \in TaskRows
           /\ \A m \in MessageIds(d) : d.message[m] \in MessageRows
BY DEF Databases, TaskIds, MessageIds, HasTask, HasMessage

\* The links of d's messages are replaced, and nothing else.
Relinked(d, e, links) ==
    /\ e.task = d.task /\ e.announced = d.announced
    /\ MessageIds(e) = MessageIds(d)
    /\ \A m \in MessageIds(d) : /\ e.message[m].session = d.message[m].session
                                /\ e.message[m].role = d.message[m].role
                                /\ e.message[m].task = links[m]

LEMMA WithLinksRelinks ==
    ASSUME NEW d \in Databases, NEW links \in [Messages -> Tasks \cup {None}]
    PROVE  /\ WithLinks(d, links) \in Databases
           /\ WithLinks(d, links).applied = d.applied
           /\ Relinked(d, WithLinks(d, links), links)
<1> DEFINE row(m) == [d.message[m] EXCEPT !.task = links[m]]
           f == [m \in Messages |-> IF HasMessage(d, m) THEN row(m) ELSE None]
           e == [d EXCEPT !.message = f]
<1>1. ASSUME NEW m \in MessageIds(d)
      PROVE  /\ row(m) \in MessageRows
             /\ row(m).session = d.message[m].session
             /\ row(m).role = d.message[m].role
             /\ row(m).task = links[m]
    <2>1. d.message[m] \in MessageRows /\ links[m] \in Tasks \cup {None}
        BY RowsThere DEF MessageIds
    <2> QED BY <2>1 DEF MessageRows
<1>2. ASSUME NEW m \in Messages, m \notin MessageIds(d) PROVE f[m] = None
    BY <1>2 DEF MessageIds
<1>3. ASSUME NEW m \in MessageIds(d) PROVE f[m] = row(m) /\ m \in Messages
    BY DEF MessageIds
<1> HIDE DEF row
<1>4. f \in [Messages -> MessageRows \cup {None}]
    BY <1>1, <1>2, <1>3
<1> HIDE DEF f
<1>5. /\ e \in Databases /\ e.message = f /\ e.task = d.task
      /\ e.announced = d.announced /\ e.applied = d.applied
    BY <1>4 DEF Databases
<1>6. WithLinks(d, links) = e
    BY DEF WithLinks, f, row
<1> HIDE DEF e
<1>7. MessageIds(e) = MessageIds(d)
    BY <1>1, <1>2, <1>3, <1>5, NoneIsNoRow DEF MessageIds, HasMessage
<1> QED BY <1>1, <1>3, <1>5, <1>6, <1>7 DEF Relinked

\* The script links each message to Link.
LinksOf(d) == [m \in Messages |-> Link(d, m)]

LEMMA BackfilledRelinks ==
    ASSUME NEW d \in Databases
    PROVE  /\ LinksOf(d) \in [Messages -> Tasks \cup {None}]
           /\ Backfilled(d) \in Databases
           /\ Backfilled(d).applied = d.applied
           /\ Backfilled(d).message = WithLinks(d, LinksOf(d)).message
           /\ Relinked(d, Backfilled(d), LinksOf(d))
<1>1. ASSUME NEW S \in SUBSET Tasks PROVE AnyOf(S) \in Tasks \cup {None}
    <2>1. CASE S = {}
        BY <2>1 DEF AnyOf
    <2>2. CASE S # {}
        BY <2>2 DEF AnyOf
    <2> QED BY <2>1, <2>2
<1>2. ASSUME NEW m \in Messages PROVE Link(d, m) \in Tasks \cup {None}
    <2>1. AskedBy(d, m) \in SUBSET Tasks /\ AnnouncedBy(d, m) \in SUBSET Tasks
        BY DEF AskedBy, AnnouncedBy, TaskIds
    <2> QED BY <1>1, <2>1 DEF Link
<1>3. LinksOf(d) \in [Messages -> Tasks \cup {None}]
    BY <1>2 DEF LinksOf
<1>4. Backfilled(d) = WithLinks(d, LinksOf(d))
    BY DEF Backfilled, WithLinks, LinksOf
<1> QED BY <1>3, <1>4, WithLinksRelinks

-----------------------------------------------------------------------------
(* What the checks of migration 2 decide *)

\* Links that make the rows consistent are the ones the script chooses, and
\* the checks before it let the data through.
LEMMA LinksDecide ==
    ASSUME NEW d \in Databases, NEW e \in Databases, NEW links,
           Relinked(d, e, links), Consistent(e)
    PROVE  /\ Unambiguous(d)
           /\ \A m \in MessageIds(d) : links[m] = Link(d, m)
<1>1. TaskIds(e) = TaskIds(d) /\ ActiveTasks(e) = ActiveTasks(d)
    BY DEF Relinked, TaskIds, ActiveTasks, HasTask
<1>2. \A role : InRole(e, role) = InRole(d, role)
    BY DEF Relinked, InRole
<1>3. ASSUME NEW t \in TaskIds(d)
      PROVE  LET m == d.task[t].input
             IN  HasMessage(d, m) /\ d.message[m].session = d.task[t].session /\ d.message[m].role = "user"
    <2>1. d.task[t].input \in Messages
        BY RowsThere DEF TaskRows
    <2> QED BY <1>1, <2>1 DEF Consistent, Valid, Relinked, MessageIds
<1>4. ASSUME NEW m \in InRole(d, "user") PROVE AskedBy(d, m) = {links[m]}
    <2>1. m \in MessageIds(d)
        BY DEF InRole
    <2>2. /\ links[m] \in TaskIds(d) /\ d.task[links[m]].session = d.message[m].session
          /\ d.task[links[m]].input = m
        BY <1>1, <1>2, <2>1 DEF Consistent, Valid, Relinked
    <2>3. \A t \in TaskIds(d) : d.task[t].input = m => t = links[m]
        BY <1>1, <2>2 DEF Consistent, Indexed, Relinked
    <2> QED BY <2>2, <2>3 DEF AskedBy
<1>5. ASSUME NEW m \in InRole(d, "assistant") PROVE AnnouncedBy(d, m) = {links[m]}
    <2>1. m \in MessageIds(d)
        BY DEF InRole
    <2> QED BY <1>1, <1>2, <2>1 DEF Consistent, AnnouncedBy, Relinked
<1>6. Unambiguous(d)
    <2>1. \A t, u \in TaskIds(d) : d.task[t].input = d.task[u].input => t = u
        BY <1>1 DEF Consistent, Indexed, Relinked
    <2>2. \A t, u \in ActiveTasks(d) : d.task[t].session = d.task[u].session => t = u
        BY <1>1 DEF Consistent, Indexed, Relinked
    <2> QED BY <1>3, <1>4, <1>5, <2>1, <2>2 DEF Unambiguous, OneOf
<1>7. ASSUME NEW x PROVE AnyOf({x}) = x
    BY DEF AnyOf
<1>8. ASSUME NEW m \in MessageIds(d) PROVE links[m] = Link(d, m)
    <2>1. m \in InRole(d, "user") \/ m \in InRole(d, "assistant")
        BY RowsThere DEF InRole, MessageRows
    <2>2. CASE m \in InRole(d, "user")
        BY <1>4, <1>7, <2>2 DEF Link, InRole
    <2>3. CASE m \in InRole(d, "assistant")
        BY <1>5, <1>7, <2>3 DEF Link, InRole
    <2> QED BY <2>1, <2>2, <2>3
<1> QED BY <1>6, <1>8

\* Rows with the same links satisfy the same checks.
LEMMA SameLinks ==
    ASSUME NEW d \in Databases, NEW e \in Databases, NEW b \in Databases, NEW links, NEW others,
           Relinked(d, e, links), Relinked(d, b, others), \A m \in MessageIds(d) : links[m] = others[m]
    PROVE  (Indexed(e) => Indexed(b)) /\ (Valid(e) => Valid(b)) /\ (Consistent(e) => Consistent(b))
<1>1. TaskIds(e) = TaskIds(b) /\ ActiveTasks(e) = ActiveTasks(b) /\ e.task = b.task
    BY DEF Relinked, TaskIds, ActiveTasks, HasTask
<1>2. MessageIds(e) = MessageIds(b) /\ \A m \in Messages : HasMessage(e, m) <=> HasMessage(b, m)
    BY DEF Relinked, MessageIds
<1>3. \A m \in MessageIds(e) : /\ e.message[m].session = b.message[m].session
                               /\ e.message[m].role = b.message[m].role
                               /\ e.message[m].task = b.message[m].task
    BY DEF Relinked
<1>4. \A t \in TaskIds(e) : e.task[t].input \in Messages
    BY RowsThere DEF TaskRows
<1>5. \A role : InRole(e, role) = InRole(b, role) /\ InRole(e, role) \subseteq MessageIds(e)
    BY <1>2, <1>3 DEF InRole
<1>6. Indexed(e) => Indexed(b)
    BY <1>1, <1>2, <1>3 DEF Indexed
<1>7. Valid(e) => Valid(b)
    BY <1>1, <1>2, <1>3, <1>4 DEF Valid, MessageIds
<1>8. \A m : AnnouncedBy(e, m) = AnnouncedBy(b, m)
    BY <1>1 DEF AnnouncedBy, Relinked
<1> QED BY <1>1, <1>3, <1>5, <1>6, <1>7, <1>8 DEF Consistent

\* What the checks around the script let through is consistent.
LEMMA ChecksSuffice ==
    ASSUME NEW d \in Databases, NEW b \in Databases,
           Relinked(d, b, LinksOf(d)), Unambiguous(d), Indexed(b), Valid(b)
    PROVE  Consistent(b)
<1>1. TaskIds(b) = TaskIds(d) /\ b.task = d.task
    BY DEF Relinked, TaskIds, HasTask
<1>2. \A role : InRole(b, role) = InRole(d, role) /\ InRole(d, role) \subseteq MessageIds(d)
    BY DEF Relinked, InRole
<1>3. ASSUME NEW x PROVE AnyOf({x}) = x
    BY DEF AnyOf
<1>4. ASSUME NEW m \in MessageIds(d) PROVE b.message[m].task = Link(d, m)
    BY DEF Relinked, LinksOf, MessageIds
<1>5. ASSUME NEW m \in InRole(b, "user") PROVE b.task[b.message[m].task].input = m
    <2>1. PICK t \in AskedBy(d, m) : AskedBy(d, m) = {t}
        BY <1>2 DEF Unambiguous, OneOf
    <2>2. m \in MessageIds(d) /\ d.message[m].role = "user"
        BY <1>2 DEF InRole
    <2>3. Link(d, m) = t
        BY <1>3, <2>1, <2>2 DEF Link
    <2> QED BY <1>1, <1>4, <2>1, <2>2, <2>3 DEF AskedBy
<1>6. ASSUME NEW m \in InRole(b, "assistant") PROVE AnnouncedBy(b, m) = {b.message[m].task}
    <2>1. PICK t \in AnnouncedBy(d, m) : AnnouncedBy(d, m) = {t}
        BY <1>2 DEF Unambiguous, OneOf
    <2>2. m \in MessageIds(d) /\ d.message[m].role = "assistant"
        BY <1>2 DEF InRole
    <2>3. Link(d, m) = t
        BY <1>3, <2>1, <2>2 DEF Link
    <2> QED BY <1>1, <1>4, <2>1, <2>2, <2>3 DEF AnnouncedBy, Relinked
<1> QED BY <1>5, <1>6 DEF Consistent

-----------------------------------------------------------------------------
(* Rows that are written *)

\* Every reference is to a row: the foreign keys, and the announced messages.
Sound(d) == d \in Databases /\ Referenced(d) /\ \A a \in d.announced : HasMessage(d, a[2])

\* What is recorded as applied says nothing of the rows.
LEMMA RowsOnly ==
    ASSUME NEW d \in Databases, NEW e \in Databases,
           e.task = d.task, e.message = d.message, e.announced = d.announced
    PROVE  /\ Consistent(d) => Consistent(e)
           /\ Sound(d) => Sound(e)
           /\ \A links : Relinked(d, e, links) <=> Relinked(e, d, links)
           /\ \A links : WithLinks(e, links).message = WithLinks(d, links).message
<1>1. TaskIds(e) = TaskIds(d) /\ ActiveTasks(e) = ActiveTasks(d) /\ MessageIds(e) = MessageIds(d)
    BY DEF TaskIds, ActiveTasks, MessageIds, HasTask, HasMessage
<1>2. \A m : (HasMessage(e, m) <=> HasMessage(d, m)) /\ AnnouncedBy(e, m) = AnnouncedBy(d, m)
    BY <1>1 DEF HasMessage, AnnouncedBy
<1>3. \A role : InRole(e, role) = InRole(d, role)
    BY <1>1 DEF InRole
<1>4. Indexed(d) => Indexed(e)
    BY <1>1 DEF Indexed
<1>5. Valid(d) => Valid(e)
    BY <1>1, <1>2 DEF Valid
<1>6. Sound(d) => Sound(e)
    BY <1>1, <1>2 DEF Sound, Referenced, HasTask
<1>7. Consistent(d) => Consistent(e)
    BY <1>2, <1>3, <1>4, <1>5 DEF Consistent
<1>8. \A links : Relinked(d, e, links) <=> Relinked(e, d, links)
    BY <1>1 DEF Relinked
<1>9. ASSUME NEW links PROVE WithLinks(e, links).message = WithLinks(d, links).message
    <2> DEFINE f(x) == [m \in Messages |-> IF HasMessage(x, m) THEN [x.message[m] EXCEPT !.task = links[m]] ELSE None]
    <2>1. f(d) = f(e)
        BY <1>2
    <2> HIDE DEF f
    <2>2. [d EXCEPT !.message = f(d)].message = f(d) /\ [e EXCEPT !.message = f(e)].message = f(e)
        BY DEF Databases
    <2> QED BY <2>1, <2>2 DEF WithLinks, f
<1> QED BY <1>6, <1>7, <1>8, <1>9

\* A database is its own relinking.
OwnLinks(d) == [m \in Messages |-> IF HasMessage(d, m) THEN d.message[m].task ELSE None]

LEMMA OwnLinksRelink ==
    ASSUME NEW d \in Databases
    PROVE  /\ OwnLinks(d) \in [Messages -> Tasks \cup {None}]
           /\ d.message = WithLinks(d, OwnLinks(d)).message
<1>1. \A m \in Messages : HasMessage(d, m) => d.message[m] \in MessageRows
    BY DEF Databases, HasMessage
<1>2. OwnLinks(d) \in [Messages -> Tasks \cup {None}]
    BY <1>1 DEF OwnLinks, MessageRows
<1> DEFINE f == [m \in Messages |-> IF HasMessage(d, m) THEN [d.message[m] EXCEPT !.task = OwnLinks(d)[m]] ELSE None]
<1>3. ASSUME NEW m \in Messages PROVE f[m] = d.message[m]
    <2>1. CASE HasMessage(d, m)
        <3>1. OwnLinks(d)[m] = d.message[m].task /\ d.message[m] \in MessageRows
            BY <1>1, <2>1 DEF OwnLinks
        <3>2. [d.message[m] EXCEPT !.task = OwnLinks(d)[m]] = d.message[m]
            BY <3>1 DEF MessageRows
        <3> QED BY <2>1, <3>2
    <2>2. CASE ~HasMessage(d, m)
        BY <2>2 DEF HasMessage
    <2> QED BY <2>1, <2>2
<1>4. d.message = f
    <2>1. d.message \in [Messages -> MessageRows \cup {None}]
        BY DEF Databases
    <2> HIDE DEF f
    <2>2. f = [m \in Messages |-> f[m]]
        BY DEF f
    <2> QED BY <1>3, <2>1, <2>2
<1>5. WithLinks(d, OwnLinks(d)).message = f
    <2> HIDE DEF f
    <2>1. [d EXCEPT !.message = f].message = f
        BY DEF Databases
    <2> QED BY <2>1 DEF WithLinks, f
<1> QED BY <1>2, <1>4, <1>5

\* A task that ends.
LEMMA EndKeeps ==
    ASSUME NEW d, NEW t \in Tasks, Sound(d), Consistent(d), t \in ActiveTasks(d)
    PROVE  LET e == [d EXCEPT !.task[t].active = FALSE]
           IN  Sound(e) /\ Consistent(e) /\ e.applied = d.applied
<1> DEFINE row == [d.task[t] EXCEPT !.active = FALSE]
           f == [d.task EXCEPT ![t] = row]
           e == [d EXCEPT !.task = f]
<1>1. d \in Databases /\ d.task[t] \in TaskRows
    BY RowsThere DEF Sound, ActiveTasks
<1>2. /\ row \in TaskRows /\ row.session = d.task[t].session
      /\ row.input = d.task[t].input /\ ~row.active
    BY <1>1 DEF TaskRows
<1> HIDE DEF row
<1>3. /\ f \in [Tasks -> TaskRows \cup {None}] /\ f[t] = row
      /\ \A u \in Tasks : u # t => f[u] = d.task[u]
    BY <1>1, <1>2 DEF Databases
<1> HIDE DEF f
<1>4. /\ e \in Databases /\ e.task = f /\ e.message = d.message
      /\ e.announced = d.announced /\ e.applied = d.applied
    BY <1>1, <1>3 DEF Databases
<1>5. e = [d EXCEPT !.task[t].active = FALSE]
    BY DEF f, row
<1> HIDE DEF e
<1>6. TaskIds(e) = TaskIds(d) /\ t \in TaskIds(d)
    BY <1>2, <1>3, <1>4, NoneIsNoRow DEF TaskIds, HasTask, ActiveTasks
<1>7. /\ MessageIds(e) = MessageIds(d)
      /\ \A m : HasMessage(e, m) <=> HasMessage(d, m)
      /\ \A role : InRole(e, role) = InRole(d, role)
      /\ \A m : AnnouncedBy(e, m) = AnnouncedBy(d, m)
    BY <1>4, <1>6 DEF MessageIds, HasMessage, InRole, AnnouncedBy
<1>8. \A u \in TaskIds(d) : e.task[u].session = d.task[u].session /\ e.task[u].input = d.task[u].input
    BY <1>2, <1>3, <1>4 DEF TaskIds
<1>9. ActiveTasks(e) \subseteq ActiveTasks(d)
    BY <1>2, <1>3, <1>4, <1>6 DEF ActiveTasks, TaskIds
<1>10. Indexed(e)
    BY <1>4, <1>6, <1>7, <1>8, <1>9 DEF Indexed, Consistent, ActiveTasks
<1>11. Valid(e)
    BY <1>4, <1>6, <1>7, <1>8 DEF Valid, Consistent
<1>12. Consistent(e)
    <2>1. \A m \in InRole(d, "user") : d.message[m].task \in TaskIds(d)
        BY DEF Consistent, Valid, InRole
    <2> QED BY <1>4, <1>7, <1>8, <1>10, <1>11, <2>1 DEF Consistent
<1>13. Sound(e)
    <2>1. \A u \in Tasks : HasTask(e, u) <=> HasTask(d, u)
        BY <1>6 DEF TaskIds
    <2>2. \A a \in d.announced : a[1] \in Tasks
        BY <1>1 DEF Databases
    <2> QED BY <1>4, <1>6, <1>7, <1>8, <2>1, <2>2 DEF Sound, Referenced
<1> QED BY <1>4, <1>5, <1>12, <1>13

\* The answer of a task, with its event.
LEMMA AnswerKeeps ==
    ASSUME NEW d, NEW t \in Tasks, NEW m \in Messages,
           Sound(d), Consistent(d), t \in ActiveTasks(d), ~HasMessage(d, m),
           \A n \in InRole(d, "assistant") : d.message[n].task # t
    PROVE  LET e == [d EXCEPT !.message[m] = [session |-> d.task[t].session, role |-> "assistant", task |-> t],
                              !.announced = @ \cup {<<t, m>>}]
           IN  Sound(e) /\ Consistent(e) /\ e.applied = d.applied
<1> DEFINE row == [session |-> d.task[t].session, role |-> "assistant", task |-> t]
           f == [d.message EXCEPT ![m] = row]
           a == d.announced \cup {<<t, m>>}
           e == [d EXCEPT !.message = f, !.announced = a]
<1>1. d \in Databases /\ d.task[t] \in TaskRows /\ t \in TaskIds(d)
    BY RowsThere DEF Sound, ActiveTasks
<1>2. /\ row \in MessageRows /\ row.session = d.task[t].session
      /\ row.role = "assistant" /\ row.task = t
    BY <1>1 DEF TaskRows, MessageRows
<1> HIDE DEF row
<1>3. /\ f \in [Messages -> MessageRows \cup {None}] /\ f[m] = row
      /\ \A n \in Messages : n # m => f[n] = d.message[n]
    BY <1>1, <1>2 DEF Databases
<1>4. a \in SUBSET (Tasks \X Messages)
    BY <1>1 DEF Databases
<1> HIDE DEF f
<1>5. /\ e \in Databases /\ e.task = d.task /\ e.message = f
      /\ e.announced = a /\ e.applied = d.applied
    BY <1>1, <1>3, <1>4 DEF Databases
<1>6. e = [d EXCEPT !.message[m] = [session |-> d.task[t].session, role |-> "assistant", task |-> t],
                    !.announced = @ \cup {<<t, m>>}]
    BY DEF f, row
<1> HIDE DEF e, a
<1>7. /\ TaskIds(e) = TaskIds(d) /\ ActiveTasks(e) = ActiveTasks(d)
      /\ \A u : HasTask(e, u) <=> HasTask(d, u)
    BY <1>5 DEF TaskIds, ActiveTasks, HasTask
<1>8. /\ MessageIds(e) = MessageIds(d) \cup {m} /\ m \notin MessageIds(d)
      /\ \A n \in Messages : HasMessage(e, n) <=> HasMessage(d, n) \/ n = m
    BY <1>2, <1>3, <1>5, NoneIsNoRow DEF MessageIds, HasMessage
<1>9. \A n \in MessageIds(d) : e.message[n] = d.message[n] /\ n # m /\ n \in Messages
    BY <1>3, <1>5, <1>8 DEF MessageIds
<1>10. /\ InRole(e, "user") = InRole(d, "user")
       /\ InRole(e, "assistant") = InRole(d, "assistant") \cup {m}
    BY <1>2, <1>3, <1>5, <1>8, <1>9 DEF InRole
<1>11. \A n \in MessageIds(d) : AnnouncedBy(e, n) = AnnouncedBy(d, n)
    <2>1. ASSUME NEW n \in MessageIds(d), NEW u
          PROVE  <<u, n>> \in e.announced <=> <<u, n>> \in d.announced
        BY <1>5, <1>9 DEF a
    <2> QED BY <1>7, <2>1 DEF AnnouncedBy
<1>12. AnnouncedBy(e, m) = {t}
    <2>1. ASSUME NEW u PROVE <<u, m>> \in e.announced <=> u = t
        <3>1. <<u, m>> \notin d.announced
            BY DEF Sound
        <3> QED BY <1>5, <3>1 DEF a
    <2> QED BY <1>1, <1>7, <2>1 DEF AnnouncedBy
<1>13. \A u \in TaskIds(d) : d.task[u].input \in Messages
    BY <1>1, RowsThere DEF TaskRows
<1>14. Indexed(e)
    <2>1. ASSUME NEW n \in MessageIds(d) PROVE e.message[n].task # t \/ e.message[n].role # "assistant"
        BY <1>9 DEF InRole
    <2>2. ASSUME NEW n \in MessageIds(e), NEW o \in MessageIds(e),
                 e.message[n].task # None /\ e.message[n].task = e.message[o].task
                     /\ e.message[n].role = e.message[o].role
          PROVE  n = o
        BY <1>2, <1>3, <1>5, <1>8, <1>9, <2>1, <2>2 DEF Consistent, Indexed
    <2> QED BY <1>5, <1>7, <2>2 DEF Consistent, Indexed
<1>15. Valid(e)
    <2>1. \A n \in MessageIds(e) : e.message[n].task # None
        BY <1>2, <1>3, <1>5, <1>8, <1>9, MigrationsAssumption DEF MigrationsAssumption, Consistent, Valid
    <2>2. ASSUME NEW u \in TaskIds(e)
          PROVE  LET n == e.task[u].input
                 IN  /\ HasMessage(e, n) /\ e.message[n].session = e.task[u].session
                     /\ e.message[n].task = u /\ e.message[n].role = "user"
        <3>1. d.task[u].input \in MessageIds(d)
            BY <1>7, <1>13 DEF Consistent, Valid, MessageIds
        <3> QED BY <1>5, <1>7, <1>8, <1>9, <3>1 DEF Consistent, Valid
    <2>3. \A n \in MessageIds(e) :
              LET u == e.message[n].task IN u \in TaskIds(e) /\ e.task[u].session = e.message[n].session
        BY <1>1, <1>2, <1>3, <1>5, <1>7, <1>8, <1>9 DEF Consistent, Valid
    <2> QED BY <2>1, <2>2, <2>3 DEF Valid
<1>16. Consistent(e)
    <2>1. \A n \in InRole(d, "user") \cup InRole(d, "assistant") : n \in MessageIds(d)
        BY DEF InRole
    <2>2. \A n \in InRole(e, "user") : e.task[e.message[n].task].input = n
        BY <1>5, <1>9, <1>10, <2>1 DEF Consistent
    <2>3. \A n \in InRole(e, "assistant") : AnnouncedBy(e, n) = {e.message[n].task}
        BY <1>2, <1>3, <1>5, <1>9, <1>10, <1>11, <1>12, <2>1 DEF Consistent
    <2> QED BY <1>14, <1>15, <2>2, <2>3 DEF Consistent
<1>17. Sound(e)
    <2>1. \A b \in e.announced : HasTask(e, b[1]) /\ HasMessage(e, b[2])
        <3>1. ASSUME NEW b \in d.announced PROVE HasTask(e, b[1]) /\ HasMessage(e, b[2])
            BY <1>1, <1>7, <1>8 DEF Sound, Referenced, Databases
        <3>2. HasTask(e, t) /\ HasMessage(e, m)
            BY <1>1, <1>7, <1>8 DEF TaskIds
        <3> QED BY <1>5, <3>1, <3>2 DEF a
    <2> QED BY <1>5, <1>7, <1>8, <1>13, <2>1 DEF Sound, Referenced
<1> QED BY <1>5, <1>6, <1>16, <1>17

\* A task that is accepted, with its message.
Created(d, t, m, s) ==
    [d EXCEPT !.task[t] = [session |-> s, input |-> m, active |-> TRUE],
              !.message[m] = [session |-> s, role |-> "user", task |-> t]]

LEMMA CreateKeeps ==
    ASSUME NEW d, NEW t \in Tasks, NEW m \in Messages, NEW s \in Sessions,
           Sound(d), Consistent(d), ~HasTask(d, t), ~HasMessage(d, m),
           \A u \in ActiveTasks(d) : d.task[u].session # s
    PROVE  /\ Sound(Created(d, t, m, s)) /\ Consistent(Created(d, t, m, s))
           /\ Created(d, t, m, s).applied = d.applied
<1> DEFINE task == [session |-> s, input |-> m, active |-> TRUE]
           row == [session |-> s, role |-> "user", task |-> t]
           g == [d.task EXCEPT ![t] = task]
           f == [d.message EXCEPT ![m] = row]
           e == [d EXCEPT !.task = g, !.message = f]
<1>1. d \in Databases
    BY DEF Sound
<1>2. /\ task \in TaskRows /\ task.session = s /\ task.input = m /\ task.active
      /\ row \in MessageRows /\ row.session = s /\ row.role = "user" /\ row.task = t
    BY DEF TaskRows, MessageRows
<1> HIDE DEF task, row
<1>3. /\ f \in [Messages -> MessageRows \cup {None}] /\ f[m] = row
      /\ \A n \in Messages : n # m => f[n] = d.message[n]
    BY <1>1, <1>2 DEF Databases
<1>4. /\ g \in [Tasks -> TaskRows \cup {None}] /\ g[t] = task
      /\ \A u \in Tasks : u # t => g[u] = d.task[u]
    BY <1>1, <1>2 DEF Databases
<1> HIDE DEF f, g
<1>5. /\ e \in Databases /\ e.task = g /\ e.message = f
      /\ e.announced = d.announced /\ e.applied = d.applied
    BY <1>1, <1>3, <1>4 DEF Databases
<1>6. e = Created(d, t, m, s)
    BY DEF Created, f, g, row, task
<1> HIDE DEF e
<1>7. /\ TaskIds(e) = TaskIds(d) \cup {t} /\ t \notin TaskIds(d)
      /\ \A u \in Tasks : HasTask(e, u) <=> HasTask(d, u) \/ u = t
    BY <1>2, <1>4, <1>5, NoneIsNoRow DEF TaskIds, HasTask
<1>8. /\ MessageIds(e) = MessageIds(d) \cup {m} /\ m \notin MessageIds(d)
      /\ \A n \in Messages : HasMessage(e, n) <=> HasMessage(d, n) \/ n = m
    BY <1>2, <1>3, <1>5, NoneIsNoRow DEF MessageIds, HasMessage
<1>9. \A n \in MessageIds(d) : e.message[n] = d.message[n] /\ n # m /\ n \in Messages
    BY <1>3, <1>5, <1>8 DEF MessageIds
<1>10. \A u \in TaskIds(d) : e.task[u] = d.task[u] /\ u # t /\ u \in Tasks
    BY <1>4, <1>5, <1>7 DEF TaskIds
<1>11. e.task[t] = task /\ e.message[m] = row
    BY <1>3, <1>4, <1>5
<1>12. /\ InRole(e, "user") = InRole(d, "user") \cup {m}
       /\ InRole(e, "assistant") = InRole(d, "assistant")
    BY <1>2, <1>8, <1>9, <1>11 DEF InRole
<1>13. ActiveTasks(e) = ActiveTasks(d) \cup {t}
    BY <1>2, <1>7, <1>10, <1>11 DEF ActiveTasks
<1>14. \A n : AnnouncedBy(e, n) = AnnouncedBy(d, n)
    <2>1. \A b \in d.announced : b[1] # t
        BY DEF Sound, Referenced
    <2>2. ASSUME NEW n PROVE <<t, n>> \notin d.announced
        <3> SUFFICES ASSUME <<t, n>> \in d.announced PROVE FALSE
            OBVIOUS
        <3> QED BY <2>1
    <2> QED BY <1>5, <1>7, <2>2 DEF AnnouncedBy
<1>15. \A u \in TaskIds(d) : d.task[u].input \in MessageIds(d)
    <2>1. \A u \in TaskIds(d) : d.task[u].input \in Messages
        BY <1>1, RowsThere DEF TaskRows
    <2> QED BY <2>1 DEF Consistent, Valid, MessageIds
<1>16. \A n \in MessageIds(d) : d.message[n].task \in TaskIds(d)
    BY DEF Consistent, Valid
<1>17. Indexed(e)
    <2>1. ASSUME NEW n \in MessageIds(e), NEW o \in MessageIds(e),
                 e.message[n].task # None /\ e.message[n].task = e.message[o].task
                     /\ e.message[n].role = e.message[o].role
          PROVE  n = o
        BY <1>2, <1>8, <1>9, <1>10, <1>11, <1>16, <2>1 DEF Consistent, Indexed
    <2>2. ASSUME NEW u \in TaskIds(e), NEW v \in TaskIds(e), e.task[u].input = e.task[v].input PROVE u = v
        BY <1>2, <1>7, <1>8, <1>10, <1>11, <1>15, <2>2 DEF Consistent, Indexed
    <2>3. ASSUME NEW u \in ActiveTasks(e), NEW v \in ActiveTasks(e), e.task[u].session = e.task[v].session
          PROVE  u = v
        BY <1>2, <1>10, <1>11, <1>13, <2>3 DEF Consistent, Indexed, ActiveTasks
    <2> QED BY <2>1, <2>2, <2>3 DEF Indexed
<1>18. Valid(e)
    <2>1. \A n \in MessageIds(e) : e.message[n].task # None
        BY <1>2, <1>8, <1>9, <1>11, MigrationsAssumption DEF MigrationsAssumption, Consistent, Valid
    <2>2. ASSUME NEW u \in TaskIds(e)
          PROVE  LET n == e.task[u].input
                 IN  /\ HasMessage(e, n) /\ e.message[n].session = e.task[u].session
                     /\ e.message[n].task = u /\ e.message[n].role = "user"
        <3>1. CASE u = t
            BY <1>2, <1>8, <1>11, <3>1
        <3>2. CASE u \in TaskIds(d)
            <4>1. PICK k \in MessageIds(d) : k = d.task[u].input
                BY <1>15, <3>2
            <4>2. /\ HasMessage(d, k) /\ d.message[k].session = d.task[u].session
                  /\ d.message[k].task = u /\ d.message[k].role = "user"
                BY <3>2, <4>1 DEF Consistent, Valid
            <4>3. HasMessage(e, k) /\ e.message[k] = d.message[k] /\ k \in Messages
                BY <1>8, <1>9, <4>1, <4>2
            <4>4. e.task[u] = d.task[u] /\ e.task[u].input = k
                BY <1>10, <3>2, <4>1
            <4> QED BY <4>2, <4>3, <4>4
        <3> QED BY <1>7, <3>1, <3>2
    <2>3. ASSUME NEW n \in MessageIds(e)
          PROVE  LET u == e.message[n].task IN u \in TaskIds(e) /\ e.task[u].session = e.message[n].session
        <3>1. CASE n = m
            BY <1>2, <1>7, <1>11, <3>1
        <3>2. CASE n \in MessageIds(d)
            BY <1>7, <1>9, <1>10, <1>16, <3>2 DEF Consistent, Valid
        <3> QED BY <1>8, <3>1, <3>2
    <2> QED BY <2>1, <2>2, <2>3 DEF Valid
<1>19. Consistent(e)
    <2>1. \A n \in InRole(d, "user") \cup InRole(d, "assistant") : n \in MessageIds(d)
        BY DEF InRole
    <2>2. \A n \in InRole(e, "user") : e.task[e.message[n].task].input = n
        BY <1>2, <1>9, <1>10, <1>11, <1>12, <1>16, <2>1 DEF Consistent
    <2>3. \A n \in InRole(e, "assistant") : AnnouncedBy(e, n) = {e.message[n].task}
        BY <1>9, <1>12, <1>14, <2>1 DEF Consistent
    <2> QED BY <1>17, <1>18, <2>2, <2>3 DEF Consistent
<1>20. Sound(e)
    <2>1. \A b \in d.announced : b[1] \in Tasks /\ b[2] \in Messages
        BY <1>1 DEF Databases
    <2>2. \A b \in e.announced : HasTask(e, b[1]) /\ HasMessage(e, b[2])
        BY <1>5, <1>7, <1>8, <2>1 DEF Sound, Referenced
    <2>3. \A u \in TaskIds(e) : HasMessage(e, e.task[u].input)
        BY <1>18 DEF Valid
    <2> QED BY <1>5, <2>2, <2>3 DEF Sound, Referenced
<1> QED BY <1>5, <1>6, <1>19, <1>20

-----------------------------------------------------------------------------
(* The inductive invariant *)

\* The transaction holds the committed rows, with other links at most; what it
\* recorded are the versions that were passed.
Upgrading ==
    /\ 1..(version - 1) \subseteq tx.applied /\ db.applied \subseteq tx.applied
    /\ tx.task = db.task /\ tx.announced = db.announced
    /\ 2 \in db.applied \/ 2 \notin tx.applied => tx.message = db.message
    /\ 2 \in tx.applied => Consistent(tx)
    /\ \E links \in [Messages -> Tasks \cup {None}] : tx.message = WithLinks(db, links).message

StartOK ==
    /\ pc = "down" => tx = db /\ version = 1
    /\ pc = "migrating" => Upgrading
    /\ pc \in {"recovering", "serving"} => db.applied = 1..Latest /\ ~refused

IInv == TypeOK /\ Sound(db) /\ Linked /\ RefusedIsAmbiguous /\ StartOK

LEMMA InitInv == Init => IInv
<1> SUFFICES ASSUME Init PROVE IInv
    OBVIOUS
<1>1. PICK task \in [Tasks -> TaskRows \cup {None}], message \in OldMessages :
      \E announced \in SUBSET (Tasks \X {m \in Messages : message[m] # None /\ message[m].role = "assistant"}) :
          LET old == OldDatabase(task, message, announced)
          IN  /\ Referenced(old)
              /\ \/ db = old
                 \/ TaskIds(old) \cup MessageIds(old) = {} /\ db = [old EXCEPT !.applied = {}]
                 \/ \E links \in [Messages -> Tasks] :
                       /\ Consistent(WithLinks(old, links))
                       /\ \E n \in 2..Latest : db = [WithLinks(old, links) EXCEPT !.applied = 1..n]
    BY DEF Init
<1>2. PICK announced \in SUBSET (Tasks \X {m \in Messages : message[m] # None /\ message[m].role = "assistant"}) :
          LET old == OldDatabase(task, message, announced)
          IN  /\ Referenced(old)
              /\ \/ db = old
                 \/ TaskIds(old) \cup MessageIds(old) = {} /\ db = [old EXCEPT !.applied = {}]
                 \/ \E links \in [Messages -> Tasks] :
                       /\ Consistent(WithLinks(old, links))
                       /\ \E n \in 2..Latest : db = [WithLinks(old, links) EXCEPT !.applied = 1..n]
    BY <1>1
<1> DEFINE old == OldDatabase(task, message, announced)
<1>3. /\ old.task = task /\ old.message = message
      /\ old.announced = announced /\ old.applied = {1}
    BY DEF OldDatabase
<1>4. message \in [Messages -> MessageRows \cup {None}]
    BY DEF OldMessages, MessageRows
<1>5. old \in Databases
    <2>1. {1} \subseteq 1..Latest
        BY MigrationsAssumption DEF MigrationsAssumption
    <2>2. announced \in SUBSET (Tasks \X Messages)
        OBVIOUS
    <2> QED BY <1>4, <2>1, <2>2 DEF OldDatabase, Databases
<1>6. /\ Referenced(old)
      /\ \/ db = old
         \/ db = [old EXCEPT !.applied = {}]
         \/ \E links \in [Messages -> Tasks] :
               /\ Consistent(WithLinks(old, links))
               /\ \E n \in 2..Latest : db = [WithLinks(old, links) EXCEPT !.applied = 1..n]
    BY <1>2
<1>7. Sound(old)
    <2>1. \A a \in announced : HasMessage(old, a[2])
        BY <1>3 DEF HasMessage
    <2> QED BY <1>3, <1>5, <1>6, <2>1 DEF Sound
<1> HIDE DEF old
<1>8. Sound(db) /\ Linked
    <2>1. CASE db = old
        BY <1>3, <1>7, <2>1 DEF Linked
    <2>2. CASE db = [old EXCEPT !.applied = {}]
        <3>1. /\ db \in Databases /\ db.task = old.task /\ db.message = old.message
              /\ db.announced = old.announced /\ db.applied = {}
            BY <1>5, <2>2 DEF Databases
        <3> QED BY <1>5, <1>7, <3>1, RowsOnly DEF Linked
    <2>3. ASSUME NEW links \in [Messages -> Tasks], Consistent(WithLinks(old, links)),
                 NEW n \in 2..Latest, db = [WithLinks(old, links) EXCEPT !.applied = 1..n]
          PROVE  Sound(db) /\ Linked
        <3> DEFINE e == WithLinks(old, links)
        <3>1. e \in Databases /\ Relinked(old, e, links) /\ links \in [Messages -> Tasks \cup {None}]
            BY <1>5, WithLinksRelinks
        <3> HIDE DEF e
        <3>2. 1..n \subseteq 1..Latest
            BY MigrationsAssumption DEF MigrationsAssumption
        <3>3. /\ db \in Databases /\ db.task = e.task /\ db.message = e.message
              /\ db.announced = e.announced
            BY <2>3, <3>1, <3>2 DEF Databases, e
        <3>4. Sound(e)
            <4>1. TaskIds(e) = TaskIds(old) /\ \A t : HasTask(e, t) <=> HasTask(old, t)
                BY <3>1 DEF Relinked, TaskIds, HasTask
            <4>2. \A m \in Messages : HasMessage(e, m) <=> HasMessage(old, m)
                BY <3>1 DEF Relinked, MessageIds
            <4>3. /\ \A t \in TaskIds(old) : old.task[t].input \in Messages
                  /\ \A a \in old.announced : a[2] \in Messages
                BY <1>5, RowsThere DEF TaskRows, Databases
            <4> QED BY <1>7, <3>1, <4>1, <4>2, <4>3 DEF Sound, Referenced, Relinked
        <3>5. Sound(db) /\ (Consistent(e) => Consistent(db))
            BY <3>1, <3>3, <3>4, RowsOnly
        <3>6. Consistent(e)
            BY <2>3 DEF e
        <3> QED BY <3>5, <3>6 DEF Linked
    <2> QED BY <1>6, <2>1, <2>2, <2>3
<1>9. TypeOK
    <2>1. db \in Databases /\ tx \in Databases
        BY <1>8 DEF Init, Sound
    <2>2. 1 \in 1..(Latest + 1) /\ 0 \in 0..MaxFaults
        BY MigrationsAssumption DEF MigrationsAssumption
    <2> QED BY <2>1, <2>2 DEF Init, TypeOK
<1> QED BY <1>8, <1>9 DEF Init, IInv, StartOK, RefusedIsAmbiguous

-----------------------------------------------------------------------------
(* Every step keeps it *)

\* Links that would make an old database consistent are those of the script:
\* the checks let it through.
LEMMA UpgradeablePasses ==
    ASSUME NEW d \in Databases, NEW x \in Databases,
           x.task = d.task, x.message = d.message, x.announced = d.announced, Upgradeable(d)
    PROVE  Unambiguous(x) /\ Indexed(Backfilled(x)) /\ Valid(Backfilled(x))
<1>1. PICK links \in [Messages -> Tasks] : Consistent(WithLinks(d, links))
    BY DEF Upgradeable
<1> DEFINE e == WithLinks(d, links)
           b == Backfilled(x)
<1>2. e \in Databases /\ Relinked(d, e, links) /\ links \in [Messages -> Tasks \cup {None}]
    BY WithLinksRelinks
<1>3. b \in Databases /\ Relinked(x, b, LinksOf(x))
    BY BackfilledRelinks
<1>4. Consistent(e)
    BY <1>1
<1> HIDE DEF e, b
<1>5. Relinked(x, e, links)
    BY <1>2 DEF Relinked, MessageIds, HasMessage
<1>6. Unambiguous(x) /\ \A m \in MessageIds(x) : links[m] = Link(x, m)
    BY <1>2, <1>4, <1>5, LinksDecide
<1>7. \A m \in MessageIds(x) : links[m] = LinksOf(x)[m]
    BY <1>6 DEF LinksOf, MessageIds
<1>8. (Indexed(e) => Indexed(b)) /\ (Valid(e) => Valid(b))
    BY <1>2, <1>3, <1>5, <1>7, SameLinks
<1> QED BY <1>4, <1>6, <1>8 DEF Consistent, b

\* Open.
LEMMA MigrateInv ==
    ASSUME IInv, Migrate
    PROVE  IInv'
<1>1. /\ db \in Databases /\ tx \in Databases /\ version \in 1..(Latest + 1)
      /\ mine \in SUBSET Tasks /\ refused \in BOOLEAN /\ faults \in 0..MaxFaults
    BY DEF IInv, TypeOK
<1>2. Latest \in Nat /\ Latest >= 2
    BY MigrationsAssumption DEF MigrationsAssumption
<1>3. CASE Begin
    <2>1. /\ db' = db /\ tx' = tx /\ version' = version /\ mine' = mine
          /\ refused' = refused /\ faults' = faults /\ pc' = "migrating" /\ tx = db /\ version = 1
        BY <1>3 DEF Begin, IInv, StartOK
    <2>2. Upgrading'
        <3>1. \E links \in [Messages -> Tasks \cup {None}] : tx.message = WithLinks(db, links).message
            BY <1>1, <2>1, OwnLinksRelink
        <3> QED BY <2>1, <3>1 DEF Upgrading, IInv, Linked
    <2> QED BY <1>1, <2>1, <2>2 DEF IInv, TypeOK, Linked, RefusedIsAmbiguous, StartOK
<1>4. CASE Skip
    <2>1. /\ db' = db /\ tx' = tx /\ version' = version + 1 /\ mine' = mine
          /\ refused' = refused /\ faults' = faults /\ pc' = pc /\ pc = "migrating"
          /\ version \in tx.applied /\ Upgrading
        BY <1>4 DEF Skip, Proceed, IInv, StartOK
    <2>2. version \in 1..Latest
        BY <1>1, <2>1 DEF Databases
    <2>3. Upgrading'
        BY <1>1, <2>1, <2>2 DEF Upgrading
    <2>4. version' \in 1..(Latest + 1)
        BY <1>2, <2>1, <2>2
    <2> QED BY <1>1, <2>1, <2>3, <2>4 DEF IInv, TypeOK, Linked, RefusedIsAmbiguous, StartOK
<1>5. CASE Apply
    <2>1. /\ db' = db /\ tx' = [tx EXCEPT !.applied = @ \cup {version}] /\ version' = version + 1
          /\ mine' = mine /\ refused' = refused /\ faults' = faults /\ pc' = pc /\ pc = "migrating"
          /\ version \in 1..Latest /\ version # 2 /\ Upgrading
        BY <1>5 DEF Apply, Record, Proceed, IInv, StartOK
    <2>2. /\ tx' \in Databases /\ tx'.applied = tx.applied \cup {version} /\ tx'.task = tx.task
          /\ tx'.message = tx.message /\ tx'.announced = tx.announced
        BY <1>1, <2>1 DEF Databases
    <2>3. Consistent(tx) => Consistent(tx')
        <3>1. PICK x : x = tx'
            OBVIOUS
        <3> QED BY <1>1, <2>2, <3>1, RowsOnly
    <2>4. Upgrading'
        BY <1>1, <2>1, <2>2, <2>3 DEF Upgrading
    <2>5. version' \in 1..(Latest + 1)
        BY <1>2, <2>1
    <2> QED BY <1>1, <2>1, <2>2, <2>4, <2>5 DEF IInv, TypeOK, Linked, RefusedIsAmbiguous, StartOK
<1>6. CASE Relink
    <2> DEFINE b == Backfilled(tx)
    <2>1. /\ db' = db /\ tx' = [b EXCEPT !.applied = @ \cup {version}] /\ version' = version + 1
          /\ mine' = mine /\ refused' = refused /\ faults' = faults /\ pc' = pc /\ pc = "migrating"
          /\ version = 2 /\ 2 \notin tx.applied /\ Upgrading
          /\ Unambiguous(tx) /\ Indexed(b) /\ Valid(b)
        BY <1>6 DEF Relink, Record, Proceed, IInv, StartOK
    <2>2. /\ b \in Databases /\ b.applied = tx.applied /\ Relinked(tx, b, LinksOf(tx))
          /\ LinksOf(tx) \in [Messages -> Tasks \cup {None}]
          /\ b.message = WithLinks(tx, LinksOf(tx)).message
        BY <1>1, BackfilledRelinks
    <2>3. Consistent(b)
        BY <1>1, <2>1, <2>2, ChecksSuffice
    <2>4. 2 \in 1..Latest
        BY <1>2
    <2> HIDE DEF b
    <2>5. /\ tx' \in Databases /\ tx'.applied = tx.applied \cup {2} /\ tx'.task = b.task
          /\ tx'.message = b.message /\ tx'.announced = b.announced
        BY <2>1, <2>2, <2>4 DEF Databases
    <2>6. Consistent(tx')
        <3>1. PICK x : x = tx'
            OBVIOUS
        <3> QED BY <2>2, <2>3, <2>5, <3>1, RowsOnly
    <2>7. /\ db.task = tx.task /\ db.announced = tx.announced /\ tx.message = db.message
          /\ 2 \notin db.applied
        BY <2>1 DEF Upgrading
    <2>8. \E links \in [Messages -> Tasks \cup {None}] : b.message = WithLinks(db, links).message
        <3>1. WithLinks(tx, LinksOf(tx)).message = WithLinks(db, LinksOf(tx)).message
            BY <1>1, <2>7, RowsOnly
        <3> QED BY <2>2, <3>1
    <2>9. Upgrading'
        BY <1>1, <2>1, <2>2, <2>5, <2>6, <2>7, <2>8 DEF Upgrading, Relinked
    <2>10. version' \in 1..(Latest + 1)
        BY <1>2, <2>1
    <2> QED BY <1>1, <2>1, <2>5, <2>9, <2>10 DEF IInv, TypeOK, Linked, RefusedIsAmbiguous, StartOK
<1>7. CASE Refuse
    <2>1. /\ db' = db /\ tx' = db /\ version' = 1 /\ mine' = {} /\ pc' = "down"
          /\ refused' = TRUE /\ faults' = faults /\ 2 \notin tx.applied /\ Upgrading
          /\ ~(Unambiguous(tx) /\ Indexed(Backfilled(tx)) /\ Valid(Backfilled(tx)))
        BY <1>7 DEF Refuse, Exit, IInv, StartOK
    <2>2. /\ tx.task = db.task /\ tx.message = db.message /\ tx.announced = db.announced
          /\ 2 \notin db.applied
        BY <2>1 DEF Upgrading
    <2>3. ~Upgradeable(db)
        BY <1>1, <2>1, <2>2, UpgradeablePasses
    <2>4. 1 \in 1..(Latest + 1)
        BY <1>2
    <2> QED BY <1>1, <2>1, <2>2, <2>3, <2>4 DEF IInv, TypeOK, Linked, RefusedIsAmbiguous, StartOK
<1>8. CASE Commit
    <2>1. /\ db' = tx /\ tx' = tx /\ version' = version /\ mine' = mine /\ pc' = "recovering"
          /\ refused' = FALSE /\ faults' = faults /\ version > Latest /\ Upgrading
        BY <1>8 DEF Commit, IInv, StartOK
    <2>2. tx.applied = 1..Latest
        <3>1. version - 1 = Latest
            BY <1>1, <1>2, <2>1
        <3> QED BY <1>1, <2>1, <3>1 DEF Upgrading, Databases
    <2>3. Sound(tx) /\ Consistent(tx)
        <3>1. 2 \in tx.applied
            BY <1>2, <2>2
        <3>2. PICK links \in [Messages -> Tasks \cup {None}] : tx.message = WithLinks(db, links).message
            BY <2>1 DEF Upgrading
        <3> DEFINE e == WithLinks(db, links)
        <3>3. Relinked(db, e, links)
            BY <1>1, WithLinksRelinks
        <3>4. tx.message = e.message
            BY <3>2
        <3> HIDE DEF e
        <3>5. tx.task = db.task /\ tx.announced = db.announced /\ Consistent(tx)
            BY <2>1, <3>1 DEF Upgrading
        <3>6. \A m \in Messages : HasMessage(tx, m) <=> HasMessage(db, m)
            BY <3>3, <3>4 DEF Relinked, MessageIds, HasMessage
        <3>7. /\ \A t \in TaskIds(db) : db.task[t].input \in Messages
              /\ \A a \in db.announced : a[2] \in Messages
            BY <1>1, RowsThere DEF TaskRows, Databases
        <3>8. TaskIds(tx) = TaskIds(db) /\ \A t : HasTask(tx, t) <=> HasTask(db, t)
            BY <3>5 DEF TaskIds, HasTask
        <3> QED BY <1>1, <3>5, <3>6, <3>7, <3>8 DEF Sound, Referenced, IInv
    <2> QED BY <1>1, <2>1, <2>2, <2>3 DEF IInv, TypeOK, Linked, RefusedIsAmbiguous, StartOK
<1> QED BY <1>3, <1>4, <1>5, <1>6, <1>7, <1>8 DEF Migrate

\* A write of the program that is running keeps what is sound and linked.
LEMMA WriteInv ==
    ASSUME IInv, pc \in {"recovering", "serving"}, Sound(db'), Consistent(db'), db'.applied = db.applied,
           tx' = tx, pc' = pc, version' = version, mine' \in SUBSET Tasks,
           refused' = refused, faults' = faults
    PROVE  IInv'
<1>1. pc # "down" /\ pc # "migrating"
    OBVIOUS
<1>2. ~refused' /\ db'.applied = 1..Latest
    BY DEF IInv, StartOK
<1>3. TypeOK'
    BY DEF IInv, TypeOK, Sound
<1> QED BY <1>1, <1>2, <1>3 DEF IInv, StartOK, Linked, RefusedIsAmbiguous

LEMMA StepInv == IInv /\ [Next]_vars => IInv'
<1> SUFFICES ASSUME IInv, [Next]_vars PROVE IInv'
    OBVIOUS
<1>1. CASE UNCHANGED vars
    <2>1. /\ db' = db /\ tx' = tx /\ pc' = pc /\ version' = version /\ mine' = mine
          /\ refused' = refused /\ faults' = faults
        BY <1>1 DEF vars
    <2>2. Upgrading' <=> Upgrading
        BY <2>1 DEF Upgrading
    <2> QED BY <2>1, <2>2 DEF IInv, TypeOK, Linked, RefusedIsAmbiguous, StartOK
<1>2. CASE Migrate
    BY <1>2, MigrateInv
<1>3. CASE Fault
    <2>1. /\ db' = db /\ tx' = db /\ version' = 1 /\ mine' = {} /\ pc' = "down"
          /\ refused' = refused /\ faults' = faults + 1 /\ faults < MaxFaults
        BY <1>3 DEF Fault, Exit
    <2>2. 1 \in 1..(Latest + 1) /\ faults' \in 0..MaxFaults
        BY <2>1, MigrationsAssumption DEF MigrationsAssumption, IInv, TypeOK
    <2> QED BY <2>1, <2>2 DEF IInv, TypeOK, Linked, RefusedIsAmbiguous, StartOK
<1>4. CASE Serve
    <2>1. /\ db' = db /\ tx' = tx /\ pc = "recovering" /\ pc' = "serving" /\ version' = version
          /\ mine' = mine /\ refused' = refused /\ faults' = faults
        BY <1>4 DEF Serve
    <2> QED BY <2>1 DEF IInv, TypeOK, Linked, RefusedIsAmbiguous, StartOK
<1>5. ASSUME pc \in {"recovering", "serving"} PROVE Sound(db) /\ Consistent(db)
    <2>1. 2 \in 1..Latest
        BY MigrationsAssumption DEF MigrationsAssumption
    <2> QED BY <1>5, <2>1 DEF IInv, StartOK, Linked
<1>6. ASSUME NEW t \in Tasks, Recover(t) \/ Settle(t) PROVE IInv'
    <2>1. /\ pc \in {"recovering", "serving"} /\ t \in ActiveTasks(db)
          /\ db' = [db EXCEPT !.task[t].active = FALSE] /\ tx' = tx /\ pc' = pc
          /\ version' = version /\ mine' = mine /\ refused' = refused /\ faults' = faults
        BY <1>6 DEF Recover, Settle
    <2>2. Sound(db') /\ Consistent(db') /\ db'.applied = db.applied
        <3>1. PICK d : d = db
            OBVIOUS
        <3>2. PICK e : e = db'
            OBVIOUS
        <3> QED BY <1>5, <2>1, <3>1, <3>2, EndKeeps
    <2> QED BY <2>1, <2>2, WriteInv DEF IInv, TypeOK
<1>7. ASSUME NEW t \in Tasks, NEW m \in Messages, Answer(t, m) PROVE IInv'
    <2>1. /\ pc = "serving" /\ t \in ActiveTasks(db) /\ ~HasMessage(db, m)
          /\ \A n \in InRole(db, "assistant") : db.message[n].task # t
          /\ db' = [db EXCEPT !.message[m] = [session |-> db.task[t].session, role |-> "assistant", task |-> t],
                              !.announced = @ \cup {<<t, m>>}]
          /\ tx' = tx /\ pc' = pc /\ version' = version /\ mine' = mine
          /\ refused' = refused /\ faults' = faults
        BY <1>7 DEF Answer
    <2>2. Sound(db') /\ Consistent(db') /\ db'.applied = db.applied
        <3>1. PICK e : e = db'
            OBVIOUS
        <3> QED BY <1>5, <2>1, <3>1, AnswerKeeps
    <2> QED BY <2>1, <2>2, WriteInv DEF IInv, TypeOK
<1>8. ASSUME NEW t \in Tasks, NEW m \in Messages, NEW s \in Sessions, CreateTask(t, m, s) PROVE IInv'
    <2>1. /\ pc = "serving" /\ ~HasTask(db, t) /\ ~HasMessage(db, m)
          /\ \A u \in ActiveTasks(db) : db.task[u].session # s
          /\ db' = [db EXCEPT !.task[t] = [session |-> s, input |-> m, active |-> TRUE],
                              !.message[m] = [session |-> s, role |-> "user", task |-> t]]
          /\ tx' = tx /\ pc' = pc /\ version' = version /\ mine' = mine \cup {t}
          /\ refused' = refused /\ faults' = faults
        BY <1>8 DEF CreateTask
    <2>2. Sound(db') /\ Consistent(db') /\ db'.applied = db.applied
        <3>1. Sound(Created(db, t, m, s)) /\ Consistent(Created(db, t, m, s))
              /\ Created(db, t, m, s).applied = db.applied
            BY <1>5, <2>1, CreateKeeps
        <3>2. db' = Created(db, t, m, s)
            BY <2>1 DEF Created
        <3> QED BY <3>1, <3>2
    <2>3. mine' \in SUBSET Tasks
        BY <2>1 DEF IInv, TypeOK
    <2> QED BY <2>1, <2>2, <2>3, WriteInv
<1> QED BY <1>1, <1>2, <1>3, <1>4, <1>6, <1>7, <1>8 DEF Next, Start, Write

LEMMA Invariance == Spec => []IInv
<1> QED BY InitInv, StepInv, PTL DEF Spec

-----------------------------------------------------------------------------
(* The theorems *)

\* Every variable has its type in every reachable state.
THEOREM TypeCorrect == Spec => []TypeOK
<1>1. IInv => TypeOK
    BY DEF IInv
<1> QED BY <1>1, Invariance, PTL

\* Links: from migration 2 on the committed rows fit together, whatever an
\* earlier release left and the program wrote since.
THEOREM RowsStayLinked == Spec => []Linked
<1>1. IInv => Linked
    BY DEF IInv
<1> QED BY <1>1, Invariance, PTL

\* Refusals: a start that ends because of ambiguous data is right, there are no
\* links that would do.
THEOREM RefusalsAreRight == Spec => []RefusedIsAmbiguous
<1>1. IInv => RefusedIsAmbiguous
    BY DEF IInv
<1> QED BY <1>1, Invariance, PTL

\* Atomicity: an old database is upgraded whole, in one step, or left alone.
THEOREM UpgradesAreWhole == Spec => UpgradedWhole
<1>1. ASSUME IInv, [Next]_vars, db.applied # 1..Latest
      PROVE  \/ db' = db
             \/ /\ db'.applied = 1..Latest
                /\ db'.task = db.task /\ db'.announced = db.announced
                /\ \E links \in [Messages -> Tasks \cup {None}] : db'.message = WithLinks(db, links).message
    <2>1. pc \notin {"recovering", "serving"}
        BY <1>1 DEF IInv, StartOK
    <2>2. CASE Commit
        <3>1. IInv'
            BY <1>1, StepInv
        <3>2. pc' = "recovering" /\ db' = tx /\ Upgrading
            BY <1>1, <2>2 DEF Commit, IInv, StartOK
        <3>3. db'.applied = 1..Latest
            BY <3>1, <3>2 DEF IInv, StartOK
        <3> QED BY <3>2, <3>3 DEF Upgrading
    <2>3. CASE ~Commit
        BY <1>1, <2>1, <2>3 DEF Next, Start, Migrate, Begin, Skip, Apply, Relink, Refuse, Proceed, Fault,
            Recover, Serve, Write, CreateTask, Answer, Settle, vars
    <2> QED BY <2>2, <2>3
<1>2. IInv /\ [Next]_vars
      => [db.applied # 1..Latest =>
             \/ db' = db
             \/ /\ db'.applied = 1..Latest
                /\ db'.task = db.task /\ db'.announced = db.announced
                /\ \E links \in [Messages -> Tasks \cup {None}] : db'.message = WithLinks(db, links).message]_vars
    BY <1>1
<1> QED BY <1>2, Invariance, PTL DEF Spec, UpgradedWhole
=============================================================================
