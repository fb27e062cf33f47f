----------------------------- MODULE SessionPages -----------------------------
(***************************************************************************)
(* The list of sessions: Store.listSessionPageByOwner pages the sessions   *)
(* of a user by a keyset on (updated_at, id), API.ListSessions hands the   *)
(* cursor out as a token, and the query ['mini-torchbearing-sessions'] of  *)
(* Workbench.tsx holds the pages the browser read, one after the other,    *)
(* while tasks accepted in any tab move their sessions to the top.         *)
(***************************************************************************)
EXTENDS Integers, Sequences, FiniteSets, SequencesExt

CONSTANTS
    Sessions,  \* the ids: positive numbers, ordered as the texts are
    Mine,      \* the sessions the user of the browser creates
    Size,      \* rows on a page (20 in the code)
    MaxTime    \* bound: the times are 1..MaxTime

ASSUME PagesAssumption ==
    /\ Sessions \subseteq Nat \ {0}
    /\ Mine \subseteq Sessions
    /\ Size \in Nat \ {0}
    /\ MaxTime \in Nat

VARIABLES
    updatedAt,  \* sessions.updated_at; 0: no such row
    withTask,   \* the sessions that have a task
    pages,      \* data.pages of the query
    fetch,      \* the fetch that runs: what it is, and the pages it has read
    moved       \* (history) sessions that moved since the first of `pages` was
                \* read, and since the first page of the running fetch was

vars == <<updatedAt, withTask, pages, fetch, moved>>
rows == <<updatedAt, withTask>>

Times == 1..MaxTime
None == [id |-> 0, at |-> 0]      \* no cursor
Idle == [kind |-> "none", read |-> <<>>]

Row(s) == [id |-> s, at |-> updatedAt[s]]

\* Row r comes after row c in the list.
Below(r, c) == r.at < c.at \/ (r.at = c.at /\ r.id < c.id)

Init ==
    /\ updatedAt = [s \in Sessions |-> 0]
    /\ withTask = {}
    /\ pages = <<>>
    /\ fetch = Idle
    /\ moved = [pages |-> {}, fetch |-> {}]

-----------------------------------------------------------------------------
(* The store *)

\* A session without a task is not listed.
Listed == {Row(s) : s \in Mine \cap withTask}

\* (mutant) The cursor is compared by time alone.
CandidatesByTime(cursor) == {r \in Listed : cursor = None \/ r.at < cursor.at}

\* (mutant) The row of the cursor is read again.
CandidatesAgain(cursor) == {r \in Listed : cursor = None \/ ~Below(cursor, r)}

\* The rows below the cursor.
Candidates(cursor) == {r \in Listed : cursor = None \/ Below(r, cursor)}

\* What the SELECT answers: one row more than a page, or all there are, in the
\* order of the list; what it leaves out comes after them.
Selected(found, cursor) ==
    /\ Len(found) <= Size + 1
    /\ \A i, j \in 1..Len(found) : i < j => Below(found[j], found[i])
    /\ \A r \in Candidates(cursor) \ Range(found) :
          Len(found) = Size + 1 /\ \A i \in 1..Len(found) : Below(r, found[i])

\* (mutant) The cursor is the row that did not fit.
PageToNext(found) ==
    IF Len(found) > Size
    THEN [items |-> SubSeq(found, 1, Size), next |-> found[Size + 1]]
    ELSE [items |-> found, next |-> None]

\* The last row of a page is the next cursor if there was one more.
PageOf(found) ==
    IF Len(found) > Size
    THEN [items |-> SubSeq(found, 1, Size), next |-> found[Size]]
    ELSE [items |-> found, next |-> None]

\* listSessionPageByOwner
PagesFrom(cursor) ==
    {PageOf(found) : found \in {f \in SeqOf(Candidates(cursor), Size + 1) : Selected(f, cursor)}}

Moved(s) == moved' = [pages |-> moved.pages \cup {s}, fetch |-> moved.fetch \cup {s}]

CreateSession(s, now) ==
    /\ updatedAt[s] = 0
    /\ updatedAt' = [updatedAt EXCEPT ![s] = now]
    /\ Moved(s)
    /\ UNCHANGED <<withTask, pages, fetch>>

\* (mutant) A session's time is overwritten, whatever it was.
AcceptBackwards(s, now) ==
    /\ updatedAt[s] # 0
    /\ updatedAt' = [updatedAt EXCEPT ![s] = now]
    /\ withTask' = withTask \cup {s}
    /\ Moved(s)
    /\ UNCHANGED <<pages, fetch>>

\* A task is accepted: Touch refuses a time before the session's last one, and
\* the task with it. Clocks go back: the times of two sessions are in no order.
AcceptTask(s, now) ==
    /\ updatedAt[s] # 0
    /\ now >= updatedAt[s]
    /\ updatedAt' = [updatedAt EXCEPT ![s] = now]
    /\ withTask' = withTask \cup {s}
    /\ Moved(s)
    /\ UNCHANGED <<pages, fetch>>

-----------------------------------------------------------------------------
(* The query of the browser *)

HasNextPage == pages # <<>> /\ Last(pages).next # None

Start(kind) ==
    /\ fetch' = [kind |-> kind, read |-> <<>>]
    /\ UNCHANGED <<rows, pages, moved>>

\* The page is opened or gets the focus back; a fetch that runs is joined.
Refetch ==
    /\ fetch.kind = "none"
    /\ Start("refetch")

\* A task was created or an old session forgotten: invalidateQueries starts
\* again, whatever runs.
Invalidate ==
    /\ pages # <<>>
    /\ Start("refetch")

\* onLoadMore, whose button is disabled while it runs. A refetch that runs is
\* cancelled.
FetchNextPage ==
    /\ HasNextPage
    /\ fetch.kind # "more"
    /\ Start("more")

\* The pages asked for were read, or there is no other.
FetchDone ==
    /\ fetch.read # <<>>
    /\ fetch.kind = "refetch" =>
          Len(fetch.read) >= Len(pages) \/ Last(fetch.read).next = None

\* ListSessions, with the token of the page before: a refetch starts without
\* one and reads as many pages as there were; getNextPageParam.
ReadPage ==
    /\ fetch.kind # "none" /\ ~FetchDone
    /\ LET cursor == IF fetch.kind = "more" THEN Last(pages).next
                     ELSE IF fetch.read = <<>> THEN None ELSE Last(fetch.read).next
       IN  \E page \in PagesFrom(cursor) : fetch' = [fetch EXCEPT !.read = Append(@, page)]
    /\ moved' = IF fetch.kind = "refetch" /\ fetch.read = <<>>
                THEN [moved EXCEPT !.fetch = {}] ELSE moved
    /\ UNCHANGED <<rows, pages>>

\* The data of the query are replaced at once.
Finish ==
    /\ FetchDone
    /\ IF fetch.kind = "more"
       THEN pages' = pages \o fetch.read /\ UNCHANGED moved
       ELSE pages' = fetch.read /\ moved' = [moved EXCEPT !.pages = moved.fetch]
    /\ fetch' = Idle
    /\ UNCHANGED rows

\* The request fails, its retries included: the data stay.
Fail ==
    /\ fetch.kind # "none"
    /\ fetch' = Idle
    /\ UNCHANGED <<rows, pages, moved>>

-----------------------------------------------------------------------------
Store == \E s \in Sessions, now \in Times : CreateSession(s, now) \/ AcceptTask(s, now)

Next == Store \/ Refetch \/ Invalidate \/ FetchNextPage \/ ReadPage \/ Finish \/ Fail

Spec == Init /\ [][Next]_vars
-----------------------------------------------------------------------------
(* What must hold *)

\* flattenSessionPages
Ids(list) == UNION {{r.id : r \in Range(list[k].items)} : k \in 1..Len(list)}
Shown == Ids(pages)

\* A row that comes later, on its page or on a later one, is below and of
\* another session.
InOrder(list) ==
    \A k, l \in 1..Len(list) : \A i \in 1..Len(list[k].items), j \in 1..Len(list[l].items) :
        k < l \/ (k = l /\ i < j) =>
            /\ Below(list[l].items[j], list[k].items[i])
            /\ list[l].items[j].id # list[k].items[i].id

\* The pages, read at different times with tasks accepted in between, form one
\* list in order: each session is on one page only, and none is above the
\* cursor that ended the page before.
OneList == InOrder(pages)

\* A session with a task that is missing from the list can still be reached by
\* loading more, or it moved since the first page was read: a cursor that is
\* used after other sessions moved skips none that stayed.
NothingSkipped ==
    pages # <<>> =>
        \A s \in Mine \cap withTask :
            \/ s \in Shown \cup moved.pages
            \/ HasNextPage /\ Below(Row(s), Last(pages).next)
=============================================================================
