-------------------------- MODULE SessionPagesProofs ---------------------------
(***************************************************************************)
(* Theorems about SessionPages, for any sessions, size of a page and       *)
(* times: the pages a browser holds are one list, and none is skipped that *)
(* stayed where it was.                                                    *)
(***************************************************************************)
EXTENDS SessionPages, SequenceTheorems, TLAPS

-----------------------------------------------------------------------------
(* The inductive invariant *)

Entries == [id : Sessions, at : 0..MaxTime]
Pages == [items : Seq(Entries), next : Entries \cup {None}]

TypeOK ==
    /\ updatedAt \in [Sessions -> 0..MaxTime]
    /\ withTask \subseteq Sessions
    /\ pages \in Seq(Pages)
    /\ fetch \in [kind : {"none", "refetch", "more"}, read : Seq(Pages)]
    /\ moved \in [pages : SUBSET Sessions, fetch : SUBSET Sessions]

\* No row on the pages is newer than its session: it is what that was when it
\* was read, and activity never moves backwards.
Read(list, times) ==
    \A k \in 1..Len(list) : \A i \in 1..Len(list[k].items) :
        list[k].items[i].at <= times[list[k].items[i].id]

\* A cursor is the last row of its page.
Cursors(list) ==
    \A k \in 1..Len(list) : list[k].next # None =>
        Len(list[k].items) >= 1 /\ list[k].next = list[k].items[Len(list[k].items)]

\* Pages that were read one after the other, however the rows moved meanwhile.
Chained(list, times) == InOrder(list) /\ Read(list, times) /\ Cursors(list)

\* A session that is listed is on the pages, or moved while they were read, or
\* is still below the last cursor.
Covers(list, moves, listed, times) ==
    list # <<>> =>
        \A s \in listed :
            \/ s \in Ids(list) \cup moves
            \/ Last(list).next # None /\ Below([id |-> s, at |-> times[s]], Last(list).next)

\* The list the running fetch works on, and the sessions that moved under it.
Reading == IF fetch.kind = "more" THEN pages \o fetch.read ELSE fetch.read
MovedThere == IF fetch.kind = "more" THEN moved.pages ELSE moved.fetch

PagesInv ==
    /\ TypeOK
    /\ Chained(pages, updatedAt) /\ Covers(pages, moved.pages, Mine \cap withTask, updatedAt)
    /\ Chained(Reading, updatedAt) /\ Covers(Reading, MovedThere, Mine \cap withTask, updatedAt)
    /\ fetch.kind = "more" => HasNextPage
    /\ fetch.kind = "none" => fetch.read = <<>>
-----------------------------------------------------------------------------
(* Rows and pages *)

\* A row has an id and a time.
LEMMA EntryType ==
    ASSUME NEW e \in Entries
    PROVE  e.id \in Sessions /\ e.id \in Nat \ {0} /\ e.at \in Nat /\ e # None
<1>1. e.id \in Sessions /\ e.at \in 0..MaxTime
    BY DEF Entries
<1>2. Sessions \subseteq Nat \ {0} /\ MaxTime \in Nat
    BY PagesAssumption
<1>3. e.id \in Nat \ {0} /\ e.at \in Nat
    <2>1. e.id \in Nat \ {0}
        BY <1>1, <1>2
    <2>2. e.at \in Nat
        BY <1>1, <1>2
    <2> QED
        BY <2>1, <2>2
<1>4. e # None
    BY <1>3 DEF None
<1> QED
    BY <1>1, <1>3, <1>4

\* The order of the list is one of rows.
LEMMA BelowOrders ==
    ASSUME NEW a \in Entries, NEW b \in Entries, NEW c \in Entries, Below(a, b), Below(b, c)
    PROVE  Below(a, c)
<1>1. a.id \in Nat /\ b.id \in Nat /\ c.id \in Nat /\ a.at \in Nat /\ b.at \in Nat /\ c.at \in Nat
    BY EntryType
<1> QED
    BY <1>1 DEF Below

\* A page has rows.
LEMMA PageType ==
    ASSUME NEW page \in Pages
    PROVE  /\ page.items \in Seq(Entries) /\ Len(page.items) \in Nat
           /\ \A i \in 1..Len(page.items) : page.items[i] \in Entries
           /\ page.next \in Entries \cup {None}
<1>1. page.items \in Seq(Entries) /\ page.next \in Entries \cup {None}
    BY DEF Pages
<1> QED
    BY <1>1, LenProperties

\* A list has pages.
LEMMA ListType ==
    ASSUME NEW list \in Seq(Pages)
    PROVE  /\ Len(list) \in Nat /\ (list # <<>> => Len(list) >= 1)
           /\ \A k \in 1..Len(list) : list[k] \in Pages
<1>1. Len(list) \in Nat /\ \A k \in 1..Len(list) : list[k] \in Pages
    BY LenProperties
<1>2. list # <<>> => Len(list) # 0
    BY EmptySeq
<1> QED
    BY <1>1, <1>2

\* The sessions on a list of pages.
LEMMA OnPages ==
    ASSUME NEW list \in Seq(Pages), NEW s
    PROVE  s \in Ids(list) <=>
              \E k \in 1..Len(list) : \E i \in 1..Len(list[k].items) : list[k].items[i].id = s
<1>1. ASSUME NEW k \in 1..Len(list)
      PROVE  Range(list[k].items) = {list[k].items[i] : i \in 1..Len(list[k].items)}
    <2>1. PICK items \in Seq(Entries) : items = list[k].items
        BY ListType, PageType
    <2>2. DOMAIN items = 1..Len(items)
        OBVIOUS
    <2> QED
        BY <2>1, <2>2 DEF Range
<1> DEFINE on(k) == {r.id : r \in Range(list[k].items)}
<1>2. ASSUME NEW k \in 1..Len(list)
      PROVE  s \in on(k) <=> \E i \in 1..Len(list[k].items) : list[k].items[i].id = s
    BY <1>1
<1>3. Ids(list) = UNION {on(k) : k \in 1..Len(list)}
    BY DEF Ids
<1> HIDE DEF on
<1>4. s \in Ids(list) <=> \E k \in 1..Len(list) : s \in on(k)
    BY <1>3
<1> QED
    BY <1>2, <1>4

\* A page is what was found, or the first of it with a cursor at its end.
LEMMA PageRows ==
    ASSUME NEW found \in Seq(Entries), NEW page, page = PageOf(found)
    PROVE  /\ page \in Pages
           /\ Len(page.items) <= Len(found)
           /\ \A i \in 1..Len(page.items) : page.items[i] = found[i]
           /\ page.next = None => Len(page.items) = Len(found) /\ Len(found) <= Size
           /\ page.next # None => /\ Len(page.items) = Size /\ Size < Len(found)
                                  /\ page.next = found[Size]
<1>1. Size \in Nat \ {0} /\ Len(found) \in Nat
    BY PagesAssumption
<1>2. CASE Len(found) > Size
    <2>1. page = [items |-> SubSeq(found, 1, Size), next |-> found[Size]]
        BY <1>2 DEF PageOf
    <2>2. /\ SubSeq(found, 1, Size) \in Seq(Entries) /\ Len(SubSeq(found, 1, Size)) = Size
          /\ \A i \in 1..Size : SubSeq(found, 1, Size)[i] = found[i]
        BY <1>1, <1>2
    <2>3. found[Size] \in Entries /\ found[Size] # None
        <3>1. found[Size] \in Entries
            BY <1>1, <1>2
        <3> QED
            BY <3>1, EntryType
    <2>4. /\ page.items = SubSeq(found, 1, Size) /\ page.next = found[Size]
          /\ page \in Pages
        BY <2>1, <2>2, <2>3 DEF Pages
    <2>5. \A i \in 1..Len(page.items) : page.items[i] = found[i]
        BY <2>2, <2>4
    <2>6. Len(page.items) = Size /\ Size < Len(found) /\ Len(page.items) <= Len(found)
        BY <1>1, <1>2, <2>2, <2>4
    <2> QED
        BY <2>3, <2>4, <2>5, <2>6
<1>3. CASE ~(Len(found) > Size)
    <2>1. page = [items |-> found, next |-> None]
        BY <1>3 DEF PageOf
    <2>2. page.items = found /\ page.next = None /\ page \in Pages
        BY <2>1 DEF Pages
    <2> QED
        BY <1>1, <1>3, <2>2
<1> QED
    BY <1>2, <1>3

\* The last of the pages, and one more.
LEMMA OneMore ==
    ASSUME NEW list \in Seq(Pages), NEW page \in Pages
    PROVE  /\ Append(list, page) \in Seq(Pages)
           /\ Len(list) \in Nat /\ Len(Append(list, page)) = Len(list) + 1
           /\ \A k \in 1..Len(list) : Append(list, page)[k] = list[k]
           /\ Append(list, page)[Len(list) + 1] = page
           /\ Last(Append(list, page)) = page
           /\ Append(list, page) # <<>>
           /\ list # <<>> => Len(list) >= 1 /\ Last(list) = list[Len(list)] /\ Last(list) \in Pages
<1>1. /\ Append(list, page) \in Seq(Pages)
      /\ Len(list) \in Nat /\ Len(Append(list, page)) = Len(list) + 1
      /\ \A k \in 1..Len(list) : Append(list, page)[k] = list[k]
      /\ Append(list, page)[Len(list) + 1] = page
    BY AppendProperties
<1>2. /\ list # <<>> => Len(list) >= 1 /\ Last(list) = list[Len(list)] /\ Last(list) \in Pages
      /\ Last(Append(list, page)) = Append(list, page)[Len(Append(list, page))]
    BY ListType DEF Last
<1>3. Append(list, page) # <<>>
    BY <1>1, EmptySeq
<1> QED
    BY <1>1, <1>2, <1>3

\* What a page must be to go on with a list: its rows are those of now, in
\* order, below the cursor, and its own cursor is the last of them.
GoesOn(list, page, times) ==
    /\ list # <<>> => Last(list).next # None
    /\ \A i \in 1..Len(page.items) :
          /\ page.items[i].at = times[page.items[i].id]
          /\ list # <<>> => Below(page.items[i], Last(list).next)
          /\ \A j \in 1..Len(page.items) : i < j => Below(page.items[j], page.items[i])
    /\ page.next # None =>
          Len(page.items) >= 1 /\ page.next = page.items[Len(page.items)]

\* Such a page makes one list with those before: what is below the cursor is
\* below every row, and a row of the same session would be above.
LEMMA ChainGrows ==
    ASSUME NEW list \in Seq(Pages), NEW page \in Pages, NEW times \in [Sessions -> 0..MaxTime],
           Chained(list, times), GoesOn(list, page, times)
    PROVE  Chained(Append(list, page), times)
<1> DEFINE longer == Append(list, page)
           n == Len(list)
<1>1. /\ longer \in Seq(Pages) /\ n \in Nat /\ Len(longer) = n + 1
      /\ \A k \in 1..n : longer[k] = list[k]
      /\ longer[n + 1] = page
      /\ list # <<>> => n >= 1 /\ Last(list) = list[n] /\ Last(list) \in Pages
    BY OneMore
<1>2. /\ page.items \in Seq(Entries) /\ Len(page.items) \in Nat
      /\ \A i \in 1..Len(page.items) : page.items[i] \in Entries
    BY PageType
<1>3. \A k \in 1..n : /\ list[k].items \in Seq(Entries) /\ Len(list[k].items) \in Nat
                      /\ \A i \in 1..Len(list[k].items) : list[k].items[i] \in Entries
    BY ListType, PageType
<1>4. ASSUME NEW k \in 1..n, NEW i \in 1..Len(list[k].items), NEW j \in 1..Len(page.items)
      PROVE  /\ Below(page.items[j], list[k].items[i])
             /\ page.items[j].id # list[k].items[i].id
    <2>1. list # <<>> /\ n >= 1
        BY <1>1, <1>4, EmptySeq
    <2> DEFINE c == Last(list).next
               last == Len(list[n].items)
    <2>2. /\ c # None /\ Below(page.items[j], c) /\ c = list[n].next
        BY <1>1, <2>1 DEF GoesOn
    <2>3. last >= 1 /\ c = list[n].items[last]
        BY <1>1, <2>1, <2>2 DEF Chained, Cursors
    <2>4. last \in 1..Len(list[n].items) /\ n \in 1..n
        BY <1>1, <1>3, <2>1, <2>3
    <2>5. c \in Entries /\ list[k].items[i] \in Entries /\ page.items[j] \in Entries
        BY <1>2, <1>3, <2>3, <2>4
    <2>6. list[k].items[i] = c \/ Below(c, list[k].items[i])
        <3>1. CASE k = n /\ i = last
            BY <2>3, <3>1
        <3>2. CASE k < n \/ (k = n /\ i < last)
            BY <1>1, <1>3, <2>3, <2>4, <3>2 DEF Chained, InOrder
        <3> QED
            BY <1>1, <1>3, <2>4, <3>1, <3>2
    <2> HIDE DEF c, last
    <2>7. Below(page.items[j], list[k].items[i])
        BY <2>2, <2>5, <2>6, BelowOrders
    <2>8. /\ page.items[j].at = times[page.items[j].id]
          /\ list[k].items[i].at <= times[list[k].items[i].id]
        BY DEF GoesOn, Chained, Read
    <2>9. page.items[j].id # list[k].items[i].id
        <3>1. /\ page.items[j].at \in Nat /\ list[k].items[i].at \in Nat
              /\ page.items[j].id \in Nat /\ list[k].items[i].id \in Nat
            BY <2>5, EntryType
        <3>2. PICK p \in Entries, r \in Entries : p = page.items[j] /\ r = list[k].items[i]
            BY <2>5
        <3>3. p.id = r.id => r.at <= p.at
            BY <2>8, <3>2
        <3>4. Below(p, r) /\ p.at \in Nat /\ r.at \in Nat /\ p.id \in Nat /\ r.id \in Nat
            BY <2>7, <3>1, <3>2
        <3>5. p.id # r.id
            BY <3>3, <3>4 DEF Below
        <3> QED
            BY <3>2, <3>5
    <2> QED
        BY <2>7, <2>9
<1>5. ASSUME NEW i \in 1..Len(page.items), NEW j \in 1..Len(page.items), i < j
      PROVE  Below(page.items[j], page.items[i]) /\ page.items[j].id # page.items[i].id
    <2>1. /\ Below(page.items[j], page.items[i])
          /\ page.items[i].at = times[page.items[i].id]
          /\ page.items[j].at = times[page.items[j].id]
        BY <1>5 DEF GoesOn
    <2>2. /\ page.items[i].id \in Nat /\ page.items[j].id \in Nat
          /\ page.items[i].at \in Nat /\ page.items[j].at \in Nat
        BY <1>2, EntryType
    <2> QED
        BY <2>1, <2>2 DEF Below
<1>6. InOrder(longer)
    <2>1. ASSUME NEW k \in 1..n, NEW l \in 1..n, NEW i \in 1..Len(list[k].items),
                 NEW j \in 1..Len(list[l].items), k < l \/ (k = l /\ i < j)
          PROVE  /\ Below(list[l].items[j], list[k].items[i])
                 /\ list[l].items[j].id # list[k].items[i].id
        BY <2>1 DEF Chained, InOrder
    <2> HIDE DEF longer, n
    <2>2. ASSUME NEW k \in 1..Len(longer), NEW l \in 1..Len(longer),
                 NEW i \in 1..Len(longer[k].items), NEW j \in 1..Len(longer[l].items),
                 k < l \/ (k = l /\ i < j)
          PROVE  /\ Below(longer[l].items[j], longer[k].items[i])
                 /\ longer[l].items[j].id # longer[k].items[i].id
        <3>1. CASE l \in 1..n
            <4>1. k \in 1..n /\ longer[k] = list[k] /\ longer[l] = list[l]
                BY <1>1, <2>2, <3>1
            <4> QED
                BY <2>1, <2>2, <3>1, <4>1, SMTT(30)
        <3>2. CASE l = n + 1 /\ k \in 1..n
            BY <1>1, <1>4, <3>2, SMTT(30)
        <3>3. CASE l = n + 1 /\ k = n + 1
            BY <1>1, <1>5, <2>2, <3>3
        <3> QED
            BY <1>1, <2>2, <3>1, <3>2, <3>3
    <2> QED
        BY <2>2 DEF InOrder
<1>7. Read(longer, times)
    <2> HIDE DEF longer, n
    <2>1. ASSUME NEW k \in 1..Len(longer), NEW i \in 1..Len(longer[k].items)
          PROVE  longer[k].items[i].at <= times[longer[k].items[i].id]
        <3>1. CASE k \in 1..n
            BY <1>1, <3>1 DEF Chained, Read, n
        <3>2. CASE k = n + 1
            <4>1. /\ page.items[i].at = times[page.items[i].id] /\ page.items[i] \in Entries
                  /\ longer[k] = page
                BY <1>1, <1>2, <3>2 DEF GoesOn
            <4> QED
                BY <4>1 DEF Entries
        <3> QED
            BY <1>1, <3>1, <3>2
    <2> QED
        BY <2>1 DEF Read
<1>8. Cursors(longer)
    BY <1>1 DEF Cursors, GoesOn, Chained
<1> QED
    BY <1>6, <1>7, <1>8 DEF Chained

\* With such a page every session is covered that was: it is on the page, or
\* below its cursor.
LEMMA CoverGrows ==
    ASSUME NEW list \in Seq(Pages), NEW page \in Pages, NEW times, NEW listed, NEW moves,
           Covers(list, moves, listed, times),
           \A s \in listed :
              (list = <<>> \/ Below([id |-> s, at |-> times[s]], Last(list).next)) =>
                 \/ \E i \in 1..Len(page.items) : page.items[i].id = s
                 \/ page.next # None /\ Below([id |-> s, at |-> times[s]], page.next)
    PROVE  Covers(Append(list, page), moves, listed, times)
<1> DEFINE longer == Append(list, page)
<1>1. /\ longer \in Seq(Pages) /\ Len(list) \in Nat /\ Len(longer) = Len(list) + 1
      /\ \A k \in 1..Len(list) : longer[k] = list[k]
      /\ longer[Len(list) + 1] = page /\ Last(longer) = page
    BY OneMore
<1> HIDE DEF longer
<1>2. ASSUME NEW s \in Ids(list)
      PROVE  s \in Ids(longer)
    <2>1. PICK k \in 1..Len(list) : \E i \in 1..Len(list[k].items) : list[k].items[i].id = s
        BY OnPages
    <2>2. k \in 1..Len(longer) /\ longer[k] = list[k]
        BY <1>1
    <2> QED
        BY <1>1, <2>1, <2>2, OnPages
<1>3. ASSUME NEW s, \E i \in 1..Len(page.items) : page.items[i].id = s
      PROVE  s \in Ids(longer)
    <2>1. Len(list) + 1 \in 1..Len(longer)
        BY <1>1
    <2>2. PICK i \in 1..Len(page.items) : page.items[i].id = s
        BY <1>3
    <2> QED
        BY <1>1, <2>1, <2>2, OnPages
<1>4. ASSUME NEW s \in listed
      PROVE  \/ s \in Ids(longer) \cup moves
             \/ page.next # None /\ Below([id |-> s, at |-> times[s]], page.next)
    <2>1. CASE s \in Ids(list) \cup moves
        BY <1>2, <2>1
    <2>2. CASE list = <<>> \/ Below([id |-> s, at |-> times[s]], Last(list).next)
        BY <1>3, <2>2
    <2> QED
        BY <2>1, <2>2 DEF Covers
<1>5. Covers(longer, moves, listed, times)
    BY <1>1, <1>4 DEF Covers
<1> QED
    BY <1>5 DEF longer

-----------------------------------------------------------------------------
(* The store *)

\* Activity never moves backwards: what was read stays old.
LEMMA ChainKept ==
    ASSUME NEW list \in Seq(Pages), NEW times \in [Sessions -> 0..MaxTime],
           NEW later \in [Sessions -> 0..MaxTime], \A s \in Sessions : times[s] <= later[s],
           Chained(list, times)
    PROVE  Chained(list, later)
<1>1. ASSUME NEW k \in 1..Len(list), NEW i \in 1..Len(list[k].items)
      PROVE  list[k].items[i].at <= later[list[k].items[i].id]
    <2>1. PICK r \in Entries : r = list[k].items[i]
        BY ListType, PageType
    <2>2. r.at <= times[r.id] /\ r.at \in Nat /\ r.id \in Sessions
        BY <2>1, EntryType DEF Chained, Read
    <2>3. times[r.id] \in 0..MaxTime /\ later[r.id] \in 0..MaxTime /\ times[r.id] <= later[r.id]
        BY <2>2
    <2>4. r.at <= later[r.id]
        BY <2>2, <2>3, PagesAssumption
    <2> QED
        BY <2>1, <2>4
<1> QED
    BY <1>1 DEF Chained, Read

\* A session that moves is noted, the others are where they were.
LEMMA CoverKept ==
    ASSUME NEW list, NEW moves, NEW listed, NEW times, NEW listing, NEW later, NEW s,
           \A u \in listing \ {s} : u \in listed /\ later[u] = times[u],
           Covers(list, moves, listed, times)
    PROVE  Covers(list, moves \cup {s}, listing, later)
BY DEF Covers

\* No page is one list, and covers what it need not.
LEMMA NoPages ==
    ASSUME NEW times, NEW moves, NEW listed
    PROVE  Chained(<<>>, times) /\ Covers(<<>>, moves, listed, times)
BY DEF Chained, InOrder, Read, Cursors, Covers

\* What the store answers goes on with the list whose cursor was asked for, and
\* leaves nothing out that is not below its own.
LEMMA AnswerGoesOn ==
    ASSUME TypeOK, NEW list \in Seq(Pages), NEW cursor,
           list = <<>> => cursor = None,
           list # <<>> => cursor = Last(list).next /\ cursor # None,
           NEW page \in PagesFrom(cursor)
    PROVE  /\ page \in Pages /\ GoesOn(list, page, updatedAt)
           /\ \A s \in Mine \cap withTask :
                 (list = <<>> \/ Below([id |-> s, at |-> updatedAt[s]], Last(list).next)) =>
                    \/ \E i \in 1..Len(page.items) : page.items[i].id = s
                    \/ page.next # None /\ Below([id |-> s, at |-> updatedAt[s]], page.next)
<1>1. PICK found \in SeqOf(Candidates(cursor), Size + 1) : Selected(found, cursor) /\ page = PageOf(found)
    BY DEF PagesFrom
<1>2. \A r \in Candidates(cursor) : /\ r \in Entries /\ r.at = updatedAt[r.id]
                                    /\ list # <<>> => Below(r, Last(list).next)
    <2>1. ASSUME NEW s \in Mine \cap withTask
          PROVE  Row(s) \in Entries /\ Row(s).id = s /\ Row(s).at = updatedAt[s]
        BY PagesAssumption DEF TypeOK, Row, Entries
    <2> QED
        BY <2>1 DEF Candidates, Listed
<1>3. /\ found \in Seq(Entries) /\ Len(found) \in Nat
      /\ \A i \in 1..Len(found) : found[i] \in Candidates(cursor)
      /\ Range(found) = {found[i] : i \in 1..Len(found)}
    <2>1. PICK m \in 0..(Size + 1) : found \in [1..m -> Candidates(cursor)]
        BY DEF SeqOf
    <2>2. m \in Nat
        BY PagesAssumption
    <2>3. found \in [1..m -> Entries]
        BY <1>2, <2>1
    <2>4. found \in Seq(Entries) /\ Len(found) = m
        BY <2>2, <2>3
    <2> QED
        BY <2>1, <2>2, <2>4 DEF Range
<1>4. /\ page \in Pages /\ Len(page.items) <= Len(found) /\ Len(page.items) \in Nat
      /\ \A i \in 1..Len(page.items) : page.items[i] = found[i]
      /\ page.next = None => Len(page.items) = Len(found) /\ Len(found) <= Size
      /\ page.next # None => /\ Len(page.items) = Size /\ Size < Len(found)
                             /\ page.next = found[Size]
      /\ Size \in Nat \ {0}
    BY <1>1, <1>3, PageRows, PageType, PagesAssumption
<1>5. GoesOn(list, page, updatedAt)
    <2>1. ASSUME NEW i \in 1..Len(page.items)
          PROVE  /\ page.items[i].at = updatedAt[page.items[i].id]
                 /\ list # <<>> => Below(page.items[i], Last(list).next)
                 /\ \A j \in 1..Len(page.items) : i < j => Below(page.items[j], page.items[i])
        <3>1. i \in 1..Len(found) /\ page.items[i] = found[i]
            BY <1>3, <1>4
        <3>2. ASSUME NEW j \in 1..Len(page.items), i < j
              PROVE  Below(page.items[j], page.items[i])
            <4>1. j \in 1..Len(found) /\ page.items[j] = found[j]
                BY <1>3, <1>4
            <4> QED
                BY <1>1, <3>1, <3>2, <4>1 DEF Selected
        <3> QED
            BY <1>2, <1>3, <3>1, <3>2
    <2>2. page.next # None => Len(page.items) >= 1 /\ page.next = page.items[Len(page.items)]
        BY <1>4
    <2> QED
        BY <2>1, <2>2 DEF GoesOn
<1>6. ASSUME NEW s \in Mine \cap withTask,
             list = <<>> \/ Below([id |-> s, at |-> updatedAt[s]], Last(list).next)
      PROVE  \/ \E i \in 1..Len(page.items) : page.items[i].id = s
             \/ page.next # None /\ Below([id |-> s, at |-> updatedAt[s]], page.next)
    <2>1. Row(s) \in Candidates(cursor)
        BY <1>6 DEF Candidates, Listed, Row
    <2>2. CASE Row(s) \in Range(found)
        <3>1. PICK i \in 1..Len(found) : found[i] = Row(s)
            BY <1>3, <2>2
        <3>2. CASE i <= Len(page.items)
            <4>1. i \in 1..Len(page.items) /\ page.items[i].id = s
                BY <1>3, <1>4, <3>1, <3>2 DEF Row
            <4> QED
                BY <4>1
        <3>3. CASE ~(i <= Len(page.items))
            <4>1. page.next # None /\ Size \in 1..Len(found) /\ Size < i /\ page.next = found[Size]
                BY <1>3, <1>4, <3>3
            <4> QED
                BY <1>1, <3>1, <4>1 DEF Selected, Row
        <3> QED
            BY <3>2, <3>3
    <2>3. CASE Row(s) \notin Range(found)
        <3>1. Len(found) = Size + 1 /\ \A i \in 1..Len(found) : Below(Row(s), found[i])
            BY <1>1, <2>1, <2>3 DEF Selected
        <3>2. page.next # None /\ page.next = found[Size] /\ Size \in 1..Len(found)
            BY <1>3, <1>4, <3>1
        <3> QED
            BY <3>1, <3>2 DEF Row
    <2> QED
        BY <2>2, <2>3
<1> QED
    BY <1>4, <1>5, <1>6

-----------------------------------------------------------------------------
(* The steps *)

\* What the fetch works on is a list of pages.
LEMMA ReadingType ==
    ASSUME TypeOK
    PROVE  /\ Reading \in Seq(Pages) /\ pages \in Seq(Pages) /\ fetch.read \in Seq(Pages)
           /\ MovedThere \subseteq Sessions
<1>1. pages \in Seq(Pages) /\ fetch.read \in Seq(Pages)
    BY DEF TypeOK
<1>2. moved.pages \subseteq Sessions /\ moved.fetch \subseteq Sessions
    BY DEF TypeOK
<1>3. pages \o fetch.read \in Seq(Pages)
    BY <1>1, ConcatProperties
<1> QED
    BY <1>1, <1>2, <1>3 DEF Reading, MovedThere

\* A fetch that starts, or none: it goes on with the pages, or with none.
LEMMA FreshFetch ==
    ASSUME TypeOK, NEW kind \in {"none", "refetch", "more"}, fetch' = [kind |-> kind, read |-> <<>>],
           UNCHANGED <<pages, moved>>
    PROVE  /\ fetch' \in [kind : {"none", "refetch", "more"}, read : Seq(Pages)]
           /\ fetch'.kind = kind /\ fetch'.read = <<>>
           /\ kind = "more" => Reading' = pages /\ MovedThere' = moved.pages
           /\ kind # "more" => Reading' = <<>>
<1>1. fetch'.kind = kind /\ fetch'.read = <<>>
    OBVIOUS
<1>2. <<>> \in Seq(Pages) /\ pages \in Seq(Pages)
    BY DEF TypeOK
<1>3. pages \o <<>> = pages
    BY <1>2, ConcatEmptySeq
<1>4. fetch' \in [kind : {"none", "refetch", "more"}, read : Seq(Pages)]
    BY <1>2
<1> QED
    BY <1>1, <1>3, <1>4 DEF Reading, MovedThere

\* Both lists are empty at first.
LEMMA InitPages ==
    ASSUME Init
    PROVE  PagesInv
<1>1. TypeOK
    BY PagesAssumption DEF Init, TypeOK, Idle
<1>2. pages = <<>> /\ Reading = <<>>
    BY DEF Init, Reading, Idle
<1>3. fetch.kind = "none" /\ fetch.read = <<>>
    BY DEF Init, Idle
<1> QED
    BY <1>1, <1>2, <1>3, NoPages DEF PagesInv

\* A session that is created or worked on moves, for both lists.
LEMMA StoreKeeps ==
    ASSUME PagesInv, NEW s \in Sessions, NEW now \in Times, CreateSession(s, now) \/ AcceptTask(s, now)
    PROVE  PagesInv'
<1> DEFINE listed == Mine \cap withTask
           listing == Mine \cap withTask'
<1>1. /\ TypeOK
      /\ updatedAt' = [updatedAt EXCEPT ![s] = now] /\ now \in 0..MaxTime
      /\ updatedAt[s] <= now
      /\ withTask' \subseteq withTask \cup {s}
      /\ UNCHANGED <<pages, fetch>>
    BY PagesAssumption DEF PagesInv, CreateSession, AcceptTask, Times, TypeOK
<1>2. moved' = [pages |-> moved.pages \cup {s}, fetch |-> moved.fetch \cup {s}]
    BY DEF CreateSession, AcceptTask, Moved
<1>3. /\ updatedAt \in [Sessions -> 0..MaxTime] /\ updatedAt' \in [Sessions -> 0..MaxTime]
      /\ \A u \in Sessions \ {s} : updatedAt'[u] = updatedAt[u]
      /\ \A u \in Sessions : updatedAt[u] <= updatedAt'[u]
    BY <1>1, PagesAssumption DEF TypeOK
<1>4. TypeOK'
    BY <1>1, <1>2, <1>3 DEF TypeOK
<1>5. /\ Reading' = Reading /\ MovedThere' = MovedThere \cup {s}
      /\ moved'.pages = moved.pages \cup {s}
    BY <1>1, <1>2 DEF Reading, MovedThere
<1>6. \A u \in listing \ {s} : u \in listed /\ updatedAt'[u] = updatedAt[u]
    BY <1>1, <1>3, PagesAssumption
<1> HIDE DEF listed, listing
<1>7. Chained(pages, updatedAt') /\ Chained(Reading, updatedAt')
    BY <1>1, <1>3, ChainKept, ReadingType DEF PagesInv
<1>8. Covers(pages, moved.pages, listed, updatedAt) /\ Covers(Reading, MovedThere, listed, updatedAt)
    BY DEF PagesInv, listed
<1>9. Covers(pages, moved.pages \cup {s}, listing, updatedAt')
      /\ Covers(Reading, MovedThere \cup {s}, listing, updatedAt')
    BY <1>6, <1>8, CoverKept
<1>10. (fetch.kind = "more" => HasNextPage)' /\ (fetch.kind = "none" => fetch.read = <<>>)'
    BY <1>1 DEF PagesInv, HasNextPage
<1> QED
    BY <1>1, <1>4, <1>5, <1>7, <1>9, <1>10 DEF PagesInv, listing

\* A fetch that starts, however another is running, goes on with the pages as
\* they are or begins a list of its own.
LEMMA StartKeeps ==
    ASSUME PagesInv, NEW kind \in {"refetch", "more"}, Start(kind), kind = "more" => HasNextPage
    PROVE  PagesInv'
<1>1. TypeOK /\ fetch' = [kind |-> kind, read |-> <<>>] /\ UNCHANGED <<rows, pages, moved>>
    BY DEF PagesInv, Start
<1>2. UNCHANGED <<updatedAt, withTask, pages, moved>>
    BY <1>1 DEF rows
<1>3. /\ fetch' \in [kind : {"none", "refetch", "more"}, read : Seq(Pages)]
      /\ fetch'.kind = kind /\ fetch'.read = <<>>
      /\ kind = "more" => Reading' = pages /\ MovedThere' = moved.pages
      /\ kind # "more" => Reading' = <<>>
    BY <1>1, <1>2, FreshFetch
<1>4. TypeOK'
    BY <1>1, <1>2, <1>3 DEF TypeOK
<1>5. /\ Chained(pages, updatedAt) /\ Covers(pages, moved.pages, Mine \cap withTask, updatedAt)
    BY DEF PagesInv
<1>6. /\ Chained(Reading', updatedAt) /\ Covers(Reading', MovedThere', Mine \cap withTask, updatedAt)
    BY <1>3, <1>5, NoPages
<1>7. HasNextPage' = HasNextPage
    BY <1>2 DEF HasNextPage
<1> QED
    BY <1>2, <1>3, <1>4, <1>5, <1>6, <1>7 DEF PagesInv

\* A page that is read goes on with the list the fetch works on: after the last
\* page there is for "more", after those read so far for a refetch, whose first
\* page begins a list from which nothing has moved yet.
LEMMA ReadKeeps ==
    ASSUME PagesInv, ReadPage
    PROVE  PagesInv'
<1> DEFINE cursor == IF fetch.kind = "more" THEN Last(pages).next
                     ELSE IF fetch.read = <<>> THEN None ELSE Last(fetch.read).next
           listed == Mine \cap withTask
<1>1. /\ TypeOK /\ fetch.kind # "none" /\ ~FetchDone
      /\ UNCHANGED <<updatedAt, withTask, pages>>
      /\ moved' = IF fetch.kind = "refetch" /\ fetch.read = <<>>
                  THEN [moved EXCEPT !.fetch = {}] ELSE moved
    BY DEF PagesInv, ReadPage, rows
<1>2. PICK page \in PagesFrom(cursor) : fetch' = [fetch EXCEPT !.read = Append(@, page)]
    BY DEF ReadPage
<1>3. Reading \in Seq(Pages) /\ pages \in Seq(Pages) /\ fetch.read \in Seq(Pages)
    BY <1>1, ReadingType
<1>4. fetch.kind = "more" => fetch.read = <<>> /\ Reading = pages /\ pages # <<>> /\ Last(pages).next # None
    <2>1. fetch.kind = "more" => fetch.read = <<>> /\ HasNextPage
        BY <1>1 DEF PagesInv, FetchDone
    <2>2. pages \o <<>> = pages
        BY <1>3, ConcatEmptySeq
    <2> QED
        BY <2>1, <2>2 DEF Reading, HasNextPage
<1>5. fetch.kind # "more" => fetch.kind = "refetch" /\ Reading = fetch.read
    BY <1>1 DEF TypeOK, Reading
<1>6. /\ Reading = <<>> => cursor = None
      /\ Reading # <<>> => cursor = Last(Reading).next /\ cursor # None
    BY <1>1, <1>4, <1>5 DEF FetchDone
<1> HIDE DEF cursor
<1>7. /\ page \in Pages /\ GoesOn(Reading, page, updatedAt)
      /\ \A s \in listed :
            (Reading = <<>> \/ Below([id |-> s, at |-> updatedAt[s]], Last(Reading).next)) =>
               \/ \E i \in 1..Len(page.items) : page.items[i].id = s
               \/ page.next # None /\ Below([id |-> s, at |-> updatedAt[s]], page.next)
    BY <1>1, <1>2, <1>3, <1>6, AnswerGoesOn
<1>8. /\ fetch'.kind = fetch.kind /\ fetch'.read = Append(fetch.read, page)
      /\ fetch' \in [kind : {"none", "refetch", "more"}, read : Seq(Pages)]
    <2>1. fetch \in [kind : {"none", "refetch", "more"}, read : Seq(Pages)]
        BY <1>1 DEF TypeOK
    <2>2. Append(fetch.read, page) \in Seq(Pages)
        BY <1>3, <1>7, AppendProperties
    <2> QED
        BY <1>2, <2>1, <2>2
<1>9. Reading' = Append(Reading, page)
    <2>1. CASE fetch.kind = "more"
        <3>1. Reading' = pages \o Append(<<>>, page)
            BY <1>1, <1>4, <1>8, <2>1 DEF Reading
        <3>2. pages \o <<page>> = Append(pages, page)
            BY <1>3, <1>7, AppendIsConcat
        <3> QED
            BY <1>4, <2>1, <3>1, <3>2
    <2>2. CASE fetch.kind # "more"
        BY <1>5, <1>8, <2>2 DEF Reading
    <2> QED
        BY <2>1, <2>2
<1>10. /\ moved' \in [pages : SUBSET Sessions, fetch : SUBSET Sessions] /\ moved'.pages = moved.pages
       /\ MovedThere' = MovedThere \/ Reading = <<>>
    <2>1. moved \in [pages : SUBSET Sessions, fetch : SUBSET Sessions]
        BY <1>1 DEF TypeOK
    <2>2. moved' \in [pages : SUBSET Sessions, fetch : SUBSET Sessions] /\ moved'.pages = moved.pages
        BY <1>1, <2>1
    <2>3. fetch.kind = "refetch" /\ fetch.read = <<>> => Reading = <<>>
        BY <1>5
    <2>4. ~(fetch.kind = "refetch" /\ fetch.read = <<>>) => MovedThere' = MovedThere
        BY <1>1, <1>8 DEF MovedThere
    <2> QED
        BY <2>2, <2>3, <2>4
<1>11. TypeOK'
    BY <1>1, <1>8, <1>10 DEF TypeOK
<1>12. Chained(Reading', updatedAt)
    BY <1>1, <1>3, <1>7, <1>9, ChainGrows DEF PagesInv, TypeOK
<1>13. Covers(Reading', MovedThere', listed, updatedAt)
    <2>1. Covers(Reading, MovedThere', listed, updatedAt)
        BY <1>10, NoPages DEF PagesInv
    <2> HIDE DEF listed
    <2> QED
        BY <1>3, <1>7, <1>9, <2>1, CoverGrows
<1>14. HasNextPage' = HasNextPage
    BY <1>1 DEF HasNextPage
<1> QED
    BY <1>1, <1>8, <1>10, <1>11, <1>12, <1>13, <1>14 DEF PagesInv

\* A fetch that ends leaves the list it worked on, and the moves under it.
LEMMA FinishKeeps ==
    ASSUME PagesInv, Finish
    PROVE  PagesInv'
<1>1. TypeOK /\ FetchDone /\ fetch' = Idle /\ UNCHANGED <<updatedAt, withTask>>
    BY DEF PagesInv, Finish, rows
<1>2. fetch.kind \in {"refetch", "more"}
    BY <1>1 DEF PagesInv, TypeOK, FetchDone
<1>3. /\ pages' = Reading /\ moved' \in [pages : SUBSET Sessions, fetch : SUBSET Sessions]
      /\ moved'.pages = MovedThere
    <2>1. moved \in [pages : SUBSET Sessions, fetch : SUBSET Sessions]
        BY <1>1 DEF TypeOK
    <2>2. CASE fetch.kind = "more"
        BY <2>1, <2>2 DEF Finish, Reading, MovedThere
    <2>3. CASE fetch.kind = "refetch"
        BY <2>1, <2>3 DEF Finish, Reading, MovedThere
    <2> QED
        BY <1>2, <2>2, <2>3
<1>4. fetch'.kind = "none" /\ fetch'.read = <<>> /\ Reading' = <<>>
    BY <1>1 DEF Idle, Reading
<1>5. TypeOK'
    BY <1>1, <1>3, ReadingType DEF TypeOK, Idle
<1>6. /\ Chained(pages', updatedAt') /\ Covers(pages', moved'.pages, Mine \cap withTask', updatedAt')
    BY <1>1, <1>3 DEF PagesInv
<1>7. /\ Chained(Reading', updatedAt') /\ Covers(Reading', MovedThere', Mine \cap withTask', updatedAt')
    BY <1>4, NoPages
<1> QED
    BY <1>4, <1>5, <1>6, <1>7 DEF PagesInv

\* A request that fails leaves the pages.
LEMMA FailKeeps ==
    ASSUME PagesInv, Fail
    PROVE  PagesInv'
<1>1. TypeOK /\ fetch' = [kind |-> "none", read |-> <<>>] /\ UNCHANGED <<updatedAt, withTask, pages, moved>>
    BY DEF PagesInv, Fail, Idle, rows
<1>2. /\ fetch' \in [kind : {"none", "refetch", "more"}, read : Seq(Pages)]
      /\ fetch'.kind = "none" /\ fetch'.read = <<>> /\ Reading' = <<>>
    BY <1>1, FreshFetch
<1>3. TypeOK'
    BY <1>1, <1>2 DEF TypeOK
<1> QED
    BY <1>1, <1>2, <1>3, NoPages DEF PagesInv

-----------------------------------------------------------------------------
(* The theorems *)

\* Whatever tasks are accepted, whichever fetches start, fail or are cancelled,
\* the pages of the query and those of the fetch that runs are each one list,
\* and each leaves out only what moved (store.go: listSessionPageByOwner;
\* Workbench.tsx: the query of sessions).
THEOREM PagesAreSound == Spec => []PagesInv
<1>1. Init => PagesInv
    BY InitPages
<1>2. PagesInv /\ [Next]_vars => PagesInv'
    <2> SUFFICES ASSUME PagesInv, [Next]_vars PROVE PagesInv'
        OBVIOUS
    <2>1. CASE Store
        BY <2>1, StoreKeeps DEF Store
    <2>2. CASE Refetch \/ Invalidate
        BY <2>2, StartKeeps DEF Refetch, Invalidate
    <2>3. CASE FetchNextPage
        BY <2>3, StartKeeps DEF FetchNextPage
    <2>4. CASE ReadPage
        BY <2>4, ReadKeeps
    <2>5. CASE Finish
        BY <2>5, FinishKeeps
    <2>6. CASE Fail
        BY <2>6, FailKeeps
    <2>7. CASE UNCHANGED vars
        BY <2>7 DEF vars, PagesInv, TypeOK, Reading, MovedThere, HasNextPage
    <2> QED
        BY <2>1, <2>2, <2>3, <2>4, <2>5, <2>6, <2>7 DEF Next
<1> QED
    BY <1>1, <1>2, PTL DEF Spec

\* The pages a browser shows, read at different times while sessions move to the
\* top, are one list in order with each session once (store.go: the keyset of
\* listSessionPageByOwner; Touch refuses a time before the last).
THEOREM PagesAreOneList == Spec => []OneList
<1>1. PagesInv => OneList
    BY DEF PagesInv, Chained, OneList
<1> QED
    BY <1>1, PagesAreSound, PTL

\* A listed session that is not shown can be reached by loading more, or moved
\* since the first page was read (store.go: the last row of a page is the next
\* cursor; Workbench.tsx: getNextPageParam).
THEOREM NoneIsSkipped == Spec => []NothingSkipped
<1>1. PagesInv => NothingSkipped
    BY DEF PagesInv, Covers, NothingSkipped, Shown, HasNextPage, Row
<1> QED
    BY <1>1, PagesAreSound, PTL
=============================================================================
