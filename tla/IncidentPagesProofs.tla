--------------------------- MODULE IncidentPagesProofs ---------------------------
(***************************************************************************)
(* Proofs about IncidentPages: walks by cursor are complete, and what the  *)
(* cache answers is fresh, for any incidents, clients, page size and times.*)
(***************************************************************************)
EXTENDS IncidentPages, FiniteSetTheorems, TLAPS

USE DEF client

LEMMA FirstTypes == {0, MaxTime} \subseteq Time /\ First \in Request /\ NoPage \in Page
<1>1. {0, MaxTime} \subseteq Time
  BY ConstantsAssumption DEF Time
<1>2. First \in Request
  BY <1>1 DEF First, Request
<1>3. QED
  BY <1>1, <1>2 DEF NoPage, Page, Cursor

\* What a client holds.
LEMMA ReaderTypes ==
    ASSUME TypeOK, NEW r \in Readers
    PROVE  /\ reader[r] \in Walk /\ reader[r].to \in Request /\ reader[r].got \in Page
           /\ reader[r].began \in Time /\ reader[r].began \in Nat
<1>1. reader[r] \in Walk
  BY DEF TypeOK
<1>2. QED
  BY <1>1 DEF Walk, Time

LEMMA InitPages == Init => PagesInv
<1> SUFFICES ASSUME Init PROVE PagesInv
  OBVIOUS
<1>1. TypeOK
  <2>1. {0, 1, MaxTime} \subseteq Time
    BY ConstantsAssumption DEF Time
  <2>2. First \in Request /\ NoPage \in Page
    BY <2>1, FirstTypes
  <2>3. now \in Time /\ writes \in 0..MaxWrites
    BY <2>1, ConstantsAssumption DEF Init
  <2>4. row \in [Ids -> [state : {"none", "open", "closed"}, seen : Time, at : Time]]
    BY <2>1 DEF Init, NoRow
  <2>5. reader \in [Readers -> Walk]
    BY <2>1, <2>2 DEF Init, Walk
  <2>6. shown \in [Readers -> [Ids -> Nat]] /\ oldest \in [Readers -> Time]
    BY <2>1 DEF Init, Unseen
  <2>7. QED
    BY <2>3, <2>4, <2>5, <2>6 DEF TypeOK, Init
<1>2. CacheInv
  BY DEF Init, CacheInv
<1>3. ReaderInv
  BY DEF Init, ReaderInv, QueryRight, WalkRight, First, Unseen, Passed
<1>4. QED
  BY <1>1, <1>2, <1>3 DEF PagesInv

-----------------------------------------------------------------------------
(* The pages. *)

\* Two incidents are in one order or the other: the rows below l are those
\* that l is ahead of.
LEMMA BelowIsBehind ==
    ASSUME TypeOK, NEW l \in Ids, NEW j \in Ids
    PROVE  Below(j, [seen |-> row[l].seen, id |-> l]) <=> Ahead(l, j)
  BY ConstantsAssumption DEF TypeOK, Below, Ahead, Time

\* The first page begins with the first row.
LEMMA FirstRest ==
    ASSUME TypeOK, NEW to \in Request, to.id = 0, to.page = 1
    PROVE  Rest(to) = Listed
<1>1. \A i \in Listed : Rank(i, Listed) \in Nat
  <2> TAKE i \in Listed
  <2>1. IsFiniteSet({j \in Listed : Ahead(j, i)})
    BY ConstantsAssumption, FS_Subset DEF Listed
  <2>2. QED
    BY <2>1, FS_CardinalityType DEF Rank
<1>2. Skipped(to) = 0
  BY ConstantsAssumption DEF Skipped
<1>3. QED
  BY <1>1, <1>2 DEF Rest, UseCursor

\* The part of the list that a request of a walk asks for.
LEMMA RestOfWalk ==
    ASSUME TypeOK, NEW to \in Request, OfWalk(to), NEW i \in Ids
    PROVE  i \in Rest(to) <=> row[i].state \in Filter /\ (to.id # 0 => Below(i, to))
<1>1. CASE to.id = 0
  BY <1>1, FirstRest DEF OfWalk, Listed
<1>2. CASE to.id # 0
  BY <1>2 DEF Rest, UseCursor, Listed
<1>3. QED
  BY <1>1, <1>2

\* What the query returns is a right page for its request, read now.
LEMMA ListIsRight ==
    ASSUME TypeOK, NEW to \in Request, NEW p \in List(to)
    PROVE  p \in Page /\ PageRight(p) /\ p.to = to /\ p.asOf = now
<1>0. now \in Time /\ now \in Nat
  BY DEF TypeOK, Time
<1>1. CASE \E items \in SUBSET Rest(to) :
              LastPage(to, items) /\ p = Result(to, items, FALSE, NoPage.last)
  <2>1. PICK items \in SUBSET Rest(to) :
              LastPage(to, items) /\ p = Result(to, items, FALSE, NoPage.last)
    BY <1>1
  <2>2. p \in Page
    <3>1. items \subseteq Ids
      BY <2>1 DEF Rest, Listed
    <3>2. NoPage.last \in Cursor
      BY FirstTypes DEF Page
    <3>3. QED
      BY <1>0, <2>1, <3>1, <3>2 DEF Result, Page
  <2>3. PageRight(p)
    BY <1>0, <2>1, RestOfWalk DEF Result, PageRight, LastPage
  <2>4. QED
    BY <2>1, <2>2, <2>3 DEF Result
<1>2. CASE \E items \in SUBSET Rest(to), l \in Rest(to) :
              FullPage(to, items, l) /\ p = Result(to, items, TRUE, CursorAt(l))
  <2>1. PICK items \in SUBSET Rest(to), l \in Rest(to) :
              FullPage(to, items, l) /\ p = Result(to, items, TRUE, CursorAt(l))
    BY <1>2
  <2>2. Rest(to) \subseteq Ids /\ l \in Ids /\ l # 0
    BY <2>1, ConstantsAssumption DEF Rest, Listed
  <2>3. p \in Page
    BY <1>0, <2>1, <2>2 DEF Result, CursorAt, Page, Cursor, TypeOK
  <2>4. to.id # 0 => \/ p.last.seen < to.seen
                     \/ p.last.seen = to.seen /\ p.last.id < to.id
    <3>1. to.id # 0 => Below(l, to)
      BY <2>1 DEF Rest, UseCursor
    <3>2. QED
      BY <2>1, <3>1 DEF Below, Result, CursorAt
  <2>5. ASSUME OfWalk(to), NEW i \in Ids
        PROVE  i \in items <=> /\ row[i].state \in Filter
                               /\ to.id # 0 => Below(i, to)
                               /\ ~Below(i, p.last)
    <3>1. Below(i, p.last) <=> Ahead(l, i)
      BY <2>1, <2>2, BelowIsBehind DEF Result, CursorAt
    <3>2. i \in items <=> i \in Rest(to) /\ ~Ahead(l, i)
      BY <2>1 DEF FullPage
    <3>3. QED
      BY <2>5, <3>1, <3>2, RestOfWalk
  <2>6. PageRight(p)
    BY <1>0, <2>1, <2>2, <2>4, <2>5 DEF PageRight, Result, CursorAt
  <2>7. QED
    BY <2>1, <2>3, <2>6 DEF Result
<1>3. QED
  BY <1>1, <1>2 DEF List

\* Pages stay right while rows are written now or later.
LEMMA StaysRight ==
    ASSUME TypeOK, TypeOK', NEW p \in Page, PageRight(p), now <= now',
           \A i \in Ids : row'[i] = row[i] \/ row'[i].at = now'
    PROVE  PageRight(p)'
<1>1. p.asOf \in Nat /\ now \in Nat /\ now' \in Nat
  BY DEF Page, Time, TypeOK
<1>2. ASSUME NEW i \in Ids, row'[i].at < p.asOf
      PROVE  row'[i] = row[i]
  BY <1>1, <1>2 DEF PageRight
<1>3. QED
  BY <1>1, <1>2 DEF PageRight, Below

-----------------------------------------------------------------------------
(* The steps of a client. *)

\* A client's step leaves the others as they are.
LEMMA OthersStay ==
    ASSUME PagesInv, NEW r \in Readers, NEW o \in Readers \ {r},
           UNCHANGED <<now, row>>, reader'[o] = reader[o],
           shown'[o] = shown[o], oldest'[o] = oldest[o]
    PROVE  QueryRight(o)' /\ WalkRight(o)'
<1>1. QueryRight(o)'
  BY DEF PagesInv, ReaderInv, QueryRight, PageRight, Below
<1>2. WalkRight(o)'
  BY DEF PagesInv, ReaderInv, WalkRight, Still, Passed, Below
<1>3. QED
  BY <1>1, <1>2

\* The next request of a client is right, too.
LEMMA NextIsRequest ==
    ASSUME TypeOK, NEW r \in Readers, NEW p \in Page
    PROVE  NextRequest(r, p) \in Request
<1>1. p.last.seen \in Time /\ p.last.id \in Ids \cup {0} /\ 0 \in Time
  BY FirstTypes DEF Page, Cursor
<1>2. reader[r].to.page + 1 \in Nat
  BY ReaderTypes DEF Request
<1>3. QED
  BY <1>1, <1>2 DEF NextRequest, Request

\* A client that is given a right page of its request has been shown what it has
\* passed.
LEMMA AnswerWalk ==
    ASSUME PagesInv, NEW r \in Readers, NEW p \in Page, PageRight(p),
           p.to = reader[r].to, reader[r].pc \in {"ask", "read"},
           UNCHANGED <<now, row>>, Answer(r, p)
    PROVE  /\ reader' \in [Readers -> Walk]
           /\ shown' \in [Readers -> [Ids -> Nat]]
           /\ oldest' \in [Readers -> Time]
           /\ ReaderInv'
<1> DEFINE to == reader[r].to
<1>0. TypeOK /\ WalkRight(r)
  BY DEF PagesInv, ReaderInv
<1>1. NextRequest(r, p) \in Request
  BY <1>0, NextIsRequest
<1>2. /\ reader' \in [Readers -> Walk]
      /\ reader'[r].by = reader[r].by
      /\ reader'[r].pc = IF p.more THEN "ask" ELSE "end"
      /\ reader'[r].to = IF p.more THEN NextRequest(r, p) ELSE to
      /\ \A o \in Readers \ {r} : reader'[o] = reader[o]
  <2>1. NoPage \in Page /\ 0 \in Time
    BY FirstTypes
  <2> DEFINE next == GoesOn(r, p)
  <2>2. reader[r] \in Walk
    BY <1>0 DEF TypeOK
  <2>3. /\ next \in Walk
        /\ next.by = reader[r].by /\ next.pc = IF p.more THEN "ask" ELSE "end"
        /\ next.to = IF p.more THEN NextRequest(r, p) ELSE to
    BY <1>1, <2>1, <2>2 DEF GoesOn, Walk
  <2>4. reader' = [reader EXCEPT ![r] = next]
    BY DEF Answer
  <2> HIDE DEF next
  <2>5. QED
    BY <1>0, <2>3, <2>4 DEF TypeOK
<1>3. /\ shown' \in [Readers -> [Ids -> Nat]]
      /\ \A i \in Ids : shown'[r][i] = shown[r][i] + IF i \in p.items THEN 1 ELSE 0
      /\ \A o \in Readers \ {r} : shown'[o] = shown[o]
  BY <1>0 DEF Answer, TypeOK
<1>4. /\ oldest' \in [Readers -> Time]
      /\ oldest'[r] <= oldest[r] /\ oldest'[r] <= p.asOf
      /\ \A o \in Readers \ {r} : oldest'[o] = oldest[o]
  BY <1>0 DEF Answer, TypeOK, Page, Time
<1>5. QueryRight(r)'
  BY <1>2 DEF QueryRight
<1>6. ASSUME reader[r].by = "cursor"
      PROVE  WalkRight(r)'
  <2>1. to.page = 1 /\ OfWalk(to)
    BY <1>0, <1>6 DEF WalkRight, OfWalk
  <2>2. reader'[r].to.page = 1
    BY <1>2, <1>6, <2>1 DEF NextRequest
  <2>3. oldest'[r] <= now
    BY <1>0, <1>4 DEF PageRight, Page, Time, TypeOK
  <2>4. ASSUME NEW i \in Ids, Still(r, i)'
        PROVE  shown'[r][i] = IF row[i].state \in Filter /\ Passed(r, i)' THEN 1 ELSE 0
    <3>1. row[i].at < p.asOf /\ Still(r, i)
      BY <1>0, <1>4, <2>4 DEF Still, TypeOK, Page, Time
    <3>2. shown[r][i] = IF row[i].state \in Filter /\ to.id # 0 /\ ~Below(i, to) THEN 1 ELSE 0
      BY <1>0, <1>6, <3>1 DEF WalkRight, Passed
    <3>3. i \in p.items <=> /\ row[i].state \in Filter
                            /\ to.id # 0 => Below(i, to)
                            /\ p.more => ~Below(i, p.last)
      BY <2>1, <3>1 DEF PageRight
    <3>4. CASE ~p.more
      BY <1>2, <1>3, <3>2, <3>3, <3>4 DEF Passed
    <3>5. CASE p.more
      <4>1. reader'[r].to = [page |-> 1, seen |-> p.last.seen, id |-> p.last.id]
        BY <1>2, <1>6, <3>5 DEF NextRequest
      <4>2. Passed(r, i)' <=> ~Below(i, p.last)
        BY <1>2, <3>5, <4>1 DEF Passed, Below, PageRight
      <4>3. to.id # 0 /\ Below(i, p.last) => Below(i, to)
        <5>1. /\ row[i].seen \in Nat /\ i \in Nat
              /\ p.last.seen \in Nat /\ p.last.id \in Nat /\ to.seen \in Nat /\ to.id \in Nat
          <6>1. \A t \in Time : t \in Nat
            BY DEF Time
          <6>2. \A x \in Ids \cup {0} : x \in Nat
            BY ConstantsAssumption
          <6>3. row[i].seen \in Time /\ p.last \in Cursor /\ to \in Request
            BY <1>0 DEF TypeOK, Page
          <6>4. QED
            BY <6>1, <6>2, <6>3 DEF Cursor, Request
        <5>2. QED
          BY <3>5, <5>1 DEF PageRight, Below
      <4>4. QED
        BY <1>3, <3>2, <3>3, <3>5, <4>2, <4>3
    <3>6. QED
      BY <3>4, <3>5
  <2>5. QED
    BY <2>2, <2>3, <2>4 DEF WalkRight
<1>7. ReaderInv'
  BY <1>2, <1>3, <1>4, <1>5, <1>6, OthersStay DEF ReaderInv, WalkRight
<1>8. QED
  BY <1>2, <1>3, <1>4, <1>7

\* The pages in the cache stay right when none is added.
LEMMA CacheStays ==
    ASSUME PagesInv, UNCHANGED <<now, row>>, cache' \subseteq cache
    PROVE  /\ CacheInv'
           /\ cache' \in SUBSET Page /\ \A p, q \in cache' : p.to = q.to => p = q
<1>1. CacheInv'
  BY DEF PagesInv, CacheInv, PageRight, Below
<1>2. QED
  BY <1>1 DEF PagesInv, TypeOK

LEMMA HitStep ==
    ASSUME PagesInv, NEW r \in Readers, Hit(r)
    PROVE  PagesInv'
<1>1. PICK p \in Fresh(reader[r].to) : Answer(r, p)
  BY DEF Hit
<1>2. p \in Page /\ PageRight(p) /\ p.to = reader[r].to
  BY DEF Fresh, Cached, PagesInv, CacheInv, TypeOK
<1>3. /\ ReaderInv'
      /\ TypeOK'
  BY <1>1, <1>2, AnswerWalk DEF Hit, PagesInv, TypeOK
<1>4. CacheInv'
  BY CacheStays DEF Hit
<1>5. QED
  BY <1>3, <1>4 DEF PagesInv

LEMMA FillStep ==
    ASSUME PagesInv, NEW r \in Readers, Fill(r)
    PROVE  PagesInv'
<1> DEFINE p == reader[r].got
           s == [p EXCEPT !.expires = now + TTL]
<1>1. TypeOK /\ QueryRight(r) /\ CacheInv /\ reader[r].pc = "read"
  BY DEF PagesInv, ReaderInv, Fill
<1>2. p \in Page /\ PageRight(p) /\ p.to = reader[r].to
  BY <1>1, ReaderTypes DEF QueryRight
<1>3. /\ now' = now /\ row' = row /\ writes' = writes
      /\ Answer(r, p)
      /\ cache' = (cache \ Cached(p.to)) \cup {s}
  BY DEF Fill, Stored
<1>4. s \in Page /\ s.to = p.to /\ s.asOf = p.asOf /\ s.items = p.items /\ s.more = p.more
      /\ s.last = p.last /\ s.expires = now + TTL
  <2>1. now + TTL \in Nat
    BY <1>1, ConstantsAssumption DEF TypeOK, Time
  <2>2. QED
    BY <1>2, <2>1 DEF Page
<1>5. PageRight(s) /\ s.expires <= s.asOf + Timeout + TTL
  <2>1. PageRight(s)
    BY <1>2, <1>4 DEF PageRight, OfWalk
  <2>2. now <= p.asOf + Timeout
    BY <1>1, <1>2, ReaderTypes, ConstantsAssumption DEF QueryRight, TypeOK, Page, Time
  <2>3. QED
    BY <1>1, <1>2, <1>4, <2>1, <2>2, ConstantsAssumption DEF TypeOK, Page, Time
<1>6. CacheInv'
  <2> SUFFICES ASSUME NEW q \in cache'
               PROVE  PageRight(q)' /\ q.expires <= q.asOf + Timeout + TTL
    BY DEF CacheInv
  <2>1. PageRight(q) /\ q.expires <= q.asOf + Timeout + TTL
    BY <1>1, <1>3, <1>5 DEF CacheInv
  <2>2. QED
    BY <1>3, <2>1 DEF PageRight, Below
<1>7. cache' \in SUBSET Page /\ \A a, b \in cache' : a.to = b.to => a = b
  BY <1>1, <1>3, <1>4 DEF TypeOK, Cached
<1>8. ReaderInv' /\ TypeOK'
  BY <1>1, <1>2, <1>3, <1>7, AnswerWalk DEF TypeOK
<1>9. QED
  BY <1>6, <1>8 DEF PagesInv

\* Steps that give the client no page.
LEMMA WaitStep ==
    ASSUME PagesInv, NEW r \in Readers, Miss(r) \/ Delete(r) \/ Read(r)
    PROVE  PagesInv'
<1>0. TypeOK /\ QueryRight(r) /\ WalkRight(r)
  BY DEF PagesInv, ReaderInv
<1>1. /\ UNCHANGED <<now, row, writes, shown, oldest>>
      /\ cache' \subseteq cache
      /\ \A o \in Readers \ {r} : reader'[o] = reader[o]
  BY <1>0 DEF Miss, Delete, Read, TypeOK
<1>2. /\ reader' \in [Readers -> Walk]
      /\ QueryRight(r)'
      /\ reader'[r].by = reader[r].by /\ reader'[r].to = reader[r].to
      /\ reader[r].pc # "end" /\ reader'[r].pc # "end"
  <2>1. CASE Miss(r) \/ Delete(r)
    <3>1. PICK next \in {[reader[r] EXCEPT !.pc = "query", !.began = now],
                         [reader[r] EXCEPT !.pc = "expired"]} :
             reader' = [reader EXCEPT ![r] = next]
      BY <2>1 DEF Miss, Delete
    <3>2. reader[r].pc # "end"
      BY <2>1 DEF Miss, Delete
    <3>3. /\ next \in Walk
          /\ next.by = reader[r].by /\ next.to = reader[r].to
          /\ \/ next.pc = "query" /\ next.began = now
             \/ next.pc = "expired"
      BY <1>0, <3>1, ReaderTypes DEF TypeOK, Walk
    <3>4. now \in Nat
      BY <1>0 DEF TypeOK, Time
    <3>5. reader'[r] = next
      BY <1>0, <3>1 DEF TypeOK
    <3>6. QueryRight(r)'
      BY <1>1, <3>3, <3>4, <3>5, ConstantsAssumption DEF QueryRight
    <3>7. QED
      BY <1>0, <3>1, <3>2, <3>3, <3>5, <3>6 DEF TypeOK
  <2>2. CASE Read(r)
    <3>1. PICK p \in List(reader[r].to) :
             reader' = [reader EXCEPT ![r] = [@ EXCEPT !.pc = "read", !.got = p]]
      BY <2>2 DEF Read
    <3>2. p \in Page /\ PageRight(p) /\ p.to = reader[r].to /\ p.asOf = now
      BY <1>0, ListIsRight, ReaderTypes
    <3>3. PageRight(p)'
      BY <1>1, <3>2 DEF PageRight, Below
    <3>4. /\ reader' \in [Readers -> Walk]
          /\ reader'[r] = [reader[r] EXCEPT !.pc = "read", !.got = p]
      <4>1. [reader[r] EXCEPT !.pc = "read", !.got = p] \in Walk
        BY <1>0, <3>2, ReaderTypes DEF Walk
      <4>2. QED
        BY <1>0, <3>1, <4>1 DEF TypeOK
    <3>5. reader[r].pc = "query" /\ reader[r] \in Walk /\ reader[r].began \in Nat /\ now \in Nat
      <4>1. now \in Nat
        BY <1>0 DEF TypeOK, Time
      <4>2. QED
        BY <1>0, <2>2, <4>1, ReaderTypes DEF Read
    <3>6. /\ reader'[r].pc = "read" /\ reader'[r].got = p /\ reader'[r].began = reader[r].began
          /\ reader'[r].by = reader[r].by /\ reader'[r].to = reader[r].to
      BY <3>4, <3>5 DEF Walk
    <3>7. QueryRight(r)'
      BY <1>0, <1>1, <3>2, <3>3, <3>5, <3>6 DEF QueryRight
    <3>8. QED
      BY <3>4, <3>5, <3>6, <3>7
  <2>3. QED
    BY <2>1, <2>2
<1>3. WalkRight(r)'
  BY <1>0, <1>1, <1>2 DEF WalkRight, Still, Passed, Below
<1>4. ReaderInv'
  BY <1>1, <1>2, <1>3, OthersStay DEF ReaderInv
<1>5. QED
  BY <1>0, <1>1, <1>2, <1>4, CacheStays DEF PagesInv, TypeOK

LEMMA FailStep ==
    ASSUME PagesInv, NEW r \in Readers, Fail(r)
    PROVE  PagesInv'
<1>0. TypeOK
  BY DEF PagesInv
<1>1. /\ TypeOK'
      /\ reader'[r] = [reader[r] EXCEPT !.pc = "failed", !.to = First, !.got = NoPage, !.began = 0]
      /\ shown'[r] = Unseen
      /\ \A o \in Readers \ {r} : reader'[o] = reader[o] /\ shown'[o] = shown[o]
                                  /\ oldest'[o] = oldest[o]
  <2>1. NoPage \in Page /\ First \in Request /\ {0, MaxTime} \subseteq Time
        /\ Unseen \in [Ids -> Nat]
    BY ConstantsAssumption DEF NoPage, Page, First, Request, Cursor, Time, Unseen
  <2>2. QED
    <3>1. [reader[r] EXCEPT !.pc = "failed", !.to = First, !.got = NoPage, !.began = 0] \in Walk
      BY <1>0, <2>1, ReaderTypes DEF Walk
    <3>2. reader' \in [Readers -> Walk]
          /\ reader'[r] = [reader[r] EXCEPT !.pc = "failed", !.to = First, !.got = NoPage, !.began = 0]
      BY <1>0, <3>1 DEF Fail, TypeOK
    <3>3. shown' \in [Readers -> [Ids -> Nat]] /\ shown'[r] = Unseen
          /\ oldest' \in [Readers -> Time]
      BY <1>0, <2>1 DEF Fail, TypeOK
    <3>4. QED
      BY <1>0, <3>2, <3>3 DEF Fail, TypeOK
<1>2. QueryRight(r)' /\ WalkRight(r)'
  BY <1>0, <1>1 DEF QueryRight, WalkRight, Passed, Unseen, First, TypeOK
<1>3. ReaderInv' /\ CacheInv'
  BY <1>1, <1>2, OthersStay, CacheStays DEF ReaderInv, Fail
<1>4. QED
  BY <1>1, <1>3 DEF PagesInv

-----------------------------------------------------------------------------
(* The steps of the others. *)

LEMMA WriteStep ==
    ASSUME PagesInv, NEW i \in Ids, Write(i)
    PROVE  PagesInv'
<1>0. TypeOK /\ CacheInv /\ ReaderInv
  BY DEF PagesInv
<1>1. TypeOK' /\ UNCHANGED <<now, cache, reader, shown, oldest>>
  <2>1. PICK seen \in 0..now, state \in {"open", "closed"} :
            row' = [row EXCEPT ![i] = [state |-> state, seen |-> seen, at |-> now]]
    BY DEF Write
  <2>2. seen \in Time /\ now \in Time
    BY <1>0, ConstantsAssumption DEF TypeOK, Time
  <2>3. row' \in [Ids -> [state : {"none", "open", "closed"}, seen : Time, at : Time]]
    BY <1>0, <2>1, <2>2 DEF TypeOK
  <2>4. writes' \in 0..MaxWrites
    BY <1>0, ConstantsAssumption DEF Write, TypeOK
  <2>5. QED
    BY <1>0, <2>3, <2>4 DEF Write, TypeOK
<1>2. \A j \in Ids : row'[j] = row[j] \/ row'[j].at = now
  BY <1>0 DEF Write, TypeOK
<1>3. now \in Nat /\ now <= now'
  BY <1>0, <1>1 DEF TypeOK, Time
<1>4. CacheInv'
  BY <1>0, <1>1, <1>2, <1>3, StaysRight DEF CacheInv, TypeOK
<1>5. ASSUME NEW r \in Readers
      PROVE  QueryRight(r)' /\ WalkRight(r)'
  <2>0. QueryRight(r) /\ WalkRight(r) /\ reader[r].got \in Page
    BY <1>0, ReaderTypes DEF ReaderInv
  <2>1. QueryRight(r)'
    BY <1>0, <1>1, <1>2, <1>3, <2>0, StaysRight DEF QueryRight
  <2>2. WalkRight(r)'
    <3> SUFFICES ASSUME reader[r].by = "cursor", NEW j \in Ids, Still(r, j)'
                 PROVE  shown[r][j] = IF row'[j].state \in Filter /\ Passed(r, j)' THEN 1 ELSE 0
      BY <1>1, <2>0 DEF WalkRight
    <3>1. CASE row'[j] = row[j]
      BY <1>1, <2>0, <3>1 DEF WalkRight, Still, Passed, Below
    <3>2. CASE row'[j].at = now
      <4>1. ~(oldest[r] <= now)
        BY <1>0, <1>1, <1>3, <3>2 DEF Still, TypeOK, Time
      <4>2. QED
        BY <1>1, <2>0, <4>1 DEF WalkRight, Passed
    <3>3. QED
      BY <1>2, <3>1, <3>2
  <2>3. QED
    BY <2>1, <2>2
<1>6. QED
  BY <1>1, <1>4, <1>5 DEF PagesInv, ReaderInv

LEMMA TickStep ==
    ASSUME PagesInv, Tick
    PROVE  PagesInv'
<1>0. TypeOK /\ CacheInv /\ ReaderInv
  BY DEF PagesInv
<1>1. /\ TypeOK' /\ now \in Nat /\ now' = now + 1
      /\ UNCHANGED <<row, cache, reader, shown, oldest>>
  BY <1>0, ConstantsAssumption DEF Tick, TypeOK, Time
<1>2. CacheInv'
  BY <1>0, <1>1, StaysRight DEF CacheInv, TypeOK
<1>3. ASSUME NEW r \in Readers
      PROVE  QueryRight(r)' /\ WalkRight(r)'
  <2>0. /\ QueryRight(r) /\ WalkRight(r) /\ reader[r].got \in Page
        /\ reader[r].began \in Nat /\ oldest[r] \in Nat
    BY <1>0, ReaderTypes DEF ReaderInv, TypeOK, Time
  <2>1. reader[r].pc = "read" => PageRight(reader[r].got)'
    BY <1>0, <1>1, <2>0, StaysRight DEF QueryRight
  <2>2. reader[r].pc \in {"query", "read"} =>
          reader[r].began <= now' /\ now' <= reader[r].began + Timeout
    BY <1>1, <2>0, ConstantsAssumption DEF QueryRight, Tick
  <2>3. QueryRight(r)'
    BY <1>1, <2>0, <2>1, <2>2 DEF QueryRight
  <2>4. oldest[r] <= now => oldest[r] <= now'
    BY <1>1, <2>0
  <2>5. WalkRight(r)'
    BY <1>1, <2>0, <2>4 DEF WalkRight, Still, Passed, Below
  <2>6. QED
    BY <2>3, <2>5
<1>4. QED
  BY <1>1, <1>2, <1>3 DEF PagesInv, ReaderInv

LEMMA PagesStep == PagesInv /\ [Next]_vars => PagesInv'
<1> SUFFICES ASSUME PagesInv, [Next]_vars PROVE PagesInv'
  OBVIOUS
<1>1. ASSUME NEW r \in Readers, Step(r) PROVE PagesInv'
  BY <1>1, HitStep, FillStep, WaitStep, FailStep DEF Step
<1>2. ASSUME NEW i \in Ids, Write(i) PROVE PagesInv'
  BY <1>2, WriteStep
<1>3. CASE Tick
  BY <1>3, TickStep
<1>4. CASE UNCHANGED vars
  BY <1>4 DEF vars, PagesInv, TypeOK, CacheInv, ReaderInv, QueryRight, WalkRight, PageRight,
              Still, Passed, Below
<1>5. QED
  BY <1>1, <1>2, <1>3, <1>4 DEF Next

\* Why the properties hold, for any number of clients and incidents: pages are
\* right, cached ones are not too old, and clients were shown what they passed.
THEOREM PagesInvariant == Spec => []PagesInv
  BY InitPages, PagesStep, PTL DEF Spec

-----------------------------------------------------------------------------
(* The properties. *)

\* Rows, cache and clients are well-typed; the cache has one page for a request.
THEOREM TypeCorrect == Spec => []TypeOK
<1>1. PagesInv => TypeOK
  BY DEF PagesInv
<1>2. QED
  BY <1>1, PagesInvariant, PTL

\* A walk by cursor shows every incident that did not change exactly once if it
\* is one that was asked for, for any filter, page size and number of writers.
THEOREM WalksComplete == Spec => []WalkComplete
<1>1. PagesInv => WalkComplete
  BY DEF PagesInv, ReaderInv, WalkRight, WalkComplete, Passed
<1>2. QED
  BY <1>1, PagesInvariant, PTL

\* What the cache answers is never older than timeout and TTL together.
THEOREM CacheIsFresh == Spec => []ListFresh
<1>1. PagesInv => ListFresh
  <2> SUFFICES ASSUME PagesInv, NEW p \in cache, p \in Fresh(p.to)
               PROVE  now <= p.asOf + Timeout + TTL
    BY DEF ListFresh
  <2>1. now <= p.expires /\ p.expires <= p.asOf + Timeout + TTL
    BY DEF PagesInv, CacheInv, Fresh
  <2>2. now \in Nat /\ p.expires \in Nat /\ p.asOf \in Nat
    BY DEF PagesInv, TypeOK, Page, Time
  <2>3. QED
    BY <2>1, <2>2, ConstantsAssumption
<1>2. QED
  BY <1>1, PagesInvariant, PTL

\* The cursor of a client goes down with every page, wherever it comes from.
THEOREM CursorsDescend == Spec => CursorDescends
<1> DEFINE Descends(r) ==
        LET c == reader[r].to
            d == reader'[r].to
        IN  c.id # 0 /\ d.id # 0 /\ c # d => d.seen < c.seen \/ (d.seen = c.seen /\ d.id < c.id)
<1>1. ASSUME PagesInv, NEW r \in Readers, NEW p \in Page, PageRight(p), p.to = reader[r].to,
             Answer(r, p)
      PROVE  \A o \in Readers : Descends(o)
  <2>1. TypeOK
    BY <1>1 DEF PagesInv
  <2>2. \A o \in Readers \ {r} : reader'[o] = reader[o]
    BY <1>1, <2>1 DEF Answer, TypeOK
  <2>3. reader'[r].to = IF p.more THEN NextRequest(r, p) ELSE reader[r].to
    <3>1. r \in DOMAIN reader
      BY <2>1 DEF TypeOK
    <3>2. reader[r] \in Walk
      BY <2>1 DEF TypeOK
    <3>3. reader'[r] = GoesOn(r, p)
      BY <1>1, <3>1 DEF Answer
    <3>4. QED
      BY <3>2, <3>3 DEF GoesOn, Walk
  <2>4. Descends(r)
    BY <1>1, <2>3 DEF NextRequest, PageRight
  <2>5. QED
    BY <2>2, <2>4
<1>2. ASSUME PagesInv, NEW r \in Readers, Step(r)
      PROVE  \A o \in Readers : Descends(o)
  <2>1. CASE Hit(r)
    BY <1>1, <1>2, <2>1 DEF Hit, Fresh, Cached, PagesInv, CacheInv, TypeOK
  <2>2. CASE Fill(r)
    BY <1>1, <1>2, <2>2, ReaderTypes DEF Fill, PagesInv, ReaderInv, QueryRight
  <2>3. CASE Miss(r) \/ Delete(r) \/ Read(r) \/ Fail(r)
    <3>1. reader \in [Readers -> Walk]
      BY <1>2 DEF PagesInv, TypeOK
    <3>2. CASE Miss(r) \/ Delete(r) \/ Read(r)
      <4>1. PICK next \in {[reader[r] EXCEPT !.pc = "query", !.began = now],
                           [reader[r] EXCEPT !.pc = "expired"]}
                          \cup {[reader[r] EXCEPT !.pc = "read", !.got = p] : p \in List(reader[r].to)} :
                 reader' = [reader EXCEPT ![r] = next]
        BY <3>2 DEF Miss, Delete, Read
      <4>2. next.to = reader[r].to
        <5>1. reader[r] \in Walk
          BY <3>1
        <5>2. CASE next \in {[reader[r] EXCEPT !.pc = "query", !.began = now],
                             [reader[r] EXCEPT !.pc = "expired"]}
          BY <5>1, <5>2 DEF Walk
        <5>3. CASE \E p \in List(reader[r].to) : next = [reader[r] EXCEPT !.pc = "read", !.got = p]
          BY <5>1, <5>3 DEF Walk
        <5>4. QED
          BY <4>1, <5>2, <5>3
      <4>3. \A o \in Readers : reader'[o].to = reader[o].to
        BY <3>1, <4>1, <4>2
      <4>4. QED
        BY <4>3
    <3>3. CASE Fail(r)
      BY <1>2, <3>1, <3>3 DEF Fail, First
    <3>4. QED
      BY <2>3, <3>2, <3>3
  <2>4. QED
    BY <1>2, <2>1, <2>2, <2>3 DEF Step
<1>3. PagesInv /\ [Next]_vars => [\A r \in Readers : Descends(r)]_vars
  BY <1>2 DEF Next, Write, Tick, vars
<1>4. QED
  BY <1>3, PagesInvariant, PTL DEF Spec, CursorDescends

-----------------------------------------------------------------------------
(* The walk by page number: the rows that come before a page are as many as  *)
(* the OFFSET says.                                                          *)

LEMMA ListedFinite == IsFiniteSet(Listed) /\ Listed \subseteq Ids
  BY ConstantsAssumption, FS_Subset DEF Listed

\* The rows ahead of another one.
Heads(i) == {j \in Listed : Ahead(j, i)}

LEMMA RankOf ==
    ASSUME NEW i \in Ids
    PROVE  IsFiniteSet(Heads(i)) /\ Rank(i, Listed) = Cardinality(Heads(i))
           /\ Rank(i, Listed) \in Nat
<1>1. IsFiniteSet(Heads(i))
  BY ListedFinite, FS_Subset DEF Heads
<1>2. QED
  BY <1>1, FS_CardinalityType DEF Rank, Heads

LEMMA AheadOrders ==
    ASSUME TypeOK
    PROVE  /\ \A i, j \in Ids : i = j \/ Ahead(i, j) \/ Ahead(j, i)
           /\ \A i, j \in Ids : ~(Ahead(i, j) /\ Ahead(j, i))
           /\ \A i, j, k \in Ids : Ahead(i, j) /\ Ahead(j, k) => Ahead(i, k)
<1>1. \A i \in Ids : i \in Nat /\ row[i].seen \in Nat
  BY ConstantsAssumption DEF TypeOK, Time
<1>2. QED
  BY <1>1 DEF Ahead

\* A part of the list that comes before the rest of it has the lowest ranks.
LEMMA PrefixByRank ==
    ASSUME TypeOK, NEW P \in SUBSET Listed,
           \A i \in P : \A j \in Listed \ P : Ahead(i, j)
    PROVE  P = {i \in Listed : Rank(i, Listed) < Cardinality(P)}
<1>1. IsFiniteSet(P) /\ Cardinality(P) \in Nat
  BY ListedFinite, FS_Subset, FS_CardinalityType
<1>2. ASSUME NEW i \in P PROVE Rank(i, Listed) < Cardinality(P)
  <2>1. i \in Ids /\ ~Ahead(i, i)
    BY ListedFinite, AheadOrders
  <2>2. Heads(i) \subseteq P \ {i}
    BY <2>1, ListedFinite, AheadOrders DEF Heads
  <2>3. IsFiniteSet(P \ {i}) /\ Cardinality(P \ {i}) = Cardinality(P) - 1
    BY <1>1, FS_RemoveElement
  <2>4. Cardinality(Heads(i)) <= Cardinality(P) - 1
    BY <2>2, <2>3, FS_Subset
  <2>5. QED
    BY <1>1, <2>1, <2>4, RankOf
<1>3. ASSUME NEW j \in Listed \ P PROVE ~(Rank(j, Listed) < Cardinality(P))
  <2>1. j \in Ids /\ P \subseteq Heads(j)
    BY ListedFinite DEF Heads
  <2>2. Cardinality(P) <= Cardinality(Heads(j))
    BY <2>1, RankOf, FS_Subset
  <2>3. QED
    BY <1>1, <2>1, <2>2, RankOf
<1>4. QED
  BY <1>2, <1>3

\* A request by number.
Numbered(to) == to \in Request /\ to.id = 0 /\ to.page # 0

LEMMA SkippedType ==
    ASSUME NEW to, Numbered(to)
    PROVE  Skipped(to) \in Nat
<1>1. to.page - 1 \in Nat /\ PageSize \in Nat
  BY ConstantsAssumption DEF Numbered, Request
<1>2. QED
  BY <1>1 DEF Skipped

\* Its page begins where what it skips ends.
LEMMA RestIsRest ==
    ASSUME NEW to, Numbered(to)
    PROVE  /\ Rest(to) = Listed \ Before(to) /\ Before(to) \subseteq Listed
           /\ \A i \in Before(to) : Rank(i, Listed) < Skipped(to)
           /\ \A j \in Rest(to) : Rank(j, Listed) >= Skipped(to)
<1>1. \A i \in Listed : Rank(i, Listed) \in Nat
  BY ListedFinite, RankOf
<1>2. QED
  BY <1>1, SkippedType DEF Rest, UseCursor, Before, Numbered

\* What a full page and the rows before it are the next request skips.
LEMMA NextNumber ==
    ASSUME TypeOK, NEW to, Numbered(to), Cardinality(Before(to)) = Skipped(to),
           NEW items \in SUBSET Rest(to), NEW l \in Ids, FullPage(to, items, l),
           NEW next, Numbered(next), next.page = to.page + 1
    PROVE  /\ Before(next) = Before(to) \cup items
           /\ Cardinality(Before(next)) = Skipped(next)
<1> DEFINE F == Before(to)
           P == F \cup items
<1>1. /\ F \subseteq Listed /\ items \subseteq Listed /\ F \cap items = {}
      /\ Listed \ P = Rest(to) \ items /\ P \subseteq Listed
  BY RestIsRest
<1>2. IsFiniteSet(F) /\ IsFiniteSet(items)
  BY <1>1, ListedFinite, FS_Subset
<1>3. Cardinality(P) = Skipped(to) + PageSize
  <2>1. Cardinality(F \cap items) = 0
    BY <1>1, FS_EmptySet
  <2>2. Cardinality(P) = Cardinality(F) + Cardinality(items) - Cardinality(F \cap items)
    BY <1>2, FS_Union
  <2>3. Cardinality(items) = PageSize /\ PageSize \in Nat /\ Skipped(to) \in Nat
    BY ConstantsAssumption, SkippedType DEF FullPage
  <2>4. QED
    BY <2>1, <2>2, <2>3
<1>4. ASSUME NEW i \in P, NEW j \in Listed \ P
      PROVE  Ahead(i, j)
  <2>1. i \in Ids /\ j \in Ids /\ j \in Rest(to) \ items /\ i # j
    BY <1>1, <1>4, ListedFinite
  <2>2. CASE i \in items
    <3>1. Ahead(l, j) /\ ~Ahead(l, i)
      BY <2>1, <2>2 DEF FullPage
    <3>2. i = l \/ Ahead(i, l)
      BY <2>1, <3>1, AheadOrders
    <3>3. QED
      BY <2>1, <3>1, <3>2, AheadOrders
  <2>3. CASE i \in F
    <3>1. Rank(i, Listed) < Skipped(to) /\ Rank(j, Listed) >= Skipped(to)
      BY <2>1, <2>3, RestIsRest
    <3>2. ASSUME Ahead(j, i) PROVE FALSE
      <4>1. Heads(j) \subseteq Heads(i)
        BY <2>1, <3>2, ListedFinite, AheadOrders DEF Heads
      <4>2. Cardinality(Heads(j)) <= Cardinality(Heads(i))
        BY <2>1, <4>1, RankOf, FS_Subset
      <4>3. QED
        BY <2>1, <3>1, <4>2, RankOf, SkippedType
    <3>3. QED
      BY <2>1, <3>2, AheadOrders
  <2>4. QED
    BY <1>4, <2>2, <2>3
<1>5. P = {i \in Listed : Rank(i, Listed) < Cardinality(P)}
  BY <1>1, <1>4, PrefixByRank
<1>6. Skipped(next) = Skipped(to) + PageSize
  <2>1. to.page \in Nat /\ to.page - 1 \in Nat /\ PageSize \in Nat
    BY ConstantsAssumption DEF Numbered, Request
  <2>2. ((to.page - 1) + 1) * PageSize = (to.page - 1) * PageSize + PageSize
    BY <2>1
  <2>3. next.page - 1 = (to.page - 1) + 1
    BY <2>1
  <2>4. QED
    BY <2>2, <2>3 DEF Skipped
<1>7. QED
  BY <1>3, <1>5, <1>6 DEF Before

\* The first request by number skips nothing.
LEMMA FirstSkipsNothing ==
    ASSUME NEW to, Numbered(to), to.page = 1
    PROVE  Before(to) = {} /\ Cardinality(Before(to)) = Skipped(to)
<1>1. Skipped(to) = 0
  BY ConstantsAssumption DEF Skipped
<1>2. \A i \in Listed : Rank(i, Listed) \in Nat
  BY ListedFinite, RankOf
<1>3. Before(to) = {}
  BY <1>1, <1>2 DEF Before
<1>4. QED
  BY <1>1, <1>3, FS_EmptySet

LEMMA InitNumbers == Init => NumberedInv
<1> SUFFICES ASSUME Init, NEW r \in Readers, reader[r].by = "page"
             PROVE  NumberRight(r)
  BY DEF Init, NumberedInv, NumberRight
<1>1. Numbered(First) /\ First.page = 1
  BY FirstTypes DEF Numbered, First
<1>2. reader[r].to = First /\ reader[r].pc = "ask" /\ \A i \in Ids : shown[r][i] = 0
  BY DEF Init, Unseen
<1>3. Cardinality(Before(First)) = Skipped(First) /\ \A i : i \notin Before(First)
  BY <1>1, FirstSkipsNothing
<1>4. QED
  BY <1>1, <1>2, <1>3 DEF NumberRight, Numbered

LEMMA ListIsExact ==
    ASSUME NEW to, NEW p \in List(to)
    PROVE  PageExact(p)
<1>1. Rest(to) \subseteq Ids
  BY DEF Rest, Listed
<1>2. CASE \E items \in SUBSET Rest(to) :
              LastPage(to, items) /\ p = Result(to, items, FALSE, NoPage.last)
  BY <1>2 DEF PageExact, Result
<1>3. CASE \E items \in SUBSET Rest(to), l \in Rest(to) :
              FullPage(to, items, l) /\ p = Result(to, items, TRUE, CursorAt(l))
  BY <1>1, <1>3 DEF PageExact, Result
<1>4. QED
  BY <1>2, <1>3 DEF List

\* What is said of the rows stays true when they stay.
LEMMA SameRows ==
    ASSUME row' = row
    PROVE  /\ Listed' = Listed /\ \A to : Rest(to)' = Rest(to) /\ Before(to)' = Before(to)
           /\ \A p : PageExact(p)' <=> PageExact(p)
<1>1. Listed' = Listed /\ \A i, S : Rank(i, S)' = Rank(i, S)
  BY DEF Listed, Rank, Ahead
<1>2. \A to : Rest(to)' = Rest(to) /\ Before(to)' = Before(to)
  BY <1>1 DEF Rest, Before, UseCursor, Below, Skipped
<1>3. \A to, items, l : FullPage(to, items, l)' <=> FullPage(to, items, l)
  BY <1>2 DEF FullPage, Ahead
<1>4. \A to, items : LastPage(to, items)' <=> LastPage(to, items)
  BY <1>2 DEF LastPage
<1>5. QED
  BY <1>1, <1>2, <1>3, <1>4 DEF PageExact

\* Pages stay exact when rows are written, as then nothing is said of them.
LEMMA StaysExact ==
    ASSUME TypeOK, TypeOK', NEW p \in Page, PageExact(p), p.asOf <= now, now <= now',
           \A i \in Ids : row'[i] = row[i] \/ row'[i].at = now'
    PROVE  PageExact(p)'
<1>1. p.asOf \in Nat /\ now \in Nat /\ now' \in Nat
  BY DEF Page, Time, TypeOK
<1>2. CASE \A i \in Ids : row'[i] = row[i]
  <2>1. row' = row
    BY <1>2 DEF TypeOK
  <2>2. QED
    BY <2>1, SameRows
<1>3. CASE \E i \in Ids : row'[i].at = now'
  BY <1>1, <1>3 DEF PageExact
<1>4. QED
  BY <1>2, <1>3

\* A client's step leaves the others as they are.
LEMMA OtherNumbersStay ==
    ASSUME NumberedInv, NEW o \in Readers,
           UNCHANGED <<now, row>>, reader'[o] = reader[o],
           shown'[o] = shown[o], oldest'[o] = oldest[o]
    PROVE  NumberRight(o)' /\ (reader[o].pc = "read" => PageExact(reader[o].got))'
<1>1. NumberRight(o)'
  BY SameRows DEF NumberedInv, NumberRight, Still, Skipped
<1>2. QED
  BY <1>1, SameRows DEF NumberedInv

\* A client that is given an exact page of its number has been shown what its next
\* request skips, or all there is.
LEMMA AnswerNumber ==
    ASSUME PagesInv, NumberedInv, NEW r \in Readers, NEW p \in Page, PageRight(p), PageExact(p),
           p.to = reader[r].to, reader[r].pc \in {"ask", "read"},
           UNCHANGED <<now, row>>, Answer(r, p)
    PROVE  \A o \in Readers : NumberRight(o)' /\ (reader[o].pc = "read" => PageExact(reader[o].got))'
<1> DEFINE to == reader[r].to
           next == NextRequest(r, p)
<1>0. TypeOK /\ NumberRight(r)
  BY DEF PagesInv, NumberedInv
<1>1. next \in Request /\ to \in Request /\ reader[r] \in Walk
  BY <1>0, NextIsRequest, ReaderTypes
<1>2. /\ reader'[r].by = reader[r].by
      /\ reader'[r].pc = IF p.more THEN "ask" ELSE "end"
      /\ reader'[r].to = IF p.more THEN next ELSE to
      /\ \A o \in Readers \ {r} : reader'[o] = reader[o]
  <2> DEFINE new == GoesOn(r, p)
  <2>1. /\ new.by = reader[r].by /\ new.pc = IF p.more THEN "ask" ELSE "end"
        /\ new.to = IF p.more THEN next ELSE to
    BY <1>1 DEF GoesOn, Walk
  <2>2. reader' = [reader EXCEPT ![r] = new]
    BY DEF Answer
  <2> HIDE DEF new
  <2>3. QED
    BY <1>0, <2>1, <2>2 DEF TypeOK
<1>3. /\ \A i \in Ids : shown'[r][i] = shown[r][i] + IF i \in p.items THEN 1 ELSE 0
      /\ \A o \in Readers \ {r} : shown'[o] = shown[o]
  BY <1>0 DEF Answer, TypeOK
<1>4. /\ oldest'[r] \in Time /\ oldest'[r] <= oldest[r] /\ oldest'[r] <= p.asOf
      /\ \A o \in Readers \ {r} : oldest'[o] = oldest[o]
  BY <1>0 DEF Answer, TypeOK, Page, Time
<1>5. ASSUME reader[r].by = "page"
      PROVE  NumberRight(r)'
  <2>1. Numbered(to)
    BY <1>0, <1>1, <1>5 DEF NumberRight, Numbered
  <2>2. p.more => Numbered(next) /\ next.page = to.page + 1
    <3>1. next.page = to.page + 1 /\ next.id = 0 /\ to.page \in Nat
      BY <1>1, <1>5 DEF NextRequest, Request
    <3>2. QED
      BY <1>1, <3>1 DEF Numbered
  <2>3. oldest'[r] <= now
    BY <1>0, <1>4 DEF PageRight, Page, Time, TypeOK
  <2>4. ASSUME \A i \in Ids : Still(r, i)'
        PROVE  IF p.more
               THEN /\ Cardinality(Before(next)) = Skipped(next)
                    /\ \A i \in Ids : shown'[r][i] = IF i \in Before(next) THEN 1 ELSE 0
               ELSE \A i \in Ids : shown'[r][i] = IF i \in Listed THEN 1 ELSE 0
    <3>1. ASSUME NEW i \in Ids PROVE row[i].at < p.asOf /\ Still(r, i)
      BY <1>0, <1>4, <2>4 DEF Still, TypeOK, Page, Time
    <3>2. /\ Cardinality(Before(to)) = Skipped(to)
          /\ \A i \in Ids : shown[r][i] = IF i \in Before(to) THEN 1 ELSE 0
      BY <1>0, <1>5, <3>1 DEF NumberRight
    <3>3. /\ p.items \subseteq Rest(to)
          /\ IF p.more THEN \E l \in Ids : FullPage(to, p.items, l) ELSE LastPage(to, p.items)
      BY <3>1 DEF PageExact
    <3>4. Rest(to) = Listed \ Before(to) /\ Before(to) \subseteq Listed
      BY <2>1, RestIsRest
    <3>5. CASE ~p.more
      <4>1. p.items = Rest(to)
        BY <3>3, <3>5 DEF LastPage
      <4>2. QED
        BY <1>3, <3>2, <3>4, <3>5, <4>1
    <3>6. CASE p.more
      <4>1. PICK l \in Ids : FullPage(to, p.items, l)
        BY <3>3, <3>6
      <4>2. Before(next) = Before(to) \cup p.items /\ Cardinality(Before(next)) = Skipped(next)
        BY <1>0, <2>1, <2>2, <3>2, <3>3, <3>6, <4>1, NextNumber
      <4>3. QED
        BY <1>3, <3>2, <3>3, <3>4, <3>6, <4>2
    <3>7. QED
      BY <3>5, <3>6
  <2>5. /\ Listed' = Listed
        /\ \A q : Before(q)' = Before(q) /\ Skipped(q)' = Skipped(q)
    BY SameRows DEF Skipped
  <2>6. reader'[r].to.id = 0 /\ reader'[r].to.page # 0
    BY <1>2, <2>1, <2>2 DEF Numbered
  <2>7. QED
    BY <1>2, <2>3, <2>4, <2>5, <2>6 DEF NumberRight
<1>6. reader'[r].by = "page" => reader[r].by = "page"
  BY <1>2
<1>7. NumberRight(r)' /\ reader'[r].pc # "read"
  BY <1>2, <1>5, <1>6 DEF NumberRight
<1>8. QED
  BY <1>2, <1>3, <1>4, <1>7, OtherNumbersStay

\* What the steps of a client show of all clients.
ReadersExact ==
    \A o \in Readers :
       /\ reader[o].pc = "read" => PageExact(reader[o].got)
       /\ NumberRight(o)

LEMMA AnswerSteps ==
    ASSUME PagesInv, NumberedInv, NEW r \in Readers, Hit(r) \/ Fill(r)
    PROVE  NumberedInv'
<1>0. TypeOK /\ CacheInv /\ QueryRight(r)
  BY DEF PagesInv, ReaderInv
<1>1. CASE Hit(r)
  <2>1. PICK p \in Fresh(reader[r].to) : Answer(r, p)
    BY <1>1 DEF Hit
  <2>2. p \in Page /\ PageRight(p) /\ PageExact(p) /\ p.to = reader[r].to
    BY <1>0, <2>1 DEF Fresh, Cached, CacheInv, TypeOK, NumberedInv
  <2>3. ReadersExact'
    BY <1>1, <2>1, <2>2, AnswerNumber DEF Hit, ReadersExact
  <2>4. \A q \in cache' : PageExact(q)'
    BY <1>1, SameRows DEF Hit, NumberedInv
  <2>5. QED
    BY <2>3, <2>4 DEF ReadersExact, NumberedInv
<1>2. CASE Fill(r)
  <2> DEFINE p == reader[r].got
             s == [p EXCEPT !.expires = now + TTL]
  <2>1. /\ reader[r].pc = "read" /\ Answer(r, p) /\ now' = now /\ row' = row
        /\ cache' = (cache \ Cached(p.to)) \cup {s}
    BY <1>2 DEF Fill, Stored
  <2>2. p \in Page /\ PageRight(p) /\ PageExact(p) /\ p.to = reader[r].to
    BY <1>0, <2>1, ReaderTypes DEF QueryRight, NumberedInv
  <2>3. ReadersExact'
    BY <2>1, <2>2, AnswerNumber DEF ReadersExact
  <2>4. PageExact(s)
    <3>1. s.to = p.to /\ s.asOf = p.asOf /\ s.items = p.items /\ s.more = p.more
      BY <2>2 DEF Page
    <3> HIDE DEF s
    <3>2. QED
      BY <2>2, <3>1 DEF PageExact
  <2> HIDE DEF s
  <2>5. ASSUME NEW q \in cache' PROVE PageExact(q)'
    <3>1. PageExact(q)
      BY <2>1, <2>4 DEF NumberedInv
    <3>2. QED
      BY <2>1, <3>1, SameRows
  <2>6. QED
    BY <2>3, <2>5 DEF ReadersExact, NumberedInv
<1>3. QED
  BY <1>1, <1>2

LEMMA WaitNumbers ==
    ASSUME PagesInv, NumberedInv, NEW r \in Readers, Miss(r) \/ Delete(r) \/ Read(r)
    PROVE  NumberedInv'
<1>0. TypeOK /\ reader \in [Readers -> Walk] /\ reader[r] \in Walk
  BY DEF PagesInv, TypeOK
<1>1. /\ UNCHANGED <<now, row, shown, oldest>> /\ cache' \subseteq cache
      /\ \A o \in Readers \ {r} : reader'[o] = reader[o]
      /\ reader[r].pc # "end"
  BY <1>0 DEF Miss, Delete, Read
<1>2. PICK next \in {[reader[r] EXCEPT !.pc = "query", !.began = now],
                     [reader[r] EXCEPT !.pc = "expired"]}
                    \cup {[reader[r] EXCEPT !.pc = "read", !.got = p] : p \in List(reader[r].to)} :
         reader' = [reader EXCEPT ![r] = next]
  BY DEF Miss, Delete, Read
<1>3. /\ next.to = reader[r].to /\ next.by = reader[r].by /\ next.pc # "end"
      /\ next.pc = "read" => PageExact(next.got)
  <2>1. CASE next \in {[reader[r] EXCEPT !.pc = "query", !.began = now],
                       [reader[r] EXCEPT !.pc = "expired"]}
    BY <1>0, <2>1 DEF Walk
  <2>2. CASE \E p \in List(reader[r].to) : next = [reader[r] EXCEPT !.pc = "read", !.got = p]
    <3>1. PICK p \in List(reader[r].to) : next = [reader[r] EXCEPT !.pc = "read", !.got = p]
      BY <2>2
    <3>2. /\ next.to = reader[r].to /\ next.by = reader[r].by /\ next.pc = "read"
          /\ next.got = p
      BY <1>0, <3>1 DEF Walk
    <3>3. QED
      BY <3>2, ListIsExact
  <2>3. QED
    BY <1>2, <2>1, <2>2
<1>4. reader'[r] = next
  BY <1>0, <1>2
<1>5. NumberRight(r)
  BY DEF NumberedInv
<1>6. NumberRight(r)' /\ (reader[r].pc = "read" => PageExact(reader[r].got))'
  <2>1. NumberRight(r)'
    BY <1>1, <1>3, <1>4, <1>5, SameRows DEF NumberRight, Still, Skipped
  <2>2. next.pc = "read" => PageExact(next.got)'
    BY <1>1, <1>3, SameRows
  <2>3. QED
    BY <1>4, <2>1, <2>2
<1>7. ReadersExact'
  BY <1>1, <1>6, OtherNumbersStay DEF ReadersExact
<1>8. \A q \in cache' : PageExact(q)'
  BY <1>1, SameRows DEF NumberedInv
<1>9. QED
  BY <1>7, <1>8 DEF ReadersExact, NumberedInv

LEMMA FailNumbers ==
    ASSUME PagesInv, NumberedInv, NEW r \in Readers, Fail(r)
    PROVE  NumberedInv'
<1>0. TypeOK /\ reader \in [Readers -> Walk] /\ reader[r] \in Walk
  BY DEF PagesInv, TypeOK
<1>1. /\ UNCHANGED <<now, row, cache>>
      /\ reader'[r].pc = "failed" /\ reader'[r].to = First
      /\ \A i \in Ids : shown'[r][i] = 0
      /\ \A o \in Readers \ {r} : reader'[o] = reader[o] /\ shown'[o] = shown[o]
                                  /\ oldest'[o] = oldest[o]
  <2> DEFINE new == [reader[r] EXCEPT !.pc = "failed", !.to = First, !.got = NoPage, !.began = 0]
  <2>1. new.pc = "failed" /\ new.to = First
    BY <1>0 DEF Walk
  <2>2. reader' = [reader EXCEPT ![r] = new]
    BY DEF Fail
  <2> HIDE DEF new
  <2>3. reader'[r] = new /\ \A o \in Readers \ {r} : reader'[o] = reader[o]
    BY <1>0, <2>2
  <2>4. QED
    BY <1>0, <2>1, <2>3 DEF Fail, TypeOK, Unseen
<1>2. Numbered(First) /\ First.page = 1
  BY FirstTypes DEF Numbered, First
<1>3. Cardinality(Before(First)) = Skipped(First) /\ \A i : i \notin Before(First)
  BY <1>2, FirstSkipsNothing
<1>4. /\ Before(First)' = Before(First) /\ Skipped(First)' = Skipped(First)
  BY <1>1, SameRows DEF Skipped, First
<1>5. NumberRight(r)' /\ (reader[r].pc = "read" => PageExact(reader[r].got))'
  BY <1>1, <1>2, <1>3, <1>4 DEF NumberRight, Numbered
<1>6. ReadersExact'
  BY <1>1, <1>5, OtherNumbersStay DEF ReadersExact
<1>7. \A q \in cache' : PageExact(q)'
  BY <1>1, SameRows DEF NumberedInv
<1>8. QED
  BY <1>6, <1>7 DEF ReadersExact, NumberedInv

\* Writes and time.
LEMMA OutsideNumbers ==
    ASSUME PagesInv, NumberedInv, TypeOK', now <= now',
           UNCHANGED <<cache, reader, shown, oldest>>,
           \A i \in Ids : row'[i] = row[i] \/ row'[i].at = now',
           row' = row \/ now' = now
    PROVE  NumberedInv'
<1>0. TypeOK /\ CacheInv /\ now \in Nat /\ now' \in Nat
  BY DEF PagesInv, TypeOK, Time
<1>1. ASSUME NEW p \in Page, PageRight(p), PageExact(p) PROVE PageExact(p)'
  BY <1>0, <1>1, StaysExact DEF PageRight
<1>2. \A q \in cache' : PageExact(q)'
  BY <1>0, <1>1 DEF CacheInv, TypeOK, NumberedInv
<1>3. ASSUME NEW r \in Readers
      PROVE  NumberRight(r)' /\ (reader[r].pc = "read" => PageExact(reader[r].got))'
  <2>1. QueryRight(r) /\ reader[r].got \in Page /\ NumberRight(r) /\ oldest[r] \in Nat
    BY <1>0, ReaderTypes DEF PagesInv, ReaderInv, NumberedInv, TypeOK, Time
  <2>2. (reader[r].pc = "read" => PageExact(reader[r].got))'
    BY <1>1, <2>1 DEF QueryRight, NumberedInv
  <2>3. NumberRight(r)'
    <3>1. CASE row' = row
      BY <1>0, <2>1, <3>1, SameRows DEF NumberRight, Still, Skipped
    <3>2. CASE row' # row
      <4>1. PICK i \in Ids : row'[i].at = now'
        BY <1>0, <3>2 DEF TypeOK
      <4>2. CASE oldest[r] <= now
        <5>1. ~Still(r, i)'
          BY <1>0, <2>1, <4>1, <4>2 DEF Still
        <5>2. oldest[r] <= now'
          BY <1>0, <2>1, <4>2
        <5>3. QED
          BY <2>1, <5>1, <5>2 DEF NumberRight
      <4>3. CASE ~(oldest[r] <= now) /\ reader[r].by = "page"
        <5> DEFINE to == reader[r].to
        <5>1. /\ reader[r].pc # "end" /\ to.page = 1 /\ to.id = 0
              /\ \A j \in Ids : shown[r][j] = 0
          BY <2>1, <4>3 DEF NumberRight
        <5>2. Numbered(to)
          BY <1>0, <5>1, ReaderTypes DEF Numbered
        <5>3. Skipped(to) = 0 /\ (Skipped(to))' = 0
          BY <5>1, ConstantsAssumption DEF Skipped
        <5>4. \A j \in Listed' : (Rank(j, Listed))' \in Nat
          <6>1. \A j \in Listed : Rank(j, Listed) \in Nat
            BY ListedFinite, RankOf
          <6>2. ASSUME NEW j \in Ids PROVE (Rank(j, Listed))' \in Nat
            <7>1. IsFiniteSet({k \in Listed : Ahead(k, j)})'
              BY ConstantsAssumption, FS_Subset DEF Listed
            <7>2. QED
              BY <7>1, FS_CardinalityType DEF Rank
          <6>3. QED
            BY <6>2 DEF Listed
        <5>5. Before(to)' = {}
          BY <5>3, <5>4 DEF Before
        <5>6. Cardinality(Before(to)') = (Skipped(to))'
          BY <5>3, <5>5, FS_EmptySet
        <5>7. QED
          BY <4>3, <5>1, <5>5, <5>6 DEF NumberRight
      <4>4. QED
        BY <2>1, <4>2, <4>3 DEF NumberRight
    <3>3. QED
      BY <3>1, <3>2
  <2>4. QED
    BY <2>2, <2>3
<1>4. QED
  BY <1>2, <1>3 DEF NumberedInv

LEMMA NumbersStep == PagesInv /\ NumberedInv /\ [Next]_vars => NumberedInv'
<1> SUFFICES ASSUME PagesInv, NumberedInv, [Next]_vars PROVE NumberedInv'
  OBVIOUS
<1>0. TypeOK /\ TypeOK' /\ now \in Nat
  BY PagesStep DEF PagesInv, TypeOK, Time
<1>1. ASSUME NEW r \in Readers, Step(r) PROVE NumberedInv'
  BY <1>1, AnswerSteps, WaitNumbers, FailNumbers DEF Step
<1>2. ASSUME NEW i \in Ids, Write(i) PROVE NumberedInv'
  <2>1. /\ UNCHANGED <<now, cache, reader, shown, oldest>>
        /\ \A j \in Ids : row'[j] = row[j] \/ row'[j].at = now'
    BY <1>0, <1>2 DEF Write, TypeOK
  <2>2. QED
    BY <1>0, <2>1, OutsideNumbers
<1>3. CASE Tick
  BY <1>0, <1>3, OutsideNumbers DEF Tick
<1>4. CASE UNCHANGED vars
  BY <1>0, <1>4, OutsideNumbers DEF vars
<1>5. QED
  BY <1>1, <1>2, <1>3, <1>4 DEF Next

\* A walk by page number shows every incident that was asked for exactly once when
\* none has changed, for any filter and page size (incident_repo.go List).
THEOREM PagesAreComplete == Spec => []PagesComplete
<1>1. NumberedInv => PagesComplete
  BY DEF NumberedInv, NumberRight, PagesComplete, Listed
<1>2. Spec => []NumberedInv
  BY InitNumbers, NumbersStep, PagesInvariant, PTL DEF Spec
<1>3. QED
  BY <1>1, <1>2, PTL
=============================================================================
