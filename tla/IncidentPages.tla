------------------------------ MODULE IncidentPages ------------------------------
(***************************************************************************)
(* The list of incidents, read page by page while it changes:              *)
(*   - the handler (internal/api/handler/incident_handler.go, List) with   *)
(*     its local cache (internal/api/handler/local_cache.go),              *)
(*   - the query (internal/infra/postgres/incident_repo.go, List), by      *)
(*     cursor or by page number.                                           *)
(*                                                                         *)
(* A reader is a client that asks for one page after the other until there *)
(* are no more.  The writers are the pipelines of IncidentPipeline, of     *)
(* which the list sees whole rows only, each with the last_seen of some    *)
(* moment up to now.  Time passes in ticks; only what happens within TTL   *)
(* or within the timeout of the query is told apart.                       *)
(***************************************************************************)
EXTENDS Naturals, FiniteSets

CONSTANTS
    Ids,        \* incidents; their order is that of their ids in the table
    Readers,    \* clients, each reads the list once
    Filter,     \* the states the clients ask for
    PageSize,   \* of every request (20)
    TTL,        \* of a cached page (2s)
    Timeout,    \* of the query (3s)
    MaxTime,    \* bound: the end of time
    MaxWrites   \* bound: rows written

ASSUME ConstantsAssumption ==
    /\ Ids \subseteq Nat \ {0} /\ IsFiniteSet(Ids)
    /\ PageSize \in Nat \ {0}
    /\ TTL \in Nat /\ Timeout \in Nat
    /\ MaxTime \in Nat \ {0} /\ MaxWrites \in Nat

VARIABLES
    now,        \* the time
    row,        \* row[i]: state and last_seen in the table; at: last written
    writes,     \* writes still to come
    cache,      \* listCache: pages by request
    reader,     \* reader[r]: the request under way
    shown,      \* shown[r][i]: how often r was shown incident i
    oldest      \* oldest[r]: when the oldest page that r was given was read

client == <<shown, oldest>>
vars   == <<now, row, writes, cache, reader, client>>

Time == 0..MaxTime

\* A request: by page number, or (id # 0) by the cursor <<seen, id>>.
Request == [page : Nat, seen : Time, id : Ids \cup {0}]
First   == [page |-> 1, seen |-> 0, id |-> 0]
Cursor  == [seen : Time, id : Ids \cup {0}]
\* A page, as it is answered and cached; last is its nextCursor.
Page    == [to : Request, items : SUBSET Ids, more : BOOLEAN, last : Cursor,
            asOf : Time, expires : Nat]
NoPage  == [to |-> First, items |-> {}, more |-> FALSE,
            last |-> [seen |-> 0, id |-> 0], asOf |-> 0, expires |-> 0]

\* A client: what its request waits for, whether it pages by cursor or by number.
Walk    == [pc : {"ask", "expired", "query", "read", "end", "failed"},
            by : {"cursor", "page"}, to : Request, began : Time, got : Page]

Unseen  == [i \in Ids |-> 0]
NoRow   == [state |-> "none", seen |-> 0, at |-> 0]

TypeOK ==
    /\ now \in Time
    /\ row \in [Ids -> [state : {"none", "open", "closed"}, seen : Time, at : Time]]
    /\ writes \in 0..MaxWrites
    /\ cache \in SUBSET Page /\ \A p, q \in cache : p.to = q.to => p = q
    /\ reader \in [Readers -> Walk]
    /\ shown \in [Readers -> [Ids -> Nat]]
    /\ oldest \in [Readers -> Time]

Init ==
    /\ now = 1
    /\ row \in [Ids -> [state : {"open"}, seen : {0}, at : {0}] \cup {NoRow}]
    /\ writes = MaxWrites
    /\ cache = {}
    /\ reader \in [Readers -> [pc : {"ask"}, by : {"cursor", "page"}, to : {First},
                               began : {0}, got : {NoPage}]]
    /\ shown = [r \in Readers |-> Unseen]
    /\ oldest = [r \in Readers |-> MaxTime]

-----------------------------------------------------------------------------
(* The query. *)

Listed == {i \in Ids : row[i].state \in Filter}

\* ORDER BY last_seen DESC, id DESC.
Ahead(i, j) == \/ row[i].seen > row[j].seen
               \/ row[i].seen = row[j].seen /\ i > j
Rank(i, S)  == Cardinality({j \in S : Ahead(j, i)})

\* Mutants of Below: no tie-break; the ids of any time.
BelowSeen(i, to) == row[i].seen < to.seen
BelowEither(i, to) == row[i].seen < to.seen \/ i < to.id

\* WHERE last_seen < ? OR (last_seen = ? AND id < ?).
Below(i, to) == \/ row[i].seen < to.seen
                \/ row[i].seen = to.seen /\ i < to.id

UseCursor(to) == to.id # 0

\* Mutant of Skipped: the page before it is skipped, too.
SkippedToo(to) == to.page * PageSize

\* OFFSET (page - 1) * pageSize.
Skipped(to) == (to.page - 1) * PageSize

\* The rows from the cursor, or from the OFFSET, on.
Rest(to) == IF UseCursor(to)
            THEN {i \in Listed : Below(i, to)}
            ELSE {i \in Listed : Rank(i, Listed) >= Skipped(to)}

\* The first PageSize of them, as LIMIT pageSize + 1 tells that there are more;
\* l, the last of the page, is its nextCursor.
FullPage(to, items, l) ==
    /\ Cardinality(items) = PageSize
    /\ l \in items
    /\ \A j \in items : ~Ahead(l, j)
    /\ Rest(to) \ items # {}
    /\ \A j \in Rest(to) \ items : Ahead(l, j)

\* Or all of them, and no nextCursor.
LastPage(to, items) == items = Rest(to) /\ Cardinality(items) <= PageSize

Result(to, items, more, last) ==
    [to |-> to, items |-> items, more |-> more, last |-> last, asOf |-> now, expires |-> 0]

CursorAt(l) == [seen |-> row[l].seen, id |-> l]

\* What the query may return.
List(to) ==
    {Result(to, items, FALSE, NoPage.last) : items \in {S \in SUBSET Rest(to) : LastPage(to, S)}}
    \cup
    UNION {{Result(to, items, TRUE, CursorAt(l)) :
               items \in {S \in SUBSET Rest(to) : FullPage(to, S, l)}} : l \in Rest(to)}

-----------------------------------------------------------------------------
(* The local cache. *)

Cached(to) == {p \in cache : p.to = to}

\* Mutant of Fresh: get does not look at the time.
FreshAlways(to) == Cached(to)

\* get: the page of a request, unless it has expired.
Fresh(to) == {p \in Cached(to) : now <= p.expires}

\* Mutant of Stored: the old page stays.
StoredBeside(p) == cache \cup {[p EXCEPT !.expires = now + TTL]}

\* set.
Stored(p) == (cache \ Cached(p.to)) \cup {[p EXCEPT !.expires = now + TTL]}

-----------------------------------------------------------------------------
(* The handler and its clients. *)

NextRequest(r, p) ==
    IF reader[r].by = "cursor"
    THEN [page |-> 1, seen |-> p.last.seen, id |-> p.last.id]
    ELSE [page |-> reader[r].to.page + 1, seen |-> 0, id |-> 0]

\* r goes on to the next page if there is one.
GoesOn(r, p) ==
    [reader[r] EXCEPT !.pc = IF p.more THEN "ask" ELSE "end",
                      !.to = IF p.more THEN NextRequest(r, p) ELSE @,
                      !.got = NoPage, !.began = 0]

\* r is given page p.
Answer(r, p) ==
    /\ shown'  = [shown EXCEPT ![r] = [i \in Ids |-> IF i \in p.items THEN @[i] + 1 ELSE @[i]]]
    /\ oldest' = [oldest EXCEPT ![r] = IF p.asOf < @ THEN p.asOf ELSE @]
    /\ reader' = [reader EXCEPT ![r] = GoesOn(r, p)]

\* The page is in the cache.
Hit(r) ==
    /\ reader[r].pc = "ask"
    /\ \E p \in Fresh(reader[r].to) : Answer(r, p)
    /\ UNCHANGED <<now, row, writes, cache>>

\* It is not: the query begins, at once or after the expired entry is deleted.
Miss(r) ==
    /\ reader[r].pc = "ask"
    /\ Fresh(reader[r].to) = {}
    /\ reader' = [reader EXCEPT ![r] = IF Cached(reader[r].to) = {}
                                       THEN [@ EXCEPT !.pc = "query", !.began = now]
                                       ELSE [@ EXCEPT !.pc = "expired"]]
    /\ UNCHANGED <<now, row, writes, cache, client>>

\* get deletes under the lock what it found expired without it; by now it may
\* be another page.
Delete(r) ==
    /\ reader[r].pc = "expired"
    /\ cache' = cache \ Cached(reader[r].to)
    /\ reader' = [reader EXCEPT ![r] = [@ EXCEPT !.pc = "query", !.began = now]]
    /\ UNCHANGED <<now, row, writes, client>>

\* The database takes its snapshot.
Read(r) ==
    /\ reader[r].pc = "query"
    /\ \E p \in List(reader[r].to) :
          reader' = [reader EXCEPT ![r] = [@ EXCEPT !.pc = "read", !.got = p]]
    /\ UNCHANGED <<now, row, writes, cache, client>>

\* The result is cached and answered.
Fill(r) ==
    /\ reader[r].pc = "read"
    /\ cache' = Stored(reader[r].got)
    /\ Answer(r, reader[r].got)
    /\ UNCHANGED <<now, row, writes>>

\* The query fails, or its context is done: an answer without a page, the client
\* gives up and forgets what it saw.
Fail(r) ==
    /\ reader[r].pc \in {"query", "read"}
    /\ reader' = [reader EXCEPT ![r] = [@ EXCEPT !.pc = "failed", !.to = First,
                                                 !.got = NoPage, !.began = 0]]
    /\ shown' = [shown EXCEPT ![r] = Unseen]
    /\ oldest' = [oldest EXCEPT ![r] = MaxTime]
    /\ UNCHANGED <<now, row, writes, cache>>

\* A query is answered or failed by its deadline, and what follows it takes no
\* time; a client may wait as long as it wants.
Tick ==
    /\ now < MaxTime
    /\ \A r \in Readers : reader[r].pc \in {"query", "read"} => now < reader[r].began + Timeout
    /\ now' = now + 1
    /\ UNCHANGED <<row, writes, cache, reader, client>>

\* A pipeline saves an incident, new or open, with the last_seen of some moment:
\* its goroutines may save one incident in any order.
Write(i) ==
    /\ writes > 0
    /\ writes' = writes - 1
    /\ row[i].state \in {"none", "open"}
    /\ \E seen \in 0..now, state \in {"open", "closed"} :
          /\ row[i].state = "none" => state = "open"
          /\ row' = [row EXCEPT ![i] = [state |-> state, seen |-> seen, at |-> now]]
    /\ UNCHANGED <<now, cache, reader, client>>

Step(r) == Hit(r) \/ Miss(r) \/ Delete(r) \/ Read(r) \/ Fill(r) \/ Fail(r)

Next == \/ \E r \in Readers : Step(r)
        \/ \E i \in Ids : Write(i)
        \/ Tick

Spec == Init /\ [][Next]_vars

-----------------------------------------------------------------------------
(* Properties. *)

\* Row i was not written since the oldest page of r was read.
Still(r, i) == row[i].at < oldest[r]

\* A client that reads by cursor to the end is shown every incident that did not
\* change meanwhile exactly once if it is one it asked for, however the others moved,
\* appeared or closed, and whichever of its pages came from the cache.
WalkComplete ==
    \A r \in Readers :
       reader[r].pc = "end" /\ reader[r].by = "cursor" =>
          \A i \in Ids : Still(r, i) =>
             shown[r][i] = IF row[i].state \in Filter THEN 1 ELSE 0

\* So is a client that reads by page number, when no incident has changed.
PagesComplete ==
    \A r \in Readers :
       /\ reader[r].pc = "end" /\ reader[r].by = "page"
       /\ \A i \in Ids : Still(r, i)
       => \A i \in Ids : shown[r][i] = IF row[i].state \in Filter THEN 1 ELSE 0

\* What get returns is no older than the timeout of its query and the TTL of its
\* entry allow, with queries that overtake each other and an expired entry that is
\* deleted late.
ListFresh == \A p \in cache : p \in Fresh(p.to) => now <= p.asOf + Timeout + TTL

\* The cursor of a client only goes down: even if the incidents move all the time
\* it comes to the end.
CursorDescends ==
    [][\A r \in Readers :
          LET c == reader[r].to
              d == reader'[r].to
          IN  c.id # 0 /\ d.id # 0 /\ c # d => d.seen < c.seen \/ (d.seen = c.seen /\ d.id < c.id)]_vars

-----------------------------------------------------------------------------
(* Why they hold. *)

\* The requests of a walk by cursor, the first one included.
OfWalk(to) == to.id # 0 \/ to.page = 1

\* A page has the incidents of its part of the list, from its request to its own
\* cursor, of those that did not change since.
PageRight(p) ==
    /\ p.asOf <= now
    /\ p.more => /\ p.last.id # 0
                 /\ p.to.id # 0 => \/ p.last.seen < p.to.seen
                                   \/ p.last.seen = p.to.seen /\ p.last.id < p.to.id
    /\ OfWalk(p.to) =>
          \A i \in Ids : row[i].at < p.asOf =>
             (i \in p.items <=> /\ row[i].state \in Filter
                                /\ p.to.id # 0 => Below(i, p.to)
                                /\ p.more => ~Below(i, p.last))

CacheInv == \A p \in cache : PageRight(p) /\ p.expires <= p.asOf + Timeout + TTL

\* A query ends by its deadline, and its page was read while it ran.
QueryRight(r) ==
    /\ reader[r].pc \in {"query", "read"} =>
          reader[r].began <= now /\ now <= reader[r].began + Timeout
    /\ reader[r].pc = "read" =>
          /\ PageRight(reader[r].got)
          /\ reader[r].got.to = reader[r].to
          /\ reader[r].began <= reader[r].got.asOf

\* i is behind a client that has come to its present request.
Passed(r, i) == \/ reader[r].pc = "end"
                \/ reader[r].to.id # 0 /\ ~Below(i, reader[r].to)

\* What a client by cursor was shown of what stays is what it has passed.
WalkRight(r) ==
    reader[r].by = "cursor" =>
       /\ reader[r].to.page = 1
       /\ \A i \in Ids : Still(r, i) =>
             shown[r][i] = IF row[i].state \in Filter /\ Passed(r, i) THEN 1 ELSE 0
       /\ \/ oldest[r] <= now
          \/ /\ reader[r].pc # "end" /\ reader[r].to.id = 0
             /\ \A i \in Ids : shown[r][i] = 0

ReaderInv == \A r \in Readers : QueryRight(r) /\ WalkRight(r)

PagesInv == TypeOK /\ CacheInv /\ ReaderInv

-----------------------------------------------------------------------------
(* The same for a walk by page number, while no incident changes.            *)

\* A page is what the query would still return.
PageExact(p) ==
    (\A i \in Ids : row[i].at < p.asOf) =>
        /\ p.items \subseteq Rest(p.to)
        /\ IF p.more THEN \E l \in Ids : FullPage(p.to, p.items, l) ELSE LastPage(p.to, p.items)

\* The rows the OFFSET of a request skips.
Before(to) == {i \in Listed : Rank(i, Listed) < Skipped(to)}

\* What a client by number was shown, of what stays, are the rows its request skips,
\* and there are as many as that.
NumberRight(r) ==
    reader[r].by = "page" =>
       /\ reader[r].to.id = 0 /\ reader[r].to.page # 0
       /\ (\A i \in Ids : Still(r, i)) =>
             IF reader[r].pc = "end"
             THEN \A i \in Ids : shown[r][i] = IF i \in Listed THEN 1 ELSE 0
             ELSE /\ Cardinality(Before(reader[r].to)) = Skipped(reader[r].to)
                  /\ \A i \in Ids : shown[r][i] = IF i \in Before(reader[r].to) THEN 1 ELSE 0
       /\ \/ oldest[r] <= now
          \/ /\ reader[r].pc # "end" /\ reader[r].to.page = 1
             /\ \A i \in Ids : shown[r][i] = 0

NumberedInv ==
    /\ \A p \in cache : PageExact(p)
    /\ \A r \in Readers :
          /\ reader[r].pc = "read" => PageExact(reader[r].got)
          /\ NumberRight(r)
=============================================================================
