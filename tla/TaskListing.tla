---------------------------- MODULE TaskListing ----------------------------
(***************************************************************************)
(* Paged task lists over tasks that change.  The first page of a list that *)
(* does not fit freezes the projection of the request in a snapshot and    *)
(* gives out one token for each further page; snapshots expire and are     *)
(* collected by whoever lists next.  The in-memory store answers under one *)
(* write lock and lets equal first requests share a snapshot; SQLite       *)
(* answers in one transaction, with a clock read before the request        *)
(* queues; PostgreSQL answers in two READ COMMITTED transactions, whose    *)
(* statements interleave with those of other replicas.                     *)
(*                                                                         *)
(* A reader is one client that follows the tokens of one list.  Tenants    *)
(* are left out: there is one.  The frozen text of a task is its revision  *)
(* and its state, and its size is one.                                     *)
(***************************************************************************)
EXTENDS Naturals, Sequences, FiniteSets, SequencesExt, FiniteSetsExt

CONSTANTS
  Readers,
  Ids,           \* task IDs: natural numbers, for their order
  Accounts,
  Queries,       \* [account, own, state, size]
  Table0,        \* the tasks at first
  MaxTasks,      \* max_tasks
  MaxActive,     \* MAX_ACTIVE_SNAPSHOTS
  MaxBytes,      \* MAX_SNAPSHOT_BYTES
  TTL,           \* SNAPSHOT_TTL_MILLIS
  MaxClock,      \* bound on the clock
  MaxVersions,   \* bound on the versions of the table
  MaxSnapshots,  \* bound on the snapshots ever made
  Nil

ASSUME ListingAssumption ==
  /\ Ids \subseteq Nat /\ TTL \in Nat \ {0} /\ MaxActive \in Nat \ {0}
  /\ \A q \in Queries : q.size \in Nat \ {0}

VARIABLES
  store,      \* "memory", "sqlite" or "postgres"
  hist,       \* the versions of the task table, the last one current: [table, at]
  snapshots,  \* live snapshots by number
  made,       \* snapshots made so far
  clock,
  lock,       \* who holds the retained_authority_usage row (PostgreSQL)
  reader
listVars == <<store, hist, snapshots, made, clock, lock, reader>>

Table == Last(hist).table
NoList == [pc |-> "idle", query |-> Nil, token |-> Nil, now |-> 0, got |-> <<>>,
           start |-> 0, expires |-> 0, frozen |-> <<>>]

ListInit ==
  /\ store \in {"memory", "sqlite", "postgres"}
  /\ hist = <<[table |-> Table0, at |-> 0]>>
  /\ snapshots = <<>> /\ made = 0
  /\ clock = 0
  /\ lock = Nil
  /\ reader = [r \in Readers |-> NoList]

-----------------------------------------------------------------------------
(* Tasks *)

Write(id, task) ==
  /\ Len(hist) < MaxVersions
  /\ hist' = Append(hist, [table |-> [i \in DOMAIN Table \cup {id} |->
                                        IF i = id THEN task ELSE Table[i]],
                           at |-> clock])
  /\ UNCHANGED <<store, snapshots, made, clock, lock, reader>>

\* create: a new ID, below the ceiling.
Create(id) ==
  /\ id \notin DOMAIN Table
  /\ Cardinality(DOMAIN Table) < MaxTasks
  /\ \E a \in Accounts :
       Write(id, [owner |-> a, state |-> "working", time |-> clock, rev |-> 1])

\* update: a terminal task is never changed again, and every change has a
\* revision and a status time of its own.
Update(id) ==
  /\ id \in DOMAIN Table
  /\ Table[id].state = "working"
  /\ \E s \in {"working", "done"} :
       Write(id, [Table[id] EXCEPT !.state = s, !.time = clock, !.rev = @ + 1])

Tick ==
  /\ clock < MaxClock
  /\ clock' = clock + 1
  /\ UNCHANGED <<store, hist, snapshots, made, lock, reader>>

-----------------------------------------------------------------------------
(* Projections, snapshots and pages *)

Visible(q, task) ==
  /\ store = "memory" \/ ~q.own \/ task.owner = q.account
  /\ q.state \in {"any", task.state}

\* freeze_projection: newest status first, then by ID.
Before(table, i, j) ==
  \/ table[i].time > table[j].time
  \/ table[i].time = table[j].time /\ i < j
Projection(table, q) ==
  LET ids == SetToSortSeq({i \in DOMAIN table : Visible(q, table[i])},
                          LAMBDA i, j : Before(table, i, j)) IN
  [n \in DOMAIN ids |-> [id |-> ids[n], rev |-> table[ids[n]].rev, state |-> table[ids[n]].state]]

\* The entries of the page at a position (positions count from 0).
Page(entries, pos, size) == SubSeq(entries, pos + 1, Min({pos + size, Len(entries)}))
PageFromLive(s, pos) == Page(Projection(Table, s.query), pos, s.query.size)
PageAt(s, pos) == Page(s.entries, pos, s.query.size)
NextToken(n, entries, size, pos) ==
  IF pos + size < Len(entries) THEN [snap |-> n, pos |-> pos + size] ELSE Nil

\* gc_memory_snapshots, and the cleanup transaction of the durable stores.
Live(now) == {n \in DOMAIN snapshots : snapshots[n].expires > now}
Collected(now) == [n \in Live(now) |-> snapshots[n]]
Sizes(snaps) == MapThenSumSet(LAMBDA n : Len(snaps[n].entries), DOMAIN snaps)
HasCapacity(snaps, entries) ==
  /\ Cardinality(DOMAIN snaps) < MaxActive
  /\ Sizes(snaps) + Len(entries) <= MaxBytes
NewSnapshot(q, entries, now) ==
  [query |-> q, entries |-> entries, expires |-> now + TTL]

\* What a reader does with a page: it keeps it and follows the next token.
Keep(r, page, next, expires) ==
  [reader[r] EXCEPT !.pc = IF next = Nil THEN "done" ELSE "idle",
     !.got = @ \o page, !.token = next, !.expires = expires, !.frozen = <<>>, !.now = 0]
Answer(r, page, next, expires) ==
  reader' = [reader EXCEPT ![r] = Keep(r, page, next, expires)]
\* invalid pageToken.
Refuse(r) == reader' = [reader EXCEPT ![r].pc = "refused"]
\* An error the reader may retry: capacity, a failed statement, an audit
\* record that cannot be written.
Retry(r) == reader' = [reader EXCEPT ![r].pc = "idle", ![r].frozen = <<>>, ![r].now = 0]

TokenFound(snaps, t) == t.snap \in DOMAIN snaps
\* A token answers only requests for what it was given out for.
TokenMatches(s, q, now) == s.query = q /\ s.expires > now

ServePage(r, snaps) ==
  LET t == reader[r].token
      s == snaps[t.snap] IN
  IF TokenFound(snaps, t) /\ TokenMatches(s, reader[r].query, reader[r].now)
  THEN Answer(r, PageAt(s, t.pos), NextToken(t.snap, s.entries, s.query.size, t.pos), s.expires)
  ELSE Refuse(r)

\* The first page: from a list that fits, or from a new snapshot.
FirstPage(r, snaps, entries) ==
  LET q == reader[r].query
      now == reader[r].now
      first == Page(entries, 0, q.size) IN
  \/ /\ Len(entries) <= q.size
     /\ Answer(r, first, Nil, 0)
     /\ snapshots' = snaps
     /\ UNCHANGED made
  \/ /\ Len(entries) > q.size
     /\ HasCapacity(snaps, entries)
     /\ made < MaxSnapshots
     /\ made' = made + 1
     /\ snapshots' = [n \in DOMAIN snaps \cup {made + 1} |->
          IF n \in DOMAIN snaps THEN snaps[n] ELSE NewSnapshot(q, entries, now)]
     /\ Answer(r, first, NextToken(made + 1, entries, q.size, 0), now + TTL)
  \/ /\ Len(entries) > q.size
     /\ ~HasCapacity(snaps, entries)
     /\ Retry(r)
     /\ snapshots' = snaps
     /\ UNCHANGED made

-----------------------------------------------------------------------------
(* Requests *)

\* A client asks for the first page, or for the next one with its token and a
\* query that should be the same.  The clock of SQLite is read here.
Ask(r) ==
  /\ reader[r].pc = "idle"
  /\ \E q \in Queries :
       reader' = [reader EXCEPT ![r].pc = "asked", ![r].now = clock, ![r].query = q,
         ![r].start = IF reader[r].token = Nil THEN clock ELSE @]
  /\ UNCHANGED <<store, hist, snapshots, made, clock, lock>>

\* reusable_snapshot.
Reusable(q) == {n \in Live(clock) : snapshots[n].query = q}

\* BoundedTaskStore::list, under the write lock with the clock read inside.
MemoryList(r) ==
  /\ store = "memory" /\ reader[r].pc = "asked"
  /\ reader[r].now = clock
  /\ LET snaps == Collected(clock)
         q == reader[r].query IN
     IF reader[r].token # Nil
     THEN ServePage(r, snaps) /\ snapshots' = snaps /\ UNCHANGED made
     ELSE IF Reusable(q) # {}
     THEN /\ \E n \in Reusable(q) :
               LET s == snapshots[n] IN
               Answer(r, PageAt(s, 0), NextToken(n, s.entries, q.size, 0), s.expires)
          /\ snapshots' = snaps
          /\ UNCHANGED made
     ELSE FirstPage(r, snaps, Projection(Table, q))
  /\ UNCHANGED <<store, hist, clock, lock>>
\* The request waited for the write lock while time went on.
MemoryWait(r) ==
  /\ store = "memory" /\ reader[r].pc = "asked"
  /\ reader[r].now < clock
  /\ reader' = [reader EXCEPT ![r].now = clock,
       ![r].start = IF reader[r].token = Nil THEN clock ELSE @]
  /\ UNCHANGED <<store, hist, snapshots, made, clock, lock>>

\* frozen_list_transaction: the collection commits first, on its own.
SqliteList(r) ==
  /\ store = "sqlite" /\ reader[r].pc = "asked"
  /\ LET snaps == Collected(reader[r].now) IN
     IF reader[r].token # Nil
     THEN ServePage(r, snaps) /\ snapshots' = snaps /\ UNCHANGED made
     ELSE FirstPage(r, snaps, Projection(Table, reader[r].query))
  /\ UNCHANGED <<store, hist, clock, lock>>

\* The first PostgreSQL transaction collects with the clock of the database.
PostgresCollect(r) ==
  /\ store = "postgres" /\ reader[r].pc = "asked"
  /\ snapshots' = Collected(clock)
  /\ reader' = [reader EXCEPT ![r].pc = "collected"]
  /\ UNCHANGED <<store, hist, made, clock, lock>>
\* The second one reads the clock again and then either looks up the token or
\* selects the rows.
PostgresBegin(r) ==
  /\ store = "postgres" /\ reader[r].pc = "collected"
  /\ reader' = [reader EXCEPT ![r].pc = "begun", ![r].now = clock]
  /\ UNCHANGED <<store, hist, snapshots, made, clock, lock>>
PostgresLookup(r) ==
  /\ store = "postgres" /\ reader[r].pc = "begun" /\ reader[r].token # Nil
  /\ LET t == reader[r].token IN
     IF TokenFound(snapshots, t)
        /\ TokenMatches(snapshots[t.snap], reader[r].query, reader[r].now)
     THEN reader' = [reader EXCEPT ![r].pc = "located"]
     ELSE Refuse(r)
  /\ UNCHANGED <<store, hist, snapshots, made, clock, lock>>
\* The entries and the page are read by later statements: another replica may
\* have collected the snapshot since, and then their number is wrong.
PostgresPage(r) ==
  /\ store = "postgres" /\ reader[r].pc = "located"
  /\ ServePage(r, snapshots)
  /\ UNCHANGED <<store, hist, snapshots, made, clock, lock>>
PostgresSelect(r) ==
  /\ store = "postgres" /\ reader[r].pc = "begun" /\ reader[r].token = Nil
  /\ reader' = [reader EXCEPT ![r].pc = "selected",
       ![r].frozen = Projection(Table, reader[r].query)]
  /\ UNCHANGED <<store, hist, snapshots, made, clock, lock>>
\* A list that needs a snapshot waits for the usage row of its tenant, then
\* counts the snapshots that are there, inserts its own and commits.
PostgresLock(r) ==
  /\ store = "postgres" /\ reader[r].pc = "selected"
  /\ Len(reader[r].frozen) > reader[r].query.size
  /\ lock = Nil
  /\ IF HasCapacity(snapshots, reader[r].frozen)
     THEN lock' = r /\ reader' = [reader EXCEPT ![r].pc = "counted"]
     ELSE UNCHANGED lock /\ Retry(r)
  /\ UNCHANGED <<store, hist, snapshots, made, clock>>
PostgresFits(r) ==
  /\ store = "postgres" /\ reader[r].pc = "selected"
  /\ Len(reader[r].frozen) <= reader[r].query.size
  /\ Answer(r, reader[r].frozen, Nil, 0)
  /\ UNCHANGED <<store, hist, snapshots, made, clock, lock>>
PostgresInsert(r) ==
  /\ store = "postgres" /\ reader[r].pc = "counted"
  /\ made < MaxSnapshots
  /\ made' = made + 1
  /\ LET q == reader[r].query
         entries == reader[r].frozen
         now == reader[r].now IN
     /\ snapshots' = [n \in DOMAIN snapshots \cup {made + 1} |->
          IF n \in DOMAIN snapshots THEN snapshots[n] ELSE NewSnapshot(q, entries, now)]
     /\ Answer(r, Page(entries, 0, q.size), NextToken(made + 1, entries, q.size, 0), now + TTL)
  /\ lock' = IF lock = r THEN Nil ELSE lock
  /\ UNCHANGED <<store, hist, clock>>

\* A durable request fails before its commit: the process stops, a statement
\* or the audit record fails.  Nothing of it stays, and the client asks again.
RequestFails(r) ==
  /\ store # "memory"
  /\ reader[r].pc \in {"asked", "collected", "begun", "located", "selected", "counted"}
  /\ Retry(r)
  /\ lock' = IF lock = r THEN Nil ELSE lock
  /\ UNCHANGED <<store, hist, snapshots, made, clock>>

ListNext ==
  \/ \E id \in Ids : Create(id) \/ Update(id)
  \/ Tick
  \/ \E r \in Readers :
       \/ Ask(r) \/ MemoryList(r) \/ MemoryWait(r) \/ SqliteList(r)
       \/ PostgresCollect(r) \/ PostgresBegin(r) \/ PostgresLookup(r) \/ PostgresPage(r)
       \/ PostgresSelect(r) \/ PostgresFits(r) \/ PostgresLock(r) \/ PostgresInsert(r)
       \/ RequestFails(r)
ListSpec == ListInit /\ [][ListNext]_listVars

-----------------------------------------------------------------------------
\* Replaced(i) is when the i-th version of the table stopped being current.
Replaced(i) == IF i < Len(hist) THEN hist[i + 1].at ELSE clock

\* The pages of a list that was read to its end are the tasks of one instant,
\* each once and in order, whatever was created, updated, frozen by others or
\* collected meanwhile.  The instant is not before the first request; only the
\* in-memory store may answer with a view that is younger than the lifetime of
\* a snapshot (freeze_projection, frozen_list_transaction, reusable_snapshot).
WholeListing ==
  \A r \in Readers :
    reader[r].pc = "done" =>
      \E i \in DOMAIN hist :
        /\ reader[r].got = Projection(hist[i].table, reader[r].query)
        /\ Replaced(i) + (IF store = "memory" THEN TTL ELSE 0) >= reader[r].start

\* A client that follows its tokens with its own query is refused only after
\* its snapshot has expired: neither the capacity limit nor another list,
\* replica or process takes a page from it earlier (gc_memory_snapshots).
RefusedOnlyExpired ==
  \A r \in Readers :
    reader[r].pc = "refused" =>
      \/ clock >= reader[r].expires
      \/ reader[r].token.snap \in DOMAIN snapshots
         /\ snapshots[reader[r].token.snap].query # reader[r].query

\* The snapshots of a tenant stay within both limits, however many replicas
\* count and insert at the same time (MAX_ACTIVE_SNAPSHOTS, MAX_SNAPSHOT_BYTES).
SnapshotsBounded ==
  /\ Cardinality(DOMAIN snapshots) <= MaxActive
  /\ Sizes(snapshots) <= MaxBytes

\* Lists are whole, keep their pages for their lifetime and stay within limits.
ListsServed == WholeListing /\ RefusedOnlyExpired /\ SnapshotsBounded
=============================================================================
