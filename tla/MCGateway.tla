------------------------------ MODULE MCGateway ------------------------------
(***************************************************************************)
(* A gateway opens its store, authenticates requests and lists tasks, each *)
(* explored on its own.                                                    *)
(*   Opening: two processes, two tenants and two keys, and every store a   *)
(*   release has left behind: new, versions 1 to 4 (flawed or not), 8 to   *)
(*   12, and PostgreSQL schemas before and after revision 11.              *)
(*   Authentication: two requests, two signing keys, one rotation.         *)
(*   Listing: two readers, three or four tasks of two accounts, pages of   *)
(*   one task, snapshots that live one tick and one live snapshot.         *)
(***************************************************************************)
EXTENDS StoreOpening, BearerKeys, TaskListing, TLC

CONSTANTS p1, p2, t1, t2, k1, k2, none, r1, r2, a1, a2
VARIABLE part

Empty == [version |-> 0, tenant |-> none, rows |-> {}, key |-> none, anchor |-> none,
          pending |-> FALSE, notice |-> FALSE, flaw |-> "none"]
LegacyStore(v, f) == [Empty EXCEPT !.version = v, !.rows = {Legacy}, !.flaw = f]
BoundStore(v, f) == [Empty EXCEPT !.version = v, !.tenant = t1, !.rows = {t1}, !.flaw = f]
MCStarts ==
  [backend : {"sqlite"},
   db : {Empty}
     \cup {LegacyStore(1, f) : f \in {"none", "task"}}
     \cup {LegacyStore(v, f) : v \in {3, 4}, f \in {"none", "task", "dispatch"}}
     \cup {BoundStore(v, f) : v \in {8, 11}, f \in {"none", "dispatch"}}
     \cup {BoundStore(12, f) : f \in {"snapshot", "callback"}}
     \cup {BoundStore(9, "audit"), [BoundStore(10, "none") EXCEPT !.key = k1]}]
  \cup
  [backend : {"postgres"},
   db : {Empty, [BoundStore(10, "none") EXCEPT !.key = k1], BoundStore(7, "usage")}
     \cup {BoundStore(13, f) : f \in Flaws \ {"none", "audit"}}]

Task(a, t) == [owner |-> a, state |-> "working", time |-> t, rev |-> 1]
MCTable0 == [i \in 2 .. 4 |-> IF i = 3 THEN Task(a2, 0) ELSE Task(a1, 0)]
MCQueries ==
  {[account |-> a1, own |-> FALSE, state |-> "any", size |-> 1],
   [account |-> a1, own |-> TRUE, state |-> "working", size |-> 1]}
MCReaders == {r1, r2}

(* A task that is updated ends.                                            *)
UpdateEnds == Last(hist').table[3].state = "done" \/ Last(hist').table[3] = Table0[3]

(* The parts that are not explored stay in one initial state.              *)
MCInit ==
  /\ part \in {"opening", "bearer", "listing"}
  /\ StoreInit /\ (part # "opening" => Sqlite /\ db = Empty)
  /\ BearerInit /\ (part # "bearer" => authState.required /\ ~authState.bearer /\ published = Kids)
  /\ ListInit /\ (part # "listing" => store = "memory")
MCNext ==
  \/ part = "opening" /\ StoreNext /\ UNCHANGED <<bearerVars, listVars, part>>
  \/ part = "bearer" /\ BearerNext /\ UNCHANGED <<storeVars, listVars, part>>
  \/ part = "listing" /\ ListNext /\ UpdateEnds /\ UNCHANGED <<storeVars, bearerVars, part>>
MCSpec == MCInit /\ [][MCNext]_<<storeVars, bearerVars, listVars, part>>
Symmetric == Permutations({p1, p2}) \cup Permutations(MCReaders) \cup Permutations(Requests)
=============================================================================
