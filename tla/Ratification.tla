----------------------------- MODULE Ratification -----------------------------
(* Human ratification inside the durable authority: the candidate of a       *)
(* dispatch is frozen in a packet, a ratifier reviews it and decides, and     *)
(* only an approval publishes it.  Modelled: the ratification transactions of *)
(* src/sqlite_store.rs and src/postgres_store.rs, the continuation,           *)
(* cancellation and dead-letter transactions where they meet packets, the     *)
(* HTTP routes of src/server.rs and the opening of the store with its key.    *)
(*                                                                            *)
(* A transaction is one step; the reads of a request before its transaction   *)
(* and after it are steps of their own.  A digest is the value it is taken    *)
(* of, so an anchor is the rows it was computed from.                         *)
EXTENDS Integers, Sequences, SequencesExt, FiniteSets, TaskState

CONSTANTS
  Tasks,
  Ratifiers,      \* accounts that may review and decide
  Keys,           \* idempotency keys of requests
  Secrets,        \* ratification keys a process may be started with
  Backends,       \* subset of {"sqlite", "postgres"}
  MaxDispatches,  \* bound on the outbox rows of a task
  MaxCrashes,     \* bound on crashes
  Mixes           \* what a behaviour may contain: sets of "crash", "owner", "bury"

VARIABLES
  backend,   \* the store behind the process
  asked,     \* what this behaviour contains
  up,        \* the key the process runs with, "down" or "disabled"
  crashes,   \* crashes so far
  secret,    \* the ratification_key_check row, "none" when absent
  anchor,    \* task -> the packets as the ledger anchor seals them
  packets,   \* task -> its ratification_packets and events, by generation
  task,      \* task -> state, revision and the generation it publishes
  outbox,    \* task -> its outbox rows
  owner,     \* the answer the last continuation or cancellation got
  request    \* ratifier -> the request it has in hand

rvars == <<backend, asked, up, crashes, secret, anchor, packets, task, outbox, owner, request>>
rows  == <<anchor, packets, task, outbox>>
proc  == <<backend, asked, up, crashes, secret>>

ASSUME RatificationConstants ==
  /\ Backends \subseteq {"sqlite", "postgres"} /\ MaxDispatches \in Nat /\ MaxCrashes \in Nat
  /\ "down" \notin Secrets /\ "disabled" \notin Secrets /\ "none" \notin Secrets

Open == {"awaiting_review", "reviewed"}
Decisions == {"approve", "reject", "amend"}
DecidedState == [approve |-> "approved", reject |-> "rejected", amend |-> "amended"]
Latest(t) == Len(packets[t])
Closes(ps, s) == [g \in DOMAIN ps |-> IF ps[g].state \in Open THEN [ps[g] EXCEPT !.state = s] ELSE ps[g]]
Amended(p) == Len(p.events) = 2 /\ p.events[2].op = "amend"
NoRequest == [pc |-> "idle", task |-> "none", tab |-> <<>>, op |-> "none", key |-> "none",
              generation |-> 0, expected |-> 0, replay |-> FALSE, status |-> 0]

RatificationInit ==
  /\ backend \in Backends /\ asked \in Mixes /\ up = "down" /\ crashes = 0 /\ secret = "none"
  /\ anchor = [t \in Tasks |-> <<>>] /\ packets = [t \in Tasks |-> <<>>]
  /\ task = [t \in Tasks |-> [state |-> "Submitted", revision |-> 1, published |-> 0]]
  /\ outbox = [t \in Tasks |-> <<[cause |-> 1, required |-> FALSE, state |-> "pending"]>>]
  /\ owner = "none" /\ request = [r \in Ratifiers |-> NoRequest]

-----------------------------------------------------------------------------
(* Validation of the ledger.                                                  *)

terminal_ratification_task_matches(decision, t, revision) ==
  CASE decision = "approve" -> task[t].revision = revision + 1 /\ task[t].state = "Completed"
    [] decision = "reject"  -> task[t].revision = revision + 1 /\ task[t].state = "Rejected"
    [] OTHER -> \/ task[t].revision > revision + 1
                \/ task[t].revision = revision + 1 /\ task[t].state = "InputRequired"

(* The state a packet has after its receipts; closing leaves them as they are. *)
verify_ratification_packet_chain(p) ==
  /\ Len(p.events) <= 2
  /\ p.state \in CASE p.events = <<>> -> {"awaiting_review", "canceled", "superseded"}
                   [] Len(p.events) = 1 -> {"reviewed", "canceled", "superseded"}
                   [] OTHER -> {DecidedState[p.events[2].op]}

(* What the latest packet demands of its task.                                *)
LatestMatches(t) ==
  packets[t] # <<>> => LET p == Last(packets[t]) IN
    IF Len(p.events) = 2 THEN terminal_ratification_task_matches(p.events[2].op, t, p.task_revision)
    ELSE p.state \in Open => task[t].revision = p.task_revision

(* SQLite reads all packets of the store, PostgreSQL those of the one task.   *)
validate_ratification_records ==
  \A t \in Tasks :
    /\ \A g \in DOMAIN packets[t] :
         /\ verify_ratification_packet_chain(packets[t][g])
         /\ g > 1 => Amended(packets[t][g - 1])
    /\ LatestMatches(t)

validate_ratification_target_semantics(t) ==
  /\ \A g \in DOMAIN packets[t] :
       /\ verify_ratification_packet_chain(packets[t][g])
       /\ g > 1 => packets[t][g - 1].events # <<>> /\ Last(packets[t][g - 1].events).op = "amend"
  /\ LatestMatches(t)

integrated_ratification_anchor_state(ps) == ps

(* The PostgreSQL anchors count the rows of the task and seal the counts.     *)
Counts(ps) == <<Len(ps), FoldSeq(LAMBDA p, n : Len(p.events) + n, 0, ps)>>
validate_integrated_ratification_anchor(t) ==
  validate_ratification_target_semantics(t) /\ Counts(anchor[t]) = Counts(packets[t])

Authentic(t) ==
  IF backend = "sqlite" THEN anchor = packets /\ validate_ratification_records
  ELSE validate_integrated_ratification_anchor(t)

(* The PostgreSQL anchor takes a seal only in a transaction that broke it.    *)
write_integrated_ratification_anchor(t, ps) == anchor' = [anchor EXCEPT ![t] = integrated_ratification_anchor_state(ps)]
seal_ratification_anchor(t, ps) == backend = "postgres" => ps # packets[t]

-----------------------------------------------------------------------------
(* Opening and losing the process.                                            *)

(* A key once used is the only one accepted, and is never given up again.     *)
reconcile_ratification_key(k) ==
  IF k = "disabled" THEN secret = "none" /\ secret' = "none"
  ELSE secret \in {"none", k} /\ secret' = k

(* PostgreSQL checks at its start that the anchors carry seals of this key.   *)
reconcile_postgres_ratification_anchor(k) == k # "disabled" /\ secret # "none" => secret = k

OpenStore(k) ==
  /\ up = "down" /\ reconcile_ratification_key(k)
  /\ IF backend = "sqlite" THEN anchor = packets /\ validate_ratification_records
     ELSE reconcile_postgres_ratification_anchor(k)
  /\ up' = k
  /\ UNCHANGED <<backend, asked, crashes, rows, owner, request>>

Crash ==
  /\ "crash" \in asked /\ up # "down" /\ crashes < MaxCrashes
  /\ up' = "down" /\ crashes' = crashes + 1
  /\ request' = [r \in Ratifiers |-> IF request[r].pc \in {"idle", "loaded", "done"} THEN request[r]
                                     ELSE [NoRequest EXCEPT !.pc = "done", !.task = request[r].task, !.tab = request[r].tab]]
  /\ UNCHANGED <<backend, asked, secret, rows, owner>>

Serving == up \in Secrets

-----------------------------------------------------------------------------
(* The driver: delivery of a candidate or of an ordinary result, dead letter. *)

next_authenticated_ratification_generation(t) ==
  IF packets[t] = <<>> THEN {1} ELSE IF Amended(Last(packets[t])) THEN {Latest(t) + 1} ELSE {}

(* A dispatch made by an amendment runs on the authority of its receipt.      *)
verify_runtime_amendment(t, d) ==
  d.required => \E g \in DOMAIN packets[t] : Amended(packets[t][g]) /\ packets[t][g].task_revision + 1 = d.cause

Deliverable(t, i) ==
  /\ outbox[t][i].state = "pending" /\ task[t].revision = outbox[t][i].cause
  /\ verify_runtime_amendment(t, outbox[t][i])

(* The candidate waits under the revision its own delivery makes.             *)
prepare_authoritative_review_candidate(t) ==
  [task_revision |-> task[t].revision + 1, state |-> "awaiting_review", reviewer |-> "none", events |-> <<>>]

(* The candidate becomes the next generation; a failed freeze undoes all.     *)
commit_delivery_for_ratification(t, i) ==
  /\ Serving /\ Deliverable(t, i) /\ Authentic(t)
  /\ \E g \in next_authenticated_ratification_generation(t) :
       LET ps == Append(packets[t], prepare_authoritative_review_candidate(t))
       IN  packets' = [packets EXCEPT ![t] = ps] /\ write_integrated_ratification_anchor(t, ps)
  /\ task' = [task EXCEPT ![t].state = "InputRequired", ![t].revision = @ + 1]
  /\ outbox' = [outbox EXCEPT ![t][i].state = "delivered"]
  /\ UNCHANGED <<proc, owner, request>>

(* A dispatch of an amendment must bring a candidate.                         *)
commit_delivery(t, i) ==
  /\ Serving /\ Deliverable(t, i) /\ ~outbox[t][i].required
  /\ task' = [task EXCEPT ![t].state = "Completed", ![t].revision = @ + 1]
  /\ outbox' = [outbox EXCEPT ![t][i].state = "delivered"]
  /\ UNCHANGED <<proc, anchor, packets, owner, request>>

(* The last attempt failed: whatever live state the task is in, it fails.     *)
Buried(t) == IF IsTerminal(task[t].state) THEN task[t]
             ELSE [task[t] EXCEPT !.state = "Failed", !.revision = @ + 1]
dead_letter_task(t, i) ==
  /\ "bury" \in asked /\ Serving /\ outbox[t][i].state = "pending"
  /\ outbox[t][i].required => Authentic(t)
  /\ outbox' = [outbox EXCEPT ![t][i].state = "dead_letter"]
  /\ task' = [task EXCEPT ![t] = Buried(t)]
  /\ UNCHANGED <<proc, anchor, packets, owner, request>>

-----------------------------------------------------------------------------
(* The owner of the task continues or cancels it.                             *)

admit_continuation(t) ==
  LET ps == Closes(packets[t], "superseded") IN
  /\ "owner" \in asked /\ Serving /\ task[t].state = "InputRequired" /\ Len(outbox[t]) < MaxDispatches
  /\ IF Authentic(t) /\ seal_ratification_anchor(t, ps)
     THEN /\ packets' = [packets EXCEPT ![t] = ps] /\ write_integrated_ratification_anchor(t, ps)
          /\ task' = [task EXCEPT ![t].state = "Working", ![t].revision = @ + 1]
          /\ outbox' = [outbox EXCEPT ![t] = Append(@,
               [cause |-> task[t].revision + 1, required |-> FALSE, state |-> "pending"])]
          /\ owner' = "served"
     ELSE UNCHANGED rows /\ owner' = "internal_error"
  /\ UNCHANGED <<proc, request>>

(* The latest dispatch that is not closed, or the latest one.                 *)
CancelRow(t) ==
  LET live == {i \in DOMAIN outbox[t] : outbox[t][i].state \in {"pending", "delivered"}}
      of   == IF live = {} THEN DOMAIN outbox[t] ELSE live
  IN  CHOOSE i \in of : \A j \in of : j <= i

(* A cancellation that need not wait for a running receiver.                  *)
request_cancellation(t) ==
  LET ps == Closes(packets[t], "canceled") IN
  /\ "owner" \in asked /\ Serving /\ ~IsTerminal(task[t].state)
  /\ IF Authentic(t) /\ seal_ratification_anchor(t, ps)
     THEN /\ packets' = [packets EXCEPT ![t] = ps] /\ write_integrated_ratification_anchor(t, ps)
          /\ task' = [task EXCEPT ![t].state = "Canceled", ![t].revision = @ + 1]
          /\ outbox' = [outbox EXCEPT ![t][CancelRow(t)].state = "superseded"]
          /\ owner' = "served"
     ELSE UNCHANGED rows /\ owner' = "internal_error"
  /\ UNCHANGED <<proc, request>>

-----------------------------------------------------------------------------
(* The routes of a ratifier: read the view, send a command with its ETag.     *)

ratification_etag(t, g) == <<t, g, packets[t][g].state, packets[t][g].events>>
HasActed(op, p) == IF op = "review" THEN p.events # <<>> ELSE Len(p.events) = 2
PreconditionEtag(op, t, g) ==
  IF op = "review" THEN <<t, g, "awaiting_review", <<>>>>
  ELSE <<t, g, "reviewed", <<packets[t][g].events[1]>>>>
Answer(r, s) == request' = [request EXCEPT ![r] =
  [NoRequest EXCEPT !.pc = "done", !.task = request[r].task, !.tab = request[r].tab, !.status = s]]

LoadView(r, t, g) ==
  /\ Serving /\ request[r].pc \in {"idle", "done"} /\ g \in DOMAIN packets[t] /\ Authentic(t)
  /\ request' = [request EXCEPT ![r] = [NoRequest EXCEPT !.pc = "loaded", !.task = t, !.tab = ratification_etag(t, g)]]
  /\ UNCHANGED <<proc, rows, owner>>

(* With the tab it has, the client sends a command; after an answer or after  *)
(* none, the same again or another one.                                       *)
Send(r, op, k) ==
  /\ Serving /\ request[r].pc \in {"loaded", "done"}
  /\ request' = [request EXCEPT ![r] = [NoRequest EXCEPT !.pc = "sent", !.task = request[r].task,
                                        !.tab = request[r].tab, !.op = op, !.key = k]]
  /\ UNCHANGED <<proc, rows, owner>>

Admitted(r, g, replay) ==
  request' = [request EXCEPT ![r].pc = "admitted", ![r].generation = g, ![r].replay = replay,
    ![r].expected = IF replay THEN IF request[r].op = "review" THEN 0 ELSE 1 ELSE Len(packets[request[r].task][g].events)]

(* Faulty: the generation alone is compared.                                  *)
PolicyByGeneration(r) ==
  LET q == request[r] IN
  /\ Serving /\ q.pc = "sent"
  /\ IF q.tab[2] = Latest(q.task) THEN Admitted(r, Latest(q.task), FALSE) ELSE Answer(r, 412)
  /\ UNCHANGED <<proc, rows, owner>>

(* The precondition is compared with the latest generation first.             *)
ratification_mutation_policy(r) ==
  LET q == request[r]
      t == q.task
      g == Latest(t)
      acted == HasActed(q.op, packets[t][g])
  IN
  /\ Serving /\ q.pc = "sent"
  /\ CASE ~Authentic(t) -> Answer(r, 503)
       [] acted /\ q.tab = PreconditionEtag(q.op, t, g) -> Admitted(r, g, TRUE)
       [] ~acted /\ q.tab = ratification_etag(t, g) ->
            IF packets[t][g].state = (IF q.op = "review" THEN "awaiting_review" ELSE "reviewed")
            THEN Admitted(r, g, FALSE) ELSE Answer(r, 412)
       [] OTHER -> request' = [request EXCEPT ![r].pc = "lookup"]
  /\ UNCHANGED <<proc, rows, owner>>

(* The generations of the task where the account used the key for this action. *)
ReplayGenerations(r) ==
  {g \in DOMAIN packets[request[r].task] : \E i \in DOMAIN packets[request[r].task][g].events :
     LET e == packets[request[r].task][g].events[i] IN
       e.account = r /\ e.key = request[r].key /\ (e.op = "review") = (request[r].op = "review")}

ratification_replay_candidate(r) ==
  LET q == request[r] IN
  /\ Serving /\ q.pc = "lookup"
  /\ IF ~Authentic(q.task) THEN Answer(r, 503)
     ELSE \/ \E g \in ReplayGenerations(r) : q.tab = PreconditionEtag(q.op, q.task, g) /\ Admitted(r, g, TRUE)
          \/ (\A g \in ReplayGenerations(r) : q.tab # PreconditionEtag(q.op, q.task, g)) /\ Answer(r, 412)
  /\ UNCHANGED <<proc, rows, owner>>

-----------------------------------------------------------------------------
(* The command transactions.                                                  *)

Receipt(r) == [account |-> r, op |-> request[r].op, key |-> request[r].key]
SameCommand(r, e) == e = Receipt(r)

(* The one delivered dispatch that produced the packet.                       *)
CausativeDelivered(t, p) ==
  Cardinality({i \in DOMAIN outbox[t] : outbox[t][i].cause = p.task_revision - 1 /\ outbox[t][i].state = "delivered"}) = 1

(* The lifecycle the receipts demand of packet and task before any answer,    *)
(* replays included; an amended task may have moved on.                       *)
ReplayIntegrity(t, p) ==
  LET n == Len(p.events)
      last == IF n = 0 THEN "none" ELSE p.events[n].op
      revision == p.task_revision + (IF n = 2 THEN 1 ELSE 0)
      moved == last = "amend" /\ task[t].revision > revision
  IN
  /\ p.state = CASE n = 0 -> "awaiting_review" [] n = 1 -> "reviewed" [] OTHER -> DecidedState[last]
  /\ \/ moved
     \/ /\ task[t].revision = revision
        /\ task[t].state = CASE last = "approve" -> "Completed" [] last = "reject" -> "Rejected" [] OTHER -> "InputRequired"

(* Where else the account has used the key: on any task, in any generation.   *)
KeyUses(a, k) ==
  {u \in UNION {{<<t, g>> : g \in DOMAIN packets[t]} : t \in Tasks} :
     \E i \in DOMAIN packets[u[1]][u[2]].events :
       packets[u[1]][u[2]].events[i].account = a /\ packets[u[1]][u[2]].events[i].key = k}

reject_global_ratification_idempotency_conflict(r) ==
  IF \A u \in KeyUses(r, request[r].key) : CausativeDelivered(u[1], packets[u[1]][u[2]])
  THEN IF request[r].replay /\ request[r].op # "review" THEN 412 ELSE 409
  ELSE 503

(* What the transaction answers before it writes: 0 when it goes on to write, *)
(* 201 with the old receipt when the command was carried out before.          *)
Verdict(r) ==
  LET q == request[r]
      t == q.task
      p == packets[t][q.generation]
      same == {i \in DOMAIN p.events : p.events[i].account = r /\ p.events[i].key = q.key}
  IN
  CASE ~Authentic(t) \/ ~CausativeDelivered(t, p) \/ ~ReplayIntegrity(t, p) -> 503
    [] same # {} -> IF \A i \in same : SameCommand(r, p.events[i]) THEN 201
                    ELSE IF q.replay /\ q.op # "review" THEN 412 ELSE 409
    [] KeyUses(r, q.key) # {} -> reject_global_ratification_idempotency_conflict(r)
    [] OTHER -> 0

(* Faulty: a replayed amendment makes its dispatch again.                     *)
ReplayedAgain(r) ==
  LET q == request[r] IN
  /\ IF Verdict(r) = 201 THEN request' = [request EXCEPT ![r].pc = "committed"] ELSE Answer(r, Verdict(r))
  /\ outbox' = IF Verdict(r) = 201 /\ q.op = "amend" /\ Len(outbox[q.task]) < MaxDispatches
               THEN [outbox EXCEPT ![q.task] = Append(@, [Last(@) EXCEPT !.state = "pending"])] ELSE outbox
  /\ UNCHANGED <<proc, anchor, packets, task, owner>>

Replayed(r) ==
  /\ IF Verdict(r) = 201 THEN request' = [request EXCEPT ![r].pc = "committed"] ELSE Answer(r, Verdict(r))
  /\ UNCHANGED <<proc, rows, owner>>

(* Both commands: the task still waits at the revision of the packet.         *)
Waiting(r) ==
  LET q == request[r] IN task[q.task].state = "InputRequired" /\ task[q.task].revision = packets[q.task][q.generation].task_revision

ReviewGuard(r) ==
  LET p == packets[request[r].task][request[r].generation] IN
  Waiting(r) /\ p.state = "awaiting_review" /\ p.events = <<>> /\ request[r].expected = 0

DecisionByAnyone(r) ==
  LET p == packets[request[r].task][request[r].generation] IN
  Waiting(r) /\ p.state = "reviewed" /\ Len(p.events) = 1 /\ request[r].expected = 1
DecisionGuard(r) ==
  LET p == packets[request[r].task][request[r].generation] IN
  Waiting(r) /\ p.state = "reviewed" /\ Len(p.events) = 1 /\ request[r].expected = 1 /\ p.reviewer = r

AppendReceipt(r, state) ==
  LET q == request[r]
      p == packets[q.task][q.generation]
      reviewer == IF q.op = "review" THEN r ELSE p.reviewer
      ps == [packets[q.task] EXCEPT ![q.generation] =
               [p EXCEPT !.state = state, !.reviewer = reviewer, !.events = Append(@, Receipt(r))]]
  IN  /\ packets' = [packets EXCEPT ![q.task] = ps]
      /\ write_integrated_ratification_anchor(q.task, ps)
      /\ request' = [request EXCEPT ![r].pc = "committed"]

acknowledge_ratification_review(r) ==
  /\ Serving /\ request[r].pc = "admitted" /\ request[r].op = "review"
  /\ CASE Verdict(r) # 0 -> Replayed(r)
       [] Verdict(r) = 0 /\ ~ReviewGuard(r) -> Answer(r, 412) /\ UNCHANGED <<proc, rows, owner>>
       [] OTHER -> AppendReceipt(r, "reviewed") /\ UNCHANGED <<proc, task, outbox, owner>>

(* What a decision makes of the task, and the dispatch an amendment adds.     *)
Decided(t, g, op) ==
  [state |-> CASE op = "approve" -> "Completed" [] op = "reject" -> "Rejected" [] OTHER -> "InputRequired",
   revision |-> task[t].revision + 1,
   published |-> IF op = "approve" THEN g ELSE task[t].published]
AmendmentDispatch(t) == [cause |-> task[t].revision + 1, required |-> TRUE, state |-> "pending"]

decide_ratification(r) ==
  LET q == request[r] IN
  /\ Serving /\ q.pc = "admitted" /\ q.op \in Decisions
  /\ CASE Verdict(r) # 0 -> Replayed(r)
       [] Verdict(r) = 0 /\ ~DecisionGuard(r) -> Answer(r, 412) /\ UNCHANGED <<proc, rows, owner>>
       [] OTHER ->
            /\ q.op = "amend" => Len(outbox[q.task]) < MaxDispatches
            /\ AppendReceipt(r, DecidedState[q.op])
            /\ task' = [task EXCEPT ![q.task] = Decided(q.task, q.generation, q.op)]
            /\ outbox' = IF q.op = "amend" THEN [outbox EXCEPT ![q.task] = Append(@, AmendmentDispatch(q.task))] ELSE outbox
            /\ UNCHANGED <<proc, owner>>

(* After the commit the view is read again; the answer carries the receipt.   *)
ratification_result(r) ==
  LET q == request[r] IN
  /\ Serving /\ q.pc = "committed"
  /\ Answer(r, IF Authentic(q.task) THEN 201 ELSE 503)
  /\ UNCHANGED <<proc, rows, owner>>

RatificationNext ==
  \/ \E k \in Secrets \cup {"disabled"} : OpenStore(k)
  \/ Crash
  \/ \E t \in Tasks : admit_continuation(t) \/ request_cancellation(t)
  \/ \E t \in Tasks : \E i \in DOMAIN outbox[t] :
       commit_delivery_for_ratification(t, i) \/ commit_delivery(t, i) \/ dead_letter_task(t, i)
  \/ \E r \in Ratifiers :
       \/ \E t \in Tasks : \E g \in DOMAIN packets[t] : LoadView(r, t, g)
       \/ \E op \in Decisions \cup {"review"}, k \in Keys : Send(r, op, k)
       \/ ratification_mutation_policy(r) \/ ratification_replay_candidate(r)
       \/ acknowledge_ratification_review(r) \/ decide_ratification(r) \/ ratification_result(r)

RatificationSpec == RatificationInit /\ [][RatificationNext]_rvars
=============================================================================
