--------------------------- MODULE CallbackWorker ---------------------------
(***************************************************************************)
(* The callback workers of one or more replicas over the shared authority  *)
(* (callback_worker.rs: run, process, retry_or_dead_at, fail) and the      *)
(* endpoint they call.  A worker claims a batch, then processes one lease  *)
(* after another; only the lease in hand is renewed.                       *)
(***************************************************************************)
EXTENDS CallbackAuthority

CONSTANTS Workers,
          KeyOrder,        \* the keys in the order a claim returns them
          Batch,           \* claim_batch
          MaxCrashes,      \* bound on the ends of a worker
          Disturb          \* which of "delete", "upgrade", "quota", "answers" happen

VARIABLES worker,      \* worker -> [pc, queue, key, epoch, generation, rev]
          sent,        \* attempts whose request was started
          accepted,    \* attempts the endpoint accepted
          crashes

vars == <<backend, authority, worker, sent, accepted, crashes>>
outside == <<sent, accepted, crashes>>

Idle(rev) == [pc |-> "claim", queue |-> <<>>, key |-> None, epoch |-> 0,
              generation |-> 0, rev |-> rev]

NotRunning(rev) == [Idle(rev) EXCEPT !.pc = "ended"]

WorkerInit ==
  /\ Init
  /\ worker \in [Workers -> {Idle(1), NotRunning(1)}]
  /\ sent = {} /\ accepted = {} /\ crashes = 0

At(w, pc) == worker[w].pc = pc
Goto(w, pc) == worker' = [worker EXCEPT ![w].pc = pc]
Attempt(w) == <<worker[w].key, worker[w].epoch>>
Fence(w) == FenceHolds(worker[w].key, worker[w].epoch)

(***************************************************************************)
(* The loop of run.                                                        *)
(***************************************************************************)
Claim(w) ==
  /\ At(w, "claim")
  /\ \E ks \in SUBSET Keys :
       /\ Cardinality(ks) <= Batch
       /\ ks = {} => ~\E k \in Keys : Claimable(k)
       /\ claim_callback_deliveries(ks)
       /\ worker' = [worker EXCEPT
            ![w].pc = "next",
            ![w].queue = [n \in 1..Cardinality(ks) |->
              LET k == SelectSeq(KeyOrder, LAMBDA x : x \in ks)[n] IN
              [key |-> k, epoch |-> delivery'[k].attempt,
               generation |-> config[k].generation]]]
  /\ UNCHANGED outside

Take(w) ==
  /\ At(w, "next")
  /\ LET q == worker[w].queue IN
     worker' = [worker EXCEPT ![w] =
       IF q = <<>> THEN Idle(@.rev)
       ELSE [@ EXCEPT !.pc = "begin", !.queue = Tail(q), !.key = q[1].key,
                      !.epoch = q[1].epoch, !.generation = q[1].generation]]
  /\ UNCHANGED <<authority, outside>>

(***************************************************************************)
(* process.                                                                *)
(***************************************************************************)
\* Another generation is revoked; otherwise the renewal fences the lease and
\* tells the database time.
Begin(w) ==
  /\ At(w, "begin")
  /\ Goto(w, IF worker[w].generation # worker[w].rev THEN "canceled"
             ELSE IF ~Fence(w) THEN "next"
             ELSE IF worker[w].key[1] \in aged THEN "dead"
             ELSE "quota")
  /\ UNCHANGED <<authority, outside>>

\* retry_or_dead_at: no retry beyond the last attempt, and none at or after the
\* expiry as seen at the time the caller sampled.
RetryOutcomes(w, expired) ==
  IF worker[w].epoch + 1 > MaxAttempts \/ expired THEN {"dead"} ELSE {"retry", "dead"}

ReserveQuota(w) ==
  /\ At(w, "quota")
  /\ \/ Goto(w, "validate")
     \/ "quota" \in Disturb /\ \E s \in RetryOutcomes(w, FALSE) : Goto(w, s)
  /\ UNCHANGED <<authority, outside>>

Validate(w) ==
  /\ At(w, "validate")
  /\ IF Fence(w) THEN Goto(w, "send") /\ sent' = sent \cup {Attempt(w)}
                 ELSE Goto(w, "next") /\ UNCHANGED sent
  /\ UNCHANGED <<authority, accepted, crashes>>

\* The endpoint handles the request, whatever becomes of the answer.
Accept(w) ==
  /\ At(w, "send") /\ Attempt(w) \notin accepted
  /\ accepted' = accepted \cup {Attempt(w)}
  /\ UNCHANGED <<authority, worker, sent, crashes>>

\* 2xx commits; the retryable statuses and transport errors retry; anything
\* else is dead.  A failure may follow an acceptance.
Response(w) ==
  /\ At(w, "send")
  /\ \/ Attempt(w) \in accepted /\ Goto(w, "delivered")
     \/ /\ "answers" \in Disturb
        /\ \E s \in {"dead"} \cup RetryOutcomes(w, worker[w].key[1] \in aged) : Goto(w, s)
  /\ UNCHANGED <<authority, outside>>

\* A renewal of the lease in hand fails, or the worker is told to stop: the
\* request is dropped and the lease left to expire.
Interrupt(w) ==
  /\ At(w, "send") /\ ~Fence(w)
  /\ Goto(w, "next")
  /\ UNCHANGED <<authority, outside>>

\* commit, fail or revoke under the fence; a lost fence changes nothing.
Settle(w, next) ==
  /\ At(w, next)
  /\ IF Fence(w) THEN finish_callback_delivery(worker[w].key, worker[w].epoch, next)
                 ELSE UNCHANGED authority
  /\ Goto(w, "next")
  /\ UNCHANGED outside

(***************************************************************************)
(* A worker ends at any point (shutdown, abort, panic, crash) with its     *)
(* leases, and a new process starts with the policy installed by then.     *)
(***************************************************************************)
Crash(w) ==
  /\ ~At(w, "ended") /\ crashes < MaxCrashes
  /\ worker' = [worker EXCEPT ![w] = NotRunning(@.rev)]
  /\ crashes' = crashes + 1
  /\ UNCHANGED <<authority, sent, accepted>>

Restart(w) ==
  /\ At(w, "ended")
  /\ worker' = [worker EXCEPT ![w] = Idle(policy)]
  /\ UNCHANGED <<authority, outside>>

Create ==
  \E k \in Keys, w \in Workers :
    SqliteCreate(k, worker[w].rev) \/ PgCreateCheck(k, worker[w].rev)

Terminate == \E t \in Tasks : SqliteEnqueue(t) \/ PgEnqueueInsert(t)

Delete ==
  /\ "delete" \in Disturb
  /\ \E k \in Keys : SqliteDelete(k) \/ PgDeleteCancel(k)

\* SQLite has one process, so its policy changes while no worker runs.
Upgrade ==
  /\ "upgrade" \in Disturb
  /\ \/ SqliteReconcile /\ \A w \in Workers : At(w, "ended")
     \/ PgReconcileCheck

Statements ==
  PgCreateInsert \/ PgEnqueueClose \/ PgDeleteCommit \/ PgReconcileCancel \/ PgReconcileRevoke

Operations ==
  /\ Create \/ Terminate \/ Delete \/ Upgrade \/ Statements
  /\ UNCHANGED <<worker, outside>>

Time ==
  /\ \/ \E k \in Keys : LeaseExpires(k) \/ RetryDue(k)
     \/ \E t \in Tasks : EventExpires(t)
  /\ UNCHANGED <<worker, outside>>

Step(w) ==
  \/ Claim(w) \/ Take(w) \/ Begin(w) \/ ReserveQuota(w) \/ Validate(w)
  \/ Accept(w) \/ Response(w) \/ Interrupt(w)
  \/ \E s \in {"delivered", "retry", "dead", "canceled"} : Settle(w, s)

Next ==
  /\ \/ Operations \/ Time
     \/ \E w \in Workers : Step(w) \/ Crash(w) \/ Restart(w)
  /\ UNCHANGED backend

Spec == WorkerInit /\ [][Next]_vars

(***************************************************************************)
(* Properties.                                                             *)
(***************************************************************************)
\* What is recorded as delivered was accepted by the endpoint in the very
\* attempt that is recorded, whichever replica committed it
\* (callback_worker.rs:692, finish_callback_delivery).
DeliveredWasAccepted ==
  \A k \in Deliveries({"delivered"}) : <<k, delivery[k].attempt>> \in accepted

\* No delivery is attempted more than max_attempts times, whatever leases
\* expire and whatever replicas take over (claim_callback_deliveries).
AttemptsBounded == \A k \in Keys : delivery[k].attempt <= MaxAttempts

\* Requests of one delivery start in the order of their attempt numbers, each
\* at most once: a replica that lost its lease never sends after the one that
\* took over (callback_worker.rs:664).
AttemptsInOrder ==
  \A w \in Workers : At(w, "validate") /\ worker'[w].pc = "send" =>
    \A a \in sent : a[1] = worker[w].key => a[2] < worker[w].epoch

\* A delivery that was delivered, buried or canceled stays so, and no attempt
\* is counted on it afterwards.
SettledStays ==
  \A k \in Deliveries({"delivered", "dead", "canceled"}) :
    /\ delivery'[k].state = delivery[k].state
    /\ delivery'[k].attempt = delivery[k].attempt

\* At every moment the records would pass the validation of the next start:
\* the ledger is exactly what configurations, events, attempts and deliveries
\* demand, and the capacities are respected
\* (validate_callback_records, validate_callback_semantics).
RecordsValid == validate_callback_records

\* A configuration is never revoked while one of its deliveries is under a
\* live lease: deletion drains it and a policy upgrade is refused.
LiveLeaseNeverRevoked ==
  \A k \in Keys : LiveLease(k) => config[k].state # "revoked"

\* A configuration that a terminal transition closed has its delivery: none is
\* closed without being notified (enqueue_terminal_callbacks).
ClosedIsNotified ==
  \A k \in Configs({"terminal_closed"}) : delivery[k].state # "none"

\* A request is under way only for a configuration that its owner has not
\* deleted for good, unless its lease was lost in the meantime.
SendsAreWanted ==
  \A w \in Workers : At(w, "send") /\ Fence(w) => config[worker[w].key].state # "revoked"

\* Attempts are fenced: deliveries are recorded truthfully, in order and once,
\* and no request goes out for a configuration deleted for good.  Only SQLite
\* closes the gap between the lease check and the revocation, and only
\* PostgreSQL leaves an attempt row for every expired lease.
LedgerTruthful ==
  /\ DeliveredWasAccepted /\ AttemptsBounded
  /\ backend = "sqlite" => LiveLeaseNeverRevoked /\ ClosedIsNotified /\ SendsAreWanted
  /\ backend = "postgres" => RecordsValid

\* The same for every step: requests are in order, and what is settled stays.
CallbacksFenced == [][LedgerTruthful' /\ AttemptsInOrder /\ SettledStays]_vars

\* Every delivery that was enqueued is delivered, buried or canceled in the end,
\* unless its configuration was deleted: retries are bounded by attempts and age.
EveryCallbackSettles ==
  \A k \in Keys : (delivery[k].state = "pending")
                    ~> \/ delivery[k].state \in {"delivered", "dead", "canceled"}
                       \/ config[k].state \in {"draining", "revoked"}
=============================================================================
