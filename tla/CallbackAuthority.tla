------------------------- MODULE CallbackAuthority -------------------------
(***************************************************************************)
(* The durable side of push callbacks: configurations, the terminal event  *)
(* of a task, one delivery per configuration, the attempt log, the audit   *)
(* ledger and the policy revision (sqlite_store.rs and postgres_store.rs   *)
(* with migration 0007).                                                   *)
(*                                                                         *)
(* SQLite runs each operation in one immediate transaction, so each is one *)
(* action.  PostgreSQL runs them READ COMMITTED: each statement sees what  *)
(* was committed when the statement began, so an operation whose later     *)
(* statements depend on earlier ones is one action per statement, and the  *)
(* locks it keeps are the variables creating, deleting, closing, upgrading.*)
(*                                                                         *)
(* Time appears only as what the code asks of it: whether a lease is live, *)
(* whether a retry is due and whether the event has expired.  A claim      *)
(* increases attempt_count and lease_epoch together, both from zero, so    *)
(* one number stands for both, and with the key for the whole fence: the   *)
(* lease token is fresh in every claim.  An enrollment's generation is the *)
(* policy revision that installed it.                                      *)
(***************************************************************************)
EXTENDS Naturals, FiniteSets, Sequences

CONSTANTS Keys,            \* configurations <<task, config id>> of one tenant
          MaxPerTask,      \* max_configs_per_task
          MaxPerTenant,    \* max_configs_per_tenant
          MaxPending,      \* max_pending
          MaxAttempts,     \* max_attempts
          MaxRevision,     \* bound on policy revisions
          None

ASSUME CallbackAssumption ==
  /\ MaxPerTenant <= MaxPending
  /\ MaxAttempts \in Nat \ {0}
  /\ None \notin Keys

VARIABLES backend,     \* "sqlite" or "postgres"
          task,        \* task -> "open", "terminal"
          config,      \* key -> [state, generation]
          delivery,    \* key -> [state, attempt, live, due]
          aged,        \* tasks whose terminal event has expired
          attempts,    \* callback_attempts: <<key, attempt, outcome>>
          audits,      \* callback_audits: <<kind, key or task, number>>
          policy,      \* latest policy revision
          creating,    \* PostgreSQL: create between its checks and its insert
          deleting,    \* PostgreSQL: delete that holds a configuration row
          closing,     \* PostgreSQL: enqueue with uncommitted deliveries
          upgrading    \* PostgreSQL: policy installation in progress

store == <<task, config, delivery, aged, attempts, audits, policy>>
locks == <<creating, deleting, closing, upgrading>>
authority == <<store, locks>>

Tasks == {k[1] : k \in Keys}
TaskKeys(t) == {k \in Keys : k[1] = t}

CallbackConfigState == {"absent", "active", "draining", "revoked", "terminal_closed"}
CallbackDeliveryState ==
  {"none", "pending", "leased", "delivered", "retry", "dead", "canceled"}

Configs(s) == {k \in Keys : config[k].state \in s}
Deliveries(s) == {k \in Keys : delivery[k].state \in s}
Retained == Deliveries({"pending", "retry", "leased"})
LiveLease(k) == delivery[k].state = "leased" /\ delivery[k].live
Unrevoked == Configs({"active", "draining", "terminal_closed"})

NoDelivery == [state |-> "none", attempt |-> 0, live |-> FALSE, due |-> TRUE]

Init ==
  /\ backend \in {"sqlite", "postgres"}
  /\ task = [t \in Tasks |-> "open"]
  /\ config = [k \in Keys |-> [state |-> "absent", generation |-> 0]]
  /\ delivery = [k \in Keys |-> NoDelivery]
  /\ aged = {} /\ attempts = {} /\ audits = {}
  /\ policy = 1
  /\ creating = None /\ deleting = None /\ closing = None /\ upgrading = None

(***************************************************************************)
(* Creation of a configuration by a replica that runs policy revision rev. *)
(***************************************************************************)
Authorized(k, rev) == task[k[1]] = "open" /\ rev = policy

HasCapacity(k) ==
  /\ Cardinality(Unrevoked \cap TaskKeys(k[1])) < MaxPerTask
  /\ Cardinality(Unrevoked) < MaxPerTenant

Insert(k, rev) ==
  /\ config' = [config EXCEPT ![k] = [state |-> "active", generation |-> rev]]
  /\ audits' = audits \cup {<<"created", k, 0>>}
  /\ UNCHANGED <<task, delivery, aged, attempts, policy>>

\* An existing row of the same identifier is returned as it is, even revoked.
SqliteCreate(k, rev) ==
  /\ backend = "sqlite"
  /\ Authorized(k, rev) /\ config[k].state = "absent" /\ HasCapacity(k)
  /\ Insert(k, rev)
  /\ UNCHANGED locks

\* Under the policy fence lock: the task is visible and open, the enrollment
\* is current and the identifier is new.
PgCreateCheck(k, rev) ==
  /\ backend = "postgres" /\ creating = None /\ upgrading = None
  /\ Authorized(k, rev) /\ config[k].state = "absent"
  /\ creating' = [key |-> k, rev |-> rev]
  /\ UNCHANGED <<store, deleting, closing, upgrading>>

\* The counts and the insert follow without looking at the task again.
PgCreateInsert ==
  /\ creating # None
  /\ IF HasCapacity(creating.key) THEN Insert(creating.key, creating.rev)
                                  ELSE UNCHANGED store
  /\ creating' = None
  /\ UNCHANGED <<deleting, closing, upgrading>>

(***************************************************************************)
(* The terminal transition of a task and its callbacks.                    *)
(***************************************************************************)
Enqueued(ks) ==
  [k \in Keys |-> IF k \in ks THEN [NoDelivery EXCEPT !.state = "pending"]
                              ELSE delivery[k]]

Closed(t) ==
  [k \in Keys |-> IF k[1] = t /\ config[k].state = "active"
                  THEN [config[k] EXCEPT !.state = "terminal_closed"] ELSE config[k]]

EventAudit(t, ks) == IF ks = {} THEN {} ELSE {<<"enqueued", t, 0>>}

\* Reaching max_pending fails the whole terminal transaction.
Fits(ks) == ks = {} \/ Cardinality(Retained) + Cardinality(ks) <= MaxPending

ActiveKeys(t) == TaskKeys(t) \cap Configs({"active"})

SqliteEnqueue(t) ==
  /\ backend = "sqlite"
  /\ task[t] = "open" /\ Fits(ActiveKeys(t))
  /\ task' = [task EXCEPT ![t] = "terminal"]
  /\ delivery' = Enqueued(ActiveKeys(t))
  /\ config' = Closed(t)
  /\ audits' = audits \cup EventAudit(t, ActiveKeys(t))
  /\ UNCHANGED <<aged, attempts, policy, locks>>

\* The task row is updated and the deliveries of the active configurations are
\* inserted; nothing is committed yet.
PgEnqueueInsert(t) ==
  /\ backend = "postgres" /\ closing = None
  /\ task[t] = "open" /\ Fits(ActiveKeys(t))
  /\ closing' = [task |-> t, keys |-> ActiveKeys(t)]
  /\ UNCHANGED <<store, creating, deleting, upgrading>>

\* The update of the configurations waits for a delete that holds one of them.
PgEnqueueClose ==
  /\ closing # None
  /\ deleting # None => deleting.key \notin closing.keys
  /\ task' = [task EXCEPT ![closing.task] = "terminal"]
  /\ delivery' = Enqueued(closing.keys)
  /\ config' = IF closing.keys = {} THEN config ELSE Closed(closing.task)
  /\ audits' = audits \cup EventAudit(closing.task, closing.keys)
  /\ closing' = None
  /\ UNCHANGED <<aged, attempts, policy, creating, deleting, upgrading>>

(***************************************************************************)
(* Deletion of a configuration.                                            *)
(***************************************************************************)
Cancelable(k) ==
  delivery[k].state \in {"pending", "retry"} \/ (delivery[k].state = "leased" /\ ~delivery[k].live)

Cancel(ks) == [k \in Keys |-> IF k \in ks THEN [delivery[k] EXCEPT !.state = "canceled"]
                                          ELSE delivery[k]]

\* A configuration with a live lease drains; any other is revoked.
Deleted(k) == [config EXCEPT ![k].state = IF LiveLease(k) THEN "draining" ELSE "revoked"]

DeleteAudit(ks) ==
  {<<"deleted", k, 0>> : k \in ks \cap Configs({"active", "terminal_closed"})}

SqliteDelete(k) ==
  /\ backend = "sqlite"
  /\ config[k].state \notin {"absent", "revoked"}
  /\ delivery' = Cancel({k} \cap {x \in Keys : Cancelable(x)})
  /\ config' = Deleted(k)
  /\ audits' = audits \cup DeleteAudit({k})
  /\ UNCHANGED <<task, aged, attempts, policy, locks>>

\* SELECT ... FOR UPDATE of the configuration, then the cancellation.
PgDeleteCancel(k) ==
  /\ backend = "postgres" /\ deleting = None
  /\ config[k].state \notin {"absent", "revoked"}
  /\ upgrading # None => k \notin upgrading.locked
  /\ deleting' = [key |-> k, cancel |-> Cancelable(k)]
  /\ UNCHANGED <<store, creating, closing, upgrading>>

\* A second read decides between draining and revoked.
PgDeleteCommit ==
  /\ deleting # None
  /\ delivery' = Cancel(IF deleting.cancel THEN {deleting.key} ELSE {})
  /\ config' = Deleted(deleting.key)
  /\ audits' = audits \cup DeleteAudit({deleting.key})
  /\ deleting' = None
  /\ UNCHANGED <<task, aged, attempts, policy, creating, closing, upgrading>>

(***************************************************************************)
(* Installation of the next policy revision at the start of a replica.     *)
(* Every enrollment gets a new generation, so every older configuration is *)
(* one whose enrollment was removed or replaced.                           *)
(***************************************************************************)
Replaced(rev) == {k \in Keys : config[k].state # "absent" /\ config[k].generation # rev}

Revoke(ks) ==
  [k \in Keys |-> IF k \in ks \cap Unrevoked THEN [config[k] EXCEPT !.state = "revoked"]
                                             ELSE config[k]]

SqliteReconcile ==
  /\ backend = "sqlite" /\ policy < MaxRevision
  /\ LET old == Replaced(policy + 1) IN
     /\ \A k \in old : ~LiveLease(k)
     /\ delivery' = Cancel({k \in old : Cancelable(k)})
     /\ config' = Revoke(old)
     /\ audits' = audits \cup DeleteAudit(old)
  /\ policy' = policy + 1
  /\ UNCHANGED <<task, aged, attempts, locks>>

\* A live lease refuses the installation.
PgReconcileCheck ==
  /\ backend = "postgres" /\ policy < MaxRevision
  /\ upgrading = None /\ creating = None
  /\ \A k \in Replaced(policy + 1) : ~LiveLease(k)
  /\ upgrading' = [stage |-> "cancel", locked |-> {}]
  /\ UNCHANGED <<store, creating, deleting, closing>>

PgReconcileCancel ==
  /\ upgrading # None /\ upgrading.stage = "cancel"
  /\ deleting # None => ~deleting.cancel
  /\ upgrading' = [stage |-> "revoke",
                   locked |-> {k \in Replaced(policy + 1) : Cancelable(k)}]
  /\ UNCHANGED <<store, creating, deleting, closing>>

PgReconcileRevoke ==
  /\ upgrading # None /\ upgrading.stage = "revoke"
  /\ deleting = None
  /\ delivery' = Cancel(upgrading.locked)
  /\ config' = Revoke(Replaced(policy + 1))
  /\ audits' = audits \cup DeleteAudit(Replaced(policy + 1))
  /\ policy' = policy + 1
  /\ upgrading' = None
  /\ UNCHANGED <<task, aged, attempts, creating, deleting, closing>>

(***************************************************************************)
(* Claim, renewal and settlement of deliveries.                            *)
(***************************************************************************)
\* Delivery rows locked by a transaction in progress are skipped.
Unlocked(k) ==
  /\ deleting # None => ~(deleting.key = k /\ deleting.cancel)
  /\ upgrading # None => k \notin upgrading.locked

Expired == {k \in Deliveries({"leased"}) : ~delivery[k].live /\ Unlocked(k)}

ReclaimState(k) == IF delivery[k].attempt < MaxAttempts THEN "retry" ELSE "dead"

\* Faulty variant: the join admits only active configurations, so the deliveries
\* of one that its terminal transition closed are never claimed.
ClaimableActive(k) ==
  /\ config[k].state = "active"
  /\ Unlocked(k)
  /\ \/ delivery[k].state \in {"pending", "retry"} /\ delivery[k].due
     \/ k \in Expired /\ ReclaimState(k) = "retry"

Claimable(k) ==
  /\ config[k].state \in {"active", "terminal_closed"}
  /\ Unlocked(k)
  /\ \/ delivery[k].state \in {"pending", "retry"} /\ delivery[k].due
     \/ k \in Expired /\ ReclaimState(k) = "retry"

Leased(d) == [d EXCEPT !.state = "leased", !.attempt = @ + 1, !.live = TRUE]

AfterClaim(ks) ==
  [k \in Keys |->
     IF k \in ks THEN Leased(delivery[k])
     ELSE IF k \in Expired THEN [delivery[k] EXCEPT !.state = ReclaimState(k), !.due = TRUE]
     ELSE delivery[k]]

ClaimAudits(ks) ==
  {<<ReclaimState(k), k, delivery[k].attempt>> : k \in Expired}
    \cup {<<"attempted", k, delivery[k].attempt + 1>> : k \in ks}

ReclaimRows == {<<k, delivery[k].attempt, ReclaimState(k)>> : k \in Expired}

\* SQLite moves expired leases on without a row in callback_attempts.
SqliteClaim(ks) ==
  /\ backend = "sqlite"
  /\ delivery' = AfterClaim(ks)
  /\ audits' = audits \cup ClaimAudits(ks)
  /\ UNCHANGED attempts

PgClaim(ks) ==
  /\ backend = "postgres"
  /\ delivery' = AfterClaim(ks)
  /\ audits' = audits \cup ClaimAudits(ks)
  /\ attempts' = attempts \cup ReclaimRows

claim_callback_deliveries(ks) ==
  /\ ks \subseteq {k \in Keys : Claimable(k)}
  /\ SqliteClaim(ks) \/ PgClaim(ks)
  /\ UNCHANGED <<task, config, aged, policy, locks>>

\* Faulty variant: the epoch is not compared.
FenceHoldsAny(k, epoch) == LiveLease(k)

\* The fence of a lease; a renewal succeeds exactly when it holds.
FenceHolds(k, epoch) == LiveLease(k) /\ delivery[k].attempt = epoch

\* The draining configuration of a finished delivery is revoked.
Drained(k) == IF config[k].state = "draining" THEN [config EXCEPT ![k].state = "revoked"]
                                              ELSE config

OutcomeAudit(k, epoch, next) ==
  IF next = "canceled" THEN {} ELSE {<<next, k, epoch>>}

finish_callback_delivery(k, epoch, next) ==
  /\ FenceHolds(k, epoch)
  /\ deleting # None => ~(deleting.key = k /\ config[k].state = "draining")
  /\ delivery' = [delivery EXCEPT ![k].state = next, ![k].due = next # "retry"]
  /\ attempts' = attempts \cup {<<k, delivery[k].attempt, next>>}
  /\ audits' = audits \cup OutcomeAudit(k, delivery[k].attempt, next)
  /\ config' = Drained(k)
  /\ UNCHANGED <<task, aged, policy, locks>>

(***************************************************************************)
(* Database time.                                                          *)
(***************************************************************************)
LeaseExpires(k) ==
  /\ LiveLease(k)
  /\ delivery' = [delivery EXCEPT ![k].live = FALSE]
  /\ UNCHANGED <<task, config, aged, attempts, audits, policy, locks>>

RetryDue(k) ==
  /\ delivery[k].state = "retry" /\ ~delivery[k].due
  /\ delivery' = [delivery EXCEPT ![k].due = TRUE]
  /\ UNCHANGED <<task, config, aged, attempts, audits, policy, locks>>

EventExpires(t) ==
  /\ task[t] = "terminal" /\ t \notin aged
  /\ aged' = aged \cup {t}
  /\ UNCHANGED <<task, config, delivery, attempts, audits, policy, locks>>

(***************************************************************************)
(* What startup validation expects of the ledger.                          *)
(***************************************************************************)
Outcomes == {"delivered", "retry", "dead"}

ExpectedAudits ==
       {<<"created", k, 0>> : k \in Keys \ Configs({"absent"})}
  \cup {<<"deleted", k, 0>> : k \in Configs({"draining", "revoked"})}
  \cup {<<"enqueued", t, 0>> :
          t \in {u \in Tasks : \E k \in TaskKeys(u) : delivery[k].state # "none"}}
  \cup {<<"attempted", p[1], p[2]>> :
          p \in {q \in Keys \X (1..MaxAttempts) : q[2] <= delivery[q[1]].attempt}}
  \cup {<<a[3], a[1], a[2]>> : a \in {b \in attempts : b[3] \in Outcomes}}
  \cup {<<delivery[k].state, k, delivery[k].attempt>> : k \in Deliveries(Outcomes)}

validate_callback_records ==
  /\ audits = ExpectedAudits
  /\ \A a \in audits : a[1] \in Outcomes => <<a[2], a[3], a[1]>> \in attempts
  /\ Cardinality(Unrevoked) <= MaxPerTenant
  /\ \A t \in Tasks : Cardinality(Unrevoked \cap TaskKeys(t)) <= MaxPerTask
  /\ backend = "sqlite" => Cardinality(Retained) <= MaxPending
=============================================================================
