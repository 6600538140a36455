--------------------------- MODULE AuditProjection ---------------------------
(***************************************************************************)
(* The audit projection: triggers of the durable store put every committed *)
(* audit event in an outbox, projectors lease the rows, offer each to the  *)
(* telemetry queue and settle it, and retention removes what is settled.   *)
(* SQLite has one projector and keeps authorization decisions for ever;    *)
(* PostgreSQL has one per replica, and an operator removes old decisions   *)
(* together with the evidence that they were projected.                    *)
(*                                                                         *)
(* A transaction is one step, except PostgreSQL's claim: its statement     *)
(* reads the due rows and locks them later, and the lock does not look at  *)
(* the state of the row again.  Clocks are abstracted: a lease expires in  *)
(* a step of its own, the delay of a retry ends before the next claim that *)
(* takes the row, and any terminal row may be old enough for retention.    *)
(***************************************************************************)
EXTENDS Naturals, Sequences, FiniteSets, SequencesExt

CONSTANTS Events,        \* audit events, each with one row at most
          Decisions,     \* those that are authorization decisions
          Projectors,
          SqliteOwner,   \* the only projector of a SQLite store
          MaxAttempts,   \* 10 in the code
          BatchSize,
          MaxStops       \* bound on stops and crashes

VARIABLES backend,       \* "sqlite" or "postgres"
          rows,          \* audit_projection_outbox
          decisions,     \* authorization_decisions of PostgreSQL
          projector,     \* the projector loops
          committed,     \* the events committed so far
          accepted,      \* ghost: <<event, epoch>> the telemetry queue took since the row's last claim
          stops

auditVars == <<backend, rows, decisions, projector, committed, accepted, stops>>

(***************************************************************************)
(* The events the triggers of each backend install, as pairs of kind and   *)
(* source, and those audit_projection_operation has an operation for: an   *)
(* event without one could never be projected.                             *)
(***************************************************************************)
CallbackPairs ==
    {<<"callback_policy_reconciled", "callback_policy_snapshots">>, <<"callback_config_created", "callback_configs">>,
     <<"callback_config_deleted", "callback_configs">>, <<"callback_event_enqueued", "callback_events">>}
    \cup {"callback_delivery_attempted", "callback_delivered", "callback_retry_scheduled", "callback_dead"}
         \X {"callback_deliveries"}
TaskPairs ==
    {<<"authorization_decided", "authorization_decisions">>, <<"task_terminal", "task_events">>,
     <<"task_canceled", "task_events">>, <<"task_canceled", "cancellation_intents">>}
Installed ==
    TaskPairs \cup CallbackPairs
    \cup {<<"quota_denied", "quota_denial_audits">>, <<"quota_overridden", "quota_override_audits">>,
          <<"quota_reconciled", "quota_policy_reconciliation_audits">>,
          <<"artifact_corruption_detected", "artifact_corruption_audits">>,
          <<"artifact_key_changed", "artifact_key_audits">>}
    \cup {"artifact_operator_completed"}
         \X {"artifact_migration_plans", "artifact_backup_jobs", "artifact_restore_jobs", "artifact_key_rotation_plans"}

AuditProjectionOperation ==
    [authorization_decided |-> {"authorization_decisions"},
     task_terminal |-> {"task_events"},
     task_canceled |-> {"task_events", "cancellation_intents"},
     quota_denied |-> {"quota_denial_audits"},
     quota_overridden |-> {"quota_override_audits"},
     quota_reconciled |-> {"quota_policy_reconciliation_audits"},
     artifact_corruption_detected |-> {"artifact_corruption_audits"},
     artifact_key_changed |-> {"artifact_key_audits"},
     artifact_operator_completed |-> {"artifact_migration_plans", "artifact_backup_jobs",
                                      "artifact_restore_jobs", "artifact_key_rotation_plans"},
     callback_policy_reconciled |-> {"callback_policy_snapshots"},
     callback_config_created |-> {"callback_configs"},
     callback_config_deleted |-> {"callback_configs"},
     callback_event_enqueued |-> {"callback_events"},
     callback_delivery_attempted |-> {"callback_deliveries", "callback_attempts"},
     callback_delivered |-> {"callback_deliveries", "callback_attempts"},
     callback_retry_scheduled |-> {"callback_deliveries", "callback_attempts"},
     callback_dead |-> {"callback_deliveries", "callback_attempts"}]

ASSUME ProjectionAssumption ==
    /\ Decisions \subseteq Events /\ SqliteOwner \in Projectors
    /\ MaxAttempts \in Nat \ {0} /\ BatchSize \in Nat \ {0}
    /\ \A pair \in Installed : pair[2] \in AuditProjectionOperation[pair[1]]

-----------------------------------------------------------------------------
NoRow == [state |-> "absent", attempts |-> 0, epoch |-> 0, live |-> FALSE]
NoDecision == [stored |-> FALSE, required |-> FALSE, terminal |-> FALSE, working |-> FALSE]
Idle == [at |-> "idle", batch |-> <<>>, reclaimed |-> {}, due |-> {}, took |-> FALSE, stopping |-> FALSE]

AuditInit == /\ backend \in {"sqlite", "postgres"}
        /\ rows = [e \in Events |-> NoRow]
        /\ decisions = [e \in Events |-> NoDecision]
        /\ projector = [p \in Projectors |-> Idle]
        /\ committed = {} /\ accepted = {}
        /\ stops = 0

Workers == IF backend = "sqlite" THEN {SqliteOwner} ELSE Projectors
Terminal == {"delivered", "dead"}

(* PostgreSQL: a row that becomes terminal marks its decision in the same  *)
(* transaction (mark_authorization_projection_terminal).                   *)
MarkTerminal(table) ==
    decisions' = [e \in Events |-> [decisions[e] EXCEPT !.terminal = @ \/ (decisions[e].stored /\ table[e].state \in Terminal)]]

(* A transaction that commits an audit event.  The trigger adds the row    *)
(* unless this store was opened with projection off, which matters only to *)
(* decisions.  A decision may admit work that authenticates through it.    *)
CommitEvent(e, enabled, working) ==
    /\ e \notin committed
    /\ committed' = committed \cup {e}
    /\ ~enabled \/ working => e \in Decisions
    /\ rows' = IF enabled THEN [rows EXCEPT ![e].state = "pending"] ELSE rows
    /\ decisions' = IF e \in Decisions /\ backend = "postgres"
                    THEN [decisions EXCEPT ![e] = [stored |-> TRUE, required |-> enabled, terminal |-> FALSE, working |-> working]]
                    ELSE decisions
    /\ UNCHANGED <<backend, projector, accepted, stops>>

-----------------------------------------------------------------------------
(* The claim: expired leases go back or die at their last attempt, and the *)
(* due rows with the fewest attempts are leased.                           *)
ExpiredRows(busy) == {e \in Events : rows[e].state = "leased" /\ ~rows[e].live /\ e \notin busy}
ReclaimPending(row) == IF row.attempts < MaxAttempts THEN [row EXCEPT !.state = "pending"] ELSE row
Reclaim(row) == [row EXCEPT !.state = IF row.attempts >= MaxAttempts THEN "dead" ELSE "pending"]
Reclaimed(expired) == [e \in Events |-> IF e \in expired THEN Reclaim(rows[e]) ELSE rows[e]]
DueRows(table, busy) ==
    {e \in Events : table[e].state = "pending" /\ table[e].attempts < MaxAttempts /\ e \notin busy}
Selections(table, due) ==
    {s \in SUBSET due : /\ Cardinality(s) = IF Cardinality(due) < BatchSize THEN Cardinality(due) ELSE BatchSize
                        /\ \A e \in s, f \in due \ s : table[e].attempts <= table[f].attempts}
Lease(row) == [row EXCEPT !.state = "leased", !.attempts = @ + 1, !.epoch = @ + 1, !.live = TRUE]

(* The order within a batch is that of the rows' times.                    *)
Start(p, table, chosen) ==
    LET order == SetToSeq(chosen)
    IN  /\ projector' = [projector EXCEPT ![p].at = "batch", ![p].reclaimed = {}, ![p].due = {},
                                          ![p].batch = [i \in DOMAIN order |-> [event |-> order[i], epoch |-> table[order[i]].epoch]]]
        /\ accepted' = {a \in accepted : a[1] \notin chosen}

SqliteClaim(p) ==
    /\ backend = "sqlite" /\ p = SqliteOwner /\ projector[p].at = "idle" /\ ~projector[p].stopping
    /\ LET table == Reclaimed(ExpiredRows({}))
       IN  \E chosen \in Selections(table, DueRows(table, {})) :
            /\ rows' = [e \in Events |-> IF e \in chosen THEN Lease(table[e]) ELSE table[e]]
            /\ Start(p, rows', chosen)
    /\ UNCHANGED <<backend, committed, decisions, stops>>

(* The rows another claim has reclaimed are locked until it commits.       *)
Locked(p) == UNION {projector[q].reclaimed : q \in Projectors \ {p}}

PostgresRead(p) ==
    /\ backend = "postgres" /\ projector[p].at = "idle" /\ ~projector[p].stopping
    /\ LET expired == ExpiredRows(Locked(p))
       IN  projector' = [projector EXCEPT ![p].at = "claiming", ![p].reclaimed = expired,
                                          ![p].due = DueRows(Reclaimed(expired), Locked(p))]
    /\ UNCHANGED <<backend, committed, rows, decisions, accepted, stops>>

(* Rows that were due when read are locked and leased as they are now.  A  *)
(* row that meanwhile reached its last attempt or became terminal breaks a *)
(* constraint of the table, and the whole claim is rolled back; one that   *)
(* was removed is passed over.                                             *)
PostgresLease(p) ==
    LET table == Reclaimed(projector[p].reclaimed)
        found == {e \in projector[p].due \ Locked(p) : table[e].state # "absent"}
    IN  /\ projector[p].at = "claiming"
        /\ \E chosen \in Selections(table, found) :
            IF \E e \in chosen : table[e].state \in Terminal \/ table[e].attempts >= MaxAttempts
            THEN /\ projector' = [projector EXCEPT ![p] = [Idle EXCEPT !.stopping = projector[p].stopping]]
                 /\ UNCHANGED <<rows, decisions, accepted>>
            ELSE /\ rows' = [e \in Events |-> IF e \in chosen THEN Lease(table[e]) ELSE table[e]]
                 /\ Start(p, rows', chosen)
                 /\ MarkTerminal(rows')
        /\ UNCHANGED <<backend, committed, stops>>

-----------------------------------------------------------------------------
(* The batch: each row is offered to the telemetry queue, which takes it   *)
(* or is full or closed, and then settled under the fence of its lease.    *)
Current(p) == Head(projector[p].batch)
HoldsState(lease) == rows[lease.event].state = "leased" /\ rows[lease.event].live
Holds(lease) ==
    /\ rows[lease.event].state = "leased" /\ rows[lease.event].live
    /\ rows[lease.event].epoch = lease.epoch

Offer(p, took) ==
    /\ projector[p].at = "batch" /\ projector[p].batch # <<>> /\ ~projector[p].stopping
    /\ accepted' = IF took THEN accepted \cup {<<Current(p).event, Current(p).epoch>>} ELSE accepted
    /\ projector' = [projector EXCEPT ![p].at = "offered", ![p].took = took]
    /\ UNCHANGED <<backend, committed, rows, decisions, stops>>

Settled(row, took) ==
    IF took THEN [row EXCEPT !.state = "delivered", !.live = FALSE]
    ELSE [row EXCEPT !.state = IF row.attempts >= MaxAttempts THEN "dead" ELSE "pending", !.live = FALSE]

(* commit_audit_projection or fail_audit_projection.  The answer, and an   *)
(* error of the statement, are ignored.                                    *)
Settle(p, answered) ==
    /\ projector[p].at = "offered"
    /\ rows' = IF answered /\ Holds(Current(p))
               THEN [rows EXCEPT ![Current(p).event] = Settled(@, projector[p].took)]
               ELSE rows
    /\ IF backend = "postgres" THEN MarkTerminal(rows') ELSE UNCHANGED decisions
    /\ projector' = [projector EXCEPT ![p].at = "batch", ![p].batch = Tail(@), ![p].took = FALSE]
    /\ UNCHANGED <<backend, committed, accepted, stops>>

(* Retention of the outbox closes the cycle, also that of a projector that *)
(* was told to stop.  PostgreSQL keeps the evidence of decisions.          *)
Cleanable(e) ==
    /\ rows[e].state \in Terminal
    /\ backend = "postgres" => e \notin Decisions

Cleanup(p, old) ==
    /\ projector[p].at = "batch" /\ (projector[p].batch = <<>> \/ projector[p].stopping)
    /\ \A e \in old : Cleanable(e)
    /\ rows' = [e \in Events |-> IF e \in old THEN NoRow ELSE rows[e]]
    /\ projector' = [projector EXCEPT ![p] = IF @.stopping THEN [Idle EXCEPT !.at = "down"] ELSE Idle]
    /\ UNCHANGED <<backend, committed, decisions, accepted, stops>>

-----------------------------------------------------------------------------
(* Shutdown: the token stops the loop before its next claim or row; when   *)
(* it does not stop in time, or the process dies, the task ends anywhere.  *)
Stop(p) ==
    /\ stops < MaxStops /\ p \in Workers /\ projector[p].at # "down" /\ ~projector[p].stopping
    /\ projector' = [projector EXCEPT ![p] = IF @.at = "idle" THEN [Idle EXCEPT !.at = "down"] ELSE [@ EXCEPT !.stopping = TRUE]]
    /\ stops' = stops + 1
    /\ UNCHANGED <<backend, committed, rows, decisions, accepted>>

StopIdle(p) ==
    /\ projector[p].at = "idle" /\ projector[p].stopping
    /\ projector' = [projector EXCEPT ![p] = [Idle EXCEPT !.at = "down"]]
    /\ UNCHANGED <<backend, committed, rows, decisions, accepted, stops>>

Abort(p) ==
    /\ stops < MaxStops /\ p \in Workers /\ projector[p].at \in {"claiming", "batch", "offered"}
    /\ projector' = [projector EXCEPT ![p] = [Idle EXCEPT !.at = "down"]]
    /\ stops' = stops + 1
    /\ UNCHANGED <<backend, committed, rows, decisions, accepted>>

Restart(p) ==
    /\ projector[p].at = "down"
    /\ projector' = [projector EXCEPT ![p] = Idle]
    /\ UNCHANGED <<backend, committed, rows, decisions, accepted, stops>>

(* Time.                                                                   *)
LeaseExpires(e) ==
    /\ rows[e].state = "leased" /\ rows[e].live
    /\ rows' = [rows EXCEPT ![e].live = FALSE]
    /\ UNCHANGED <<backend, committed, decisions, projector, accepted, stops>>

(* The dispatch the decision admitted is delivered or dead.                *)
WorkEnds(e) ==
    /\ decisions[e].working
    /\ decisions' = [decisions EXCEPT ![e].working = FALSE]
    /\ UNCHANGED <<backend, committed, rows, projector, accepted, stops>>

(* The operator's retention: a decision that had to be projected goes only *)
(* together with its terminal row, and none goes while unfinished work     *)
(* authenticates through it.                                               *)
Removable(e) ==
    /\ decisions[e].stored /\ ~decisions[e].working
    /\ decisions[e].required => decisions[e].terminal /\ rows[e].state \in Terminal
CleanupAuthorizationDecisions(old) ==
    /\ backend = "postgres" /\ old # {}
    /\ \A e \in old : Removable(e)
    /\ decisions' = [e \in Events |-> IF e \in old THEN NoDecision ELSE decisions[e]]
    /\ rows' = [e \in Events |-> IF e \in old /\ decisions[e].required THEN NoRow ELSE rows[e]]
    /\ UNCHANGED <<backend, committed, projector, accepted, stops>>

AuditNext == \/ \E e \in Events, enabled, working \in BOOLEAN : CommitEvent(e, enabled, working)
        \/ \E p \in Projectors : \/ SqliteClaim(p) \/ PostgresRead(p) \/ PostgresLease(p)
                                 \/ \E took \in BOOLEAN : Offer(p, took)
                                 \/ \E answered \in BOOLEAN : Settle(p, answered)
                                 \/ \E old \in SUBSET Events : Cleanup(p, old)
                                 \/ Stop(p) \/ StopIdle(p) \/ Abort(p) \/ Restart(p)
        \/ \E e \in Events : LeaseExpires(e) \/ WorkEnds(e)
        \/ \E old \in SUBSET Decisions : CleanupAuthorizationDecisions(old)

(* What the loop of a projector does whenever it can.                      *)
Works(p) == \/ SqliteClaim(p) \/ PostgresRead(p) \/ PostgresLease(p)
            \/ \E took \in BOOLEAN : Offer(p, took)
            \/ \E answered \in BOOLEAN : Settle(p, answered)
            \/ \E old \in SUBSET Events : Cleanup(p, old)
            \/ StopIdle(p) \/ Restart(p)

-----------------------------------------------------------------------------
(* A delivered row was taken by the telemetry queue under the very lease   *)
(* that settled it: a projector whose lease was lost, to expiry or to a    *)
(* replica that leased the row it had read, settles nothing                *)
(* (commit_audit_projection, fail_audit_projection).                       *)
DeliveredWasAccepted ==
    \A e \in Events : rows[e].state = "delivered" => <<e, rows[e].epoch>> \in accepted

(* While a decision that must be projected is stored, its outbox row is    *)
(* there and tells as much as the decision's own mark: no cleanup takes    *)
(* the evidence away first (cleanup_audit_projection,                      *)
(* cleanup_authorization_decisions).                                       *)
EvidenceMatches ==
    \A e \in Decisions : decisions[e].stored /\ decisions[e].required =>
        /\ rows[e].state # "absent"
        /\ decisions[e].terminal <=> rows[e].state \in Terminal

(* The outbox tells the truth of deliveries and of decisions.              *)
ProjectionSound == DeliveredWasAccepted /\ EvidenceMatches

(* Every event in the outbox is in the end delivered or dead, and every    *)
(* decision of PostgreSQL can be removed, whatever projectors crash, lose  *)
(* their leases or are refused by the queue.                               *)
AuditSettles ==
    []<>(\A e \in Events : rows[e].state \notin {"pending", "leased"} /\ ~decisions[e].stored)
=============================================================================
