-------------------------- MODULE DurableAuthority --------------------------
(***************************************************************************)
(* The durable authority: the transactions that SQLite (sqlite_store.rs)   *)
(* and PostgreSQL (postgres_store.rs) offer to the gateway and to the      *)
(* outbox driver.  Every operator below is one transaction, so it is       *)
(* atomic: SQLite runs it in an IMMEDIATE transaction under the store's    *)
(* mutex, PostgreSQL under the row locks it takes before it decides.       *)
(*                                                                         *)
(* A dispatch is one message of one task: the outbox row, the receiver     *)
(* row, the idempotency record and the stream transcript that share its    *)
(* dispatch_id.  Payloads, digests, audit rows, quotas, ratification       *)
(* packets and callbacks are left out; so is the wall clock: a lease is    *)
(* either live or expired.                                                 *)
(***************************************************************************)
EXTENDS Naturals, Sequences, FiniteSets, TaskState

CONSTANTS
    Tasks,        \* task identifiers
    MaxTurns,     \* messages per task that the model admits (a bound)
    MaxAttempts,  \* outbox.max_attempts
    Deployments   \* how the gateway may be deployed, and under which load

ASSUME AuthorityAssumption ==
    /\ MaxTurns \in Nat \ {0}
    /\ MaxAttempts \in Nat \ {0}
    /\ Deployments \subseteq
         [backend : {"sqlite", "postgres"},
          mode : {"loopback", "strict",  \* Loopback; with require_authority_context
                  "runtime", "concordance"},  \* Runtime, TextConcordance
          tasks : SUBSET Tasks,      \* the tasks that clients create (a bound)
          turns : 1 .. MaxTurns,     \* messages of each (a bound)
          faults : Nat]              \* how often something goes wrong (a bound)

Dispatches == Tasks \X (1 .. MaxTurns)

(* What the receiver seals, and the task state the sender commits for it   *)
(* (apply_terminal_events of outbox_driver.rs).                            *)
Results == {"success", "canceled", "input_required", "auth_required"}
StateOf(v) ==
    CASE v = "success" -> "Completed"
      [] v = "canceled" -> "Canceled"
      [] v = "input_required" -> "InputRequired"
      [] v = "auth_required" -> "AuthRequired"

VARIABLES
    deployment,  \* chosen once
    turn,        \* number of messages admitted for a task; 0: no such task
    taskState,   \* tasks.state
    revision,    \* tasks.revision
    outbox,      \* outbox.state
    attempts,    \* outbox.attempt_count
    cause,       \* outbox.causative_revision
    log,         \* outbox_attempts: the token of each row, and the open rows
    senderGen,   \* identifies outbox.lease_token: one number per token minted
    senderLive,  \* the dispatches with outbox.lease_until > now
    recv,        \* receiver_inbox.state
    epoch,       \* receiver_inbox.lease_epoch
    recvSender,  \* receiver_inbox.sender_lease_token
    recvAttempt, \* receiver_inbox.sender_attempt_no
    recvLive,    \* the dispatches with receiver_inbox.lease_until > now
    result,      \* what the sealed receiver transcript says
    intent,      \* cancellation_intents.state
    idem,        \* idempotency_records: in_progress, or the final task state
    stream       \* stream_transcripts.state; "progress": open, Working framed

taskVars == <<turn, taskState, revision>>
outboxVars == <<outbox, attempts, log, cause, senderGen, senderLive>>
recvVars == <<recv, epoch, recvSender, recvAttempt, recvLive, result, intent>>
replyVars == <<idem, stream>>
storeVars == <<taskVars, outboxVars, recvVars, replyVars>>

Sqlite == deployment.backend = "sqlite"
Postgres == deployment.backend = "postgres"

OpenOutbox == {"pending", "leased", "delivered"}
OutboxStates == OpenOutbox \cup {"absent", "dead", "superseded"}
OpenStream == {"open", "progress"}
StreamStates == OpenStream \cup {"none", "terminal", "interrupted"}

StoreTypeOK ==
    /\ deployment \in Deployments
    /\ turn \in [Tasks -> 0 .. MaxTurns]
    /\ taskState \in [Tasks -> TaskStates]
    /\ revision \in [Tasks -> Nat]
    /\ outbox \in [Dispatches -> OutboxStates]
    /\ attempts \in [Dispatches -> 0 .. MaxAttempts]
    /\ log \in [Dispatches -> [tokens : Seq(Nat), open : SUBSET (1 .. MaxAttempts)]]
    /\ cause \in [Dispatches -> Nat]
    /\ senderGen \in [Dispatches -> Nat]
    /\ senderLive \subseteq Dispatches
    /\ recv \in [Dispatches -> {"absent", "processing", "completed"}]
    /\ epoch \in [Dispatches -> Nat]
    /\ recvSender \in [Dispatches -> Nat]
    /\ recvAttempt \in [Dispatches -> 0 .. MaxAttempts]
    /\ recvLive \subseteq Dispatches
    /\ result \in [Dispatches -> Results \cup {"none"}]
    /\ intent \in [Dispatches -> {"none", "requested", "receiver_canceled"}]
    /\ idem \in [Dispatches -> TaskStates \cup {"none", "in_progress"}]
    /\ stream \in [Dispatches -> StreamStates]

StoreInit ==
    /\ deployment \in Deployments
    /\ turn = [t \in Tasks |-> 0]
    /\ taskState = [t \in Tasks |-> "Unspecified"]
    /\ revision = [t \in Tasks |-> 0]
    /\ outbox = [d \in Dispatches |-> "absent"]
    /\ attempts = [d \in Dispatches |-> 0]
    /\ log = [d \in Dispatches |-> [tokens |-> <<>>, open |-> {}]]
    /\ cause = [d \in Dispatches |-> 0]
    /\ senderGen = [d \in Dispatches |-> 0]
    /\ senderLive = {}
    /\ recv = [d \in Dispatches |-> "absent"]
    /\ epoch = [d \in Dispatches |-> 0]
    /\ recvSender = [d \in Dispatches |-> 0]
    /\ recvAttempt = [d \in Dispatches |-> 0]
    /\ recvLive = {}
    /\ result = [d \in Dispatches |-> "none"]
    /\ intent = [d \in Dispatches |-> "none"]
    /\ idem = [d \in Dispatches |-> "none"]
    /\ stream = [d \in Dispatches |-> "none"]

-----------------------------------------------------------------------------
(* Pieces shared by several transactions.                                  *)

(* The task moves to state s under the next revision.                      *)
SetTask(t, s) ==
    /\ taskState' = [taskState EXCEPT ![t] = s]
    /\ revision' = [revision EXCEPT ![t] = @ + 1]
    /\ UNCHANGED turn

(* Faulty variant: a closed record is answered again.                      *)
CloseReplyAgain(d, s, end) ==
    /\ idem' = [idem EXCEPT ![d] = s]
    /\ stream' = [stream EXCEPT ![d] = IF @ \in OpenStream THEN end ELSE @]

(* The idempotency record and the transcript of d close, if still open.    *)
CloseReply(d, s, end) ==
    /\ idem' = [idem EXCEPT ![d] = IF @ = "in_progress" THEN s ELSE @]
    /\ stream' = [stream EXCEPT ![d] = IF @ \in OpenStream THEN end ELSE @]

(* dead_letter_task: a terminal task is left alone.                        *)
DeadLetterTask(d) ==
    IF IsTerminal(taskState[d[1]])
    THEN UNCHANGED <<taskVars, replyVars>>
    ELSE /\ SetTask(d[1], "Failed")
         /\ CloseReply(d, "Failed", "interrupted")

DeadOutboxState(d) ==
    IF IsTerminal(taskState[d[1]]) THEN "superseded" ELSE "dead"

(* A new sender lease on d: a fresh token, live.                           *)
MintSender(d) ==
    /\ senderGen' = [senderGen EXCEPT ![d] = @ + 1]
    /\ senderLive' = senderLive \cup {d}

(* The attempt log.  SQLite closes the row of a lease that ran out when    *)
(* the next attempt begins; a lease that is taken over without counting    *)
(* gives the open row its new token.                                       *)
AddAttempt(d) ==
    /\ attempts' = [attempts EXCEPT ![d] = @ + 1]
    /\ log' = [log EXCEPT ![d] =
                 [tokens |-> Append(@.tokens, senderGen[d] + 1),
                  open |-> (IF Sqlite THEN {} ELSE @.open) \cup {attempts[d] + 1}]]
(* Faulty variant: the log keeps the token of the lost lease.              *)
KeepAttemptToken(d) == UNCHANGED <<attempts, log>>
KeepAttempt(d) ==
    /\ UNCHANGED attempts
    /\ log' = [log EXCEPT ![d].tokens[attempts[d]] =
                 IF attempts[d] \in log[d].open THEN senderGen[d] + 1 ELSE @]
CloseAttempt(d) == log' = [log EXCEPT ![d].open = @ \ {attempts[d]}]

NewDispatch(d, rev) ==
    /\ outbox' = [outbox EXCEPT ![d] = "pending"]
    /\ cause' = [cause EXCEPT ![d] = rev]
    /\ idem' = [idem EXCEPT ![d] = "in_progress"]
    /\ \E s \in {"none", "open"} : stream' = [stream EXCEPT ![d] = s]
    /\ UNCHANGED <<attempts, log, senderGen, senderLive, recvVars>>

-----------------------------------------------------------------------------
(* Admission and cancellation, called from the request handlers.           *)

AdmitMessage(t) ==
    /\ turn[t] = 0 /\ t \in deployment.tasks
    /\ turn' = [turn EXCEPT ![t] = 1]
    /\ taskState' = [taskState EXCEPT ![t] = "Submitted"]
    /\ revision' = [revision EXCEPT ![t] = 1]
    /\ NewDispatch(<<t, 1>>, 1)

AdmitContinuation(t) ==
    /\ taskState[t] \in PausedStates
    /\ turn[t] < deployment.turns
    /\ turn' = [turn EXCEPT ![t] = @ + 1]
    /\ taskState' = [taskState EXCEPT ![t] = "Working"]
    /\ revision' = [revision EXCEPT ![t] = @ + 1]
    /\ NewDispatch(<<t, turn[t] + 1>>, revision[t] + 1)

(* The dispatch a cancellation is about: an open one before a closed one,  *)
(* then the newest (ORDER BY open DESC, outbox_id DESC).                   *)
CancelTarget(t) ==
    LET rows == {d \in Dispatches : d[1] = t /\ outbox[d] # "absent"}
        open == {d \in rows : outbox[d] \in OpenOutbox}
        best == IF open = {} THEN rows ELSE open
    IN CHOOSE d \in best : \A x \in best : x[2] <= d[2]

(* A cancellation has no fence of its own: its clock may have been read    *)
(* before the receiver lease ran out, so an expired lease may look live.   *)
(* A running receiver is asked to stop (CancelRunning; asking again only   *)
(* repeats the signal, and is left out); otherwise the task is canceled on *)
(* the spot (CancelNow).  A sealed outcome is awaited: nothing changes.    *)
Cancelable(t) == turn[t] > 0 /\ ~ IsTerminal(taskState[t])
Active(t) == taskState[t] \in {"Submitted", "Working"}

CancelRunning(t) ==
    LET d == CancelTarget(t)
    IN /\ Cancelable(t) /\ Active(t)
       /\ recv[d] = "processing" /\ intent[d] = "none"
       /\ intent' = [intent EXCEPT ![d] = "requested"]
       /\ UNCHANGED <<taskVars, outboxVars, replyVars, recv, epoch, recvSender,
                      recvAttempt, recvLive, result>>

CancelNow(t) ==
    LET d == CancelTarget(t)
    IN /\ Cancelable(t)
       /\ \/ ~ Active(t)
          \/ recv[d] = "absent"
          \/ recv[d] = "processing" /\ d \notin recvLive
       /\ SetTask(t, "Canceled")
       /\ CloseReply(d, "Canceled", "terminal")
       /\ outbox' = [outbox EXCEPT ![d] = IF @ = "dead" THEN @ ELSE "superseded"]
       /\ log' = [log EXCEPT ![d].open = {}]
       /\ senderLive' = senderLive \ {d}
       /\ UNCHANGED <<attempts, cause, senderGen, recvVars>>

-----------------------------------------------------------------------------
(* claim_outbox.  A claim that mints a lease is ClaimLease; one that finds *)
(* an exhausted dispatch nobody received closes it (ClaimDead) and returns *)
(* no lease.  Which eligible row is picked (due time, tenant fairness) is  *)
(* left open.                                                              *)

Expired(d) == outbox[d] = "leased" /\ d \notin senderLive
Fresh(d) == (outbox[d] = "pending" \/ Expired(d)) /\ attempts[d] < MaxAttempts

(* SQLite looks for expired rows that are exhausted or already received    *)
(* first, and leaves every other row alone while it finds one.             *)
SqliteFinal(d) == Expired(d) /\ (attempts[d] >= MaxAttempts \/ recv[d] # "absent")
(* Faulty variant: a sealed dispatch is not claimed again.                 *)
SqliteReclaimRunning(d) ==
    SqliteFinal(d) /\ recv[d] = "processing" /\ d \notin recvLive
SqliteReclaim(d) ==
    /\ SqliteFinal(d)
    /\ recv[d] = "completed" \/ (recv[d] = "processing" /\ d \notin recvLive)
SqliteClaim(d) ==
    \/ /\ SqliteReclaim(d)
       /\ KeepAttempt(d)
    \/ /\ \A x \in Dispatches : ~ SqliteFinal(x)
       /\ Fresh(d)
       /\ AddAttempt(d)

(* PostgreSQL counts an attempt while any is left, even when a receiver    *)
(* holds the dispatch; the last attempt is re-leased without counting,     *)
(* unless a live receiver holds it.  A receiver row that is processing     *)
(* then follows the new sender; a completed one only if this same attempt  *)
(* had delivered to it.                                                    *)
PostgresFinal(d) == Expired(d) /\ attempts[d] >= MaxAttempts
PostgresReclaim(d) ==
    /\ PostgresFinal(d)
    /\ recv[d] = "completed" \/ (recv[d] = "processing" /\ d \notin recvLive)

FollowSender(d) ==
    IF recv[d] = "processing" \/ recvAttempt[d] = attempts[d]
    THEN /\ recvSender' = [recvSender EXCEPT ![d] = senderGen[d] + 1]
         /\ recvAttempt' = [recvAttempt EXCEPT ![d] = attempts[d]]
    ELSE UNCHANGED <<recvSender, recvAttempt>>

ClaimLease(d) ==
    /\ outbox' = [outbox EXCEPT ![d] = "leased"]
    /\ MintSender(d)
    /\ \/ /\ Sqlite
          /\ SqliteClaim(d)
          /\ UNCHANGED recvVars
       \/ /\ Postgres
          /\ Fresh(d)
          /\ AddAttempt(d)
          /\ UNCHANGED recvVars
       \/ /\ Postgres
          /\ PostgresReclaim(d)
          /\ KeepAttempt(d)
          /\ FollowSender(d)
          /\ UNCHANGED <<recv, epoch, recvLive, result, intent>>
    /\ UNCHANGED <<cause, taskVars, replyVars>>

ClaimDead(d) ==
    /\ Expired(d) /\ attempts[d] >= MaxAttempts /\ recv[d] = "absent"
    /\ DeadLetterTask(d)
    /\ outbox' = [outbox EXCEPT ![d] = DeadOutboxState(d)]
    /\ CloseAttempt(d)
    /\ UNCHANGED <<attempts, cause, senderGen, senderLive, recvVars>>

-----------------------------------------------------------------------------
(* The sender's fenced transactions.  gen is the token the caller holds;   *)
(* live says whether the lease had expired on the clock the caller read.   *)

SenderFence(d, gen, live) == outbox[d] = "leased" /\ senderGen[d] = gen /\ live

AppendStreamProgress(d) ==
    /\ stream' = [stream EXCEPT ![d] = IF @ = "open" THEN "progress" ELSE @]
    /\ UNCHANGED <<taskVars, outboxVars, recvVars, idem>>

(* finish_outbox_attempt: how an attempt that delivered nothing ends.      *)
Exhausted(d, verdict) == verdict = "permanent" \/ attempts[d] >= MaxAttempts
FinishFence(d, gen, live) == SenderFence(d, gen, live) /\ intent[d] # "requested"

(* The receiver has accepted the dispatch: hand it to reconciliation, by   *)
(* an expired lease that the next claim takes over.  PostgreSQL moves the  *)
(* receiver row to the new token and fails if it names another sender.     *)
ReconcileRefused(d, gen) == Postgres /\ recvSender[d] # gen
Reconcile(d) ==
    /\ senderGen' = [senderGen EXCEPT ![d] = @ + 1]
    /\ senderLive' = senderLive \ {d}
    /\ recvSender' = IF Postgres
                     THEN [recvSender EXCEPT ![d] = senderGen[d] + 1]
                     ELSE recvSender
    /\ KeepAttempt(d)
    /\ UNCHANGED <<taskVars, replyVars, outbox, cause, recv, epoch,
                   recvAttempt, recvLive, result, intent>>
RetryLater(d) ==
    /\ outbox' = [outbox EXCEPT ![d] = "pending"]
    /\ CloseAttempt(d)
    /\ senderLive' = senderLive \ {d}
    /\ UNCHANGED <<taskVars, replyVars, attempts, cause, senderGen, recvVars>>
Bury(d) ==
    /\ DeadLetterTask(d)
    /\ outbox' = [outbox EXCEPT ![d] =
                    IF Postgres THEN DeadOutboxState(d) ELSE "dead"]
    /\ CloseAttempt(d)
    /\ senderLive' = senderLive \ {d}
    /\ UNCHANGED <<attempts, cause, senderGen, recvVars>>
FinishOutboxAttempt(d, verdict) ==
    IF Exhausted(d, verdict)
    THEN IF recv[d] # "absent" THEN Reconcile(d) ELSE Bury(d)
    ELSE RetryLater(d)

(* commit_delivery: the task, its replay record and its transcript take    *)
(* the receiver's outcome v.                                               *)
CommitFence(d, gen, live) == SenderFence(d, gen, live) /\ revision[d[1]] = cause[d]
CommitDelivery(d, v) ==
    /\ SetTask(d[1], StateOf(v))
    /\ CloseReply(d, StateOf(v), "terminal")
    /\ outbox' = [outbox EXCEPT ![d] = "delivered"]
    /\ CloseAttempt(d)
    /\ senderLive' = senderLive \ {d}
    /\ UNCHANGED <<attempts, cause, senderGen, recvVars>>

-----------------------------------------------------------------------------
(* The receiver's transactions.                                            *)

(* begin_receive looks at the outbox row, not at the caller's token.       *)
BeginExecute(d) ==
    /\ recv[d] # "completed"
    /\ recv' = [recv EXCEPT ![d] = "processing"]
    /\ epoch' = [epoch EXCEPT ![d] = @ + 1]
    /\ recvSender' = [recvSender EXCEPT ![d] = senderGen[d]]
    /\ recvAttempt' = [recvAttempt EXCEPT ![d] = attempts[d]]
    /\ recvLive' = recvLive \cup {d}
    /\ UNCHANGED <<taskVars, outboxVars, replyVars, result, intent>>

(* Faulty variant: any processing row will do.                             *)
ReceiverFenceByState(d, ep, sender, live) == recv[d] = "processing" /\ live
ReceiverFence(d, ep, sender, live) ==
    /\ recv[d] = "processing" /\ epoch[d] = ep /\ live
    /\ Postgres => recvSender[d] = sender

(* load_runtime_authority_context: both leases are current.                *)
ContextAvailable(d, gen, ep, sender) ==
    /\ SenderFence(d, gen, d \in senderLive)
    /\ ReceiverFence(d, ep, sender, d \in recvLive)

(* complete_receive: a completion must agree with the cancellation intent. *)
(* Faulty variant: an intent recorded meanwhile is overlooked.             *)
CompletionUnchecked(d, v) == v = "canceled" => intent[d] = "requested"
CompletionAgrees(d, v) == (intent[d] = "requested") <=> (v = "canceled")
CompleteReceive(d, v) ==
    /\ recv' = [recv EXCEPT ![d] = "completed"]
    /\ result' = [result EXCEPT ![d] = v]
    /\ recvLive' = recvLive \ {d}
    /\ intent' = [intent EXCEPT ![d] = IF v = "canceled" THEN "receiver_canceled" ELSE @]
    /\ UNCHANGED <<taskVars, outboxVars, replyVars, epoch, recvSender, recvAttempt>>

-----------------------------------------------------------------------------
(* recover_orphaned_tasks: what SQLite does in one transaction when the    *)
(* process opens the database again.                                       *)

Abandoned == {d \in Dispatches : outbox[d] = "leased" /\ recv[d] = "absent"}
Spent == {d \in Abandoned : attempts[d] >= MaxAttempts}
Unresolved ==
    {d \in Dispatches : /\ outbox[d] = "delivered" /\ cause[d] = revision[d[1]]
                        /\ ~ IsTerminal(taskState[d[1]])}
Orphans ==
    {t \in Tasks : /\ turn[t] > 0 /\ ~ IsTerminal(taskState[t])
                   /\ \A d \in Dispatches : d[1] = t => outbox[d] \notin OpenOutbox}
RecoverOrphanedTasks ==
    LET lost == {d \in Spent : ~ IsTerminal(taskState[d[1]])} \cup Unresolved
        failed == {d[1] : d \in lost} \cup Orphans
    IN /\ recvLive' = {d \in recvLive : recv[d] # "processing"}
       /\ senderLive' = {d \in senderLive : outbox[d] # "leased"}
       /\ outbox' = [d \in Dispatches |->
                       CASE d \in Spent -> DeadOutboxState(d)
                         [] outbox[d] = "delivered" /\ \E u \in Unresolved : u[1] = d[1] -> "superseded"
                         [] d \in Abandoned \ Spent -> "pending"
                         [] OTHER -> outbox[d]]
       /\ log' = [d \in Dispatches |->
                    IF d \in Abandoned THEN [log[d] EXCEPT !.open = {}] ELSE log[d]]
       /\ taskState' = [t \in Tasks |-> IF t \in failed THEN "Failed" ELSE taskState[t]]
       /\ revision' = [t \in Tasks |-> IF t \in failed THEN revision[t] + 1 ELSE revision[t]]
       /\ idem' = [d \in Dispatches |->
                     IF d \in lost /\ idem[d] = "in_progress" THEN "Failed" ELSE idem[d]]
       /\ stream' = [d \in Dispatches |->
                       IF d \in lost /\ stream[d] \in OpenStream THEN "interrupted" ELSE stream[d]]
       /\ UNCHANGED <<turn, attempts, cause, senderGen, recv, epoch, recvSender,
                      recvAttempt, result, intent>>

=============================================================================
