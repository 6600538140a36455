------------------------ MODULE DurableLedgerProofs -------------------------
(***************************************************************************)
(* What a step of the durable path may do to the rows of a dispatch, for   *)
(* any set of tasks, messages, replicas and deployments, and the           *)
(* invariants of these rows.                                               *)
(*                                                                         *)
(* LedgerInv ties the outbox row, the idempotency record and the task of a *)
(* dispatch together, ReceiverInv the receiver row, its result and the     *)
(* intent, DriverInv what a replica holds at each label to what the store  *)
(* says of it. Effects reduces every action to one of a few effects on the *)
(* rows, and LedgerStep and ReceiverStep show that each effect keeps the   *)
(* first two.                                                              *)
(***************************************************************************)
EXTENDS DurableDriver, TLAPS

Owed(d) == outbox[d] \in {"pending", "leased"}
Paused(t) == taskState[t] \in PausedStates

TypeInv ==
    /\ deployment \in Deployments
    /\ turn \in [Tasks -> 0 .. MaxTurns]
    /\ taskState \in [Tasks -> TaskStates]
    /\ revision \in [Tasks -> Nat]
    /\ outbox \in [Dispatches -> OutboxStates]
    /\ attempts \in [Dispatches -> Nat]
    /\ cause \in [Dispatches -> Nat]
    /\ senderGen \in [Dispatches -> Nat]
    /\ senderLive \subseteq Dispatches
    /\ recv \in [Dispatches -> {"absent", "processing", "completed"}]
    /\ epoch \in [Dispatches -> Nat]
    /\ result \in [Dispatches -> Results \cup {"none"}]
    /\ intent \in [Dispatches -> {"none", "requested", "receiver_canceled"}]
    /\ idem \in [Dispatches -> TaskStates \cup {"none", "in_progress"}]
    /\ pc \in [Replicas -> Labels]
    /\ held \in [Replicas -> Dispatches \cup {NoDispatch}]
    /\ heldGen \in [Replicas -> Nat]
    /\ heldEpoch \in [Replicas -> Nat]
    /\ value \in [Replicas -> Results \cup {"none", "stopped"}]
    /\ clock \in [Replicas -> BOOLEAN]

(* A message is owed an answer exactly while its outbox row is pending or  *)
(* leased; then it is the last message of an active task.                  *)
Ledger(d) ==
    /\ Owed(d) <=> idem[d] = "in_progress"
    /\ Owed(d) => d[2] = turn[d[1]] /\ Active(d[1])
    /\ outbox[d] = "absent" <=> d[2] > turn[d[1]]
    /\ idem[d] = "none" <=> d[2] > turn[d[1]]
    /\ outbox[d] = "delivered" => cause[d] < revision[d[1]]
    /\ d[2] = turn[d[1]] /\ Active(d[1]) => Owed(d)
    /\ d[2] = turn[d[1]] /\ Paused(d[1]) => outbox[d] = "delivered" /\ idem[d] \in PausedStates
LedgerInv ==
    /\ \A d \in Dispatches : Ledger(d)
    /\ \A t \in Tasks : turn[t] = 0 <=> taskState[t] = "Unspecified"

Receiver(d) ==
    /\ recv[d] = "completed" <=> result[d] # "none"
    /\ intent[d] = "requested" => recv[d] = "processing"
    /\ intent[d] = "receiver_canceled" <=> result[d] = "canceled"
ReceiverInv == \A d \in Dispatches : Receiver(d)

Driver(r) ==
    /\ pc[r] \in {"idle", "down"} => held[r] = NoDispatch
    /\ pc[r] \notin {"idle", "down"} => held[r] \in Dispatches
    /\ pc[r] \in Receiving => heldEpoch[r] <= epoch[held[r]]
    /\ pc[r] = "settling" => value[r] \in (Results \ {"canceled"}) \cup {"stopped"}
    /\ pc[r] \in {"completing", "rechecking"} => value[r] \in Results \ {"canceled"}
    /\ pc[r] \in {"publishing", "committing"} => recv[held[r]] = "completed" /\ value[r] = result[held[r]]
DriverInv == \A r \in Replicas : Driver(r)

EpochInv ==
    \A r, q \in Replicas :
        r # q /\ pc[r] \in Receiving /\ pc[q] \in Receiving /\ held[r] = held[q] => heldEpoch[r] # heldEpoch[q]

-----------------------------------------------------------------------------
(* What a step may do to the rows that the contract is about.  Every       *)
(* action of the driver, the handlers and the environment has one of these *)
(* effects.                                                                *)
ledger == <<turn, taskState, revision, outbox, cause, idem>>
receipt == <<recv, epoch, result, intent>>

Quiet == UNCHANGED <<ledger, receipt>>
Relabelled(d) ==
    /\ Owed(d)
    /\ \E s \in {"pending", "leased"} : outbox' = [outbox EXCEPT ![d] = s]
    /\ UNCHANGED <<turn, taskState, revision, cause, idem, receipt>>
GivenUp(d) ==
    /\ outbox[d] = "leased" /\ recv[d] = "absent"
    /\ DeadLetterTask(d)
    /\ \E s \in {"dead", "superseded"} : outbox' = [outbox EXCEPT ![d] = s]
    /\ UNCHANGED <<cause, receipt>>
Committed(d) ==
    /\ outbox[d] = "leased" /\ recv[d] = "completed" /\ revision[d[1]] = cause[d]
    /\ CommitDelivery(d, result[d])
Begun(d) == outbox[d] = "leased" /\ BeginExecute(d)
SealedAs(d, v) == recv[d] = "processing" /\ CompletionAgrees(d, v) /\ CompleteReceive(d, v)

Effect ==
    \/ Quiet
    \/ \E t \in Tasks : AdmitMessage(t) \/ AdmitContinuation(t) \/ CancelNow(t) \/ CancelRunning(t)
    \/ \E d \in Dispatches : Relabelled(d) \/ GivenUp(d) \/ Committed(d) \/ Begun(d)
    \/ \E d \in Dispatches, v \in Results : SealedAs(d, v)
    \/ Sqlite /\ RecoverOrphanedTasks

(* A dispatch is a task and the number of one of its messages.             *)
LEMMA Parts ==
  /\ \A d \in Dispatches : d[1] \in Tasks /\ d[2] \in 1 .. MaxTurns /\ d = <<d[1], d[2]>>
  /\ \A t \in Tasks, n \in 1 .. MaxTurns : <<t, n>> \in Dispatches
BY DEF Dispatches

(* claim_outbox gives leases only to rows that are pending or leased.      *)
LEMMA ClaimEffect ==
  ASSUME TypeInv, NEW d \in Dispatches, ClaimLease(d)
  PROVE  Relabelled(d)
<1>1. outbox[d] \in {"pending", "leased"}
  BY Zenon DEF ClaimLease, SqliteClaim, SqliteReclaim, SqliteFinal, Fresh, Expired, PostgresReclaim, PostgresFinal
<1>2. UNCHANGED <<recv, epoch, result, intent, turn, taskState, revision, cause, idem>>
  BY Zenon DEF ClaimLease, recvVars, taskVars, replyVars
<1>3. outbox' = [outbox EXCEPT ![d] = "leased"]
  BY Zenon DEF ClaimLease
<1> QED BY Zenon, <1>1, <1>2, <1>3 DEF Relabelled, Owed, receipt

(* Every step has one of the effects.                                      *)
LEMMA Effects == ASSUME TypeInv, DriverInv, [Next]_vars PROVE Effect
<1> USE DEF ledger, receipt, storeVars, taskVars, outboxVars, recvVars, replyVars
<1>1. ASSUME NEW r \in Replicas, Claim(r) PROVE Effect
  <2>1. PICK d \in Dispatches : ClaimLease(d) \/ ClaimDead(d)
    BY Zenon, <1>1 DEF Claim
  <2>2. CASE ClaimLease(d)
    BY Zenon, <2>2, ClaimEffect DEF Effect
  <2>3. CASE ClaimDead(d)
    BY Zenon, <2>3 DEF ClaimDead, Expired, GivenUp, DeadOutboxState, Effect
  <2> QED BY Zenon, <2>1, <2>2, <2>3
<1>2. ASSUME NEW r \in Replicas, FinishAttempt(r) PROVE Effect
  <2>1. held[r] \in Dispatches
    BY Zenon, <1>2 DEF FinishAttempt, DriverInv, Driver
  <2>2. CASE UNCHANGED storeVars
    BY Zenon, <2>2 DEF Quiet, Effect
  <2>3. CASE outbox[held[r]] = "leased" /\ Reconcile(held[r])
    BY Zenon, <2>3 DEF Reconcile, KeepAttempt, Quiet, Effect
  <2>4. CASE outbox[held[r]] = "leased" /\ RetryLater(held[r])
    BY Zenon, <2>1, <2>4 DEF RetryLater, Relabelled, Owed, Effect
  <2>5. CASE outbox[held[r]] = "leased" /\ recv[held[r]] = "absent" /\ Bury(held[r])
    BY Zenon, <2>1, <2>5 DEF Bury, DeadOutboxState, GivenUp, Effect
  <2> QED BY Zenon, <1>2, <2>2, <2>3, <2>4, <2>5
          DEF FinishAttempt, FinishOutboxAttempt, FinishFence, SenderFence, DriverFails
<1>3. ASSUME NEW r \in Replicas, BeginReceive(r) PROVE Effect
  <2>1. held[r] \in Dispatches
    BY Zenon, <1>3 DEF BeginReceive, DriverInv, Driver
  <2>2. UNCHANGED storeVars \/ (outbox[held[r]] = "leased" /\ BeginExecute(held[r]))
    BY Zenon, <1>3 DEF BeginReceive, DriverFails
  <2> QED BY Zenon, <2>1, <2>2 DEF Begun, Quiet, Effect
<1>4. ASSUME NEW r \in Replicas, Complete(r) PROVE Effect
  <2>1. held[r] \in Dispatches /\ value[r] \in Results
    BY Zenon, <1>4 DEF Complete, DriverInv, Driver
  <2>2. \/ UNCHANGED storeVars
        \/ recv[held[r]] = "processing" /\ CompletionAgrees(held[r], value[r]) /\ CompleteReceive(held[r], value[r])
    BY Zenon, <1>4 DEF Complete, ReceiverOf, ReceiverFence
  <2> QED BY Zenon, <2>1, <2>2 DEF SealedAs, Quiet, Effect
<1>5. ASSUME NEW r \in Replicas, CompleteCanceled(r) PROVE Effect
  <2>1. held[r] \in Dispatches /\ "canceled" \in Results
    BY Zenon, <1>5 DEF CompleteCanceled, DriverInv, Driver, Results
  <2>2. \/ UNCHANGED storeVars
        \/ recv[held[r]] = "processing" /\ CompletionAgrees(held[r], "canceled") /\ CompleteReceive(held[r], "canceled")
    BY Zenon, <1>5 DEF CompleteCanceled, ReceiverOf, ReceiverFence, DriverFails
  <2> QED BY Zenon, <2>1, <2>2 DEF SealedAs, Quiet, Effect
<1>6. ASSUME NEW r \in Replicas, Commit(r) PROVE Effect
  <2>1. held[r] \in Dispatches /\ recv[held[r]] = "completed" /\ value[r] = result[held[r]]
    BY Zenon, <1>6 DEF Commit, DriverInv, Driver
  <2>2. \/ UNCHANGED storeVars
        \/ CommitFence(held[r], heldGen[r], clock[r]) /\ CommitDelivery(held[r], value[r])
    BY Zenon, <1>6 DEF Commit
  <2> QED BY Zenon, <2>1, <2>2 DEF CommitFence, SenderFence, Committed, Quiet, Effect
<1>7. ASSUME NEW r \in Replicas,
             \/ Progress(r) \/ Prepare(r) \/ EnterRuntime(r) \/ RuntimeEnds(r) \/ Settle(r) \/ Recheck(r)
             \/ Replay(r) \/ LoadTask(r) \/ RenewalAnswerLost(r) \/ AdapterRefuses(r) \/ Stop(r)
      PROVE  Effect
  <2>1. Quiet
    BY Zenon, <1>7 DEF Progress, Prepare, EnterRuntime, RuntimeEnds, Settle, Recheck, Replay, LoadTask,
                RenewalAnswerLost, AdapterRefuses, Stop, DriverFails, AppendStreamProgress, Quiet
  <2> QED BY Zenon, <2>1 DEF Effect
<1>8. ASSUME NEW r \in Replicas, Restart(r) PROVE Effect
  BY Zenon, <1>8 DEF Restart, Quiet, Effect
<1>9. ASSUME NEW t \in Tasks, SendMessage(t) \/ CancelTask(t) PROVE Effect
  BY Zenon, <1>9 DEF SendMessage, CancelTask, Effect
<1>10. ASSUME NEW d \in Dispatches, SignalCancel(d) \/ ExpireSender(d) \/ ExpireReceiver(d) PROVE Effect
  <2>1. Quiet
    BY Zenon, <1>10 DEF SignalCancel, ExpireSender, ExpireReceiver, DriverFails, Quiet
  <2> QED BY Zenon, <2>1 DEF Effect
<1>11. CASE UNCHANGED vars
  BY Zenon, <1>11 DEF vars, Quiet, Effect
<1> QED BY Zenon, <1>1, <1>2, <1>3, <1>4, <1>5, <1>6, <1>7, <1>8, <1>9, <1>10, <1>11 DEF Next, DriverStep

(* The task that is cancelled is not over, and what is cancelled is its    *)
(* last message.                                                           *)
LEMMA TargetIs ==
  ASSUME TypeInv, LedgerInv, NEW t \in Tasks, Cancelable(t)
  PROVE  /\ <<t, turn[t]>> \in Dispatches
         /\ CancelTarget(t) = <<t, turn[t]>>
         /\ Active(t) \/ Paused(t)
<1> DEFINE d == <<t, turn[t]>>
           rows == {x \in Dispatches : x[1] = t /\ outbox[x] # "absent"}
           open == {x \in rows : outbox[x] \in OpenOutbox}
           best == IF open = {} THEN rows ELSE open
<1>1. turn[t] \in 1 .. MaxTurns
  BY AuthorityAssumption DEF TypeInv, Cancelable
<1>2. d \in Dispatches /\ d[1] = t /\ d[2] = turn[t]
  BY Zenon, <1>1, Parts
<1>3. Active(t) \/ Paused(t)
  <2>1. taskState[t] \in TaskStates /\ taskState[t] # "Unspecified" /\ taskState[t] \notin TerminalStates
    BY <1>1 DEF TypeInv, LedgerInv, Cancelable, IsTerminal
  <2> QED BY Zenon, <2>1 DEF TaskStates, LiveStates, Active, Paused
<1>4. outbox[d] \in OpenOutbox
  BY Zenon, <1>2, <1>3 DEF LedgerInv, Ledger, Owed, OpenOutbox
<1>5. d \in open /\ best = open
  BY Zenon, <1>2, <1>4 DEF OpenOutbox
<1>6. \A x \in best : x \in Dispatches /\ x[1] = t /\ x[2] <= turn[t]
  <2> SUFFICES ASSUME NEW x \in best PROVE x \in Dispatches /\ x[1] = t /\ x[2] <= turn[t]
    BY Zenon
  <2>1. x \in Dispatches /\ x[1] = t /\ outbox[x] # "absent"
    BY Zenon, <1>5
  <2>2. x[2] \in Nat /\ turn[t] \in Nat
    BY <2>1, <1>1, Parts
  <2>3. ~ (x[2] > turn[t])
    BY Zenon, <2>1 DEF LedgerInv, Ledger
  <2> QED BY <2>1, <2>2, <2>3
<1> DEFINE c == CHOOSE x \in best : \A y \in best : y[2] <= x[2]
<1>7. c \in best /\ \A y \in best : y[2] <= c[2]
  <2>1. \E x \in best : \A y \in best : y[2] <= x[2]
    BY Zenon, <1>2, <1>5, <1>6
  <2> HIDE DEF best
  <2> QED BY Zenon, <2>1
<1>8. c = d
  <2> HIDE DEF c
  <2>1. c \in Dispatches /\ c[1] = t /\ c[2] <= turn[t] /\ turn[t] <= c[2]
    BY Zenon, <1>2, <1>5, <1>6, <1>7
  <2>2. c[2] = turn[t]
    BY <2>1, <1>1, Parts
  <2> QED BY Zenon, <2>1, <2>2, Parts
<1>9. CancelTarget(t) = c
  BY Zenon DEF CancelTarget
<1> QED BY Zenon, <1>2, <1>3, <1>8, <1>9

(* Recovery finds no delivered dispatch that its task does not show, and   *)
(* no unfinished task without an open dispatch: it gives up what is spent  *)
(* and frees the other leases that no receiver holds.                      *)
LEMMA RecoveryForm ==
  ASSUME TypeInv, LedgerInv, RecoverOrphanedTasks
  PROVE  /\ \A d \in Dispatches : outbox'[d] = IF d \in Spent THEN "dead"
                                               ELSE IF d \in Abandoned THEN "pending" ELSE outbox[d]
         /\ outbox' \in [Dispatches -> OutboxStates]
         /\ taskState' = [t \in Tasks |-> IF \E d \in Spent : d[1] = t THEN "Failed" ELSE taskState[t]]
         /\ revision' = [t \in Tasks |-> IF \E d \in Spent : d[1] = t THEN revision[t] + 1 ELSE revision[t]]
         /\ idem' = [d \in Dispatches |-> IF d \in Spent THEN "Failed" ELSE idem[d]]
         /\ UNCHANGED <<turn, cause, receipt>>
<1>1. Unresolved = {}
  <2> SUFFICES ASSUME NEW d \in Dispatches, outbox[d] = "delivered" PROVE cause[d] # revision[d[1]]
    BY Zenon DEF Unresolved
  <2>1. cause[d] \in Nat /\ revision[d[1]] \in Nat
    BY Zenon, Parts DEF TypeInv
  <2> QED BY <2>1 DEF LedgerInv, Ledger
<1>2. Orphans = {}
  <2> SUFFICES ASSUME NEW t \in Tasks, turn[t] > 0, ~ IsTerminal(taskState[t])
               PROVE  \E d \in Dispatches : d[1] = t /\ outbox[d] \in OpenOutbox
    BY Zenon DEF Orphans
  <2>1. <<t, turn[t]>> \in Dispatches /\ (Active(t) \/ Paused(t))
    BY Zenon, TargetIs DEF Cancelable
  <2>2. outbox[<<t, turn[t]>>] \in OpenOutbox
    BY Zenon, <2>1 DEF LedgerInv, Ledger, Owed, OpenOutbox
  <2> QED BY Zenon, <2>1, <2>2
<1>3. \A d \in Spent : /\ d \in Dispatches /\ Owed(d) /\ ~ IsTerminal(taskState[d[1]]) /\ idem[d] = "in_progress"
                       /\ DeadOutboxState(d) = "dead"
  BY Zenon DEF Spent, Abandoned, Owed, LedgerInv, Ledger, Active, IsTerminal, TerminalStates, DeadOutboxState
<1> DEFINE lost == {d \in Spent : ~ IsTerminal(taskState[d[1]])} \cup Unresolved
           failed == {d[1] : d \in lost} \cup Orphans
<1>4. lost = Spent
  BY Zenon, <1>1, <1>3
<1>5. \A t : t \in failed <=> \E d \in Spent : d[1] = t
  BY Zenon, <1>2, <1>4
<1>6. outbox' = [d \in Dispatches |->
                       CASE d \in Spent -> DeadOutboxState(d)
                         [] outbox[d] = "delivered" /\ \E u \in Unresolved : u[1] = d[1] -> "superseded"
                         [] d \in Abandoned \ Spent -> "pending"
                         [] OTHER -> outbox[d]]
  BY Zenon DEF RecoverOrphanedTasks
<1>7. ASSUME NEW d \in Dispatches
      PROVE  outbox'[d] = IF d \in Spent THEN "dead" ELSE IF d \in Abandoned THEN "pending" ELSE outbox[d]
  <2>1. CASE d \in Spent
    BY Zenon, <1>3, <1>6, <2>1 DEF Spent, Abandoned
  <2>2. CASE d \notin Spent
    BY Zenon, <1>1, <1>6, <2>2
  <2> QED BY Zenon, <2>1, <2>2
<1>8. outbox' \in [Dispatches -> OutboxStates]
  <2>1. \A d \in Dispatches : outbox'[d] \in OutboxStates
    BY Zenon, <1>7 DEF TypeInv, OutboxStates, OpenOutbox
  <2> QED BY Zenon, <1>6, <2>1
<1>9. taskState' = [t \in Tasks |-> IF t \in failed THEN "Failed" ELSE taskState[t]]
      /\ revision' = [t \in Tasks |-> IF t \in failed THEN revision[t] + 1 ELSE revision[t]]
  BY Zenon DEF RecoverOrphanedTasks
<1>10. idem' = [d \in Dispatches |-> IF d \in lost /\ idem[d] = "in_progress" THEN "Failed" ELSE idem[d]]
  BY Zenon DEF RecoverOrphanedTasks
<1>11. idem' = [d \in Dispatches |-> IF d \in Spent THEN "Failed" ELSE idem[d]]
  BY Zenon, <1>3, <1>4, <1>10
<1>12. UNCHANGED <<turn, cause, receipt>>
  BY Zenon DEF RecoverOrphanedTasks, receipt
<1> HIDE DEF lost, failed
<1> QED BY Zenon, <1>5, <1>7, <1>8, <1>9, <1>11, <1>12

(* A dispatch that is given up is the last message of an active task, so   *)
(* dead_letter_task does not find the task over.                           *)
LEMMA GivenUpForm ==
  ASSUME TypeInv, LedgerInv, NEW d \in Dispatches, GivenUp(d)
  PROVE  /\ Owed(d) /\ idem[d] = "in_progress" /\ d[2] = turn[d[1]] /\ Active(d[1])
         /\ taskState' = [taskState EXCEPT ![d[1]] = "Failed"]
         /\ revision' = [revision EXCEPT ![d[1]] = @ + 1]
         /\ idem' = [idem EXCEPT ![d] = "Failed"]
         /\ \E s \in {"dead", "superseded"} : outbox' = [outbox EXCEPT ![d] = s]
         /\ UNCHANGED <<turn, cause, receipt>>
<1>1. Owed(d) /\ idem[d] = "in_progress" /\ d[2] = turn[d[1]] /\ Active(d[1])
  BY Zenon DEF GivenUp, Owed, LedgerInv, Ledger
<1>2. ~ IsTerminal(taskState[d[1]])
  BY Zenon, <1>1 DEF Active, IsTerminal, TerminalStates
<1>3. SetTask(d[1], "Failed") /\ CloseReply(d, "Failed", "interrupted")
  BY Zenon, <1>2 DEF GivenUp, DeadLetterTask
<1>4. idem' = [idem EXCEPT ![d] = "Failed"]
  BY Zenon, <1>1, <1>3 DEF CloseReply
<1> QED BY Zenon, <1>1, <1>3, <1>4 DEF GivenUp, SetTask

(* So is a dispatch whose outcome is committed.                            *)
LEMMA CommittedForm ==
  ASSUME TypeInv, LedgerInv, ReceiverInv, NEW d \in Dispatches, Committed(d)
  PROVE  /\ Owed(d) /\ idem[d] = "in_progress" /\ d[2] = turn[d[1]] /\ Active(d[1])
         /\ result[d] \in Results /\ cause[d] = revision[d[1]]
         /\ taskState' = [taskState EXCEPT ![d[1]] = StateOf(result[d])]
         /\ revision' = [revision EXCEPT ![d[1]] = @ + 1]
         /\ idem' = [idem EXCEPT ![d] = StateOf(result[d])]
         /\ outbox' = [outbox EXCEPT ![d] = "delivered"]
         /\ UNCHANGED <<turn, cause, receipt>>
<1>1. Owed(d) /\ idem[d] = "in_progress" /\ d[2] = turn[d[1]] /\ Active(d[1])
  BY Zenon DEF Committed, Owed, LedgerInv, Ledger
<1>2. result[d] \in Results
  BY Zenon DEF Committed, ReceiverInv, Receiver, TypeInv
<1>3. idem' = [idem EXCEPT ![d] = StateOf(result[d])]
  BY Zenon, <1>1 DEF Committed, CommitDelivery, CloseReply
<1> QED BY Zenon, <1>1, <1>2, <1>3 DEF Committed, CommitDelivery, SetTask, receipt, recvVars

(* A cancellation on the spot answers the last message of the task, if it  *)
(* is still owed an answer.                                                *)
LEMMA CancelNowForm ==
  ASSUME TypeInv, LedgerInv, NEW t \in Tasks, CancelNow(t), NEW d, d = <<t, turn[t]>>
  PROVE  /\ d \in Dispatches /\ d[1] = t /\ d[2] = turn[t] /\ (Active(t) \/ Paused(t))
         /\ taskState' = [taskState EXCEPT ![t] = "Canceled"]
         /\ revision' = [revision EXCEPT ![t] = @ + 1]
         /\ idem' = [idem EXCEPT ![d] = IF idem[d] = "in_progress" THEN "Canceled" ELSE idem[d]]
         /\ outbox' = [outbox EXCEPT ![d] = "superseded"]
         /\ Active(t) => recv[d] # "completed"
         /\ UNCHANGED <<turn, cause, receipt>>
<1>1. d \in Dispatches /\ CancelTarget(t) = d /\ (Active(t) \/ Paused(t))
  BY Zenon, TargetIs DEF CancelNow
<1>2. d[1] = t /\ d[2] = turn[t]
  BY Zenon
<1>3. outbox[d] # "dead"
  BY Zenon, <1>1, <1>2 DEF LedgerInv, Ledger, Owed
<1>4. outbox' = [outbox EXCEPT ![d] = "superseded"]
  BY Zenon, <1>1, <1>3 DEF CancelNow
<1>5. idem' = [idem EXCEPT ![d] = IF idem[d] = "in_progress" THEN "Canceled" ELSE idem[d]]
  BY Zenon, <1>1 DEF CancelNow, CloseReply
<1>6. Active(t) => recv[d] # "completed"
  BY Zenon, <1>1 DEF CancelNow
<1>7. taskState' = [taskState EXCEPT ![t] = "Canceled"] /\ revision' = [revision EXCEPT ![t] = @ + 1]
      /\ UNCHANGED <<turn, cause, receipt>>
  BY Zenon DEF CancelNow, SetTask, receipt, recvVars
<1> QED BY Zenon, <1>1, <1>2, <1>4, <1>5, <1>6, <1>7

(* An admitted message is the next of its task.                            *)
LEMMA AdmittedForm ==
  ASSUME TypeInv, LedgerInv, NEW t \in Tasks, AdmitMessage(t) \/ AdmitContinuation(t)
  PROVE  LET d == <<t, turn[t] + 1>>
         IN /\ d \in Dispatches /\ idem[d] = "none"
            /\ turn' = [turn EXCEPT ![t] = turn[t] + 1]
            /\ outbox' = [outbox EXCEPT ![d] = "pending"]
            /\ idem' = [idem EXCEPT ![d] = "in_progress"]
            /\ \/ turn[t] = 0 /\ taskState' = [taskState EXCEPT ![t] = "Submitted"]
               \/ turn[t] > 0 /\ Paused(t) /\ taskState' = [taskState EXCEPT ![t] = "Working"]
            /\ \E n \in Nat : revision' = [revision EXCEPT ![t] = n] /\ (turn[t] = 0 \/ n >= revision[t])
            /\ \E n \in Nat : cause' = [cause EXCEPT ![d] = n]
            /\ UNCHANGED receipt
<1> DEFINE d == <<t, turn[t] + 1>>
<1>1. CASE AdmitMessage(t)
  <2>1. turn[t] = 0 /\ turn[t] + 1 = 1 /\ d = <<t, 1>>
    BY <1>1 DEF AdmitMessage
  <2>2. d \in Dispatches
    BY <2>1, Parts, AuthorityAssumption
  <2>3. d[1] = t /\ d[2] = 1
    BY Zenon, <2>1
  <2>4. idem[d] = "none"
    BY <2>1, <2>2, <2>3 DEF LedgerInv, Ledger
  <2> QED BY Zenon, <1>1, <2>1, <2>2, <2>4 DEF AdmitMessage, NewDispatch, recvVars, receipt
<1>2. CASE AdmitContinuation(t)
  <2>1. turn[t] \in 0 .. MaxTurns /\ deployment.turns \in 1 .. MaxTurns /\ turn[t] < deployment.turns
    BY Zenon, <1>2, AuthorityAssumption DEF TypeInv, AdmitContinuation
  <2>2. turn[t] + 1 \in 1 .. MaxTurns /\ turn[t] + 1 > turn[t]
    BY <2>1, AuthorityAssumption
  <2>3. d \in Dispatches /\ d[1] = t /\ d[2] = turn[t] + 1
    BY Zenon, <2>2, Parts
  <2>4. idem[d] = "none"
    BY Zenon, <2>2, <2>3 DEF LedgerInv, Ledger
  <2>5. turn[t] # 0
    BY Zenon, <1>2 DEF AdmitContinuation, LedgerInv, PausedStates
  <2>6. turn[t] > 0 /\ Paused(t)
    BY <2>1, <2>5, <1>2 DEF Paused, AdmitContinuation
  <2>7. revision[t] + 1 \in Nat /\ revision[t] + 1 >= revision[t]
    BY DEF TypeInv
  <2>8. /\ turn' = [turn EXCEPT ![t] = turn[t] + 1]
        /\ revision' = [revision EXCEPT ![t] = revision[t] + 1]
        /\ taskState' = [taskState EXCEPT ![t] = "Working"]
        /\ NewDispatch(d, revision[t] + 1)
    BY Zenon, <1>2 DEF AdmitContinuation
  <2> QED BY Zenon, <2>3, <2>4, <2>6, <2>7, <2>8 DEF NewDispatch, recvVars, receipt
<1> QED BY Zenon, <1>1, <1>2

LedgerTyped ==
    /\ turn \in [Tasks -> 0 .. MaxTurns]
    /\ taskState \in [Tasks -> TaskStates]
    /\ revision \in [Tasks -> Nat]
    /\ outbox \in [Dispatches -> OutboxStates]
    /\ cause \in [Dispatches -> Nat]
    /\ idem \in [Dispatches -> TaskStates \cup {"none", "in_progress"}]
ReceiptTyped ==
    /\ recv \in [Dispatches -> {"absent", "processing", "completed"}]
    /\ epoch \in [Dispatches -> Nat]
    /\ result \in [Dispatches -> Results \cup {"none"}]
    /\ intent \in [Dispatches -> {"none", "requested", "receiver_canceled"}]

(* Every effect keeps the rows of the tasks and dispatches well typed.     *)
LEMMA StoreTyped ==
  ASSUME TypeInv, LedgerInv, ReceiverInv, Effect
  PROVE  LedgerTyped' /\ ReceiptTyped'
<1>0. LedgerTyped /\ ReceiptTyped
  BY Zenon DEF TypeInv, LedgerTyped, ReceiptTyped
<1>a. UNCHANGED ledger => LedgerTyped'
  BY Zenon, <1>0 DEF ledger, LedgerTyped
<1>b. UNCHANGED receipt => ReceiptTyped'
  BY Zenon, <1>0 DEF receipt, ReceiptTyped
<1>c. {"Submitted", "Working", "Failed", "Canceled"} \subseteq TaskStates /\ \A v \in Results : StateOf(v) \in TaskStates
  BY Zenon DEF TaskStates, LiveStates, PausedStates, TerminalStates, Results, StateOf
<1>1. CASE Quiet
  BY Zenon, <1>1, <1>a, <1>b DEF Quiet
<1>2. ASSUME NEW t \in Tasks, AdmitMessage(t) \/ AdmitContinuation(t) PROVE LedgerTyped' /\ ReceiptTyped'
  <2> DEFINE d == <<t, turn[t] + 1>>
  <2>1. /\ d \in Dispatches
        /\ turn' = [turn EXCEPT ![t] = turn[t] + 1]
        /\ outbox' = [outbox EXCEPT ![d] = "pending"]
        /\ idem' = [idem EXCEPT ![d] = "in_progress"]
        /\ \E s \in {"Submitted", "Working"} : taskState' = [taskState EXCEPT ![t] = s]
        /\ \E n \in Nat : revision' = [revision EXCEPT ![t] = n]
        /\ \E n \in Nat : cause' = [cause EXCEPT ![d] = n]
        /\ UNCHANGED receipt
    BY Zenon, <1>2, AdmittedForm
  <2>2. turn[t] + 1 \in 0 .. MaxTurns
    BY <2>1, Parts
  <2> HIDE DEF d
  <2>3. turn' \in [Tasks -> 0 .. MaxTurns] /\ revision' \in [Tasks -> Nat] /\ cause' \in [Dispatches -> Nat]
    BY <2>1, <2>2, <1>0 DEF LedgerTyped
  <2>4. outbox' \in [Dispatches -> OutboxStates] /\ idem' \in [Dispatches -> TaskStates \cup {"none", "in_progress"}]
    BY Zenon, <2>1, <1>0 DEF LedgerTyped, OutboxStates, OpenOutbox
  <2>5. taskState' \in [Tasks -> TaskStates]
    BY <2>1, <1>0, <1>c DEF LedgerTyped
  <2> QED BY Zenon, <2>1, <2>3, <2>4, <2>5, <1>b DEF LedgerTyped
<1>3. ASSUME NEW t \in Tasks, CancelNow(t) PROVE LedgerTyped' /\ ReceiptTyped'
  <2>1. PICK d : d = <<t, turn[t]>>
    BY Zenon
  <2>2. /\ taskState' = [taskState EXCEPT ![t] = "Canceled"]
        /\ revision' = [revision EXCEPT ![t] = @ + 1]
        /\ d \in Dispatches
        /\ idem' = [idem EXCEPT ![d] = IF idem[d] = "in_progress" THEN "Canceled" ELSE idem[d]]
        /\ outbox' = [outbox EXCEPT ![d] = "superseded"]
        /\ UNCHANGED <<turn, cause, receipt>>
    BY Zenon, <1>3, <2>1, CancelNowForm
  <2>3. taskState' \in [Tasks -> TaskStates] /\ idem' \in [Dispatches -> TaskStates \cup {"none", "in_progress"}]
    BY Zenon, <2>2, <1>0, <1>c DEF LedgerTyped
  <2>4. revision' \in [Tasks -> Nat] /\ outbox' \in [Dispatches -> OutboxStates]
    BY <2>2, <1>0 DEF LedgerTyped, OutboxStates
  <2> QED BY Zenon, <2>2, <2>3, <2>4, <1>0, <1>b DEF LedgerTyped
<1>4. ASSUME NEW t \in Tasks, CancelRunning(t) PROVE LedgerTyped' /\ ReceiptTyped'
  BY Zenon, <1>4, <1>0 DEF CancelRunning, LedgerTyped, ReceiptTyped, taskVars, outboxVars, replyVars
<1>5. ASSUME NEW d \in Dispatches, Relabelled(d) PROVE LedgerTyped' /\ ReceiptTyped'
  BY Zenon, <1>5, <1>0, <1>b DEF Relabelled, LedgerTyped, OutboxStates, OpenOutbox
<1>6. ASSUME NEW d \in Dispatches, GivenUp(d) PROVE LedgerTyped' /\ ReceiptTyped'
  <2>1. /\ taskState' = [taskState EXCEPT ![d[1]] = "Failed"]
        /\ revision' = [revision EXCEPT ![d[1]] = @ + 1]
        /\ idem' = [idem EXCEPT ![d] = "Failed"]
        /\ \E s \in {"dead", "superseded"} : outbox' = [outbox EXCEPT ![d] = s]
        /\ UNCHANGED <<turn, cause, receipt>>
    BY Zenon, <1>6, GivenUpForm
  <2>2. d[1] \in Tasks
    BY Zenon, Parts
  <2>3. taskState' \in [Tasks -> TaskStates] /\ idem' \in [Dispatches -> TaskStates \cup {"none", "in_progress"}]
    BY Zenon, <2>1, <2>2, <1>0, <1>c DEF LedgerTyped
  <2>4. revision' \in [Tasks -> Nat]
    BY <2>1, <2>2, <1>0 DEF LedgerTyped
  <2>5. outbox' \in [Dispatches -> OutboxStates]
    BY Zenon, <2>1, <1>0 DEF LedgerTyped, OutboxStates
  <2> QED BY Zenon, <2>1, <2>3, <2>4, <2>5, <1>0, <1>b DEF LedgerTyped
<1>7. ASSUME NEW d \in Dispatches, Committed(d) PROVE LedgerTyped' /\ ReceiptTyped'
  <2>1. PICK s \in TaskStates : s = StateOf(result[d])
    BY Zenon, <1>7, <1>c, CommittedForm
  <2>2. /\ taskState' = [taskState EXCEPT ![d[1]] = s]
        /\ revision' = [revision EXCEPT ![d[1]] = @ + 1]
        /\ idem' = [idem EXCEPT ![d] = s]
        /\ outbox' = [outbox EXCEPT ![d] = "delivered"]
        /\ UNCHANGED <<turn, cause, receipt>>
    BY Zenon, <1>7, <2>1, CommittedForm
  <2>3. d[1] \in Tasks
    BY Zenon, Parts
  <2>4. taskState' \in [Tasks -> TaskStates] /\ idem' \in [Dispatches -> TaskStates \cup {"none", "in_progress"}]
    BY Zenon, <2>2, <2>3, <1>0 DEF LedgerTyped
  <2>5. revision' \in [Tasks -> Nat]
    BY <2>2, <2>3, <1>0 DEF LedgerTyped
  <2>6. outbox' \in [Dispatches -> OutboxStates]
    BY Zenon, <2>2, <1>0 DEF LedgerTyped, OutboxStates, OpenOutbox
  <2> QED BY Zenon, <2>2, <2>4, <2>5, <2>6, <1>0, <1>b DEF LedgerTyped
<1>8. ASSUME NEW d \in Dispatches, Begun(d) PROVE LedgerTyped' /\ ReceiptTyped'
  BY <1>8, <1>0, <1>a DEF Begun, BeginExecute, ReceiptTyped, ledger, taskVars, outboxVars, replyVars
<1>9. ASSUME NEW d \in Dispatches, NEW v \in Results, SealedAs(d, v) PROVE LedgerTyped' /\ ReceiptTyped'
  <2>1. UNCHANGED ledger
    BY Zenon, <1>9 DEF SealedAs, CompleteReceive, ledger, taskVars, outboxVars, replyVars
  <2>2. UNCHANGED epoch /\ recv' = [recv EXCEPT ![d] = "completed"] /\ result' = [result EXCEPT ![d] = v]
    BY Zenon, <1>9 DEF SealedAs, CompleteReceive
  <2>3. intent' = [intent EXCEPT ![d] = IF v = "canceled" THEN "receiver_canceled" ELSE intent[d]]
    BY Zenon, <1>9 DEF SealedAs, CompleteReceive
  <2> QED BY Zenon, <2>1, <2>2, <2>3, <1>0, <1>a DEF ReceiptTyped
<1>10. ASSUME RecoverOrphanedTasks PROVE LedgerTyped' /\ ReceiptTyped'
  <2> USE <1>10, RecoveryForm
  <2>1. taskState' = [t \in Tasks |-> IF \E d \in Spent : d[1] = t THEN "Failed" ELSE taskState[t]]
        /\ idem' = [d \in Dispatches |-> IF d \in Spent THEN "Failed" ELSE idem[d]]
    BY Zenon
  <2>2. outbox' \in [Dispatches -> OutboxStates] /\ UNCHANGED <<turn, cause, receipt>>
    BY Zenon
  <2>3. revision' = [t \in Tasks |-> IF \E d \in Spent : d[1] = t THEN revision[t] + 1 ELSE revision[t]]
    BY Zenon
  <2>4. taskState' \in [Tasks -> TaskStates] /\ idem' \in [Dispatches -> TaskStates \cup {"none", "in_progress"}]
    BY ONLY Zenon, <2>1, <1>0, <1>c DEF LedgerTyped
  <2>5. revision' \in [Tasks -> Nat]
    BY ONLY <2>3, <1>0 DEF LedgerTyped
  <2> QED BY ONLY Zenon, <2>2, <2>4, <2>5, <1>0, <1>b DEF LedgerTyped
<1> QED BY Zenon, <1>1, <1>2, <1>3, <1>4, <1>5, <1>6, <1>7, <1>8, <1>9, <1>10 DEF Effect

(* Two dispatches that are both the last message of one task are one.      *)
LEMMA SameLast ==
  ASSUME NEW d \in Dispatches, NEW e \in Dispatches, d[1] = e[1], d[2] = e[2]
  PROVE  d = e
BY Zenon, Parts

(* Closing the last message d of a task: the other messages of the task    *)
(* are closed already, and those of other tasks are not touched.           *)
LEMMA LedgerClosed ==
  ASSUME TypeInv, LedgerInv, NEW d \in Dispatches, NEW s \in TaskStates, NEW o \in OutboxStates,
         NEW a \in TaskStates \cup {"none", "in_progress"},
         d[2] = turn[d[1]], taskState[d[1]] # "Unspecified",
         s \in TerminalStates \cup PausedStates, a \notin {"none", "in_progress"},
         o \in {"dead", "superseded", "delivered"},
         o = "delivered" => cause[d] <= revision[d[1]],
         s \in PausedStates => o = "delivered" /\ a = s,
         taskState' = [taskState EXCEPT ![d[1]] = s],
         revision' = [revision EXCEPT ![d[1]] = @ + 1],
         idem' = [idem EXCEPT ![d] = a],
         outbox' = [outbox EXCEPT ![d] = o],
         UNCHANGED <<turn, cause>>
  PROVE  LedgerInv'
<1> DEFINE t == d[1]
<1>0. t \in Tasks /\ taskState'[t] = s /\ s \notin {"Submitted", "Working", "Unspecified"}
  BY Zenon, Parts DEF TypeInv, TerminalStates, PausedStates
<1>1. \A u \in Tasks \ {t} : taskState'[u] = taskState[u] /\ revision'[u] = revision[u]
  BY Zenon DEF TypeInv
<1>2. \A u \in Tasks : turn'[u] = 0 <=> taskState'[u] = "Unspecified"
  BY Zenon, <1>0, <1>1 DEF LedgerInv
<1>3. Ledger(d)'
  <2>1. idem'[d] = a /\ outbox'[d] = o
    BY Zenon DEF TypeInv
  <2>2. cause[d] \in Nat /\ revision[t] \in Nat /\ revision'[t] = revision[t] + 1
    BY Zenon, <1>0 DEF TypeInv
  <2>3. ~ Owed(d)' /\ ~ Active(t)'
    BY Zenon, <1>0, <2>1 DEF Owed, Active
  <2>4. ~ (d[2] > turn'[t])
    BY Parts
  <2>5. o = "delivered" => cause'[d] < revision'[t]
    BY <2>2
  <2>6. Paused(t)' => o = "delivered" /\ a \in PausedStates
    BY Zenon, <1>0 DEF Paused
  <2> QED BY Zenon, <2>1, <2>3, <2>4, <2>5, <2>6 DEF Ledger
<1>4. ASSUME NEW e \in Dispatches \ {d} PROVE Ledger(e)'
  <2>0. Ledger(e) /\ e[1] \in Tasks
    BY Zenon, Parts DEF LedgerInv
  <2>1. idem'[e] = idem[e] /\ outbox'[e] = outbox[e] /\ cause'[e] = cause[e] /\ turn' = turn
    BY DEF TypeInv
  <2>2. CASE e[1] # t
    BY Zenon, <2>0, <2>1, <2>2, <1>1 DEF Ledger, Owed, Active, Paused
  <2>3. CASE e[1] = t
    <3>1. e[2] # turn[t]
      BY Zenon, <2>3, SameLast
    <3>2. cause[e] \in Nat /\ revision[t] \in Nat /\ revision'[t] = revision[t] + 1
      BY Zenon, <1>0 DEF TypeInv
    <3>3. outbox[e] = "delivered" => cause[e] < revision'[t]
      BY <2>0, <2>3, <3>2 DEF Ledger
    <3> QED BY Zenon, <2>0, <2>1, <2>3, <3>1, <3>3 DEF Ledger, Owed
  <2> QED BY Zenon, <2>2, <2>3
<1> QED BY Zenon, <1>2, <1>3, <1>4 DEF LedgerInv

(* Every effect keeps the ledger in order.                                 *)
LEMMA LedgerStep ==
  ASSUME TypeInv, LedgerInv, ReceiverInv, Effect
  PROVE  LedgerInv'
<1>a. ASSUME UNCHANGED ledger PROVE LedgerInv'
  BY Zenon, <1>a DEF ledger, LedgerInv, Ledger, Owed, Active, Paused
<1>c. /\ {"Failed", "Canceled"} \subseteq TerminalStates /\ TerminalStates \cup PausedStates \subseteq TaskStates
      /\ \A v \in Results : StateOf(v) \in TerminalStates \cup PausedStates
      /\ {"dead", "superseded", "delivered"} \subseteq OutboxStates
      /\ "none" \notin TerminalStates \cup PausedStates /\ "in_progress" \notin TerminalStates \cup PausedStates
      /\ TerminalStates \cap PausedStates = {}
  BY Zenon DEF TaskStates, LiveStates, PausedStates, TerminalStates, Results, StateOf, OutboxStates, OpenOutbox
<1>1. CASE Quiet
  BY Zenon, <1>1, <1>a DEF Quiet
<1>2. ASSUME NEW t \in Tasks, AdmitMessage(t) \/ AdmitContinuation(t) PROVE LedgerInv'
  <2>1. PICK d : d = <<t, turn[t] + 1>>
    BY Zenon
  <2>2. /\ d \in Dispatches
        /\ turn' = [turn EXCEPT ![t] = turn[t] + 1]
        /\ outbox' = [outbox EXCEPT ![d] = "pending"]
        /\ idem' = [idem EXCEPT ![d] = "in_progress"]
        /\ turn[t] = 0 \/ Paused(t)
        /\ \E s \in {"Submitted", "Working"} : taskState' = [taskState EXCEPT ![t] = s]
        /\ \E n \in Nat : revision' = [revision EXCEPT ![t] = n] /\ (turn[t] = 0 \/ n >= revision[t])
        /\ \E n \in Nat : cause' = [cause EXCEPT ![d] = n]
    BY Zenon, <1>2, <2>1, AdmittedForm
  <2>3. d[1] = t /\ d[2] = turn[t] + 1 /\ turn[t] \in Nat /\ turn'[t] = turn[t] + 1
    BY <2>1, <2>2 DEF TypeInv
  <2>4. taskState'[t] \in {"Submitted", "Working"} /\ \A u \in Tasks \ {t} : taskState'[u] = taskState[u] /\ turn'[u] = turn[u]
    BY Zenon, <2>2 DEF TypeInv
  <2>5. \A u \in Tasks : turn'[u] = 0 <=> taskState'[u] = "Unspecified"
    BY <2>3, <2>4 DEF LedgerInv
  <2>6. Ledger(d)'
    <3>1. outbox'[d] = "pending" /\ idem'[d] = "in_progress"
      BY Zenon, <2>2 DEF TypeInv
    <3> QED BY <2>3, <2>4, <3>1 DEF Ledger, Owed, Active, Paused, PausedStates
  <2>7. ASSUME NEW e \in Dispatches \ {d} PROVE Ledger(e)'
    <3>0. Ledger(e) /\ e[1] \in Tasks /\ e[2] \in Nat /\ e[2] > 0
      BY Parts DEF LedgerInv
    <3>1. idem'[e] = idem[e] /\ outbox'[e] = outbox[e] /\ cause'[e] = cause[e]
      BY Zenon, <2>2 DEF TypeInv
    <3>2. CASE e[1] # t
      <4>1. revision'[e[1]] = revision[e[1]]
        BY <2>2, <3>0, <3>2 DEF TypeInv
      <4> QED BY Zenon, <2>4, <3>0, <3>1, <3>2, <4>1 DEF Ledger, Owed, Active, Paused
    <3>3. CASE e[1] = t
      <4>1. e[2] # turn[t] + 1
        BY Zenon, <2>2, <2>3, <3>3, SameLast
      <4>2. (e[2] > turn[t] + 1) <=> (e[2] > turn[t])
        BY <2>3, <3>0, <4>1
      <4>3. ~ Owed(e)
        BY Zenon, <2>2, <2>3, <3>0, <3>3 DEF Ledger, Active, Paused, PausedStates
      <4>4. outbox[e] = "delivered" => turn[t] # 0
        BY Zenon, <2>3, <3>0, <3>3 DEF Ledger
      <4>5. outbox[e] = "delivered" => cause[e] < revision'[t]
        <5>1. cause[e] \in Nat /\ revision[t] \in Nat
          BY Zenon DEF TypeInv
        <5>2. turn[t] = 0 \/ (revision'[t] \in Nat /\ revision'[t] >= revision[t])
          BY Zenon, <2>2 DEF TypeInv
        <5> QED BY <3>0, <3>3, <4>4, <5>1, <5>2 DEF Ledger
      <4> QED BY Zenon, <2>3, <3>0, <3>1, <3>3, <4>1, <4>2, <4>3, <4>5 DEF Ledger, Owed
    <3> QED BY Zenon, <3>2, <3>3
  <2> QED BY Zenon, <2>5, <2>6, <2>7 DEF LedgerInv
<1>3. ASSUME NEW t \in Tasks, CancelNow(t) PROVE LedgerInv'
  <2>1. PICK d : d = <<t, turn[t]>>
    BY Zenon
  <2>2. /\ d \in Dispatches /\ d[1] = t /\ d[2] = turn[t] /\ (Active(t) \/ Paused(t))
        /\ taskState' = [taskState EXCEPT ![t] = "Canceled"]
        /\ revision' = [revision EXCEPT ![t] = @ + 1]
        /\ idem' = [idem EXCEPT ![d] = IF idem[d] = "in_progress" THEN "Canceled" ELSE idem[d]]
        /\ outbox' = [outbox EXCEPT ![d] = "superseded"]
        /\ UNCHANGED <<turn, cause, receipt>>
    BY Zenon, <1>3, <2>1, CancelNowForm
  <2>3. PICK a : a = IF idem[d] = "in_progress" THEN "Canceled" ELSE idem[d]
    BY Zenon
  <2>4. a \in TaskStates \cup {"none", "in_progress"} /\ a # "in_progress"
    BY Zenon, <2>2, <2>3, <1>c DEF TypeInv
  <2>5. ~ (d[2] > turn[t])
    BY <2>2, Parts
  <2>6. a # "none"
    BY Zenon, <2>2, <2>3, <2>5 DEF LedgerInv, Ledger
  <2>7. taskState[d[1]] # "Unspecified"
    BY Zenon, <2>2 DEF Active, Paused, PausedStates
  <2> QED BY Zenon, <2>2, <2>3, <2>4, <2>6, <2>7, <1>c, LedgerClosed
<1>4. ASSUME NEW t \in Tasks, CancelRunning(t) PROVE LedgerInv'
  BY Zenon, <1>4, <1>a DEF CancelRunning, ledger, taskVars, outboxVars, replyVars
<1>5. ASSUME NEW d \in Dispatches, Relabelled(d) PROVE LedgerInv'
  <2>1. outbox'[d] \in {"pending", "leased"} /\ \A e \in Dispatches \ {d} : outbox'[e] = outbox[e]
    BY Zenon, <1>5 DEF Relabelled, TypeInv
  <2>2. \A e \in Dispatches : (Owed(e)' <=> Owed(e)) /\ (outbox'[e] \in {"absent", "delivered"} => outbox'[e] = outbox[e])
                              /\ (outbox[e] \in {"absent", "delivered"} => outbox'[e] = outbox[e])
    BY Zenon, <1>5, <2>1 DEF Relabelled, Owed
  <2>3. UNCHANGED <<turn, taskState, revision, cause, idem>>
    BY Zenon, <1>5 DEF Relabelled
  <2>4. ASSUME NEW e \in Dispatches PROVE Ledger(e)'
    <3>1. /\ Owed(e)' <=> Owed(e)
          /\ outbox'[e] = "absent" <=> outbox[e] = "absent"
          /\ outbox'[e] = "delivered" <=> outbox[e] = "delivered"
      BY Zenon, <2>2
    <3>2. (Active(e[1])' <=> Active(e[1])) /\ (Paused(e[1])' <=> Paused(e[1]))
      BY Zenon, <2>3 DEF Active, Paused
    <3>3. Ledger(e)
      BY Zenon DEF LedgerInv
    <3> QED BY ONLY Zenon, <2>3, <3>1, <3>2, <3>3 DEF Ledger
  <2> QED BY Zenon, <2>3, <2>4 DEF LedgerInv
<1>6. ASSUME NEW d \in Dispatches, GivenUp(d) PROVE LedgerInv'
  <2>1. /\ d[2] = turn[d[1]] /\ Active(d[1])
        /\ taskState' = [taskState EXCEPT ![d[1]] = "Failed"]
        /\ revision' = [revision EXCEPT ![d[1]] = @ + 1]
        /\ idem' = [idem EXCEPT ![d] = "Failed"]
        /\ UNCHANGED <<turn, cause>>
    BY Zenon, <1>6, GivenUpForm
  <2>2. PICK o \in {"dead", "superseded"} : outbox' = [outbox EXCEPT ![d] = o]
    BY Zenon, <1>6, GivenUpForm
  <2>3. taskState[d[1]] # "Unspecified"
    BY Zenon, <2>1 DEF Active
  <2> QED BY Zenon, <2>1, <2>2, <2>3, <1>c, LedgerClosed
<1>7. ASSUME NEW d \in Dispatches, Committed(d) PROVE LedgerInv'
  <2>1. PICK s \in TerminalStates \cup PausedStates : s = StateOf(result[d])
    BY Zenon, <1>7, <1>c, CommittedForm
  <2>2. /\ d[2] = turn[d[1]] /\ Active(d[1])
        /\ cause[d] = revision[d[1]]
        /\ taskState' = [taskState EXCEPT ![d[1]] = s]
        /\ revision' = [revision EXCEPT ![d[1]] = @ + 1]
        /\ idem' = [idem EXCEPT ![d] = s]
        /\ outbox' = [outbox EXCEPT ![d] = "delivered"]
        /\ UNCHANGED <<turn, cause>>
    BY Zenon, <1>7, <2>1, CommittedForm
  <2>3. taskState[d[1]] # "Unspecified" /\ cause[d] <= revision[d[1]]
    BY <2>2, Parts DEF Active, TypeInv
  <2>4. s \in TaskStates /\ s \notin {"none", "in_progress"}
    BY Zenon, <2>1, <1>c
  <2> QED BY Zenon, <2>1, <2>2, <2>3, <2>4, <1>c, LedgerClosed
<1>8. ASSUME NEW d \in Dispatches, Begun(d) PROVE LedgerInv'
  BY Zenon, <1>8, <1>a DEF Begun, BeginExecute, ledger, taskVars, outboxVars, replyVars
<1>9. ASSUME NEW d \in Dispatches, NEW v \in Results, SealedAs(d, v) PROVE LedgerInv'
  BY Zenon, <1>9, <1>a DEF SealedAs, CompleteReceive, ledger, taskVars, outboxVars, replyVars
<1>10. ASSUME RecoverOrphanedTasks PROVE LedgerInv'
  <2>1. /\ \A d \in Dispatches : outbox'[d] = IF d \in Spent THEN "dead"
                                               ELSE IF d \in Abandoned THEN "pending" ELSE outbox[d]
        /\ \A t \in Tasks : taskState'[t] = IF \E d \in Spent : d[1] = t THEN "Failed" ELSE taskState[t]
        /\ \A t \in Tasks : revision'[t] = IF \E d \in Spent : d[1] = t THEN revision[t] + 1 ELSE revision[t]
        /\ \A d \in Dispatches : idem'[d] = IF d \in Spent THEN "Failed" ELSE idem[d]
        /\ UNCHANGED <<turn, cause>>
    BY Zenon, <1>10, RecoveryForm
  <2>2. \A d \in Spent : d \in Dispatches /\ outbox[d] = "leased" /\ d[2] = turn[d[1]] /\ Active(d[1]) /\ idem[d] = "in_progress"
    BY Zenon DEF Spent, Abandoned, LedgerInv, Ledger, Owed
  <2>3. \A d \in Abandoned : d \in Dispatches /\ outbox[d] = "leased"
    BY Zenon DEF Abandoned
  <2>4. \A t \in Tasks : turn'[t] = 0 <=> taskState'[t] = "Unspecified"
    BY <2>1, <2>2 DEF LedgerInv, Active
  <2>5. ASSUME NEW e \in Dispatches PROVE Ledger(e)'
    <3>0. Ledger(e) /\ e[1] \in Tasks
      BY Zenon, Parts DEF LedgerInv
    <3>1. outbox'[e] = "delivered" => cause[e] < revision'[e[1]]
      <4>1. cause[e] \in Nat /\ revision[e[1]] \in Nat /\ revision'[e[1]] \in {revision[e[1]], revision[e[1]] + 1}
        BY Zenon, <2>1, <3>0 DEF TypeInv
      <4>2. outbox'[e] = "delivered" => outbox[e] = "delivered"
        BY Zenon, <2>1
      <4> QED BY <3>0, <4>1, <4>2 DEF Ledger
    <3>2. CASE e \in Spent
      <4>1. outbox'[e] = "dead" /\ idem'[e] = "Failed" /\ taskState'[e[1]] = "Failed" /\ e[2] = turn[e[1]]
        BY Zenon, <2>1, <2>2, <3>0, <3>2
      <4>2. ~ (e[2] > turn[e[1]])
        BY <4>1, Parts
      <4> QED BY Zenon, <2>1, <4>1, <4>2 DEF Ledger, Owed, Active, Paused, PausedStates
    <3>3. CASE e \notin Spent /\ \E d \in Spent : d[1] = e[1]
      <4>1. taskState'[e[1]] = "Failed" /\ idem'[e] = idem[e]
        BY Zenon, <2>1, <3>0, <3>3
      <4>2. e[2] # turn[e[1]]
        BY <2>2, <3>3, SameLast
      <4>3. ~ Owed(e) /\ outbox'[e] = outbox[e]
        BY Zenon, <2>1, <2>3, <3>0, <3>3, <4>2 DEF Ledger, Owed
      <4> QED BY Zenon, <2>1, <3>0, <3>1, <4>1, <4>2, <4>3 DEF Ledger, Owed
    <3>4. CASE ~ \E d \in Spent : d[1] = e[1]
      <4>1. taskState'[e[1]] = taskState[e[1]] /\ idem'[e] = idem[e] /\ e \notin Spent
        BY Zenon, <2>1, <3>0, <3>4
      <4>2. (Owed(e)' <=> Owed(e)) /\ (outbox'[e] \in {"absent", "delivered"} => outbox'[e] = outbox[e])
            /\ (outbox[e] \in {"absent", "delivered"} => outbox'[e] = outbox[e])
        BY Zenon, <2>1, <2>3, <4>1 DEF Owed
      <4> QED BY Zenon, <2>1, <3>0, <3>1, <4>1, <4>2 DEF Ledger, Active, Paused
    <3> QED BY Zenon, <3>2, <3>3, <3>4
  <2> QED BY Zenon, <2>4, <2>5 DEF LedgerInv
<1> QED BY Zenon, <1>1, <1>2, <1>3, <1>4, <1>5, <1>6, <1>7, <1>8, <1>9, <1>10 DEF Effect

(* Every effect keeps the receiver row, its result and the intent in step, *)
(* and none takes back what a receiver has sealed.                         *)
LEMMA ReceiverStep ==
  ASSUME TypeInv, LedgerInv, ReceiverInv, Effect
  PROVE  /\ ReceiverInv'
         /\ \A d \in Dispatches : /\ recv[d] = "completed" => recv'[d] = "completed" /\ result'[d] = result[d]
                                  /\ epoch[d] <= epoch'[d]
<1> DEFINE Kept == \A d \in Dispatches : /\ recv[d] = "completed" => recv'[d] = "completed" /\ result'[d] = result[d]
                                         /\ epoch[d] <= epoch'[d]
<1>a. ASSUME UNCHANGED receipt PROVE ReceiverInv' /\ Kept
  BY <1>a DEF receipt, ReceiverInv, Receiver, TypeInv
<1>1. CASE Quiet
  BY Zenon, <1>1, <1>a DEF Quiet
<1>2. ASSUME NEW t \in Tasks, AdmitMessage(t) \/ AdmitContinuation(t) \/ CancelNow(t) PROVE ReceiverInv' /\ Kept
  BY Zenon, <1>2, <1>a DEF AdmitMessage, AdmitContinuation, CancelNow, NewDispatch, recvVars, receipt
<1>3. ASSUME NEW t \in Tasks, CancelRunning(t) PROVE ReceiverInv' /\ Kept
  <2>1. PICK d \in Dispatches : d = CancelTarget(t)
    BY Zenon, <1>3, TargetIs DEF CancelRunning
  <2>2. /\ recv[d] = "processing" /\ intent[d] = "none"
        /\ intent' = [intent EXCEPT ![d] = "requested"] /\ UNCHANGED <<recv, epoch, result>>
    BY Zenon, <1>3, <2>1 DEF CancelRunning
  <2>3. intent'[d] = "requested" /\ \A e \in Dispatches \ {d} : intent'[e] = intent[e]
    BY Zenon, <2>2 DEF TypeInv
  <2>4. Kept
    BY <2>2 DEF TypeInv
  <2> QED BY <2>2, <2>3, <2>4 DEF ReceiverInv, Receiver
<1>4. ASSUME NEW d \in Dispatches, Relabelled(d) \/ GivenUp(d) \/ Committed(d) PROVE ReceiverInv' /\ Kept
  BY Zenon, <1>4, <1>a DEF Relabelled, GivenUp, Committed, CommitDelivery, recvVars, receipt
<1>5. ASSUME NEW d \in Dispatches, Begun(d) PROVE ReceiverInv' /\ Kept
  <2>1. /\ recv[d] # "completed" /\ recv' = [recv EXCEPT ![d] = "processing"]
        /\ epoch' = [epoch EXCEPT ![d] = @ + 1] /\ UNCHANGED <<result, intent>>
    BY Zenon, <1>5 DEF Begun, BeginExecute
  <2>2. recv'[d] = "processing" /\ \A e \in Dispatches \ {d} : recv'[e] = recv[e]
    BY Zenon, <2>1 DEF TypeInv
  <2>3. \A e \in Dispatches : epoch[e] <= epoch'[e]
    BY <2>1 DEF TypeInv
  <2>4. ReceiverInv'
    BY Zenon, <2>1, <2>2 DEF ReceiverInv, Receiver
  <2>5. Kept
    BY Zenon, <2>1, <2>2, <2>3
  <2> QED BY Zenon, <2>4, <2>5
<1>6. ASSUME NEW d \in Dispatches, NEW v \in Results, SealedAs(d, v) PROVE ReceiverInv' /\ Kept
  <2>1. /\ recv[d] = "processing" /\ (intent[d] = "requested" <=> v = "canceled")
        /\ recv' = [recv EXCEPT ![d] = "completed"] /\ result' = [result EXCEPT ![d] = v]
        /\ intent' = [intent EXCEPT ![d] = IF v = "canceled" THEN "receiver_canceled" ELSE intent[d]]
        /\ UNCHANGED epoch
    BY Zenon, <1>6 DEF SealedAs, CompletionAgrees, CompleteReceive
  <2>2. recv'[d] = "completed" /\ result'[d] = v /\ intent'[d] = IF v = "canceled" THEN "receiver_canceled" ELSE intent[d]
    BY Zenon, <2>1 DEF TypeInv
  <2>3. \A e \in Dispatches \ {d} : recv'[e] = recv[e] /\ result'[e] = result[e] /\ intent'[e] = intent[e]
    BY Zenon, <2>1 DEF TypeInv
  <2>4. v # "none"
    BY Zenon DEF Results
  <2>5. Receiver(d)'
    BY Zenon, <2>1, <2>2, <2>4 DEF ReceiverInv, Receiver
  <2>6. \A e \in Dispatches \ {d} : Receiver(e)'
    BY <2>3 DEF ReceiverInv, Receiver
  <2>7. \A e \in Dispatches : epoch[e] <= epoch'[e]
    BY <2>1 DEF TypeInv
  <2> QED BY Zenon, <2>1, <2>3, <2>5, <2>6, <2>7 DEF ReceiverInv
<1>7. ASSUME RecoverOrphanedTasks PROVE ReceiverInv' /\ Kept
  BY Zenon, <1>7, <1>a DEF RecoverOrphanedTasks, receipt
<1> QED BY Zenon, <1>1, <1>2, <1>3, <1>4, <1>5, <1>6, <1>7 DEF Effect

=============================================================================
