---------------------------- MODULE DurableDriver ----------------------------
(***************************************************************************)
(* The outbox driver of each replica (outbox_driver.rs) and the dispatch   *)
(* coordinator it awaits (durable_dispatch.rs), over the durable authority *)
(* they share.  A replica handles one dispatch at a time, so its control   *)
(* is one label.  Between two store transactions anything may happen: the  *)
(* other replica steps, a client cancels, a lease runs out, or the replica *)
(* stops.  An error of any store call ends the driver ("down") until the   *)
(* process restarts.                                                       *)
(*                                                                         *)
(* A fence compares lease_until with a clock read before the transaction   *)
(* begins; `clock` records what the replica read.                          *)
(***************************************************************************)
EXTENDS StartupValidation

CONSTANTS
    Replicas,    \* one driver each; SQLite admits exactly one
    NoDispatch   \* not a dispatch

ASSUME DriverAssumption ==
    /\ NoDispatch \notin Dispatches
    /\ Replicas # {}

VARIABLES
    pc,       \* where the driver of a replica is
    held,     \* the dispatch it claimed
    heldGen,  \* OutboxLease.lease_token
    heldEpoch,   \* ReceiverLease.lease_epoch
    heldSender,  \* ReceiverLease.sender_lease_token
    value,    \* the runtime's proposal, then the transcript replayed to the driver
    clock,    \* the lease looked live on the clock read for the next call
    signal,   \* the receiver epoch that cancel_task is about to signal, or 0
    faults    \* stops, refusals and leases lost by their owner, so far

driverVars == <<pc, held, heldGen, heldEpoch, heldSender, value, clock>>
others == <<signal, faults, deployment>>
vars == <<storeVars, driverVars, others>>

Receiving == {"received", "running", "settling", "completing", "rechecking", "cancelling"}
Labels == {"idle", "claimed", "preparing", "receiving", "retrying", "rejecting",
           "replaying", "publishing", "committing", "down"} \cup Receiving

TypeOK ==
    /\ StoreTypeOK
    /\ pc \in [Replicas -> Labels]
    /\ held \in [Replicas -> Dispatches \cup {NoDispatch}]
    /\ heldGen \in [Replicas -> Nat]
    /\ heldEpoch \in [Replicas -> Nat]
    /\ heldSender \in [Replicas -> Nat]
    /\ value \in [Replicas -> Results \cup {"none", "stopped"}]
    /\ clock \in [Replicas -> BOOLEAN]
    /\ signal \in [Dispatches -> Nat]
    /\ faults \in 0 .. deployment.faults

(* An SQLite store has one process: the ownership lock refuses a second.   *)
Drivers == IF Sqlite THEN {CHOOSE r \in Replicas : TRUE} ELSE Replicas

Init ==
    /\ StoreInit
    /\ pc = [r \in Replicas |-> IF r \in Drivers THEN "idle" ELSE "down"]
    /\ held = [r \in Replicas |-> NoDispatch]
    /\ heldGen = [r \in Replicas |-> 0]
    /\ heldEpoch = [r \in Replicas |-> 0]
    /\ heldSender = [r \in Replicas |-> 0]
    /\ value = [r \in Replicas |-> "none"]
    /\ clock = [r \in Replicas |-> FALSE]
    /\ signal = [d \in Dispatches |-> 0]
    /\ faults = 0

Goto(r, label) == pc' = [pc EXCEPT ![r] = label]
ReadClock(r, live) == clock' = [clock EXCEPT ![r] = held[r] \in live]

(* The replica forgets its lease and waits for the next claim, or stops.   *)
Release(r, label) ==
    /\ Goto(r, label)
    /\ held' = [held EXCEPT ![r] = NoDispatch]
    /\ heldGen' = [heldGen EXCEPT ![r] = 0]
    /\ heldEpoch' = [heldEpoch EXCEPT ![r] = 0]
    /\ heldSender' = [heldSender EXCEPT ![r] = 0]
    /\ value' = [value EXCEPT ![r] = "none"]
    /\ clock' = [clock EXCEPT ![r] = FALSE]

(* The driver returns an error and is not started again by this process.   *)
DriverFails(r) == Release(r, "down") /\ UNCHANGED storeVars

Held == <<held, heldGen, heldEpoch, heldSender>>
ReceiverOf(r) == ReceiverFence(held[r], heldEpoch[r], heldSender[r], clock[r])

-----------------------------------------------------------------------------
(* The driver, up to the receiver.                                         *)

Claim(r) ==
    /\ pc[r] = "idle"
    /\ \E d \in Dispatches :
         \/ /\ ClaimLease(d)
            /\ Goto(r, "claimed")
            /\ held' = [held EXCEPT ![r] = d]
            /\ heldGen' = [heldGen EXCEPT ![r] = senderGen[d] + 1]
            /\ UNCHANGED <<heldEpoch, heldSender, value, clock>>
         \/ ClaimDead(d) /\ UNCHANGED driverVars
    /\ UNCHANGED others

(* task_for_outbox and append_stream_progress; PostgreSQL finds no task    *)
(* for a token that is no longer current, and then appends nothing.        *)
Progress(r) ==
    /\ pc[r] = "claimed"
    /\ \/ AppendStreamProgress(held[r])
       \/ /\ Postgres
          /\ ~ SenderFence(held[r], heldGen[r], TRUE)
          /\ UNCHANGED storeVars
    /\ Goto(r, "preparing")
    /\ UNCHANGED <<Held, value, clock, others>>

FinishAttempt(r) ==
    LET d == held[r]
        verdict == IF pc[r] = "rejecting" THEN "permanent" ELSE "retry"
        fenced == FinishFence(d, heldGen[r], clock[r])
        refused == /\ Exhausted(d, verdict) /\ recv[d] # "absent"
                   /\ ReconcileRefused(d, heldGen[r])
    IN /\ pc[r] \in {"retrying", "rejecting"}
       /\ \/ /\ fenced /\ ~ refused
             /\ FinishOutboxAttempt(d, verdict)
             /\ Release(r, "idle")
          \/ /\ fenced /\ refused
             /\ DriverFails(r)
          \/ /\ ~ fenced
             /\ Release(r, "idle") /\ UNCHANGED storeVars
       /\ UNCHANGED others

(* The adapter is ready; AdapterRefuses below is the other answer.         *)
Prepare(r) ==
    /\ pc[r] = "preparing"
    /\ Goto(r, "receiving") /\ ReadClock(r, recvLive)
    /\ UNCHANGED <<storeVars, Held, value, others>>

BeginReceive(r) ==
    LET d == held[r]
    IN /\ pc[r] = "receiving"
       /\ \/ /\ outbox[d] # "leased"
             /\ DriverFails(r)
          \/ /\ outbox[d] = "leased" /\ recv[d] = "completed"
             /\ Goto(r, "publishing")
             /\ value' = [value EXCEPT ![r] = result[d]]
             /\ UNCHANGED <<storeVars, Held, clock>>
          \/ /\ outbox[d] = "leased" /\ recv[d] = "processing"
             /\ d \in recvLive \/ clock[r]
             /\ Goto(r, "retrying") /\ ReadClock(r, senderLive)
             /\ UNCHANGED <<storeVars, Held, value>>
          \/ /\ outbox[d] = "leased"
             /\ recv[d] = "processing" => d \notin recvLive /\ ~ clock[r]
             /\ BeginExecute(d)
             /\ Goto(r, "received")
             /\ heldEpoch' = [heldEpoch EXCEPT ![r] = epoch[d] + 1]
             /\ heldSender' = [heldSender EXCEPT ![r] = senderGen[d]]
             /\ UNCHANGED <<held, heldGen, value, clock>>
       /\ UNCHANGED others

-----------------------------------------------------------------------------
(* The receiver: run_received and run_admitted of durable_dispatch.rs.     *)

(* The authority context is loaded, then cancellation is checked a first   *)
(* time.  The loopback mode goes on without a context.                     *)
EnterRuntime(r) ==
    /\ pc[r] = "received"
    /\ \/ /\ deployment.mode # "loopback"
          /\ ~ ContextAvailable(held[r], heldGen[r], heldEpoch[r], heldSender[r])
          /\ DriverFails(r)
       \/ /\ \/ deployment.mode = "loopback"
             \/ ContextAvailable(held[r], heldGen[r], heldEpoch[r], heldSender[r])
          /\ Goto(r, IF intent[held[r]] = "requested" THEN "cancelling" ELSE "running")
          /\ ReadClock(r, recvLive)
          /\ UNCHANGED <<storeVars, Held, value>>
    /\ UNCHANGED others

(* terminal_is_authoritative: the Runtime mode has no authority to decide  *)
(* a terminal outcome.                                                     *)
Authoritative == deployment.mode # "runtime"

Fault == faults < deployment.faults /\ faults' = faults + 1 /\ UNCHANGED <<signal, deployment>>

(* The runtime ends with a terminal outcome, or confirms that it stopped,  *)
(* which it only does after a cancellation of this dispatch.  A terminal   *)
(* outcome without authority counts as a fault: the dispatch is taken over *)
(* and run again, without end.                                             *)
RuntimeEnds(r) ==
    /\ pc[r] = "running"
    /\ \E v \in (Results \ {"canceled"}) \cup {"stopped"} :
         /\ v = "stopped" => intent[held[r]] = "requested"
         /\ value' = [value EXCEPT ![r] = v]
         /\ IF Authoritative \/ v = "stopped" THEN UNCHANGED others ELSE Fault
    /\ Goto(r, "settling")
    /\ UNCHANGED <<storeVars, Held, clock>>

(* A terminal outcome without authority is left unresolved, whatever the   *)
(* client asked.  Otherwise cancellation is checked a second time; the     *)
(* clock for the settlement is read next.                                  *)
Settled(r) == Authoritative \/ value[r] = "stopped"
Settle(r) ==
    /\ pc[r] = "settling"
    /\ \/ /\ ~ Settled(r)
          /\ DriverFails(r)
       \/ /\ Settled(r) /\ intent[held[r]] = "requested"
          /\ Goto(r, "cancelling") /\ ReadClock(r, recvLive)
          /\ UNCHANGED <<storeVars, Held, value>>
       \/ /\ Settled(r) /\ intent[held[r]] # "requested" /\ value[r] # "stopped"
          /\ Goto(r, "completing") /\ ReadClock(r, recvLive)
          /\ UNCHANGED <<storeVars, Held, value>>
       \/ /\ intent[held[r]] # "requested" /\ value[r] = "stopped"
          /\ DriverFails(r)
    /\ UNCHANGED others

(* The outcome is sealed, unless the fence or a cancellation refuses it.   *)
Complete(r) ==
    /\ pc[r] = "completing"
    /\ \/ /\ ReceiverOf(r) /\ CompletionAgrees(held[r], value[r])
          /\ CompleteReceive(held[r], value[r])
          /\ Goto(r, "replaying")
       \/ /\ ~ (ReceiverOf(r) /\ CompletionAgrees(held[r], value[r]))
          /\ Goto(r, "rechecking") /\ UNCHANGED storeVars
    /\ UNCHANGED <<Held, value, clock, others>>

(* Cancellation is checked a third time when the settlement was refused.   *)
Recheck(r) ==
    /\ pc[r] = "rechecking"
    /\ \/ /\ intent[held[r]] = "requested"
          /\ Goto(r, "cancelling") /\ ReadClock(r, recvLive)
          /\ UNCHANGED <<storeVars, Held, value>>
       \/ /\ intent[held[r]] # "requested"
          /\ DriverFails(r)
    /\ UNCHANGED others

CompleteCanceled(r) ==
    /\ pc[r] = "cancelling"
    /\ \/ /\ ReceiverOf(r) /\ CompletionAgrees(held[r], "canceled")
          /\ CompleteReceive(held[r], "canceled")
          /\ Goto(r, "replaying")
          /\ UNCHANGED <<Held, value, clock>>
       \/ /\ ~ (ReceiverOf(r) /\ CompletionAgrees(held[r], "canceled"))
          /\ DriverFails(r)
    /\ UNCHANGED others

(* authoritative_replay: what was sealed is read back, never assumed.      *)
Replay(r) ==
    LET d == held[r]
    IN /\ pc[r] = "replaying"
       /\ \/ /\ outbox[d] = "leased" /\ recv[d] = "completed"
             /\ value' = [value EXCEPT ![r] = result[d]]
             /\ Goto(r, "publishing")
             /\ UNCHANGED <<storeVars, Held, clock>>
          \/ /\ ~ (outbox[d] = "leased" /\ recv[d] = "completed")
             /\ DriverFails(r)
       /\ UNCHANGED others

-----------------------------------------------------------------------------
(* The driver, after the receiver.                                         *)

(* task_for_outbox; PostgreSQL finds no task under a token that another    *)
(* claim replaced, and the driver fails.                                   *)
LoadTask(r) ==
    /\ pc[r] = "publishing"
    /\ \/ /\ Postgres => SenderFence(held[r], heldGen[r], TRUE)
          /\ Goto(r, "committing") /\ ReadClock(r, senderLive)
          /\ UNCHANGED <<storeVars, Held, value>>
       \/ /\ Postgres /\ ~ SenderFence(held[r], heldGen[r], TRUE)
          /\ DriverFails(r)
    /\ UNCHANGED others

(* commit_delivery; a stale commit changes nothing and the driver goes on  *)
(* to the next claim.                                                      *)
Commit(r) ==
    LET d == held[r]
    IN /\ pc[r] = "committing"
       /\ \/ /\ CommitFence(d, heldGen[r], clock[r])
             /\ CommitDelivery(d, value[r])
          \/ /\ ~ CommitFence(d, heldGen[r], clock[r])
             /\ UNCHANGED storeVars
       /\ Release(r, "idle")
       /\ UNCHANGED others

-----------------------------------------------------------------------------
(* What goes wrong, at most deployment.faults times.                       *)

(* The last PostgreSQL renewal committed, but the driver stopped waiting   *)
(* for it: its lease_until is not the stored one, so the commit is stale.  *)
RenewalAnswerLost(r) ==
    /\ Fault
    /\ Postgres /\ pc[r] = "committing"
    /\ Release(r, "idle")
    /\ UNCHANGED storeVars

(* The adapter asks for a retry (or times out), or rejects the dispatch.   *)
AdapterRefuses(r) ==
    /\ Fault
    /\ pc[r] = "preparing"
    /\ Goto(r, "retrying") \/ Goto(r, "rejecting")
    /\ ReadClock(r, senderLive)
    /\ UNCHANGED <<storeVars, Held, value>>

(* A crash, a shutdown, a panic, a timeout, a store error or a runtime     *)
(* failure.  Stopping after a transaction covers the lost answer.  The     *)
(* shutdown that interrupts a preparation requeues the dispatch first: it  *)
(* is a refused preparation (AdapterRefuses, FinishAttempt) and a stop.    *)
Stop(r) ==
    /\ Fault
    /\ pc[r] # "down"
    /\ DriverFails(r)

(* The store is validated before it serves; then SQLite recovers, while    *)
(* PostgreSQL relies on lease expiry.                                      *)
Restart(r) ==
    /\ pc[r] = "down" /\ r \in Drivers
    /\ StoreReadable
    /\ Goto(r, "idle")
    /\ IF Sqlite THEN RecoverOrphanedTasks ELSE UNCHANGED storeVars
    /\ UNCHANGED <<Held, value, clock, others>>

SenderOwned(d) == \E r \in Replicas : held[r] = d /\ heldGen[r] = senderGen[d]
ReceiverOwned(d) ==
    \E r \in Replicas : held[r] = d /\ heldEpoch[r] = epoch[d] /\ pc[r] \in Receiving

(* A lease runs out when nobody renews it, or although its owner runs:     *)
(* SQLite has no renewal, and a PostgreSQL renewal may come too late.      *)
ExpireSender(d) ==
    /\ d \in senderLive
    /\ IF SenderOwned(d) THEN Fault ELSE UNCHANGED others
    /\ senderLive' = senderLive \ {d}
    /\ UNCHANGED <<taskVars, outbox, attempts, log, cause, senderGen, recvVars,
                   replyVars, driverVars>>

ExpireReceiver(d) ==
    /\ d \in recvLive
    /\ IF ReceiverOwned(d) THEN Fault ELSE UNCHANGED others
    /\ recvLive' = recvLive \ {d}
    /\ UNCHANGED <<taskVars, outboxVars, replyVars, recv, epoch, recvSender,
                   recvAttempt, result, intent, driverVars>>

-----------------------------------------------------------------------------

(* The handlers.  ensure_driver_healthy is read before the transaction, so *)
(* a message may be admitted after every driver has failed.                *)
SendMessage(t) ==
    /\ AdmitMessage(t) \/ AdmitContinuation(t)
    /\ UNCHANGED <<driverVars, others>>

(* cancel_task records the intent and then signals the running receiver.   *)
CancelTask(t) ==
    /\ \/ CancelNow(t) /\ UNCHANGED signal
       \/ /\ CancelRunning(t)
          /\ signal' = [signal EXCEPT ![CancelTarget(t)] = epoch[CancelTarget(t)]]
    /\ UNCHANGED <<driverVars, faults, deployment>>

(* signal_cancel reaches the coordinator of its own process only.  Before  *)
(* the runtime has admitted the work, and while a TextConcordance outcome  *)
(* is authorized, a signalled coordinator returns PostReceiveUnresolved;   *)
(* later the runtime is asked to stop, which RuntimeEnds covers.           *)
Interruptible(r) ==
    \/ pc[r] \in {"received", "running"}
    \/ deployment.mode = "concordance" /\ pc[r] = "settling"
SignalCancel(d) ==
    /\ signal[d] > 0
    /\ signal' = [signal EXCEPT ![d] = 0]
    /\ \/ UNCHANGED <<storeVars, driverVars>>
       \/ \E r \in Replicas :
            /\ held[r] = d /\ heldEpoch[r] = signal[d] /\ Interruptible(r)
            /\ DriverFails(r)
    /\ UNCHANGED <<faults, deployment>>

DriverStep(r) ==
    \/ Claim(r)
    \/ Progress(r)
    \/ Prepare(r)
    \/ FinishAttempt(r)
    \/ BeginReceive(r)
    \/ EnterRuntime(r)
    \/ RuntimeEnds(r)
    \/ Settle(r)
    \/ Complete(r)
    \/ Recheck(r)
    \/ CompleteCanceled(r)
    \/ Replay(r)
    \/ LoadTask(r)
    \/ Commit(r)

Next ==
    \/ \E t \in Tasks : SendMessage(t) \/ CancelTask(t)
    \/ \E r \in Replicas : \/ DriverStep(r) \/ Restart(r)
                            \/ RenewalAnswerLost(r) \/ AdapterRefuses(r) \/ Stop(r)
    \/ \E d \in Dispatches : SignalCancel(d) \/ ExpireSender(d) \/ ExpireReceiver(d)

Spec == Init /\ [][Next]_vars

(* The driver loop takes its next step as long as it runs, and a lease     *)
(* that nobody renews runs out.                                            *)
Scheduling ==
    /\ \A r \in Replicas : WF_vars(DriverStep(r))
    /\ WF_vars(\E d \in Dispatches : ~ SenderOwned(d) /\ ExpireSender(d))
    /\ WF_vars(\E d \in Dispatches : ~ ReceiverOwned(d) /\ ExpireReceiver(d))

(* A failed driver is restarted by the operator (OBSERVABILITY_RUNBOOK.md, *)
(* item 5), never by the process itself.                                   *)
Operator == \A r \in Replicas : WF_vars(Restart(r))

FairSpec == Spec /\ Scheduling /\ Operator

-----------------------------------------------------------------------------
(* Properties.                                                             *)

(* A recorded cancellation intent decides the dispatch: the receiver still *)
(* holds it, and what it seals is the cancellation and nothing else, in    *)
(* spite of the three unlocked cancellation checks of run_admitted.        *)
IntentDecides ==
    \A d \in Dispatches :
        /\ intent[d] = "requested" => recv[d] = "processing"
        /\ intent[d] = "receiver_canceled" <=> result[d] = "canceled"

(* At most one replica can still settle a dispatch: of two replicas that   *)
(* run it, the receiver fence admits one.                                  *)
OneSettler ==
    \A r, q \in Replicas :
        /\ r # q /\ held[r] = held[q]
        /\ pc[r] \in Receiving /\ pc[q] \in Receiving
        => ~ (/\ ReceiverFence(held[r], heldEpoch[r], heldSender[r], TRUE)
              /\ ReceiverFence(held[q], heldEpoch[q], heldSender[q], TRUE))

(* The durable path implements the contract: the answer of a message is    *)
(* its idempotency record, a sealed outcome is a completed receiver row.   *)
Contract == INSTANCE DispatchContract WITH
    state <- taskState,
    answer <- idem,
    accepted <- {d \in Dispatches : recv[d] # "absent"},
    sealed <- [d \in Dispatches |-> IF result[d] = "none" THEN "none" ELSE StateOf(result[d])]
ImplementsContract == Contract!Spec

(* A message that a runtime without authority has accepted and nobody has  *)
(* canceled stays unresolved ("production runtime proposals remain         *)
(* unresolved", ADR-0003).                                                 *)
LeftUnresolved(d) == ~ Authoritative /\ recv[d] = "processing" /\ intent[d] = "none"

(* Every admitted message is answered in the end, by its outcome, by a     *)
(* cancellation or by a dead letter: the gateway comes again and again to  *)
(* a point where no message waits but those the Runtime mode leaves        *)
(* unresolved, as long as a stopped gateway can open its store again.      *)
EveryMessageAnswered ==
    []<>(\/ \A d \in Dispatches : idem[d] = "in_progress" => LeftUnresolved(d)
         \/ ~ StoreReadable /\ \A r \in Replicas : pc[r] = "down")

(* Whatever the gateway was doing when it stopped, the validators of the   *)
(* next start find its tasks, dispatches, attempts, receiver rows and      *)
(* transcripts in order (cancellation intents are CancellationsReopen).    *)
RecordsReopen == \A d \in Dispatches : outbox[d] # "absent" => RecordsValid(d)

(* "the production loopback path uses SQLite-backed durable admission,     *)
(* replay, subscriptions, cancellation, and restart recovery" (DEVTO       *)
(* article): a stopped gateway finds its cancellation intents in order.    *)
CancellationsReopen ==
    (\A r \in Drivers : pc[r] = "down") => \A d \in Dispatches : CancellationValid(d)

=============================================================================
