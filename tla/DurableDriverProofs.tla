------------------------ MODULE DurableDriverProofs -------------------------
(***************************************************************************)
(* The drivers of the durable path: each step moves at most one of them,   *)
(* to a label whose invariant holds, and a receiver epoch is never held    *)
(* twice. So a recorded cancellation intent decides its dispatch, and at   *)
(* most one replica can settle a dispatch.                                 *)
(***************************************************************************)
EXTENDS DurableLedgerProofs

(* What a step does to the drivers: it moves one of them or none.          *)
DriverTyped ==
    /\ pc \in [Replicas -> Labels]
    /\ held \in [Replicas -> Dispatches \cup {NoDispatch}]
    /\ heldGen \in [Replicas -> Nat]
    /\ heldEpoch \in [Replicas -> Nat]
    /\ value \in [Replicas -> Results \cup {"none", "stopped"}]
    /\ clock \in [Replicas -> BOOLEAN]
SenderTyped ==
    /\ deployment \in Deployments
    /\ attempts \in [Dispatches -> Nat]
    /\ senderGen \in [Dispatches -> Nat]
    /\ senderLive \subseteq Dispatches

Same(q) ==
    /\ pc'[q] = pc[q] /\ held'[q] = held[q] /\ heldGen'[q] = heldGen[q]
    /\ heldEpoch'[q] = heldEpoch[q] /\ value'[q] = value[q] /\ clock'[q] = clock[q]

(* A driver that enters or stays in the receiver keeps its epoch, unless   *)
(* begin_receive has just minted one.                                      *)
Fenced(r) ==
    pc'[r] \in Receiving =>
        /\ held'[r] = held[r]
        /\ \/ pc[r] \in Receiving /\ heldEpoch'[r] = heldEpoch[r]
           \/ heldEpoch'[r] = epoch[held[r]] + 1
Moved(r) == (\A q \in Replicas \ {r} : Same(q)) /\ Driver(r)' /\ Fenced(r)

(* A driver that forgets its lease is idle or down, and holds nothing.     *)
LEMMA Released ==
  ASSUME TypeInv, NEW r \in Replicas, NEW l \in {"idle", "down"}, Release(r, l)
  PROVE  DriverTyped' /\ Moved(r) /\ pc'[r] = l /\ held'[r] = NoDispatch
<1>1. DriverTyped'
  BY Zenon DEF Release, Goto, TypeInv, DriverTyped, Labels
<1>2. \A q \in Replicas \ {r} : Same(q)
  BY DEF Release, Goto, TypeInv, Same
<1>3. pc'[r] = l /\ held'[r] = NoDispatch
  BY Zenon DEF Release, Goto, TypeInv
<1>4. Driver(r)' /\ Fenced(r)
  BY Zenon, <1>3 DEF Driver, Fenced, Receiving
<1> QED BY Zenon, <1>1, <1>2, <1>3, <1>4 DEF Moved

(* A driver that reads a clock, or none, moves no other clock.             *)
ClockRead(r) == \E c \in BOOLEAN : clock' = [clock EXCEPT ![r] = c]
ValueKept(r) == value' = [value EXCEPT ![r] = value[r]]
LEMMA Reading ==
  ASSUME TypeInv, NEW r \in Replicas
  PROVE  /\ ReadClock(r, recvLive) \/ ReadClock(r, senderLive) \/ clock' = clock => ClockRead(r)
         /\ value' = value => ValueKept(r)
         /\ value[r] \in Results \cup {"none", "stopped"}
<1>1. ASSUME NEW S, ReadClock(r, S) PROVE ClockRead(r)
  <2>1. clock' = [clock EXCEPT ![r] = held[r] \in S]
    BY Zenon, <1>1 DEF ReadClock
  <2>2. (held[r] \in S) \in BOOLEAN
    OBVIOUS
  <2> QED BY <2>1, <2>2, Zenon DEF ClockRead
<1>2. ASSUME clock' = clock PROVE ClockRead(r)
  <2>1. clock[r] \in BOOLEAN /\ clock \in [Replicas -> BOOLEAN]
    BY Zenon DEF TypeInv
  <2>2. clock = [clock EXCEPT ![r] = clock[r]]
    BY Zenon, <2>1
  <2> QED BY <1>2, <2>1, <2>2, Zenon DEF ClockRead
<1> QED BY Zenon, <1>1, <1>2 DEF TypeInv, ValueKept

(* A step that moves a driver from one label to another and reads a clock  *)
(* or a value, but keeps what is held.                                     *)
LEMMA Stepped ==
  ASSUME TypeInv, NEW r \in Replicas, NEW l \in Labels, NEW v \in Results \cup {"none", "stopped"},
         Goto(r, l), value' = [value EXCEPT ![r] = v], ClockRead(r),
         UNCHANGED <<held, heldGen, heldEpoch>>
  PROVE  /\ DriverTyped' /\ \A q \in Replicas \ {r} : Same(q)
         /\ pc'[r] = l /\ value'[r] = v /\ held'[r] = held[r] /\ heldEpoch'[r] = heldEpoch[r]
<1>1. PICK c \in BOOLEAN : clock' = [clock EXCEPT ![r] = c]
  BY Zenon DEF ClockRead
<1>2. clock' \in [Replicas -> BOOLEAN] /\ \A q \in Replicas \ {r} : clock'[q] = clock[q]
  BY Zenon, <1>1 DEF TypeInv
<1>3. DriverTyped'
  BY Zenon, <1>2 DEF TypeInv, DriverTyped, Goto
<1>4. \A q \in Replicas \ {r} : Same(q)
  BY Zenon, <1>2 DEF TypeInv, Goto, Same
<1>5. pc'[r] = l /\ value'[r] = v
  BY Zenon DEF TypeInv, Goto
<1> QED BY Zenon, <1>3, <1>4, <1>5

(* A gateway does not change its backend while it runs.                    *)
LEMMA DeploymentKept == ASSUME [Next]_vars PROVE UNCHANGED deployment
<1> USE DEF others
<1>1. ASSUME NEW t \in Tasks, SendMessage(t) \/ CancelTask(t) PROVE UNCHANGED deployment
  BY Zenon, <1>1 DEF SendMessage, CancelTask
<1>2. ASSUME NEW r \in Replicas, Claim(r) \/ Progress(r) \/ Prepare(r) \/ FinishAttempt(r) \/ BeginReceive(r) \/ EnterRuntime(r)
      PROVE  UNCHANGED deployment
  BY Zenon, <1>2 DEF Claim, Progress, Prepare, FinishAttempt, BeginReceive, EnterRuntime
<1>3. ASSUME NEW r \in Replicas, RuntimeEnds(r) \/ Settle(r) PROVE UNCHANGED deployment
  BY Zenon, <1>3 DEF RuntimeEnds, Settle, Fault, others
<1>3a. ASSUME NEW r \in Replicas, Complete(r) \/ Recheck(r) \/ CompleteCanceled(r) PROVE UNCHANGED deployment
  BY Zenon, <1>3a DEF Complete, Recheck, CompleteCanceled
<1>4. ASSUME NEW r \in Replicas, Replay(r) \/ LoadTask(r) \/ Commit(r) PROVE UNCHANGED deployment
  BY Zenon, <1>4 DEF Replay, LoadTask, Commit
<1>5. ASSUME NEW r \in Replicas, Restart(r) \/ RenewalAnswerLost(r) \/ AdapterRefuses(r) \/ Stop(r) PROVE UNCHANGED deployment
  BY Zenon, <1>5 DEF Restart, Fault, RenewalAnswerLost, AdapterRefuses, Stop
<1>6. ASSUME NEW d \in Dispatches, SignalCancel(d) \/ ExpireSender(d) \/ ExpireReceiver(d) PROVE UNCHANGED deployment
  BY Zenon, <1>6 DEF SignalCancel, ExpireSender, ExpireReceiver, Fault
<1>7. CASE UNCHANGED vars
  BY Zenon, <1>7 DEF vars
<1> QED BY Zenon, <1>1, <1>2, <1>3, <1>3a, <1>4, <1>5, <1>6, <1>7 DEF Next, DriverStep

(* The columns of the sender leases keep their types.                      *)
LEMMA SenderKept == ASSUME TypeInv, [Next]_vars PROVE SenderTyped'
<1>0. SenderTyped
  BY Zenon DEF TypeInv, SenderTyped
<1> USE DEF SenderTyped
<1>a. UNCHANGED deployment
  BY Zenon, DeploymentKept
<1>b. ASSUME NEW d \in Dispatches, AddAttempt(d) \/ KeepAttempt(d) PROVE attempts' \in [Dispatches -> Nat]
  BY <1>b, <1>0 DEF AddAttempt, KeepAttempt
<1>c. ASSUME UNCHANGED outboxVars PROVE SenderTyped'
  BY Zenon, <1>c, <1>0, <1>a DEF outboxVars
<1>1. ASSUME NEW r \in Replicas, Claim(r) PROVE SenderTyped'
  <2>1. PICK d \in Dispatches : ClaimLease(d) \/ ClaimDead(d)
    BY Zenon, <1>1 DEF Claim
  <2>2. CASE ClaimLease(d)
    <3>1. attempts' \in [Dispatches -> Nat]
      BY Zenon, <2>2, <1>b DEF ClaimLease, SqliteClaim
    <3> QED BY <2>2, <3>1, <1>0, <1>a DEF ClaimLease, MintSender
  <2>3. CASE ClaimDead(d)
    BY Zenon, <2>3, <1>0, <1>a DEF ClaimDead
  <2> QED BY Zenon, <2>1, <2>2, <2>3
<1>2. ASSUME NEW r \in Replicas, FinishAttempt(r) PROVE SenderTyped'
  BY <1>2, <1>0, <1>a, <1>c DEF FinishAttempt, FinishOutboxAttempt, Reconcile, Bury, RetryLater, KeepAttempt, DriverFails, storeVars
<1>3. ASSUME NEW r \in Replicas, BeginReceive(r) \/ Complete(r) \/ CompleteCanceled(r) PROVE SenderTyped'
  BY Zenon, <1>3, <1>c DEF BeginReceive, Complete, CompleteCanceled, BeginExecute, CompleteReceive, DriverFails, storeVars
<1>4. ASSUME NEW r \in Replicas, Commit(r) PROVE SenderTyped'
  BY Zenon, <1>4, <1>0, <1>a, <1>c DEF Commit, CommitDelivery, storeVars
<1>5. ASSUME NEW r \in Replicas,
             \/ Progress(r) \/ Prepare(r) \/ EnterRuntime(r) \/ RuntimeEnds(r) \/ Settle(r) \/ Recheck(r)
             \/ Replay(r) \/ LoadTask(r) \/ RenewalAnswerLost(r) \/ AdapterRefuses(r) \/ Stop(r)
      PROVE  SenderTyped'
  <2>1. UNCHANGED outboxVars
    BY Zenon, <1>5 DEF Progress, Prepare, EnterRuntime, RuntimeEnds, Settle, Recheck, Replay, LoadTask,
                RenewalAnswerLost, AdapterRefuses, Stop, DriverFails, AppendStreamProgress, storeVars
  <2> QED BY Zenon, <2>1, <1>c
<1>6. ASSUME NEW r \in Replicas, Restart(r) PROVE SenderTyped'
  BY Zenon, <1>6, <1>0, <1>a, <1>c DEF Restart, RecoverOrphanedTasks, storeVars
<1>7. ASSUME NEW t \in Tasks, SendMessage(t) \/ CancelTask(t) PROVE SenderTyped'
  BY Zenon, <1>7, <1>0, <1>a, <1>c DEF SendMessage, CancelTask, AdmitMessage, AdmitContinuation, NewDispatch, CancelNow, CancelRunning
<1>8. ASSUME NEW d \in Dispatches, SignalCancel(d) \/ ExpireSender(d) \/ ExpireReceiver(d) PROVE SenderTyped'
  BY Zenon, <1>8, <1>0, <1>a, <1>c DEF SignalCancel, ExpireSender, ExpireReceiver, DriverFails, storeVars
<1>9. CASE UNCHANGED vars
  BY Zenon, <1>9, <1>c DEF vars, storeVars
<1> QED BY Zenon, <1>1, <1>2, <1>3, <1>4, <1>5, <1>6, <1>7, <1>8, <1>9 DEF Next, DriverStep

(* Each step moves at most one driver, to a label whose invariant holds.   *)
LEMMA DriverMoves ==
  ASSUME TypeInv, LedgerInv, ReceiverInv, DriverInv, [Next]_vars
  PROVE  DriverTyped' /\ (UNCHANGED driverVars \/ \E r \in Replicas : Moved(r))
<1> DEFINE Goal == DriverTyped' /\ (UNCHANGED driverVars \/ \E r \in Replicas : Moved(r))
<1>a. \A d \in Dispatches : epoch[d] <= epoch'[d]
  BY Zenon, Effects, ReceiverStep
<1>b. ASSUME UNCHANGED driverVars PROVE Goal
  BY Zenon, <1>b DEF driverVars, DriverTyped, TypeInv
<1>c. ASSUME NEW r \in Replicas, Release(r, "idle") \/ DriverFails(r) PROVE Goal
  BY Zenon, <1>c, Released DEF DriverFails
<1> HIDE DEF Goal
<1>1. ASSUME NEW r \in Replicas, Claim(r) PROVE Goal
  <2>1. CASE UNCHANGED driverVars
    BY Zenon, <2>1, <1>b
  <2>2. ASSUME NEW d \in Dispatches, Goto(r, "claimed"), held' = [held EXCEPT ![r] = d],
               heldGen' = [heldGen EXCEPT ![r] = senderGen[d] + 1],
               UNCHANGED <<heldEpoch, heldSender, value, clock>>
        PROVE  Goal
    <3>1. DriverTyped'
      <4>1. senderGen[d] + 1 \in Nat
        BY DEF TypeInv
      <4>2. heldGen' \in [Replicas -> Nat]
        BY Zenon, <2>2, <4>1 DEF TypeInv
      <4> QED BY Zenon, <2>2, <4>2 DEF Goto, TypeInv, DriverTyped, Labels
    <3>2. \A q \in Replicas \ {r} : Same(q)
      BY Zenon, <2>2 DEF Goto, TypeInv, Same
    <3>3. pc'[r] = "claimed" /\ held'[r] = d
      BY Zenon, <2>2 DEF Goto, TypeInv
    <3> QED BY Zenon, <3>1, <3>2, <3>3 DEF Driver, Fenced, Moved, Receiving, Goal
  <2> QED BY Zenon, <1>1, <2>1, <2>2 DEF Claim
<1>2. ASSUME NEW r \in Replicas, FinishAttempt(r) \/ Commit(r) \/ RenewalAnswerLost(r) \/ Stop(r) PROVE Goal
  BY Zenon, <1>2, <1>c DEF FinishAttempt, Commit, RenewalAnswerLost, Stop
<1>3. ASSUME NEW r \in Replicas, Progress(r) \/ Prepare(r) \/ AdapterRefuses(r) PROVE Goal
  <2>1. pc[r] \in {"claimed", "preparing"} /\ held[r] \in Dispatches
    BY Zenon, <1>3 DEF Progress, Prepare, AdapterRefuses, DriverInv, Driver
  <2>2. PICK l \in {"preparing", "receiving", "retrying", "rejecting"} :
          Goto(r, l) /\ ClockRead(r) /\ ValueKept(r) /\ UNCHANGED <<held, heldGen, heldEpoch>>
    BY Zenon, <1>3, Reading DEF Progress, Prepare, AdapterRefuses, Held
  <2>3. l \in Labels
    BY Zenon DEF Labels
  <2>4. DriverTyped' /\ (\A q \in Replicas \ {r} : Same(q)) /\ pc'[r] = l /\ held'[r] = held[r]
    BY Zenon, <2>2, <2>3, Reading, Stepped DEF ValueKept
  <2> QED BY Zenon, <2>1, <2>4 DEF Driver, Fenced, Moved, Receiving, Goal
<1>4. ASSUME NEW r \in Replicas, BeginReceive(r) PROVE Goal
  <2>0. pc[r] = "receiving" /\ held[r] \in Dispatches
    BY Zenon, <1>4 DEF BeginReceive, DriverInv, Driver
  <2>1. CASE DriverFails(r)
    BY Zenon, <2>1, <1>c
  <2>2. ASSUME recv[held[r]] = "completed", Goto(r, "publishing"), value' = [value EXCEPT ![r] = result[held[r]]],
               UNCHANGED <<storeVars, Held, clock>>
        PROVE  Goal
    <3>1. result[held[r]] \in Results \cup {"none", "stopped"} /\ "publishing" \in Labels
      BY Zenon, <2>0 DEF TypeInv, Labels
    <3>2. /\ DriverTyped' /\ \A q \in Replicas \ {r} : Same(q)
          /\ pc'[r] = "publishing" /\ value'[r] = result[held[r]] /\ held'[r] = held[r]
      <4>1. PICK v \in Results \cup {"none", "stopped"} : v = result[held[r]]
        BY Zenon, <3>1
      <4>2. ClockRead(r) /\ value' = [value EXCEPT ![r] = v] /\ UNCHANGED <<held, heldGen, heldEpoch>>
        BY Zenon, <2>2, <4>1, Reading DEF Held
      <4>3. Goto(r, "publishing")
        BY Zenon, <2>2
      <4>4. /\ DriverTyped' /\ \A q \in Replicas \ {r} : Same(q)
            /\ pc'[r] = "publishing" /\ value'[r] = v /\ held'[r] = held[r]
        BY ONLY Zenon, TypeInv, r \in Replicas, <3>1, <4>2, <4>3, v \in Results \cup {"none", "stopped"}, Stepped
      <4> QED BY Zenon, <4>1, <4>4
    <3>3. recv' = recv /\ result' = result
      BY Zenon, <2>2 DEF storeVars, recvVars
    <3> QED BY Zenon, <2>0, <2>2, <3>2, <3>3 DEF Driver, Fenced, Moved, Receiving, Goal
  <2>3. ASSUME Goto(r, "retrying"), ReadClock(r, senderLive), UNCHANGED <<storeVars, Held, value>> PROVE Goal
    <3>1. /\ DriverTyped' /\ \A q \in Replicas \ {r} : Same(q)
          /\ pc'[r] = "retrying" /\ held'[r] = held[r]
      BY Zenon, <2>3, Reading, Stepped DEF ValueKept, Held, Labels
    <3> QED BY Zenon, <2>0, <3>1 DEF Driver, Fenced, Moved, Receiving, Goal
  <2>4. ASSUME BeginExecute(held[r]), Goto(r, "received"), heldEpoch' = [heldEpoch EXCEPT ![r] = epoch[held[r]] + 1],
               UNCHANGED <<held, heldGen, value, clock>>
        PROVE  Goal
    <3>1. epoch[held[r]] + 1 \in Nat
      BY <2>0 DEF TypeInv
    <3>2. DriverTyped'
      <4>1. heldEpoch' \in [Replicas -> Nat]
        BY Zenon, <2>4, <3>1 DEF TypeInv
      <4> QED BY Zenon, <2>4, <4>1 DEF Goto, TypeInv, DriverTyped, Labels, Receiving
    <3>3. \A q \in Replicas \ {r} : Same(q)
      BY Zenon, <2>4 DEF Goto, TypeInv, Same
    <3>4. pc'[r] = "received" /\ held'[r] = held[r] /\ heldEpoch'[r] = epoch[held[r]] + 1
      BY Zenon, <2>4 DEF Goto, TypeInv
    <3>5. epoch'[held[r]] = epoch[held[r]] + 1
      BY Zenon, <2>0, <2>4 DEF BeginExecute, TypeInv
    <3>6. heldEpoch'[r] <= epoch'[held[r]]
      BY <3>1, <3>4, <3>5
    <3> QED BY Zenon, <2>0, <3>2, <3>3, <3>4, <3>6 DEF Driver, Fenced, Moved, Goal
  <2> QED BY Zenon, <1>4, <2>1, <2>2, <2>3, <2>4 DEF BeginReceive
<1>5. ASSUME NEW r \in Replicas, NEW l \in Receiving \cup {"replaying"}, NEW v \in Results \cup {"none", "stopped"},
             pc[r] \in Receiving, Goto(r, l),
             value' = [value EXCEPT ![r] = v], ClockRead(r), UNCHANGED Held,
             l = "settling" => v \in (Results \ {"canceled"}) \cup {"stopped"},
             l \in {"completing", "rechecking"} => v \in Results \ {"canceled"}
      PROVE  Goal
  <2>1. held[r] \in Dispatches /\ heldEpoch[r] <= epoch[held[r]] /\ l \in Labels
    BY Zenon, <1>5 DEF DriverInv, Driver, Receiving, Labels
  <2>2. /\ DriverTyped' /\ \A q \in Replicas \ {r} : Same(q)
        /\ pc'[r] = l /\ value'[r] = v /\ held'[r] = held[r] /\ heldEpoch'[r] = heldEpoch[r]
    BY Zenon, <1>5, <2>1, Stepped DEF Held
  <2>3. heldEpoch[r] <= epoch'[held[r]]
    <3>1. heldEpoch[r] \in Nat /\ epoch[held[r]] \in Nat
      BY Zenon, <2>1 DEF TypeInv
    <3>2. epoch'[held[r]] \in Nat /\ epoch[held[r]] <= epoch'[held[r]]
      BY Zenon, <2>1, <1>a, Effects, StoreTyped DEF ReceiptTyped
    <3> QED BY <2>1, <3>1, <3>2
  <2> QED BY Zenon, <1>5, <2>1, <2>2, <2>3 DEF Driver, Fenced, Moved, Receiving, Goal
<1>6. ASSUME NEW r \in Replicas, EnterRuntime(r) PROVE Goal
  <2>1. \/ DriverFails(r)
        \/ \E l \in {"cancelling", "running"} : Goto(r, l) /\ ReadClock(r, recvLive) /\ UNCHANGED <<Held, value>>
    BY Zenon, <1>6 DEF EnterRuntime
  <2>2. pc[r] \in Receiving
    BY Zenon, <1>6 DEF EnterRuntime, Receiving
  <2> QED BY Zenon, <2>1, <2>2, <1>c, Reading, <1>5 DEF ValueKept, Receiving
<1>7. ASSUME NEW r \in Replicas, RuntimeEnds(r) PROVE Goal
  <2>1. \E v \in (Results \ {"canceled"}) \cup {"stopped"} : value' = [value EXCEPT ![r] = v]
    BY Zenon, <1>7 DEF RuntimeEnds
  <2>2. Goto(r, "settling") /\ UNCHANGED <<Held, clock>> /\ pc[r] \in Receiving
    BY Zenon, <1>7 DEF RuntimeEnds, Receiving
  <2> QED BY Zenon, <2>1, <2>2, Reading, <1>5 DEF ValueKept, Receiving
<1>8. ASSUME NEW r \in Replicas, Settle(r) PROVE Goal
  <2>1. pc[r] \in Receiving /\ value[r] \in (Results \ {"canceled"}) \cup {"stopped"}
    BY Zenon, <1>8 DEF Settle, Receiving, DriverInv, Driver
  <2>2. \/ DriverFails(r)
        \/ Goto(r, "cancelling") /\ ReadClock(r, recvLive) /\ UNCHANGED <<Held, value>>
        \/ value[r] # "stopped" /\ Goto(r, "completing") /\ ReadClock(r, recvLive) /\ UNCHANGED <<Held, value>>
    BY Zenon, <1>8 DEF Settle
  <2> QED BY Zenon, <2>1, <2>2, <1>c, Reading, <1>5 DEF ValueKept, Receiving
<1>9. ASSUME NEW r \in Replicas, Complete(r) PROVE Goal
  <2>1. pc[r] \in Receiving /\ value[r] \in Results \ {"canceled"}
    BY Zenon, <1>9 DEF Complete, Receiving, DriverInv, Driver
  <2>2. (Goto(r, "replaying") \/ Goto(r, "rechecking")) /\ UNCHANGED <<Held, value, clock>>
    BY Zenon, <1>9 DEF Complete
  <2> QED BY Zenon, <2>1, <2>2, Reading, <1>5 DEF ValueKept, Receiving
<1>10. ASSUME NEW r \in Replicas, Recheck(r) PROVE Goal
  <2>1. \/ DriverFails(r)
        \/ Goto(r, "cancelling") /\ ReadClock(r, recvLive) /\ UNCHANGED <<Held, value>>
    BY Zenon, <1>10 DEF Recheck
  <2>2. pc[r] \in Receiving
    BY Zenon, <1>10 DEF Recheck, Receiving
  <2> QED BY Zenon, <2>1, <2>2, <1>c, Reading, <1>5 DEF ValueKept, Receiving
<1>11. ASSUME NEW r \in Replicas, CompleteCanceled(r) PROVE Goal
  <2>1. DriverFails(r) \/ (Goto(r, "replaying") /\ UNCHANGED <<Held, value, clock>>)
    BY Zenon, <1>11 DEF CompleteCanceled
  <2>2. pc[r] \in Receiving
    BY Zenon, <1>11 DEF CompleteCanceled, Receiving
  <2> QED BY Zenon, <2>1, <2>2, <1>c, Reading, <1>5 DEF ValueKept, Receiving
<1>12. ASSUME NEW r \in Replicas, Replay(r) PROVE Goal
  <2>0. held[r] \in Dispatches
    BY Zenon, <1>12 DEF Replay, DriverInv, Driver
  <2>1. CASE DriverFails(r)
    BY Zenon, <2>1, <1>c
  <2>2. ASSUME recv[held[r]] = "completed", Goto(r, "publishing"), value' = [value EXCEPT ![r] = result[held[r]]],
               UNCHANGED <<storeVars, Held, clock>>
        PROVE  Goal
    <3>1. result[held[r]] \in Results \cup {"none", "stopped"} /\ "publishing" \in Labels
      BY Zenon, <2>0 DEF TypeInv, Labels
    <3>2. /\ DriverTyped' /\ \A q \in Replicas \ {r} : Same(q)
          /\ pc'[r] = "publishing" /\ value'[r] = result[held[r]] /\ held'[r] = held[r]
      <4>1. PICK v \in Results \cup {"none", "stopped"} : v = result[held[r]]
        BY Zenon, <3>1
      <4>2. ClockRead(r) /\ value' = [value EXCEPT ![r] = v] /\ UNCHANGED <<held, heldGen, heldEpoch>>
        BY Zenon, <2>2, <4>1, Reading DEF Held
      <4>3. Goto(r, "publishing")
        BY Zenon, <2>2
      <4>4. /\ DriverTyped' /\ \A q \in Replicas \ {r} : Same(q)
            /\ pc'[r] = "publishing" /\ value'[r] = v /\ held'[r] = held[r]
        BY ONLY Zenon, TypeInv, r \in Replicas, <3>1, <4>2, <4>3, v \in Results \cup {"none", "stopped"}, Stepped
      <4> QED BY Zenon, <4>1, <4>4
    <3>3. recv' = recv /\ result' = result
      BY Zenon, <2>2 DEF storeVars, recvVars
    <3> QED BY Zenon, <2>0, <2>2, <3>2, <3>3 DEF Driver, Fenced, Moved, Receiving, Goal
  <2> QED BY Zenon, <1>12, <2>1, <2>2 DEF Replay
<1>13. ASSUME NEW r \in Replicas, LoadTask(r) PROVE Goal
  <2>0. held[r] \in Dispatches /\ recv[held[r]] = "completed" /\ value[r] = result[held[r]]
    BY Zenon, <1>13 DEF LoadTask, DriverInv, Driver
  <2>1. CASE DriverFails(r)
    BY Zenon, <2>1, <1>c
  <2>2. ASSUME Goto(r, "committing"), ReadClock(r, senderLive), UNCHANGED <<storeVars, Held, value>> PROVE Goal
    <3>1. /\ DriverTyped' /\ \A q \in Replicas \ {r} : Same(q)
          /\ pc'[r] = "committing" /\ value'[r] = value[r] /\ held'[r] = held[r]
      BY Zenon, <2>2, Reading, Stepped DEF ValueKept, Held, Labels
    <3>2. recv' = recv /\ result' = result
      BY Zenon, <2>2 DEF storeVars, recvVars
    <3> QED BY Zenon, <2>0, <3>1, <3>2 DEF Driver, Fenced, Moved, Receiving, Goal
  <2> QED BY Zenon, <1>13, <2>1, <2>2 DEF LoadTask
<1>14. ASSUME NEW r \in Replicas, Restart(r) PROVE Goal
  <2>0. held[r] = NoDispatch
    BY Zenon, <1>14 DEF Restart, DriverInv, Driver
  <2>1. /\ DriverTyped' /\ \A q \in Replicas \ {r} : Same(q)
        /\ pc'[r] = "idle" /\ held'[r] = held[r]
    BY Zenon, <1>14, Reading, Stepped DEF Restart, ValueKept, Held, Labels
  <2> QED BY Zenon, <2>0, <2>1 DEF Driver, Fenced, Moved, Receiving, Goal
<1>15. ASSUME NEW t \in Tasks, SendMessage(t) \/ CancelTask(t) PROVE Goal
  BY Zenon, <1>15, <1>b DEF SendMessage, CancelTask
<1>16. ASSUME NEW d \in Dispatches, SignalCancel(d) \/ ExpireSender(d) \/ ExpireReceiver(d) PROVE Goal
  BY Zenon, <1>16, <1>b, <1>c DEF SignalCancel, ExpireSender, ExpireReceiver
<1>17. ASSUME UNCHANGED vars PROVE Goal
  <2>1. UNCHANGED driverVars
    BY Zenon, <1>17 DEF vars
  <2> QED BY Zenon, <2>1, <1>b
<1>18. Goal
  BY Zenon, <1>1, <1>2, <1>3, <1>4, <1>6, <1>7, <1>8, <1>9, <1>10, <1>11, <1>12, <1>13, <1>14, <1>15, <1>16, <1>17
     DEF Next, DriverStep
<1> QED BY Zenon, <1>18 DEF Goal

(* So every driver keeps its invariant and no two receivers share an epoch. *)
LEMMA DriversStep ==
  ASSUME TypeInv, LedgerInv, ReceiverInv, DriverInv, EpochInv, [Next]_vars
  PROVE  TypeInv' /\ LedgerInv' /\ ReceiverInv' /\ DriverInv' /\ EpochInv'
<1>1. Effect
  BY Zenon, Effects
<1>2. LedgerInv' /\ ReceiverInv'
  BY Zenon, <1>1, LedgerStep, ReceiverStep
<1>3. TypeInv'
  BY Zenon, <1>1, StoreTyped, SenderKept, DriverMoves
     DEF TypeInv, LedgerTyped, ReceiptTyped, SenderTyped, DriverTyped
<1>4. \A d \in Dispatches : /\ recv[d] = "completed" => recv'[d] = "completed" /\ result'[d] = result[d]
                            /\ epoch[d] <= epoch'[d]
  BY Zenon, <1>1, ReceiverStep
<1>5. ASSUME NEW q \in Replicas, Same(q) PROVE Driver(q)'
  <2>1. Driver(q)
    BY Zenon DEF DriverInv
  <2>2. pc[q] \in Receiving => heldEpoch[q] <= epoch'[held[q]]
    <3> SUFFICES ASSUME pc[q] \in Receiving PROVE heldEpoch[q] <= epoch'[held[q]]
      BY Zenon
    <3>1. held[q] \in Dispatches /\ heldEpoch[q] <= epoch[held[q]]
      BY Zenon, <2>1 DEF Driver, Receiving
    <3>2. heldEpoch[q] \in Nat /\ epoch[held[q]] \in Nat /\ epoch'[held[q]] \in Nat
      BY <3>1, <1>3 DEF TypeInv
    <3>3. epoch[held[q]] <= epoch'[held[q]]
      BY Zenon, <3>1, <1>4
    <3> QED BY <3>1, <3>2, <3>3
  <2>3. pc[q] \in {"publishing", "committing"} => recv'[held[q]] = "completed" /\ value[q] = result'[held[q]]
    BY Zenon, <2>1, <1>4 DEF Driver
  <2> QED BY Zenon, <1>5, <2>1, <2>2, <2>3 DEF Driver, Same
<1>6. UNCHANGED driverVars \/ \E r \in Replicas : Moved(r)
  BY Zenon, DriverMoves
<1>7. DriverInv'
  BY Zenon, <1>5, <1>6 DEF DriverInv, Moved, Same, driverVars
<1>8. EpochInv'
  <2>1. CASE UNCHANGED driverVars
    BY Zenon, <2>1 DEF EpochInv, driverVars
  <2>2. ASSUME NEW r \in Replicas, Moved(r) PROVE EpochInv'
    <3>1. ASSUME NEW q \in Replicas \ {r}, pc'[r] \in Receiving, pc[q] \in Receiving, held'[r] = held[q]
          PROVE  heldEpoch'[r] # heldEpoch[q]
      <4>1. held'[r] = held[r] /\ (\/ pc[r] \in Receiving /\ heldEpoch'[r] = heldEpoch[r]
                                   \/ heldEpoch'[r] = epoch[held[r]] + 1)
        BY Zenon, <2>2, <3>1 DEF Moved, Fenced
      <4>2. CASE pc[r] \in Receiving /\ heldEpoch'[r] = heldEpoch[r]
        BY Zenon, <3>1, <4>1, <4>2 DEF EpochInv
      <4>3. CASE heldEpoch'[r] = epoch[held[r]] + 1
        <5>1. held[q] \in Dispatches /\ heldEpoch[q] <= epoch[held[q]]
          BY Zenon, <3>1 DEF DriverInv, Driver, Receiving
        <5>2. heldEpoch[q] \in Nat /\ epoch[held[q]] \in Nat
          BY Zenon, <5>1 DEF TypeInv
        <5> QED BY <3>1, <4>1, <4>3, <5>1, <5>2
      <4> QED BY Zenon, <4>1, <4>2, <4>3
    <3>2. \A q \in Replicas \ {r} : Same(q)
      BY Zenon, <2>2 DEF Moved
    <3> QED BY <3>1, <3>2 DEF EpochInv, Same
  <2> QED BY Zenon, <1>6, <2>1, <2>2
<1> QED BY Zenon, <1>2, <1>3, <1>7, <1>8

-----------------------------------------------------------------------------
(* The theorems.                                                           *)

PathInv == TypeInv /\ LedgerInv /\ ReceiverInv /\ DriverInv /\ EpochInv

LEMMA PathInit == Init => PathInv
<1> SUFFICES ASSUME Init PROVE PathInv
  BY Zenon
<1> USE DEF Init, StoreInit
<1>1. \A d \in Dispatches : d[1] \in Tasks /\ d[2] \in Nat /\ d[2] > 0
  BY Parts
<1>2. TypeInv
  <2>1. "Unspecified" \in TaskStates /\ "absent" \in OutboxStates /\ 0 \in 0 .. MaxTurns
    BY AuthorityAssumption DEF TaskStates, LiveStates, OutboxStates
  <2>2. pc \in [Replicas -> Labels]
    BY Zenon DEF Labels
  <2> QED BY Zenon, <2>1, <2>2 DEF TypeInv
<1>3. LedgerInv
  BY Zenon, <1>1 DEF LedgerInv, Ledger, Owed, Active, Paused, PausedStates
<1>4. ReceiverInv
  BY Zenon DEF ReceiverInv, Receiver
<1>5. DriverInv /\ EpochInv
  BY Zenon DEF DriverInv, Driver, EpochInv, Receiving
<1> QED BY Zenon, <1>2, <1>3, <1>4, <1>5 DEF PathInv

(* PathInv holds of the durable path, whatever the interleaving of         *)
(* drivers, handlers, crashes and lease expiries.                          *)
THEOREM PathInvariance == Spec => []PathInv
<1>1. PathInv /\ [Next]_vars => PathInv'
  BY Zenon, DriversStep DEF PathInv
<1> QED BY PathInit, <1>1, PTL DEF Spec

(* A recorded cancellation intent decides its dispatch: complete_receive   *)
(* seals the cancellation and nothing else (IntentDecides).                *)
THEOREM IntentCorrect == Spec => []IntentDecides
<1>1. PathInv => IntentDecides
  BY Zenon DEF PathInv, ReceiverInv, Receiver, IntentDecides
<1> QED BY PathInvariance, <1>1, PTL

(* The receiver fence of complete_receive admits at most one of the        *)
(* replicas that run a dispatch (OneSettler).                              *)
THEOREM SettlerCorrect == Spec => []OneSettler
<1>1. PathInv => OneSettler
  BY Zenon DEF PathInv, EpochInv, OneSettler, ReceiverFence
<1> QED BY PathInvariance, <1>1, PTL

-----------------------------------------------------------------------------
(* The task-state machine.  commit_delivery, the continuation and the      *)
(* cancellation write a state without asking task_state.rs, and            *)
(* validate_atomic_records refuses a store whose events broke its matrix.  *)
LegalTransitions == \A t \in Tasks : TransitionAllowed(taskState[t], taskState'[t])

(* Every effect on the rows moves each task along the machine.             *)
LEMMA TransitionStep == ASSUME PathInv, Effect PROVE LegalTransitions
<1> USE DEF PathInv
<1>1. \A t \in Tasks : taskState[t] \in TaskStates
  BY Zenon DEF TypeInv
<1>2. ASSUME NEW t \in Tasks, NEW s, TransitionAllowed(taskState[t], s),
             taskState' = [taskState EXCEPT ![t] = s]
      PROVE  LegalTransitions
  <2>1. \A u \in Tasks : taskState'[u] = IF u = t THEN s ELSE taskState[u]
    BY Zenon, <1>2 DEF TypeInv
  <2> QED BY Zenon, <1>2, <2>1 DEF LegalTransitions, TransitionAllowed
<1>3. ASSUME UNCHANGED taskState PROVE LegalTransitions
  BY Zenon, <1>3 DEF LegalTransitions, TransitionAllowed
<1>4. \A t \in Tasks : ~ IsTerminal(taskState[t]) => TransitionAllowed(taskState[t], "Failed")
  BY Zenon, <1>1 DEF TransitionAllowed, Successors, IsTerminal, TaskStates, LiveStates, PausedStates, TerminalStates
<1>5. \A t \in Tasks : turn[t] = 0 <=> taskState[t] = "Unspecified"
  BY Zenon DEF LedgerInv
<1>6. CASE Quiet
  BY Zenon, <1>3, <1>6 DEF Quiet, ledger
<1>7. ASSUME NEW t \in Tasks, AdmitMessage(t) PROVE LegalTransitions
  <2>1. taskState[t] = "Unspecified"
    BY Zenon, <1>5, <1>7 DEF AdmitMessage
  <2>2. TransitionAllowed("Unspecified", "Submitted")
    BY Zenon DEF TransitionAllowed, Successors, PausedStates
  <2> QED BY Zenon, <1>2, <1>7, <2>1, <2>2 DEF AdmitMessage
<1>8. ASSUME NEW t \in Tasks, AdmitContinuation(t) PROVE LegalTransitions
  <2>1. TransitionAllowed(taskState[t], "Working")
    BY Zenon, <1>8 DEF AdmitContinuation, TransitionAllowed, Successors, PausedStates
  <2> QED BY Zenon, <1>2, <1>8, <2>1 DEF AdmitContinuation
<1>9. ASSUME NEW t \in Tasks, CancelNow(t) PROVE LegalTransitions
  <2>1. turn[t] > 0 /\ ~ IsTerminal(taskState[t]) /\ turn[t] \in Nat
    BY <1>9 DEF CancelNow, Cancelable, TypeInv
  <2>2. taskState[t] # "Unspecified"
    BY <1>5, <2>1
  <2>3. TransitionAllowed(taskState[t], "Canceled")
    BY Zenon, <1>1, <2>1, <2>2 DEF TransitionAllowed, Successors, IsTerminal, TaskStates, LiveStates, PausedStates, TerminalStates
  <2> QED BY Zenon, <1>2, <1>9, <2>3 DEF CancelNow, SetTask
<1>10. ASSUME NEW t \in Tasks, CancelRunning(t) PROVE LegalTransitions
  BY Zenon, <1>3, <1>10 DEF CancelRunning, taskVars
<1>11. ASSUME NEW d \in Dispatches, Relabelled(d) \/ Begun(d) PROVE LegalTransitions
  BY Zenon, <1>3, <1>11 DEF Relabelled, Begun, BeginExecute, taskVars
<1>12. ASSUME NEW d \in Dispatches, GivenUp(d) PROVE LegalTransitions
  <2>1. d[1] \in Tasks
    BY Zenon, Parts
  <2>2. CASE IsTerminal(taskState[d[1]])
    BY Zenon, <1>3, <1>12, <2>2 DEF GivenUp, DeadLetterTask, taskVars
  <2>3. CASE ~ IsTerminal(taskState[d[1]])
    BY Zenon, <1>2, <1>4, <1>12, <2>1, <2>3 DEF GivenUp, DeadLetterTask, SetTask
  <2> QED BY Zenon, <2>2, <2>3
<1>13. ASSUME NEW d \in Dispatches, Committed(d) PROVE LegalTransitions
  <2>1. d[1] \in Tasks
    BY Zenon, Parts
  <2>2. Active(d[1])
    BY Zenon, <1>13 DEF Committed, LedgerInv, Ledger, Owed
  <2>3. result[d] \in Results
    BY Zenon, <1>13 DEF Committed, ReceiverInv, Receiver, TypeInv
  <2>4. TransitionAllowed(taskState[d[1]], StateOf(result[d]))
    BY Zenon, <2>2, <2>3 DEF Active, Results, StateOf, TransitionAllowed, Successors, PausedStates, TerminalStates
  <2> QED BY Zenon, <1>2, <1>13, <2>1, <2>4 DEF Committed, CommitDelivery, SetTask
<1>14. ASSUME NEW d \in Dispatches, NEW v \in Results, SealedAs(d, v) PROVE LegalTransitions
  BY Zenon, <1>3, <1>14 DEF SealedAs, CompleteReceive, taskVars
<1>15. CASE RecoverOrphanedTasks
  <2>1. \A t \in Tasks : taskState'[t] = taskState[t] \/ (taskState'[t] = "Failed" /\ ~ IsTerminal(taskState[t]))
    BY Zenon, <1>15 DEF RecoverOrphanedTasks, Unresolved, Orphans
  <2> QED BY Zenon, <1>4, <2>1 DEF LegalTransitions, TransitionAllowed
<1> QED BY Zenon, <1>6, <1>7, <1>8, <1>9, <1>10, <1>11, <1>12, <1>13, <1>14, <1>15 DEF Effect

(* No interleaving of drivers, handlers, recovery and crashes moves a task *)
(* against the matrix of task_state.rs: a terminal state is final, and a   *)
(* paused task resumes only through a new message or ends.                 *)
THEOREM TransitionsCorrect == Spec => [][LegalTransitions]_vars
<1>1. PathInv /\ [Next]_vars => [LegalTransitions]_vars
  BY Zenon, Effects, TransitionStep DEF PathInv
<1> QED BY PathInvariance, <1>1, PTL DEF Spec

=============================================================================
