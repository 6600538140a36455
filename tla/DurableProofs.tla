--------------------------- MODULE DurableProofs ----------------------------
(***************************************************************************)
(* The durable path implements DispatchContract, for any set of tasks,     *)
(* messages, replicas and deployments.                                     *)
(*                                                                         *)
(* LoneInv is about SQLite only: it lets at most one exhausted dispatch    *)
(* wait for recovery, which is why the recovery that treats all dispatches *)
(* in one transaction still answers one message at a time.                 *)
(***************************************************************************)
EXTENDS DurableDriverProofs

(* An exhausted dispatch that nobody received, still leased.               *)
Stuck(d) == outbox[d] = "leased" /\ recv[d] = "absent" /\ attempts[d] >= MaxAttempts

(* The one driver of an SQLite store.                                      *)
Sole == CHOOSE r \in Replicas : TRUE
Lone ==
    /\ \A r \in Replicas \ {Sole} : pc[r] = "down"
    /\ pc[Sole] \notin {"idle", "down"} => heldGen[Sole] = senderGen[held[Sole]]
    /\ pc[Sole] \in {"retrying", "rejecting"} /\ ~ clock[Sole] => held[Sole] \notin senderLive
    /\ \A d \in Dispatches : Stuck(d) => d \notin senderLive \/ pc[Sole] = "down" \/ held[Sole] = d
    /\ \A d, e \in Dispatches : Stuck(d) /\ Stuck(e) => d = e
LoneInv == Sqlite => Lone

DurableInv == PathInv /\ LoneInv

-----------------------------------------------------------------------------
(* SQLite.  Except for a claim, no transaction makes a dispatch stuck or   *)
(* extends a lease.                                                        *)
Calm == (\A d \in Dispatches : Stuck(d)' => Stuck(d)) /\ senderLive' \subseteq senderLive

LEMMA SoleReplica == Sole \in Replicas
BY Zenon, DriverAssumption DEF Sole

LEMMA StoreCalm ==
  ASSUME TypeInv, DriverInv, [Next]_vars
  PROVE  \/ Calm /\ UNCHANGED senderGen
         \/ \E r \in Replicas, d \in Dispatches : Claim(r) /\ ClaimLease(d) /\ Goto(r, "claimed")
              /\ held' = [held EXCEPT ![r] = d] /\ heldGen' = [heldGen EXCEPT ![r] = senderGen[d] + 1]
         \/ \E r \in Replicas : FinishAttempt(r) /\ Release(r, "idle") /\ Calm
<1> DEFINE Goal == \/ Calm /\ UNCHANGED senderGen
                   \/ \E r \in Replicas, d \in Dispatches : Claim(r) /\ ClaimLease(d) /\ Goto(r, "claimed")
                        /\ held' = [held EXCEPT ![r] = d] /\ heldGen' = [heldGen EXCEPT ![r] = senderGen[d] + 1]
                   \/ \E r \in Replicas : FinishAttempt(r) /\ Release(r, "idle") /\ Calm
<1>a. ASSUME UNCHANGED <<outbox, attempts, senderLive, senderGen, recv>> PROVE Goal
  BY Zenon, <1>a DEF Calm, Stuck
<1>b. ASSUME NEW d, NEW s, s # "leased", outbox' = [outbox EXCEPT ![d] = s], senderLive' \subseteq senderLive,
             UNCHANGED <<attempts, recv, senderGen>>
      PROVE  Goal
  <2>1. \A x \in Dispatches : outbox'[x] = "leased" => outbox[x] = "leased"
    BY Zenon, <1>b DEF TypeInv
  <2> QED BY Zenon, <1>b, <2>1 DEF Calm, Stuck
<1>c. Calm /\ UNCHANGED senderGen => Goal
  BY Zenon
<1> HIDE DEF Goal
<1>1. ASSUME NEW r \in Replicas, Claim(r) PROVE Goal
  <2>1. CASE \E d \in Dispatches : ClaimDead(d)
    <3>1. PICK d \in Dispatches : ClaimDead(d)
      BY Zenon, <2>1
    <3>2. PICK s : s = DeadOutboxState(d)
      BY Zenon
    <3>3. s # "leased"
      BY Zenon, <3>2 DEF DeadOutboxState
    <3>4. outbox' = [outbox EXCEPT ![d] = s] /\ UNCHANGED <<attempts, recv, senderGen, senderLive>>
      BY Zenon, <3>1, <3>2 DEF ClaimDead, recvVars
    <3> QED BY Zenon, <3>3, <3>4, <1>b
  <2> QED BY Zenon, <1>1, <2>1 DEF Claim, Goal
<1>2. ASSUME NEW r \in Replicas, FinishAttempt(r) PROVE Goal
  <2>1. CASE UNCHANGED storeVars
    BY Zenon, <2>1, <1>a DEF storeVars, outboxVars, recvVars
  <2>2. ASSUME FinishOutboxAttempt(held[r], IF pc[r] = "rejecting" THEN "permanent" ELSE "retry"), Release(r, "idle")
        PROVE  Goal
    <3>1. CASE Reconcile(held[r])
      <4>1. Calm
        BY Zenon, <3>1 DEF Reconcile, KeepAttempt, Calm, Stuck
      <4> QED BY Zenon, <1>2, <2>2, <4>1 DEF Goal
    <3>2. CASE Bury(held[r])
      <4>1. PICK s : s = IF Postgres THEN DeadOutboxState(held[r]) ELSE "dead"
        BY Zenon
      <4>2. s # "leased"
        BY Zenon, <4>1 DEF DeadOutboxState
      <4>3. outbox' = [outbox EXCEPT ![held[r]] = s] /\ senderLive' \subseteq senderLive
            /\ UNCHANGED <<attempts, recv, senderGen>>
        BY Zenon, <3>2, <4>1 DEF Bury, recvVars
      <4> QED BY Zenon, <4>2, <4>3, <1>b
    <3>3. CASE RetryLater(held[r])
      <4>1. outbox' = [outbox EXCEPT ![held[r]] = "pending"] /\ senderLive' \subseteq senderLive
            /\ UNCHANGED <<attempts, recv, senderGen>>
        BY Zenon, <3>3 DEF RetryLater, recvVars
      <4> QED BY Zenon, <4>1, <1>b
    <3> QED BY Zenon, <2>2, <3>1, <3>2, <3>3 DEF FinishOutboxAttempt
  <2> QED BY Zenon, <1>2, <2>1, <2>2 DEF FinishAttempt, DriverFails
<1>3. ASSUME NEW d \in Dispatches, BeginExecute(d) PROVE Goal
  BY Zenon, <1>3, <1>c DEF BeginExecute, outboxVars, Calm, Stuck, TypeInv
<1>4. ASSUME NEW d \in Dispatches, NEW v \in Results, CompleteReceive(d, v) PROVE Goal
  BY Zenon, <1>4, <1>c DEF CompleteReceive, outboxVars, Calm, Stuck, TypeInv
<1>5. ASSUME NEW r \in Replicas, BeginReceive(r) \/ Complete(r) \/ CompleteCanceled(r) PROVE Goal
  <2>1. held[r] \in Dispatches /\ "canceled" \in Results /\ (Complete(r) => value[r] \in Results)
    BY Zenon, <1>5 DEF BeginReceive, Complete, CompleteCanceled, DriverInv, Driver, Results
  <2>2. \/ UNCHANGED storeVars \/ BeginExecute(held[r]) \/ CompleteReceive(held[r], "canceled")
        \/ Complete(r) /\ CompleteReceive(held[r], value[r])
    BY Zenon, <1>5 DEF BeginReceive, Complete, CompleteCanceled, DriverFails
  <2> QED BY Zenon, <2>1, <2>2, <1>a, <1>3, <1>4 DEF storeVars, outboxVars, recvVars
<1>6. ASSUME NEW r \in Replicas, Commit(r) PROVE Goal
  <2>1. CASE UNCHANGED storeVars
    BY Zenon, <2>1, <1>a DEF storeVars, outboxVars, recvVars
  <2>2. CASE CommitDelivery(held[r], value[r])
    <3>1. outbox' = [outbox EXCEPT ![held[r]] = "delivered"] /\ senderLive' \subseteq senderLive
          /\ UNCHANGED <<attempts, recv, senderGen>>
      BY Zenon, <2>2 DEF CommitDelivery, recvVars
    <3> QED BY Zenon, <3>1, <1>b
  <2> QED BY Zenon, <1>6, <2>1, <2>2 DEF Commit
<1>7. ASSUME NEW r \in Replicas,
             \/ Progress(r) \/ Prepare(r) \/ EnterRuntime(r) \/ RuntimeEnds(r) \/ Settle(r) \/ Recheck(r)
             \/ Replay(r) \/ LoadTask(r) \/ RenewalAnswerLost(r) \/ AdapterRefuses(r) \/ Stop(r)
      PROVE  Goal
  <2>1. UNCHANGED <<outbox, attempts, senderLive, senderGen, recv>>
    BY Zenon, <1>7 DEF Progress, Prepare, EnterRuntime, RuntimeEnds, Settle, Recheck, Replay, LoadTask, RenewalAnswerLost,
                AdapterRefuses, Stop, DriverFails, AppendStreamProgress, storeVars, outboxVars, recvVars
  <2> QED BY Zenon, <2>1, <1>a
<1>8. ASSUME NEW r \in Replicas, Restart(r) PROVE Goal
  <2>1. CASE UNCHANGED storeVars
    BY Zenon, <2>1, <1>a DEF storeVars, outboxVars, recvVars
  <2>2. CASE RecoverOrphanedTasks
    <3>1. UNCHANGED <<attempts, recv, senderGen>> /\ senderLive' \subseteq senderLive
      BY Zenon, <2>2 DEF RecoverOrphanedTasks
    <3>2. ASSUME NEW d \in Dispatches, outbox'[d] = "leased" PROVE outbox[d] = "leased"
      <4>1. outbox' = [x \in Dispatches |->
                       CASE x \in Spent -> DeadOutboxState(x)
                         [] outbox[x] = "delivered" /\ \E u \in Unresolved : u[1] = x[1] -> "superseded"
                         [] x \in Abandoned \ Spent -> "pending"
                         [] OTHER -> outbox[x]]
        BY Zenon, <2>2 DEF RecoverOrphanedTasks
      <4> QED BY Zenon, <3>2, <4>1 DEF DeadOutboxState, Spent, Abandoned
    <3> QED BY Zenon, <3>1, <3>2, <1>c DEF Calm, Stuck
  <2> QED BY Zenon, <1>8, <2>1, <2>2 DEF Restart
<1>9. ASSUME NEW t \in Tasks, SendMessage(t) \/ CancelTask(t) PROVE Goal
  <2>1. CASE SendMessage(t)
    <3>1. \E d : outbox' = [outbox EXCEPT ![d] = "pending"]
      BY Zenon, <2>1 DEF SendMessage, AdmitMessage, AdmitContinuation, NewDispatch
    <3>2. UNCHANGED <<attempts, recv, senderGen, senderLive>>
      BY Zenon, <2>1 DEF SendMessage, AdmitMessage, AdmitContinuation, NewDispatch, recvVars
    <3> QED BY Zenon, <3>1, <3>2, <1>b
  <2>2. CASE CancelRunning(t)
    BY Zenon, <2>2, <1>a DEF CancelRunning, outboxVars
  <2>3. CASE CancelNow(t)
    <3>1. PICK d, s : d = CancelTarget(t) /\ s = IF outbox[d] = "dead" THEN outbox[d] ELSE "superseded"
      BY Zenon
    <3>2. outbox' = [outbox EXCEPT ![d] = s]
      BY Zenon, <2>3, <3>1 DEF CancelNow
    <3>3. s # "leased" /\ senderLive' \subseteq senderLive /\ UNCHANGED <<attempts, recv, senderGen>>
      BY Zenon, <2>3, <3>1 DEF CancelNow, recvVars
    <3> QED BY Zenon, <3>2, <3>3, <1>b
  <2> QED BY Zenon, <1>9, <2>1, <2>2, <2>3 DEF CancelTask
<1>10. ASSUME NEW d \in Dispatches, SignalCancel(d) \/ ExpireSender(d) \/ ExpireReceiver(d) PROVE Goal
  <2>1. CASE ExpireSender(d)
    BY Zenon, <2>1, <1>c DEF ExpireSender, recvVars, Calm, Stuck
  <2>2. CASE SignalCancel(d) \/ ExpireReceiver(d)
    <3>1. UNCHANGED <<outbox, attempts, senderLive, senderGen, recv>>
      BY Zenon, <2>2 DEF SignalCancel, ExpireReceiver, DriverFails, storeVars, outboxVars, recvVars
    <3> QED BY Zenon, <3>1, <1>a
  <2> QED BY Zenon, <1>10, <2>1, <2>2
<1>11. ASSUME UNCHANGED vars PROVE Goal
  BY Zenon, <1>11, <1>a DEF vars, storeVars, outboxVars, recvVars
<1>12. Goal
  BY Zenon, <1>1, <1>2, <1>5, <1>6, <1>7, <1>8, <1>9, <1>10, <1>11 DEF Next, DriverStep
<1> QED BY Zenon, <1>12 DEF Goal

(* The sole driver of an SQLite store never leaves two exhausted           *)
(* dispatches behind: it claims no fresh one while an exhausted one is     *)
(* expired, and it gives no lease up that it knows to be live.             *)
LEMMA LoneStep ==
  ASSUME TypeInv, LedgerInv, ReceiverInv, DriverInv, LoneInv, [Next]_vars
  PROVE  LoneInv'
<1>0. Sqlite' <=> Sqlite
  BY Zenon, DeploymentKept DEF Sqlite
<1> SUFFICES ASSUME Sqlite PROVE Lone'
  BY Zenon, <1>0 DEF LoneInv
<1>s. Sole \in Replicas /\ Lone /\ ~ Postgres
  BY Zenon, SoleReplica DEF LoneInv, Sqlite, Postgres
<1>p. Sole' = Sole
  BY Zenon DEF Sole
<1>r. ASSUME NEW r \in Replicas, pc[r] # "down" PROVE r = Sole
  BY Zenon, <1>r, <1>s DEF Lone
<1>a. ASSUME Calm, UNCHANGED senderGen, Same(Sole), \A r \in Replicas \ {Sole} : pc'[r] = "down" PROVE Lone'
  <2>1. pc'[Sole] = pc[Sole] /\ held'[Sole] = held[Sole] /\ heldGen'[Sole] = heldGen[Sole] /\ clock'[Sole] = clock[Sole]
    BY Zenon, <1>a DEF Same
  <2>2. pc'[Sole] \notin {"idle", "down"} => heldGen'[Sole] = senderGen'[held'[Sole]]
    BY Zenon, <1>a, <2>1, <1>s DEF Lone
  <2>3. pc'[Sole] \in {"retrying", "rejecting"} /\ ~ clock'[Sole] => held'[Sole] \notin senderLive'
    BY Zenon, <1>a, <2>1, <1>s DEF Lone, Calm
  <2>4. \A d \in Dispatches : Stuck(d)' => d \notin senderLive' \/ pc'[Sole] = "down" \/ held'[Sole] = d
    BY Zenon, <1>a, <2>1, <1>s DEF Lone, Calm
  <2>5. \A d, e \in Dispatches : Stuck(d)' /\ Stuck(e)' => d = e
    BY Zenon, <1>a, <1>s DEF Lone, Calm
  <2> QED BY Zenon, <1>a, <1>p, <2>2, <2>3, <2>4, <2>5 DEF Lone
<1>b. ASSUME Calm, UNCHANGED senderGen, UNCHANGED driverVars PROVE Lone'
  <2>1. Same(Sole) /\ \A r \in Replicas \ {Sole} : pc'[r] = "down"
    BY Zenon, <1>b, <1>s DEF driverVars, Same, Lone
  <2> QED BY Zenon, <1>a, <1>b, <2>1
<1>c. ASSUME Calm, UNCHANGED senderGen, NEW r \in Replicas, Release(r, "down") PROVE Lone'
  <2>1. pc'[r] = "down" /\ \A q \in Replicas \ {r} : Same(q)
    BY Zenon, <1>c, Released DEF Moved
  <2>2. \A q \in Replicas \ {Sole} : pc'[q] = "down"
    BY Zenon, <2>1, <1>s DEF Lone, Same
  <2>3. CASE r = Sole
    <3>1. \A d, e \in Dispatches : Stuck(d)' /\ Stuck(e)' => d = e
      BY Zenon, <1>c, <1>s DEF Lone, Calm
    <3> QED BY Zenon, <1>p, <2>1, <2>2, <2>3, <3>1 DEF Lone
  <2>4. CASE r # Sole
    BY Zenon, <1>a, <1>c, <1>s, <2>1, <2>2, <2>4
  <2> QED BY Zenon, <2>3, <2>4
<1>d. ASSUME Calm, UNCHANGED senderGen, NEW r \in Replicas, NEW l \in Labels \ {"idle", "down"},
             pc[r] \notin {"idle", "down"}, Goto(r, l), UNCHANGED <<held, heldGen>>,
             l \in {"retrying", "rejecting"} => ReadClock(r, senderLive)
      PROVE  Lone'
  <2>1. r = Sole
    BY Zenon, <1>d, <1>r
  <2>2. pc'[Sole] = l /\ \A q \in Replicas \ {Sole} : pc'[q] = "down"
    BY <1>d, <2>1, <1>s DEF Goto, TypeInv, Lone
  <2>3. heldGen'[Sole] = senderGen'[held'[Sole]]
    BY Zenon, <1>d, <2>1, <1>s DEF Lone
  <2>4. l \in {"retrying", "rejecting"} /\ ~ clock'[Sole] => held'[Sole] \notin senderLive'
    <3> SUFFICES ASSUME l \in {"retrying", "rejecting"}, held[Sole] \in senderLive PROVE clock'[Sole]
      BY Zenon, <1>d DEF Calm
    <3>1. clock' = [clock EXCEPT ![Sole] = held[Sole] \in senderLive]
      BY Zenon, <1>d, <2>1 DEF ReadClock
    <3>2. clock'[Sole] = (held[Sole] \in senderLive)
      BY Zenon, <3>1, <1>s DEF TypeInv
    <3> QED BY <3>2, Zenon
  <2>5. \A d \in Dispatches : Stuck(d)' => d \notin senderLive' \/ held'[Sole] = d
    <3>1. pc[Sole] # "down"
      BY Zenon, <1>d, <2>1
    <3> QED BY Zenon, <1>d, <3>1, <1>s DEF Lone, Calm
  <2>6. \A d, e \in Dispatches : Stuck(d)' /\ Stuck(e)' => d = e
    BY Zenon, <1>d, <1>s DEF Lone, Calm
  <2> QED BY Zenon, <1>p, <2>2, <2>3, <2>4, <2>5, <2>6 DEF Lone
<1>e. ASSUME Calm, NEW r \in Replicas, pc[r] # "down", Release(r, "idle"), NEW h \in Dispatches, h = held[r],
             Stuck(h)' => h \notin senderLive'
      PROVE  Lone'
  <2>1. r = Sole
    BY Zenon, <1>e, <1>r
  <2>2. pc'[Sole] = "idle" /\ \A q \in Replicas \ {Sole} : pc'[q] = "down"
    BY Zenon, <1>e, <2>1, <1>s, Released DEF Moved, Same, Lone
  <2>3. \A d \in Dispatches : Stuck(d)' => d \notin senderLive'
    <3> SUFFICES ASSUME NEW d \in Dispatches, Stuck(d)' PROVE d \notin senderLive'
      BY Zenon
    <3>1. Stuck(d)
      BY Zenon, <1>e DEF Calm
    <3>2. d \notin senderLive \/ held[Sole] = d
      BY Zenon, <3>1, <1>e, <2>1, <1>s DEF Lone
    <3> QED BY Zenon, <3>2, <1>e, <2>1 DEF Calm
  <2>4. \A d, e \in Dispatches : Stuck(d)' /\ Stuck(e)' => d = e
    BY Zenon, <1>e, <1>s DEF Lone, Calm
  <2> QED BY Zenon, <1>p, <2>2, <2>3, <2>4 DEF Lone
<1>1. ASSUME NEW r \in Replicas, Claim(r) PROVE Lone'
  <2>0. pc[r] = "idle" /\ r = Sole /\ held[r] = NoDispatch
    BY Zenon, <1>1, <1>r DEF Claim, DriverInv, Driver
  <2>1. ASSUME NEW d \in Dispatches, ClaimDead(d), UNCHANGED driverVars PROVE Lone'
    <3>1. outbox' = [outbox EXCEPT ![d] = DeadOutboxState(d)] /\ DeadOutboxState(d) # "leased"
      BY Zenon, <2>1 DEF ClaimDead, DeadOutboxState
    <3>2. UNCHANGED <<attempts, recv, senderGen, senderLive>>
      BY Zenon, <2>1 DEF ClaimDead, recvVars
    <3>3. \A x \in Dispatches : outbox'[x] = "leased" => outbox[x] = "leased"
      BY Zenon, <3>1 DEF TypeInv
    <3>4. Calm
      BY Zenon, <3>2, <3>3 DEF Calm, Stuck
    <3> QED BY Zenon, <1>b, <2>1, <3>2, <3>4
  <2>2. ASSUME NEW d \in Dispatches, ClaimLease(d), Goto(r, "claimed"), held' = [held EXCEPT ![r] = d],
               heldGen' = [heldGen EXCEPT ![r] = senderGen[d] + 1]
        PROVE  Lone'
    <3>1. pc'[Sole] = "claimed" /\ held'[Sole] = d /\ heldGen'[Sole] = senderGen[d] + 1
          /\ \A q \in Replicas \ {Sole} : pc'[q] = "down"
      BY <2>0, <2>2, <1>s DEF Goto, TypeInv, Lone
    <3>2. senderGen'[d] = senderGen[d] + 1
      BY Zenon, <2>2 DEF ClaimLease, MintSender, TypeInv
    <3>3. /\ senderLive' = senderLive \cup {d} /\ outbox' = [outbox EXCEPT ![d] = "leased"] /\ UNCHANGED recv
          /\ SqliteClaim(d)
      BY Zenon, <2>2, <1>s DEF ClaimLease, MintSender, recvVars
    <3>4. \A x \in Dispatches \ {d} : outbox'[x] = outbox[x] /\ attempts'[x] = attempts[x]
      BY Zenon, <3>3 DEF TypeInv, SqliteClaim, KeepAttempt, AddAttempt
    <3>5. \A x \in Dispatches : Stuck(x) => x \notin senderLive
      <4>1. NoDispatch \notin Dispatches
        BY Zenon, DriverAssumption
      <4> QED BY Zenon, <2>0, <4>1, <1>s DEF Lone
    <3>6. \A x \in Dispatches : Stuck(x) => SqliteFinal(x)
      BY Zenon, <3>5 DEF Stuck, SqliteFinal, Expired
    <3>7. \A x \in Dispatches \ {d} : Stuck(x)' => Stuck(x)
      BY Zenon, <3>3, <3>4 DEF Stuck
    <3>8. \A x \in Dispatches \ {d} : Stuck(x)' => x \notin senderLive'
      BY Zenon, <3>3, <3>5, <3>7
    <3>9. \A x, y \in Dispatches : Stuck(x)' /\ Stuck(y)' => x = y
      <4>1. CASE SqliteReclaim(d)
        <5>1. ~ Stuck(d)'
          BY Zenon, <3>3, <4>1 DEF SqliteReclaim, Stuck
        <5> QED BY Zenon, <3>7, <5>1, <1>s DEF Lone
      <4>2. CASE \A x \in Dispatches : ~ SqliteFinal(x)
        BY Zenon, <3>6, <3>7, <4>2
      <4> QED BY Zenon, <3>3, <4>1, <4>2 DEF SqliteClaim
    <3> QED BY Zenon, <1>p, <3>1, <3>2, <3>8, <3>9 DEF Lone
  <2> QED BY Zenon, <1>1, <2>1, <2>2 DEF Claim
<1>k. ASSUME UNCHANGED <<outbox, attempts, senderLive, senderGen, recv>> PROVE Calm /\ UNCHANGED senderGen
  BY Zenon, <1>k DEF Calm, Stuck
<1>l. (Calm /\ UNCHANGED senderGen) \/ \E r \in Replicas : Claim(r) \/ FinishAttempt(r)
  BY Zenon, StoreCalm

<1>2. ASSUME NEW r \in Replicas, FinishAttempt(r) PROVE Lone'
  <2>0. pc[r] \in {"retrying", "rejecting"} /\ r = Sole /\ held[r] \in Dispatches
    BY Zenon, <1>2, <1>r DEF FinishAttempt, DriverInv, Driver
  <2>1. Calm \/ \E q \in Replicas : Claim(q)
    BY Zenon, StoreCalm
  <2>2. CASE DriverFails(r)
    <3>1. Calm /\ UNCHANGED senderGen
      BY Zenon, <2>2, <1>k DEF DriverFails, storeVars, outboxVars, recvVars
    <3> QED BY Zenon, <2>2, <3>1, <1>c DEF DriverFails
  <2>3. ASSUME FinishOutboxAttempt(held[r], IF pc[r] = "rejecting" THEN "permanent" ELSE "retry"), Release(r, "idle"), Calm
        PROVE  Lone'
    <3>0. PICK h \in Dispatches : h = held[r]
      BY Zenon, <2>0
    <3>1. ~ Stuck(h)'
      <4>1. CASE recv[held[r]] # "absent" /\ Reconcile(held[r])
        BY Zenon, <3>0, <4>1 DEF Reconcile, Stuck
      <4>2. CASE Bury(held[r])
        <5>1. outbox'[h] = "dead"
          BY Zenon, <3>0, <4>2, <1>s DEF Bury, TypeInv
        <5> QED BY Zenon, <5>1 DEF Stuck
      <4>3. CASE RetryLater(held[r])
        <5>1. outbox'[h] = "pending"
          BY Zenon, <3>0, <4>3 DEF RetryLater, TypeInv
        <5> QED BY Zenon, <5>1 DEF Stuck
      <4> QED BY Zenon, <2>3, <4>1, <4>2, <4>3 DEF FinishOutboxAttempt
    <3> QED BY Zenon, <1>e, <2>0, <2>3, <3>0, <3>1
  <2>4. ASSUME ~ FinishFence(held[r], heldGen[r], clock[r]), Release(r, "idle"), UNCHANGED storeVars, Calm
        PROVE  Lone'
    <3>1. UNCHANGED <<outbox, attempts, senderLive, recv>>
      BY Zenon, <2>4 DEF storeVars, outboxVars, recvVars
    <3>2. ASSUME Stuck(held[r]) PROVE held[r] \notin senderLive
      <4>1. intent[held[r]] # "requested"
        BY Zenon, <2>0, <3>2 DEF ReceiverInv, Receiver, Stuck
      <4>2. heldGen[r] = senderGen[held[r]]
        BY Zenon, <2>0, <1>s DEF Lone
      <4>3. ~ clock[r]
        BY Zenon, <2>4, <3>2, <4>1, <4>2 DEF FinishFence, SenderFence, Stuck
      <4> QED BY Zenon, <2>0, <4>3, <1>s DEF Lone
    <3>3. PICK h \in Dispatches : h = held[r]
      BY Zenon, <2>0
    <3>4. Stuck(h)' => h \notin senderLive'
      BY Zenon, <3>1, <3>2, <3>3 DEF Stuck, Calm
    <3> QED BY Zenon, <1>e, <2>0, <2>4, <3>3, <3>4
  <2> QED BY Zenon, <1>1, <1>2, <2>1, <2>2, <2>3, <2>4 DEF FinishAttempt
<1> DEFINE Steady == Calm /\ UNCHANGED senderGen
<1>3. ASSUME Steady, NEW r \in Replicas, Commit(r) PROVE Lone'
  <2>0. pc[r] = "committing" /\ held[r] \in Dispatches /\ recv[held[r]] = "completed" /\ Release(r, "idle")
    BY Zenon, <1>3 DEF Commit, DriverInv, Driver
  <2>1. PICK h \in Dispatches : h = held[r]
    BY Zenon, <2>0
  <2>2. ~ Stuck(h)'
    BY Zenon, <2>0, <2>1, <1>3 DEF Calm, Stuck
  <2> QED BY Zenon, <1>e, <1>3, <2>0, <2>1, <2>2
<1>4. ASSUME Steady, NEW r \in Replicas, Restart(r) PROVE Lone'
  <2>0. pc[r] = "down" /\ r \in Drivers /\ Goto(r, "idle") /\ RecoverOrphanedTasks
    BY Zenon, <1>4 DEF Restart
  <2>1. r = Sole
    BY Zenon, <2>0 DEF Drivers, Sole
  <2>2. pc'[Sole] = "idle" /\ \A q \in Replicas \ {Sole} : pc'[q] = "down"
    BY Zenon, <2>0, <2>1, <1>s DEF Goto, TypeInv, Lone
  <2>3. ASSUME NEW d \in Dispatches PROVE ~ Stuck(d)'
    <3> SUFFICES ASSUME Stuck(d)' PROVE FALSE
      BY Zenon
    <3>1. d \in Abandoned /\ outbox'[d] = "leased"
      BY Zenon, <1>4 DEF Calm, Stuck, Abandoned
    <3>2. outbox'[d] = IF d \in Spent THEN "dead" ELSE IF d \in Abandoned THEN "pending" ELSE outbox[d]
      BY Zenon, <2>0, RecoveryForm
    <3> QED BY Zenon, <3>1, <3>2
  <2> QED BY Zenon, <1>p, <2>2, <2>3 DEF Lone
<1>5. ASSUME Steady, NEW r \in Replicas, Stop(r) PROVE Lone'
  BY Zenon, <1>5, <1>c DEF Stop, DriverFails
<1>6. ASSUME Steady, NEW r \in Replicas, Progress(r) \/ Prepare(r) \/ RuntimeEnds(r) \/ AdapterRefuses(r) \/ Complete(r) PROVE Lone'
  <2>1. \/ \E l \in {"preparing", "receiving", "settling", "replaying", "rechecking"} : Goto(r, l) /\ UNCHANGED <<held, heldGen>>
        \/ \E m \in {"retrying", "rejecting"} : Goto(r, m) /\ ReadClock(r, senderLive) /\ UNCHANGED <<held, heldGen>>
    BY Zenon, <1>6 DEF Progress, Prepare, RuntimeEnds, AdapterRefuses, Complete, Held
  <2>2. pc[r] \notin {"idle", "down"}
    BY Zenon, <1>6 DEF Progress, Prepare, RuntimeEnds, AdapterRefuses, Complete
  <2> QED BY Zenon, <1>6, <1>d, <2>1, <2>2 DEF Labels, Receiving
<1>7. ASSUME Steady, NEW r \in Replicas,
             BeginReceive(r) \/ EnterRuntime(r) \/ Settle(r) \/ Recheck(r) \/ CompleteCanceled(r) \/ Replay(r) \/ LoadTask(r)
      PROVE  Lone'
  <2>1. \/ DriverFails(r)
        \/ \E l \in {"publishing", "received", "cancelling", "running", "completing", "replaying", "committing"} :
             Goto(r, l) /\ UNCHANGED <<held, heldGen>>
        \/ Goto(r, "retrying") /\ ReadClock(r, senderLive) /\ UNCHANGED <<held, heldGen>>
    BY Zenon, <1>7 DEF BeginReceive, EnterRuntime, Settle, Recheck, CompleteCanceled, Replay, LoadTask, Held
  <2>2. pc[r] \notin {"idle", "down"}
    BY Zenon, <1>7 DEF BeginReceive, EnterRuntime, Settle, Recheck, CompleteCanceled, Replay, LoadTask
  <2> QED BY Zenon, <1>7, <1>c, <1>d, <2>1, <2>2 DEF DriverFails, Labels, Receiving
<1>8. ASSUME Steady, NEW t \in Tasks, SendMessage(t) \/ CancelTask(t) PROVE Lone'
  BY Zenon, <1>8, <1>b DEF SendMessage, CancelTask
<1>9. ASSUME Steady, NEW d \in Dispatches, SignalCancel(d) \/ ExpireSender(d) \/ ExpireReceiver(d) PROVE Lone'
  BY Zenon, <1>9, <1>b, <1>c DEF SignalCancel, ExpireSender, ExpireReceiver, DriverFails
<1>10. ASSUME Steady, UNCHANGED vars PROVE Lone'
  <2>1. UNCHANGED driverVars
    BY Zenon, <1>10 DEF vars
  <2> QED BY Zenon, <1>10, <2>1, <1>b
<1>11. ASSUME NEW r \in Replicas, RenewalAnswerLost(r) PROVE FALSE
  BY Zenon, <1>11, <1>s DEF RenewalAnswerLost
<1> HIDE DEF Steady
<1>12. Steady \/ \E r \in Replicas : Claim(r) \/ FinishAttempt(r)
  BY Zenon, <1>l DEF Steady
<1> QED BY Zenon, <1>1, <1>2, <1>3, <1>4, <1>5, <1>6, <1>7, <1>8, <1>9, <1>10, <1>11, <1>12 DEF Next, DriverStep

-----------------------------------------------------------------------------
(* DurableInv holds of the durable path.                                   *)
THEOREM DurableInvariance == Spec => []DurableInv
<1>1. Init => LoneInv
  BY SoleReplica DEF Init, StoreInit, LoneInv, Lone, Stuck, Drivers, Sole
<1>2. PathInv /\ LoneInv /\ [Next]_vars => LoneInv'
  BY Zenon, LoneStep DEF PathInv
<1> QED BY PathInvariance, <1>1, <1>2, PTL DEF Spec, DurableInv

-----------------------------------------------------------------------------
(* The refinement.                                                         *)

accepted == {d \in Dispatches : recv[d] # "absent"}
sealed == [d \in Dispatches |-> IF result[d] = "none" THEN "none" ELSE StateOf(result[d])]

(* The initial states of the durable path are those of the contract.       *)
LEMMA ContractInit == Init => Contract!Init
BY DEF Init, StoreInit, Contract!Init, Contract!Dispatches, Dispatches

(* Every effect on the rows is a step of the contract or none: admission   *)
(* opens a message, begin_receive accepts it, complete_receive seals it,   *)
(* commit_delivery publishes it; a cancellation on the spot answers it or  *)
(* ends a paused task; an exhausted claim, a burial or the SQLite recovery *)
(* gives it up.                                                            *)
LEMMA ContractStep ==
  ASSUME DurableInv, Effect
  PROVE  [Contract!Next]_(Contract!vars)
<1> USE DEF DurableInv, PathInv
<1> DEFINE Goal == [Contract!Next]_(Contract!vars)
<1>a. ASSUME UNCHANGED <<taskState, idem, accepted, sealed>> PROVE Goal
  BY Zenon, <1>a DEF Contract!vars, accepted, sealed
<1>b. ASSUME UNCHANGED receipt PROVE UNCHANGED <<accepted, sealed>>
  BY Zenon, <1>b DEF receipt, accepted, sealed
<1>c. Dispatches = Contract!Dispatches /\ PausedStates = Contract!PausedStates
  BY Zenon DEF Dispatches, Contract!Dispatches, PausedStates, Contract!PausedStates
<1>1. ASSUME Quiet PROVE Goal
  BY Zenon, <1>1, <1>a, <1>b DEF Quiet, ledger
<1>2. ASSUME NEW t \in Tasks, AdmitMessage(t) \/ AdmitContinuation(t) PROVE Goal
  <2>1. PICK d : d = <<t, turn[t] + 1>>
    BY Zenon
  <2>2. /\ d \in Dispatches /\ idem[d] = "none"
        /\ idem' = [idem EXCEPT ![d] = "in_progress"]
        /\ \/ turn[t] = 0 /\ taskState' = [taskState EXCEPT ![t] = "Submitted"]
           \/ turn[t] > 0 /\ Paused(t) /\ taskState' = [taskState EXCEPT ![t] = "Working"]
        /\ UNCHANGED receipt
    BY Zenon, <1>2, <2>1, AdmittedForm
  <2>3. d[1] = t /\ d[2] = turn[t] + 1 /\ turn[t] \in 0 .. MaxTurns
    BY Zenon, <2>1 DEF TypeInv
  <2>4. UNCHANGED <<accepted, sealed>>
    BY Zenon, <2>2, <1>b
  <2>5. CASE turn[t] = 0 /\ taskState' = [taskState EXCEPT ![t] = "Submitted"]
    <3>1. d[2] = 1
      BY <2>3, <2>5
    <3>2. Contract!Open(d)
      BY ONLY Zenon, <2>2, <2>3, <2>4, <2>5, <3>1 DEF Contract!Open, accepted, sealed
    <3> QED BY Zenon, <3>2, <2>2, <1>c DEF Contract!Next
  <2>6. CASE turn[t] > 0 /\ Paused(t) /\ taskState' = [taskState EXCEPT ![t] = "Working"]
    <3>1. <<d[1], d[2] - 1>> = <<t, turn[t]>> /\ d[2] > 1 /\ turn[t] \in 1 .. MaxTurns
      BY <2>3, <2>6
    <3>2. PICK e \in Dispatches : e = <<t, turn[t]>>
      BY Zenon, <3>1, Parts
    <3>3. idem[e] \in PausedStates
      BY Zenon, <2>6, <3>2 DEF LedgerInv, Ledger
    <3>4. Contract!Open(d)
      BY ONLY Zenon, <2>2, <2>3, <2>4, <2>6, <3>1, <3>2, <3>3, <1>c DEF Contract!Open, accepted, sealed, Paused
    <3> QED BY Zenon, <3>4, <2>2, <1>c DEF Contract!Next
  <2> QED BY Zenon, <2>2, <2>5, <2>6
<1>3. ASSUME NEW t \in Tasks, CancelNow(t) PROVE Goal
  <2>1. PICK d : d = <<t, turn[t]>>
    BY Zenon
  <2>2. /\ d \in Dispatches /\ d[1] = t /\ d[2] = turn[t] /\ (Active(t) \/ Paused(t))
        /\ taskState' = [taskState EXCEPT ![t] = "Canceled"]
        /\ idem' = [idem EXCEPT ![d] = IF idem[d] = "in_progress" THEN "Canceled" ELSE idem[d]]
        /\ Active(t) => recv[d] # "completed"
        /\ UNCHANGED receipt
    BY Zenon, <1>3, <2>1, CancelNowForm
  <2>3. UNCHANGED <<accepted, sealed>>
    BY Zenon, <2>2, <1>b
  <2>4. CASE Active(t)
    <3>1. idem[d] = "in_progress"
      BY Zenon, <2>2, <2>4 DEF LedgerInv, Ledger
    <3>2. sealed[d] = "none"
      BY Zenon, <2>2, <2>4 DEF ReceiverInv, Receiver, sealed
    <3>3. Contract!CancelUnsealed(d)
      BY Zenon, <2>2, <2>3, <3>1, <3>2 DEF Contract!CancelUnsealed, Contract!Reply, accepted, sealed
    <3> QED BY Zenon, <3>3, <2>2, <1>c DEF Contract!Next
  <2>5. CASE Paused(t)
    <3>1. idem[d] \in PausedStates
      BY Zenon, <2>2, <2>5 DEF LedgerInv, Ledger
    <3>2. idem' = idem
      BY Zenon, <2>2, <3>1 DEF PausedStates, TypeInv
    <3>3. Contract!CancelPaused(t)
      BY Zenon, <2>2, <2>3, <2>5, <3>2, <1>c DEF Contract!CancelPaused, accepted, sealed, Paused
    <3> QED BY Zenon, <3>3 DEF Contract!Next
  <2> QED BY Zenon, <2>2, <2>4, <2>5
<1>4. ASSUME NEW t \in Tasks, CancelRunning(t) PROVE Goal
  <2>1. UNCHANGED <<taskState, idem, recv, result>>
    BY Zenon, <1>4 DEF CancelRunning, taskVars, replyVars
  <2> QED BY Zenon, <2>1, <1>a DEF accepted, sealed
<1>5. ASSUME NEW d \in Dispatches, Relabelled(d) PROVE Goal
  BY Zenon, <1>5, <1>a, <1>b DEF Relabelled
<1>6. ASSUME NEW d \in Dispatches, recv[d] = "absent", idem[d] = "in_progress",
             taskState' = [taskState EXCEPT ![d[1]] = "Failed"], idem' = [idem EXCEPT ![d] = "Failed"], UNCHANGED receipt
      PROVE  Goal
  <2>1. Contract!GiveUp(d)
    BY Zenon, <1>6, <1>b DEF Contract!GiveUp, Contract!Reply, accepted, sealed
  <2> QED BY Zenon, <2>1, <1>c DEF Contract!Next
<1>7. ASSUME NEW d \in Dispatches, GivenUp(d) PROVE Goal
  BY Zenon, <1>6, <1>7, GivenUpForm DEF GivenUp
<1>8. ASSUME NEW d \in Dispatches, Committed(d) PROVE Goal
  <2>1. /\ idem[d] = "in_progress" /\ result[d] \in Results
        /\ taskState' = [taskState EXCEPT ![d[1]] = StateOf(result[d])]
        /\ idem' = [idem EXCEPT ![d] = StateOf(result[d])]
        /\ UNCHANGED receipt
    BY Zenon, <1>8, CommittedForm
  <2>2. sealed[d] = StateOf(result[d]) /\ StateOf(result[d]) # "none"
    BY Zenon, <2>1 DEF sealed, Results, StateOf
  <2>3. Contract!Publish(d)
    BY Zenon, <2>1, <2>2, <1>b DEF Contract!Publish, Contract!Reply, accepted, sealed
  <2> QED BY Zenon, <2>3, <1>c DEF Contract!Next
<1>9. ASSUME NEW d \in Dispatches, Begun(d) PROVE Goal
  <2>1. recv' = [recv EXCEPT ![d] = "processing"] /\ UNCHANGED <<taskState, idem, result>>
    BY Zenon, <1>9 DEF Begun, BeginExecute, taskVars, replyVars
  <2>2. idem[d] = "in_progress"
    BY Zenon, <1>9 DEF Begun, LedgerInv, Ledger, Owed
  <2>3. accepted' = accepted \cup {d} /\ sealed' = sealed
    BY Zenon, <2>1 DEF accepted, sealed, TypeInv
  <2>4. Contract!Accept(d)
    BY Zenon, <2>1, <2>2, <2>3 DEF Contract!Accept, accepted, sealed
  <2> QED BY Zenon, <2>4, <1>c DEF Contract!Next
<1>10. ASSUME NEW d \in Dispatches, NEW v \in Results, SealedAs(d, v) PROVE Goal
  <2>1. /\ recv[d] = "processing" /\ recv' = [recv EXCEPT ![d] = "completed"]
        /\ result' = [result EXCEPT ![d] = v] /\ UNCHANGED <<taskState, idem>>
    BY Zenon, <1>10 DEF SealedAs, CompleteReceive, taskVars, replyVars
  <2>2. result[d] = "none"
    BY Zenon, <2>1 DEF ReceiverInv, Receiver
  <2>3. d \in accepted /\ accepted' = accepted
    BY Zenon, <2>1 DEF accepted, TypeInv
  <2>4. StateOf(v) \in Contract!Outcomes /\ v # "none"
    BY Zenon DEF Contract!Outcomes, StateOf, Results
  <2>5. sealed' = [sealed EXCEPT ![d] = StateOf(v)] /\ sealed[d] = "none"
    BY Zenon, <2>1, <2>2, <2>4 DEF sealed, TypeInv
  <2>6. Contract!Seal(d)
    BY Zenon, <2>1, <2>3, <2>4, <2>5 DEF Contract!Seal, accepted, sealed
  <2> QED BY Zenon, <2>6, <1>c DEF Contract!Next
<1>11. ASSUME Sqlite, RecoverOrphanedTasks PROVE Goal
  <2>1. /\ taskState' = [t \in Tasks |-> IF \E d \in Spent : d[1] = t THEN "Failed" ELSE taskState[t]]
        /\ idem' = [d \in Dispatches |-> IF d \in Spent THEN "Failed" ELSE idem[d]]
        /\ UNCHANGED receipt
    BY Zenon, <1>11, RecoveryForm
  <2>2. CASE Spent = {}
    <3>1. taskState' = taskState /\ idem' = idem
      BY Zenon, <2>1, <2>2 DEF TypeInv
    <3> QED BY Zenon, <2>1, <3>1, <1>a, <1>b
  <2>3. ASSUME NEW d \in Spent PROVE Goal
    <3>1. d \in Dispatches /\ recv[d] = "absent" /\ Owed(d) /\ d[1] \in Tasks
      BY Zenon, Parts DEF Spent, Abandoned, Owed
    <3>2. \A e \in Spent : e = d
      <4>1. \A e \in Spent : e \in Dispatches /\ Stuck(e)
        BY Zenon DEF Spent, Abandoned, Stuck
      <4> QED BY Zenon, <4>1, <1>11 DEF LoneInv, Lone
    <3>3. taskState' = [taskState EXCEPT ![d[1]] = "Failed"]
      BY Zenon, <2>1, <3>1, <3>2 DEF TypeInv
    <3>4. idem' = [idem EXCEPT ![d] = "Failed"]
      BY Zenon, <2>1, <3>1, <3>2 DEF TypeInv
    <3>5. idem[d] = "in_progress"
      BY Zenon, <3>1 DEF LedgerInv, Ledger
    <3> QED BY Zenon, <2>1, <3>1, <3>3, <3>4, <3>5, <1>6
  <2> QED BY Zenon, <2>2, <2>3
<1> HIDE DEF Goal
<1>12. Goal
  BY Zenon, <1>1, <1>2, <1>3, <1>4, <1>5, <1>7, <1>8, <1>9, <1>10, <1>11 DEF Effect
<1> QED BY Zenon, <1>12 DEF Goal

(* The durable path implements the contract of dispatch: every admitted    *)
(* message gets one answer that never changes, the sealed outcome where    *)
(* there is one (ImplementsContract).                                      *)
THEOREM Implementation == Spec => ImplementsContract
<1>1. DurableInv /\ [Next]_vars => [Contract!Next]_(Contract!vars)
  BY Zenon, Effects, ContractStep DEF DurableInv, PathInv
<1> QED BY DurableInvariance, ContractInit, <1>1, PTL DEF Spec, ImplementsContract, Contract!Spec

=============================================================================
