--------------------------- MODULE ExecutorProofs ---------------------------
(***************************************************************************)
(* The rest of the inductive argument of ExecutorStepProofs (permits and   *)
(* registrations, the accepted cancellation, the workers left behind) and  *)
(* the theorems about Executor that follow from it.                        *)
(***************************************************************************)
EXTENDS ExecutorStepProofs, FiniteSetTheorems

(* Only admission and cleanup change who holds a permit and who is         *)
(* registered.                                                             *)
HoldingKept == \/ UNCHANGED registry /\ Holding' = Holding
               \/ \E e \in Execs : (MayExecute(e) /\ ExecuteAccepted(e)) \/ Cleanup(e)

LEMMA HoldingStep ==
    TypeInv /\ [Next]_vars => HoldingKept
<1> SUFFICES ASSUME TypeInv, [Next]_vars
             PROVE  HoldingKept
  BY Zenon
<1> USE ExecutorAssumption
<1> USE DEF At, Goto, CallAt, CallGoto, registry, control, local, channel,
            calls, TypeInv, RunLabels, Holding, HoldingKept
<1>1. ASSUME NEW e \in Execs, ExecuteRefused(e)
      PROVE  HoldingKept
  BY Zenon, <1>1 DEF ExecuteRefused, Emit
<1>2. ASSUME NEW e \in Execs, ExecuteRejected(e)
      PROVE  HoldingKept
  BY Zenon, <1>2 DEF ExecuteRejected
<1>3. ASSUME NEW e \in Execs, Reject(e)
      PROVE  HoldingKept
  BY Zenon, <1>3 DEF Reject, Emit, Mark
<1>4. ASSUME NEW e \in Execs, SelectClosed(e)
      PROVE  HoldingKept
  BY Zenon, <1>4 DEF SelectClosed
<1>5. ASSUME NEW e \in Execs, SelectCancelled(e)
      PROVE  HoldingKept
  BY Zenon, <1>5 DEF SelectCancelled
<1>6. ASSUME NEW e \in Execs, SelectError(e)
      PROVE  HoldingKept
  BY Zenon, <1>6 DEF SelectError, Selectable, Verdict
<1>7. ASSUME NEW e \in Execs, SelectEvent(e)
      PROVE  HoldingKept
  BY <1>7 DEF SelectEvent, Observe, Selectable, Verdict
<1>8. ASSUME NEW e \in Execs, SelectCompleted(e)
      PROVE  HoldingKept
  BY <1>8 DEF SelectCompleted, Observe, Selectable, Verdict, OverBudget, Mark
<1>9. ASSUME NEW e \in Execs, SelectEnd(e)
      PROVE  HoldingKept
  BY Zenon, <1>9 DEF SelectEnd, Selectable, Mark, Verdict
<1>10. ASSUME NEW e \in Execs, BadEvidence(e)
      PROVE  HoldingKept
  BY Zenon, <1>10 DEF BadEvidence, ClaimExecution, Mark
<1>11. ASSUME NEW e \in Execs, Claim(e)
      PROVE  HoldingKept
  BY Zenon, <1>11 DEF Claim, ClaimExecution
<1>12. ASSUME NEW e \in Execs, BadArtifact(e)
      PROVE  HoldingKept
  BY Zenon, <1>12 DEF BadArtifact, ClaimExecution
<1>13. ASSUME NEW e \in Execs, Trace(e)
      PROVE  HoldingKept
  BY Zenon, <1>13 DEF Trace, RecordTrace, Mark
<1>14. ASSUME NEW e \in Execs, Publish(e)
      PROVE  HoldingKept
  BY Zenon, <1>14 DEF Publish, Emit
<1>15. ASSUME NEW e \in Execs, FinalizeCancelled(e)
      PROVE  HoldingKept
  BY Zenon, <1>15 DEF FinalizeCancelled
<1>16. ASSUME NEW e \in Execs, FinalizeDeadline(e)
      PROVE  HoldingKept
  BY Zenon, <1>16 DEF FinalizeDeadline, Verdict, Mark
<1>17. ASSUME NEW e \in Execs, Evaluate(e)
      PROVE  HoldingKept
  BY Zenon, <1>17 DEF Evaluate, ClaimExecution, Verdict
<1>18. ASSUME NEW e \in Execs, FinalTrace(e)
      PROVE  HoldingKept
  BY Zenon, <1>18 DEF FinalTrace, RecordTrace, Mark
<1>19. ASSUME NEW e \in Execs, FinalPublish(e)
      PROVE  HoldingKept
  BY Zenon, <1>19 DEF FinalPublish, Emit, AfterPublish
<1>20. ASSUME NEW e \in Execs, PublishCancel(e)
      PROVE  HoldingKept
  BY Zenon, <1>20 DEF PublishCancel
<1>21. ASSUME NEW e \in Execs, AwaitCancel(e)
      PROVE  HoldingKept
  BY Zenon, <1>21 DEF AwaitCancel
<1>22. ASSUME NEW e \in Execs, TraceCancel(e)
      PROVE  HoldingKept
  BY Zenon, <1>22 DEF TraceCancel, RecordTrace, Mark, CancellationTerminal
<1>23. ASSUME NEW e \in Execs, SendCancel(e)
      PROVE  HoldingKept
  BY Zenon, <1>23 DEF SendCancel, Emit, CancellationTerminal
<1>24. ASSUME NEW e \in Execs, NotifyPublished(e)
      PROVE  HoldingKept
  BY Zenon, <1>24 DEF NotifyPublished
<1>25. ASSUME NEW e \in Execs, Drain(e)
      PROVE  HoldingKept
  BY Zenon, <1>25 DEF Drain, Mark
<1>26. ASSUME NEW e \in Execs, DropStream(e)
      PROVE  HoldingKept
  BY Zenon, <1>26 DEF DropStream
<1>27. ASSUME NEW e \in Execs, LockForWork(e, "announce", "announceSend")
      PROVE  HoldingKept
  BY Zenon, <1>27 DEF LockForWork, MayEmitWork, Lock
<1>28. ASSUME NEW e \in Execs, SendWork(e, "announceSend")
      PROVE  HoldingKept
  BY Zenon, <1>28 DEF SendWork, Emit, Unlock
<1>29. ASSUME NEW e \in Execs, LockForWork(e, "progress", "progressSend")
      PROVE  HoldingKept
  BY Zenon, <1>29 DEF LockForWork, MayEmitWork, Lock
<1>30. ASSUME NEW e \in Execs, SendWork(e, "progressSend")
      PROVE  HoldingKept
  BY Zenon, <1>30 DEF SendWork, Emit, Unlock
<1>31. ASSUME NEW c \in Cancels, Cancel(c)
      PROVE  HoldingKept
  BY Zenon, <1>31 DEF Cancel
<1>32. ASSUME NEW c \in Cancels, CancelLookup(c)
      PROVE  HoldingKept
  BY Zenon, <1>32 DEF CancelLookup
<1>33. ASSUME NEW c \in Cancels, CancelLock(c)
      PROVE  HoldingKept
  BY Zenon, <1>33 DEF CancelLock, Lock
<1>34. ASSUME NEW c \in Cancels, CancelClaim(c)
      PROVE  HoldingKept
  BY Zenon, <1>34 DEF CancelClaim, Unlock, MayClaimCancel
<1>35. ASSUME NEW c \in Cancels, CancelToken(c)
      PROVE  HoldingKept
  BY Zenon, <1>35 DEF CancelToken, Signal, Unlock
<1>36. ASSUME NEW c \in Cancels, CancelDispatch(c)
      PROVE  HoldingKept
  BY Zenon, <1>36 DEF CancelDispatch, Mark
<1>37. ASSUME NEW c \in Cancels, CancelNotify(c)
      PROVE  HoldingKept
  BY Zenon, <1>37 DEF CancelNotify, Signal
<1>38. ASSUME NEW c \in Cancels, CancelReturn(c)
      PROVE  HoldingKept
  BY Zenon, <1>38 DEF CancelReturn
<1>39. ASSUME UNCHANGED vars PROVE HoldingKept
  BY Zenon, <1>39 DEF vars
<1> HIDE DEF Holding, TypeInv, registry
<1>40. QED
  BY Zenon, <1>1, <1>2, <1>3, <1>4, <1>5, <1>6, <1>7, <1>8, <1>9, <1>10, <1>11, <1>12,
     <1>13, <1>14, <1>15, <1>16, <1>17, <1>18, <1>19, <1>20, <1>21, <1>22,
     <1>23, <1>24, <1>25, <1>26, <1>27, <1>28, <1>29, <1>30, <1>31, <1>32,
     <1>33, <1>34, <1>35, <1>36, <1>37, <1>38, <1>39
  DEF Next, Execute, RunStep, Announce, Progress, SelectStep, OutcomeStep,
      CancelTerminalStep, CancelStep

(* What an execution has sent, and the consumer's drop of its stream, are  *)
(* never undone, and one that has started stays so.                        *)
Started(f) == pc[f] \notin {"idle", "reject"}
ChannelGrows == /\ closed \subseteq closed'
                /\ \A f \in Execs : sent'[f] = sent[f] \/ sent'[f] = sent[f] + 1
StartsOnly == \A f \in Execs : Started(f) => Started(f)'

LEMMA RunGrows ==
    ASSUME TypeInv, NEW e \in Execs, Execute(e) \/ RunStep(e) \/ DropStream(e)
    PROVE  ChannelGrows /\ StartsOnly
<1>1. \A event : Emit(e, event) => ChannelGrows
  BY DEF Emit, ChannelGrows, TypeInv
<1>2. UNCHANGED channel => ChannelGrows
  BY Zenon DEF channel, ChannelGrows
<1> USE DEF At, Goto, TypeInv, StartsOnly, Started
<1>3. Execute(e) => ChannelGrows /\ StartsOnly
  BY Zenon, <1>1, <1>2 DEF Execute, ExecuteRefused, ExecuteRejected, ExecuteAccepted
<1>4. Reject(e) => ChannelGrows /\ StartsOnly
  BY Zenon, <1>1, <1>2 DEF Reject
<1>5. Announce(e) \/ Progress(e) => ChannelGrows /\ StartsOnly
  BY Zenon, <1>1, <1>2 DEF Announce, Progress, LockForWork, SendWork
<1>6. SelectClosed(e) \/ SelectCancelled(e) => ChannelGrows /\ StartsOnly
  BY Zenon, <1>1, <1>2 DEF SelectClosed, SelectCancelled
<1>7. SelectError(e) \/ SelectEvent(e) => ChannelGrows /\ StartsOnly
  BY Zenon, <1>1, <1>2 DEF SelectError, SelectEvent, Observe
<1>8. SelectCompleted(e) \/ SelectEnd(e) => ChannelGrows /\ StartsOnly
  BY Zenon, <1>1, <1>2 DEF SelectCompleted, SelectEnd, Observe
<1>9. BadEvidence(e) \/ BadArtifact(e) \/ Claim(e) => ChannelGrows /\ StartsOnly
  BY Zenon, <1>1, <1>2 DEF BadEvidence, BadArtifact, Claim
<1>10. Trace(e) \/ Publish(e) => ChannelGrows /\ StartsOnly
  BY Zenon, <1>1, <1>2 DEF Trace, RecordTrace, Publish
<1>11. FinalizeCancelled(e) \/ FinalizeDeadline(e) => ChannelGrows /\ StartsOnly
  BY Zenon, <1>1, <1>2 DEF FinalizeCancelled, FinalizeDeadline
<1>12. Evaluate(e) \/ FinalTrace(e) => ChannelGrows /\ StartsOnly
  BY Zenon, <1>1, <1>2 DEF Evaluate, FinalTrace, RecordTrace
<1>13. FinalPublish(e) => ChannelGrows /\ StartsOnly
  BY Zenon, <1>1, <1>2 DEF FinalPublish, AfterPublish
<1>14. PublishCancel(e) \/ AwaitCancel(e) => ChannelGrows /\ StartsOnly
  BY Zenon, <1>1, <1>2 DEF PublishCancel, AwaitCancel
<1>15. TraceCancel(e) => ChannelGrows /\ StartsOnly
  BY Zenon, <1>1, <1>2 DEF TraceCancel, RecordTrace
<1>16. SendCancel(e) \/ NotifyPublished(e) => ChannelGrows /\ StartsOnly
  BY Zenon, <1>1, <1>2 DEF SendCancel, NotifyPublished
<1>17. Drain(e) \/ Cleanup(e) \/ DropStream(e) => ChannelGrows /\ StartsOnly
  BY Zenon, <1>1, <1>2 DEF Drain, Cleanup, DropStream, ChannelGrows
<1>18. QED
  BY Zenon, <1>3, <1>4, <1>5, <1>6, <1>7, <1>8, <1>9, <1>10, <1>11, <1>12, <1>13, <1>14, <1>15, <1>16, <1>17
  DEF RunStep, OutcomeStep, SelectStep, CancelTerminalStep

(* A cancellation call leaves the spawned tasks and their channels alone,  *)
(* and one that was accepted keeps its target.                             *)
CallsKeep == /\ UNCHANGED <<pc, channel>>
             /\ accepted \subseteq accepted'
             /\ \A d \in accepted : target'[d] = target[d]

LEMMA CancelKeeps ==
    ASSUME TypeInv, CallsInv, NEW c \in Cancels, Cancel(c) \/ CancelStep(c)
    PROVE  CallsKeep
<1> USE DEF CallAt, CallGoto, TypeInv, CallsKeep
<1>1. CancelLookup(c) => CallsKeep
  BY Zenon DEF CancelLookup, CallsInv, CallInv
<1>2. Cancel(c) \/ CancelLock(c) \/ CancelClaim(c) \/ CancelToken(c) => CallsKeep
  BY Zenon DEF Cancel, CancelLock, CancelClaim, CancelToken
<1>3. CancelDispatch(c) \/ CancelNotify(c) \/ CancelReturn(c) => CallsKeep
  BY Zenon DEF CancelDispatch, CancelNotify, CancelReturn
<1>4. QED
  BY Zenon, <1>1, <1>2, <1>3 DEF CancelStep

(* The request handler never takes back an execution it has let go of.     *)
LEMMA ReleasedStep ==
    ASSUME TypeInv, CallsInv, [Next]_vars
    PROVE  \A f \in Execs : (Released(f) => Released(f)') /\ (Started(f) => Started(f)')
<1>1. ASSUME NEW e \in Execs, Execute(e) \/ RunStep(e) \/ DropStream(e)
      PROVE  \A f \in Execs : (Released(f) => Released(f)') /\ (Started(f) => Started(f)')
  <2>1. ChannelGrows /\ StartsOnly /\ UNCHANGED calls
    BY Zenon, <1>1, RunGrows, RunLeavesCalls
  <2>2. \A f \in Execs : sent[f] > 0 => sent'[f] > 0
    BY <2>1 DEF ChannelGrows, TypeInv
  <2>3. QED
    BY Zenon, <2>1, <2>2 DEF ChannelGrows, StartsOnly, Released, calls
<1>2. ASSUME NEW c \in Cancels, Cancel(c) \/ CancelStep(c)
      PROVE  \A f \in Execs : (Released(f) => Released(f)') /\ (Started(f) => Started(f)')
  <2>1. CallsKeep
    BY Zenon, <1>2, CancelKeeps
  <2>2. QED
    BY Zenon, <2>1 DEF CallsKeep, channel, Released, Started
<1>3. ASSUME UNCHANGED vars
      PROVE  \A f \in Execs : (Released(f) => Released(f)') /\ (Started(f) => Started(f)')
  BY Zenon, <1>3 DEF vars, channel, calls, Released, Started
<1>4. QED
  BY Zenon, <1>1, <1>2, <1>3 DEF Next

(* A permit is taken together with the registration, and given back        *)
(* together with whatever registration the task has.                       *)
LEMMA LeaksStep ==
    TypeInv /\ CallsInv /\ OverlapInv /\ NothingLeaks /\ [Next]_vars => OverlapInv' /\ NothingLeaks'
<1> SUFFICES ASSUME TypeInv, CallsInv, OverlapInv, NothingLeaks, [Next]_vars
             PROVE  OverlapInv' /\ NothingLeaks'
  BY Zenon
<1> USE ExecutorAssumption
<1>1. IsFiniteSet(Holding)
  BY Zenon, FS_Subset DEF Holding
<1>2. Cardinality(Holding) \in Nat
  BY Zenon, <1>1, FS_CardinalityType
<1>3. \A f \in Execs : (Released(f) => Released(f)') /\ (Started(f) => Started(f)')
  BY Zenon, ReleasedStep
<1>4. \A e, f \in Execs : Beside(e, f) => Beside(e, f)'
  BY Zenon, <1>3 DEF Beside, Started
<1>5. ASSUME NEW e \in Execs, MayExecute(e), ExecuteAccepted(e) PROVE OverlapInv' /\ NothingLeaks'
  <2>1. e \notin Holding /\ Holding' = Holding \cup {e}
    BY <1>5 DEF ExecuteAccepted, At, Goto, Holding, TypeInv, RunLabels
  <2>2. Cardinality(Holding') = Cardinality(Holding) + 1
    BY Zenon, <1>1, <2>1, FS_AddElement
  <2>3. permits' + Cardinality(Holding') = MaxConcurrent
    BY <1>2, <1>5, <2>2 DEF ExecuteAccepted, NothingLeaks, TypeInv
  <2>4. \A f \in Holding : TaskOf[f] = TaskOf[e] => Released(f)
    BY Zenon, <1>5, <2>1 DEF MayExecute, Holding
  <2>5. OverlapInv'
    BY Zenon, <1>3, <2>1, <2>4 DEF OverlapInv, Holding
  <2>6. cancellations' = [cancellations EXCEPT ![TaskOf[e]] = e]
    BY Zenon, <1>5 DEF ExecuteAccepted
  <2>7. \A t \in Tasks, f \in Execs : cancellations'[t] = f => f \in Holding' /\ TaskOf[f] = t
    BY <2>1, <2>6 DEF NothingLeaks, TypeInv
  <2>8. Started(e)'
    BY Zenon, <1>5 DEF ExecuteAccepted, Goto, Started, TypeInv
  <2>9. \A f \in Holding : TaskOf[f] = TaskOf[e] => Beside(f, e)'
    BY Zenon, <1>3, <2>1, <2>4, <2>8 DEF Beside, Started, Holding
  <2>10. \A f \in Holding' : cancellations'[TaskOf[f]] = f \/ \E g \in Execs : Beside(f, g)'
    <3>1. ASSUME NEW f \in Holding, TaskOf[f] # TaskOf[e]
          PROVE  cancellations'[TaskOf[f]] = cancellations[TaskOf[f]]
      BY <2>6, <3>1 DEF TypeInv, Holding
    <3>2. cancellations'[TaskOf[e]] = e
      BY <2>6 DEF TypeInv
    <3>3. QED
      BY Zenon, <1>4, <2>1, <2>9, <3>1, <3>2 DEF NothingLeaks, Holding
  <2>11. QED
    BY Zenon, <2>3, <2>5, <2>7, <2>10 DEF NothingLeaks
<1>6. ASSUME NEW e \in Execs, Cleanup(e) PROVE OverlapInv' /\ NothingLeaks'
  <2>1. e \in Holding /\ Holding' = Holding \ {e}
    BY Zenon, <1>6 DEF Cleanup, At, Goto, Holding, TypeInv, RunLabels
  <2>2. Cardinality(Holding') = Cardinality(Holding) - 1
    BY Zenon, <1>1, <2>1, FS_RemoveElement
  <2>3. permits' + Cardinality(Holding') = MaxConcurrent
    BY <1>2, <1>6, <2>2 DEF Cleanup, NothingLeaks, TypeInv
  <2>4. OverlapInv'
    BY Zenon, <1>3, <2>1 DEF OverlapInv, Holding
  <2>5. cancellations' = [cancellations EXCEPT ![TaskOf[e]] = NoExec]
    BY Zenon, <1>6 DEF Cleanup
  <2>6. \A t \in Tasks, f \in Execs : cancellations'[t] = f => f \in Holding' /\ TaskOf[f] = t
    BY <2>1, <2>5 DEF NothingLeaks, TypeInv
  <2>7. Started(e)'
    BY Zenon, <1>6 DEF Cleanup, Goto, Started, TypeInv
  <2>8. \A f \in Holding' : TaskOf[f] = TaskOf[e] => Beside(f, e)'
    BY Zenon, <1>3, <2>1, <2>7 DEF Beside, OverlapInv, Started, Holding
  <2>9. \A f \in Holding' : cancellations'[TaskOf[f]] = f \/ \E g \in Execs : Beside(f, g)'
    <3>1. ASSUME NEW f \in Holding, TaskOf[f] # TaskOf[e]
          PROVE  cancellations'[TaskOf[f]] = cancellations[TaskOf[f]]
      BY <2>5, <3>1 DEF TypeInv, Holding
    <3>2. QED
      BY Zenon, <1>4, <2>1, <2>8, <3>1 DEF NothingLeaks, Holding
  <2>10. QED
    BY Zenon, <2>3, <2>4, <2>6, <2>9 DEF NothingLeaks
<1>7. CASE UNCHANGED registry /\ Holding' = Holding
  <2>1. OverlapInv'
    BY Zenon, <1>3, <1>7 DEF OverlapInv, Holding
  <2>2. NothingLeaks'
    BY Zenon, <1>4, <1>7 DEF NothingLeaks, registry, Holding
  <2>3. QED
    BY Zenon, <2>1, <2>2
<1>8. QED
  BY Zenon, <1>5, <1>6, <1>7, HoldingStep DEF HoldingKept

(* A call that wins the compare-and-swap found it open, so no other call   *)
(* was accepted for the same execution.                                    *)
LEMMA AcceptedStep ==
    TypeInv /\ CallsInv /\ OneAcceptedCancel /\ [Next]_vars => OneAcceptedCancel'
<1> SUFFICES ASSUME TypeInv, CallsInv, OneAcceptedCancel, [Next]_vars
             PROVE  OneAcceptedCancel'
  BY Zenon
<1>1. \A c \in Cancels : Accepted(c) => terminal[target[c]] = "CANCEL"
  BY Zenon DEF CallsInv, CallInv
<1>2. \A c \in Cancels : callPc[c] \in CallLabels
  BY Zenon DEF TypeInv
<1>3. CASE UNCHANGED calls
  BY Zenon, <1>3 DEF calls, OneAcceptedCancel, Accepted
<1> USE DEF OneAcceptedCancel, Accepted, PastClaim, CallAt, CallGoto, TypeInv
<1>4. ASSUME NEW c \in Cancels, Cancel(c) PROVE OneAcceptedCancel'
  BY Zenon, <1>4 DEF Cancel
<1>5. ASSUME NEW c \in Cancels, CancelLookup(c) PROVE OneAcceptedCancel'
  <2>1. c \notin accepted
    BY Zenon, <1>5 DEF CancelLookup, CallsInv, CallInv
  <2>2. callPc' = [callPc EXCEPT ![c] = callPc'[c]] /\ callPc'[c] \in {"returned", "lock"}
    BY Zenon, <1>5 DEF CancelLookup
  <2>3. target' = [target EXCEPT ![c] = target'[c]] /\ accepted' = accepted
    BY Zenon, <1>5 DEF CancelLookup
  <2>4. QED
    BY <2>1, <2>2, <2>3
<1>6. ASSUME NEW c \in Cancels, CancelLock(c) PROVE OneAcceptedCancel'
  BY Zenon, <1>6 DEF CancelLock
<1>7. ASSUME NEW c \in Cancels, CancelClaim(c) PROVE OneAcceptedCancel'
  <2>1. CASE ~MayClaimCancel(target[c])
    BY <1>7, <2>1 DEF CancelClaim
  <2>2. CASE MayClaimCancel(target[c])
    <3>1. \A d \in Cancels : Accepted(d) => target[d] # target[c]
      BY Zenon, <1>1, <2>2 DEF MayClaimCancel
    <3>2. callPc' = [callPc EXCEPT ![c] = "token"] /\ UNCHANGED <<target, accepted>>
      BY Zenon, <1>7, <2>2 DEF CancelClaim
    <3>3. QED
      BY <3>1, <3>2
  <2>3. QED
    BY Zenon, <2>1, <2>2
<1>8. ASSUME NEW c \in Cancels, CancelToken(c) PROVE OneAcceptedCancel'
  BY <1>8 DEF CancelToken
<1>9. ASSUME NEW c \in Cancels, CancelDispatch(c) PROVE OneAcceptedCancel'
  BY <1>9 DEF CancelDispatch
<1>10. ASSUME NEW c \in Cancels, CancelNotify(c) PROVE OneAcceptedCancel'
  BY <1>10 DEF CancelNotify
<1>11. ASSUME NEW c \in Cancels, CancelReturn(c) PROVE OneAcceptedCancel'
  BY Zenon, <1>11 DEF CancelReturn
<1> HIDE DEF OneAcceptedCancel
<1>12. QED
  BY Zenon, <1>3, <1>4, <1>5, <1>6, <1>7, <1>8, <1>9, <1>10, <1>11, RunLeavesCalls
  DEF Next, CancelStep, vars

(* Every way out of the spawned task passes the end of the worker's stream *)
(* or a request to the dispatcher; an answer to a cancellation call is one.*)
LEMMA StopStep ==
    TypeInv /\ PhaseInv /\ StopsInv /\ [Next]_vars => StopsInv'
<1> SUFFICES ASSUME TypeInv, PhaseInv, StopsInv, [Next]_vars
             PROVE  StopsInv'
  BY Zenon
<1> USE ExecutorAssumption
<1>a. \A f \in Execs : pc[f] \in {"finalize", "finalPublish"} => "ended" \in marks[f]
  BY Zenon DEF PhaseInv, Phase
<1>b. \A f \in Execs : pc[f] \in {"traceCancel", "sendCancel"} => outcome[f] # "PENDING"
  BY Zenon DEF PhaseInv, Phase
<1> USE DEF At, Goto, CallAt, CallGoto, registry, control, local, channel, calls, TypeInv,
            StopsInv, StopInv
<1>1. ASSUME NEW e \in Execs, ExecuteRefused(e)
      PROVE  StopsInv'
  BY Zenon, <1>1 DEF ExecuteRefused, Emit
<1>2. ASSUME NEW e \in Execs, ExecuteRejected(e)
      PROVE  StopsInv'
  BY Zenon, <1>2 DEF ExecuteRejected
<1>3. ASSUME NEW e \in Execs, ExecuteAccepted(e)
      PROVE  StopsInv'
  BY Zenon, <1>3 DEF ExecuteAccepted
<1>4. ASSUME NEW e \in Execs, Reject(e)
      PROVE  StopsInv'
  <2>1. last' = [last EXCEPT ![e] = "Rejected"] \/ last' = [last EXCEPT ![e] = "Error"]
    BY Zenon, <1>4 DEF Reject, Emit
  <2>2. UNCHANGED marks \/ marks' = [marks EXCEPT ![e] = @ \cup {"traceFailed"}]
    BY Zenon, <1>4 DEF Reject, Mark
  <2>3. UNCHANGED <<outcome, closed>> /\ pc' = [pc EXCEPT ![e] = "done"]
    BY Zenon, <1>4 DEF Reject, Emit
  <2>4. QED
    BY <2>1, <2>2, <2>3
<1>5. ASSUME NEW e \in Execs, SelectClosed(e)
      PROVE  StopsInv'
  BY Zenon, <1>5 DEF SelectClosed
<1>6. ASSUME NEW e \in Execs, SelectCancelled(e)
      PROVE  StopsInv'
  BY Zenon, <1>6 DEF SelectCancelled
<1>7. ASSUME NEW e \in Execs, SelectError(e)
      PROVE  StopsInv'
  BY Zenon, <1>7 DEF SelectError, Selectable, Verdict
<1>8. ASSUME NEW e \in Execs, SelectEvent(e)
      PROVE  StopsInv'
  BY <1>8 DEF SelectEvent, Observe, Selectable, Verdict
<1>9. ASSUME NEW e \in Execs, SelectCompleted(e)
      PROVE  StopsInv'
  <2>1. UNCHANGED marks \/ marks' = [marks EXCEPT ![e] = @ \cup {"proposed"}]
    BY Zenon, <1>9 DEF SelectCompleted, Mark
  <2>2. \E label \in {"claim", "select"} : pc' = [pc EXCEPT ![e] = label]
    BY Zenon, <1>9 DEF SelectCompleted, Observe
  <2>3. UNCHANGED <<outcome, closed, last>>
    BY Zenon, <1>9 DEF SelectCompleted, Observe
  <2>4. QED
    BY <2>1, <2>2, <2>3
<1>10. ASSUME NEW e \in Execs, SelectEnd(e)
      PROVE  StopsInv'
  BY Zenon, <1>10 DEF SelectEnd, Selectable, Mark, Verdict
<1>11. ASSUME NEW e \in Execs, BadEvidence(e)
      PROVE  StopsInv'
  BY Zenon, <1>11 DEF BadEvidence, ClaimExecution, Mark
<1>12. ASSUME NEW e \in Execs, Claim(e)
      PROVE  StopsInv'
  BY <1>12 DEF Claim, ClaimExecution
<1>13. ASSUME NEW e \in Execs, BadArtifact(e)
      PROVE  StopsInv'
  BY <1>13 DEF BadArtifact, ClaimExecution
<1>14. ASSUME NEW e \in Execs, Trace(e)
      PROVE  StopsInv'
  BY <1>14 DEF Trace, RecordTrace, Mark
<1>15. ASSUME NEW e \in Execs, Publish(e)
      PROVE  StopsInv'
  BY Zenon, <1>15 DEF Publish, Emit
<1>16. ASSUME NEW e \in Execs, FinalizeCancelled(e)
      PROVE  StopsInv'
  BY Zenon, <1>a, <1>16 DEF FinalizeCancelled
<1>17. ASSUME NEW e \in Execs, FinalizeDeadline(e)
      PROVE  StopsInv'
  BY <1>a, <1>17 DEF FinalizeDeadline, Verdict, Mark
<1>18. ASSUME NEW e \in Execs, Evaluate(e)
      PROVE  StopsInv'
  BY <1>a, <1>18 DEF Evaluate, ClaimExecution, Verdict
<1>19. ASSUME NEW e \in Execs, FinalTrace(e)
      PROVE  StopsInv'
  BY <1>19 DEF FinalTrace, RecordTrace, Mark
<1>20. ASSUME NEW e \in Execs, FinalPublish(e)
      PROVE  StopsInv'
  BY <1>a, <1>20 DEF FinalPublish, Emit, AfterPublish
<1>21. ASSUME NEW e \in Execs, PublishCancel(e)
      PROVE  StopsInv'
  BY Zenon, <1>21 DEF PublishCancel
<1>22. ASSUME NEW e \in Execs, AwaitCancel(e)
      PROVE  StopsInv'
  BY Zenon, <1>22 DEF AwaitCancel
<1>23. ASSUME NEW e \in Execs, TraceCancel(e)
      PROVE  StopsInv'
  BY <1>b, <1>23 DEF TraceCancel, RecordTrace, Mark, CancellationTerminal
<1>24. ASSUME NEW e \in Execs, SendCancel(e)
      PROVE  StopsInv'
  BY Zenon, <1>b, <1>24 DEF SendCancel, Emit, CancellationTerminal
<1>25. ASSUME NEW e \in Execs, NotifyPublished(e)
      PROVE  StopsInv'
  BY Zenon, <1>25 DEF NotifyPublished
<1>26. ASSUME NEW e \in Execs, Drain(e)
      PROVE  StopsInv'
  BY Zenon, <1>26 DEF Drain, Mark
<1>27. ASSUME NEW e \in Execs, Cleanup(e)
      PROVE  StopsInv'
  BY Zenon, <1>27 DEF Cleanup
<1>28. ASSUME NEW e \in Execs, DropStream(e)
      PROVE  StopsInv'
  BY Zenon, <1>28 DEF DropStream
<1>29. ASSUME NEW e \in Execs, LockForWork(e, "announce", "announceSend")
      PROVE  StopsInv'
  <2>1. \E label \in {"announceSend", "progressSend", "drain"} : pc' = [pc EXCEPT ![e] = label]
    BY Zenon, <1>29 DEF LockForWork
  <2>2. UNCHANGED <<outcome, marks, closed, last>>
    BY Zenon, <1>29 DEF LockForWork
  <2>3. QED
    BY Zenon, <2>1, <2>2
<1>30. ASSUME NEW e \in Execs, SendWork(e, "announceSend")
      PROVE  StopsInv'
  BY Zenon, <1>30 DEF SendWork, Emit, Unlock
<1>31. ASSUME NEW e \in Execs, LockForWork(e, "progress", "progressSend")
      PROVE  StopsInv'
  <2>1. \E label \in {"announceSend", "progressSend", "drain"} : pc' = [pc EXCEPT ![e] = label]
    BY Zenon, <1>31 DEF LockForWork
  <2>2. UNCHANGED <<outcome, marks, closed, last>>
    BY Zenon, <1>31 DEF LockForWork
  <2>3. QED
    BY Zenon, <2>1, <2>2
<1>32. ASSUME NEW e \in Execs, SendWork(e, "progressSend")
      PROVE  StopsInv'
  BY Zenon, <1>32 DEF SendWork, Emit, Unlock
<1>33. ASSUME NEW c \in Cancels, Cancel(c)
      PROVE  StopsInv'
  BY Zenon, <1>33 DEF Cancel
<1>34. ASSUME NEW c \in Cancels, CancelLookup(c)
      PROVE  StopsInv'
  BY Zenon, <1>34 DEF CancelLookup
<1>35. ASSUME NEW c \in Cancels, CancelLock(c)
      PROVE  StopsInv'
  BY Zenon, <1>35 DEF CancelLock, Lock
<1>36. ASSUME NEW c \in Cancels, CancelClaim(c)
      PROVE  StopsInv'
  BY Zenon, <1>36 DEF CancelClaim, Unlock, MayClaimCancel
<1>37. ASSUME NEW c \in Cancels, CancelToken(c)
      PROVE  StopsInv'
  BY Zenon, <1>37 DEF CancelToken, Signal, Unlock
<1>38. ASSUME NEW c \in Cancels, CancelDispatch(c)
      PROVE  StopsInv'
  <2>1. marks' = [marks EXCEPT ![target[c]] = @ \cup {"asked"}]
    BY Zenon, <1>38 DEF CancelDispatch, Mark
  <2>2. \A f \in Execs : outcome'[f] = outcome[f] \/ f = target[c]
    BY Zenon, <1>38 DEF CancelDispatch
  <2>3. target[c] \in Execs => outcome'[target[c]] # "PENDING"
    BY Zenon, <1>38 DEF CancelDispatch, Outcomes
  <2>4. UNCHANGED <<pc, closed, last>>
    BY Zenon, <1>38 DEF CancelDispatch
  <2>5. QED
    BY Zenon, <2>1, <2>2, <2>3, <2>4
<1>39. ASSUME NEW c \in Cancels, CancelNotify(c)
      PROVE  StopsInv'
  BY Zenon, <1>39 DEF CancelNotify, Signal
<1>40. ASSUME NEW c \in Cancels, CancelReturn(c)
      PROVE  StopsInv'
  BY Zenon, <1>40 DEF CancelReturn
<1>41. ASSUME UNCHANGED vars PROVE StopsInv'
  BY Zenon, <1>41 DEF vars
<1> HIDE DEF TypeInv, StopsInv, StopInv
<1>42. QED
  BY Zenon, <1>1, <1>2, <1>3, <1>4, <1>5, <1>6, <1>7, <1>8, <1>9, <1>10, <1>11, <1>12,
     <1>13, <1>14, <1>15, <1>16, <1>17, <1>18, <1>19, <1>20, <1>21, <1>22,
     <1>23, <1>24, <1>25, <1>26, <1>27, <1>28, <1>29, <1>30, <1>31, <1>32,
     <1>33, <1>34, <1>35, <1>36, <1>37, <1>38, <1>39, <1>40, <1>41
  DEF Next, Execute, RunStep, Announce, Progress, SelectStep, OutcomeStep,
      CancelTerminalStep, CancelStep

(* The initial state satisfies the inductive invariant.                    *)
LEMMA InitIInv == Init => IInv
<1> SUFFICES ASSUME Init PROVE IInv
  BY Zenon
<1> USE ExecutorAssumption DEF Init
<1>1. TypeInv
  BY Zenon DEF TypeInv, Outcomes, Signals, RunLabels, Marks, FinalStates, TerminalStates, Events,
         CallLabels
<1>2. PhaseInv
  BY Zenon DEF PhaseInv, Phase, Before, Sending, After, FinalStates, TerminalStates
<1>3. ControlsInv
  BY Zenon DEF ControlsInv, ControlInv
<1>4. CallsInv /\ OneAcceptedCancel
  BY Zenon DEF CallsInv, CallInv, Accepted, PastClaim, OneAcceptedCancel
<1>5. Holding = {} /\ StopsInv
  BY Zenon DEF Holding, StopsInv, StopInv
<1>6. NothingLeaks /\ OverlapInv
  BY <1>5, FS_EmptySet DEF NothingLeaks, OverlapInv
<1>7. QED
  BY Zenon, <1>1, <1>2, <1>3, <1>4, <1>5, <1>6 DEF IInv

(* The inductive invariant holds in every reachable state.                 *)
THEOREM Invariance == Spec => []IInv
<1>1. IInv /\ [Next]_vars => IInv'
  BY Zenon, TypeStep, PhaseStep, ControlsStep, CallsStep, AcceptedStep, LeaksStep,
     StopStep
  DEF IInv
<1>2. QED
  BY <1>1, InitIInv, PTL DEF Spec

(* The state of the executor is always well formed; in particular the      *)
(* semaphore never has more permits than it was created with.              *)
THEOREM TypeCorrect == Spec => []TypeOK
<1>1. IInv => TypeOK
  <2> SUFFICES ASSUME IInv PROVE TypeOK
    BY Zenon
  <2>1. IsFiniteSet(Holding)
    BY Zenon, ExecutorAssumption, FS_Subset DEF Holding
  <2>2. Cardinality(Holding) \in Nat
    BY Zenon, <2>1, FS_CardinalityType
  <2>3. permits \in 0 .. MaxConcurrent
    BY <2>2, ExecutorAssumption DEF IInv, TypeInv, NothingLeaks
  <2>4. QED
    BY Zenon, <2>3 DEF IInv, TypeInv, TypeOK
<1>2. QED
  BY <1>1, Invariance, PTL

(* What is published is what the winner of the compare-and-swap decided:   *)
(* claim_execution and claim_cancel arbitrate every race of completion,    *)
(* failure, deadline and cancellation.                                     *)
THEOREM WinnerCorrect == Spec => []WinnerDecides
<1>1. IInv => WinnerDecides
  BY Zenon DEF IInv, PhaseInv, Phase, WinnerDecides
<1>2. QED
  BY <1>1, Invariance, PTL

(* A terminal event is published only after record_terminal_trace or       *)
(* record_cancellation_terminal_trace recorded the same outcome.           *)
THEOREM TraceCorrect == Spec => []TracedBeforePublished
<1>1. IInv => TracedBeforePublished
  BY Zenon DEF IInv, PhaseInv, Phase, TracedBeforePublished
<1>2. QED
  BY <1>1, Invariance, PTL

(* At most one call of cancel() is accepted for one execution.             *)
THEOREM CancelCorrect == Spec => []OneAcceptedCancel
<1>1. IInv => OneAcceptedCancel
  BY Zenon DEF IInv
<1>2. QED
  BY <1>1, Invariance, PTL

(* No path out of the spawned task leaks its permit, leaves its            *)
(* registration behind or a worker running that nobody asked to stop, and  *)
(* an execution loses its registration only to another one of its task     *)
(* that ran beside it after the request handler had let go of one of them. *)
THEOREM CleanEnd == Spec => []EndsClean
<1>1. IInv => EndsClean
  BY Zenon DEF IInv, StopsInv, StopInv, EndsClean, WorkerStopped, At
<1>2. QED
  BY <1>1, Invariance, PTL

(* What no step does: send after the final event, send progress after the  *)
(* outcome was won, or change a traced outcome.                            *)
SafeStep == OneFinalEvent /\ NoWorkAfterWinner /\ TracedOnce

(* Where the spawned task is tells whether it has sent its final event and *)
(* recorded its outcome, so no action sends or records a second one.       *)
LEMMA StepSafe ==
    TypeInv /\ PhaseInv /\ [Next]_vars => SafeStep
<1> SUFFICES ASSUME TypeInv, PhaseInv, [Next]_vars
             PROVE  SafeStep
  BY Zenon
<1> USE ExecutorAssumption
<1>1. \A f \in Execs : Ended(f) => pc[f] \in After
  BY Zenon DEF PhaseInv, Phase, Ended, FinalStates, TerminalStates
<1>2. \A f \in Execs : pc[f] \in Sending => terminal[f] = "OPEN"
  BY Zenon DEF PhaseInv, Phase
<1>3. \A f \in Execs : pc[f] \in {"reject", "trace", "finalTrace", "traceCancel"} => traced[f] = "none"
  BY Zenon DEF PhaseInv, Phase, Before
<1>4. \A f \in Execs : pc[f] \in {"publish", "finalPublish"} => verdict[f] # "Working"
  BY Zenon DEF PhaseInv, Phase, TypeInv, FinalStates, TerminalStates
<1> USE DEF At, Goto, CallAt, CallGoto, registry, control, local, channel,
            calls, TypeInv, SafeStep, OneFinalEvent, NoWorkAfterWinner, TracedOnce, After,
            Sending, CancellationTerminal
<1>5. ASSUME NEW e \in Execs, ExecuteRefused(e)
      PROVE  SafeStep
  BY Zenon, <1>1, <1>2, <1>3, <1>4, <1>5 DEF ExecuteRefused, Emit
<1>6. ASSUME NEW e \in Execs, ExecuteRejected(e)
      PROVE  SafeStep
  BY Zenon, <1>1, <1>2, <1>3, <1>4, <1>6 DEF ExecuteRejected
<1>7. ASSUME NEW e \in Execs, ExecuteAccepted(e)
      PROVE  SafeStep
  BY Zenon, <1>1, <1>2, <1>3, <1>4, <1>7 DEF ExecuteAccepted
<1>8. ASSUME NEW e \in Execs, Reject(e)
      PROVE  SafeStep
  <2>1. \A f \in Execs : f # e => sent'[f] = sent[f] /\ traced'[f] = traced[f]
    BY <1>8 DEF Reject, Emit
  <2>2. ~Ended(e) /\ traced[e] = "none"
    BY Zenon, <1>1, <1>3, <1>8 DEF Reject
  <2>3. e \notin closed => last'[e] \in {"Rejected", "Error"}
    BY Zenon, <1>8 DEF Reject, Emit
  <2>4. e \in closed => sent'[e] = sent[e]
    BY Zenon, <1>8 DEF Reject, Emit
  <2>5. QED
    BY Zenon, <2>1, <2>2, <2>3, <2>4
<1>9. ASSUME NEW e \in Execs, SelectClosed(e)
      PROVE  SafeStep
  BY Zenon, <1>1, <1>2, <1>3, <1>4, <1>9 DEF SelectClosed
<1>10. ASSUME NEW e \in Execs, SelectCancelled(e)
      PROVE  SafeStep
  BY Zenon, <1>1, <1>2, <1>3, <1>4, <1>10 DEF SelectCancelled
<1>11. ASSUME NEW e \in Execs, SelectError(e)
      PROVE  SafeStep
  BY Zenon, <1>1, <1>2, <1>3, <1>4, <1>11 DEF SelectError, Selectable, Verdict
<1>12. ASSUME NEW e \in Execs, SelectEvent(e)
      PROVE  SafeStep
  BY Zenon, <1>1, <1>2, <1>3, <1>4, <1>12 DEF SelectEvent, Observe, Selectable, Verdict
<1>13. ASSUME NEW e \in Execs, SelectCompleted(e)
      PROVE  SafeStep
  BY Zenon, <1>1, <1>2, <1>3, <1>4, <1>13 DEF SelectCompleted, Observe, Selectable, Verdict, OverBudget, Mark
<1>14. ASSUME NEW e \in Execs, SelectEnd(e)
      PROVE  SafeStep
  BY Zenon, <1>1, <1>2, <1>3, <1>4, <1>14 DEF SelectEnd, Selectable, Mark, Verdict
<1>15. ASSUME NEW e \in Execs, BadEvidence(e)
      PROVE  SafeStep
  BY Zenon, <1>1, <1>2, <1>3, <1>4, <1>15 DEF BadEvidence, ClaimExecution, Mark
<1>16. ASSUME NEW e \in Execs, Claim(e)
      PROVE  SafeStep
  BY Zenon, <1>1, <1>2, <1>3, <1>4, <1>16 DEF Claim, ClaimExecution
<1>17. ASSUME NEW e \in Execs, BadArtifact(e)
      PROVE  SafeStep
  BY Zenon, <1>1, <1>2, <1>3, <1>4, <1>17 DEF BadArtifact, ClaimExecution
<1>18. ASSUME NEW e \in Execs, Trace(e)
      PROVE  SafeStep
  BY <1>1, <1>2, <1>3, <1>4, <1>18 DEF Trace, RecordTrace, Mark
<1>19. ASSUME NEW e \in Execs, Publish(e)
      PROVE  SafeStep
  BY Zenon, <1>1, <1>2, <1>3, <1>4, <1>19 DEF Publish, Emit
<1>20. ASSUME NEW e \in Execs, FinalizeCancelled(e)
      PROVE  SafeStep
  BY Zenon, <1>1, <1>2, <1>3, <1>4, <1>20 DEF FinalizeCancelled
<1>21. ASSUME NEW e \in Execs, FinalizeDeadline(e)
      PROVE  SafeStep
  BY Zenon, <1>1, <1>2, <1>3, <1>4, <1>21 DEF FinalizeDeadline, Verdict, Mark
<1>22. ASSUME NEW e \in Execs, Evaluate(e)
      PROVE  SafeStep
  BY Zenon, <1>1, <1>2, <1>3, <1>4, <1>22 DEF Evaluate, ClaimExecution, Verdict
<1>23. ASSUME NEW e \in Execs, FinalTrace(e)
      PROVE  SafeStep
  BY <1>1, <1>2, <1>3, <1>4, <1>23 DEF FinalTrace, RecordTrace, Mark
<1>24. ASSUME NEW e \in Execs, FinalPublish(e)
      PROVE  SafeStep
  BY Zenon, <1>1, <1>2, <1>3, <1>4, <1>24 DEF FinalPublish, Emit, AfterPublish
<1>25. ASSUME NEW e \in Execs, PublishCancel(e)
      PROVE  SafeStep
  BY Zenon, <1>1, <1>2, <1>3, <1>4, <1>25 DEF PublishCancel
<1>26. ASSUME NEW e \in Execs, AwaitCancel(e)
      PROVE  SafeStep
  BY Zenon, <1>1, <1>2, <1>3, <1>4, <1>26 DEF AwaitCancel
<1>27. ASSUME NEW e \in Execs, TraceCancel(e)
      PROVE  SafeStep
  BY <1>1, <1>2, <1>3, <1>4, <1>27 DEF TraceCancel, RecordTrace, Mark, CancellationTerminal
<1>28. ASSUME NEW e \in Execs, SendCancel(e)
      PROVE  SafeStep
  BY Zenon, <1>1, <1>2, <1>3, <1>4, <1>28 DEF SendCancel, Emit, CancellationTerminal
<1>29. ASSUME NEW e \in Execs, NotifyPublished(e)
      PROVE  SafeStep
  BY Zenon, <1>1, <1>2, <1>3, <1>4, <1>29 DEF NotifyPublished
<1>30. ASSUME NEW e \in Execs, Drain(e)
      PROVE  SafeStep
  BY Zenon, <1>1, <1>2, <1>3, <1>4, <1>30 DEF Drain, Mark
<1>31. ASSUME NEW e \in Execs, Cleanup(e)
      PROVE  SafeStep
  BY Zenon, <1>1, <1>2, <1>3, <1>4, <1>31 DEF Cleanup
<1>32. ASSUME NEW e \in Execs, DropStream(e)
      PROVE  SafeStep
  BY Zenon, <1>1, <1>2, <1>3, <1>4, <1>32 DEF DropStream
<1>33. ASSUME NEW e \in Execs, LockForWork(e, "announce", "announceSend")
      PROVE  SafeStep
  BY Zenon, <1>1, <1>2, <1>3, <1>4, <1>33 DEF LockForWork, MayEmitWork, Lock
<1>34. ASSUME NEW e \in Execs, SendWork(e, "announceSend")
      PROVE  SafeStep
  BY Zenon, <1>1, <1>2, <1>3, <1>4, <1>34 DEF SendWork, Emit, Unlock
<1>35. ASSUME NEW e \in Execs, LockForWork(e, "progress", "progressSend")
      PROVE  SafeStep
  BY Zenon, <1>1, <1>2, <1>3, <1>4, <1>35 DEF LockForWork, MayEmitWork, Lock
<1>36. ASSUME NEW e \in Execs, SendWork(e, "progressSend")
      PROVE  SafeStep
  BY Zenon, <1>1, <1>2, <1>3, <1>4, <1>36 DEF SendWork, Emit, Unlock
<1>37. ASSUME NEW c \in Cancels, Cancel(c)
      PROVE  SafeStep
  BY Zenon, <1>1, <1>2, <1>3, <1>4, <1>37 DEF Cancel
<1>38. ASSUME NEW c \in Cancels, CancelLookup(c)
      PROVE  SafeStep
  BY Zenon, <1>1, <1>2, <1>3, <1>4, <1>38 DEF CancelLookup
<1>39. ASSUME NEW c \in Cancels, CancelLock(c)
      PROVE  SafeStep
  BY Zenon, <1>1, <1>2, <1>3, <1>4, <1>39 DEF CancelLock, Lock
<1>40. ASSUME NEW c \in Cancels, CancelClaim(c)
      PROVE  SafeStep
  BY Zenon, <1>1, <1>2, <1>3, <1>4, <1>40 DEF CancelClaim, Unlock, MayClaimCancel
<1>41. ASSUME NEW c \in Cancels, CancelToken(c)
      PROVE  SafeStep
  BY Zenon, <1>1, <1>2, <1>3, <1>4, <1>41 DEF CancelToken, Signal, Unlock
<1>42. ASSUME NEW c \in Cancels, CancelDispatch(c)
      PROVE  SafeStep
  BY Zenon, <1>1, <1>2, <1>3, <1>4, <1>42 DEF CancelDispatch, Mark
<1>43. ASSUME NEW c \in Cancels, CancelNotify(c)
      PROVE  SafeStep
  BY Zenon, <1>1, <1>2, <1>3, <1>4, <1>43 DEF CancelNotify, Signal
<1>44. ASSUME NEW c \in Cancels, CancelReturn(c)
      PROVE  SafeStep
  BY Zenon, <1>1, <1>2, <1>3, <1>4, <1>44 DEF CancelReturn
<1>45. ASSUME UNCHANGED vars PROVE SafeStep
  BY Zenon, <1>45 DEF vars
<1> HIDE DEF TypeInv, SafeStep, OneFinalEvent, NoWorkAfterWinner, TracedOnce, After, Sending,
            CancellationTerminal
<1>46. QED
  BY Zenon, <1>5, <1>6, <1>7, <1>8, <1>9, <1>10, <1>11, <1>12, <1>13, <1>14, <1>15,
     <1>16, <1>17, <1>18, <1>19, <1>20, <1>21, <1>22, <1>23, <1>24, <1>25,
     <1>26, <1>27, <1>28, <1>29, <1>30, <1>31, <1>32, <1>33, <1>34, <1>35,
     <1>36, <1>37, <1>38, <1>39, <1>40, <1>41, <1>42, <1>43, <1>44, <1>45
  DEF Next, Execute, RunStep, Announce, Progress, SelectStep, OutcomeStep,
      CancelTerminalStep, CancelStep

(* An execution sends nothing after its final event whichever path of the  *)
(* spawned task sent it, send_work_event sends nothing once a cancellation *)
(* or a failure has won, and the outcome that was traced is not replaced.  *)
THEOREM SettledCorrect == Spec => SettledOnce
<1>1. IInv /\ [Next]_vars => [OneFinalEvent /\ NoWorkAfterWinner /\ TracedOnce]_vars
  BY Zenon, StepSafe DEF IInv, SafeStep
<1>2. QED
  BY <1>1, Invariance, PTL DEF Spec, SettledOnce

=============================================================================
