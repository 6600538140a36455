------------------------- MODULE ExecutorStepProofs -------------------------
(***************************************************************************)
(* The inductive invariant of Executor for any number of tasks,            *)
(* executions, cancellation calls, permits and events, and the steps of    *)
(* its proof that follow the control of the spawned task and of the calls. *)
(*                                                                         *)
(* IInv is the inductive invariant.  Phase ties the program counter of the *)
(* spawned task to the winner, the trace and the stream; ControlInv and    *)
(* CallInv tie the control to the call that cancelled it; LockInv is the   *)
(* mutual exclusion of the emission lock, without which a work event could *)
(* be sent after a cancellation has won.                                   *)
(***************************************************************************)
EXTENDS Executor, TLAPS

(* TypeOK, with the bound on the permits left to NothingLeaks.             *)
TypeInv == /\ cancellations \in [Tasks -> Execs \cup {NoExec}]
           /\ permits \in Nat
           /\ terminal \in [Execs -> {"OPEN", "CANCEL", "EXECUTION"}]
           /\ outcome \in [Execs -> Outcomes \cup {"PENDING"}]
           /\ signals \in [Execs -> SUBSET Signals]
           /\ emission \in [Execs -> {"free", "task"} \cup Cancels]
           /\ pc \in [Execs -> RunLabels]
           /\ marks \in [Execs -> SUBSET Marks]
           /\ observed \in [Execs -> Nat]
           /\ verdict \in [Execs -> FinalStates]
           /\ sent \in [Execs -> Nat]
           /\ last \in [Execs -> Events \cup {"none"}]
           /\ closed \subseteq Execs
           /\ traced \in [Execs -> FinalStates \cup {"none"}]
           /\ callPc \in [Cancels -> CallLabels]
           /\ target \in [Cancels -> Execs \cup {NoExec}]
           /\ accepted \subseteq Cancels

Before == {"idle", "reject", "announce", "progress", "select", "badArtifact",
           "badEvidence", "finalize", "announceSend", "progressSend"}
Sending == {"announceSend", "progressSend"}
After == {"notifyPublished", "drain", "cleanup", "done"}

Phase(e) ==
    /\ pc[e] \in Before => terminal[e] # "EXECUTION" /\ traced[e] = "none"
    /\ pc[e] \in {"idle", "reject"} => terminal[e] = "OPEN"
    /\ pc[e] \in Sending => terminal[e] = "OPEN" /\ emission[e] = "task"
    /\ pc[e] \in {"badArtifact", "claim", "trace", "publish"} => verdict[e] = "Failed"
    /\ pc[e] = "claim" /\ terminal[e] = "OPEN" => traced[e] = "none"
    /\ pc[e] \in {"trace", "finalTrace"} => terminal[e] = "EXECUTION" /\ traced[e] = "none"
    /\ pc[e] \in {"publish", "finalPublish"} =>
          terminal[e] = "EXECUTION" /\ traced[e] = verdict[e]
    /\ pc[e] \in {"finalTrace", "finalPublish"} => verdict[e] \notin {"Canceled", "Rejected"}
    /\ pc[e] \in {"finalize", "finalTrace", "finalPublish"} =>
          "proposed" \in marks[e] /\ "ended" \in marks[e]
    /\ pc[e] \in {"publishCancel", "awaitCancel", "traceCancel"} =>
          terminal[e] = "CANCEL" /\ traced[e] = "none"
    /\ pc[e] = "traceCancel" => outcome[e] # "PENDING"
    /\ pc[e] = "sendCancel" =>
          /\ terminal[e] = "CANCEL"
          /\ outcome[e] # "PENDING"
          /\ traced[e] = CancellationTerminal(outcome[e])
    /\ pc[e] \notin After => last[e] \in {"none", "Working"}
    /\ last[e] = "Canceled" => terminal[e] = "CANCEL" /\ outcome[e] = "CANCELED"
    /\ last[e] \in {"Completed", "InputRequired"} =>
          terminal[e] = "EXECUTION" /\ "proposed" \in marks[e] /\ "ended" \in marks[e]
    /\ last[e] \in FinalStates => traced[e] = last[e]

ControlInv(e) ==
    /\ "cancelled" \in signals[e] => terminal[e] = "CANCEL"
    /\ outcome[e] # "PENDING" => terminal[e] = "CANCEL"
    /\ "cancelDone" \in signals[e] => outcome[e] # "PENDING"

(* A call that found a control found one of an execution that had started. *)
CallInv(c) ==
    /\ callPc[c] \notin {"idle", "lookup", "returned"} \/ c \in accepted =>
          target[c] \in Execs /\ pc[target[c]] \notin {"idle", "reject"}
    /\ callPc[c] \in {"claim", "token"} => emission[target[c]] = c
    /\ Accepted(c) => terminal[target[c]] = "CANCEL"
    /\ callPc[c] \in {"token", "dispatch"} => outcome[target[c]] = "PENDING"
    /\ callPc[c] \in {"notify", "await"} \/ c \in accepted => outcome[target[c]] # "PENDING"
    /\ c \in accepted => callPc[c] = "returned"

(* A worker that an execution leaves behind has ended or was asked to.     *)
StopInv(e) ==
    /\ pc[e] \in {"idle", "reject"} => e \notin closed
    /\ outcome[e] # "PENDING" => "asked" \in marks[e]
    /\ pc[e] = "notifyPublished" => outcome[e] # "PENDING"
    /\ pc[e] \in {"cleanup", "done"} => \/ marks[e] \cap {"ended", "asked"} # {}
                                       \/ last[e] \in {"Rejected", "Error"}

(* Two executions of a task run side by side only after the request        *)
(* handler has let go of one of them.                                      *)
OverlapInv ==
    \A e, f \in Holding : e # f /\ TaskOf[e] = TaskOf[f] => Released(e) \/ Released(f)

PhaseInv == \A e \in Execs : Phase(e)
ControlsInv == \A e \in Execs : ControlInv(e)
StopsInv == \A e \in Execs : StopInv(e)
CallsInv == \A c \in Cancels : CallInv(c)

IInv == /\ TypeInv
        /\ PhaseInv
        /\ ControlsInv
        /\ CallsInv
        /\ StopsInv
        /\ OneAcceptedCancel
        /\ OverlapInv
        /\ NothingLeaks

(* The spawned task and the consumer of its stream leave the cancellation  *)
(* calls alone.                                                            *)
LEMMA RunLeavesCalls ==
    ASSUME NEW e \in Execs, Execute(e) \/ RunStep(e) \/ DropStream(e)
    PROVE  UNCHANGED calls
<1>1. Execute(e) => UNCHANGED calls
  BY Zenon DEF Execute, ExecuteRefused, ExecuteRejected, ExecuteAccepted
<1>2. Reject(e) \/ Announce(e) \/ Progress(e) => UNCHANGED calls
  BY Zenon DEF Reject, Announce, Progress, LockForWork, SendWork
<1>3. SelectStep(e) => UNCHANGED calls
  BY Zenon DEF SelectStep, SelectClosed, SelectCancelled, SelectError, SelectEvent,
               SelectCompleted, SelectEnd, Observe
<1>4. OutcomeStep(e) => UNCHANGED calls
  BY Zenon DEF OutcomeStep, BadEvidence, BadArtifact, Claim, Trace, Publish, FinalizeCancelled,
               FinalizeDeadline, Evaluate, FinalTrace, FinalPublish
<1>5. CancelTerminalStep(e) => UNCHANGED calls
  BY Zenon DEF CancelTerminalStep, PublishCancel, AwaitCancel, TraceCancel, SendCancel,
               NotifyPublished
<1>6. Drain(e) \/ Cleanup(e) \/ DropStream(e) => UNCHANGED calls
  BY Zenon DEF Drain, Cleanup, DropStream
<1>7. QED
  BY Zenon, <1>1, <1>2, <1>3, <1>4, <1>5, <1>6 DEF RunStep

(* Every step keeps the state well formed.                                 *)
LEMMA TypeStep ==
    TypeInv /\ [Next]_vars => TypeInv'
<1> SUFFICES ASSUME TypeInv, [Next]_vars
             PROVE  TypeInv'
  BY Zenon
<1> USE ExecutorAssumption
<1> USE DEF At, Goto, CallAt, CallGoto, registry, control, local, channel,
            calls, TypeInv, Outcomes, Signals, RunLabels, Marks, FinalStates,
            TerminalStates, Events, CallLabels
<1>1. ASSUME NEW e \in Execs, ExecuteRefused(e)
      PROVE  TypeInv'
  BY <1>1 DEF ExecuteRefused, Emit
<1>2. ASSUME NEW e \in Execs, ExecuteRejected(e)
      PROVE  TypeInv'
  BY Zenon, <1>2 DEF ExecuteRejected
<1>3. ASSUME NEW e \in Execs, ExecuteAccepted(e)
      PROVE  TypeInv'
  BY <1>3 DEF ExecuteAccepted
<1>4. ASSUME NEW e \in Execs, Reject(e)
      PROVE  TypeInv'
  <2>1. ASSUME Emit(e, "Rejected") \/ Emit(e, "Error")
        PROVE  /\ last' \in [Execs -> Events \cup {"none"}]
               /\ sent' \in [Execs -> Nat]
               /\ UNCHANGED closed
    <3>1. CASE Emit(e, "Rejected")
      BY <3>1 DEF Emit
    <3>2. CASE Emit(e, "Error")
      BY <3>2 DEF Emit
    <3>3. QED
      BY Zenon, <2>1, <3>1, <3>2
  <2>2. traced' \in [Execs -> FinalStates \cup {"none"}] /\ marks' \in [Execs -> SUBSET Marks]
    BY <1>4 DEF Reject, Mark
  <2>3. pc' \in [Execs -> RunLabels]
    BY Zenon, <1>4 DEF Reject
  <2>4. QED
    BY Zenon, <1>4, <2>1, <2>2, <2>3 DEF Reject
<1>5. ASSUME NEW e \in Execs, SelectClosed(e)
      PROVE  TypeInv'
  BY Zenon, <1>5 DEF SelectClosed
<1>6. ASSUME NEW e \in Execs, SelectCancelled(e)
      PROVE  TypeInv'
  BY Zenon, <1>6 DEF SelectCancelled
<1>7. ASSUME NEW e \in Execs, SelectError(e)
      PROVE  TypeInv'
  BY Zenon, <1>7 DEF SelectError, Selectable, Verdict
<1>8. ASSUME NEW e \in Execs, SelectEvent(e)
      PROVE  TypeInv'
  BY <1>8 DEF SelectEvent, Observe, Selectable, Verdict
<1>9. ASSUME NEW e \in Execs, SelectCompleted(e)
      PROVE  TypeInv'
  BY <1>9 DEF SelectCompleted, Observe, Selectable, Verdict, OverBudget, Mark
<1>10. ASSUME NEW e \in Execs, SelectEnd(e)
      PROVE  TypeInv'
  BY Zenon, <1>10 DEF SelectEnd, Selectable, Mark, Verdict
<1>11. ASSUME NEW e \in Execs, BadEvidence(e)
      PROVE  TypeInv'
  BY <1>11 DEF BadEvidence, ClaimExecution, Mark
<1>12. ASSUME NEW e \in Execs, Claim(e)
      PROVE  TypeInv'
  BY <1>12 DEF Claim, ClaimExecution
<1>13. ASSUME NEW e \in Execs, BadArtifact(e)
      PROVE  TypeInv'
  BY <1>13 DEF BadArtifact, ClaimExecution
<1>14. ASSUME NEW e \in Execs, Trace(e)
      PROVE  TypeInv'
  BY <1>14 DEF Trace, RecordTrace, Mark
<1>15. ASSUME NEW e \in Execs, Publish(e)
      PROVE  TypeInv'
  BY <1>15 DEF Publish, Emit
<1>16. ASSUME NEW e \in Execs, FinalizeCancelled(e)
      PROVE  TypeInv'
  BY Zenon, <1>16 DEF FinalizeCancelled
<1>17. ASSUME NEW e \in Execs, FinalizeDeadline(e)
      PROVE  TypeInv'
  BY <1>17 DEF FinalizeDeadline, Verdict, Mark
<1>18. ASSUME NEW e \in Execs, Evaluate(e)
      PROVE  TypeInv'
  BY <1>18 DEF Evaluate, ClaimExecution, Verdict
<1>19. ASSUME NEW e \in Execs, FinalTrace(e)
      PROVE  TypeInv'
  BY <1>19 DEF FinalTrace, RecordTrace, Mark
<1>20. ASSUME NEW e \in Execs, FinalPublish(e)
      PROVE  TypeInv'
  BY <1>20 DEF FinalPublish, Emit, AfterPublish
<1>21. ASSUME NEW e \in Execs, PublishCancel(e)
      PROVE  TypeInv'
  BY Zenon, <1>21 DEF PublishCancel
<1>22. ASSUME NEW e \in Execs, AwaitCancel(e)
      PROVE  TypeInv'
  BY Zenon, <1>22 DEF AwaitCancel
<1>23. ASSUME NEW e \in Execs, TraceCancel(e)
      PROVE  TypeInv'
  <2>1. traced' \in [Execs -> FinalStates \cup {"none"}]
    BY <1>23 DEF TraceCancel, RecordTrace, CancellationTerminal
  <2>2. marks' \in [Execs -> SUBSET Marks] /\ pc' \in [Execs -> RunLabels]
    BY <1>23 DEF TraceCancel, RecordTrace, Mark
  <2> QED
    BY Zenon, <1>23, <2>1, <2>2 DEF TraceCancel
<1>24. ASSUME NEW e \in Execs, SendCancel(e)
      PROVE  TypeInv'
  BY <1>24 DEF SendCancel, Emit, CancellationTerminal
<1>25. ASSUME NEW e \in Execs, NotifyPublished(e)
      PROVE  TypeInv'
  BY Zenon, <1>25 DEF NotifyPublished
<1>26. ASSUME NEW e \in Execs, Drain(e)
      PROVE  TypeInv'
  BY Zenon, <1>26 DEF Drain, Mark
<1>27. ASSUME NEW e \in Execs, Cleanup(e)
      PROVE  TypeInv'
  BY <1>27 DEF Cleanup
<1>28. ASSUME NEW e \in Execs, DropStream(e)
      PROVE  TypeInv'
  BY Zenon, <1>28 DEF DropStream
<1>29. ASSUME NEW e \in Execs, LockForWork(e, "announce", "announceSend")
      PROVE  TypeInv'
  BY <1>29 DEF LockForWork, MayEmitWork, Lock
<1>30. ASSUME NEW e \in Execs, SendWork(e, "announceSend")
      PROVE  TypeInv'
  BY <1>30 DEF SendWork, Emit, Unlock
<1>31. ASSUME NEW e \in Execs, LockForWork(e, "progress", "progressSend")
      PROVE  TypeInv'
  BY <1>31 DEF LockForWork, MayEmitWork, Lock
<1>32. ASSUME NEW e \in Execs, SendWork(e, "progressSend")
      PROVE  TypeInv'
  BY <1>32 DEF SendWork, Emit, Unlock
<1>33. ASSUME NEW c \in Cancels, Cancel(c)
      PROVE  TypeInv'
  BY Zenon, <1>33 DEF Cancel
<1>34. ASSUME NEW c \in Cancels, CancelLookup(c)
      PROVE  TypeInv'
  BY Zenon, <1>34 DEF CancelLookup
<1>35. ASSUME NEW c \in Cancels, CancelLock(c)
      PROVE  TypeInv'
  BY Zenon, <1>35 DEF CancelLock, Lock
<1>36. ASSUME NEW c \in Cancels, CancelClaim(c)
      PROVE  TypeInv'
  <2>1. terminal' \in [Execs -> {"OPEN", "CANCEL", "EXECUTION"}]
    BY <1>36 DEF CancelClaim
  <2>2. emission' \in [Execs -> {"free", "task"} \cup Cancels] /\ callPc' \in [Cancels -> CallLabels]
    BY <1>36 DEF CancelClaim, Unlock
  <2> QED
    BY Zenon, <1>36, <2>1, <2>2 DEF CancelClaim
<1>37. ASSUME NEW c \in Cancels, CancelToken(c)
      PROVE  TypeInv'
  BY Zenon, <1>37 DEF CancelToken, Signal, Unlock
<1>38. ASSUME NEW c \in Cancels, CancelDispatch(c)
      PROVE  TypeInv'
  <2>1. PICK answer \in Outcomes : outcome' = [outcome EXCEPT ![target[c]] = answer]
    BY Zenon, <1>38 DEF CancelDispatch
  <2>2. outcome' \in [Execs -> Outcomes \cup {"PENDING"}]
    BY Zenon, <2>1
  <2>3. marks' \in [Execs -> SUBSET Marks]
    BY Zenon, <1>38 DEF CancelDispatch, Mark
  <2>4. callPc' \in [Cancels -> CallLabels]
    BY Zenon, <1>38 DEF CancelDispatch
  <2> QED
    BY Zenon, <1>38, <2>2, <2>3, <2>4 DEF CancelDispatch
<1>39. ASSUME NEW c \in Cancels, CancelNotify(c)
      PROVE  TypeInv'
  BY Zenon, <1>39 DEF CancelNotify, Signal
<1>40. ASSUME NEW c \in Cancels, CancelReturn(c)
      PROVE  TypeInv'
  BY Zenon, <1>40 DEF CancelReturn
<1>41. ASSUME UNCHANGED vars PROVE TypeInv'
  BY Zenon, <1>41 DEF vars
<1>42. QED
  BY Zenon, <1>1, <1>2, <1>3, <1>4, <1>5, <1>6, <1>7, <1>8, <1>9, <1>10, <1>11, <1>12,
     <1>13, <1>14, <1>15, <1>16, <1>17, <1>18, <1>19, <1>20, <1>21, <1>22,
     <1>23, <1>24, <1>25, <1>26, <1>27, <1>28, <1>29, <1>30, <1>31, <1>32,
     <1>33, <1>34, <1>35, <1>36, <1>37, <1>38, <1>39, <1>40, <1>41
  DEF Next, Execute, RunStep, Announce, Progress, SelectStep, OutcomeStep,
      CancelTerminalStep, CancelStep

(* The spawned task moves only between labels whose facts it established,  *)
(* and no cancellation call disturbs them: a call that claims the outcome  *)
(* holds the emission lock, so the task is not sending.                    *)
LEMMA PhaseStep ==
    TypeInv /\ PhaseInv /\ ControlsInv /\ CallsInv /\ [Next]_vars => PhaseInv'
<1> SUFFICES ASSUME TypeInv, PhaseInv, ControlsInv, CallsInv, [Next]_vars
             PROVE  PhaseInv'
  BY Zenon
<1> USE ExecutorAssumption
<1> USE DEF At, Goto, CallAt, CallGoto, registry, control, local, channel,
            calls, TypeInv, Outcomes, Signals, RunLabels, Marks, FinalStates,
            TerminalStates, Events, CallLabels, PhaseInv, Phase, Before,
            Sending, After, ControlsInv, ControlInv, CallsInv, CallInv,
            Accepted, PastClaim, CancellationTerminal
<1>1. ASSUME NEW e \in Execs, ExecuteRefused(e)
      PROVE  PhaseInv'
  BY <1>1 DEF ExecuteRefused, Emit
<1>2. ASSUME NEW e \in Execs, ExecuteRejected(e)
      PROVE  PhaseInv'
  BY <1>2 DEF ExecuteRejected
<1>3. ASSUME NEW e \in Execs, ExecuteAccepted(e)
      PROVE  PhaseInv'
  BY <1>3 DEF ExecuteAccepted
<1>4. ASSUME NEW e \in Execs, Reject(e)
      PROVE  PhaseInv'
  BY <1>4 DEF Reject, Emit, Mark
<1>5. ASSUME NEW e \in Execs, SelectClosed(e)
      PROVE  PhaseInv'
  BY <1>5 DEF SelectClosed
<1>6. ASSUME NEW e \in Execs, SelectCancelled(e)
      PROVE  PhaseInv'
  BY <1>6 DEF SelectCancelled
<1>7. ASSUME NEW e \in Execs, SelectError(e)
      PROVE  PhaseInv'
  BY <1>7 DEF SelectError, Selectable, Verdict
<1>8. ASSUME NEW e \in Execs, SelectEvent(e)
      PROVE  PhaseInv'
  BY <1>8 DEF SelectEvent, Observe, Selectable, Verdict
<1>9. ASSUME NEW e \in Execs, SelectCompleted(e)
      PROVE  PhaseInv'
  BY <1>9 DEF SelectCompleted, Observe, Selectable, Verdict, OverBudget, Mark
<1>10. ASSUME NEW e \in Execs, SelectEnd(e)
      PROVE  PhaseInv'
  BY <1>10 DEF SelectEnd, Selectable, Mark, Verdict
<1>11. ASSUME NEW e \in Execs, BadEvidence(e)
      PROVE  PhaseInv'
  BY <1>11 DEF BadEvidence, ClaimExecution, Mark
<1>12. ASSUME NEW e \in Execs, Claim(e)
      PROVE  PhaseInv'
  BY <1>12 DEF Claim, ClaimExecution
<1>13. ASSUME NEW e \in Execs, BadArtifact(e)
      PROVE  PhaseInv'
  BY <1>13 DEF BadArtifact, ClaimExecution
<1>14. ASSUME NEW e \in Execs, Trace(e)
      PROVE  PhaseInv'
  BY <1>14 DEF Trace, RecordTrace, Mark
<1>15. ASSUME NEW e \in Execs, Publish(e)
      PROVE  PhaseInv'
  BY <1>15 DEF Publish, Emit
<1>16. ASSUME NEW e \in Execs, FinalizeCancelled(e)
      PROVE  PhaseInv'
  BY <1>16 DEF FinalizeCancelled
<1>17. ASSUME NEW e \in Execs, FinalizeDeadline(e)
      PROVE  PhaseInv'
  BY <1>17 DEF FinalizeDeadline, Verdict, Mark
<1>18. ASSUME NEW e \in Execs, Evaluate(e)
      PROVE  PhaseInv'
  BY <1>18 DEF Evaluate, ClaimExecution, Verdict
<1>19. ASSUME NEW e \in Execs, FinalTrace(e)
      PROVE  PhaseInv'
  BY <1>19 DEF FinalTrace, RecordTrace, Mark
<1>20. ASSUME NEW e \in Execs, FinalPublish(e)
      PROVE  PhaseInv'
  BY <1>20 DEF FinalPublish, Emit, AfterPublish
<1>21. ASSUME NEW e \in Execs, PublishCancel(e)
      PROVE  PhaseInv'
  BY <1>21 DEF PublishCancel
<1>22. ASSUME NEW e \in Execs, AwaitCancel(e)
      PROVE  PhaseInv'
  BY <1>22 DEF AwaitCancel
<1>23. ASSUME NEW e \in Execs, TraceCancel(e)
      PROVE  PhaseInv'
  BY <1>23 DEF TraceCancel, RecordTrace, Mark
<1>24. ASSUME NEW e \in Execs, SendCancel(e)
      PROVE  PhaseInv'
  BY <1>24 DEF SendCancel, Emit
<1>25. ASSUME NEW e \in Execs, NotifyPublished(e)
      PROVE  PhaseInv'
  BY <1>25 DEF NotifyPublished
<1>26. ASSUME NEW e \in Execs, Drain(e)
      PROVE  PhaseInv'
  BY <1>26 DEF Drain, Mark
<1>27. ASSUME NEW e \in Execs, Cleanup(e)
      PROVE  PhaseInv'
  BY <1>27 DEF Cleanup
<1>28. ASSUME NEW e \in Execs, DropStream(e)
      PROVE  PhaseInv'
  BY <1>28 DEF DropStream
<1>29. ASSUME NEW e \in Execs, LockForWork(e, "announce", "announceSend")
      PROVE  PhaseInv'
  BY <1>29 DEF LockForWork, MayEmitWork, Lock
<1>30. ASSUME NEW e \in Execs, SendWork(e, "announceSend")
      PROVE  PhaseInv'
  BY <1>30 DEF SendWork, Emit, Unlock
<1>31. ASSUME NEW e \in Execs, LockForWork(e, "progress", "progressSend")
      PROVE  PhaseInv'
  BY <1>31 DEF LockForWork, MayEmitWork, Lock
<1>32. ASSUME NEW e \in Execs, SendWork(e, "progressSend")
      PROVE  PhaseInv'
  BY <1>32 DEF SendWork, Emit, Unlock
<1>33. ASSUME NEW c \in Cancels, Cancel(c)
      PROVE  PhaseInv'
  BY <1>33 DEF Cancel
<1>34. ASSUME NEW c \in Cancels, CancelLookup(c)
      PROVE  PhaseInv'
  BY <1>34 DEF CancelLookup
<1>35. ASSUME NEW c \in Cancels, CancelLock(c)
      PROVE  PhaseInv'
  BY <1>35 DEF CancelLock, Lock
<1>36. ASSUME NEW c \in Cancels, CancelClaim(c)
      PROVE  PhaseInv'
  BY <1>36 DEF CancelClaim, Unlock, MayClaimCancel
<1>37. ASSUME NEW c \in Cancels, CancelToken(c)
      PROVE  PhaseInv'
  BY <1>37 DEF CancelToken, Signal, Unlock
<1>38. ASSUME NEW c \in Cancels, CancelDispatch(c)
      PROVE  PhaseInv'
  BY <1>38 DEF CancelDispatch, Mark
<1>39. ASSUME NEW c \in Cancels, CancelNotify(c)
      PROVE  PhaseInv'
  BY <1>39 DEF CancelNotify, Signal
<1>40. ASSUME NEW c \in Cancels, CancelReturn(c)
      PROVE  PhaseInv'
  BY <1>40 DEF CancelReturn
<1>41. ASSUME UNCHANGED vars PROVE PhaseInv'
  BY <1>41 DEF vars
<1> HIDE DEF PhaseInv, Phase, Before, Sending, After, ControlsInv, ControlInv,
             CallsInv, CallInv, Accepted, PastClaim
<1>42. QED
  BY Zenon, <1>1, <1>2, <1>3, <1>4, <1>5, <1>6, <1>7, <1>8, <1>9, <1>10, <1>11, <1>12,
     <1>13, <1>14, <1>15, <1>16, <1>17, <1>18, <1>19, <1>20, <1>21, <1>22,
     <1>23, <1>24, <1>25, <1>26, <1>27, <1>28, <1>29, <1>30, <1>31, <1>32,
     <1>33, <1>34, <1>35, <1>36, <1>37, <1>38, <1>39, <1>40, <1>41
  DEF Next, Execute, RunStep, Announce, Progress, SelectStep, OutcomeStep,
      CancelTerminalStep, CancelStep

(* Token, answer and notification appear only on a control that a          *)
(* cancellation has won.                                                   *)
LEMMA ControlsStep ==
    TypeInv /\ PhaseInv /\ ControlsInv /\ CallsInv /\ [Next]_vars => ControlsInv'
<1> SUFFICES ASSUME TypeInv, PhaseInv, ControlsInv, CallsInv, [Next]_vars
             PROVE  ControlsInv'
  BY Zenon
<1> USE ExecutorAssumption
<1> USE DEF At, Goto, CallAt, CallGoto, registry, control, local, channel,
            calls, TypeInv, Outcomes, Signals, RunLabels, Marks, FinalStates,
            TerminalStates, Events, CallLabels, PhaseInv, Phase, Before,
            Sending, After, ControlsInv, ControlInv, CallsInv, CallInv,
            Accepted, PastClaim
<1>1. ASSUME NEW e \in Execs, ExecuteRefused(e)
      PROVE  ControlsInv'
  BY Zenon, <1>1 DEF ExecuteRefused, Emit
<1>2. ASSUME NEW e \in Execs, ExecuteRejected(e)
      PROVE  ControlsInv'
  BY Zenon, <1>2 DEF ExecuteRejected
<1>3. ASSUME NEW e \in Execs, ExecuteAccepted(e)
      PROVE  ControlsInv'
  BY Zenon, <1>3 DEF ExecuteAccepted
<1>4. ASSUME NEW e \in Execs, Reject(e)
      PROVE  ControlsInv'
  BY Zenon, <1>4 DEF Reject, Emit, Mark
<1>5. ASSUME NEW e \in Execs, SelectClosed(e)
      PROVE  ControlsInv'
  BY Zenon, <1>5 DEF SelectClosed
<1>6. ASSUME NEW e \in Execs, SelectCancelled(e)
      PROVE  ControlsInv'
  BY Zenon, <1>6 DEF SelectCancelled
<1>7. ASSUME NEW e \in Execs, SelectError(e)
      PROVE  ControlsInv'
  BY Zenon, <1>7 DEF SelectError, Selectable, Verdict
<1>8. ASSUME NEW e \in Execs, SelectEvent(e)
      PROVE  ControlsInv'
  BY <1>8 DEF SelectEvent, Observe, Selectable, Verdict
<1>9. ASSUME NEW e \in Execs, SelectCompleted(e)
      PROVE  ControlsInv'
  BY <1>9 DEF SelectCompleted, Observe, Selectable, Verdict, OverBudget, Mark
<1>10. ASSUME NEW e \in Execs, SelectEnd(e)
      PROVE  ControlsInv'
  BY Zenon, <1>10 DEF SelectEnd, Selectable, Mark, Verdict
<1>11. ASSUME NEW e \in Execs, BadEvidence(e)
      PROVE  ControlsInv'
  BY <1>11 DEF BadEvidence, ClaimExecution, Mark
<1>12. ASSUME NEW e \in Execs, Claim(e)
      PROVE  ControlsInv'
  BY <1>12 DEF Claim, ClaimExecution
<1>13. ASSUME NEW e \in Execs, BadArtifact(e)
      PROVE  ControlsInv'
  BY <1>13 DEF BadArtifact, ClaimExecution
<1>14. ASSUME NEW e \in Execs, Trace(e)
      PROVE  ControlsInv'
  BY Zenon, <1>14 DEF Trace, RecordTrace, Mark
<1>15. ASSUME NEW e \in Execs, Publish(e)
      PROVE  ControlsInv'
  BY Zenon, <1>15 DEF Publish, Emit
<1>16. ASSUME NEW e \in Execs, FinalizeCancelled(e)
      PROVE  ControlsInv'
  BY Zenon, <1>16 DEF FinalizeCancelled
<1>17. ASSUME NEW e \in Execs, FinalizeDeadline(e)
      PROVE  ControlsInv'
  BY Zenon, <1>17 DEF FinalizeDeadline, Verdict, Mark
<1>18. ASSUME NEW e \in Execs, Evaluate(e)
      PROVE  ControlsInv'
  BY <1>18 DEF Evaluate, ClaimExecution, Verdict
<1>19. ASSUME NEW e \in Execs, FinalTrace(e)
      PROVE  ControlsInv'
  BY Zenon, <1>19 DEF FinalTrace, RecordTrace, Mark
<1>20. ASSUME NEW e \in Execs, FinalPublish(e)
      PROVE  ControlsInv'
  BY Zenon, <1>20 DEF FinalPublish, Emit, AfterPublish
<1>21. ASSUME NEW e \in Execs, PublishCancel(e)
      PROVE  ControlsInv'
  BY Zenon, <1>21 DEF PublishCancel
<1>22. ASSUME NEW e \in Execs, AwaitCancel(e)
      PROVE  ControlsInv'
  BY <1>22 DEF AwaitCancel
<1>23. ASSUME NEW e \in Execs, TraceCancel(e)
      PROVE  ControlsInv'
  BY Zenon, <1>23 DEF TraceCancel, RecordTrace, Mark, CancellationTerminal
<1>24. ASSUME NEW e \in Execs, SendCancel(e)
      PROVE  ControlsInv'
  BY Zenon, <1>24 DEF SendCancel, Emit, CancellationTerminal
<1>25. ASSUME NEW e \in Execs, NotifyPublished(e)
      PROVE  ControlsInv'
  BY Zenon, <1>25 DEF NotifyPublished
<1>26. ASSUME NEW e \in Execs, Drain(e)
      PROVE  ControlsInv'
  BY Zenon, <1>26 DEF Drain, Mark
<1>27. ASSUME NEW e \in Execs, Cleanup(e)
      PROVE  ControlsInv'
  BY Zenon, <1>27 DEF Cleanup
<1>28. ASSUME NEW e \in Execs, DropStream(e)
      PROVE  ControlsInv'
  BY Zenon, <1>28 DEF DropStream
<1>29. ASSUME NEW e \in Execs, LockForWork(e, "announce", "announceSend")
      PROVE  ControlsInv'
  BY Zenon, <1>29 DEF LockForWork, MayEmitWork, Lock
<1>30. ASSUME NEW e \in Execs, SendWork(e, "announceSend")
      PROVE  ControlsInv'
  BY Zenon, <1>30 DEF SendWork, Emit, Unlock
<1>31. ASSUME NEW e \in Execs, LockForWork(e, "progress", "progressSend")
      PROVE  ControlsInv'
  BY Zenon, <1>31 DEF LockForWork, MayEmitWork, Lock
<1>32. ASSUME NEW e \in Execs, SendWork(e, "progressSend")
      PROVE  ControlsInv'
  BY Zenon, <1>32 DEF SendWork, Emit, Unlock
<1>33. ASSUME NEW c \in Cancels, Cancel(c)
      PROVE  ControlsInv'
  BY Zenon, <1>33 DEF Cancel
<1>34. ASSUME NEW c \in Cancels, CancelLookup(c)
      PROVE  ControlsInv'
  BY Zenon, <1>34 DEF CancelLookup
<1>35. ASSUME NEW c \in Cancels, CancelLock(c)
      PROVE  ControlsInv'
  BY Zenon, <1>35 DEF CancelLock, Lock
<1>36. ASSUME NEW c \in Cancels, CancelClaim(c)
      PROVE  ControlsInv'
  BY <1>36 DEF CancelClaim, Unlock, MayClaimCancel
<1>37. ASSUME NEW c \in Cancels, CancelToken(c)
      PROVE  ControlsInv'
  BY <1>37 DEF CancelToken, Signal, Unlock
<1>38. ASSUME NEW c \in Cancels, CancelDispatch(c)
      PROVE  ControlsInv'
  BY <1>38 DEF CancelDispatch, Mark
<1>39. ASSUME NEW c \in Cancels, CancelNotify(c)
      PROVE  ControlsInv'
  BY <1>39 DEF CancelNotify, Signal
<1>40. ASSUME NEW c \in Cancels, CancelReturn(c)
      PROVE  ControlsInv'
  BY Zenon, <1>40 DEF CancelReturn
<1>41. ASSUME UNCHANGED vars PROVE ControlsInv'
  BY Zenon, <1>41 DEF vars
<1> HIDE DEF PhaseInv, Phase, Before, Sending, After, ControlsInv, ControlInv,
             CallsInv, CallInv, Accepted, PastClaim
<1>42. QED
  BY Zenon, <1>1, <1>2, <1>3, <1>4, <1>5, <1>6, <1>7, <1>8, <1>9, <1>10, <1>11, <1>12,
     <1>13, <1>14, <1>15, <1>16, <1>17, <1>18, <1>19, <1>20, <1>21, <1>22,
     <1>23, <1>24, <1>25, <1>26, <1>27, <1>28, <1>29, <1>30, <1>31, <1>32,
     <1>33, <1>34, <1>35, <1>36, <1>37, <1>38, <1>39, <1>40, <1>41
  DEF Next, Execute, RunStep, Announce, Progress, SelectStep, OutcomeStep,
      CancelTerminalStep, CancelStep

(* What a cancellation call knows of its target stays true.                *)
LEMMA CallsStep ==
    TypeInv /\ PhaseInv /\ ControlsInv /\ CallsInv /\ OneAcceptedCancel /\ NothingLeaks /\ [Next]_vars => CallsInv'
<1> SUFFICES ASSUME TypeInv, PhaseInv, ControlsInv, CallsInv, OneAcceptedCancel,
                    NothingLeaks, [Next]_vars
             PROVE  CallsInv'
  BY Zenon
<1> USE ExecutorAssumption
<1>1. \A e \in Execs : pc[e] \in {"announceSend", "progressSend"} => emission[e] = "task"
  BY Zenon DEF PhaseInv, Phase, Sending
<1>2. \A e \in Execs : outcome[e] # "PENDING" => terminal[e] = "CANCEL"
  BY Zenon DEF ControlsInv, ControlInv
<1>3. \A t \in Tasks : cancellations[t] \in Execs => pc[cancellations[t]] \notin {"idle", "reject"}
  BY Zenon DEF NothingLeaks, Holding
<1> USE DEF At, Goto, CallAt, CallGoto, registry, control, local, channel,
            calls, TypeInv, CallsInv, CallInv, Accepted, PastClaim,
            OneAcceptedCancel
<1>4. ASSUME NEW e \in Execs, ExecuteRefused(e)
      PROVE  CallsInv'
  BY Zenon, <1>1, <1>2, <1>3, <1>4 DEF ExecuteRefused, Emit
<1>5. ASSUME NEW e \in Execs, ExecuteRejected(e)
      PROVE  CallsInv'
  BY <1>1, <1>2, <1>3, <1>5 DEF ExecuteRejected
<1>6. ASSUME NEW e \in Execs, ExecuteAccepted(e)
      PROVE  CallsInv'
  BY Zenon, <1>1, <1>2, <1>3, <1>6 DEF ExecuteAccepted
<1>7. ASSUME NEW e \in Execs, Reject(e)
      PROVE  CallsInv'
  BY Zenon, <1>1, <1>2, <1>3, <1>7 DEF Reject, Emit, Mark
<1>8. ASSUME NEW e \in Execs, SelectClosed(e)
      PROVE  CallsInv'
  BY Zenon, <1>1, <1>2, <1>3, <1>8 DEF SelectClosed
<1>9. ASSUME NEW e \in Execs, SelectCancelled(e)
      PROVE  CallsInv'
  BY Zenon, <1>1, <1>2, <1>3, <1>9 DEF SelectCancelled
<1>10. ASSUME NEW e \in Execs, SelectError(e)
      PROVE  CallsInv'
  BY Zenon, <1>1, <1>2, <1>3, <1>10 DEF SelectError, Selectable, Verdict
<1>11. ASSUME NEW e \in Execs, SelectEvent(e)
      PROVE  CallsInv'
  BY <1>1, <1>2, <1>3, <1>11 DEF SelectEvent, Observe, Selectable, Verdict
<1>12. ASSUME NEW e \in Execs, SelectCompleted(e)
      PROVE  CallsInv'
  BY <1>1, <1>2, <1>3, <1>12 DEF SelectCompleted, Observe, Selectable, Verdict, OverBudget, Mark
<1>13. ASSUME NEW e \in Execs, SelectEnd(e)
      PROVE  CallsInv'
  BY Zenon, <1>1, <1>2, <1>3, <1>13 DEF SelectEnd, Selectable, Mark, Verdict
<1>14. ASSUME NEW e \in Execs, BadEvidence(e)
      PROVE  CallsInv'
  BY <1>1, <1>2, <1>3, <1>14 DEF BadEvidence, ClaimExecution, Mark
<1>15. ASSUME NEW e \in Execs, Claim(e)
      PROVE  CallsInv'
  BY <1>1, <1>2, <1>3, <1>15 DEF Claim, ClaimExecution
<1>16. ASSUME NEW e \in Execs, BadArtifact(e)
      PROVE  CallsInv'
  BY <1>1, <1>2, <1>3, <1>16 DEF BadArtifact, ClaimExecution
<1>17. ASSUME NEW e \in Execs, Trace(e)
      PROVE  CallsInv'
  BY <1>1, <1>2, <1>3, <1>17 DEF Trace, RecordTrace, Mark
<1>18. ASSUME NEW e \in Execs, Publish(e)
      PROVE  CallsInv'
  BY Zenon, <1>1, <1>2, <1>3, <1>18 DEF Publish, Emit
<1>19. ASSUME NEW e \in Execs, FinalizeCancelled(e)
      PROVE  CallsInv'
  BY Zenon, <1>1, <1>2, <1>3, <1>19 DEF FinalizeCancelled
<1>20. ASSUME NEW e \in Execs, FinalizeDeadline(e)
      PROVE  CallsInv'
  BY Zenon, <1>1, <1>2, <1>3, <1>20 DEF FinalizeDeadline, Verdict, Mark
<1>21. ASSUME NEW e \in Execs, Evaluate(e)
      PROVE  CallsInv'
  BY <1>1, <1>2, <1>3, <1>21 DEF Evaluate, ClaimExecution, Verdict
<1>22. ASSUME NEW e \in Execs, FinalTrace(e)
      PROVE  CallsInv'
  BY <1>1, <1>2, <1>3, <1>22 DEF FinalTrace, RecordTrace, Mark
<1>23. ASSUME NEW e \in Execs, FinalPublish(e)
      PROVE  CallsInv'
  BY <1>1, <1>2, <1>3, <1>23 DEF FinalPublish, Emit, AfterPublish
<1>24. ASSUME NEW e \in Execs, PublishCancel(e)
      PROVE  CallsInv'
  BY Zenon, <1>1, <1>2, <1>3, <1>24 DEF PublishCancel
<1>25. ASSUME NEW e \in Execs, AwaitCancel(e)
      PROVE  CallsInv'
  BY Zenon, <1>1, <1>2, <1>3, <1>25 DEF AwaitCancel
<1>26. ASSUME NEW e \in Execs, TraceCancel(e)
      PROVE  CallsInv'
  BY <1>1, <1>2, <1>3, <1>26 DEF TraceCancel, RecordTrace, Mark, CancellationTerminal
<1>27. ASSUME NEW e \in Execs, SendCancel(e)
      PROVE  CallsInv'
  BY Zenon, <1>1, <1>2, <1>3, <1>27 DEF SendCancel, Emit, CancellationTerminal
<1>28. ASSUME NEW e \in Execs, NotifyPublished(e)
      PROVE  CallsInv'
  BY Zenon, <1>1, <1>2, <1>3, <1>28 DEF NotifyPublished
<1>29. ASSUME NEW e \in Execs, Drain(e)
      PROVE  CallsInv'
  BY Zenon, <1>1, <1>2, <1>3, <1>29 DEF Drain, Mark
<1>30. ASSUME NEW e \in Execs, Cleanup(e)
      PROVE  CallsInv'
  BY Zenon, <1>1, <1>2, <1>3, <1>30 DEF Cleanup
<1>31. ASSUME NEW e \in Execs, DropStream(e)
      PROVE  CallsInv'
  BY Zenon, <1>1, <1>2, <1>3, <1>31 DEF DropStream
<1>32. ASSUME NEW e \in Execs, LockForWork(e, "announce", "announceSend")
      PROVE  CallsInv'
  BY <1>1, <1>2, <1>3, <1>32 DEF LockForWork, MayEmitWork, Lock
<1>33. ASSUME NEW e \in Execs, SendWork(e, "announceSend")
      PROVE  CallsInv'
  BY <1>1, <1>2, <1>3, <1>33 DEF SendWork, Emit, Unlock
<1>34. ASSUME NEW e \in Execs, LockForWork(e, "progress", "progressSend")
      PROVE  CallsInv'
  BY <1>1, <1>2, <1>3, <1>34 DEF LockForWork, MayEmitWork, Lock
<1>35. ASSUME NEW e \in Execs, SendWork(e, "progressSend")
      PROVE  CallsInv'
  BY <1>1, <1>2, <1>3, <1>35 DEF SendWork, Emit, Unlock
<1>36. ASSUME NEW c \in Cancels, Cancel(c)
      PROVE  CallsInv'
  BY <1>1, <1>2, <1>3, <1>36 DEF Cancel
<1>37. ASSUME NEW c \in Cancels, CancelLookup(c)
      PROVE  CallsInv'
  <2>1. callPc' = [callPc EXCEPT ![c] = callPc'[c]] /\ callPc'[c] \in {"returned", "lock"}
    BY Zenon, <1>37 DEF CancelLookup
  <2>2. target' = [target EXCEPT ![c] = cancellations[CancelOf[c]]]
    BY Zenon, <1>37 DEF CancelLookup
  <2>3. UNCHANGED <<terminal, outcome, signals, emission, pc, accepted>>
    BY Zenon, <1>37 DEF CancelLookup
  <2>4. c \notin accepted
    BY Zenon, <1>37 DEF CancelLookup
  <2>5. callPc'[c] = "lock" => target'[c] \in Execs
    BY <1>37, <2>1, <2>2 DEF CancelLookup
  <2>6. CallInv(c)'
    BY Zenon, <1>3, <2>1, <2>2, <2>3, <2>4, <2>5
  <2>7. ASSUME NEW d \in Cancels, d # c PROVE CallInv(d)'
    BY <2>1, <2>2, <2>3, <2>7
  <2>8. QED
    BY Zenon, <2>6, <2>7
<1>38. ASSUME NEW c \in Cancels, CancelLock(c)
      PROVE  CallsInv'
  BY <1>1, <1>2, <1>3, <1>38 DEF CancelLock, Lock
<1>39. ASSUME NEW c \in Cancels, CancelClaim(c)
      PROVE  CallsInv'
  BY <1>1, <1>2, <1>3, <1>39 DEF CancelClaim, Unlock, MayClaimCancel
<1>40. ASSUME NEW c \in Cancels, CancelToken(c)
      PROVE  CallsInv'
  BY <1>1, <1>2, <1>3, <1>40 DEF CancelToken, Signal, Unlock
<1>41. ASSUME NEW c \in Cancels, CancelDispatch(c)
      PROVE  CallsInv'
  <2>1. PICK answer \in Outcomes : outcome' = [outcome EXCEPT ![target[c]] = answer]
    BY Zenon, <1>41 DEF CancelDispatch
  <2>2. answer # "PENDING"
    BY Zenon DEF Outcomes
  <2>3. callPc[c] = "dispatch" /\ callPc' = [callPc EXCEPT ![c] = "notify"]
    BY Zenon, <1>41 DEF CancelDispatch
  <2>4. UNCHANGED <<terminal, emission, pc, target, accepted>>
    BY Zenon, <1>41 DEF CancelDispatch
  <2>5. \A d \in Cancels : d # c /\ Accepted(d) => target[d] # target[c]
    BY Zenon, <2>3
  <2>6. ASSUME NEW d \in Cancels, d # c PROVE CallInv(d)'
    BY Zenon, <2>1, <2>3, <2>4, <2>5, <2>6
  <2>7. CallInv(c)'
    BY Zenon, <2>1, <2>2, <2>3, <2>4
  <2>8. QED
    BY Zenon, <2>6, <2>7
<1>42. ASSUME NEW c \in Cancels, CancelNotify(c)
      PROVE  CallsInv'
  BY <1>1, <1>2, <1>3, <1>42 DEF CancelNotify, Signal
<1>43. ASSUME NEW c \in Cancels, CancelReturn(c)
      PROVE  CallsInv'
  BY <1>1, <1>2, <1>3, <1>43 DEF CancelReturn
<1>44. ASSUME UNCHANGED vars PROVE CallsInv'
  BY Zenon, <1>44 DEF vars
<1> HIDE DEF CallsInv, CallInv, Accepted, PastClaim, OneAcceptedCancel, TypeInv
<1>45. QED
  BY Zenon, <1>4, <1>5, <1>6, <1>7, <1>8, <1>9, <1>10, <1>11, <1>12, <1>13, <1>14,
     <1>15, <1>16, <1>17, <1>18, <1>19, <1>20, <1>21, <1>22, <1>23, <1>24,
     <1>25, <1>26, <1>27, <1>28, <1>29, <1>30, <1>31, <1>32, <1>33, <1>34,
     <1>35, <1>36, <1>37, <1>38, <1>39, <1>40, <1>41, <1>42, <1>43, <1>44
  DEF Next, Execute, RunStep, Announce, Progress, SelectStep, OutcomeStep,
      CancelTerminalStep, CancelStep

=============================================================================
