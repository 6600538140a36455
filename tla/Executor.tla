------------------------------ MODULE Executor ------------------------------
(***************************************************************************)
(* SmeshExecutor (executor.rs): the task that runs one accepted request,   *)
(* the cancellation calls that race it, and the arbitration of the single  *)
(* terminal outcome between them.                                          *)
(*                                                                         *)
(* Every execution owns an ExecutionControl (terminal, outcome, signals),  *)
(* the locals of the task spawned by execute() (pc, marks, observed,       *)
(* verdict), the channel it feeds (sent, last, closed) and its share of    *)
(* the runtime trace (traced).  The dispatcher behind it is left open: its *)
(* stream yields any event and a cancellation of it has any outcome.       *)
(* Timeouts may fire at any moment, so a step that waits with a timeout is *)
(* always enabled.  A send on the channel waits for room without one: the  *)
(* consumer reads on or drops the stream, so it is a step of its own only  *)
(* where it is made under the emission lock.                               *)
(***************************************************************************)
EXTENDS Integers, FiniteSets, TaskState

CONSTANTS Tasks,          \* task identifiers
          Execs,          \* calls of execute()
          Cancels,        \* calls of cancel()
          TaskOf,         \* the task an execution runs
          CancelOf,       \* the task a cancellation call names
          MaxConcurrent,  \* permits of the semaphore
          MaxEvents,      \* events an execution may observe
          NoExec          \* no control registered

ASSUME ExecutorAssumption ==
    /\ TaskOf \in [Execs -> Tasks]
    /\ CancelOf \in [Cancels -> Tasks]
    /\ IsFiniteSet(Execs)
    /\ MaxConcurrent \in Nat \ {0}
    /\ MaxEvents \in Nat \ {0}
    /\ NoExec \notin Execs
    /\ {"free", "task"} \cap Cancels = {}

VARIABLES cancellations,  \* the control registered for every task
          permits,        \* free permits of the semaphore
          terminal,       \* who won the terminal outcome
          outcome,        \* the dispatcher's answer to a cancellation
          signals,        \* the cancelled token and the cancel_done permit
          emission,       \* the holder of the emission lock
          pc,             \* where the spawned task is
          marks,          \* what the spawned task has seen and done
          observed,       \* events counted by its EventBudget
          verdict,        \* the outcome it is about to publish
          sent,           \* number of events sent on its channel
          last,           \* the last of them
          closed,         \* the executions whose event receiver is dropped
          traced,         \* the terminal outcome recorded for an execution
          callPc,         \* where every cancellation call is
          target,         \* the control it found
          accepted        \* the calls that ended as accepted

registry == <<cancellations, permits>>
control == <<terminal, outcome, signals, emission>>
local == <<marks, observed, verdict>>
channel == <<sent, last, closed>>
calls == <<callPc, target, accepted>>
vars == <<registry, control, pc, local, channel, traced, calls>>

(* The states that end the event stream of one execution: the terminal     *)
(* ones, and the pause for a human decision.                               *)
FinalStates == TerminalStates \cup {"InputRequired"}
Events == {"Working", "Error"} \cup FinalStates
Outcomes == {"CANCELED", "FORCED_ABORT", "FAILED"}
Signals == {"cancelled", "cancelDone"}
Marks == {"proposed", "ended", "asked", "traceFailed", "preempted"}

RunLabels == {"idle", "reject", "announce", "announceSend", "progress",
              "progressSend", "select", "badArtifact", "badEvidence", "claim",
              "trace", "publish", "finalize", "finalTrace", "finalPublish",
              "publishCancel", "awaitCancel", "traceCancel", "sendCancel",
              "notifyPublished", "drain", "cleanup", "done"}

CallLabels == {"idle", "lookup", "lock", "claim", "token", "dispatch", "notify",
               "await", "returned"}

Init == /\ cancellations = [t \in Tasks |-> NoExec]
        /\ permits = MaxConcurrent
        /\ terminal = [e \in Execs |-> "OPEN"]
        /\ outcome = [e \in Execs |-> "PENDING"]
        /\ signals = [e \in Execs |-> {}]
        /\ emission = [e \in Execs |-> "free"]
        /\ pc = [e \in Execs |-> "idle"]
        /\ marks = [e \in Execs |-> {}]
        /\ observed = [e \in Execs |-> 0]
        /\ verdict = [e \in Execs |-> "Failed"]
        /\ sent = [e \in Execs |-> 0]
        /\ last = [e \in Execs |-> "none"]
        /\ closed = {}
        /\ traced = [e \in Execs |-> "none"]
        /\ callPc = [c \in Cancels |-> "idle"]
        /\ target = [c \in Cancels |-> NoExec]
        /\ accepted = {}

At(e, label) == pc[e] = label
Goto(e, label) == pc' = [pc EXCEPT ![e] = label]
Mark(e, mark) == marks' = [marks EXCEPT ![e] = @ \cup {mark}]
Signal(e, signal) == signals' = [signals EXCEPT ![e] = @ \cup {signal}]
Lock(e, holder) == emission[e] = "free" /\ emission' = [emission EXCEPT ![e] = holder]
Unlock(e) == emission' = [emission EXCEPT ![e] = "free"]

(* A send on a channel whose receiver is gone has no effect.               *)
Emit(e, event) ==
    /\ sent' = [sent EXCEPT ![e] = IF e \in closed THEN @ ELSE @ + 1]
    /\ last' = [last EXCEPT ![e] = IF e \in closed THEN @ ELSE event]
    /\ UNCHANGED closed

(***************************************************************************)
(* execute(): refusals, then admission under the concurrency limit.        *)
(***************************************************************************)

(* A terminal stored task, a missing message or a broken ratification      *)
(* binding: the stream is a single error and nothing is registered.        *)
ExecuteRefused(e) ==
    /\ At(e, "idle")
    /\ Goto(e, "done")
    /\ Emit(e, "Error")
    /\ UNCHANGED <<registry, control, local, traced, calls>>

(* Input that fails validation, or no free permit: the task is rejected.   *)
ExecuteRejected(e) ==
    /\ At(e, "idle")
    /\ Goto(e, "reject")
    /\ UNCHANGED <<registry, control, local, channel, traced, calls>>

ExecuteAccepted(e) ==
    /\ At(e, "idle")
    /\ permits > 0
    /\ permits' = permits - 1
    /\ cancellations' = [cancellations EXCEPT ![TaskOf[e]] = e]
    /\ Goto(e, "announce")
    /\ UNCHANGED <<control, local, channel, traced, calls>>

Reject(e) ==
    /\ At(e, "reject")
    /\ Goto(e, "done")
    /\ \/ /\ Emit(e, "Rejected")
          /\ traced' = [traced EXCEPT ![e] = "Rejected"]
          /\ UNCHANGED marks
       \/ /\ Emit(e, "Error")
          /\ Mark(e, "traceFailed")
          /\ UNCHANGED traced
    /\ UNCHANGED <<registry, control, observed, verdict, calls>>

(***************************************************************************)
(* send_work_event(): under the emission lock, and only while no terminal  *)
(* winner exists.                                                          *)
(***************************************************************************)
MayEmitWork(e) == terminal[e] = "OPEN"

LockForWork(e, from, send) ==
    /\ At(e, from)
    /\ \/ MayEmitWork(e) /\ Lock(e, "task") /\ Goto(e, send)
       \/ ~MayEmitWork(e) /\ emission[e] = "free" /\ Goto(e, "drain") /\ UNCHANGED emission
    /\ UNCHANGED <<registry, terminal, outcome, signals, local, channel, traced, calls>>

SendWork(e, from) ==
    /\ At(e, from)
    /\ Emit(e, "Working")
    /\ Unlock(e)
    /\ Goto(e, IF e \in closed THEN "drain" ELSE "select")
    /\ UNCHANGED <<registry, terminal, outcome, signals, local, traced, calls>>

Announce(e) == LockForWork(e, "announce", "announceSend") \/ SendWork(e, "announceSend")
Progress(e) == LockForWork(e, "progress", "progressSend") \/ SendWork(e, "progressSend")

(***************************************************************************)
(* The event loop.  The select is biased: a dropped receiver, then a       *)
(* cancellation, then the deadline, then the worker.                       *)
(***************************************************************************)
(* Faulty variant: a dropped receiver does not stop the worker.            *)
SelectClosedQuietly(e) ==
    /\ At(e, "select")
    /\ e \in closed
    /\ Goto(e, "cleanup")
    /\ UNCHANGED <<registry, control, local, channel, traced, calls>>

SelectClosed(e) ==
    /\ At(e, "select")
    /\ e \in closed
    /\ Goto(e, "drain")
    /\ UNCHANGED <<registry, control, local, channel, traced, calls>>

SelectCancelled(e) ==
    /\ At(e, "select")
    /\ e \notin closed
    /\ "cancelled" \in signals[e]
    /\ Goto(e, "publishCancel")
    /\ UNCHANGED <<registry, control, local, channel, traced, calls>>

Selectable(e) == At(e, "select") /\ e \notin closed /\ "cancelled" \notin signals[e]
Verdict(e, state) == verdict' = [verdict EXCEPT ![e] = state]

(* The task deadline, the inactivity timeout, an error of the worker, or   *)
(* an event over the byte or artifact budget: the execution fails.         *)
SelectError(e) ==
    /\ Selectable(e)
    /\ Goto(e, "claim")
    /\ Verdict(e, "Failed")
    /\ UNCHANGED <<registry, control, marks, observed, channel, traced, calls>>

(* EventBudget::observe counts an event before it compares the count.      *)
OverBudget(e) == observed[e] + 1 > MaxEvents

Observe(e, label) ==
    /\ Selectable(e)
    /\ observed' = [observed EXCEPT ![e] = @ + 1]
    /\ Verdict(e, "Failed")
    /\ Goto(e, IF OverBudget(e) THEN "claim" ELSE label)
    /\ UNCHANGED <<registry, control, channel, traced, calls>>

(* A buffered artifact and recorded evidence leave the loop where it is.   *)
SelectEvent(e) ==
    /\ \E label \in {"progress", "select", "badArtifact", "badEvidence"} : Observe(e, label)
    /\ UNCHANGED marks

(* The first proposal is kept, a second one fails the execution.           *)
SelectCompleted(e) ==
    \/ /\ "proposed" \in marks[e]
       /\ Observe(e, "claim")
       /\ UNCHANGED marks
    \/ /\ "proposed" \notin marks[e]
       /\ Observe(e, "select")
       /\ IF OverBudget(e) THEN UNCHANGED marks ELSE Mark(e, "proposed")

SelectEnd(e) ==
    /\ Selectable(e)
    /\ Mark(e, "ended")
    /\ Verdict(e, "Failed")
    /\ Goto(e, IF "proposed" \in marks[e] THEN "finalize" ELSE "claim")
    /\ UNCHANGED <<registry, control, observed, channel, traced, calls>>

(***************************************************************************)
(* The terminal outcome of the execution: claim it, record it, publish it. *)
(***************************************************************************)
ClaimExecution(e) ==
    /\ terminal[e] = "OPEN"
    /\ terminal' = [terminal EXCEPT ![e] = "EXECUTION"]

(* Evidence that the runtime trace could not record.                       *)
BadEvidence(e) ==
    /\ At(e, "badEvidence")
    /\ ClaimExecution(e) \/ (terminal[e] # "OPEN" /\ UNCHANGED terminal)
    /\ Goto(e, "drain")
    /\ Mark(e, "traceFailed")
    /\ UNCHANGED <<registry, outcome, signals, emission, observed, verdict, channel, traced, calls>>

Claim(e) ==
    /\ At(e, "claim")
    /\ \/ ClaimExecution(e) /\ Goto(e, "trace")
       \/ terminal[e] # "OPEN" /\ Goto(e, "drain") /\ UNCHANGED terminal
    /\ UNCHANGED <<registry, outcome, signals, emission, local, channel, traced, calls>>

(* An undecodable artifact payload: unlike the other failures, a lost      *)
(* claim joins the cancellation that won it.                               *)
BadArtifact(e) ==
    /\ At(e, "badArtifact")
    /\ \/ ClaimExecution(e) /\ Goto(e, "trace")
       \/ terminal[e] = "CANCEL" /\ Goto(e, "publishCancel") /\ UNCHANGED terminal
    /\ UNCHANGED <<registry, outcome, signals, emission, local, channel, traced, calls>>

(* Faulty variant: an outcome that was not recorded is published.          *)
RecordTraceLeniently(e, state, ok, failed) ==
    \/ /\ traced' = [traced EXCEPT ![e] = state]
       /\ Goto(e, ok)
       /\ UNCHANGED marks
    \/ /\ Goto(e, ok)
       /\ Mark(e, "traceFailed")
       /\ UNCHANGED traced

RecordTrace(e, state, ok, failed) ==
    \/ /\ traced' = [traced EXCEPT ![e] = state]
       /\ Goto(e, ok)
       /\ UNCHANGED marks
    \/ /\ Goto(e, failed)
       /\ Mark(e, "traceFailed")
       /\ UNCHANGED traced

Trace(e) ==
    /\ At(e, "trace")
    /\ RecordTrace(e, verdict[e], "publish", "drain")
    /\ UNCHANGED <<registry, control, observed, verdict, channel, calls>>

Publish(e) ==
    /\ At(e, "publish")
    /\ Emit(e, verdict[e])
    /\ Goto(e, "drain")
    /\ UNCHANGED <<registry, control, local, traced, calls>>

(***************************************************************************)
(* finalize_completion() runs as the last branch of a biased select behind *)
(* the cancellation and the task deadline; whenever it waits, the deadline *)
(* may drop it.                                                            *)
(***************************************************************************)
FinalizeCancelled(e) ==
    /\ At(e, "finalize")
    /\ "cancelled" \in signals[e]
    /\ Goto(e, "publishCancel")
    /\ UNCHANGED <<registry, control, local, channel, traced, calls>>

FinalizeDeadline(e) ==
    /\ pc[e] \in {"finalize", "finalTrace", "finalPublish"}
    /\ "cancelled" \notin signals[e]
    /\ Goto(e, "claim")
    /\ Verdict(e, "Failed")
    /\ IF At(e, "finalize") THEN UNCHANGED marks ELSE Mark(e, "preempted")
    /\ UNCHANGED <<registry, control, observed, channel, traced, calls>>

(* policy.evaluate accepts, asks for a human decision, blocks or refuses.  *)
Evaluate(e) ==
    /\ At(e, "finalize")
    /\ "cancelled" \notin signals[e]
    /\ \/ /\ ClaimExecution(e)
          /\ Goto(e, "finalTrace")
          /\ \E decision \in {"Completed", "InputRequired", "Failed"} : Verdict(e, decision)
       \/ terminal[e] # "OPEN" /\ Goto(e, "cleanup") /\ UNCHANGED <<terminal, verdict>>
    /\ UNCHANGED <<registry, outcome, signals, emission, marks, observed, channel, traced,
                   calls>>

FinalTrace(e) ==
    /\ At(e, "finalTrace")
    /\ RecordTrace(e, verdict[e], "finalPublish", "drain")
    /\ UNCHANGED <<registry, control, observed, verdict, channel, calls>>

(* A failed completion, or one that nobody received, stops the worker; a   *)
(* checkpoint that could not be encoded fails without stopping it.         *)
AfterPublish(e) ==
    CASE verdict[e] = "Failed" -> {"drain", "cleanup"}
      [] verdict[e] = "Completed" /\ e \in closed -> {"drain"}
      [] OTHER -> {"cleanup"}

FinalPublish(e) ==
    /\ At(e, "finalPublish")
    /\ Emit(e, verdict[e])
    /\ \E label \in AfterPublish(e) : Goto(e, label)
    /\ UNCHANGED <<registry, control, local, traced, calls>>

(***************************************************************************)
(* publish_cancellation_terminal(): wait for the dispatcher's answer, then *)
(* record and publish what it means.                                       *)
(***************************************************************************)
(* Faulty variant: any answer of the dispatcher counts as a stop.          *)
AlwaysCanceled(answer) == "Canceled"

CancellationTerminal(answer) == IF answer = "CANCELED" THEN "Canceled" ELSE "Failed"

PublishCancel(e) ==
    /\ At(e, "publishCancel")
    /\ Goto(e, IF outcome[e] = "PENDING" THEN "awaitCancel" ELSE "traceCancel")
    /\ UNCHANGED <<registry, control, local, channel, traced, calls>>

AwaitCancel(e) ==
    /\ At(e, "awaitCancel")
    /\ "cancelDone" \in signals[e]
    /\ signals' = [signals EXCEPT ![e] = @ \ {"cancelDone"}]
    /\ Goto(e, "traceCancel")
    /\ UNCHANGED <<registry, terminal, outcome, emission, local, channel, traced, calls>>

TraceCancel(e) ==
    /\ At(e, "traceCancel")
    /\ RecordTrace(e, CancellationTerminal(outcome[e]), "sendCancel", "notifyPublished")
    /\ UNCHANGED <<registry, control, observed, verdict, channel, calls>>

(* Faulty variant: the loop goes on after the cancellation is published.   *)
SendCancelNoBreak(e) ==
    /\ At(e, "sendCancel")
    /\ Emit(e, CancellationTerminal(outcome[e]))
    /\ Goto(e, "select")
    /\ UNCHANGED <<registry, control, local, traced, calls>>

SendCancel(e) ==
    /\ At(e, "sendCancel")
    /\ Emit(e, CancellationTerminal(outcome[e]))
    /\ Goto(e, "notifyPublished")
    /\ UNCHANGED <<registry, control, local, traced, calls>>

(* The cancellation call waits for this notification with a timeout, so it *)
(* may return before it or after it.                                       *)
NotifyPublished(e) ==
    /\ At(e, "notifyPublished")
    /\ Goto(e, "cleanup")
    /\ UNCHANGED <<registry, control, local, channel, traced, calls>>

(* request_dispatcher_cancel(): its answer is ignored.                     *)
Drain(e) ==
    /\ At(e, "drain")
    /\ Goto(e, "cleanup")
    /\ Mark(e, "asked")
    /\ UNCHANGED <<registry, control, observed, verdict, channel, traced, calls>>

(* The registration is removed by task identifier; the permit is returned  *)
(* and the channel closed as the spawned task ends.                        *)
Cleanup(e) ==
    /\ At(e, "cleanup")
    /\ cancellations' = [cancellations EXCEPT ![TaskOf[e]] = NoExec]
    /\ permits' = permits + 1
    /\ Goto(e, "done")
    /\ UNCHANGED <<control, local, channel, traced, calls>>

(***************************************************************************)
(* cancel()                                                                *)
(***************************************************************************)
CallAt(c, label) == callPc[c] = label
CallGoto(c, label) == callPc' = [callPc EXCEPT ![c] = label]

Cancel(c) ==
    /\ CallAt(c, "idle")
    /\ CallGoto(c, "lookup")
    /\ UNCHANGED <<registry, control, pc, local, channel, traced, target, accepted>>

CancelLookup(c) ==
    /\ CallAt(c, "lookup")
    /\ target' = [target EXCEPT ![c] = cancellations[CancelOf[c]]]
    /\ CallGoto(c, IF cancellations[CancelOf[c]] = NoExec THEN "returned" ELSE "lock")
    /\ UNCHANGED <<registry, control, pc, local, channel, traced, accepted>>

CancelLock(c) ==
    /\ CallAt(c, "lock")
    /\ Lock(target[c], c)
    /\ CallGoto(c, "claim")
    /\ UNCHANGED <<registry, terminal, outcome, signals, pc, local, channel, traced, target,
                   accepted>>

MayClaimCancel(e) == terminal[e] = "OPEN"

CancelClaim(c) ==
    /\ CallAt(c, "claim")
    /\ \/ /\ MayClaimCancel(target[c])
          /\ terminal' = [terminal EXCEPT ![target[c]] = "CANCEL"]
          /\ CallGoto(c, "token")
          /\ UNCHANGED emission
       \/ /\ ~MayClaimCancel(target[c])
          /\ Unlock(target[c])
          /\ CallGoto(c, "returned")
          /\ UNCHANGED terminal
    /\ UNCHANGED <<registry, outcome, signals, pc, local, channel, traced, target, accepted>>

(* The token is cancelled and the emission lock dropped.                   *)
CancelToken(c) ==
    /\ CallAt(c, "token")
    /\ Signal(target[c], "cancelled")
    /\ Unlock(target[c])
    /\ CallGoto(c, "dispatch")
    /\ UNCHANGED <<registry, terminal, outcome, pc, local, channel, traced, target, accepted>>

(* dispatcher.cancel() answers or times out; the outcome is stored.        *)
CancelDispatch(c) ==
    /\ CallAt(c, "dispatch")
    /\ \E answer \in Outcomes : outcome' = [outcome EXCEPT ![target[c]] = answer]
    /\ Mark(target[c], "asked")
    /\ CallGoto(c, "notify")
    /\ UNCHANGED <<registry, terminal, signals, emission, pc, observed, verdict, channel, traced,
                   target, accepted>>

(* Faulty variant: a failed acknowledgement returns before it notifies.    *)
CancelNotifyOnSuccess(c) ==
    /\ CallAt(c, "notify")
    /\ IF outcome[target[c]] = "FAILED" THEN UNCHANGED signals
                                        ELSE Signal(target[c], "cancelDone")
    /\ CallGoto(c, "await")
    /\ UNCHANGED <<registry, terminal, outcome, emission, pc, local, channel, traced, target,
                   accepted>>

(* notify_one() leaves a permit when nobody waits yet.                     *)
CancelNotify(c) ==
    /\ CallAt(c, "notify")
    /\ Signal(target[c], "cancelDone")
    /\ CallGoto(c, "await")
    /\ UNCHANGED <<registry, terminal, outcome, emission, pc, local, channel, traced, target,
                   accepted>>

(* Wait for the publication, or time out; the caller's stream ends.        *)
CancelReturn(c) ==
    /\ CallAt(c, "await")
    /\ CallGoto(c, "returned")
    /\ accepted' = accepted \cup {c}
    /\ UNCHANGED <<registry, control, pc, local, channel, traced, target>>

(* The consumer of the event stream of a running task may drop it.         *)
DropStream(e) ==
    /\ e \notin closed
    /\ pc[e] \notin {"idle", "reject", "done"}
    /\ closed' = closed \cup {e}
    /\ UNCHANGED <<registry, control, pc, local, sent, last, traced, calls>>

(***************************************************************************)
(* The specification                                                       *)
(***************************************************************************)
Execute(e) == ExecuteRefused(e) \/ ExecuteRejected(e) \/ ExecuteAccepted(e)

SelectStep(e) == \/ SelectClosed(e) \/ SelectCancelled(e) \/ SelectError(e)
                 \/ SelectEvent(e) \/ SelectCompleted(e) \/ SelectEnd(e)

OutcomeStep(e) == \/ BadEvidence(e) \/ BadArtifact(e) \/ Claim(e) \/ Trace(e)
                  \/ Publish(e) \/ FinalizeCancelled(e) \/ FinalizeDeadline(e)
                  \/ Evaluate(e) \/ FinalTrace(e) \/ FinalPublish(e)

CancelTerminalStep(e) == \/ PublishCancel(e) \/ AwaitCancel(e) \/ TraceCancel(e)
                         \/ SendCancel(e) \/ NotifyPublished(e)

RunStep(e) == \/ Reject(e) \/ Announce(e) \/ Progress(e) \/ SelectStep(e)
              \/ OutcomeStep(e) \/ CancelTerminalStep(e) \/ Drain(e) \/ Cleanup(e)

CancelStep(c) == \/ CancelLookup(c) \/ CancelLock(c) \/ CancelClaim(c)
                 \/ CancelToken(c) \/ CancelDispatch(c) \/ CancelNotify(c)
                 \/ CancelReturn(c)

(* The request handler in front drives one execution of a task at a time,  *)
(* but it lets go of one that still runs: drive_execution stops at an      *)
(* event it cannot store or push, and cancel_task when its call is over.   *)
Released(f) == f \in closed \/ sent[f] > 0 \/ \E c \in accepted : target[c] = f
MayExecute(e) ==
    \A f \in Execs \ {e} : TaskOf[f] = TaskOf[e] => pc[f] \in {"idle", "done"} \/ Released(f)

Next == \/ \E e \in Execs : \/ MayExecute(e) /\ Execute(e)
                            \/ RunStep(e)
                            \/ DropStream(e)
        \/ \E c \in Cancels : Cancel(c) \/ CancelStep(c)

Spec == Init /\ [][Next]_vars

(* Spawned tasks are scheduled; a wait of theirs has a timeout, but for    *)
(* the emission lock, for cancel_done, and for room in the channel, which  *)
(* drive_execution makes: it takes every event or drops the stream.        *)
Fairness == /\ \A e \in Execs : WF_vars(RunStep(e))
            /\ \A c \in Cancels : WF_vars(CancelStep(c))

FairSpec == Spec /\ Fairness

(***************************************************************************)
(* Properties                                                              *)
(***************************************************************************)
(* The state of the executor is well formed, the semaphore included.       *)
TypeOK == /\ cancellations \in [Tasks -> Execs \cup {NoExec}]
          /\ permits \in 0 .. MaxConcurrent
          /\ terminal \in [Execs -> {"OPEN", "CANCEL", "EXECUTION"}]
          /\ outcome \in [Execs -> Outcomes \cup {"PENDING"}]
          /\ signals \in [Execs -> SUBSET Signals]
          /\ emission \in [Execs -> {"free", "task"} \cup Cancels]
          /\ pc \in [Execs -> RunLabels]
          /\ marks \in [Execs -> SUBSET Marks]
          /\ observed \in [Execs -> Nat]
          /\ verdict \in [Execs -> FinalStates]
          /\ sent \in [Execs -> Nat]
          /\ last \in [Execs -> Events \cup {"none"}]
          /\ closed \subseteq Execs
          /\ traced \in [Execs -> FinalStates \cup {"none"}]
          /\ callPc \in [Cancels -> CallLabels]
          /\ target \in [Cancels -> Execs \cup {NoExec}]
          /\ accepted \subseteq Cancels

Ended(e) == last[e] \in FinalStates \cup {"Error"}

(* An execution sends at most one final event, and nothing after it,       *)
(* whichever of completion, failure, deadline and cancellation ends it.    *)
OneFinalEvent == \A e \in Execs : Ended(e) => sent'[e] = sent[e]

(* The event that ends the stream is the one of the party that won the     *)
(* compare-and-swap: a cancellation is reported only when a cancellation   *)
(* won and the dispatcher confirmed the stop; a completion or a pause only *)
(* when the execution won, after the worker proposed completion and ended. *)
WinnerDecides ==
    \A e \in Execs :
        /\ last[e] = "Canceled" => terminal[e] = "CANCEL" /\ outcome[e] = "CANCELED"
        /\ last[e] \in {"Completed", "InputRequired"} =>
              terminal[e] = "EXECUTION" /\ {"proposed", "ended"} \subseteq marks[e]

(* A final event is on the stream only after the runtime trace holds the   *)
(* same outcome.                                                           *)
TracedBeforePublished == \A e \in Execs : last[e] \in FinalStates => traced[e] = last[e]

(* The runtime trace never gets a second, different outcome for an         *)
(* execution, not even when the deadline drops a completion halfway.       *)
TracedOnce == \A e \in Execs : traced[e] # "none" => traced'[e] = traced[e]

(* Once a cancellation or a failure has won, no progress is sent: the      *)
(* emission lock keeps send_work_event and cancel() apart.                 *)
NoWorkAfterWinner ==
    \A e \in Execs : terminal[e] # "OPEN" /\ sent'[e] # sent[e] => last'[e] # "Working"

(* One cancellation call at most is accepted for one execution.            *)
PastClaim == {"token", "dispatch", "notify", "await"}
Accepted(c) == callPc[c] \in PastClaim \/ c \in accepted
OneAcceptedCancel ==
    \A c, d \in Cancels : Accepted(c) /\ Accepted(d) /\ target[c] = target[d] => c = d

(* No worker is orphaned: an execution that was admitted and is over       *)
(* either saw the worker's stream end or asked the dispatcher to stop it.  *)
WorkerStopped ==
    \A e \in Execs : At(e, "done") => \/ marks[e] \cap {"ended", "asked"} # {}
                                      \/ last[e] \in {"Rejected", "Error"}

(* The permits in use are those of the executions that hold one.  The      *)
(* registered target of a task's cancellation is one of these, and one of  *)
(* them is not the registered target only when it ran beside another one   *)
(* of its task, of which the request handler had let go: the spawned task  *)
(* removes the registration of its task, whoever's it is.                  *)
Holding == {e \in Execs : pc[e] \notin {"idle", "reject", "done"}}
Beside(e, f) == /\ f # e /\ TaskOf[f] = TaskOf[e] /\ pc[f] \notin {"idle", "reject"}
                /\ Released(e) \/ Released(f)
NothingLeaks ==
    /\ permits + Cardinality(Holding) = MaxConcurrent
    /\ \A t \in Tasks, e \in Execs : cancellations[t] = e => e \in Holding /\ TaskOf[e] = t
    /\ \A e \in Holding : cancellations[TaskOf[e]] = e \/ \E f \in Execs : Beside(e, f)

(* No path out of the spawned task leaks the permit or the worker, or      *)
(* leaves its registration behind.                                         *)
EndsClean == NothingLeaks /\ WorkerStopped

(* The stream and the trace of an execution are settled once: nothing is   *)
(* sent after the final event, no progress after a winner, and a traced    *)
(* outcome is never replaced.                                              *)
SettledOnce == [][OneFinalEvent /\ NoWorkAfterWinner /\ TracedOnce]_vars

(* Every accepted execution ends and returns its permit, and every         *)
(* cancellation call returns, whatever the execution it found does.        *)
CallsEnd == /\ \A e \in Execs : At(e, "announce") ~> At(e, "done")
            /\ \A c \in Cancels : CallAt(c, "lookup") ~> CallAt(c, "returned")

=============================================================================
