---------------------------- MODULE RuntimeWorker ----------------------------
(***************************************************************************)
(* The in-process runtime: the command channels of ChannelDispatcher       *)
(* (channel.rs), the command consumer run_worker with the tasks it spawns, *)
(* the reapers of cancelled tasks, and shutdown (runtime_worker.rs).       *)
(*                                                                         *)
(* A job is one execution, of a task (Execute) or of a durable dispatch    *)
(* (ExecuteDurable); its key is the task ID or the correlation.  A call is *)
(* one cancellation request.  The processor a job runs is left open: it    *)
(* may return, fail, panic, propose completion or run for ever.  Waits     *)
(* with a timeout may time out at any moment.                              *)
(***************************************************************************)
EXTENDS Integers, FiniteSets, Sequences

CONSTANTS
    Jobs,             \* executions
    Calls,            \* cancellation requests
    Keys,             \* task IDs and correlations
    DurableKeys,      \* the correlations among them
    KeyOf,            \* the key of a job or a call
    CommandCapacity,  \* RuntimeWorkerConfig.command_capacity
    MaxActive,        \* RuntimeWorkerConfig.max_active_tasks
    NoJob, NoCall

ASSUME WorkerAssumption ==
    /\ DurableKeys \subseteq Keys
    /\ KeyOf \in [Jobs \cup Calls -> Keys]
    /\ Jobs \cap Calls = {}
    /\ IsFiniteSet(Jobs)
    /\ CommandCapacity \in Nat \ {0}
    /\ MaxActive \in Nat \ {0}
    /\ NoJob \notin Jobs /\ NoCall \notin Calls

VARIABLES
    commands, control,  \* the two command channels
    permits,    \* free permits of runtime_capacity
    worker,     \* the command consumer
    shutdown,   \* it was told to stop
    forced,     \* it was aborted
    active,     \* active and active_durable
    cancelling, \* cancelling and cancelling_durable
    phase,      \* where a job is
    token,      \* the jobs whose CancellationToken is cancelled
    aborted,    \* the jobs whose task is to be aborted
    exit,       \* what joining the task of a job returns
    proposed,   \* the jobs that proposed completion
    failed,     \* the jobs with a known_failure
    outcome,    \* the RuntimeAdapterOutcome of a durable job
    admission,  \* the RuntimeAdapterAdmission of a durable job
    reaper,     \* the reaper or the stopper of a job
    reapCall,   \* the call a reaper acknowledges
    ack,        \* the acknowledgement sent to a call
    answer,     \* what a call returned
    ahead       \* the jobs of its key a call was made after

channels == <<commands, control>>
workerVars == <<worker, shutdown, forced>>
registry == <<active, cancelling>>
taskVars == <<phase, token, aborted, exit, proposed, failed, outcome>>
reapVars == <<reaper, reapCall>>
callVars == <<ack, answer, ahead>>
vars == <<channels, permits, workerVars, registry, taskVars, admission, reapVars, callVars>>

Phases == {"new", "prepared", "queued", "lost", "refused", "dropped", "ingress", "processing", "ended"}
StopAcks == {"stopped", "failed", "forced", "requested"}

Durable(x) == KeyOf[x] \in DurableKeys
Running == {j \in Jobs : phase[j] \in {"ingress", "processing"}}
Prepared == {j \in Jobs : phase[j] = "prepared"}
Holders == Running \cup {j \in Jobs : Durable(j) /\ phase[j] \in {"prepared", "queued", "lost"}}

TypeOK ==
    /\ commands \in Seq(Jobs \cup Calls) /\ control \in Seq(Calls)
    /\ Len(commands) + Cardinality(Prepared) <= CommandCapacity /\ Len(control) <= MaxActive
    /\ permits \in 0 .. MaxActive
    /\ worker \in {"serving", "stopping", "gone"}
    /\ shutdown \in BOOLEAN /\ forced \in BOOLEAN
    /\ active \in [Keys -> Jobs \cup {NoJob}] /\ cancelling \subseteq Keys
    /\ phase \in [Jobs -> Phases]
    /\ token \subseteq Jobs /\ aborted \subseteq Jobs
    /\ exit \in [Jobs -> {"none", "ok", "error", "aborted"}]
    /\ proposed \subseteq Jobs /\ failed \subseteq Jobs
    /\ outcome \in [Jobs -> {"none", "Terminal", "ConfirmedStopped", "ExecutionFailed",
                             "AdmittedUnknown", "dropped"}]
    /\ admission \in [Jobs -> {"none", "Admitted", "Retryable", "Rejected"}]
    /\ reaper \in [Jobs -> {"none", "spawned", "waiting", "aborting", "returned"}]
    /\ reapCall \in [Jobs -> Calls \cup {NoCall}]
    /\ ack \in [Calls -> StopAcks \cup {"none", "notActive", "dropped"}]
    /\ answer \in [Calls -> StopAcks \cup {"none", "sent", "notActive", "dropped", "unknown"}]
    /\ ahead \in [Calls -> SUBSET Jobs]

Init ==
    /\ commands = <<>> /\ control = <<>>
    /\ permits = MaxActive
    /\ worker = "serving" /\ shutdown = FALSE /\ forced = FALSE
    /\ active = [k \in Keys |-> NoJob] /\ cancelling = {}
    /\ phase = [j \in Jobs |-> "new"]
    /\ token = {} /\ aborted = {}
    /\ exit = [j \in Jobs |-> "none"]
    /\ proposed = {} /\ failed = {}
    /\ outcome = [j \in Jobs |-> "none"]
    /\ admission = [j \in Jobs |-> "none"]
    /\ reaper = [j \in Jobs |-> "none"]
    /\ reapCall = [j \in Jobs |-> NoCall]
    /\ ack = [c \in Calls |-> "none"]
    /\ answer = [c \in Calls |-> "none"]
    /\ ahead = [c \in Calls |-> {}]

Become(j, p) == phase' = [phase EXCEPT ![j] = p]
HasSlot == Len(commands) + Cardinality(Prepared) < CommandCapacity

-----------------------------------------------------------------------------
(* ChannelDispatcher: executions of tasks.  A full or closed channel is    *)
(* reported on the event stream.                                           *)
Dispatch(j) ==
    /\ ~ Durable(j) /\ phase[j] = "new"
    /\ IF worker # "gone" /\ HasSlot
       THEN commands' = Append(commands, j) /\ Become(j, "queued")
       ELSE UNCHANGED commands /\ Become(j, "refused")
    /\ UNCHANGED <<control, permits, workerVars, registry, token, aborted, exit, proposed,
                   failed, outcome, admission, reapVars, callVars>>

(* ChannelDispatcher: durable executions reserve a slot of the channel and *)
(* a runtime permit before they are admitted.  What cannot be reserved     *)
(* leaves nothing behind.                                                  *)
Prepare(j) ==
    /\ Durable(j) /\ phase[j] = "new"
    /\ worker # "gone" /\ HasSlot /\ permits > 0
    /\ permits' = permits - 1
    /\ Become(j, "prepared")
    /\ UNCHANGED <<channels, workerVars, registry, token, aborted, exit, proposed, failed,
                   outcome, admission, reapVars, callVars>>

(* admit() refuses a cancelled dispatch and one without a reservation; the *)
(* coordinator may also drop what it prepared.                             *)
AdmitRejected(j) ==
    /\ phase[j] = "prepared"
    /\ permits' = permits + 1
    /\ admission' = [admission EXCEPT ![j] = "Rejected"]
    /\ Become(j, "refused")
    /\ UNCHANGED <<channels, workerVars, registry, token, aborted, exit, proposed, failed,
                   outcome, reapVars, callVars>>

(* A command sent on a reserved slot after the worker has gone stays in    *)
(* the channel for ever.                                                   *)
Admit(j) ==
    /\ phase[j] = "prepared" /\ j \notin token
    /\ IF worker # "gone"
       THEN commands' = Append(commands, j) /\ Become(j, "queued")
       ELSE UNCHANGED commands /\ Become(j, "lost")
    /\ UNCHANGED <<control, permits, workerVars, registry, token, aborted, exit, proposed,
                   failed, outcome, admission, reapVars, callVars>>

(* The worker's refusal may be retried; no answer in time, or none at all, *)
(* counts as admitted.                                                     *)
AdmitReturns(j) ==
    /\ Durable(j) /\ phase[j] \notin {"new", "prepared"} /\ admission[j] = "none"
    /\ admission' = [admission EXCEPT ![j] = IF phase[j] = "refused" THEN "Retryable"
                                                                     ELSE "Admitted"]
    /\ UNCHANGED <<channels, permits, workerVars, registry, taskVars, reapVars, callVars>>

(* The coordinator cancels the token it shares with a durable execution.   *)
CancelToken(j) ==
    /\ Durable(j) /\ phase[j] # "new" /\ j \notin token
    /\ token' = token \cup {j}
    /\ UNCHANGED <<channels, permits, workerVars, registry, phase, aborted, exit, proposed,
                   failed, outcome, admission, reapVars, callVars>>

-----------------------------------------------------------------------------
(* ChannelDispatcher: cancellation.  A task is cancelled over the channel  *)
(* its Execute went through, a durable dispatch over the control channel   *)
(* and after its token.                                                    *)
CancelSend(c) ==
    /\ answer[c] = "none" /\ worker # "gone"
    /\ Durable(c) => \E j \in token : KeyOf[j] = KeyOf[c]
    /\ IF Durable(c)
       THEN Len(control) < MaxActive /\ control' = Append(control, c) /\ UNCHANGED commands
       ELSE HasSlot /\ commands' = Append(commands, c) /\ UNCHANGED control
    /\ answer' = [answer EXCEPT ![c] = "sent"]
    /\ ahead' = [ahead EXCEPT ![c] = {j \in Jobs : /\ KeyOf[j] = KeyOf[c]
                                                   /\ phase[j] = "queued" \/ j \in Running}]
    /\ UNCHANGED <<permits, workerVars, registry, taskVars, admission, reapVars, ack>>

(* The channel is closed or stays full, or the acknowledgement is late.    *)
CancelUnknown(c) ==
    /\ answer[c] = "none" \/ (answer[c] = "sent" /\ ack[c] = "none")
    /\ answer' = [answer EXCEPT ![c] = "unknown"]
    /\ UNCHANGED <<channels, permits, workerVars, registry, taskVars, admission, reapVars,
                   ack, ahead>>

CancelReturn(c) ==
    /\ answer[c] = "sent" /\ ack[c] # "none"
    /\ answer' = [answer EXCEPT ![c] = ack[c]]
    /\ UNCHANGED <<channels, permits, workerVars, registry, taskVars, admission, reapVars,
                   ack, ahead>>

-----------------------------------------------------------------------------
(* run_worker: one turn of the loop is one branch of its biased select and *)
(* the sweep of finished tasks at the top of the next turn.                *)
Swept(jobs) == [k \in Keys |-> IF jobs[k] # NoJob /\ phase[jobs[k]] = "ended"
                               THEN NoJob ELSE jobs[k]]
Returned == {j \in Jobs : reaper[j] = "returned"}
Tracked == {j \in Jobs : \E k \in Keys : active[k] = j}

(* A command that is dropped drops the outcome sender it carries.          *)
Unsent(j) == IF Durable(j) THEN "dropped" ELSE outcome[j]

(* The worker keeps a reference to the outcome of a durable execution: one *)
(* that ended without sending it drops its sender only when it is released.*)
Release(jobs) ==
    [j \in Jobs |-> IF j \in jobs /\ Durable(j) /\ phase[j] = "ended" /\ outcome[j] = "none"
                   THEN "dropped" ELSE outcome[j]]

JoinReaper(j) ==
    /\ worker = "serving" /\ ~ shutdown /\ j \in Returned
    /\ reaper' = [reaper EXCEPT ![j] = "none"]
    /\ cancelling' = cancelling \ {KeyOf[j]}
    /\ active' = Swept(active)
    /\ outcome' = Release(Tracked)
    /\ UNCHANGED <<channels, permits, workerVars, phase, token, aborted, exit, proposed,
                   failed, admission, reapCall, callVars>>

Receive(x) ==
    /\ worker = "serving" /\ ~ shutdown /\ Returned = {}
    /\ \/ /\ control # <<>> /\ x = Head(control)
          /\ control' = Tail(control) /\ UNCHANGED commands
       \/ /\ control = <<>> /\ commands # <<>> /\ x = Head(commands)
          /\ commands' = Tail(commands) /\ UNCHANGED control

(* Faulty variant: what is being reaped is forgotten.                      *)
BusyActive(j) == LET k == KeyOf[j]
                 IN active[k] # NoJob /\ ~ (Durable(j) /\ phase[active[k]] = "ended")

(* A finished durable execution makes room for another of its correlation; *)
(* a finished execution of a task does so only once it is swept.           *)
Busy(j) == LET k == KeyOf[j]
           IN \/ k \in cancelling
              \/ active[k] # NoJob /\ ~ (Durable(j) /\ phase[active[k]] = "ended")

Execute(j) ==
    /\ Receive(j)
    /\ IF Busy(j) \/ (~ Durable(j) /\ permits = 0)
       THEN /\ Become(j, "refused")
            /\ outcome' = [Release(Tracked) EXCEPT ![j] = Unsent(j)]
            /\ permits' = IF Durable(j) THEN permits + 1 ELSE permits
            /\ active' = Swept(active)
       ELSE /\ Become(j, "ingress")
            /\ permits' = IF Durable(j) THEN permits ELSE permits - 1
            /\ active' = [Swept(active) EXCEPT ![KeyOf[j]] = j]
            /\ outcome' = Release(Tracked)
    /\ UNCHANGED <<workerVars, cancelling, token, aborted, exit, proposed, failed, admission,
                   reapVars, callVars>>

Cancel(c) ==
    LET j == active[KeyOf[c]]
    IN /\ Receive(c)
       /\ IF j # NoJob
          THEN /\ reaper' = [reaper EXCEPT ![j] = "spawned"]
               /\ reapCall' = [reapCall EXCEPT ![j] = c]
               /\ cancelling' = cancelling \cup {KeyOf[c]}
               /\ active' = Swept([active EXCEPT ![KeyOf[c]] = NoJob])
               /\ outcome' = Release(Tracked \ {j})
               /\ UNCHANGED ack
          ELSE /\ ack' = [ack EXCEPT ![c] = "notActive"]
               /\ active' = Swept(active)
               /\ outcome' = Release(Tracked)
               /\ UNCHANGED <<reapVars, cancelling>>
       /\ UNCHANGED <<permits, workerVars, phase, token, aborted, exit, proposed, failed,
                      admission, answer, ahead>>

-----------------------------------------------------------------------------
(* run_task and run_durable_task.  The outcome of a durable execution is   *)
(* sent when its task ends; one that is destroyed sends nothing.           *)
Held(j) == j \in Tracked \/ reaper[j] # "none"
OutcomeOf(j, result) ==
    CASE ~ Durable(j) -> "none"
      [] Durable(j) /\ result = "aborted" -> IF Held(j) THEN "none" ELSE "dropped"
      [] result # "aborted" /\ j \in failed' -> "ExecutionFailed"
      [] result = "ok" /\ j \in proposed \ failed' -> "Terminal"
      [] result = "ok" /\ Durable(j) /\ j \in token \ (failed' \cup proposed) -> "ConfirmedStopped"
      [] OTHER -> "AdmittedUnknown"

End(j, result) ==
    /\ Become(j, "ended")
    /\ exit' = [exit EXCEPT ![j] = result]
    /\ outcome' = [outcome EXCEPT ![j] = OutcomeOf(j, result)]
    /\ permits' = permits + 1
    /\ UNCHANGED <<channels, workerVars, registry, token, aborted, proposed, admission,
                   reapVars, callVars>>

(* known_failure, which only a durable execution has.                      *)
Fail(j) == failed' = IF Durable(j) THEN failed \cup {j} ELSE failed

(* The reserved budget is too small or the runtime refuses the signal, the *)
(* token is cancelled, or nobody receives the events of a task.            *)
IngressFails(j) ==
    /\ phase[j] = "ingress"
    /\ \/ Fail(j)
       \/ (j \in token \/ ~ Durable(j)) /\ UNCHANGED failed
    /\ End(j, "ok")

IngressDone(j) ==
    /\ phase[j] = "ingress" /\ j \notin token
    /\ Become(j, "processing")
    /\ UNCHANGED <<channels, permits, workerVars, registry, token, aborted, exit, proposed,
                   failed, outcome, admission, reapVars, callVars>>

(* RuntimeEventSink: an event over the budget is a known failure, and a    *)
(* cancelled execution proposes nothing more.                              *)
Propose(j) ==
    /\ Durable(j) /\ phase[j] = "processing"
    /\ \/ j \notin token /\ proposed' = proposed \cup {j} /\ UNCHANGED failed
       \/ Fail(j) /\ UNCHANGED proposed
    /\ UNCHANGED <<channels, permits, workerVars, registry, phase, token, aborted, exit,
                   outcome, admission, reapVars, callVars>>

ProcessorReturns(j) ==
    /\ phase[j] = "processing"
    /\ \/ UNCHANGED failed /\ End(j, "ok")
       \/ j \in token /\ UNCHANGED failed /\ End(j, "error")
       \/ j \notin token /\ Fail(j) /\ End(j, "ok")

ProcessorPanics(j) == phase[j] = "processing" /\ UNCHANGED failed /\ End(j, "aborted")

(* A durable execution destroys its processor itself after the grace.      *)
GraceEnds(j) ==
    /\ Durable(j) /\ phase[j] = "processing" /\ j \in token
    /\ UNCHANGED failed
    /\ End(j, "error")

Destroyed(j) == j \in aborted \cap Running /\ UNCHANGED failed /\ End(j, "aborted")

-----------------------------------------------------------------------------
(* reap_canceled_task, reap_canceled_durable_task and, without a call to   *)
(* answer, stop_tracked_task.                                              *)
ReaperCancels(j) ==
    /\ reaper[j] = "spawned"
    /\ token' = token \cup {j}
    /\ reaper' = [reaper EXCEPT ![j] = "waiting"]
    /\ UNCHANGED <<channels, permits, workerVars, registry, phase, aborted, exit, proposed,
                   failed, outcome, admission, reapCall, callVars>>

ReaperAborts(j) ==
    /\ reaper[j] = "waiting" /\ j \in Running
    /\ aborted' = aborted \cup {j}
    /\ reaper' = [reaper EXCEPT ![j] = "aborting"]
    /\ UNCHANGED <<channels, permits, workerVars, registry, phase, token, exit, proposed,
                   failed, outcome, admission, reapCall, callVars>>

ReapOutcome(j) ==
    IF Durable(j) THEN "requested"
    ELSE IF reaper[j] = "aborting" THEN "forced"
    ELSE IF exit[j] = "ok" THEN "stopped" ELSE "failed"

(* Faulty variant: an aborted task is not joined.                          *)
ReaperAcksAborted(j) ==
    /\ reaper[j] = "aborting" \/ (reaper[j] = "waiting" /\ phase[j] = "ended")
    /\ reaper' = [reaper EXCEPT ![j] = "returned"]
    /\ ack' = [c \in Calls |-> IF c = reapCall[j] THEN ReapOutcome(j) ELSE ack[c]]
    /\ outcome' = Release({j})
    /\ UNCHANGED <<channels, permits, workerVars, registry, phase, token, aborted, exit,
                   proposed, failed, admission, reapCall, answer, ahead>>

ReaperAcks(j) ==
    /\ reaper[j] \in {"waiting", "aborting"} /\ phase[j] = "ended"
    /\ reaper' = [reaper EXCEPT ![j] = "returned"]
    /\ ack' = [c \in Calls |-> IF c = reapCall[j] THEN ReapOutcome(j) ELSE ack[c]]
    /\ outcome' = Release({j})
    /\ UNCHANGED <<channels, permits, workerVars, registry, phase, token, aborted, exit,
                   proposed, failed, admission, reapCall, answer, ahead>>

-----------------------------------------------------------------------------
(* RuntimeWorkerHandle: shutdown, or the drop of the handle or of the last *)
(* dispatcher.                                                             *)
Shutdown ==
    /\ ~ shutdown
    /\ shutdown' = TRUE
    /\ UNCHANGED <<channels, permits, worker, forced, registry, taskVars, admission, reapVars,
                   callVars>>

(* Faulty variant: tracked tasks are not stopped.                          *)
LeaveRunning ==
    /\ worker = "serving" /\ shutdown
    /\ worker' = "stopping"
    /\ active' = [k \in Keys |-> NoJob]
    /\ UNCHANGED <<channels, permits, shutdown, forced, cancelling, taskVars, admission,
                   reapVars, callVars>>

Leave ==
    /\ worker = "serving" /\ shutdown
    /\ worker' = "stopping"
    /\ reaper' = [j \in Jobs |-> IF j \in Tracked THEN "spawned" ELSE reaper[j]]
    /\ active' = [k \in Keys |-> NoJob]
    /\ UNCHANGED <<channels, permits, shutdown, forced, cancelling, taskVars, admission,
                   reapCall, callVars>>

(* The channels go with the worker: commands still in them are dropped,    *)
(* with the permits and the senders they carry.                            *)
Discarded == {j \in Jobs : phase[j] = "queued"}
Discard(reaped) ==
    /\ commands' = <<>> /\ control' = <<>>
    /\ phase' = [j \in Jobs |-> IF j \in Discarded THEN "dropped" ELSE phase[j]]
    /\ outcome' = [j \in Jobs |-> IF j \in Discarded THEN Unsent(j) ELSE Release(Jobs)[j]]
    /\ permits' = permits + Cardinality({j \in Discarded : Durable(j)})
    /\ ack' = [c \in Calls |->
                  IF \/ \E i \in DOMAIN commands : commands[i] = c
                     \/ \E i \in DOMAIN control : control[i] = c
                     \/ \E j \in reaped : reapCall[j] = c
                  THEN "dropped" ELSE ack[c]]
    /\ worker' = "gone"
    /\ UNCHANGED <<shutdown, cancelling, token, exit, proposed, failed, admission, reapCall,
                   answer, ahead>>

Stopped ==
    /\ worker = "stopping" /\ \A j \in Jobs : reaper[j] \in {"none", "returned"}
    /\ Discard({})
    /\ UNCHANGED <<forced, active, aborted, reaper>>

(* The watchdog of a dropped handle, or a shutdown that is itself dropped, *)
(* aborts the worker; every join handle it drops aborts its task.          *)
AbortWorker ==
    /\ shutdown /\ worker # "gone"
    /\ LET reaped == {j \in Jobs : reaper[j] \notin {"none", "returned"}}
       IN Discard(reaped) /\ aborted' = aborted \cup Tracked \cup reaped
    /\ forced' = TRUE
    /\ active' = [k \in Keys |-> NoJob]
    /\ reaper' = [j \in Jobs |-> "none"]

-----------------------------------------------------------------------------
ClientStep ==
    \/ \E j \in Jobs : \/ Dispatch(j) \/ Prepare(j) \/ AdmitRejected(j) \/ Admit(j)
                       \/ AdmitReturns(j) \/ CancelToken(j)
    \/ \E c \in Calls : CancelSend(c) \/ CancelUnknown(c) \/ CancelReturn(c)
WorkerStep ==
    \/ \E j \in Jobs : JoinReaper(j) \/ Execute(j)
    \/ \E c \in Calls : Cancel(c)
    \/ Leave \/ Stopped
TaskStep(j) == \/ IngressFails(j) \/ IngressDone(j) \/ Propose(j) \/ ProcessorReturns(j)
               \/ ProcessorPanics(j) \/ GraceEnds(j) \/ Destroyed(j)
ReaperStep(j) == ReaperCancels(j) \/ ReaperAborts(j) \/ ReaperAcks(j)

Next == \/ ClientStep \/ WorkerStep
        \/ \E j \in Jobs : TaskStep(j) \/ ReaperStep(j)
        \/ Shutdown \/ AbortWorker

Spec == Init /\ [][Next]_vars

(* The worker, the reapers and the runtime's own timers are scheduled; the *)
(* processor may run for ever.                                             *)
Fairness ==
    /\ WF_vars(WorkerStep)
    /\ \A j \in Jobs : /\ WF_vars(ReaperStep(j))
                       /\ WF_vars(IngressFails(j) \/ IngressDone(j))
                       /\ WF_vars(GraceEnds(j))
                       /\ WF_vars(Destroyed(j))
FairSpec == Spec /\ Fairness

-----------------------------------------------------------------------------
(* Properties.                                                             *)

(* Permits are conserved: whatever becomes of a command (refused, dropped  *)
(* with its channel, aborted with its task), the permit it carries is held *)
(* by exactly one execution or is free.                                    *)
PermitsConserved == permits + Cardinality(Holders) = MaxActive

(* Two executions of one task ID or correlation never overlap, not even    *)
(* while the first is still being reaped.                                  *)
OneExecutionPerKey ==
    \A i, j \in Running : KeyOf[i] = KeyOf[j] => i = j

(* "Cancellation acknowledgement is sent only after cooperative exit or    *)
(* bounded abort-and-join" (ADR-0001): when a cancellation is acknowledged *)
(* nothing runs under its key.                                             *)
AckAfterStop ==
    [][\A c \in Calls : ack'[c] # ack[c] /\ ack'[c] \in StopAcks =>
          \A j \in Jobs : KeyOf[j] = KeyOf[c] => phase'[j] \notin {"ingress", "processing"}]_vars

(* "Execute is reserved before Cancel can overtake it" (ADR-0001): a task  *)
(* whose cancellation found it inactive is not started later.  It has      *)
(* ended, or another cancellation is reaping it.                           *)
CancelNeverOvertakes ==
    \A c \in Calls : ~ Durable(c) /\ ack[c] = "notActive" =>
        \A j \in ahead[c] : phase[j] # "queued" /\ (j \in Running => reaper[j] # "none" \/ j \in aborted)

(* A dispatch that the coordinator may retry did not run and never will:   *)
(* an admission whose answer is late counts as admitted.                   *)
RetryableNeverRuns ==
    \A j \in Jobs : admission[j] \in {"Retryable", "Rejected"} => phase[j] = "refused"

(* A terminal proposal or a confirmed stop is reported only for work that  *)
(* returned by itself; destroyed or failing work stays unknown.            *)
OutcomeProven ==
    \A j \in Jobs :
        /\ outcome[j] = "Terminal" => exit[j] = "ok" /\ j \in proposed \ failed
        /\ outcome[j] = "ConfirmedStopped" => exit[j] = "ok" /\ j \in token \ proposed

(* "Shutdown stops admission and joins all tracked work" (ADR-0001): when  *)
(* the worker is gone nothing runs, and if it was aborted every task that  *)
(* still runs is about to be destroyed.                                    *)
NothingDetached ==
    worker = "gone" => Running \subseteq IF forced THEN aborted ELSE {}

(* Whatever is refused, cancelled, destroyed or dropped: permits are       *)
(* conserved, executions of one key do not overlap, a cancellation does    *)
(* not overtake what it follows, answers to the coordinator are true, and  *)
(* nothing outlives the worker.                                            *)
WorkAccounted == /\ PermitsConserved /\ OneExecutionPerKey /\ CancelNeverOvertakes
                 /\ RetryableNeverRuns /\ OutcomeProven /\ NothingDetached

(* Every cancelled execution ends even if its processor ignores the token, *)
(* and a shutdown ends with everything that ran.                           *)
WorkEnds == /\ \A j \in Jobs : j \in token /\ j \in Running ~> j \notin Running
            /\ shutdown ~> worker = "gone" /\ Running = {}

=============================================================================
