------------------------ MODULE RuntimeWorkerProofs ------------------------
(***************************************************************************)
(* Proofs about RuntimeWorker for any executions, cancellations, keys and  *)
(* capacities.                                                             *)
(*                                                                         *)
(* WorkInv is the inductive invariant.  TrackInv says where the worker     *)
(* keeps an execution that runs: under its key, in the hands of exactly    *)
(* one reaper, or, once the worker was aborted, among the tasks that are   *)
(* to be destroyed.  QueueInv says what the channels hold and that a task  *)
(* is ahead of the cancellation that followed it.                          *)
(***************************************************************************)
EXTENDS RuntimeWorker, TLAPS

Workers == {"serving", "stopping", "gone"}
Outcomes == {"none", "Terminal", "ConfirmedStopped", "ExecutionFailed", "AdmittedUnknown", "dropped"}
Reapers == {"none", "spawned", "waiting", "aborting", "returned"}
Started == {"ingress", "processing", "ended"}
Results == {"ok", "error", "aborted"}

TypeInv ==
    /\ commands \in Seq(Jobs \cup Calls) /\ control \in Seq(Calls)
    /\ worker \in Workers
    /\ shutdown \in BOOLEAN /\ forced \in BOOLEAN
    /\ active \in [Keys -> Jobs \cup {NoJob}] /\ cancelling \subseteq Keys
    /\ phase \in [Jobs -> Phases]
    /\ token \subseteq Jobs /\ aborted \subseteq Jobs
    /\ exit \in [Jobs -> {"none", "ok", "error", "aborted"}]
    /\ proposed \subseteq Jobs /\ failed \subseteq Jobs
    /\ outcome \in [Jobs -> Outcomes]
    /\ admission \in [Jobs -> {"none", "Admitted", "Retryable", "Rejected"}]
    /\ reaper \in [Jobs -> Reapers]
    /\ reapCall \in [Jobs -> Calls \cup {NoCall}]
    /\ ack \in [Calls -> StopAcks \cup {"none", "notActive", "dropped"}]
    /\ answer \in [Calls -> StopAcks \cup {"none", "sent", "notActive", "dropped", "unknown"}]
    /\ ahead \in [Calls -> SUBSET Jobs]

PermitsInv == permits \in Nat /\ PermitsConserved

(* The slots of the channel that are taken or reserved, and the two        *)
(* capacities.                                                             *)
CapacityInv ==
    /\ Len(commands) + Cardinality(Prepared) <= CommandCapacity
    /\ Len(control) <= MaxActive

(* The channels hold what waits to be received, each execution once, and a *)
(* cancellation behind the executions it followed.                         *)
QueuedJobs == \A i \in DOMAIN commands : commands[i] \in Jobs => phase[commands[i]] = "queued"
QueuedCalls == \A i \in DOMAIN commands :
    commands[i] \in Calls => ~ Durable(commands[i]) /\ answer[commands[i]] # "none"
ControlCalls == \A i \in DOMAIN control : Durable(control[i]) /\ answer[control[i]] # "none"
QueuedOnce == \A h, i \in DOMAIN commands : commands[h] \in Jobs /\ commands[h] = commands[i] => h = i
QueuedFound == \A j \in Jobs : phase[j] = "queued" => \E h \in DOMAIN commands : commands[h] = j
QueuedAhead == \A i \in DOMAIN commands :
    commands[i] \in Calls =>
        \A j \in ahead[commands[i]] :
            phase[j] = "queued" => \E h \in DOMAIN commands : h < i /\ commands[h] = j

QueueInv ==
    /\ QueuedJobs /\ QueuedCalls /\ ControlCalls
    /\ QueuedOnce /\ QueuedFound /\ QueuedAhead

(* What a call knows: an unanswered call was not acknowledged, a reaper    *)
(* works for a call of its key, and the executions a call followed are of  *)
(* its key and were sent before it.                                        *)
CallInv ==
    /\ \A c \in Calls : answer[c] = "none" => ack[c] = "none"
    /\ \A j \in Jobs : reapCall[j] \in Calls =>
          answer[reapCall[j]] # "none" /\ KeyOf[reapCall[j]] = KeyOf[j]
    /\ \A c \in Calls : \A j \in ahead[c] : KeyOf[j] = KeyOf[c] /\ phase[j] \notin {"new", "prepared"}

Reaping(j) == reaper[j] \in {"spawned", "waiting", "aborting"}

(* Where the worker keeps what runs: what is tracked under a key has it    *)
(* and was started, nothing is tracked once the worker stops, and what     *)
(* runs is tracked, in the hands of a reaper, or aborted with the worker.  *)
(* A key that is reaped is being cancelled and tracks nothing, one reaper  *)
(* has it, and a reaper that returned has seen its execution end.          *)
ActiveStarted == \A k \in Keys : active[k] # NoJob => KeyOf[active[k]] = k /\ phase[active[k]] \in Started
ActiveServed == worker # "serving" => \A k \in Keys : active[k] = NoJob
RunsTracked == \A j \in Jobs : phase[j] \in {"ingress", "processing"} =>
    \/ active[KeyOf[j]] = j
    \/ Reaping(j)
    \/ worker = "gone" /\ forced = TRUE /\ j \in aborted
ReapedKeys == worker = "serving" =>
    \A j \in Jobs : reaper[j] # "none" => KeyOf[j] \in cancelling /\ active[KeyOf[j]] = NoJob
OneReaper == \A i, j \in Jobs : reaper[i] # "none" /\ reaper[j] # "none" /\ KeyOf[i] = KeyOf[j] => i = j
ReturnedEnded == \A j \in Jobs : reaper[j] = "returned" => phase[j] = "ended"
GoneReaped == worker = "gone" => \A j \in Jobs : reaper[j] \in {"none", "returned"}

TrackInv ==
    /\ ActiveStarted /\ ActiveServed /\ RunsTracked /\ ReapedKeys
    /\ OneReaper /\ ReturnedEnded /\ GoneReaped

(* Permits are only carried by durable executions before they run, and a   *)
(* final outcome belongs to work that ended.                               *)
CarriedInv ==
    /\ \A j \in Jobs : phase[j] \in {"prepared", "lost"} => Durable(j)
    /\ \A j \in Jobs : outcome[j] \in {"Terminal", "ConfirmedStopped"} => phase[j] = "ended"

WorkInv ==
    /\ TypeInv /\ CapacityInv /\ QueueInv /\ CallInv /\ TrackInv /\ CarriedInv
    /\ PermitsInv /\ OneExecutionPerKey /\ CancelNeverOvertakes
    /\ RetryableNeverRuns /\ OutcomeProven

-----------------------------------------------------------------------------
(* What sending on and receiving from a channel do to it.                  *)
LEMMA Sent ==
  ASSUME NEW S, NEW s \in Seq(S), NEW x \in S
  PROVE  /\ Append(s, x) \in Seq(S)
         /\ DOMAIN s = 1 .. Len(s) /\ Len(s) \in Nat
         /\ DOMAIN Append(s, x) = 1 .. Len(s) + 1 /\ Len(Append(s, x)) = Len(s) + 1
         /\ \A i \in 1 .. Len(s) : Append(s, x)[i] = s[i]
         /\ Append(s, x)[Len(s) + 1] = x
  OBVIOUS

LEMMA Received ==
  ASSUME NEW S, NEW s \in Seq(S), s # <<>>
  PROVE  /\ Tail(s) \in Seq(S)
         /\ DOMAIN s = 1 .. Len(s) /\ Len(s) \in Nat /\ Len(s) > 0
         /\ DOMAIN Tail(s) = 1 .. Len(s) - 1 /\ Len(Tail(s)) = Len(s) - 1
         /\ \A i \in 1 .. Len(s) - 1 : Tail(s)[i] = s[i + 1]
         /\ Head(s) = s[1] /\ Head(s) \in S
  OBVIOUS

(* The parts of the type invariant that most steps need.                   *)
LEMMA ChannelsTyped ==
  ASSUME TypeInv
  PROVE  commands \in Seq(Jobs \cup Calls) /\ control \in Seq(Calls)
  BY Zenon DEF TypeInv

LEMMA PhaseTyped ==
  ASSUME TypeInv
  PROVE  phase \in [Jobs -> Phases]
  BY Zenon DEF TypeInv

LEMMA ActiveTyped ==
  ASSUME TypeInv
  PROVE  active \in [Keys -> Jobs \cup {NoJob}]
  BY Zenon DEF TypeInv

LEMMA ReaperTyped ==
  ASSUME TypeInv
  PROVE  reaper \in [Jobs -> Reapers] /\ reapCall \in [Jobs -> Calls \cup {NoCall}]
  BY Zenon DEF TypeInv

LEMMA AheadTyped ==
  ASSUME TypeInv
  PROVE  ahead \in [Calls -> SUBSET Jobs]
  BY Zenon DEF TypeInv

(* The channels as sequences of messages.                                  *)
LEMMA ChannelDomains ==
  ASSUME TypeInv
  PROVE  /\ DOMAIN commands = 1 .. Len(commands) /\ Len(commands) \in Nat
         /\ \A i \in DOMAIN control : control[i] \in Calls
  BY ChannelsTyped

(* Who an execution and a cancellation are, and whose keys they have.      *)
LEMMA Identities ==
  /\ \A j \in Jobs : j \notin Calls /\ j # NoJob /\ KeyOf[j] \in Keys
  /\ \A c \in Calls : c \notin Jobs /\ KeyOf[c] \in Keys
  BY Zenon, WorkerAssumption

(* The phases after one execution moved.                                   *)
LEMMA BecomePhase ==
  ASSUME TypeInv, NEW j \in Jobs, NEW p, Become(j, p)
  PROVE  \A i \in Jobs : phase'[i] = IF i = j THEN p ELSE phase[i]
  BY Zenon, PhaseTyped DEF Become

(* A step of a task ends it, starts its processor or is a proposal.        *)
LEMMA TaskForm ==
  ASSUME NEW j \in Jobs, TaskStep(j)
  PROVE  \/ IngressDone(j)
         \/ Propose(j)
         \/ \E result \in Results :
               /\ End(j, result) /\ phase[j] \in {"ingress", "processing"}
               /\ failed' = failed \/ failed' = failed \cup {j}
  BY Zenon DEF TaskStep, IngressFails, ProcessorReturns, ProcessorPanics, GraceEnds, Destroyed, Fail, Running, Results

(* A message is received from the channel of its kind: executions and      *)
(* cancellations of tasks come from the first, cancellations of durable    *)
(* dispatches from the second.                                             *)
LEMMA ReceivedJob ==
  ASSUME TypeInv, QueueInv, NEW j \in Jobs, Receive(j)
  PROVE  /\ worker = "serving" /\ Returned = {}
         /\ commands # <<>> /\ j = commands[1] /\ commands' = Tail(commands) /\ control' = control
         /\ phase[j] = "queued" /\ 1 \in DOMAIN commands
<1>1. control # <<>> => Head(control) \in Calls
  BY Zenon, ChannelsTyped, Received
<1>2. commands # <<>> => Head(commands) = commands[1] /\ 1 \in DOMAIN commands
  BY ChannelsTyped, Received
<1> QED BY Zenon, <1>1, <1>2, Identities DEF Receive, QueueInv, QueuedJobs

LEMMA ReceivedCall ==
  ASSUME TypeInv, QueueInv, NEW c \in Calls, Receive(c)
  PROVE  /\ worker = "serving" /\ Returned = {} /\ answer[c] # "none"
         /\ \/ control # <<>> /\ control' = Tail(control) /\ commands' = commands /\ Durable(c)
            \/ /\ commands # <<>> /\ commands' = Tail(commands) /\ control' = control /\ ~ Durable(c)
               /\ 1 \in DOMAIN commands /\ commands[1] = c
<1>1. control # <<>> => Head(control) = control[1] /\ 1 \in DOMAIN control
  BY ChannelsTyped, Received
<1>2. commands # <<>> => Head(commands) = commands[1] /\ 1 \in DOMAIN commands
  BY ChannelsTyped, Received
<1> QED BY Zenon, <1>1, <1>2 DEF Receive, QueueInv, QueuedCalls, ControlCalls

(* The sweep of finished tasks and the release of their outcomes.          *)
LEMMA SweepTyped ==
  ASSUME TypeInv
  PROVE  /\ \A f \in [Keys -> Jobs \cup {NoJob}] : Swept(f) \in [Keys -> Jobs \cup {NoJob}]
         /\ \A jobs : Release(jobs) \in [Jobs -> Outcomes]
         /\ \A j \in Jobs : Unsent(j) \in Outcomes
  BY Zenon DEF TypeInv, Swept, Release, Outcomes, Unsent

LEMMA EndTyped ==
  ASSUME TypeInv, NEW j \in Jobs, NEW result \in Results, End(j, result),
         failed' = failed \/ failed' = failed \cup {j}
  PROVE  TypeInv'
<1>1. OutcomeOf(j, result) \in Outcomes
  BY Zenon DEF OutcomeOf, Outcomes, Results
<1>2. phase' \in [Jobs -> Phases] /\ exit' \in [Jobs -> {"none", "ok", "error", "aborted"}]
  BY Zenon DEF TypeInv, End, Become, Phases, Results
<1>3. outcome' \in [Jobs -> Outcomes] /\ failed' \subseteq Jobs
  BY Zenon, <1>1 DEF TypeInv, End
<1> QED BY Zenon, <1>2, <1>3 DEF TypeInv, End, channels, workerVars, registry, reapVars, callVars

(* Every step keeps the types.                                             *)
LEMMA TypeStep == TypeInv /\ [Next]_vars => TypeInv'
<1> SUFFICES ASSUME TypeInv, [Next]_vars PROVE TypeInv'
  BY Zenon
<1> USE DEF channels, workerVars, registry, reapVars, callVars, taskVars
<1>a. commands \in Seq(Jobs \cup Calls) /\ control \in Seq(Calls)
  BY Zenon DEF TypeInv
<1>b. phase \in [Jobs -> Phases] /\ outcome \in [Jobs -> Outcomes]
  BY Zenon DEF TypeInv
<1>c. active \in [Keys -> Jobs \cup {NoJob}] /\ cancelling \subseteq Keys
  BY Zenon DEF TypeInv
<1>1. ASSUME NEW j \in Jobs, Dispatch(j) \/ Admit(j) PROVE TypeInv'
  <2>0. (commands' = commands \/ commands' = Append(commands, j)) /\ \E p \in {"queued", "refused", "lost"} : Become(j, p)
    BY Zenon, <1>1 DEF Dispatch, Admit
  <2>1. commands' \in Seq(Jobs \cup Calls)
    BY <1>a, <2>0, Sent
  <2>2. phase' \in [Jobs -> Phases]
    BY Zenon, <1>b, <2>0 DEF Become, Phases
  <2> QED BY Zenon, <1>1, <2>1, <2>2 DEF TypeInv, Dispatch, Admit
<1>2. ASSUME NEW j \in Jobs, Prepare(j) \/ AdmitRejected(j) PROVE TypeInv'
  <2>2. phase' \in [Jobs -> Phases]
    BY Zenon, <1>2, <1>b DEF Prepare, AdmitRejected, Become, Phases
  <2>3. admission' \in [Jobs -> {"none", "Admitted", "Retryable", "Rejected"}]
    BY Zenon, <1>2 DEF TypeInv, Prepare, AdmitRejected
  <2> QED BY <1>2, <2>2, <2>3 DEF TypeInv, Prepare, AdmitRejected
<1>3. ASSUME NEW j \in Jobs, AdmitReturns(j) \/ CancelToken(j) PROVE TypeInv'
  BY Zenon, <1>3 DEF TypeInv, AdmitReturns, CancelToken
<1>4. ASSUME NEW c \in Calls, CancelSend(c) PROVE TypeInv'
  <2>0. /\ commands' = commands \/ commands' = Append(commands, c)
        /\ control' = control \/ control' = Append(control, c)
    BY Zenon, <1>4 DEF CancelSend
  <2>a. commands' \in Seq(Jobs \cup Calls)
    BY <1>a, <2>0, Sent
  <2>b. control' \in Seq(Calls)
    BY <1>a, <2>0, Sent
  <2>1. commands' \in Seq(Jobs \cup Calls) /\ control' \in Seq(Calls)
    BY Zenon, <2>a, <2>b
  <2>2. /\ answer' \in [Calls -> StopAcks \cup {"none", "sent", "notActive", "dropped", "unknown"}]
        /\ ahead' \in [Calls -> SUBSET Jobs]
    BY Zenon, <1>4 DEF TypeInv, CancelSend
  <2> QED BY Zenon, <1>4, <2>1, <2>2 DEF TypeInv, CancelSend
<1>5. ASSUME NEW c \in Calls, CancelUnknown(c) \/ CancelReturn(c) PROVE TypeInv'
  BY <1>5 DEF TypeInv, CancelUnknown, CancelReturn
<1>6. ASSUME NEW j \in Jobs, JoinReaper(j) PROVE TypeInv'
  <2>1. active' \in [Keys -> Jobs \cup {NoJob}] /\ outcome' \in [Jobs -> Outcomes]
    BY Zenon, <1>6, <1>c, SweepTyped DEF JoinReaper
  <2> QED BY Zenon, <1>6, <2>1 DEF TypeInv, JoinReaper, Reapers
<1>7. ASSUME NEW x, Receive(x) PROVE commands' \in Seq(Jobs \cup Calls) /\ control' \in Seq(Calls)
  <2>1. \/ control # <<>> /\ control' = Tail(control) /\ commands' = commands
        \/ commands # <<>> /\ commands' = Tail(commands) /\ control' = control
    BY Zenon, <1>7 DEF Receive
  <2> QED BY Zenon, <1>a, <2>1, Received
<1>8. ASSUME NEW j \in Jobs, Execute(j) PROVE TypeInv'
  <2>1. commands' \in Seq(Jobs \cup Calls) /\ control' \in Seq(Calls)
    BY Zenon, <1>7, <1>8 DEF Execute
  <2>a. active' = Swept(active) \/ active' = [Swept(active) EXCEPT ![KeyOf[j]] = j]
    BY Zenon, <1>8 DEF Execute
  <2>b. outcome' = Release(Tracked) \/ outcome' = [Release(Tracked) EXCEPT ![j] = Unsent(j)]
    BY Zenon, <1>8 DEF Execute
  <2>c. \E p \in {"refused", "ingress"} : Become(j, p)
    BY Zenon, <1>8 DEF Execute
  <2>d. Swept(active) \in [Keys -> Jobs \cup {NoJob}] /\ Release(Tracked) \in [Jobs -> Outcomes] /\ Unsent(j) \in Outcomes
    BY Zenon, <1>c, SweepTyped
  <2>2. active' \in [Keys -> Jobs \cup {NoJob}]
    BY Zenon, <2>a, <2>d
  <2>3. outcome' \in [Jobs -> Outcomes]
    BY Zenon, <2>b, <2>d
  <2>5. phase' \in [Jobs -> Phases]
    BY Zenon, <1>b, <2>c DEF Become, Phases
  <2> QED BY Zenon, <1>8, <2>1, <2>2, <2>3, <2>5 DEF TypeInv, Execute
<1>9. ASSUME NEW c \in Calls, Cancel(c) PROVE TypeInv'
  <2>1. commands' \in Seq(Jobs \cup Calls) /\ control' \in Seq(Calls)
    BY Zenon, <1>7, <1>9 DEF Cancel
  <2>2. KeyOf[c] \in Keys /\ active[KeyOf[c]] \in Jobs \cup {NoJob}
    BY Zenon, <1>c, WorkerAssumption
  <2>3. PICK f : f = [active EXCEPT ![KeyOf[c]] = NoJob]
    BY Zenon
  <2>a. f \in [Keys -> Jobs \cup {NoJob}]
    BY Zenon, <1>c, <2>3
  <2>b. (active' = Swept(active) \/ active' = Swept(f)) /\ \E jobs : outcome' = Release(jobs)
    BY Zenon, <1>9, <2>3 DEF Cancel
  <2>4. active' \in [Keys -> Jobs \cup {NoJob}] /\ outcome' \in [Jobs -> Outcomes]
    BY Zenon, <1>c, <2>a, <2>b, SweepTyped
  <2>c. \/ \E j \in Jobs : /\ reaper' = [reaper EXCEPT ![j] = "spawned"] /\ reapCall' = [reapCall EXCEPT ![j] = c]
                          /\ cancelling' = cancelling \cup {KeyOf[c]} /\ ack' = ack
        \/ UNCHANGED <<reaper, reapCall, cancelling>> /\ ack' = [ack EXCEPT ![c] = "notActive"]
    BY Zenon, <1>9, <2>2 DEF Cancel
  <2>5. /\ reaper' \in [Jobs -> Reapers] /\ reapCall' \in [Jobs -> Calls \cup {NoCall}] /\ cancelling' \subseteq Keys
        /\ ack' \in [Calls -> StopAcks \cup {"none", "notActive", "dropped"}]
    <3>1. /\ reaper \in [Jobs -> Reapers] /\ reapCall \in [Jobs -> Calls \cup {NoCall}]
          /\ ack \in [Calls -> StopAcks \cup {"none", "notActive", "dropped"}]
      BY Zenon DEF TypeInv
    <3>2. reaper' \in [Jobs -> Reapers] /\ reapCall' \in [Jobs -> Calls \cup {NoCall}]
      BY Zenon, <2>c, <3>1 DEF Reapers
    <3>3. cancelling' \subseteq Keys
      BY Zenon, <1>c, <2>2, <2>c
    <3>4. ack' \in [Calls -> StopAcks \cup {"none", "notActive", "dropped"}]
      BY Zenon, <2>c, <3>1
    <3> QED BY Zenon, <3>2, <3>3, <3>4
  <2> QED BY Zenon, <1>9, <2>1, <2>4, <2>5 DEF TypeInv, Cancel
<1>10. ASSUME NEW j \in Jobs, IngressDone(j) \/ Propose(j) PROVE TypeInv'
  <2>1. /\ (phase' = phase \/ phase' = [phase EXCEPT ![j] = "processing"])
        /\ (failed' = failed \/ failed' = failed \cup {j}) /\ (proposed' = proposed \/ proposed' = proposed \cup {j})
    BY Zenon, <1>10 DEF IngressDone, Propose, Become, Fail
  <2>2. phase' \in [Jobs -> Phases]
    BY Zenon, <1>b, <2>1 DEF Phases
  <2>3. UNCHANGED <<channels, permits, workerVars, registry, token, aborted, exit, outcome, admission, reapVars, callVars>>
    BY Zenon, <1>10 DEF IngressDone, Propose
  <2> QED BY Zenon, <2>1, <2>2, <2>3 DEF TypeInv
<1>11. ASSUME NEW j \in Jobs, TaskStep(j) PROVE TypeInv'
  BY Zenon, <1>10, <1>11, TaskForm, EndTyped
<1>12. ASSUME NEW j \in Jobs, ReaperCancels(j) \/ ReaperAborts(j) PROVE TypeInv'
  BY <1>12 DEF TypeInv, ReaperCancels, ReaperAborts, Reapers
<1>13. ASSUME NEW j \in Jobs, ReaperAcks(j) PROVE TypeInv'
  <2>1. ReapOutcome(j) \in StopAcks
    BY Zenon DEF ReapOutcome, StopAcks
  <2>2. outcome' \in [Jobs -> Outcomes]
    BY Zenon, <1>13, SweepTyped DEF ReaperAcks
  <2> QED BY Zenon, <1>13, <2>1, <2>2 DEF TypeInv, ReaperAcks, Reapers
<1>14. ASSUME Shutdown PROVE TypeInv'
  BY Zenon, <1>14 DEF TypeInv, Shutdown
<1>15. ASSUME Leave PROVE TypeInv'
  BY Zenon, <1>15 DEF TypeInv, Leave, Reapers, Workers
<1>16. ASSUME NEW reaped, Discard(reaped)
       PROVE  /\ commands' \in Seq(Jobs \cup Calls) /\ control' \in Seq(Calls)
              /\ phase' \in [Jobs -> Phases] /\ outcome' \in [Jobs -> Outcomes] /\ worker' \in Workers
              /\ ack' \in [Calls -> StopAcks \cup {"none", "notActive", "dropped"}]
  <2>1. Release(Jobs) \in [Jobs -> Outcomes] /\ \A j \in Jobs : Unsent(j) \in Outcomes
    BY Zenon, SweepTyped
  <2>2. outcome' \in [Jobs -> Outcomes]
    BY Zenon, <1>16, <2>1 DEF Discard
  <2>4. phase' \in [Jobs -> Phases] /\ ack' \in [Calls -> StopAcks \cup {"none", "notActive", "dropped"}]
    BY Zenon, <1>16 DEF TypeInv, Discard, Phases
  <2> QED BY <1>16, <2>2, <2>4 DEF Discard, Workers
<1>17. ASSUME Stopped PROVE TypeInv'
  <2>1. Discard({})
    BY Zenon, <1>17 DEF Stopped
  <2>2. UNCHANGED <<shutdown, cancelling, token, exit, proposed, failed, admission, reapCall, answer, ahead,
                    forced, active, aborted, reaper>>
    BY Zenon, <1>17, <2>1 DEF Stopped, Discard
  <2>3. /\ commands' \in Seq(Jobs \cup Calls) /\ control' \in Seq(Calls)
        /\ phase' \in [Jobs -> Phases] /\ outcome' \in [Jobs -> Outcomes] /\ worker' \in Workers
        /\ ack' \in [Calls -> StopAcks \cup {"none", "notActive", "dropped"}]
    BY Zenon, <1>16, <2>1
  <2> QED BY Zenon, <2>2, <2>3 DEF TypeInv
<1>18. ASSUME AbortWorker PROVE TypeInv'
  <2> DEFINE reaped == {j \in Jobs : reaper[j] \notin {"none", "returned"}}
  <2>1. Discard(reaped)
    BY Zenon, <1>18 DEF AbortWorker
  <2>2. aborted' \subseteq Jobs
    BY Zenon, <1>18 DEF TypeInv, AbortWorker, Tracked
  <2>3. forced' \in BOOLEAN /\ active' \in [Keys -> Jobs \cup {NoJob}] /\ reaper' \in [Jobs -> Reapers]
    BY Zenon, <1>18 DEF AbortWorker, Reapers
  <2>4. UNCHANGED <<shutdown, cancelling, token, exit, proposed, failed, admission, reapCall, answer, ahead>>
    BY Zenon, <2>1 DEF Discard
  <2>5. /\ commands' \in Seq(Jobs \cup Calls) /\ control' \in Seq(Calls)
        /\ phase' \in [Jobs -> Phases] /\ outcome' \in [Jobs -> Outcomes] /\ worker' \in Workers
        /\ ack' \in [Calls -> StopAcks \cup {"none", "notActive", "dropped"}]
    BY Zenon, <1>16, <2>1
  <2> QED BY Zenon, <2>2, <2>3, <2>4, <2>5 DEF TypeInv
<1>19. ASSUME UNCHANGED vars PROVE TypeInv'
  BY Zenon, <1>19 DEF TypeInv, vars
<1> QED BY Zenon, <1>1, <1>2, <1>3, <1>4, <1>5, <1>6, <1>8, <1>9, <1>11, <1>12, <1>13, <1>14, <1>15, <1>17, <1>18, <1>19
        DEF Next, ClientStep, WorkerStep, ReaperStep

-----------------------------------------------------------------------------
(* What is in the channels.  An execution that moves without entering or   *)
(* leaving the channel disturbs nothing.                                   *)
LEMMA QueueMove ==
  ASSUME TypeInv, QueueInv, UNCHANGED <<commands, control, ahead>>,
         \A j \in Jobs : phase'[j] = "queued" <=> phase[j] = "queued",
         \A c \in Calls : answer[c] # "none" => answer'[c] # "none"
  PROVE  QueueInv'
<1>0. commands' = commands /\ control' = control /\ ahead' = ahead
  BY Zenon
<1>1. \A i \in DOMAIN control : control[i] \in Calls
  BY Zenon, ChannelDomains
<1>2. \A c \in Calls : \A j \in ahead[c] : j \in Jobs
  BY Zenon, AheadTyped
<1>3. QueuedJobs' /\ QueuedCalls'
  BY Zenon, <1>0 DEF QueueInv, QueuedJobs, QueuedCalls, Durable
<1>4. ControlCalls'
  BY Zenon, <1>0, <1>1 DEF QueueInv, ControlCalls, Durable
<1>5. QueuedOnce' /\ QueuedFound'
  BY Zenon, <1>0 DEF QueueInv, QueuedOnce, QueuedFound
<1>6. QueuedAhead'
  BY <1>0, <1>2 DEF QueueInv, QueuedAhead
<1> QED BY Zenon, <1>3, <1>4, <1>5, <1>6 DEF QueueInv

(* An execution is sent.                                                   *)
LEMMA QueueSend ==
  ASSUME TypeInv, QueueInv, CallInv, NEW j \in Jobs, phase[j] \in {"new", "prepared"},
         commands' = Append(commands, j), Become(j, "queued"), UNCHANGED <<control, answer, ahead>>
  PROVE  QueueInv'
<1>0. control' = control /\ answer' = answer /\ ahead' = ahead
  BY Zenon
<1>1. PICK n \in Nat : /\ DOMAIN commands = 1 .. n /\ DOMAIN commands' = 1 .. n + 1
                       /\ \A i \in 1 .. n : commands'[i] = commands[i]
                       /\ commands'[n + 1] = j
  BY ChannelsTyped, Sent
<1>2. /\ \A i \in 1 .. n + 1 : i \in 1 .. n \/ i = n + 1
      /\ \A i \in 1 .. n : i \in 1 .. n + 1
      /\ n + 1 \in 1 .. n + 1
  OBVIOUS
<1>3. \A i \in Jobs : phase'[i] = IF i = j THEN "queued" ELSE phase[i]
  BY Zenon, BecomePhase
<1>4. phase[j] # "queued" /\ j \notin Calls
  BY Zenon, Identities
<1>5. \A i \in 1 .. n : commands[i] # j
  BY Zenon, <1>1, <1>4 DEF QueueInv, QueuedJobs
<1>6. \A c \in Calls : \A q \in ahead[c] : q \in Jobs /\ q # j
  <2>1. \A c \in Calls : \A q \in ahead[c] : q \in Jobs /\ phase[q] \notin {"new", "prepared"}
    BY Zenon, AheadTyped DEF CallInv
  <2> QED BY Zenon, <2>1
<1>7. QueuedJobs'
  <2>1. \A i \in 1 .. n + 1 : commands'[i] \in Jobs => phase'[commands'[i]] = "queued"
    BY <1>1, <1>2, <1>3 DEF QueueInv, QueuedJobs
  <2> QED BY Zenon, <1>1, <2>1 DEF QueuedJobs
<1>8. QueuedCalls'
  <2>1. \A i \in 1 .. n + 1 : commands'[i] \in Calls => ~ Durable(commands'[i]) /\ answer[commands'[i]] # "none"
    BY Zenon, <1>1, <1>2, <1>4 DEF QueueInv, QueuedCalls
  <2> QED BY Zenon, <1>0, <1>1, <2>1 DEF QueuedCalls, Durable
<1>9. ControlCalls'
  BY Zenon, <1>0 DEF QueueInv, ControlCalls, Durable
<1>10. QueuedOnce'
  <2>1. \A h, i \in 1 .. n + 1 : commands'[h] \in Jobs /\ commands'[h] = commands'[i] => h = i
    BY Zenon, <1>1, <1>2, <1>5 DEF QueueInv, QueuedOnce
  <2> QED BY Zenon, <1>1, <2>1 DEF QueuedOnce
<1>11. QueuedFound'
  <2>1. \A i \in Jobs : phase'[i] = "queued" => \E h \in 1 .. n + 1 : commands'[h] = i
    BY Zenon, <1>1, <1>2, <1>3 DEF QueueInv, QueuedFound
  <2> QED BY Zenon, <1>1, <2>1 DEF QueuedFound
<1>12. QueuedAhead'
  <2> SUFFICES ASSUME NEW i \in 1 .. n + 1, commands'[i] \in Calls, NEW q \in ahead[commands'[i]], phase'[q] = "queued"
               PROVE  \E h \in 1 .. n + 1 : h < i /\ commands'[h] = q
    BY <1>0, <1>1 DEF QueuedAhead
  <2>1. i \in 1 .. n /\ commands'[i] = commands[i]
    BY Zenon, <1>1, <1>2, <1>4
  <2>2. phase[q] = "queued"
    BY Zenon, <1>3, <1>6
  <2>3. PICK h \in 1 .. n : h < i /\ commands[h] = q
    BY <1>1, <2>1, <2>2 DEF QueueInv, QueuedAhead
  <2> QED BY Zenon, <1>1, <1>2, <2>3
<1> QED BY Zenon, <1>7, <1>8, <1>9, <1>10, <1>11, <1>12 DEF QueueInv

(* A cancellation is sent: over the channel of the tasks, behind all that  *)
(* waits there, or over the control channel.                               *)
LEMMA QueueCancel ==
  ASSUME TypeInv, QueueInv, NEW c \in Calls, CancelSend(c)
  PROVE  QueueInv'
<1>0. /\ phase' = phase /\ answer[c] = "none" /\ answer'[c] # "none"
      /\ \A d \in Calls : answer[d] # "none" => answer'[d] # "none"
      /\ \A d \in Calls : d # c => ahead'[d] = ahead[d]
      /\ ahead'[c] \subseteq Jobs /\ \A d \in Calls : ahead[d] \subseteq Jobs
  BY Zenon DEF CancelSend, TypeInv, taskVars
<1>1. \A i \in DOMAIN control : control[i] \in Calls
  BY Zenon, ChannelDomains
<1>2. \A i \in DOMAIN commands : commands[i] # c
  BY Zenon, <1>0 DEF QueueInv, QueuedCalls
<1>3. CASE Durable(c)
  <2>1. control \in Seq(Calls) /\ control' = Append(control, c) /\ commands' = commands
    BY Zenon, <1>3, ChannelsTyped DEF CancelSend
  <2>2. PICK m \in Nat : /\ DOMAIN control = 1 .. m /\ DOMAIN control' = 1 .. m + 1
                         /\ \A i \in 1 .. m : control'[i] = control[i]
                         /\ control'[m + 1] = c
    BY <2>1, Sent
  <2>3. \A i \in 1 .. m + 1 : i \in 1 .. m \/ i = m + 1
    OBVIOUS
  <2>4. ControlCalls'
    <3>1. \A i \in 1 .. m + 1 : Durable(control'[i]) /\ answer'[control'[i]] # "none"
      BY <1>0, <1>1, <1>3, <2>2, <2>3 DEF QueueInv, ControlCalls
    <3> QED BY Zenon, <2>2, <3>1 DEF ControlCalls, Durable
  <2>5. QueuedJobs' /\ QueuedOnce' /\ QueuedFound'
    BY Zenon, <1>0, <2>1 DEF QueueInv, QueuedJobs, QueuedOnce, QueuedFound
  <2>6. QueuedCalls'
    BY Zenon, <1>0, <2>1 DEF QueueInv, QueuedCalls, Durable
  <2>7. QueuedAhead'
    BY <1>0, <1>2, <2>1 DEF QueueInv, QueuedAhead
  <2> QED BY Zenon, <2>4, <2>5, <2>6, <2>7 DEF QueueInv
<1>4. CASE ~ Durable(c)
  <2>1. commands \in Seq(Jobs \cup Calls) /\ commands' = Append(commands, c) /\ control' = control
    BY Zenon, <1>4, ChannelsTyped DEF CancelSend
  <2>2. PICK n \in Nat : /\ DOMAIN commands = 1 .. n /\ DOMAIN commands' = 1 .. n + 1
                         /\ \A i \in 1 .. n : commands'[i] = commands[i]
                         /\ commands'[n + 1] = c
    BY <2>1, Sent
  <2>3. /\ \A i \in 1 .. n + 1 : i \in 1 .. n \/ i = n + 1
        /\ \A i \in 1 .. n : i \in 1 .. n + 1 /\ i < n + 1
        /\ n + 1 \in 1 .. n + 1
    OBVIOUS
  <2>4. c \notin Jobs
    BY Zenon, Identities
  <2>5. QueuedJobs'
    <3>1. \A i \in 1 .. n + 1 : commands'[i] \in Jobs => phase[commands'[i]] = "queued"
      BY Zenon, <2>2, <2>3, <2>4 DEF QueueInv, QueuedJobs
    <3> QED BY Zenon, <1>0, <2>2, <3>1 DEF QueuedJobs
  <2>6. QueuedCalls'
    <3>1. \A i \in 1 .. n + 1 : commands'[i] \in Calls => ~ Durable(commands'[i]) /\ answer'[commands'[i]] # "none"
      BY <1>0, <1>4, <2>2, <2>3 DEF QueueInv, QueuedCalls
    <3> QED BY Zenon, <2>2, <3>1 DEF QueuedCalls, Durable
  <2>7. ControlCalls'
    BY Zenon, <1>0, <1>1, <2>1 DEF QueueInv, ControlCalls, Durable
  <2>8. QueuedOnce'
    <3>1. \A h, i \in 1 .. n + 1 : commands'[h] \in Jobs /\ commands'[h] = commands'[i] => h = i
      BY Zenon, <2>2, <2>3, <2>4 DEF QueueInv, QueuedOnce
    <3> QED BY Zenon, <2>2, <3>1 DEF QueuedOnce
  <2>9. \A q \in Jobs : phase[q] = "queued" => \E h \in 1 .. n + 1 : h < n + 1 /\ commands'[h] = q
    BY Zenon, <2>2, <2>3 DEF QueueInv, QueuedFound
  <2>10. QueuedFound'
    BY Zenon, <1>0, <2>2, <2>9 DEF QueuedFound
  <2>11. QueuedAhead'
    <3> SUFFICES ASSUME NEW i \in 1 .. n + 1, commands'[i] \in Calls, NEW q \in ahead'[commands'[i]], phase[q] = "queued"
                 PROVE  \E h \in 1 .. n + 1 : h < i /\ commands'[h] = q
      BY <1>0, <2>2 DEF QueuedAhead
    <3>1. CASE i = n + 1
      <4>1. q \in Jobs
        BY Zenon, <1>0, <2>2, <3>1
      <4> QED BY Zenon, <2>9, <3>1, <4>1
    <3>2. CASE i \in 1 .. n
      <4>1. commands'[i] = commands[i] /\ commands[i] # c
        BY Zenon, <1>2, <2>2, <3>2
      <4>2. q \in ahead[commands[i]]
        BY Zenon, <1>0, <4>1
      <4>3. PICK h \in 1 .. n : h < i /\ commands[h] = q
        BY Zenon, <2>2, <3>2, <4>1, <4>2 DEF QueueInv, QueuedAhead
      <4> QED BY Zenon, <2>2, <2>3, <4>3
    <3> QED BY Zenon, <2>3, <3>1, <3>2
  <2> QED BY Zenon, <2>5, <2>6, <2>7, <2>8, <2>10, <2>11 DEF QueueInv
<1> QED BY Zenon, <1>3, <1>4

(* The head of a channel is received; an execution leaves the queue.       *)
LEMMA QueueReceive ==
  ASSUME TypeInv, QueueInv, NEW x \in Jobs \cup Calls, commands # <<>>, commands[1] = x,
         commands' = Tail(commands), UNCHANGED <<control, answer, ahead>>,
         \A j \in Jobs : phase'[j] = "queued" <=> phase[j] = "queued" /\ j # x
  PROVE  QueueInv'
<1>0. control' = control /\ answer' = answer /\ ahead' = ahead
  BY Zenon
<1>1. PICK n \in Nat : /\ n > 0 /\ DOMAIN commands = 1 .. n /\ DOMAIN commands' = 1 .. n - 1
                       /\ \A i \in 1 .. n - 1 : commands'[i] = commands[i + 1]
  BY Zenon, ChannelsTyped, Received
<1>2. /\ \A i \in 1 .. n - 1 : i + 1 \in 1 .. n /\ i + 1 # 1
      /\ \A h \in 1 .. n : h # 1 => h - 1 \in 1 .. n - 1 /\ (h - 1) + 1 = h
      /\ \A h \in 1 .. n, i \in 1 .. n - 1 : h < i + 1 /\ h # 1 => h - 1 < i
      /\ \A h, i \in 1 .. n - 1 : h + 1 = i + 1 => h = i
      /\ 1 \in 1 .. n
  BY <1>1
<1>3. \A h \in 1 .. n : h # 1 => h - 1 \in 1 .. n - 1 /\ commands'[h - 1] = commands[h]
  BY Zenon, <1>1, <1>2
<1>4. \A i \in 1 .. n - 1 : commands[i + 1] \in Jobs => commands[i + 1] # x
  BY Zenon, <1>1, <1>2 DEF QueueInv, QueuedOnce
<1>5. \A c \in Calls : ahead[c] \subseteq Jobs
  BY Zenon, AheadTyped
<1>6. QueuedJobs'
  <2>1. \A i \in 1 .. n - 1 : commands'[i] \in Jobs => phase'[commands'[i]] = "queued"
    BY <1>1, <1>2, <1>4 DEF QueueInv, QueuedJobs
  <2> QED BY Zenon, <1>1, <2>1 DEF QueuedJobs
<1>7. QueuedCalls'
  <2>1. \A i \in 1 .. n - 1 : commands'[i] \in Calls => ~ Durable(commands'[i]) /\ answer[commands'[i]] # "none"
    BY <1>1, <1>2 DEF QueueInv, QueuedCalls
  <2> QED BY Zenon, <1>0, <1>1, <2>1 DEF QueuedCalls, Durable
<1>8. ControlCalls'
  BY Zenon, <1>0 DEF QueueInv, ControlCalls, Durable
<1>9. QueuedOnce'
  <2> SUFFICES ASSUME NEW h \in 1 .. n - 1, NEW i \in 1 .. n - 1, commands'[h] \in Jobs, commands'[h] = commands'[i]
               PROVE  h = i
    BY Zenon, <1>1 DEF QueuedOnce
  <2>1. commands[h + 1] \in Jobs /\ commands[h + 1] = commands[i + 1]
    BY Zenon, <1>1
  <2>2. h + 1 = i + 1
    BY Zenon, <1>1, <1>2, <2>1 DEF QueueInv, QueuedOnce
  <2> QED BY Zenon, <1>2, <2>2
<1>10. QueuedFound'
  <2> SUFFICES ASSUME NEW j \in Jobs, phase[j] = "queued", j # x PROVE \E h \in 1 .. n - 1 : commands'[h] = j
    BY Zenon, <1>1 DEF QueuedFound
  <2>1. PICK h \in 1 .. n : commands[h] = j
    BY Zenon, <1>1 DEF QueueInv, QueuedFound
  <2> QED BY Zenon, <1>3, <2>1
<1>11. QueuedAhead'
  <2> SUFFICES ASSUME NEW i \in DOMAIN commands', commands'[i] \in Calls, NEW j \in ahead'[commands'[i]], phase'[j] = "queued"
               PROVE  \E h \in DOMAIN commands' : h < i /\ commands'[h] = j
    BY Zenon DEF QueuedAhead
  <2>0. i \in 1 .. n - 1 /\ j \in ahead[commands'[i]]
    BY Zenon, <1>0, <1>1
  <2>1. commands'[i] = commands[i + 1] /\ i + 1 \in 1 .. n
    BY Zenon, <1>1, <1>2, <2>0
  <2>2. j \in Jobs
    BY Zenon, <1>5, <2>0
  <2>3. phase[j] = "queued" /\ j # x
    BY Zenon, <2>2
  <2>4. PICK h \in 1 .. n : h < i + 1 /\ commands[h] = j
    BY <1>1, <2>0, <2>1, <2>3 DEF QueueInv, QueuedAhead
  <2>5. h # 1
    BY Zenon, <2>3, <2>4
  <2>6. h - 1 \in 1 .. n - 1 /\ h - 1 < i /\ commands'[h - 1] = j
    BY Zenon, <1>2, <1>3, <2>0, <2>4, <2>5
  <2> QED BY Zenon, <1>1, <2>6
<1> QED BY Zenon, <1>6, <1>7, <1>8, <1>9, <1>10, <1>11 DEF QueueInv

LEMMA QueueControl ==
  ASSUME TypeInv, QueueInv, control # <<>>, control' = Tail(control), UNCHANGED <<commands, phase, answer, ahead>>
  PROVE  QueueInv'
<1>0. commands' = commands /\ phase' = phase /\ answer' = answer /\ ahead' = ahead
  BY Zenon
<1>1. \A i \in DOMAIN control' : \E h \in DOMAIN control : control'[i] = control[h]
  <2>1. /\ DOMAIN control' = 1 .. Len(control) - 1 /\ DOMAIN control = 1 .. Len(control) /\ Len(control) \in Nat
        /\ \A i \in 1 .. Len(control) - 1 : control'[i] = control[i + 1]
    BY Zenon, ChannelsTyped, Received
  <2>2. \A i \in 1 .. Len(control) - 1 : i + 1 \in 1 .. Len(control)
    BY <2>1
  <2> QED BY Zenon, <2>1, <2>2
<1>2. ControlCalls'
  BY Zenon, <1>0, <1>1 DEF QueueInv, ControlCalls, Durable
<1>3. QueuedJobs' /\ QueuedCalls' /\ QueuedOnce' /\ QueuedFound' /\ QueuedAhead'
  BY <1>0 DEF QueueInv, QueuedJobs, QueuedCalls, QueuedOnce, QueuedFound, QueuedAhead, Durable
<1> QED BY Zenon, <1>2, <1>3 DEF QueueInv

(* Both channels are emptied, and what waited there waits no more.         *)
LEMMA QueueDiscard ==
  ASSUME TypeInv, NEW reaped, Discard(reaped)
  PROVE  QueueInv'
<1>1. commands' = <<>> /\ control' = <<>> /\ \A j \in Jobs : phase'[j] # "queued"
  BY Zenon DEF Discard, Discarded, TypeInv
<1>2. DOMAIN commands' = {} /\ DOMAIN control' = {}
  BY <1>1
<1> QED BY Zenon, <1>1, <1>2 DEF QueueInv, QueuedJobs, QueuedCalls, ControlCalls, QueuedOnce, QueuedFound, QueuedAhead

(* Every step keeps the channels in order.                                 *)
LEMMA QueueStep == TypeInv /\ QueueInv /\ CallInv /\ [Next]_vars => QueueInv'
<1> SUFFICES ASSUME TypeInv, QueueInv, CallInv, [Next]_vars PROVE QueueInv'
  BY Zenon
<1> USE DEF channels, workerVars, registry, reapVars, callVars, taskVars
<1>0. ASSUME UNCHANGED <<commands, control, phase, answer, ahead>> PROVE QueueInv'
  BY Zenon, <1>0, QueueMove
<1>a. ASSUME NEW j \in Jobs, NEW p \in Phases, Become(j, p), p # "queued", phase[j] # "queued",
             UNCHANGED <<commands, control, answer, ahead>>
      PROVE  QueueInv'
  <2>1. \A i \in Jobs : phase'[i] = "queued" <=> phase[i] = "queued"
    BY Zenon, <1>a, BecomePhase
  <2> QED BY Zenon, <1>a, <2>1, QueueMove
<1>1. ASSUME NEW j \in Jobs, Dispatch(j) \/ Admit(j) PROVE QueueInv'
  <2>1. \/ commands' = Append(commands, j) /\ Become(j, "queued")
        \/ \E p \in {"refused", "lost"} : UNCHANGED commands /\ Become(j, p)
    BY Zenon, <1>1 DEF Dispatch, Admit
  <2>2. phase[j] \in {"new", "prepared"} /\ UNCHANGED <<control, answer, ahead>>
    BY Zenon, <1>1 DEF Dispatch, Admit
  <2> QED BY Zenon, <1>a, <2>1, <2>2, QueueSend DEF Phases
<1>2. ASSUME NEW j \in Jobs, Prepare(j) \/ AdmitRejected(j) \/ IngressDone(j) PROVE QueueInv'
  <2>1. \E p \in {"prepared", "refused", "processing"} : Become(j, p)
    BY Zenon, <1>2 DEF Prepare, AdmitRejected, IngressDone
  <2>2. phase[j] # "queued" /\ UNCHANGED <<commands, control, answer, ahead>>
    BY Zenon, <1>2 DEF Prepare, AdmitRejected, IngressDone
  <2> QED BY Zenon, <1>a, <2>1, <2>2 DEF Phases
<1>3. ASSUME NEW j \in Jobs, TaskStep(j) PROVE QueueInv'
  <2>1. ASSUME NEW result \in Results, End(j, result), phase[j] \in {"ingress", "processing"} PROVE QueueInv'
    BY Zenon, <1>a, <2>1 DEF End, Phases
  <2>2. ASSUME Propose(j) PROVE QueueInv'
    BY Zenon, <1>0, <2>2 DEF Propose
  <2> QED BY Zenon, <1>2, <1>3, <2>1, <2>2, TaskForm
<1>4. ASSUME NEW c \in Calls, CancelSend(c) PROVE QueueInv'
  BY Zenon, <1>4, QueueCancel
<1>5. ASSUME NEW c \in Calls, CancelUnknown(c) \/ CancelReturn(c) PROVE QueueInv'
  <2>1. UNCHANGED <<commands, control, phase, ahead>> /\ \A d \in Calls : answer[d] # "none" => answer'[d] # "none"
    BY Zenon, <1>5 DEF CancelUnknown, CancelReturn, TypeInv
  <2> QED BY Zenon, <2>1, QueueMove
<1>6. ASSUME NEW j \in Jobs, Execute(j) PROVE QueueInv'
  <2>1. Receive(j) /\ UNCHANGED <<answer, ahead>> /\ \E p \in {"refused", "ingress"} : Become(j, p)
    BY Zenon, <1>6 DEF Execute
  <2>2. commands # <<>> /\ commands[1] = j /\ commands' = Tail(commands) /\ UNCHANGED control
    BY Zenon, <2>1, ReceivedJob
  <2>3. \A i \in Jobs : phase'[i] = "queued" <=> phase[i] = "queued" /\ i # j
    BY Zenon, <2>1, BecomePhase
  <2> QED BY Zenon, <2>1, <2>2, <2>3, QueueReceive
<1>7. ASSUME NEW c \in Calls, Cancel(c) PROVE QueueInv'
  <2>1. Receive(c) /\ UNCHANGED <<phase, answer, ahead>>
    BY Zenon, <1>7 DEF Cancel
  <2>2. phase' = phase /\ \A j \in Jobs : j # c
    BY Zenon, Identities, <2>1
  <2>3. \A j \in Jobs : phase'[j] = "queued" <=> phase[j] = "queued" /\ j # c
    BY Zenon, <2>2
  <2> QED BY Zenon, <2>1, <2>3, ReceivedCall, QueueReceive, QueueControl
<1>9. ASSUME Stopped \/ AbortWorker PROVE QueueInv'
  BY Zenon, <1>9, QueueDiscard DEF Stopped, AbortWorker
<1>10. ASSUME NEW j \in Jobs, AdmitReturns(j) \/ CancelToken(j) \/ JoinReaper(j) \/ ReaperStep(j) PROVE QueueInv'
  BY Zenon, <1>0, <1>10 DEF AdmitReturns, CancelToken, JoinReaper, ReaperStep, ReaperCancels, ReaperAborts, ReaperAcks
<1>11. ASSUME Leave \/ Shutdown \/ UNCHANGED vars PROVE QueueInv'
  BY Zenon, <1>0, <1>11 DEF Leave, Shutdown, vars
<1> QED BY Zenon, <1>1, <1>2, <1>3, <1>4, <1>5, <1>6, <1>7, <1>9, <1>10, <1>11 DEF Next, ClientStep, WorkerStep

-----------------------------------------------------------------------------
(* No execution becomes new or prepared again, and only the first move of  *)
(* an execution prepares it.                                               *)
LEMMA PhaseStep ==
  ASSUME TypeInv, QueueInv, [Next]_vars, NEW j \in Jobs
  PROVE  /\ phase[j] \notin {"new", "prepared"} => phase'[j] \notin {"new", "prepared"}
         /\ phase[j] = "ended" => phase'[j] = "ended"
         /\ phase[j] = "refused" => phase'[j] = "refused"
         /\ phase'[j] = "queued" => phase[j] \in {"new", "prepared", "queued"}
         /\ phase'[j] \in {"ingress", "processing"} => phase[j] \in {"queued", "ingress", "processing"}
         /\ phase'[j] \in {"prepared", "lost"} => phase[j] \in {"prepared", "lost"} \/ Durable(j)
<1> USE DEF channels, workerVars, registry, reapVars, callVars, taskVars
<1> DEFINE Moved(i, p, q) ==
      /\ p \notin {"new", "prepared"} => q \notin {"new", "prepared"}
      /\ p = "ended" => q = "ended"
      /\ p = "refused" => q = "refused"
      /\ q = "queued" => p \in {"new", "prepared", "queued"}
      /\ q \in {"ingress", "processing"} => p \in {"queued", "ingress", "processing"}
      /\ q \in {"prepared", "lost"} => p \in {"prepared", "lost"} \/ Durable(i)
<1>0. ASSUME phase' = phase PROVE Moved(j, phase[j], phase'[j])
  BY Zenon, <1>0
<1>a. ASSUME NEW i \in Jobs, NEW p, Become(i, p), Moved(i, phase[i], p) PROVE Moved(j, phase[j], phase'[j])
  BY Zenon, <1>a DEF Become, TypeInv
<1>1. ASSUME NEW i \in Jobs, Dispatch(i) \/ Admit(i) \/ Prepare(i) \/ AdmitRejected(i) PROVE Moved(j, phase[j], phase'[j])
  <2>1. \E p \in {"queued", "refused", "prepared", "lost"} :
          /\ Become(i, p)
          /\ p = "prepared" => phase[i] = "new" /\ Durable(i)
          /\ p = "lost" => phase[i] = "prepared"
    BY Zenon, <1>1 DEF Dispatch, Admit, Prepare, AdmitRejected
  <2>2. phase[i] \in {"new", "prepared"}
    BY Zenon, <1>1 DEF Dispatch, Admit, Prepare, AdmitRejected
  <2> QED BY Zenon, <1>a, <2>1, <2>2
<1>2. ASSUME NEW i \in Jobs, TaskStep(i) PROVE Moved(j, phase[j], phase'[j])
  <2>1. ASSUME NEW p \in {"processing", "ended"}, Become(i, p), phase[i] \in {"ingress", "processing"}
        PROVE  Moved(j, phase[j], phase'[j])
    BY Zenon, <1>a, <2>1
  <2> QED BY Zenon, <1>0, <1>2, <2>1, TaskForm DEF IngressDone, Propose, End
<1>3. ASSUME NEW i \in Jobs, Execute(i) PROVE Moved(j, phase[j], phase'[j])
  <2>1. Receive(i) /\ \E p \in {"refused", "ingress"} : Become(i, p)
    BY Zenon, <1>3 DEF Execute
  <2>2. phase[i] = "queued"
    BY Zenon, <2>1, ReceivedJob
  <2> QED BY Zenon, <1>a, <2>1, <2>2
<1>4. ASSUME Stopped \/ AbortWorker PROVE Moved(j, phase[j], phase'[j])
  BY <1>4 DEF Stopped, AbortWorker, Discard, Discarded
<1>5. ASSUME NEW i \in Jobs, AdmitReturns(i) \/ CancelToken(i) \/ JoinReaper(i) \/ ReaperStep(i) PROVE phase' = phase
  BY Zenon, <1>5 DEF AdmitReturns, CancelToken, JoinReaper, ReaperStep, ReaperCancels, ReaperAborts, ReaperAcks
<1>6. ASSUME NEW c \in Calls, CancelSend(c) \/ CancelUnknown(c) \/ CancelReturn(c) \/ Cancel(c) PROVE phase' = phase
  BY Zenon, <1>6 DEF CancelSend, CancelUnknown, CancelReturn, Cancel
<1>7. ASSUME Leave \/ Shutdown \/ UNCHANGED vars PROVE phase' = phase
  BY Zenon, <1>7 DEF Leave, Shutdown, vars
<1> HIDE DEF Moved
<1>8. Moved(j, phase[j], phase'[j])
  BY Zenon, <1>0, <1>1, <1>2, <1>3, <1>4, <1>5, <1>6, <1>7 DEF Next, ClientStep, WorkerStep
<1> QED BY Zenon, <1>8 DEF Moved

(* An answer is not taken back, and only a call that was sent is           *)
(* acknowledged.                                                           *)
LEMMA AnswerStep ==
  ASSUME TypeInv, QueueInv, CallInv, [Next]_vars, NEW c \in Calls
  PROVE  /\ answer[c] # "none" => answer'[c] # "none"
         /\ ack'[c] # ack[c] => answer[c] # "none"
<1> USE DEF channels, workerVars, registry, reapVars, callVars, taskVars
<1> DEFINE Goal == /\ answer[c] # "none" => answer'[c] # "none"
                   /\ ack'[c] # ack[c] => answer[c] # "none"
<1>1. ASSUME NEW d \in Calls, CancelSend(d) \/ CancelUnknown(d) \/ CancelReturn(d) PROVE Goal
  BY Zenon, <1>1 DEF CancelSend, CancelUnknown, CancelReturn, TypeInv
<1>2. ASSUME NEW d \in Calls, Cancel(d) PROVE Goal
  <2>1. Receive(d) /\ UNCHANGED answer /\ (ack' = ack \/ ack' = [ack EXCEPT ![d] = "notActive"])
    BY Zenon, <1>2 DEF Cancel
  <2>2. answer[d] # "none"
    BY Zenon, <2>1, ReceivedCall
  <2> QED BY Zenon, <2>1, <2>2 DEF TypeInv
<1>3. ASSUME NEW j \in Jobs, ReaperAcks(j) PROVE Goal
  BY Zenon, <1>3 DEF ReaperAcks, CallInv, TypeInv
<1>4. ASSUME NEW reaped \in SUBSET Jobs, Discard(reaped) PROVE Goal
  <2> DEFINE Lost == \/ \E i \in DOMAIN commands : commands[i] = c
                     \/ \E i \in DOMAIN control : control[i] = c
                     \/ \E j \in reaped : reapCall[j] = c
  <2>1. answer' = answer
    BY Zenon, <1>4 DEF Discard
  <2>2. ack'[c] = IF Lost THEN "dropped" ELSE ack[c]
    BY Zenon, <1>4 DEF Discard
  <2>3. ack'[c] # ack[c] => Lost
    BY Zenon, <2>2
  <2>4. Lost => answer[c] # "none"
    <3>1. ASSUME NEW i \in DOMAIN commands, commands[i] = c PROVE answer[c] # "none"
      BY Zenon, <3>1 DEF QueueInv, QueuedCalls
    <3>2. ASSUME NEW i \in DOMAIN control, control[i] = c PROVE answer[c] # "none"
      BY Zenon, <3>2 DEF QueueInv, ControlCalls
    <3>3. ASSUME NEW j \in reaped, reapCall[j] = c PROVE answer[c] # "none"
      BY Zenon, <3>3 DEF CallInv
    <3> QED BY Zenon, <3>1, <3>2, <3>3
  <2> QED BY Zenon, <2>1, <2>3, <2>4
<1>5. ASSUME Stopped \/ AbortWorker PROVE Goal
  <2>1. \E reaped \in SUBSET Jobs : Discard(reaped)
    BY Zenon, <1>5 DEF Stopped, AbortWorker
  <2> QED BY Zenon, <1>4, <2>1
<1>0. ASSUME UNCHANGED <<answer, ack>> PROVE Goal
  BY Zenon, <1>0
<1>6. ASSUME NEW j \in Jobs, Dispatch(j) \/ Prepare(j) \/ AdmitRejected(j) \/ Admit(j) \/ AdmitReturns(j) \/ CancelToken(j)
      PROVE  UNCHANGED <<answer, ack>>
  BY Zenon, <1>6 DEF Dispatch, Prepare, AdmitRejected, Admit, AdmitReturns, CancelToken
<1>7. ASSUME NEW j \in Jobs, JoinReaper(j) \/ Execute(j) \/ ReaperCancels(j) \/ ReaperAborts(j)
      PROVE  UNCHANGED <<answer, ack>>
  BY Zenon, <1>7 DEF JoinReaper, Execute, ReaperCancels, ReaperAborts
<1>8. ASSUME NEW j \in Jobs, TaskStep(j) PROVE UNCHANGED <<answer, ack>>
  BY Zenon, <1>8, TaskForm DEF IngressDone, Propose, End
<1>9. ASSUME Leave \/ Shutdown \/ UNCHANGED vars PROVE UNCHANGED <<answer, ack>>
  BY Zenon, <1>9 DEF Leave, Shutdown, vars
<1> HIDE DEF Goal
<1>10. Goal
  BY Zenon, <1>0, <1>1, <1>2, <1>3, <1>5, <1>6, <1>7, <1>8, <1>9 DEF Next, ClientStep, WorkerStep, ReaperStep
<1> QED BY Zenon, <1>10 DEF Goal

(* Only sending a cancellation decides what it follows, and only receiving *)
(* one gives a reaper its call.                                            *)
LEMMA CallForm ==
  ASSUME [Next]_vars
  PROVE  /\ ahead' = ahead \/ \E c \in Calls : CancelSend(c)
         /\ reapCall' = reapCall \/ \E c \in Calls : Cancel(c)
<1> USE DEF channels, workerVars, registry, reapVars, callVars, taskVars
<1>1. ASSUME NEW c \in Calls, CancelUnknown(c) \/ CancelReturn(c) \/ CancelSend(c) \/ Cancel(c)
      PROVE  /\ ahead' = ahead \/ CancelSend(c)
             /\ reapCall' = reapCall \/ Cancel(c)
  BY Zenon, <1>1 DEF CancelUnknown, CancelReturn, CancelSend, Cancel
<1>6. ASSUME NEW j \in Jobs, Dispatch(j) \/ Prepare(j) \/ AdmitRejected(j) \/ Admit(j) \/ AdmitReturns(j) \/ CancelToken(j)
      PROVE  UNCHANGED <<ahead, reapCall>>
  BY Zenon, <1>6 DEF Dispatch, Prepare, AdmitRejected, Admit, AdmitReturns, CancelToken
<1>7. ASSUME NEW j \in Jobs, JoinReaper(j) \/ Execute(j) \/ ReaperStep(j)
      PROVE  UNCHANGED <<ahead, reapCall>>
  BY Zenon, <1>7 DEF JoinReaper, Execute, ReaperStep, ReaperCancels, ReaperAborts, ReaperAcks
<1>8. ASSUME NEW j \in Jobs, TaskStep(j) PROVE UNCHANGED <<ahead, reapCall>>
  BY Zenon, <1>8, TaskForm DEF IngressDone, Propose, End
<1>9. ASSUME Leave \/ Shutdown \/ Stopped \/ AbortWorker \/ UNCHANGED vars PROVE UNCHANGED <<ahead, reapCall>>
  BY Zenon, <1>9 DEF Leave, Shutdown, Stopped, AbortWorker, Discard, vars
<1> QED BY Zenon, <1>1, <1>6, <1>7, <1>8, <1>9 DEF Next, ClientStep, WorkerStep

(* Every step keeps what the calls know.                                   *)
LEMMA CallStep == TypeInv /\ QueueInv /\ CallInv /\ TrackInv /\ [Next]_vars => CallInv'
<1> SUFFICES ASSUME TypeInv, QueueInv, CallInv, TrackInv, [Next]_vars PROVE CallInv'
  BY Zenon
<1>1. \A c \in Calls : answer'[c] = "none" => ack'[c] = "none"
  BY Zenon, AnswerStep DEF CallInv
<1>2. \A j \in Jobs : reapCall'[j] \in Calls => answer[reapCall'[j]] # "none" /\ KeyOf[reapCall'[j]] = KeyOf[j]
  <2>1. ASSUME NEW c \in Calls, Cancel(c)
        PROVE  \A j \in Jobs : reapCall'[j] \in Calls => answer[reapCall'[j]] # "none" /\ KeyOf[reapCall'[j]] = KeyOf[j]
    <3>1. Receive(c)
      BY Zenon, <2>1 DEF Cancel
    <3>2. answer[c] # "none"
      BY Zenon, <3>1, ReceivedCall
    <3>3. KeyOf[c] \in Keys
      BY Zenon, WorkerAssumption
    <3>4. PICK i : i = active[KeyOf[c]]
      BY Zenon
    <3>5. i # NoJob => i \in Jobs /\ KeyOf[i] = KeyOf[c]
      <4>1. i # NoJob => i \in Jobs
        BY Zenon, <3>3, <3>4, ActiveTyped
      <4> QED BY Zenon, <3>3, <3>4, <4>1 DEF TrackInv, ActiveStarted
    <3>6. reapCall' = reapCall \/ (i # NoJob /\ reapCall' = [reapCall EXCEPT ![i] = c])
      BY Zenon, <2>1, <3>4 DEF Cancel, reapVars
    <3>7. CASE reapCall' = reapCall
      BY Zenon, <3>7 DEF CallInv
    <3>8. CASE i # NoJob /\ reapCall' = [reapCall EXCEPT ![i] = c]
      <4>1. \A j \in Jobs : reapCall'[j] = IF j = i THEN c ELSE reapCall[j]
        BY Zenon, <3>5, <3>8, ReaperTyped
      <4> QED BY <3>2, <3>5, <3>8, <4>1 DEF CallInv
    <3> QED BY Zenon, <3>6, <3>7, <3>8
  <2> QED BY Zenon, <2>1, CallForm DEF CallInv
<1>3. \A c \in Calls : \A j \in ahead'[c] : KeyOf[j] = KeyOf[c] /\ phase'[j] \notin {"new", "prepared"} /\ j \in Jobs
  <2>1. ASSUME NEW c \in Calls, CancelSend(c)
        PROVE  \A d \in Calls : \A j \in ahead'[d] : KeyOf[j] = KeyOf[d] /\ phase[j] \notin {"new", "prepared"} /\ j \in Jobs
    BY <2>1 DEF CancelSend, Running, TypeInv, CallInv
  <2>2. \A c \in Calls : \A j \in ahead'[c] : KeyOf[j] = KeyOf[c] /\ phase[j] \notin {"new", "prepared"} /\ j \in Jobs
    BY Zenon, <2>1, CallForm DEF CallInv, TypeInv
  <2> QED BY Zenon, <2>2, PhaseStep
<1>4. \A j \in Jobs : reapCall'[j] \in Calls => answer'[reapCall'[j]] # "none"
  BY Zenon, <1>2, AnswerStep
<1> QED BY Zenon, <1>1, <1>2, <1>3, <1>4 DEF CallInv

-----------------------------------------------------------------------------
(* Where what runs is kept.  A move of an execution that does not start it *)
(* disturbs nothing.                                                       *)
LEMMA TrackMove ==
  ASSUME TypeInv, TrackInv, UNCHANGED <<reaper, active, cancelling, worker, aborted, forced>>,
         \A j \in Jobs : /\ phase'[j] \in {"ingress", "processing"} => phase[j] \in {"ingress", "processing"}
                         /\ phase[j] \in Started => phase'[j] \in Started
                         /\ phase[j] = "ended" => phase'[j] = "ended"
  PROVE  TrackInv'
<1>0. /\ reaper' = reaper /\ active' = active /\ cancelling' = cancelling
      /\ worker' = worker /\ aborted' = aborted /\ forced' = forced
  BY Zenon
<1>1. \A k \in Keys : active[k] # NoJob => active[k] \in Jobs
  BY Zenon, ActiveTyped
<1>2. ActiveStarted'
  BY Zenon, <1>0, <1>1 DEF TrackInv, ActiveStarted
<1>3. RunsTracked' /\ ReturnedEnded'
  BY Zenon, <1>0 DEF TrackInv, RunsTracked, ReturnedEnded, Reaping
<1>4. ActiveServed' /\ ReapedKeys' /\ OneReaper' /\ GoneReaped'
  BY Zenon, <1>0 DEF TrackInv, ActiveServed, ReapedKeys, OneReaper, GoneReaped
<1> QED BY Zenon, <1>2, <1>3, <1>4 DEF TrackInv

(* The sweep forgets only executions that ended.                           *)
Forgets(f, g) ==
    \A k \in Keys : /\ g[k] # NoJob => g[k] = f[k]
                    /\ f[k] # NoJob /\ phase[f[k]] # "ended" => g[k] = f[k]
                    /\ f[k] = NoJob => g[k] = NoJob

LEMMA SweepForgets ==
  ASSUME NEW f
  PROVE  Forgets(f, Swept(f))
  BY Zenon DEF Swept, Forgets

(* A sweep while the worker serves: the phases and the reapers but one     *)
(* that returned are as they were.                                         *)
LEMMA TrackSweep ==
  ASSUME TypeInv, TrackInv, worker = "serving", UNCHANGED <<phase, worker, aborted, forced>>,
         Forgets(active, active'),
         \A i \in Jobs : reaper'[i] = reaper[i] \/ (reaper[i] = "returned" /\ reaper'[i] = "none"),
         \A i \in Jobs : reaper'[i] # "none" /\ KeyOf[i] \in cancelling => KeyOf[i] \in cancelling'
  PROVE  TrackInv'
<1>0. phase' = phase /\ worker' = worker /\ aborted' = aborted /\ forced' = forced
  BY Zenon
<1>1. \A i \in Jobs : KeyOf[i] \in Keys /\ i # NoJob
  BY Zenon, Identities
<1>2. ActiveStarted'
  BY Zenon, <1>0 DEF TrackInv, ActiveStarted, Forgets
<1>3. \A i \in Jobs : phase[i] \in {"ingress", "processing"} => active[KeyOf[i]] = i \/ Reaping(i)
  BY Zenon DEF TrackInv, RunsTracked
<1>4. RunsTracked'
  <2> SUFFICES ASSUME NEW i \in Jobs, phase[i] \in {"ingress", "processing"}
               PROVE  active'[KeyOf[i]] = i \/ reaper'[i] \in {"spawned", "waiting", "aborting"}
    BY Zenon, <1>0 DEF RunsTracked, Reaping
  <2>1. CASE active[KeyOf[i]] = i
    <3>1. phase[active[KeyOf[i]]] # "ended" /\ active[KeyOf[i]] # NoJob
      BY Zenon, <1>1, <2>1
    <3> QED BY Zenon, <1>1, <2>1, <3>1 DEF Forgets
  <2>2. CASE Reaping(i)
    BY Zenon, <2>2 DEF Reaping
  <2> QED BY Zenon, <1>3, <2>1, <2>2
<1>5. ReapedKeys'
  BY Zenon, <1>0, <1>1 DEF TrackInv, ReapedKeys, Forgets
<1>6. OneReaper'
  BY Zenon DEF TrackInv, OneReaper
<1>7. ReturnedEnded'
  BY Zenon, <1>0 DEF TrackInv, ReturnedEnded
<1>8. ActiveServed' /\ GoneReaped'
  BY Zenon, <1>0 DEF ActiveServed, GoneReaped
<1> QED BY Zenon, <1>2, <1>4, <1>5, <1>6, <1>7, <1>8 DEF TrackInv

LEMMA TrackJoin ==
  ASSUME TypeInv, TrackInv, NEW j \in Jobs, JoinReaper(j)
  PROVE  TrackInv'
<1>1. /\ worker = "serving" /\ reaper[j] = "returned" /\ j \in Jobs
      /\ UNCHANGED <<phase, worker, aborted, forced>>
      /\ cancelling' = cancelling \ {KeyOf[j]} /\ active' = Swept(active)
      /\ reaper' = [reaper EXCEPT ![j] = "none"]
  BY Zenon DEF JoinReaper, Returned, workerVars
<1>2. \A i \in Jobs : reaper'[i] = IF i = j THEN "none" ELSE reaper[i]
  BY Zenon, <1>1, ReaperTyped
<1>3. \A i \in Jobs : reaper[i] # "none" /\ KeyOf[i] = KeyOf[j] => i = j
  BY Zenon, <1>1 DEF TrackInv, OneReaper
<1>4. \A i \in Jobs : reaper'[i] # "none" /\ KeyOf[i] \in cancelling => KeyOf[i] \in cancelling'
  BY Zenon, <1>1, <1>2, <1>3
<1>5. \A i \in Jobs : reaper'[i] = reaper[i] \/ (reaper[i] = "returned" /\ reaper'[i] = "none")
  BY Zenon, <1>1, <1>2
<1>6. Forgets(active, active')
  BY Zenon, <1>1, SweepForgets
<1> QED BY Zenon, <1>1, <1>4, <1>5, <1>6, TrackSweep

LEMMA TrackExecute ==
  ASSUME TypeInv, QueueInv, TrackInv, NEW j \in Jobs, Execute(j)
  PROVE  TrackInv'
<1>1. worker = "serving" /\ phase[j] = "queued" /\ UNCHANGED <<worker, aborted, forced, reaper, cancelling>>
  BY Zenon, ReceivedJob DEF Execute, workerVars, reapVars
<1>0. worker' = worker /\ aborted' = aborted /\ forced' = forced /\ reaper' = reaper /\ cancelling' = cancelling
  BY Zenon, <1>1
<1>2. Forgets(active, Swept(active))
  BY Zenon, SweepForgets
<1>3. \A i \in Jobs : KeyOf[i] \in Keys /\ i # NoJob
  BY Zenon, Identities
<1>4. \A k \in Keys : active[k] # NoJob => active[k] \in Jobs /\ active[k] # j
  <2>1. \A k \in Keys : active[k] # NoJob => phase[active[k]] \in Started
    BY Zenon DEF TrackInv, ActiveStarted
  <2>2. \A k \in Keys : active[k] \in Jobs \cup {NoJob}
    BY Zenon, ActiveTyped
  <2>3. \A k \in Keys : active[k] = j => FALSE
    BY Zenon, <1>1, <1>3, <2>1 DEF Started
  <2> QED BY Zenon, <2>2, <2>3
<1>5. \A i \in Jobs : phase[i] \in {"ingress", "processing"} => active[KeyOf[i]] = i \/ Reaping(i)
  BY Zenon, <1>1 DEF TrackInv, RunsTracked
<1>6. \A i \in Jobs : phase[i] \in {"ingress", "processing"} => Swept(active)[KeyOf[i]] = i \/ Reaping(i)
  <2> SUFFICES ASSUME NEW i \in Jobs, phase[i] \in {"ingress", "processing"}, ~ Reaping(i)
               PROVE  Swept(active)[KeyOf[i]] = i
    BY Zenon
  <2>1. active[KeyOf[i]] = i /\ KeyOf[i] \in Keys /\ i # NoJob /\ phase[i] # "ended"
    BY Zenon, <1>3, <1>5
  <2> QED BY Zenon, <1>2, <2>1 DEF Forgets
<1>7. \A i \in Jobs : reaper[i] # "none" => KeyOf[i] \in cancelling /\ Swept(active)[KeyOf[i]] = NoJob
  BY Zenon, <1>1, <1>2, <1>3 DEF TrackInv, ReapedKeys, Forgets
<1>8. \A k \in Keys : Swept(active)[k] # NoJob => /\ Swept(active)[k] \in Jobs /\ Swept(active)[k] # j
                                                  /\ KeyOf[Swept(active)[k]] = k /\ phase[Swept(active)[k]] \in Started
  BY Zenon, <1>2, <1>4 DEF TrackInv, ActiveStarted, Forgets
<1>9. OneReaper' /\ ActiveServed' /\ GoneReaped'
  BY Zenon, <1>0, <1>1 DEF TrackInv, OneReaper, ActiveServed, GoneReaped
<1>10. ASSUME NEW p, Become(j, p) PROVE ReturnedEnded'
  <2>1. \A i \in Jobs : phase'[i] = IF i = j THEN p ELSE phase[i]
    BY Zenon, <1>10, BecomePhase
  <2>2. reaper[j] # "returned"
    BY Zenon, <1>1 DEF TrackInv, ReturnedEnded
  <2> QED BY Zenon, <1>0, <2>1, <2>2 DEF TrackInv, ReturnedEnded
<1>11. CASE active' = Swept(active) /\ Become(j, "refused")
  <2>1. \A i \in Jobs : phase'[i] = IF i = j THEN "refused" ELSE phase[i]
    BY Zenon, <1>11, BecomePhase
  <2>2. ActiveStarted'
    BY Zenon, <1>8, <1>11, <2>1 DEF ActiveStarted
  <2>3. RunsTracked'
    BY Zenon, <1>0, <1>6, <1>11, <2>1 DEF RunsTracked, Reaping
  <2>4. ReapedKeys'
    BY Zenon, <1>0, <1>7, <1>11 DEF ReapedKeys
  <2> QED BY Zenon, <1>9, <1>10, <1>11, <2>2, <2>3, <2>4 DEF TrackInv
<1>12. CASE active' = [Swept(active) EXCEPT ![KeyOf[j]] = j] /\ Become(j, "ingress") /\ ~ Busy(j)
  <2>1. \A i \in Jobs : phase'[i] = IF i = j THEN "ingress" ELSE phase[i]
    BY Zenon, <1>12, BecomePhase
  <2>2. \A k \in Keys : active'[k] = IF k = KeyOf[j] THEN j ELSE Swept(active)[k]
    BY Zenon, <1>3, <1>12 DEF Swept
  <2>3. KeyOf[j] \notin cancelling /\ (active[KeyOf[j]] = NoJob \/ phase[active[KeyOf[j]]] = "ended")
    BY Zenon, <1>12 DEF Busy
  <2>4. ActiveStarted'
    BY <1>8, <2>1, <2>2 DEF ActiveStarted, Started
  <2>5. \A i \in Jobs : phase[i] \in {"ingress", "processing"} /\ ~ Reaping(i) => KeyOf[i] # KeyOf[j]
    BY Zenon, <1>3, <1>5, <2>3
  <2>6. RunsTracked'
    <3> SUFFICES ASSUME NEW i \in Jobs, phase'[i] \in {"ingress", "processing"}, ~ Reaping(i) PROVE active'[KeyOf[i]] = i
      BY Zenon, <1>0 DEF RunsTracked, Reaping
    <3>1. CASE i = j
      BY Zenon, <1>3, <2>2, <3>1
    <3>2. CASE i # j
      BY Zenon, <1>3, <1>6, <2>1, <2>2, <2>5, <3>2
    <3> QED BY Zenon, <3>1, <3>2
  <2>7. ReapedKeys'
    BY Zenon, <1>0, <1>3, <1>7, <2>2, <2>3 DEF ReapedKeys
  <2> QED BY Zenon, <1>9, <1>10, <1>12, <2>4, <2>6, <2>7 DEF TrackInv
<1> QED BY Zenon, <1>11, <1>12 DEF Execute

LEMMA TrackCancel ==
  ASSUME TypeInv, QueueInv, TrackInv, NEW c \in Calls, Cancel(c)
  PROVE  TrackInv'
<1>1. worker = "serving" /\ UNCHANGED <<worker, aborted, forced, phase>>
  BY Zenon, ReceivedCall DEF Cancel, workerVars
<1>0. worker' = worker /\ aborted' = aborted /\ forced' = forced /\ phase' = phase
  BY Zenon, <1>1
<1>2. KeyOf[c] \in Keys /\ \A i \in Jobs : KeyOf[i] \in Keys /\ i # NoJob
  BY Zenon, Identities
<1>3. PICK j : j = active[KeyOf[c]]
  BY Zenon
<1>4. CASE j = NoJob
  <2>1. UNCHANGED <<reaper, cancelling>> /\ active' = Swept(active)
    BY Zenon, <1>3, <1>4 DEF Cancel, reapVars
  <2>2. reaper' = reaper /\ cancelling' = cancelling /\ Forgets(active, active')
    BY Zenon, <2>1, SweepForgets
  <2> QED BY Zenon, <1>1, <2>2, TrackSweep
<1>5. CASE j # NoJob
  <2>0. j \in Jobs /\ KeyOf[j] = KeyOf[c]
    <3>1. j \in Jobs
      BY Zenon, <1>2, <1>3, <1>5, ActiveTyped
    <3> QED BY Zenon, <1>2, <1>3, <1>5, <3>1 DEF TrackInv, ActiveStarted
  <2>1. /\ reaper' = [reaper EXCEPT ![j] = "spawned"]
        /\ cancelling' = cancelling \cup {KeyOf[c]}
        /\ active' = Swept([active EXCEPT ![KeyOf[c]] = NoJob])
    BY Zenon, <1>3, <1>5 DEF Cancel
  <2>a. \A i \in Jobs : reaper'[i] = IF i = j THEN "spawned" ELSE reaper[i]
    BY Zenon, <2>0, <2>1, ReaperTyped
  <2>2. PICK f : f = [active EXCEPT ![KeyOf[c]] = NoJob]
    BY Zenon
  <2>3. \A k \in Keys : f[k] = IF k = KeyOf[c] THEN NoJob ELSE active[k]
    BY Zenon, <1>2, <2>2, ActiveTyped
  <2>4. Forgets(f, active')
    BY Zenon, <2>1, <2>2, SweepForgets
  <2>5. ActiveStarted'
    <3>1. \A k \in Keys : active'[k] # NoJob => active'[k] = active[k]
      BY Zenon, <2>3, <2>4 DEF Forgets
    <3> QED BY Zenon, <1>0, <3>1 DEF TrackInv, ActiveStarted
  <2>6. RunsTracked'
    <3> SUFFICES ASSUME NEW i \in Jobs, phase[i] \in {"ingress", "processing"}
                 PROVE  active'[KeyOf[i]] = i \/ reaper'[i] \in {"spawned", "waiting", "aborting"}
      BY Zenon, <1>0 DEF RunsTracked, Reaping
    <3>1. active[KeyOf[i]] = i \/ reaper[i] \in {"spawned", "waiting", "aborting"}
      BY Zenon, <1>1 DEF TrackInv, RunsTracked, Reaping
    <3>2. CASE i = j
      BY Zenon, <2>a, <3>2
    <3>3. CASE i # j /\ active[KeyOf[i]] = i
      <4>1. KeyOf[i] # KeyOf[c]
        BY Zenon, <1>3, <3>3
      <4>2. f[KeyOf[i]] = i /\ KeyOf[i] \in Keys /\ i # NoJob /\ phase[i] # "ended"
        BY Zenon, <1>2, <2>3, <3>3, <4>1
      <4> QED BY Zenon, <2>4, <4>2 DEF Forgets
    <3>4. CASE i # j /\ active[KeyOf[i]] # i
      BY Zenon, <2>a, <3>1, <3>4
    <3> QED BY Zenon, <3>2, <3>3, <3>4
  <2>7. ReapedKeys'
    <3> SUFFICES ASSUME NEW i \in Jobs, reaper'[i] # "none"
                 PROVE  KeyOf[i] \in cancelling' /\ active'[KeyOf[i]] = NoJob
      BY Zenon DEF ReapedKeys
    <3>1. CASE i = j
      BY Zenon, <1>2, <2>0, <2>1, <2>3, <2>4, <3>1 DEF Forgets
    <3>2. CASE i # j
      <4>1. reaper[i] # "none"
        BY Zenon, <2>a, <3>2
      <4>2. KeyOf[i] \in cancelling /\ active[KeyOf[i]] = NoJob /\ KeyOf[i] \in Keys
        BY Zenon, <1>1, <1>2, <4>1 DEF TrackInv, ReapedKeys
      <4>3. f[KeyOf[i]] = NoJob
        BY Zenon, <2>3, <4>2
      <4> QED BY Zenon, <2>1, <2>4, <4>2, <4>3 DEF Forgets
    <3> QED BY Zenon, <3>1, <3>2
  <2>8. \A i \in Jobs : reaper[i] # "none" => KeyOf[i] # KeyOf[c]
    BY Zenon, <1>1, <1>3, <1>5 DEF TrackInv, ReapedKeys
  <2>9. OneReaper'
    BY Zenon, <2>0, <2>a, <2>8 DEF TrackInv, OneReaper
  <2>10. ReturnedEnded'
    BY Zenon, <1>0, <2>a DEF TrackInv, ReturnedEnded
  <2>11. ActiveServed' /\ GoneReaped'
    BY Zenon, <1>0, <1>1 DEF ActiveServed, GoneReaped
  <2> QED BY Zenon, <2>5, <2>6, <2>7, <2>9, <2>10, <2>11 DEF TrackInv
<1> QED BY Zenon, <1>4, <1>5

LEMMA TrackReap ==
  ASSUME TypeInv, TrackInv, NEW j \in Jobs, ReaperStep(j)
  PROVE  TrackInv'
<1>1. /\ reaper[j] \in {"spawned", "waiting", "aborting"}
      /\ \E p \in {"waiting", "aborting", "returned"} :
            /\ reaper' = [reaper EXCEPT ![j] = p]
            /\ p = "returned" => phase[j] = "ended"
      /\ UNCHANGED <<phase, active, cancelling, worker, forced>>
      /\ \A i \in aborted : i \in aborted'
  BY Zenon DEF ReaperStep, ReaperCancels, ReaperAborts, ReaperAcks, workerVars, registry
<1>0. phase' = phase /\ active' = active /\ cancelling' = cancelling /\ worker' = worker /\ forced' = forced
  BY Zenon, <1>1
<1>2. PICK p \in {"waiting", "aborting", "returned"} :
        /\ \A i \in Jobs : reaper'[i] = IF i = j THEN p ELSE reaper[i]
        /\ p = "returned" => phase[j] = "ended"
  BY Zenon, <1>1, ReaperTyped
<1>3. worker # "gone"
  BY Zenon, <1>1 DEF TrackInv, GoneReaped
<1>4. \A i \in Jobs : reaper'[i] # "none" <=> reaper[i] # "none"
  BY Zenon, <1>1, <1>2
<1>5. ActiveStarted' /\ ActiveServed'
  BY Zenon, <1>0 DEF TrackInv, ActiveStarted, ActiveServed
<1>6. RunsTracked'
  <2>1. \A i \in Jobs : phase[i] \in {"ingress", "processing"} /\ Reaping(i) => reaper'[i] \in {"spawned", "waiting", "aborting"}
    BY Zenon, <1>2 DEF Reaping
  <2> QED BY Zenon, <1>0, <1>1, <2>1 DEF TrackInv, RunsTracked, Reaping
<1>7. ReapedKeys' /\ OneReaper'
  BY Zenon, <1>0, <1>4 DEF TrackInv, ReapedKeys, OneReaper
<1>8. ReturnedEnded' /\ GoneReaped'
  BY Zenon, <1>0, <1>2, <1>3 DEF TrackInv, ReturnedEnded, GoneReaped
<1> QED BY Zenon, <1>5, <1>6, <1>7, <1>8 DEF TrackInv

LEMMA TrackLeave ==
  ASSUME TypeInv, TrackInv, Leave
  PROVE  TrackInv'
<1>1. /\ worker = "serving" /\ worker' = "stopping" /\ UNCHANGED <<phase, aborted, forced>>
      /\ \A k \in Keys : active'[k] = NoJob
      /\ \A j \in Jobs : reaper'[j] = IF j \in Tracked THEN "spawned" ELSE reaper[j]
  BY Zenon DEF Leave, taskVars
<1>0. phase' = phase /\ aborted' = aborted /\ forced' = forced
  BY Zenon, <1>1
<1>2. \A j \in Jobs : KeyOf[j] \in Keys /\ j # NoJob
  BY Zenon, Identities
<1>3. \A j \in Jobs : j \in Tracked <=> active[KeyOf[j]] = j
  BY Zenon, <1>2 DEF Tracked, TrackInv, ActiveStarted
<1>4. \A j \in Jobs : reaper[j] # "none" => active[KeyOf[j]] = NoJob
  BY Zenon, <1>1 DEF TrackInv, ReapedKeys
<1>5. OneReaper'
  <2> SUFFICES ASSUME NEW i \in Jobs, NEW j \in Jobs, reaper'[i] # "none", reaper'[j] # "none", KeyOf[i] = KeyOf[j]
               PROVE  i = j
    BY Zenon DEF OneReaper
  <2>0. ASSUME NEW g \in Jobs, NEW h \in Jobs, g \in Tracked, reaper'[h] # "none", KeyOf[g] = KeyOf[h] PROVE g = h
    <3>1. active[KeyOf[h]] = g /\ g # NoJob
      BY Zenon, <1>2, <1>3, <2>0
    <3>2. h \in Tracked
      BY Zenon, <1>1, <1>4, <2>0, <3>1
    <3> QED BY Zenon, <1>3, <3>1, <3>2
  <2>1. CASE i \in Tracked \/ j \in Tracked
    BY Zenon, <2>0, <2>1
  <2>2. CASE i \notin Tracked /\ j \notin Tracked
    BY Zenon, <1>1, <2>2 DEF TrackInv, OneReaper
  <2> QED BY Zenon, <2>1, <2>2
<1>6. RunsTracked'
  <2>1. \A j \in Jobs : phase[j] \in {"ingress", "processing"} => reaper'[j] \in {"spawned", "waiting", "aborting"}
    BY Zenon, <1>1, <1>3 DEF TrackInv, RunsTracked, Reaping
  <2> QED BY Zenon, <1>0, <2>1 DEF RunsTracked, Reaping
<1>7. ReturnedEnded'
  BY Zenon, <1>0, <1>1 DEF TrackInv, ReturnedEnded
<1>8. ActiveStarted' /\ ActiveServed' /\ ReapedKeys' /\ GoneReaped'
  BY Zenon, <1>1 DEF ActiveStarted, ActiveServed, ReapedKeys, GoneReaped
<1> QED BY Zenon, <1>5, <1>6, <1>7, <1>8 DEF TrackInv

LEMMA TrackGone ==
  ASSUME TypeInv, TrackInv, Stopped \/ AbortWorker
  PROVE  TrackInv'
<1>1. /\ worker' = "gone"
      /\ \A j \in Jobs : /\ phase'[j] \in {"ingress", "processing"} => phase[j] \in {"ingress", "processing"}
                         /\ phase[j] = "ended" => phase'[j] = "ended"
  BY DEF Stopped, AbortWorker, Discard, Discarded
<1>2. \A j \in Jobs : KeyOf[j] \in Keys /\ j # NoJob
  BY Zenon, Identities
<1>3. CASE Stopped
  <2>1. /\ worker = "stopping" /\ active' = active /\ reaper' = reaper
        /\ \A j \in Jobs : reaper[j] \in {"none", "returned"}
    BY Zenon, <1>3 DEF Stopped
  <2>2. \A k \in Keys : active[k] = NoJob
    BY Zenon, <2>1 DEF TrackInv, ActiveServed
  <2>3. \A j \in Jobs : phase[j] \notin {"ingress", "processing"}
    BY Zenon, <1>2, <2>1, <2>2 DEF TrackInv, RunsTracked, Reaping
  <2>4. ActiveStarted' /\ ActiveServed' /\ RunsTracked'
    BY Zenon, <1>1, <2>1, <2>2, <2>3 DEF ActiveStarted, ActiveServed, RunsTracked
  <2>5. ReapedKeys' /\ OneReaper' /\ ReturnedEnded' /\ GoneReaped'
    BY Zenon, <1>1, <2>1 DEF TrackInv, ReapedKeys, OneReaper, ReturnedEnded, GoneReaped
  <2> QED BY Zenon, <2>4, <2>5 DEF TrackInv
<1>4. CASE AbortWorker
  <2>1. /\ worker # "gone" /\ forced' = TRUE
        /\ \A k \in Keys : active'[k] = NoJob
        /\ \A j \in Jobs : reaper'[j] = "none"
        /\ aborted' = aborted \cup Tracked \cup {j \in Jobs : reaper[j] \notin {"none", "returned"}}
    BY Zenon, <1>4 DEF AbortWorker
  <2>2. \A j \in Jobs : phase[j] \in {"ingress", "processing"} => j \in aborted'
    BY Zenon, <1>2, <2>1 DEF TrackInv, RunsTracked, Reaping, Tracked
  <2>3. ActiveStarted' /\ ActiveServed' /\ RunsTracked'
    BY Zenon, <1>1, <2>1, <2>2 DEF ActiveStarted, ActiveServed, RunsTracked
  <2>4. ReapedKeys' /\ OneReaper' /\ ReturnedEnded' /\ GoneReaped'
    BY Zenon, <1>1, <2>1 DEF ReapedKeys, OneReaper, ReturnedEnded, GoneReaped
  <2> QED BY Zenon, <2>3, <2>4 DEF TrackInv
<1> QED BY Zenon, <1>3, <1>4

(* Every step keeps what runs where the worker finds it.                   *)
LEMMA TrackStep == TypeInv /\ QueueInv /\ TrackInv /\ [Next]_vars => TrackInv'
<1> SUFFICES ASSUME TypeInv, QueueInv, TrackInv, [Next]_vars PROVE TrackInv'
  BY Zenon
<1> USE DEF channels, workerVars, registry, reapVars, callVars, taskVars
<1>a. ASSUME NEW j \in Jobs, NEW p \in Phases, Become(j, p), UNCHANGED <<reaper, active, cancelling, worker, aborted, forced>>,
             \/ phase[j] \in {"new", "prepared"} /\ p \notin {"ingress", "processing"}
             \/ phase[j] \in {"ingress", "processing"} /\ p \in {"processing", "ended"}
      PROVE  TrackInv'
  <2>1. \A i \in Jobs : phase'[i] = IF i = j THEN p ELSE phase[i]
    BY Zenon, <1>a, BecomePhase
  <2>2. \A i \in Jobs : /\ phase'[i] \in {"ingress", "processing"} => phase[i] \in {"ingress", "processing"}
                        /\ phase[i] \in Started => phase'[i] \in Started
                        /\ phase[i] = "ended" => phase'[i] = "ended"
    BY Zenon, <1>a, <2>1 DEF Started
  <2> QED BY Zenon, <1>a, <2>2, TrackMove
<1>1. ASSUME NEW j \in Jobs, Dispatch(j) \/ Prepare(j) \/ AdmitRejected(j) \/ Admit(j) PROVE TrackInv'
  <2>1. /\ phase[j] \in {"new", "prepared"} /\ UNCHANGED <<reaper, active, cancelling, worker, aborted, forced>>
        /\ \E p \in {"queued", "refused", "prepared", "lost"} : Become(j, p)
    BY Zenon, <1>1 DEF Dispatch, Prepare, AdmitRejected, Admit
  <2> QED BY Zenon, <1>a, <2>1 DEF Phases
<1>0. ASSUME UNCHANGED <<phase, reaper, active, cancelling, worker, aborted, forced>> PROVE TrackInv'
  BY Zenon, <1>0, TrackMove
<1>2. ASSUME NEW j \in Jobs, TaskStep(j) PROVE TrackInv'
  <2>1. ASSUME IngressDone(j) PROVE TrackInv'
    BY Zenon, <1>a, <2>1 DEF IngressDone, Phases
  <2>2. ASSUME NEW result \in Results, End(j, result), phase[j] \in {"ingress", "processing"} PROVE TrackInv'
    BY Zenon, <1>a, <2>2 DEF End, Phases
  <2>3. ASSUME Propose(j) PROVE TrackInv'
    BY Zenon, <1>0, <2>3 DEF Propose
  <2> QED BY Zenon, <1>2, <2>1, <2>2, <2>3, TaskForm
<1>3. ASSUME NEW j \in Jobs, AdmitReturns(j) \/ CancelToken(j) PROVE TrackInv'
  BY Zenon, <1>0, <1>3 DEF AdmitReturns, CancelToken
<1>4. ASSUME NEW c \in Calls, CancelSend(c) \/ CancelUnknown(c) \/ CancelReturn(c) PROVE TrackInv'
  BY Zenon, <1>0, <1>4 DEF CancelSend, CancelUnknown, CancelReturn
<1>5. ASSUME Shutdown \/ UNCHANGED vars PROVE TrackInv'
  BY Zenon, <1>0, <1>5 DEF Shutdown, vars
<1> QED BY Zenon, <1>1, <1>2, <1>3, <1>4, <1>5, TrackJoin, TrackExecute, TrackCancel, TrackReap, TrackLeave, TrackGone
        DEF Next, ClientStep, WorkerStep

-----------------------------------------------------------------------------
(* Who starts an execution, who acknowledges a cancellation and who reports*)
(* a final outcome.                                                        *)
LEMMA StartForm ==
  ASSUME TypeInv, [Next]_vars, NEW j \in Jobs,
         phase[j] \notin {"ingress", "processing"}, phase'[j] \in {"ingress", "processing"}
  PROVE  Execute(j) /\ ~ Busy(j)
<1> USE DEF channels, workerVars, registry, reapVars, callVars, taskVars
<1>0. ~ UNCHANGED phase
  BY Zenon
<1>1. ASSUME NEW i \in Jobs, NEW p, Become(i, p) PROVE phase'[j] = IF i = j THEN p ELSE phase[j]
  BY Zenon, <1>1, BecomePhase
<1>a. ASSUME NEW i \in Jobs, NEW p \in {"queued", "refused", "prepared", "lost", "ended"}, Become(i, p) PROVE FALSE
  BY Zenon, <1>1, <1>a
<1>2. ~ \E i \in Jobs : Dispatch(i) \/ Prepare(i) \/ AdmitRejected(i) \/ Admit(i)
  <2> SUFFICES ASSUME NEW i \in Jobs, Dispatch(i) \/ Prepare(i) \/ AdmitRejected(i) \/ Admit(i) PROVE FALSE
    BY Zenon
  <2>1. \E p \in {"queued", "refused", "prepared", "lost", "ended"} : Become(i, p)
    BY Zenon DEF Dispatch, Prepare, AdmitRejected, Admit
  <2> QED BY Zenon, <1>a, <2>1
<1>3. ~ \E i \in Jobs : TaskStep(i)
  <2>1. ~ \E i \in Jobs : IngressDone(i) \/ Propose(i)
    <3>1. ASSUME NEW i \in Jobs, IngressDone(i) PROVE FALSE
      <4>1. phase[i] = "ingress" /\ Become(i, "processing")
        BY Zenon, <3>1 DEF IngressDone
      <4> QED BY Zenon, <1>1, <4>1
    <3> QED BY Zenon, <1>0, <3>1 DEF Propose
  <2>2. ~ \E i \in Jobs : \E result \in Results : End(i, result)
    BY Zenon, <1>a DEF End
  <2> QED BY Zenon, <2>1, <2>2, TaskForm
<1>4. ~ Stopped /\ ~ AbortWorker
  BY Zenon DEF Stopped, AbortWorker, Discard, Discarded
<1>5. ~ \E i \in Jobs : AdmitReturns(i) \/ CancelToken(i) \/ JoinReaper(i) \/ ReaperStep(i)
  BY Zenon, <1>0 DEF AdmitReturns, CancelToken, JoinReaper, ReaperStep, ReaperCancels, ReaperAborts, ReaperAcks
<1>6. ~ \E c \in Calls : CancelSend(c) \/ CancelUnknown(c) \/ CancelReturn(c) \/ Cancel(c)
  BY Zenon, <1>0 DEF CancelSend, CancelUnknown, CancelReturn, Cancel
<1>7. ~ Leave /\ ~ Shutdown /\ ~ UNCHANGED vars
  BY Zenon, <1>0 DEF Leave, Shutdown, vars
<1>8. PICK i \in Jobs : Execute(i)
  BY Zenon, <1>2, <1>3, <1>4, <1>5, <1>6, <1>7 DEF Next, ClientStep, WorkerStep
<1>9. ~ Busy(i) /\ Become(i, "ingress")
  BY Zenon, <1>a, <1>8 DEF Execute
<1> QED BY Zenon, <1>1, <1>8, <1>9

LEMMA AckForm ==
  ASSUME TypeInv, [Next]_vars, NEW c \in Calls, ack'[c] # ack[c]
  PROVE  \/ Cancel(c) /\ active[KeyOf[c]] = NoJob /\ ack'[c] = "notActive"
         \/ \E j \in Jobs : ReaperAcks(j) /\ reapCall[j] = c /\ ack'[c] \in StopAcks
         \/ ack'[c] = "dropped"
<1> USE DEF channels, workerVars, registry, reapVars, callVars, taskVars
<1> DEFINE Goal == \/ Cancel(c) /\ active[KeyOf[c]] = NoJob /\ ack'[c] = "notActive"
                   \/ \E j \in Jobs : ReaperAcks(j) /\ reapCall[j] = c /\ ack'[c] \in StopAcks
                   \/ ack'[c] = "dropped"
<1>0. ~ UNCHANGED ack
  BY Zenon
<1>1. ASSUME NEW d \in Calls, Cancel(d) PROVE Goal
  <2>1. ack' = [ack EXCEPT ![d] = "notActive"] /\ active[KeyOf[d]] = NoJob
    BY Zenon, <1>0, <1>1 DEF Cancel
  <2>2. d = c /\ ack'[c] = "notActive"
    BY Zenon, <2>1 DEF TypeInv
  <2> QED BY Zenon, <1>1, <2>1, <2>2
<1>2. ASSUME NEW j \in Jobs, ReaperAcks(j) PROVE Goal
  <2>1. c = reapCall[j] /\ ack'[c] = ReapOutcome(j)
    BY Zenon, <1>2 DEF ReaperAcks
  <2>2. ReapOutcome(j) \in StopAcks
    BY Zenon DEF ReapOutcome, StopAcks
  <2> QED BY Zenon, <1>2, <2>1, <2>2
<1>3. ASSUME Stopped \/ AbortWorker PROVE Goal
  <2>1. ack'[c] = "dropped" \/ ack'[c] = ack[c]
    BY Zenon, <1>3 DEF Stopped, AbortWorker, Discard
  <2> QED BY Zenon, <2>1
<1>4. ~ \E j \in Jobs : Dispatch(j) \/ Prepare(j) \/ AdmitRejected(j) \/ Admit(j) \/ AdmitReturns(j) \/ CancelToken(j)
  BY Zenon, <1>0 DEF Dispatch, Prepare, AdmitRejected, Admit, AdmitReturns, CancelToken
<1>5. ~ \E j \in Jobs : JoinReaper(j) \/ Execute(j) \/ ReaperCancels(j) \/ ReaperAborts(j)
  BY Zenon, <1>0 DEF JoinReaper, Execute, ReaperCancels, ReaperAborts
<1>6. ~ \E j \in Jobs : TaskStep(j)
  BY Zenon, <1>0, TaskForm DEF IngressDone, Propose, End
<1>7. ~ \E d \in Calls : CancelSend(d) \/ CancelUnknown(d) \/ CancelReturn(d)
  BY Zenon, <1>0 DEF CancelSend, CancelUnknown, CancelReturn
<1>8. ~ Leave /\ ~ Shutdown /\ ~ UNCHANGED vars
  BY Zenon, <1>0 DEF Leave, Shutdown, vars
<1> HIDE DEF Goal
<1>9. Goal
  BY Zenon, <1>1, <1>2, <1>3, <1>4, <1>5, <1>6, <1>7, <1>8 DEF Next, ClientStep, WorkerStep, ReaperStep
<1> QED BY Zenon, <1>9 DEF Goal

LEMMA OutcomeForm ==
  ASSUME TypeInv, [Next]_vars, NEW j \in Jobs, outcome'[j] \in {"Terminal", "ConfirmedStopped"}
  PROVE  \/ outcome'[j] = outcome[j]
         \/ /\ phase'[j] = "ended" /\ exit'[j] = "ok"
            /\ outcome'[j] = "Terminal" => j \in proposed' \ failed'
            /\ outcome'[j] = "ConfirmedStopped" => j \in token' \ proposed'
<1> USE DEF channels, workerVars, registry, reapVars, callVars, taskVars
<1> DEFINE Goal == \/ outcome'[j] = outcome[j]
                   \/ /\ phase'[j] = "ended" /\ exit'[j] = "ok"
                      /\ outcome'[j] = "Terminal" => j \in proposed' \ failed'
                      /\ outcome'[j] = "ConfirmedStopped" => j \in token' \ proposed'
<1>a. \A jobs : Release(jobs)[j] \in {"dropped", outcome[j]} /\ Unsent(j) \in {"dropped", outcome[j]}
  BY Zenon DEF Release, Unsent
<1>1. ASSUME NEW i \in Jobs, JoinReaper(i) \/ ReaperAcks(i) PROVE Goal
  BY Zenon, <1>1, <1>a DEF JoinReaper, ReaperAcks
<1>2. ASSUME NEW i \in Jobs, Execute(i) PROVE Goal
  <2>1. DOMAIN Release(Tracked) = Jobs
    BY Zenon DEF Release
  <2> QED BY <1>2, <1>a, <2>1 DEF Execute
<1>3. ASSUME NEW c \in Calls, Cancel(c) PROVE Goal
  BY Zenon, <1>3, <1>a DEF Cancel
<1>4. ASSUME Stopped \/ AbortWorker PROVE Goal
  <2>1. outcome'[j] \in {Release(Jobs)[j], Unsent(j)}
    BY Zenon, <1>4 DEF Stopped, AbortWorker, Discard
  <2>2. outcome'[j] \in {"dropped", outcome[j]}
    BY Zenon, <1>a, <2>1
  <2> QED BY Zenon, <2>2
<1>5. ASSUME NEW i \in Jobs, NEW result \in Results, End(i, result) PROVE Goal
  <2>1. outcome'[j] = outcome[j] \/ (i = j /\ outcome'[j] = OutcomeOf(j, result))
    BY Zenon, <1>5 DEF End, TypeInv
  <2>2. ASSUME i = j, outcome'[j] = OutcomeOf(j, result) PROVE Goal
    <3>1. /\ result = "ok"
          /\ outcome'[j] = "Terminal" => j \in proposed \ failed'
          /\ outcome'[j] = "ConfirmedStopped" => j \in token \ proposed
      BY Zenon, <2>2 DEF OutcomeOf, Results
    <3>2. phase'[j] = "ended" /\ exit'[j] = result /\ UNCHANGED <<token, proposed>>
      BY Zenon, <1>5, <2>2 DEF End, Become, TypeInv
    <3> QED BY Zenon, <3>1, <3>2
  <2> QED BY Zenon, <2>1, <2>2
<1>6. ASSUME UNCHANGED outcome PROVE Goal
  BY Zenon, <1>6
<1>7. ASSUME NEW i \in Jobs, Dispatch(i) \/ Prepare(i) \/ AdmitRejected(i) \/ Admit(i) \/ AdmitReturns(i) \/ CancelToken(i)
      PROVE  UNCHANGED outcome
  BY Zenon, <1>7 DEF Dispatch, Prepare, AdmitRejected, Admit, AdmitReturns, CancelToken
<1>8. ASSUME NEW i \in Jobs, IngressDone(i) \/ Propose(i) \/ ReaperCancels(i) \/ ReaperAborts(i) PROVE UNCHANGED outcome
  BY Zenon, <1>8 DEF IngressDone, Propose, ReaperCancels, ReaperAborts
<1>9. ASSUME NEW c \in Calls, CancelSend(c) \/ CancelUnknown(c) \/ CancelReturn(c) PROVE UNCHANGED outcome
  BY Zenon, <1>9 DEF CancelSend, CancelUnknown, CancelReturn
<1>10. ASSUME Leave \/ Shutdown \/ UNCHANGED vars PROVE UNCHANGED outcome
  BY Zenon, <1>10 DEF Leave, Shutdown, vars
<1> HIDE DEF Goal
<1>11. Goal
  BY Zenon, <1>1, <1>2, <1>3, <1>4, <1>5, <1>6, <1>7, <1>8, <1>9, <1>10, TaskForm DEF Next, ClientStep, WorkerStep, ReaperStep
<1> QED BY Zenon, <1>11 DEF Goal

-----------------------------------------------------------------------------
(* Work that ended keeps what its outcome was decided from.                *)
LEMMA EndedKept ==
  ASSUME TypeInv, [Next]_vars, NEW j \in Jobs, phase[j] = "ended"
  PROVE  /\ exit'[j] = exit[j]
         /\ j \in proposed' <=> j \in proposed
         /\ j \in failed' <=> j \in failed
         /\ j \in token => j \in token'
<1> USE DEF channels, workerVars, registry, reapVars, callVars, taskVars
<1> DEFINE Goal == /\ exit'[j] = exit[j]
                   /\ j \in proposed' <=> j \in proposed
                   /\ j \in failed' <=> j \in failed
                   /\ j \in token => j \in token'
<1>0. ASSUME UNCHANGED <<exit, proposed, failed>>, \A i \in token : i \in token' PROVE Goal
  BY Zenon, <1>0
<1>1. ASSUME NEW i \in Jobs, NEW result \in Results, End(i, result), phase[i] \in {"ingress", "processing"},
             failed' = failed \/ failed' = failed \cup {i}
      PROVE  Goal
  <2>1. i # j
    BY Zenon, <1>1
  <2> QED BY Zenon, <1>1, <2>1 DEF End, TypeInv
<1>2. ASSUME NEW i \in Jobs, Propose(i) PROVE Goal
  <2>1. i # j
    BY Zenon, <1>2 DEF Propose
  <2> QED BY Zenon, <1>2, <2>1 DEF Propose, Fail
<1>3. ASSUME NEW i \in Jobs, Dispatch(i) \/ Prepare(i) \/ AdmitRejected(i) \/ Admit(i) \/ AdmitReturns(i) \/ CancelToken(i)
      PROVE  Goal
  BY Zenon, <1>0, <1>3 DEF Dispatch, Prepare, AdmitRejected, Admit, AdmitReturns, CancelToken
<1>4. ASSUME NEW i \in Jobs, IngressDone(i) \/ JoinReaper(i) \/ Execute(i) \/ ReaperStep(i) PROVE Goal
  BY Zenon, <1>0, <1>4 DEF IngressDone, JoinReaper, Execute, ReaperStep, ReaperCancels, ReaperAborts, ReaperAcks
<1>5. ASSUME NEW c \in Calls, CancelSend(c) \/ CancelUnknown(c) \/ CancelReturn(c) \/ Cancel(c) PROVE Goal
  BY Zenon, <1>0, <1>5 DEF CancelSend, CancelUnknown, CancelReturn, Cancel
<1>6. ASSUME Leave \/ Shutdown \/ Stopped \/ AbortWorker \/ UNCHANGED vars PROVE Goal
  BY Zenon, <1>0, <1>6 DEF Leave, Shutdown, Stopped, AbortWorker, Discard, vars
<1> HIDE DEF Goal
<1>7. Goal
  BY Zenon, <1>1, <1>2, <1>3, <1>4, <1>5, <1>6, TaskForm DEF Next, ClientStep, WorkerStep
<1> QED BY Zenon, <1>7 DEF Goal

(* What is being stopped stays in the hands of who stops it.               *)
LEMMA StoppingKept ==
  ASSUME TypeInv, TrackInv, [Next]_vars, NEW j \in Jobs, phase[j] \in {"ingress", "processing"},
         reaper[j] # "none" \/ j \in aborted
  PROVE  reaper'[j] # "none" \/ j \in aborted'
<1> USE DEF channels, workerVars, registry, reapVars, callVars, taskVars
<1> DEFINE Goal == reaper'[j] # "none" \/ j \in aborted'
<1>0. ASSUME UNCHANGED <<reaper, aborted>> PROVE Goal
  BY Zenon, <1>0
<1>1. ASSUME NEW i \in Jobs, JoinReaper(i) \/ ReaperStep(i) PROVE Goal
  <2>1. aborted \subseteq aborted' /\ (i # j => reaper'[j] = reaper[j])
    BY Zenon, <1>1 DEF JoinReaper, ReaperStep, ReaperCancels, ReaperAborts, ReaperAcks, TypeInv
  <2>2. ReaperStep(j) => reaper'[j] # "none"
    BY Zenon DEF ReaperStep, ReaperCancels, ReaperAborts, ReaperAcks, TypeInv
  <2>3. ~ JoinReaper(j)
    BY Zenon DEF JoinReaper, Returned, TrackInv, ReturnedEnded
  <2> QED BY Zenon, <1>1, <2>1, <2>2, <2>3
<1>2. ASSUME NEW c \in Calls, Cancel(c) PROVE Goal
  <2>1. PICK i : i = active[KeyOf[c]]
    BY Zenon
  <2>2. aborted' = aborted /\ (reaper' = reaper \/ reaper' = [reaper EXCEPT ![i] = "spawned"])
    BY Zenon, <1>2, <2>1 DEF Cancel
  <2> QED BY Zenon, <2>2 DEF TypeInv
<1>3. ASSUME Leave PROVE Goal
  BY Zenon, <1>3 DEF Leave
<1>4. ASSUME AbortWorker PROVE Goal
  <2>1. reaper[j] # "returned"
    BY Zenon DEF TrackInv, ReturnedEnded
  <2> QED BY Zenon, <1>4, <2>1 DEF AbortWorker
<1>5. ASSUME NEW i \in Jobs, Dispatch(i) \/ Prepare(i) \/ AdmitRejected(i) \/ Admit(i) \/ AdmitReturns(i) \/ CancelToken(i)
      PROVE  Goal
  BY Zenon, <1>0, <1>5 DEF Dispatch, Prepare, AdmitRejected, Admit, AdmitReturns, CancelToken
<1>6. ASSUME NEW i \in Jobs, TaskStep(i) \/ Execute(i) PROVE Goal
  BY Zenon, <1>0, <1>6, TaskForm DEF IngressDone, Propose, End, Execute
<1>7. ASSUME NEW c \in Calls, CancelSend(c) \/ CancelUnknown(c) \/ CancelReturn(c) PROVE Goal
  BY Zenon, <1>0, <1>7 DEF CancelSend, CancelUnknown, CancelReturn
<1>8. ASSUME Shutdown \/ Stopped \/ UNCHANGED vars PROVE Goal
  BY Zenon, <1>0, <1>8 DEF Shutdown, Stopped, vars
<1> HIDE DEF Goal
<1>9. Goal
  BY Zenon, <1>1, <1>2, <1>3, <1>4, <1>5, <1>6, <1>7, <1>8 DEF Next, ClientStep, WorkerStep
<1> QED BY Zenon, <1>9 DEF Goal

(* Every step keeps the answers to the coordinator true.                   *)
LEMMA AnswersStep ==
  TypeInv /\ QueueInv /\ CarriedInv /\ RetryableNeverRuns /\ OutcomeProven /\ [Next]_vars
    => CarriedInv' /\ RetryableNeverRuns' /\ OutcomeProven'
<1> SUFFICES ASSUME TypeInv, QueueInv, CarriedInv, RetryableNeverRuns, OutcomeProven, [Next]_vars
             PROVE  CarriedInv' /\ RetryableNeverRuns' /\ OutcomeProven'
  BY Zenon
<1>1. CarriedInv'
  <2>1. \A j \in Jobs : phase'[j] \in {"prepared", "lost"} => Durable(j)
    BY Zenon, PhaseStep DEF CarriedInv
  <2>2. \A j \in Jobs : outcome'[j] \in {"Terminal", "ConfirmedStopped"} => phase'[j] = "ended"
    BY Zenon, PhaseStep, OutcomeForm DEF CarriedInv
  <2> QED BY Zenon, <2>1, <2>2 DEF CarriedInv, Durable
<1>2. OutcomeProven'
  <2> SUFFICES ASSUME NEW j \in Jobs
               PROVE  /\ outcome'[j] = "Terminal" => exit'[j] = "ok" /\ j \in proposed' \ failed'
                      /\ outcome'[j] = "ConfirmedStopped" => exit'[j] = "ok" /\ j \in token' \ proposed'
    BY Zenon DEF OutcomeProven
  <2>1. CASE outcome'[j] # outcome[j]
    BY Zenon, <2>1, OutcomeForm
  <2>2. CASE outcome'[j] = outcome[j] /\ outcome[j] \in {"Terminal", "ConfirmedStopped"}
    <3>1. phase[j] = "ended"
      BY Zenon, <2>2 DEF CarriedInv
    <3> QED BY Zenon, <2>2, <3>1, EndedKept DEF OutcomeProven
  <2> QED BY Zenon, <2>1, <2>2
<1>3. RetryableNeverRuns'
  <2> USE DEF channels, workerVars, registry, reapVars, callVars, taskVars
  <2>1. \A j \in Jobs : phase[j] = "refused" => phase'[j] = "refused"
    BY Zenon, PhaseStep
  <2>2. ASSUME NEW i \in Jobs, AdmitRejected(i) PROVE RetryableNeverRuns'
    BY Zenon, <2>2 DEF AdmitRejected, Become, RetryableNeverRuns, TypeInv
  <2>3. ASSUME NEW i \in Jobs, AdmitReturns(i) PROVE RetryableNeverRuns'
    BY Zenon, <2>3 DEF AdmitReturns, RetryableNeverRuns, TypeInv
  <2>4. ASSUME UNCHANGED admission PROVE RetryableNeverRuns'
    BY Zenon, <2>1, <2>4 DEF RetryableNeverRuns
  <2>5. ASSUME NEW i \in Jobs, Dispatch(i) \/ Prepare(i) \/ Admit(i) \/ CancelToken(i) PROVE UNCHANGED admission
    BY Zenon, <2>5 DEF Dispatch, Prepare, Admit, CancelToken
  <2>6. ASSUME NEW i \in Jobs, JoinReaper(i) \/ Execute(i) \/ ReaperStep(i) PROVE UNCHANGED admission
    BY Zenon, <2>6 DEF JoinReaper, Execute, ReaperStep, ReaperCancels, ReaperAborts, ReaperAcks
  <2>7. ASSUME NEW i \in Jobs, TaskStep(i) PROVE UNCHANGED admission
    BY Zenon, <2>7, TaskForm DEF IngressDone, Propose, End
  <2>8. ASSUME NEW c \in Calls, CancelSend(c) \/ CancelUnknown(c) \/ CancelReturn(c) \/ Cancel(c) PROVE UNCHANGED admission
    BY Zenon, <2>8 DEF CancelSend, CancelUnknown, CancelReturn, Cancel
  <2>9. ASSUME Leave \/ Shutdown \/ Stopped \/ AbortWorker \/ UNCHANGED vars PROVE UNCHANGED admission
    BY Zenon, <2>9 DEF Leave, Shutdown, Stopped, AbortWorker, Discard, vars
  <2> QED BY Zenon, <2>2, <2>3, <2>4, <2>5, <2>6, <2>7, <2>8, <2>9 DEF Next, ClientStep, WorkerStep
<1> QED BY Zenon, <1>1, <1>2, <1>3

-----------------------------------------------------------------------------
(* Every step keeps the executions of one key apart.                       *)
LEMMA OneStep == TypeInv /\ QueueInv /\ TrackInv /\ OneExecutionPerKey /\ [Next]_vars => OneExecutionPerKey'
<1> SUFFICES ASSUME TypeInv, QueueInv, TrackInv, OneExecutionPerKey, [Next]_vars,
                    NEW i \in Jobs, NEW j \in Jobs, KeyOf[i] = KeyOf[j],
                    phase'[i] \in {"ingress", "processing"}, phase'[j] \in {"ingress", "processing"}
             PROVE  i = j
  BY Zenon DEF OneExecutionPerKey, Running
<1>1. ASSUME NEW h \in Jobs, NEW q \in Jobs, KeyOf[h] = KeyOf[q], phase[h] \in {"ingress", "processing"},
             Execute(q), ~ Busy(q)
      PROVE  FALSE
  <2>1. worker = "serving"
    BY Zenon, <1>1 DEF Execute, Receive
  <2>2. active[KeyOf[h]] = h \/ Reaping(h)
    BY Zenon, <1>1, <2>1 DEF TrackInv, RunsTracked
  <2>3. ~ Reaping(h)
    BY Zenon, <1>1, <2>1 DEF Busy, TrackInv, ReapedKeys, Reaping
  <2>4. h # NoJob
    BY Zenon, WorkerAssumption
  <2> QED BY Zenon, <1>1, <2>2, <2>3, <2>4 DEF Busy
<1>2. CASE phase[i] \in {"ingress", "processing"} /\ phase[j] \in {"ingress", "processing"}
  BY Zenon, <1>2 DEF OneExecutionPerKey, Running
<1>3. CASE phase[i] \notin {"ingress", "processing"} /\ phase[j] \notin {"ingress", "processing"}
  <2>1. Receive(i) /\ Receive(j)
    BY Zenon, <1>3, StartForm DEF Execute
  <2> QED BY Zenon, <2>1, ReceivedJob
<1> QED BY Zenon, <1>1, <1>2, <1>3, StartForm

(* Every step keeps a cancellation that found its task inactive from being *)
(* overtaken.                                                              *)
LEMMA OvertakeStep ==
  TypeInv /\ QueueInv /\ CallInv /\ TrackInv /\ CancelNeverOvertakes /\ [Next]_vars => CancelNeverOvertakes'
<1> SUFFICES ASSUME TypeInv, QueueInv, CallInv, TrackInv, CancelNeverOvertakes, [Next]_vars,
                    NEW c \in Calls, ~ Durable(c), ack'[c] = "notActive", NEW j \in ahead'[c]
             PROVE  /\ phase'[j] # "queued"
                    /\ phase'[j] \in {"ingress", "processing"} => reaper'[j] # "none" \/ j \in aborted'
  BY Zenon DEF CancelNeverOvertakes, Running, Durable
<1>1. CASE ack[c] = "notActive"
  <2>1. ahead'[c] = ahead[c]
    BY <1>1, CallForm DEF CancelSend, CallInv, TypeInv
  <2>2. j \in Jobs /\ phase[j] \notin {"new", "prepared", "queued"}
    BY Zenon, <1>1, <2>1 DEF CallInv, CancelNeverOvertakes, TypeInv
  <2>3. phase[j] \in {"ingress", "processing"} => reaper[j] # "none" \/ j \in aborted
    BY Zenon, <1>1, <2>1, <2>2 DEF CancelNeverOvertakes, Running
  <2>4. /\ phase'[j] = "queued" => phase[j] \in {"new", "prepared", "queued"}
        /\ phase'[j] \in {"ingress", "processing"} => phase[j] \in {"queued", "ingress", "processing"}
    BY Zenon, <2>2, PhaseStep
  <2> QED BY Zenon, <2>2, <2>3, <2>4, StoppingKept
<1>2. CASE ack[c] # "notActive"
  <2>1. Cancel(c) /\ active[KeyOf[c]] = NoJob
    BY Zenon, <1>2, AckForm DEF StopAcks
  <2>2. Receive(c) /\ UNCHANGED <<phase, ahead, reaper>>
    BY Zenon, <2>1 DEF Cancel, reapVars
  <2>3. /\ worker = "serving" /\ 1 \in DOMAIN commands /\ commands[1] = c
    BY Zenon, <2>2, ReceivedCall
  <2>4. DOMAIN commands = 1 .. Len(commands) /\ Len(commands) \in Nat
    BY Zenon, ChannelDomains
  <2>5. j \in ahead[c] /\ j \in Jobs /\ KeyOf[j] = KeyOf[c]
    BY Zenon, <2>2 DEF CallInv, TypeInv
  <2>6. phase[j] # "queued"
    <3>1. ASSUME phase[j] = "queued" PROVE \E h \in DOMAIN commands : h < 1
      BY Zenon, <2>3, <2>5, <3>1 DEF QueueInv, QueuedAhead
    <3> QED BY <2>4, <3>1
  <2>7. j # NoJob
    BY Zenon, <2>5, WorkerAssumption
  <2>8. phase[j] \in {"ingress", "processing"} => reaper[j] # "none"
    BY Zenon, <2>1, <2>3, <2>5, <2>7 DEF TrackInv, RunsTracked, Reaping
  <2> QED BY Zenon, <2>2, <2>6, <2>8
<1> QED BY Zenon, <1>1, <1>2

-----------------------------------------------------------------------------
(* The step of a command or a task that moves one execution.               *)
MoveForm(j) ==
    \/ Dispatch(j) \/ Prepare(j) \/ AdmitRejected(j) \/ Admit(j) \/ Execute(j) \/ IngressDone(j)
    \/ \E result \in Results : End(j, result) /\ phase[j] \in {"ingress", "processing"}

LEMMA StillForm ==
  ASSUME [Next]_vars
  PROVE  \/ UNCHANGED <<phase, permits>>
         \/ \E j \in Jobs : MoveForm(j)
         \/ \E reaped : Discard(reaped)
<1> USE DEF channels, workerVars, registry, reapVars, callVars, taskVars
<1>1. ASSUME NEW j \in Jobs, AdmitReturns(j) \/ CancelToken(j) \/ JoinReaper(j) \/ ReaperStep(j) \/ Propose(j)
      PROVE  UNCHANGED <<phase, permits>>
  BY Zenon, <1>1 DEF AdmitReturns, CancelToken, JoinReaper, ReaperStep, ReaperCancels, ReaperAborts, ReaperAcks, Propose
<1>2. ASSUME NEW c \in Calls, CancelSend(c) \/ CancelUnknown(c) \/ CancelReturn(c) \/ Cancel(c)
      PROVE  UNCHANGED <<phase, permits>>
  BY Zenon, <1>2 DEF CancelSend, CancelUnknown, CancelReturn, Cancel
<1>3. ASSUME Leave \/ Shutdown \/ UNCHANGED vars PROVE UNCHANGED <<phase, permits>>
  BY Zenon, <1>3 DEF Leave, Shutdown, vars
<1>4. ASSUME Stopped \/ AbortWorker PROVE \E reaped : Discard(reaped)
  BY Zenon, <1>4 DEF Stopped, AbortWorker
<1>5. ASSUME NEW j \in Jobs, Dispatch(j) \/ Prepare(j) \/ AdmitRejected(j) \/ Admit(j) \/ Execute(j) PROVE MoveForm(j)
  BY Zenon, <1>5 DEF MoveForm
<1>6. ASSUME NEW j \in Jobs, TaskStep(j) PROVE Propose(j) \/ MoveForm(j)
  BY Zenon, <1>6, TaskForm DEF MoveForm
<1> QED BY Zenon, <1>1, <1>2, <1>3, <1>4, <1>5, <1>6 DEF Next, ClientStep, WorkerStep

-----------------------------------------------------------------------------
(* What is used of the numbers of executions: they follow from the         *)
(* theorems about finite sets, which are in scope only at the end.         *)
Counts ==
    /\ Cardinality({}) = 0
    /\ \A S \in SUBSET Jobs : Cardinality(S) \in Nat
    /\ \A S \in SUBSET Jobs, j \in Jobs : j \notin S => Cardinality(S \cup {j}) = Cardinality(S) + 1
    /\ \A S, T \in SUBSET Jobs : T \subseteq S => Cardinality(S \ T) = Cardinality(S) - Cardinality(T)

(* The number of executions that hold a permit, when one execution moves.  *)
Holds(j, p) == \/ p \in {"ingress", "processing"}
               \/ Durable(j) /\ p \in {"prepared", "queued", "lost"}

LEMMA Counted ==
  ASSUME Counts
  PROVE  /\ Holders \in SUBSET Jobs /\ Cardinality(Holders) \in Nat
         /\ Prepared \in SUBSET Jobs /\ Cardinality(Prepared) \in Nat
         /\ {j \in Discarded : Durable(j)} \in SUBSET Jobs /\ Cardinality({j \in Discarded : Durable(j)}) \in Nat
<1>1. /\ Holders \in SUBSET Jobs /\ Prepared \in SUBSET Jobs
      /\ {j \in Discarded : Durable(j)} \in SUBSET Jobs
  BY Zenon DEF Holders, Running, Prepared, Discarded
<1> QED BY Zenon, <1>1 DEF Counts

(* The number of elements of a set of executions that gains or loses one.  *)
LEMMA CountedMove ==
  ASSUME Counts, NEW S \in SUBSET Jobs, NEW j \in Jobs
  PROVE  /\ Cardinality(S \cup {j}) = IF j \in S THEN Cardinality(S) ELSE Cardinality(S) + 1
         /\ Cardinality(S \ {j}) = IF j \in S THEN Cardinality(S) - 1 ELSE Cardinality(S)
<1>1. CASE j \in S
  <2>1. S \cup {j} = S /\ S \ {j} \in SUBSET Jobs /\ j \notin S \ {j} /\ (S \ {j}) \cup {j} = S
    BY Zenon, <1>1
  <2>2. Cardinality(S) = Cardinality(S \ {j}) + 1 /\ Cardinality(S \ {j}) \in Nat
    BY Zenon, <2>1 DEF Counts
  <2>3. PICK n \in Nat : n = Cardinality(S \ {j})
    BY Zenon, <2>2
  <2>4. Cardinality(S) = n + 1
    BY Zenon, <2>2, <2>3
  <2>5. n = Cardinality(S) - 1
    BY <2>4
  <2> QED BY Zenon, <1>1, <2>1, <2>3, <2>5
<1>2. CASE j \notin S
  <2>1. S \ {j} = S
    BY Zenon, <1>2
  <2>2. Cardinality(S \cup {j}) = Cardinality(S) + 1
    BY Zenon, <1>2 DEF Counts
  <2> QED BY Zenon, <1>2, <2>1, <2>2
<1> QED BY Zenon, <1>1, <1>2

LEMMA HoldersMove ==
  ASSUME Counts, TypeInv, NEW j \in Jobs, NEW p \in Phases, Become(j, p)
  PROVE  /\ Holds(j, p) /\ Holds(j, phase[j]) => Cardinality(Holders') = Cardinality(Holders)
         /\ Holds(j, p) /\ ~ Holds(j, phase[j]) => Cardinality(Holders') = Cardinality(Holders) + 1
         /\ ~ Holds(j, p) /\ Holds(j, phase[j]) => Cardinality(Holders') = Cardinality(Holders) - 1
         /\ ~ Holds(j, p) /\ ~ Holds(j, phase[j]) => Cardinality(Holders') = Cardinality(Holders)
<1>1. /\ Holds(j, p) => Holders' = Holders \cup {j}
      /\ ~ Holds(j, p) => Holders' = Holders \ {j}
      /\ j \in Holders <=> Holds(j, phase[j])
  BY Zenon DEF TypeInv, Become, Holders, Running, Holds, Durable
<1>2. /\ Cardinality(Holders \cup {j}) = IF j \in Holders THEN Cardinality(Holders) ELSE Cardinality(Holders) + 1
      /\ Cardinality(Holders \ {j}) = IF j \in Holders THEN Cardinality(Holders) - 1 ELSE Cardinality(Holders)
  BY Zenon, Counted, CountedMove
<1> QED BY Zenon, <1>1, <1>2

LEMMA PreparedMove ==
  ASSUME Counts, TypeInv, NEW j \in Jobs, NEW p \in Phases, Become(j, p)
  PROVE  /\ p = "prepared" /\ phase[j] # "prepared" => Cardinality(Prepared') = Cardinality(Prepared) + 1
         /\ p # "prepared" /\ phase[j] = "prepared" => Cardinality(Prepared') = Cardinality(Prepared) - 1
         /\ p # "prepared" /\ phase[j] # "prepared" => Prepared' = Prepared
<1>1. /\ p = "prepared" => Prepared' = Prepared \cup {j}
      /\ p # "prepared" => Prepared' = Prepared \ {j}
      /\ j \in Prepared <=> phase[j] = "prepared"
  BY Zenon DEF TypeInv, Become, Prepared
<1>2. /\ Cardinality(Prepared \cup {j}) = IF j \in Prepared THEN Cardinality(Prepared) ELSE Cardinality(Prepared) + 1
      /\ Cardinality(Prepared \ {j}) = IF j \in Prepared THEN Cardinality(Prepared) - 1 ELSE Cardinality(Prepared)
  BY Zenon, Counted, CountedMove
<1> QED BY Zenon, <1>1, <1>2

(* Initially nothing was sent.                                             *)
LEMMA WorkInit == Counts /\ Init => WorkInv
<1> SUFFICES ASSUME Counts, Init PROVE WorkInv
  BY Zenon
<1>a. commands \in Seq(Jobs \cup Calls) /\ control \in Seq(Calls)
  BY DEF Init
<1>b. /\ worker \in Workers /\ shutdown \in BOOLEAN /\ forced \in BOOLEAN
      /\ active \in [Keys -> Jobs \cup {NoJob}] /\ cancelling \subseteq Keys
      /\ token \subseteq Jobs /\ aborted \subseteq Jobs /\ proposed \subseteq Jobs /\ failed \subseteq Jobs
  BY Zenon DEF Init, Workers
<1>c. /\ phase \in [Jobs -> Phases] /\ outcome \in [Jobs -> Outcomes]
      /\ exit \in [Jobs -> {"none", "ok", "error", "aborted"}]
      /\ admission \in [Jobs -> {"none", "Admitted", "Retryable", "Rejected"}]
  BY Zenon DEF Init, Phases, Outcomes
<1>d. /\ reaper \in [Jobs -> Reapers] /\ reapCall \in [Jobs -> Calls \cup {NoCall}]
      /\ ack \in [Calls -> StopAcks \cup {"none", "notActive", "dropped"}]
      /\ answer \in [Calls -> StopAcks \cup {"none", "sent", "notActive", "dropped", "unknown"}]
      /\ ahead \in [Calls -> SUBSET Jobs]
  BY Zenon DEF Init, Reapers
<1>1. TypeInv
  BY Zenon, <1>a, <1>b, <1>c, <1>d DEF TypeInv
<1>2. Holders = {} /\ Prepared = {} /\ Running = {}
  BY Zenon DEF Init, Holders, Prepared, Running
<1>7. Cardinality(Holders) = 0 /\ Cardinality(Prepared) = 0
  BY Zenon, <1>2 DEF Counts
<1>8. Len(commands) = 0 /\ Len(control) = 0 /\ permits = MaxActive
  BY Zenon DEF Init
<1>9. MaxActive \in Nat /\ CommandCapacity \in Nat
  BY Zenon, WorkerAssumption
<1>3. CapacityInv /\ PermitsInv
  BY <1>7, <1>8, <1>9 DEF CapacityInv, PermitsInv, PermitsConserved
<1>4. QueueInv /\ CallInv
  BY WorkerAssumption DEF Init, QueueInv, QueuedJobs, QueuedCalls, ControlCalls, QueuedOnce, QueuedFound, QueuedAhead, CallInv
<1>5. TrackInv /\ CarriedInv /\ OneExecutionPerKey
  BY Zenon, <1>2 DEF Init, TrackInv, ActiveStarted, ActiveServed, RunsTracked, ReapedKeys, OneReaper, ReturnedEnded, GoneReaped,
                 CarriedInv, OneExecutionPerKey
<1>6. CancelNeverOvertakes /\ RetryableNeverRuns /\ OutcomeProven
  BY Zenon DEF Init, CancelNeverOvertakes, RetryableNeverRuns, OutcomeProven
<1> QED BY Zenon, <1>1, <1>3, <1>4, <1>5, <1>6 DEF WorkInv

(* Every step keeps the permits.                                           *)
LEMMA PermitsStep == Counts /\ TypeInv /\ QueueInv /\ CarriedInv /\ PermitsInv /\ [Next]_vars => PermitsInv'
<1> SUFFICES ASSUME Counts, TypeInv, QueueInv, CarriedInv, PermitsInv, [Next]_vars PROVE PermitsInv'
  BY Zenon
<1>0. permits \in Nat /\ Cardinality(Holders) \in Nat /\ MaxActive \in Nat /\ permits + Cardinality(Holders) = MaxActive
  BY Zenon, Counted, WorkerAssumption DEF PermitsInv, PermitsConserved
<1>1. ASSUME NEW j \in Jobs, MoveForm(j) PROVE PermitsInv'
  <2>1. ASSUME NEW p \in Phases, Become(j, p),
               \/ permits' = permits /\ (Holds(j, p) <=> Holds(j, phase[j]))
               \/ permits' = permits + 1 /\ ~ Holds(j, p) /\ Holds(j, phase[j])
               \/ permits > 0 /\ permits' = permits - 1 /\ Holds(j, p) /\ ~ Holds(j, phase[j])
        PROVE  PermitsInv'
    BY <1>0, <2>1, HoldersMove DEF PermitsInv, PermitsConserved
  <2>2. ASSUME Dispatch(j) PROVE PermitsInv'
    BY Zenon, <2>1, <2>2 DEF Dispatch, Holds, Phases
  <2>3. ASSUME Prepare(j) PROVE PermitsInv'
    BY Zenon, <2>1, <2>3 DEF Prepare, Holds, Phases
  <2>4. ASSUME AdmitRejected(j) PROVE PermitsInv'
    BY Zenon, <2>1, <2>4 DEF AdmitRejected, Holds, Phases, CarriedInv
  <2>5. ASSUME Admit(j) PROVE PermitsInv'
    BY Zenon, <2>1, <2>5 DEF Admit, Holds, Phases, CarriedInv
  <2>6. ASSUME Execute(j) PROVE PermitsInv'
    <3>1. phase[j] = "queued"
      BY Zenon, <2>6, ReceivedJob DEF Execute
    <3>2. permits = 0 \/ permits > 0
      BY <1>0
    <3> QED BY Zenon, <2>1, <2>6, <3>1, <3>2 DEF Execute, Holds, Phases
  <2>7. ASSUME IngressDone(j) PROVE PermitsInv'
    BY Zenon, <2>1, <2>7 DEF IngressDone, Holds, Phases
  <2>8. ASSUME NEW result \in Results, End(j, result), phase[j] \in {"ingress", "processing"} PROVE PermitsInv'
    BY Zenon, <2>1, <2>8 DEF End, Holds, Phases
  <2> QED BY Zenon, <1>1, <2>2, <2>3, <2>4, <2>5, <2>6, <2>7, <2>8 DEF MoveForm
<1>2. ASSUME NEW reaped, Discard(reaped) PROVE PermitsInv'
  <2> DEFINE D == {j \in Discarded : Durable(j)}
  <2>1. \A j \in Jobs : phase'[j] = IF phase[j] = "queued" THEN "dropped" ELSE phase[j]
    BY Zenon, <1>2 DEF Discard, Discarded
  <2>2. Holders' = Holders \ D /\ D \subseteq Holders
    BY Zenon, <2>1 DEF Holders, Running, Discarded, Durable
  <2>3. Cardinality(Holders \ D) = Cardinality(Holders) - Cardinality(D)
    BY Zenon, <2>2, Counted DEF Counts
  <2>4. permits' = permits + Cardinality(D) /\ Cardinality(D) \in Nat
    BY Zenon, <1>2, Counted DEF Discard
  <2> HIDE DEF D
  <2>5. Cardinality(Holders') = Cardinality(Holders) - Cardinality(D)
    BY Zenon, <2>2, <2>3
  <2>6. permits' \in Nat /\ permits' + Cardinality(Holders') = MaxActive
    BY <1>0, <2>4, <2>5
  <2> QED BY Zenon, <2>6 DEF PermitsInv, PermitsConserved
<1>3. ASSUME UNCHANGED <<phase, permits>> PROVE PermitsInv'
  BY Zenon, <1>3 DEF PermitsInv, PermitsConserved, Holders, Running, Durable
<1> QED BY Zenon, <1>1, <1>2, <1>3, StillForm

(* Every step keeps the channels within their capacities: what was         *)
(* prepared finds its slot.                                                *)
LEMMA CapacityStep == Counts /\ TypeInv /\ QueueInv /\ CapacityInv /\ [Next]_vars => CapacityInv'
<1> SUFFICES ASSUME Counts, TypeInv, QueueInv, CapacityInv, [Next]_vars PROVE CapacityInv'
  BY Zenon
<1> USE DEF channels, workerVars, registry, reapVars, callVars, taskVars
<1>0. /\ Len(commands) \in Nat /\ Len(control) \in Nat /\ Cardinality(Prepared) \in Nat
      /\ CommandCapacity \in Nat /\ MaxActive \in Nat
      /\ Len(commands) + Cardinality(Prepared) <= CommandCapacity /\ Len(control) <= MaxActive
  BY Counted, WorkerAssumption DEF TypeInv, CapacityInv
<1>a. \A x \in Jobs \cup Calls : Len(Append(commands, x)) = Len(commands) + 1
  BY Sent DEF TypeInv
<1>b. commands # <<>> => Len(Tail(commands)) <= Len(commands) /\ Len(Tail(commands)) \in Nat
  BY <1>0, Received DEF TypeInv
<1>c. control # <<>> => Len(Tail(control)) <= Len(control) /\ Len(Tail(control)) \in Nat
  BY <1>0, Received DEF TypeInv
<1>1. ASSUME NEW j \in Jobs, Dispatch(j) PROVE CapacityInv'
  <2>1. Prepared' = Prepared /\ control' = control
    BY Zenon, <1>1, PreparedMove DEF Dispatch, Phases
  <2>2. commands' = commands \/ (commands' = Append(commands, j) /\ HasSlot)
    BY Zenon, <1>1 DEF Dispatch
  <2> QED BY <1>0, <1>a, <2>1, <2>2 DEF CapacityInv, HasSlot
<1>2. ASSUME NEW j \in Jobs, Prepare(j) PROVE CapacityInv'
  <2>1. Cardinality(Prepared') = Cardinality(Prepared) + 1
    BY Zenon, <1>2, PreparedMove DEF Prepare, Phases
  <2> QED BY <1>0, <1>2, <2>1 DEF CapacityInv, HasSlot, Prepare
<1>3. ASSUME NEW j \in Jobs, Admit(j) \/ AdmitRejected(j) PROVE CapacityInv'
  <2>1. Cardinality(Prepared') = Cardinality(Prepared) - 1
    BY Zenon, <1>3, PreparedMove DEF Admit, AdmitRejected, Phases
  <2>2. (commands' = commands \/ commands' = Append(commands, j)) /\ control' = control
    BY Zenon, <1>3 DEF Admit, AdmitRejected
  <2> QED BY <1>0, <1>a, <2>1, <2>2 DEF CapacityInv
<1>4. ASSUME NEW c \in Calls, CancelSend(c) PROVE CapacityInv'
  <2>1. Len(Append(control, c)) = Len(control) + 1
    BY Zenon, Sent DEF TypeInv
  <2>2. Prepared' = Prepared
    BY Zenon, <1>4 DEF CancelSend, Prepared
  <2> QED BY <1>0, <1>4, <1>a, <2>1, <2>2 DEF CapacityInv, HasSlot, CancelSend
<1>5. ASSUME NEW j \in Jobs, Execute(j) PROVE CapacityInv'
  <2>1. phase[j] = "queued" /\ commands # <<>> /\ commands' = Tail(commands) /\ control' = control
    BY Zenon, <1>5, ReceivedJob DEF Execute
  <2>2. Prepared' = Prepared
    BY Zenon, <1>5, <2>1, PreparedMove DEF Execute, Phases
  <2> QED BY <1>0, <1>b, <2>1, <2>2 DEF CapacityInv
<1>6. ASSUME NEW c \in Calls, Cancel(c) PROVE CapacityInv'
  <2>1. Prepared' = Prepared
    BY Zenon, <1>6 DEF Cancel, Prepared
  <2>2. \/ commands # <<>> /\ commands' = Tail(commands) /\ control' = control
        \/ control # <<>> /\ control' = Tail(control) /\ commands' = commands
    BY Zenon, <1>6, ReceivedCall DEF Cancel
  <2> QED BY <1>0, <1>b, <1>c, <2>1, <2>2 DEF CapacityInv
<1>7. ASSUME NEW reaped, Discard(reaped) PROVE CapacityInv'
  <2>1. Prepared' = Prepared
    BY Zenon, <1>7 DEF Discard, Discarded, Prepared
  <2>2. Len(commands') = 0 /\ Len(control') = 0
    BY Zenon, <1>7 DEF Discard
  <2> QED BY <1>0, <2>1, <2>2 DEF CapacityInv
<1>8. ASSUME Stopped \/ AbortWorker PROVE CapacityInv'
  BY Zenon, <1>7, <1>8 DEF Stopped, AbortWorker
<1>9. ASSUME UNCHANGED <<commands, control>>, Prepared' = Prepared PROVE CapacityInv'
  BY Zenon, <1>9 DEF CapacityInv
<1>10. ASSUME NEW j \in Jobs, TaskStep(j) PROVE CapacityInv'
  <2>1. ASSUME NEW p \in {"processing", "ended"}, Become(j, p), phase[j] # "prepared" PROVE Prepared' = Prepared
    BY Zenon, <2>1, PreparedMove DEF Phases
  <2>2. ASSUME Propose(j) PROVE Prepared' = Prepared
    BY Zenon, <2>2 DEF Propose, Prepared
  <2>3. Prepared' = Prepared /\ UNCHANGED <<commands, control>>
    BY Zenon, <1>10, <2>1, <2>2, TaskForm DEF IngressDone, Propose, End
  <2> QED BY Zenon, <1>9, <2>3
<1>11. ASSUME UNCHANGED <<commands, control, phase>> PROVE CapacityInv'
  BY Zenon, <1>9, <1>11 DEF Prepared
<1>12. ASSUME NEW j \in Jobs, AdmitReturns(j) \/ CancelToken(j) \/ JoinReaper(j) \/ ReaperStep(j) PROVE CapacityInv'
  BY Zenon, <1>11, <1>12 DEF AdmitReturns, CancelToken, JoinReaper, ReaperStep, ReaperCancels, ReaperAborts, ReaperAcks
<1>13. ASSUME NEW c \in Calls, CancelUnknown(c) \/ CancelReturn(c) PROVE CapacityInv'
  BY Zenon, <1>11, <1>13 DEF CancelUnknown, CancelReturn
<1>14. ASSUME Leave \/ Shutdown \/ UNCHANGED vars PROVE CapacityInv'
  BY Zenon, <1>11, <1>14 DEF Leave, Shutdown, vars
<1> QED BY Zenon, <1>1, <1>2, <1>3, <1>4, <1>5, <1>6, <1>8, <1>10, <1>12, <1>13, <1>14 DEF Next, ClientStep, WorkerStep

(* The invariant implies the type invariant of the model.                  *)
LEMMA WorkTyped == Counts /\ WorkInv => TypeOK
<1> SUFFICES ASSUME Counts, WorkInv PROVE TypeOK
  BY Zenon
<1>1. Cardinality(Holders) \in Nat /\ MaxActive \in Nat
  BY Zenon, Counted, WorkerAssumption
<1>2. permits \in Nat /\ permits + Cardinality(Holders) = MaxActive
  BY Zenon DEF WorkInv, PermitsInv, PermitsConserved
<1>3. permits \in 0 .. MaxActive
  BY <1>1, <1>2
<1> QED BY Zenon, <1>3 DEF WorkInv, TypeInv, CapacityInv, TypeOK, Workers, Outcomes, Reapers

-----------------------------------------------------------------------------
(* The numbers of executions.  The definitions of the model are spelled    *)
(* out, so that those the theorems about finite sets come with are seen to *)
(* be the same.                                                            *)
Size(S) == Cardinality(S)
Finite(S) == IsFiniteSet(S)

LEMMA SizeDef ==
  \A S : Size(S) = LET CS[T \in SUBSET S] == IF T = {} THEN 0 ELSE 1 + CS[T \ {CHOOSE x : x \in T}] IN CS[S]
  BY Zenon DEF Size, Cardinality

LEMMA FiniteDef ==
  \A S : Finite(S) <=> \E seq \in Seq(S) : \A s \in S : \E n \in 1 .. Len(seq) : seq[n] = s
  BY Zenon DEF Finite, IsFiniteSet

LEMMA CountsSizes ==
  ASSUME /\ Size({}) = 0
         /\ \A S \in SUBSET Jobs : Size(S) \in Nat
         /\ \A S \in SUBSET Jobs, j \in Jobs : j \notin S => Size(S \cup {j}) = Size(S) + 1
         /\ \A S, T \in SUBSET Jobs : T \subseteq S => Size(S \ T) = Size(S) - Size(T)
  PROVE  Counts
  BY Zenon DEF Size, Counts

LEMMA FiniteJobs == Finite(Jobs)
  BY Zenon, WorkerAssumption DEF Finite

LOCAL INSTANCE FiniteSetTheorems

LEMMA JobsCounted == Counts
<1>1. \A S : Cardinality(S) = Size(S)
  BY Zenon, SizeDef DEF Cardinality
<1>2. IsFiniteSet(Jobs)
  BY Zenon, FiniteJobs, FiniteDef DEF IsFiniteSet
<1>3. \A S \in SUBSET Jobs : IsFiniteSet(S) /\ Size(S) \in Nat
  BY Zenon, <1>1, <1>2, FS_Subset, FS_CardinalityType
<1>4. Size({}) = 0
  BY Zenon, <1>1, FS_EmptySet
<1>5. \A S \in SUBSET Jobs, j \in Jobs : j \notin S => Size(S \cup {j}) = Size(S) + 1
  BY Zenon, <1>1, <1>3, FS_AddElement
<1>6. \A S, T \in SUBSET Jobs : T \subseteq S => Size(S \ T) = Size(S) - Size(T)
  <2> SUFFICES ASSUME NEW S \in SUBSET Jobs, NEW T \in SUBSET Jobs, T \subseteq S PROVE Size(S \ T) = Size(S) - Size(T)
    BY Zenon
  <2>1. Cardinality(S \ T) = Cardinality(S) - Cardinality(S \cap T)
    BY Zenon, <1>3, FS_Difference
  <2>2. S \cap T = T
    BY Zenon
  <2> QED BY Zenon, <1>1, <2>1, <2>2
<1> QED BY Zenon, <1>3, <1>4, <1>5, <1>6, CountsSizes

(* The invariant holds in every reachable state of the worker.             *)
THEOREM WorkInvariance == Spec => []WorkInv
<1>1. Init => WorkInv
  BY Zenon, JobsCounted, WorkInit
<1>2. WorkInv /\ [Next]_vars => WorkInv'
  BY Zenon, JobsCounted, TypeStep, CapacityStep, QueueStep, CallStep, TrackStep, AnswersStep, PermitsStep, OneStep, OvertakeStep DEF WorkInv
<1> QED BY <1>1, <1>2, PTL DEF Spec

(* The channels never hold more than they may: the slot and the permit     *)
(* that ChannelDispatcher::prepare reserves are there when the command is  *)
(* sent, whatever the executions, cancellations and capacities.            *)
THEOREM TypeCorrect == Spec => []TypeOK
<1>1. WorkInv => TypeOK
  BY Zenon, JobsCounted, WorkTyped
<1> QED BY <1>1, WorkInvariance, PTL

(* For any executions, cancellations and capacities: permits are           *)
(* conserved, executions of one key never overlap, a cancellation is not   *)
(* overtaken, the coordinator's answers are true and run_worker leaves     *)
(* nothing behind.                                                         *)
THEOREM WorkCorrect == Spec => []WorkAccounted
<1>1. WorkInv => WorkAccounted
  <2> SUFFICES ASSUME WorkInv PROVE NothingDetached
    BY Zenon DEF WorkInv, PermitsInv, WorkAccounted
  <2>1. ASSUME worker = "gone", NEW j \in Running PROVE forced = TRUE /\ j \in aborted
    <3>1. KeyOf[j] \in Keys /\ j # NoJob /\ j \in Jobs
      BY Zenon, WorkerAssumption DEF Running
    <3>2. active[KeyOf[j]] = NoJob /\ ~ Reaping(j)
      BY Zenon, <2>1, <3>1 DEF WorkInv, TrackInv, ActiveServed, GoneReaped, Reaping
    <3> QED BY Zenon, <2>1, <3>1, <3>2 DEF WorkInv, TrackInv, RunsTracked, Running
  <2> QED BY Zenon, <2>1 DEF NothingDetached
<1> QED BY <1>1, WorkInvariance, PTL

(* A cancellation is acknowledged as stopped only when nothing runs under  *)
(* its key: reap_canceled_task and reap_canceled_durable_task join the     *)
(* task first, and no other task of the key can have started meanwhile.    *)
THEOREM AckCorrect == Spec => AckAfterStop
<1> DEFINE Stop == \A c \in Calls : ack'[c] # ack[c] /\ ack'[c] \in StopAcks =>
                     \A j \in Jobs : KeyOf[j] = KeyOf[c] => phase'[j] \notin {"ingress", "processing"}
<1>1. WorkInv /\ [Next]_vars => Stop
  <2> SUFFICES ASSUME WorkInv, [Next]_vars, NEW c \in Calls, ack'[c] # ack[c], ack'[c] \in StopAcks,
                      NEW j \in Jobs, KeyOf[j] = KeyOf[c]
               PROVE  phase'[j] \notin {"ingress", "processing"}
    BY Zenon
  <2>1. PICK i \in Jobs : ReaperAcks(i) /\ reapCall[i] = c
    BY Zenon, AckForm DEF WorkInv, StopAcks
  <2>2. /\ reaper[i] \in {"waiting", "aborting"} /\ phase[i] = "ended" /\ phase' = phase
    BY Zenon, <2>1 DEF ReaperAcks
  <2>3. KeyOf[i] = KeyOf[c] /\ KeyOf[j] \in Keys /\ j # NoJob
    BY Zenon, <2>1, WorkerAssumption DEF WorkInv, CallInv
  <2>4. worker # "gone" /\ active[KeyOf[j]] = NoJob
    BY Zenon, <2>2, <2>3 DEF WorkInv, TrackInv, GoneReaped, ReapedKeys, ActiveServed
  <2>5. Reaping(j) => j = i
    BY Zenon, <2>2, <2>3 DEF WorkInv, TrackInv, OneReaper, Reaping
  <2> QED BY Zenon, <2>2, <2>3, <2>4, <2>5 DEF WorkInv, TrackInv, RunsTracked
<1> QED BY <1>1, WorkInvariance, PTL DEF Spec, AckAfterStop

=============================================================================
