-------------------------- MODULE DispatchContract --------------------------
(***************************************************************************)
(* What durable dispatch promises its clients, whatever crashes, leases    *)
(* and replicas do in between: every admitted message gets one answer that *)
(* never changes, the answer is the outcome the receiver sealed when it    *)
(* sealed one, and a message is given up (Failed) only when no receiver    *)
(* ever accepted it.                                                       *)
(***************************************************************************)
EXTENDS Naturals, TaskState

CONSTANTS Tasks, MaxTurns

Dispatches == Tasks \X (1 .. MaxTurns)
Outcomes == {"Completed", "Canceled", "InputRequired", "AuthRequired"}

VARIABLES
    state,     \* the public state of a task; "Unspecified": not admitted
    answer,    \* the answer to a message: "none", "in_progress" or a task state
    accepted,  \* the dispatches a receiver has accepted
    sealed     \* the outcome a receiver has sealed, or "none"

vars == <<state, answer, accepted, sealed>>

Init ==
    /\ state = [t \in Tasks |-> "Unspecified"]
    /\ answer = [d \in Dispatches |-> "none"]
    /\ accepted = {}
    /\ sealed = [d \in Dispatches |-> "none"]

(* A first message creates a task, a later one resumes a paused task.      *)
Open(d) ==
    /\ answer[d] = "none"
    /\ \/ d[2] = 1 /\ state' = [state EXCEPT ![d[1]] = "Submitted"]
       \/ /\ d[2] > 1 /\ answer[<<d[1], d[2] - 1>>] \in PausedStates
          /\ state[d[1]] \in PausedStates
          /\ state' = [state EXCEPT ![d[1]] = "Working"]
    /\ answer' = [answer EXCEPT ![d] = "in_progress"]
    /\ UNCHANGED <<accepted, sealed>>

Accept(d) ==
    /\ answer[d] = "in_progress"
    /\ accepted' = accepted \cup {d}
    /\ UNCHANGED <<state, answer, sealed>>

(* An accepted dispatch is sealed once.  Sealing does not wait for the     *)
(* message to be open still: a cancellation may have answered it.          *)
Seal(d) ==
    /\ d \in accepted /\ sealed[d] = "none"
    /\ \E s \in Outcomes : sealed' = [sealed EXCEPT ![d] = s]
    /\ UNCHANGED <<state, answer, accepted>>

Reply(d, s) ==
    /\ answer[d] = "in_progress"
    /\ answer' = [answer EXCEPT ![d] = s]
    /\ state' = [state EXCEPT ![d[1]] = s]
    /\ UNCHANGED <<accepted, sealed>>

Publish(d) == sealed[d] # "none" /\ Reply(d, sealed[d])
CancelUnsealed(d) == sealed[d] = "none" /\ Reply(d, "Canceled")
GiveUp(d) == d \notin accepted /\ Reply(d, "Failed")

CancelPaused(t) ==
    /\ state[t] \in PausedStates
    /\ state' = [state EXCEPT ![t] = "Canceled"]
    /\ UNCHANGED <<answer, accepted, sealed>>

Next ==
    \/ \E d \in Dispatches :
         Open(d) \/ Accept(d) \/ Seal(d) \/ Publish(d) \/ CancelUnsealed(d) \/ GiveUp(d)
    \/ \E t \in Tasks : CancelPaused(t)

Spec == Init /\ [][Next]_vars

=============================================================================
