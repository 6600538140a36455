------------------------- MODULE CallbackReadiness -------------------------
(***************************************************************************)
(* The callback worker pool as a whole: start, readiness, failure and      *)
(* shutdown (callback_worker.rs: spawn_with_telemetry, run,                *)
(* wait_initial_cycle, shutdown, Drop; push.rs: PushReadiness).            *)
(*                                                                         *)
(* PushReadiness is four atomics.  Every load, store and fetch_update of   *)
(* one of them is a step of its own; a read of the configuration, which    *)
(* is fixed before the workers start, is not.                              *)
(***************************************************************************)
EXTENDS Naturals, FiniteSets

CONSTANTS Members,
          MaxErrors,       \* consecutive claim errors that end a worker
          MaxTrouble       \* bound on claim errors and panics

ASSUME ReadinessAssumption == MaxErrors \in Nat \ {0} /\ IsFiniteSet(Members)

VARIABLES ready, fatal, readyWorkers,     \* PushReadiness
          member,      \* worker of the pool -> [pc, errors, first]
          claimed,     \* workers whose first claim succeeded (history)
          handle,      \* what the owner of the handle does
          answer,      \* result of wait_initial_cycle
          stop,        \* the cancellation token
          joined,      \* workers shutdown has joined
          trouble

poolVars == <<ready, fatal, readyWorkers, member, claimed, handle, answer, stop, joined, trouble>>
atomics == <<ready, fatal, readyWorkers>>
owner == <<handle, answer, stop, joined>>

IsReady == ready /\ ~fatal
Ended(w) == member[w].pc \in {"ok", "failed", "aborted"}
MemberAt(w, pc) == member[w].pc = pc
MemberGoes(w, pc) == member' = [member EXCEPT ![w].pc = pc]

PoolInit ==
  /\ ready = FALSE /\ fatal = FALSE /\ readyWorkers = 0
  /\ member = [w \in Members |-> [pc |-> "claim", errors |-> 0, first |-> TRUE]]
  /\ claimed = {} /\ handle = "waiting" /\ answer = "none" /\ stop = FALSE
  /\ joined = {} /\ trouble = 0

(***************************************************************************)
(* run: the claim cycle.                                                   *)
(***************************************************************************)
Stops(w) ==
  /\ member[w].pc \in {"claim", "idle"} /\ stop
  /\ MemberGoes(w, "returned")
  /\ UNCHANGED <<atomics, claimed, owner, trouble>>

BeginClaim(w) ==
  /\ MemberAt(w, "claim") /\ ~stop
  /\ MemberGoes(w, "claiming")
  /\ UNCHANGED <<atomics, claimed, owner, trouble>>

\* The claim is not interrupted by the token; leases it returns are processed
\* only while the token is not canceled.
ClaimSucceeds(w) ==
  /\ MemberAt(w, "claiming")
  /\ member' = [member EXCEPT ![w] = [pc |-> IF @.first THEN "load" ELSE "idle",
                                      errors |-> 0, first |-> FALSE]]
  /\ claimed' = claimed \cup {w}
  /\ UNCHANGED <<atomics, owner, trouble>>

ClaimFails(w) ==
  /\ MemberAt(w, "claiming") /\ trouble < MaxTrouble
  /\ trouble' = trouble + 1
  /\ member' = [member EXCEPT ![w].errors = @ + 1,
                              ![w].pc = IF member[w].errors + 1 >= MaxErrors
                                        THEN "fatal" ELSE "idle"]
  /\ UNCHANGED <<atomics, claimed, owner>>

\* The claimed leases are processed, or the pause between two claims ends.
Again(w) ==
  /\ MemberAt(w, "idle")
  /\ MemberGoes(w, "claim")
  /\ UNCHANGED <<atomics, claimed, owner, trouble>>

Panics(w) ==
  /\ member[w].pc \in {"claiming", "idle"} /\ trouble < MaxTrouble
  /\ trouble' = trouble + 1
  /\ MemberGoes(w, "panicked")
  /\ UNCHANGED <<atomics, claimed, owner>>

(***************************************************************************)
(* mark_worker_ready.                                                      *)
(***************************************************************************)
LoadFatal(w) ==
  /\ MemberAt(w, "load")
  /\ MemberGoes(w, IF fatal THEN "idle" ELSE "count")
  /\ UNCHANGED <<atomics, claimed, owner, trouble>>

\* Faulty variant: ready as soon as one worker is.
CountFirst(w) ==
  /\ MemberAt(w, "count")
  /\ readyWorkers' = readyWorkers + 1
  /\ MemberGoes(w, "check")
  /\ UNCHANGED <<ready, fatal, claimed, owner, trouble>>

Count(w) ==
  /\ MemberAt(w, "count")
  /\ readyWorkers' = IF readyWorkers + 1 > Cardinality(Members) THEN Cardinality(Members)
                                                               ELSE readyWorkers + 1
  /\ MemberGoes(w, IF readyWorkers + 1 >= Cardinality(Members) THEN "check" ELSE "idle")
  /\ UNCHANGED <<ready, fatal, claimed, owner, trouble>>

CheckFatal(w) ==
  /\ MemberAt(w, "check")
  /\ MemberGoes(w, IF fatal THEN "idle" ELSE "store")
  /\ UNCHANGED <<atomics, claimed, owner, trouble>>

StoreReady(w) ==
  /\ MemberAt(w, "store")
  /\ ready' = TRUE
  /\ MemberGoes(w, "idle")
  /\ UNCHANGED <<fatal, readyWorkers, claimed, owner, trouble>>

MarkFatal(w) ==
  /\ member[w].pc \in {"fatal", "panicked", "unexpected"}
  /\ fatal' = TRUE
  /\ MemberGoes(w, IF MemberAt(w, "fatal") THEN "unready" ELSE "failing")
  /\ UNCHANGED <<ready, readyWorkers, claimed, owner, trouble>>

StoreUnready(w) ==
  /\ member[w].pc \in {"unready", "failing"}
  /\ ready' = FALSE
  /\ MemberGoes(w, IF MemberAt(w, "unready") THEN "returned" ELSE "failed")
  /\ UNCHANGED <<fatal, readyWorkers, claimed, owner, trouble>>

Returned(w) ==
  /\ MemberAt(w, "returned")
  /\ MemberGoes(w, IF stop THEN "ok" ELSE "unexpected")
  /\ UNCHANGED <<atomics, claimed, owner, trouble>>

WaitReady ==
  /\ handle = "waiting" /\ IsReady
  /\ handle' = "serving" /\ answer' = "ready"
  /\ UNCHANGED <<atomics, member, claimed, stop, joined, trouble>>

\* A fatal worker, a worker that has ended, or the deadline; the caller then
\* shuts the pool down.
WaitFails ==
  /\ handle = "waiting" /\ ~IsReady
  /\ \/ fatal /\ UNCHANGED <<ready, fatal>>
     \/ ~fatal /\ (\E w \in Members : Ended(w)) /\ fatal' = TRUE /\ ready' = FALSE
     \/ ~fatal /\ UNCHANGED <<ready, fatal>>
  /\ handle' = "closing" /\ answer' = "refused" /\ stop' = TRUE
  /\ UNCHANGED <<readyWorkers, member, claimed, joined, trouble>>

Shutdown ==
  /\ handle = "serving"
  /\ handle' = "closing" /\ stop' = TRUE
  /\ UNCHANGED <<atomics, member, claimed, answer, joined, trouble>>

Join(w) ==
  /\ handle = "closing" /\ Ended(w) /\ w \notin joined
  /\ joined' = joined \cup {w}
  /\ UNCHANGED <<atomics, member, claimed, handle, answer, stop, trouble>>

JoinedAll ==
  /\ handle = "closing" /\ joined = Members
  /\ handle' = "closed"
  /\ UNCHANGED <<atomics, member, claimed, answer, stop, joined, trouble>>

\* The deadline passes: every worker that is left is aborted and joined.  An
\* abort takes effect at the next await, so the worker may end by itself first.
ShutdownExpires ==
  /\ handle = "closing" /\ joined # Members
  /\ handle' = "aborting"
  /\ UNCHANGED <<atomics, member, claimed, answer, stop, joined, trouble>>

Aborted(w) ==
  /\ handle = "aborting" /\ member[w].pc \in {"claim", "claiming", "idle"}
  /\ MemberGoes(w, "aborted")
  /\ UNCHANGED <<atomics, claimed, owner, trouble>>

AbortReturns ==
  /\ handle = "aborting" /\ \A w \in Members : Ended(w)
  /\ handle' = "closed" /\ joined' = Members
  /\ UNCHANGED <<atomics, member, claimed, answer, stop, trouble>>

OwnStep(w) ==
  \/ Stops(w) \/ BeginClaim(w) \/ Again(w) \/ LoadFatal(w) \/ Count(w) \/ CheckFatal(w)
  \/ StoreReady(w) \/ MarkFatal(w) \/ StoreUnready(w) \/ Returned(w)

WorkerStep(w) ==
  OwnStep(w) \/ ClaimSucceeds(w) \/ ClaimFails(w) \/ Panics(w) \/ Aborted(w)

Owner ==
  \/ WaitReady \/ WaitFails \/ Shutdown \/ JoinedAll \/ ShutdownExpires \/ AbortReturns
  \/ \E w \in Members : Join(w)

PoolDone == handle = "closed" /\ UNCHANGED poolVars

PoolNext == Owner \/ (\E w \in Members : WorkerStep(w)) \/ PoolDone

PoolSpec == PoolInit /\ [][PoolNext]_poolVars

(***************************************************************************)
(* Properties.                                                             *)
(***************************************************************************)
\* Push support is advertised only when every worker of the generation has
\* completed a claim, however the four atomics interleave (push.rs:999).
ReadyMeansAll == IsReady => claimed = Members

\* A pool that failed is never advertised again, although a late worker may
\* still store the ready flag after the failure cleared it (push.rs:1027).
FatalIsFinal == fatal => ~IsReady'

\* wait_initial_cycle reports success only for a complete generation.
AnswerJustified == answer = "ready" => claimed = Members

\* A worker that ends without having been asked to leaves the pool fatal.
LossIsFatal == (\E w \in Members : MemberAt(w, "failed")) => fatal

\* After shutdown returned no worker runs (callback_worker.rs:356).
NothingSurvives == handle = "closed" => \A w \in Members : Ended(w)

\* Once asked, shutdown returns, whatever the workers do.
ShutdownReturns == (handle = "closing") ~> (handle = "closed")

\* The pool keeps its promises in every step: readiness stands for a complete
\* generation, a failure is final, and shutdown leaves no worker behind.
PoolFaithful ==
  [][/\ (ReadyMeansAll /\ AnswerJustified /\ LossIsFatal /\ NothingSurvives)'
     /\ FatalIsFinal]_poolVars
=============================================================================
