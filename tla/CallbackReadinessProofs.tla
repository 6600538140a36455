---------------------- MODULE CallbackReadinessProofs ----------------------
(***************************************************************************)
(* Proofs about CallbackReadiness for a pool of any finite size.           *)
(*                                                                         *)
(* PoolInv is the inductive invariant.  Its heart is CountInv: the workers *)
(* that have not passed mark_worker_ready's counter and the counter itself *)
(* never add up to more than the pool, so the worker whose count reaches   *)
(* the size of the pool is the last one that was missing.                  *)
(***************************************************************************)
EXTENDS CallbackReadiness, FiniteSetTheorems, TLAPS

Places == {"claim", "claiming", "idle", "load", "count", "check", "store", "fatal", "panicked",
           "unexpected", "unready", "failing", "returned", "ok", "failed", "aborted"}

TypeInv ==
  /\ ready \in BOOLEAN /\ fatal \in BOOLEAN /\ readyWorkers \in Nat
  /\ member \in [Members -> [pc : Places, errors : Nat, first : BOOLEAN]]
  /\ claimed \subseteq Members /\ joined \subseteq Members

(* The workers that have still to count.                                   *)
Uncounted == {w \in Members : member[w].first \/ member[w].pc \in {"load", "count"}}

CountInv == readyWorkers + Cardinality(Uncounted) <= Cardinality(Members)

PhaseInv ==
  /\ \A w \in Members :
       /\ ~member[w].first => w \in claimed
       /\ member[w].pc \in {"load", "count", "check", "store"} => ~member[w].first
       /\ member[w].pc \in {"check", "store"} => claimed = Members
       /\ member[w].pc \in {"unready", "failing", "failed"} => fatal
  /\ ready => claimed = Members
  /\ answer = "ready" => claimed = Members
  /\ \A w \in joined : Ended(w)
  /\ handle = "closed" => \A w \in Members : Ended(w)

PoolInv == TypeInv /\ CountInv /\ PhaseInv

-----------------------------------------------------------------------------
(* The cardinalities of the pool and of its parts are numbers.             *)
LEMMA Sizes ==
  /\ Cardinality(Members) \in Nat
  /\ IsFiniteSet(Uncounted) /\ Cardinality(Uncounted) \in Nat
  /\ Cardinality(Uncounted) <= Cardinality(Members)
<1>1. Uncounted \subseteq Members
  BY Zenon DEF Uncounted
<1> QED BY Zenon, <1>1, ReadinessAssumption, FS_Subset, FS_CardinalityType

(* A pool that starts satisfies the invariant.                             *)
LEMMA PoolInitInv == PoolInit => PoolInv
<1> SUFFICES ASSUME PoolInit PROVE PoolInv
  BY Zenon
<1>1. TypeInv /\ PhaseInv
  BY Zenon DEF PoolInit, TypeInv, PhaseInv, Places
<1>2. CountInv
  BY Sizes DEF PoolInit, CountInv
<1> QED BY Zenon, <1>1, <1>2 DEF PoolInv

(* Every step keeps the types.                                             *)
LEMMA TypeStep == TypeInv /\ [PoolNext]_poolVars => TypeInv'
<1> SUFFICES ASSUME TypeInv, [PoolNext]_poolVars PROVE TypeInv'
  BY Zenon
<1> USE DEF TypeInv, atomics, owner, MemberGoes, MemberAt
<1>1. ASSUME NEW w \in Members, NEW place \in Places PROVE [member EXCEPT ![w].pc = place] \in [Members -> [pc : Places, errors : Nat, first : BOOLEAN]]
  BY Zenon
<1>2. ASSUME NEW w \in Members, OwnStep(w) \/ Panics(w) \/ Aborted(w) PROVE TypeInv'
  <2>1. \E place \in Places : member' = [member EXCEPT ![w].pc = place]
    BY Zenon, <1>2 DEF OwnStep, Stops, BeginClaim, Again, LoadFatal, Count, CheckFatal, StoreReady, MarkFatal,
                StoreUnready, Returned, Panics, Aborted, Places
  <2>2. readyWorkers' \in Nat /\ UNCHANGED <<claimed, joined>>
    BY <1>2, Sizes DEF OwnStep, Stops, BeginClaim, Again, LoadFatal, Count, CheckFatal, StoreReady, MarkFatal,
                       StoreUnready, Returned, Panics, Aborted
  <2>3. (ready' = TRUE \/ ready' = FALSE \/ ready' = ready) /\ (fatal' = TRUE \/ fatal' = fatal)
    BY Zenon, <1>2 DEF OwnStep, Stops, BeginClaim, Again, LoadFatal, Count, CheckFatal, StoreReady, MarkFatal,
                StoreUnready, Returned, Panics, Aborted
  <2>4. ready' \in BOOLEAN /\ fatal' \in BOOLEAN
    BY Zenon, <2>3
  <2> QED BY <1>1, <2>1, <2>2, <2>4
<1>3. ASSUME NEW w \in Members, ClaimSucceeds(w) PROVE TypeInv'
  BY Zenon, <1>3 DEF ClaimSucceeds, Places
<1>4. ASSUME NEW w \in Members, ClaimFails(w) PROVE TypeInv'
  BY <1>4 DEF ClaimFails, Places
<1>5. CASE Owner
  BY Zenon, <1>5 DEF Owner, WaitReady, WaitFails, Shutdown, JoinedAll, ShutdownExpires, AbortReturns, Join
<1>6. CASE UNCHANGED poolVars
  BY Zenon, <1>6 DEF poolVars
<1> QED BY Zenon, <1>2, <1>3, <1>4, <1>5, <1>6 DEF PoolNext, WorkerStep, PoolDone

-----------------------------------------------------------------------------
(* A step after which nobody new has to count and that leaves the counter  *)
(* alone keeps the sum within the pool.                                    *)
LEMMA CountKept ==
  ASSUME CountInv, TypeInv, UNCHANGED readyWorkers, Uncounted' \subseteq Uncounted
  PROVE  CountInv'
<1>1. Cardinality(Uncounted') <= Cardinality(Uncounted) /\ Cardinality(Uncounted') \in Nat
  BY Zenon, Sizes, FS_Subset, FS_CardinalityType
<1> QED BY <1>1, Sizes DEF CountInv, TypeInv

(* mark_worker_ready: the worker that counts leaves those who still have   *)
(* to, and when it reaches the size of the pool it was the last of them.   *)
LEMMA CountStep ==
  ASSUME PoolInv, NEW w \in Members, Count(w)
  PROVE  /\ CountInv'
         /\ member'[w].pc = "check" => claimed = Members
<1> USE DEF PoolInv
<1>1. /\ member[w].pc = "count" /\ ~member[w].first
      /\ member' = [member EXCEPT ![w].pc = IF readyWorkers + 1 >= Cardinality(Members) THEN "check" ELSE "idle"]
      /\ readyWorkers' = IF readyWorkers + 1 > Cardinality(Members) THEN Cardinality(Members) ELSE readyWorkers + 1
      /\ UNCHANGED claimed
  BY Zenon DEF Count, MemberAt, MemberGoes, owner, PhaseInv
<1>2. w \in Uncounted
  BY Zenon, <1>1 DEF Uncounted
<1>3. Uncounted' = Uncounted \ {w}
  BY Zenon, <1>1 DEF Uncounted, TypeInv
<1>4. Cardinality(Uncounted') = Cardinality(Uncounted) - 1
  BY Zenon, <1>2, <1>3, Sizes, FS_RemoveElement
<1>5. CountInv'
  BY <1>1, <1>4, Sizes DEF CountInv, TypeInv
<1>6. ASSUME member'[w].pc = "check" PROVE claimed = Members
  <2>1. readyWorkers + 1 >= Cardinality(Members)
    BY Zenon, <1>1, <1>6 DEF TypeInv
  <2>2. Cardinality(Uncounted') = 0
    <3>1. Cardinality(Uncounted) - 1 \in Nat
      BY <1>2, Sizes, FS_EmptySet
    <3> QED BY <1>4, <2>1, <3>1, Sizes DEF CountInv, TypeInv
  <2>3. Uncounted' = {}
    BY Zenon, <1>3, <2>2, Sizes, FS_EmptySet, FS_RemoveElement
  <2>4. \A v \in Members : ~member[v].first
    BY Zenon, <1>1, <1>3, <2>3 DEF Uncounted
  <2> QED BY Zenon, <2>4 DEF PhaseInv, TypeInv
<1> QED BY Zenon, <1>5, <1>6

(* Every step keeps the sum within the pool.                               *)
LEMMA CountsStep == PoolInv /\ [PoolNext]_poolVars => CountInv'
<1> SUFFICES ASSUME PoolInv, [PoolNext]_poolVars PROVE CountInv'
  BY Zenon
<1>1. ASSUME NEW w \in Members, Count(w) PROVE CountInv'
  BY Zenon, <1>1, CountStep
<1>2. ASSUME NEW w \in Members, ClaimSucceeds(w) PROVE CountInv'
  <2>1. UNCHANGED readyWorkers /\ Uncounted' \subseteq Uncounted
    BY Zenon, <1>2 DEF ClaimSucceeds, Uncounted, PoolInv, TypeInv, atomics
  <2> QED BY Zenon, <2>1, CountKept DEF PoolInv
<1>3. ASSUME NEW w \in Members,
             WorkerStep(w), ~Count(w), ~ClaimSucceeds(w)
      PROVE  CountInv'
  <2>1. UNCHANGED readyWorkers
    BY Zenon, <1>3 DEF WorkerStep, OwnStep, Stops, BeginClaim, Again, LoadFatal, CheckFatal, StoreReady, MarkFatal,
                StoreUnready, Returned, ClaimFails, Panics, Aborted, atomics
  <2>2. \E place \in Places :
           /\ place = "count" => member[w].pc = "load"
           /\ place # "load"
           /\ \/ member' = [member EXCEPT ![w].pc = place]
              \/ member' = [member EXCEPT ![w].errors = @ + 1, ![w].pc = place]
    BY Zenon, <1>3 DEF WorkerStep, OwnStep, Stops, BeginClaim, Again, LoadFatal, CheckFatal, StoreReady, MarkFatal,
                StoreUnready, Returned, ClaimFails, Panics, Aborted, MemberGoes, MemberAt, Places
  <2>3. Uncounted' \subseteq Uncounted
    BY <2>2 DEF Uncounted, PoolInv, TypeInv
  <2> QED BY Zenon, <2>1, <2>3, CountKept DEF PoolInv
<1>4. CASE Owner \/ UNCHANGED poolVars
  <2>1. UNCHANGED <<readyWorkers, member>>
    BY Zenon, <1>4 DEF Owner, WaitReady, WaitFails, Shutdown, JoinedAll, ShutdownExpires, AbortReturns, Join,
                atomics, poolVars
  <2> QED BY Zenon, <2>1, CountKept DEF PoolInv, Uncounted
<1> QED BY Zenon, <1>1, <1>2, <1>3, <1>4 DEF PoolNext, PoolDone

(* Every step keeps what the places of the workers stand for.              *)
LEMMA PhaseStep == PoolInv /\ [PoolNext]_poolVars => PhaseInv'
<1> SUFFICES ASSUME PoolInv, [PoolNext]_poolVars PROVE PhaseInv'
  BY Zenon
<1> USE DEF PoolInv, TypeInv, PhaseInv, Ended, MemberAt, MemberGoes, atomics, owner
<1>1. ASSUME NEW w \in Members, Count(w) PROVE PhaseInv'
  <2>1. /\ member[w].pc = "count" /\ UNCHANGED <<ready, fatal, claimed, owner>>
        /\ \/ member' = [member EXCEPT ![w].pc = "idle"]
           \/ claimed = Members /\ member' = [member EXCEPT ![w].pc = "check"]
    BY Zenon, <1>1, CountStep DEF Count
  <2> QED BY <2>1
<1>2. ASSUME NEW w \in Members, ClaimSucceeds(w) PROVE PhaseInv'
  BY Zenon, <1>2 DEF ClaimSucceeds
<1>3. ASSUME NEW w \in Members, ClaimFails(w) PROVE PhaseInv'
  BY <1>3 DEF ClaimFails
<1>4. ASSUME NEW w \in Members, Stops(w) \/ BeginClaim(w) \/ Again(w) \/ LoadFatal(w) \/ Panics(w) \/ Aborted(w)
      PROVE  PhaseInv'
  BY <1>4 DEF Stops, BeginClaim, Again, LoadFatal, Panics, Aborted
<1>5. ASSUME NEW w \in Members, CheckFatal(w) \/ StoreReady(w) PROVE PhaseInv'
  BY <1>5 DEF CheckFatal, StoreReady
<1>6. ASSUME NEW w \in Members, MarkFatal(w) \/ StoreUnready(w) \/ Returned(w) PROVE PhaseInv'
  BY <1>6 DEF MarkFatal, StoreUnready, Returned
<1>7. CASE WaitReady \/ WaitFails \/ Shutdown \/ ShutdownExpires
  BY <1>7 DEF WaitReady, WaitFails, Shutdown, ShutdownExpires, IsReady
<1>8. CASE JoinedAll \/ AbortReturns
  BY <1>8 DEF JoinedAll, AbortReturns
<1>9. ASSUME NEW w \in Members, Join(w) PROVE PhaseInv'
  BY Zenon, <1>9 DEF Join
<1>10. CASE UNCHANGED poolVars
  BY Zenon, <1>10 DEF poolVars
<1> HIDE DEF PhaseInv, PoolInv, TypeInv
<1> QED BY Zenon, <1>1, <1>2, <1>3, <1>4, <1>5, <1>6, <1>7, <1>8, <1>9, <1>10
        DEF PoolNext, WorkerStep, OwnStep, Owner, PoolDone

-----------------------------------------------------------------------------
(* The inductive invariant holds in every reachable state.                 *)
THEOREM PoolInvariance == PoolSpec => []PoolInv
<1>1. PoolInv /\ [PoolNext]_poolVars => PoolInv'
  BY Zenon, TypeStep, CountsStep, PhaseStep DEF PoolInv
<1> QED BY <1>1, PoolInitInv, PTL DEF PoolSpec

(* PushReadiness and the pool's handle: push support is advertised, and    *)
(* the start reported as a success, only when every worker has claimed; a  *)
(* failed pool is never advertised again; a worker lost unasked is a       *)
(* failure; and when shutdown has returned no worker runs.                 *)
THEOREM PoolCorrect == PoolSpec => PoolFaithful
<1>1. PoolInv => ReadyMeansAll /\ AnswerJustified /\ LossIsFatal /\ NothingSurvives
  BY Zenon DEF PoolInv, PhaseInv, ReadyMeansAll, AnswerJustified, LossIsFatal, NothingSurvives, IsReady, MemberAt
<1>2. [PoolNext]_poolVars => [FatalIsFinal]_poolVars
  BY Zenon DEF PoolNext, Owner, WaitReady, WaitFails, Shutdown, JoinedAll, ShutdownExpires, AbortReturns, Join,
         WorkerStep, OwnStep, Stops, BeginClaim, Again, LoadFatal, Count, CheckFatal, StoreReady, MarkFatal,
         StoreUnready, Returned, ClaimSucceeds, ClaimFails, Panics, Aborted, PoolDone, atomics, poolVars,
         FatalIsFinal, IsReady
<1> QED BY <1>1, <1>2, PoolInvariance, PTL DEF PoolSpec, PoolFaithful
=============================================================================
