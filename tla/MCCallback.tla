----------------------------- MODULE MCCallback -----------------------------
(***************************************************************************)
(* Callbacks in three parts, each explored on its own: deliveries and      *)
(* workers over one of the two backends, the pool of workers, and the      *)
(* retry schedule.                                                         *)
(***************************************************************************)
EXTENDS CallbackWorker, CallbackReadiness, CallbackRetry

CONSTANTS t1, c1, c2, w1
VARIABLE part

mcVars == <<vars, poolVars, scheduleVars, part>>

MCKeys == {<<t1, c1>>, <<t1, c2>>}
MCKeyOrder == << <<t1, c1>>, <<t1, c2>> >>

(* Two milliseconds a second; policies at their limits: base equal to the  *)
(* maximum, a maximum that is no power of two, and one that saturates.     *)
P(n, base, max, age) == [max_attempts |-> n, base_ms |-> base, max_ms |-> max, max_age_ms |-> age]
MCPolicies == {P(1, 1, 1, 3), P(4, 1, 5, 8), P(8, 1, 1, 8), P(4, 50, 250, 255)}
Value(k, n) == [kind |-> k, seconds |-> n]
MCHeaders == {<<>>, <<Value("delta", 2)>>, <<Value("delta", 255)>>,
              <<Value("date", 0 - 1)>>, <<Value("malformed", 0)>>,
              <<Value("delta", 2), Value("delta", 2)>>}

(* SQLite has one process: with one configuration everything happens to    *)
(* it, with two there is no deletion, upgrade or crash.  PostgreSQL has    *)
(* two replicas and one configuration, and no crash: to the other replica  *)
(* one that ended is one that is slow.  The first attempt is made by the   *)
(* first replica.  Events age and quotas run out with one configuration on *)
(* SQLite only: neither is read by anything that differs elsewhere.        *)
DeliveryParts == {"two", "sqlite", "postgres"}
InScope ==
  /\ part = "two" => /\ policy' = 1 /\ crashes' = 0
                     /\ \A k \in Keys : config'[k].state \notin {"draining", "revoked"}
  /\ part # "two" => config'[<<t1, c2>>].state = "absent"
  /\ part # "postgres" => \A w \in Workers \ {w1} : worker'[w] = worker[w]
  /\ part = "postgres" => crashes' = 0
  /\ \A k \in Keys : delivery[k].attempt = 0 /\ delivery'[k].attempt = 1 => worker'[w1] # worker[w1]
  /\ part # "sqlite" =>
       /\ aged' = {}
       /\ \A w \in Workers : At(w, "quota") => worker'[w].pc \in {"quota", "validate", "ended"}

MCInit ==
  /\ part \in DeliveryParts \cup {"pool", "schedule"}
  /\ backend = IF part = "postgres" THEN "postgres" ELSE "sqlite"
  /\ WorkerInit /\ PoolInit /\ ScheduleInit
  /\ \A w \in Workers : At(w, "claim") <=> part = "postgres" \/ w = w1
  /\ part # "schedule" => retry_policy = P(1, 1, 1, 3)

Delivery(A) == /\ part \in DeliveryParts /\ A /\ InScope
               /\ UNCHANGED <<backend, poolVars, scheduleVars, part>>
Pool(A) == part = "pool" /\ A /\ UNCHANGED <<vars, scheduleVars, part>>
Schedule(A) == part = "schedule" /\ A /\ UNCHANGED <<vars, poolVars, part>>

(* A worker that runs keeps running, the endpoint answers or the client's  *)
(* timeout does, a statement ends, and time passes.                        *)
Passes(A) == Delivery(A /\ UNCHANGED <<worker, outside>>)
DeliveryFairness ==
  /\ \A w \in Workers : /\ WF_mcVars(Delivery(Step(w) \/ Restart(w)))
                        /\ WF_mcVars(Delivery(Response(w)))
  /\ WF_mcVars(Passes(Statements))
  /\ WF_mcVars(Passes(\E k \in Keys : LeaseExpires(k) \/ RetryDue(k)))

(* A worker of the pool that waits for nothing keeps running, an aborted   *)
(* one is dropped, and shutdown has a deadline.  Nothing is assumed of a   *)
(* claim: the store may never answer.                                      *)
PoolFairness ==
  /\ WF_mcVars(Pool(\E w \in Members : OwnStep(w) \/ Aborted(w)))
  /\ WF_mcVars(Pool(ShutdownExpires)) /\ WF_mcVars(Pool(AbortReturns \/ JoinedAll))

MCNext == Delivery(Next) \/ Pool(PoolNext) \/ Schedule(ScheduleNext)
MCSpec == MCInit /\ [][MCNext]_mcVars /\ DeliveryFairness /\ PoolFairness

(* Every callback settles, and a shutdown of the pool returns.             *)
CallbacksEnd == EveryCallbackSettles /\ ShutdownReturns
=============================================================================
