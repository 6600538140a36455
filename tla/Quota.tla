------------------------------- MODULE Quota -------------------------------
(***************************************************************************)
(* The distributed quota authority: policies of quota.rs and the           *)
(* transactions of postgres_store.rs that charge, reserve, lease, settle,  *)
(* reconcile and collect.  Every transaction writes a row whose accounting *)
(* trigger locks the tenant's counter row before the first limit is read,  *)
(* so transactions of one tenant are atomic; a failed one changes nothing. *)
(* One tenant; its account is charged exactly like the tenant and left     *)
(* out, as are input bytes (like requestCount) and events (like            *)
(* outputBytes).                                                           *)
(***************************************************************************)
EXTENDS Integers, FiniteSets, FiniteSetsExt, Functions, TLC

CONSTANTS
    Intents,        \* semantic identities of requests
    Mixes,          \* the sets of requests clients make in one behaviour
    Op, By, TaskOf, \* operation, principal and task of each intent
    Policies,       \* the policy of each revision, a sequence
    Replicas,
    PlanTargets, PlanEffective,   \* the drain plan the operator supplies
    Window, Period, LeaseDuration, Retention, MaxTime, None

VARIABLES
    now,            \* the database clock
    policy,         \* revision each replica was opened with, 0 when closed
    versions,       \* persisted revisions; all but the newest are draining
    bucket,         \* quota_buckets
    intent,         \* quota_intents with their receipts: revision and time
    allocation,     \* quota_allocations of active work
    reservation,    \* quota_execution_reservations
    lease,          \* quota_leases
    holder,         \* the guard of the stream that took a lease
    task,           \* state of each task
    measured,       \* receiver_inbox measurement of each dispatch
    asked,          \* the requests of this behaviour
    granted         \* reconnects granted under the newest revision, by scope

vars == <<now, policy, versions, bucket, intent, allocation, reservation, lease,
          holder, task, measured, asked, granted>>

Scopes(i) == {<<"tenant", "t">>, <<"principal", By[i]>>}
AllScopes == UNION {Scopes(i) : i \in Intents}
Dimensions == {"requestCount", "concurrentActiveWork", "outputBytes",
               "concurrentSubscriptions", "reconnectCount"}
(* A sendStream creates its task like a taskCreate, and reserves a budget  *)
(* like the other executions.                                              *)
Creating == {"taskCreate", "sendStream"}
Executions == Creating \cup {"taskContinue"}
Leasing == {"subscribe", "reconnect"}
Tasks == {TaskOf[i] : i \in Intents} \ {None}

-----------------------------------------------------------------------------
(* Policies.                                                               *)

limit(v, d, s) == Policies[v].limit[d][s[1]]

(* Zero limits, empty and overlapping override periods are refused.        *)
from_json(v) ==
    /\ \A d \in Dimensions : \A k \in {"tenant", "principal"} : Policies[v].limit[d][k] > 0
    /\ \A o \in Policies[v].overrides : o.new > 0 /\ o.from < o.until
    /\ \A o, p \in Policies[v].overrides :
          o # p /\ <<o.scope, o.op, o.dim>> = <<p.scope, p.op, p.dim>> =>
          o.until <= p.from \/ p.until <= o.from

limit_at(v, s, op, d, t) ==
    LET active == {o \in Policies[v].overrides :
                     /\ <<o.scope, o.op, o.dim>> = <<s, op, d>>
                     /\ o.from <= t /\ t < o.until}
    IN  IF active = {} THEN limit(v, d, s) ELSE (CHOOSE o \in active : TRUE).new

execution_limit(v, d) == Min({Policies[v].limit[d][k] : k \in {"tenant", "principal"}})

lowered_limits_from(v, old) ==
    {<<k, d>> \in {"tenant", "principal"} \X Dimensions :
        Policies[v].limit[d][k] < Policies[old].limit[d][k]}

authorizes(target) == target \in PlanTargets

operation_intent(op) ==
    {"requestCount"} \cup (IF op \in Creating THEN {"concurrentActiveWork"} ELSE {})
                     \cup (IF op \in Executions THEN {"outputBytes"} ELSE {})

lease_intent(op) ==
    {"concurrentSubscriptions"} \cup (IF op = "reconnect" THEN {"reconnectCount"} ELSE {})

egress_intent(op) == {"outputBytes"}

DimensionsOf(i) == CASE Op[i] \in Leasing -> lease_intent(Op[i])
                     [] Op[i] = "publicEgress" -> egress_intent(Op[i])
                     [] OTHER -> operation_intent(Op[i])

Algorithm(d) == CASE d = "reconnectCount" -> "tokenBucket"
                  [] d \in {"concurrentActiveWork", "concurrentSubscriptions"} -> "gauge"
                  [] OTHER -> "fixedWindow"

(* An execution reserves the whole budget of its narrowest scope.          *)
Units(v, i, d) == IF d = "outputBytes" /\ Op[i] \in Executions
                  THEN execution_limit(v, d) ELSE 1

-----------------------------------------------------------------------------
(* Charging one bucket.                                                    *)

Start(d, t) == IF Algorithm(d) = "fixedWindow" THEN (t \div Window) * Window ELSE 0

Key(v, s, op, d, t) == <<v, s, op, d, Start(d, t)>>

Charges(v, i, ds) == {<<s, d>> : s \in Scopes(i), d \in ds}

Fresh(d, cap, t) ==
    IF Algorithm(d) = "tokenBucket"
    THEN [cap |-> cap, avail |-> cap, last |-> t, rem |-> 0, at |-> t]
    ELSE [cap |-> cap, used |-> 0, at |-> t]

WithCapacity(b, d, cap, t) ==
    CASE b.cap = cap -> b
      [] Algorithm(d) = "tokenBucket" ->
            [b EXCEPT !.avail = Min({@, cap}), !.cap = cap, !.at = t]
      [] Algorithm(d) = "gauge" -> [b EXCEPT !.used = Min({@, cap}), !.cap = cap, !.at = t]
      [] OTHER -> IF b.used <= cap THEN [b EXCEPT !.cap = cap, !.at = t] ELSE b

Opened(bs, k, d, cap, t) ==
    WithCapacity(IF k \in DOMAIN bs THEN bs[k] ELSE Fresh(d, cap, t), d, cap, t)

(* Refill by whole tokens; the fraction is carried.                        *)
RefillTotal(b, t) == (t - b.last) * b.cap + b.rem
Refilled(b, t) == Min({b.cap, b.avail + RefillTotal(b, t) \div Period})

ChargeTokens(b, units, t) ==
    [b EXCEPT !.avail = Refilled(b, t) - units, !.last = t, !.at = t,
              !.rem = IF Refilled(b, t) = b.cap THEN 0 ELSE RefillTotal(b, t) % Period]

HasRoom(b, d, cap, units, t) ==
    /\ b.cap = cap
    /\ CASE Algorithm(d) = "tokenBucket" -> Refilled(b, t) >= units
         [] Algorithm(d) = "gauge" -> TRUE
         [] OTHER -> b.used <= b.cap - units

Charged(b, d, cap, units, t) ==
    CASE Algorithm(d) = "tokenBucket" -> ChargeTokens(b, units, t)
      [] Algorithm(d) = "gauge" -> [b EXCEPT !.used = Min({@, cap - units}) + units, !.at = t]
      [] OTHER -> [b EXCEPT !.used = @ + units, !.at = t]

(* The operations whose reservations are counted row by row: the code      *)
(* names these two, not sendStream, here and in the reconciliation.        *)
CountedByRow == {"taskCreate", "taskContinue"}

(* What the rows themselves say is in use, whatever policy admitted it.    *)
Live(i, s, d, t) ==
    LET Rows == {j \in Intents : Op[j] = Op[i] /\ s \in Scopes(j)}
    IN  CASE d = "concurrentActiveWork" -> Cardinality({j \in Rows : allocation[j] = "active"})
          [] d = "concurrentSubscriptions" ->
                Cardinality({j \in Rows : lease[j].state = "active" /\ lease[j].until > t})
          [] d = "outputBytes" /\ Op[i] \in CountedByRow ->
                MapThenSumSet(LAMBDA j : reservation[j].units,
                              {j \in Rows : reservation[j].state = "reserved"})
          [] OTHER -> 0

LiveFits(v, i, s, d, t) == Live(i, s, d, t) <= limit_at(v, s, Op[i], d, t) - Units(v, i, d)

-----------------------------------------------------------------------------
(* apply_quota_intent: all charges of a new intent or none.                *)

Cap(v, i, c, t) == limit_at(v, c[1], Op[i], c[2], t)
KeyOf(v, i, c, t) == Key(v, c[1], Op[i], c[2], t)

Admissible(bs, v, i, ds, t) ==
    \A c \in Charges(v, i, ds) :
       HasRoom(Opened(bs, KeyOf(v, i, c, t), c[2], Cap(v, i, c, t), t), c[2], Cap(v, i, c, t),
               Units(v, i, c[2]), t)

ChargedBuckets(bs, v, i, ds, t) ==
    [k \in {KeyOf(v, i, c, t) : c \in Charges(v, i, ds)} |->
        LET d == k[4]
            cap == limit_at(v, k[2], Op[i], d, t)
        IN  Charged(Opened(bs, k, d, cap, t), d, cap, Units(v, i, d), t)] @@ bs

NewIntent(bs, v, i) ==
    /\ intent[i] = None
    /\ \A c \in Charges(v, i, DimensionsOf(i)) : LiveFits(v, i, c[1], c[2], now)
    /\ Admissible(bs, v, i, DimensionsOf(i), now)
    /\ bucket' = ChargedBuckets(bs, v, i, DimensionsOf(i), now)
    /\ intent' = [intent EXCEPT ![i] = [rev |-> v, at |-> now]]
    /\ versions' = versions \cup {v}
    /\ granted' = IF "reconnectCount" \in DimensionsOf(i) /\ \A w \in versions : w <= v
                  THEN [s \in AllScopes |-> granted[s] + (IF s \in Scopes(i) THEN 1 ELSE 0)]
                  ELSE granted

(* A replay is charged as a request, under the policy it was admitted by.  *)
apply_replay_request_charges(i) ==
    LET v == intent[i].rev
        ds == DimensionsOf(i) \cap {"requestCount"}
    IN  /\ Admissible(bucket, v, i, ds, now)
        /\ bucket' = ChargedBuckets(bucket, v, i, ds, now)

ReplayIntent(i) ==
    /\ intent[i] # None
    /\ apply_replay_request_charges(i)
    /\ UNCHANGED <<intent, versions, granted>>

Open(r) == policy[r] # 0

(* charge_quota_request and charge_quota_egress.                           *)
Charge(r, i) ==
    /\ Open(r) /\ Op[i] \notin Executions \cup Leasing
    /\ NewIntent(bucket, policy[r], i) \/ ReplayIntent(i)
    /\ UNCHANGED <<now, policy, allocation, reservation, lease, holder, task, measured>>

-----------------------------------------------------------------------------
(* Executions.                                                             *)

Admit(r, i) ==
    /\ Open(r) /\ Op[i] \in Executions
    /\ task[TaskOf[i]] = (IF Op[i] \in Creating THEN "none" ELSE "inputRequired")
    /\ NewIntent(bucket, policy[r], i)
    /\ allocation' = [allocation EXCEPT ![i] = IF Op[i] \in Creating THEN "active" ELSE @]
    /\ reservation' = [reservation EXCEPT ![i] =
          [state |-> "reserved", units |-> execution_limit(policy[r], "outputBytes"), actual |-> 0]]
    /\ task' = [task EXCEPT ![TaskOf[i]] = "working"]
    /\ UNCHANGED <<now, policy, lease, holder, measured>>

Readmit(r, i) ==
    /\ Open(r) /\ reservation[i].state # "none"
    /\ ReplayIntent(i)
    /\ UNCHANGED <<now, policy, allocation, reservation, lease, holder, task, measured>>

(* The receiver refuses what exceeds the reserved budget.                  *)
Complete(i) ==
    /\ reservation[i].state = "reserved" /\ measured[i] = None /\ task[TaskOf[i]] = "working"
    /\ \E n \in 0..reservation[i].units : measured' = [measured EXCEPT ![i] = n]
    /\ UNCHANGED <<now, policy, versions, bucket, intent, allocation, reservation, lease,
                   holder, task, granted>>

Released(bs, i, d, units) ==
    [k \in DOMAIN bs |->
        IF \E s \in Scopes(i) : k = Key(intent[i].rev, s, Op[i], d, intent[i].at)
        THEN [bs[k] EXCEPT !.used = Max({@ - units, 0}), !.at = now] ELSE bs[k]]

(* A refund below zero would fail the transaction.                         *)
Refund(bs, i, actual) ==
    [k \in DOMAIN bs |->
        IF \E s \in Scopes(i) : k = Key(intent[i].rev, s, Op[i], "outputBytes", intent[i].at)
        THEN [bs[k] EXCEPT !.used = @ - (reservation[i].units - actual), !.at = now] ELSE bs[k]]

Settled(res, i, actual) == [res EXCEPT ![i].state = "settled", ![i].actual = actual]

Working(t) == {i \in Intents : TaskOf[i] = t /\ allocation[i] = "active"}
Measured(i) == IF measured[i] = None THEN 0 ELSE measured[i]

(* Faulty variant: the trigger settles what the delivery settled already.  *)
UnsettledAny(t, res) == {i \in Intents : TaskOf[i] = t /\ res[i].state # "none"}

Unsettled(t, res) == {i \in Intents : TaskOf[i] = t /\ res[i].state = "reserved"}

(* The trigger on tasks: a paused or terminal task returns its active work *)
(* and settles the reservations the delivery did not settle.               *)
release_task_quota_allocations(t, res, bs) ==
    /\ allocation' = [i \in Intents |-> IF i \in Working(t) THEN "released" ELSE allocation[i]]
    /\ reservation' = FoldSet(LAMBDA i, acc : Settled(acc, i, Measured(i)), res, Unsettled(t, res))
    /\ bucket' = FoldSet(LAMBDA i, acc : Refund(acc, i, Measured(i)),
                         FoldSet(LAMBDA i, acc : Released(acc, i, "concurrentActiveWork", 1),
                                 bs, Working(t)),
                         Unsettled(t, res))

(* commit_delivery settles what was measured and stores the task.          *)
Deliver(i, next) ==
    /\ measured[i] # None /\ task[TaskOf[i]] = "working" /\ reservation[i].state = "reserved"
    /\ release_task_quota_allocations(TaskOf[i], Settled(reservation, i, measured[i]),
                                      Refund(bucket, i, measured[i]))
    /\ task' = [task EXCEPT ![TaskOf[i]] = next]
    /\ UNCHANGED <<now, policy, versions, intent, lease, holder, measured, granted>>

(* A task that is cancelled or buried without an accepted execution.       *)
Cancel(t) ==
    /\ task[t] \in {"working", "inputRequired"}
    /\ \A i \in Unsettled(t, reservation) : measured[i] = None
    /\ release_task_quota_allocations(t, reservation, bucket)
    /\ task' = [task EXCEPT ![t] = "terminal"]
    /\ UNCHANGED <<now, policy, versions, intent, lease, holder, measured, granted>>

-----------------------------------------------------------------------------
(* Leases of streams and subscriptions.                                    *)

Lapsed == {i \in Intents : lease[i].state = "active" /\ lease[i].until <= now}

Reclaimed == [i \in Intents |-> IF i \in Lapsed THEN [lease[i] EXCEPT !.state = "expired"]
                                ELSE lease[i]]

reclaim_expired_quota_leases(bs) ==
    FoldSet(LAMBDA i, acc : Released(acc, i, "concurrentSubscriptions", 1), bs, Lapsed)

acquire_quota_lease(r, i) ==
    /\ Open(r) /\ Op[i] \in Leasing /\ holder[i] \in {"none", "gone"}
    /\ NewIntent(reclaim_expired_quota_leases(bucket), policy[r], i)
    /\ lease' = [Reclaimed EXCEPT ![i] = [state |-> "active", until |-> now + LeaseDuration]]
    /\ holder' = [holder EXCEPT ![i] = "held"]
    /\ UNCHANGED <<now, policy, allocation, reservation, task, measured>>

Renewable(i) == lease[i].state = "active" /\ lease[i].until > now

(* The guard renews until an answer other than a renewal.                  *)
renew_quota_lease(i) ==
    /\ holder[i] = "held"
    /\ bucket' = reclaim_expired_quota_leases(bucket)
    /\ IF Renewable(i)
       THEN /\ lease' = [Reclaimed EXCEPT ![i] = [state |-> "active", until |-> now + LeaseDuration]]
            /\ UNCHANGED holder
       ELSE /\ lease' = Reclaimed
            /\ holder' = [holder EXCEPT ![i] = "failed"]
    /\ UNCHANGED <<now, policy, versions, intent, allocation, reservation, task, measured, granted>>

(* The renewal timed out; it may have been applied or not.                 *)
RenewalLost(i) ==
    /\ holder[i] = "held"
    /\ holder' = [holder EXCEPT ![i] = "failed"]
    /\ UNCHANGED <<now, policy, versions, bucket, intent, allocation, reservation, lease, task,
                   measured, granted>>

(* Dropping the guard releases the lease; the call may be lost with it.    *)
release_quota_lease(i) ==
    /\ holder[i] \in {"held", "failed"}
    /\ holder' = [holder EXCEPT ![i] = "gone"]
    /\ \/ /\ lease' = IF i \in Lapsed \/ lease[i].state # "active" THEN Reclaimed
                      ELSE [Reclaimed EXCEPT ![i].state = "released"]
          /\ bucket' = LET bs == reclaim_expired_quota_leases(bucket)
                       IN  IF i \in Lapsed \/ lease[i].state # "active" THEN bs
                           ELSE Released(bs, i, "concurrentSubscriptions", 1)
       \/ UNCHANGED <<lease, bucket>>
    /\ UNCHANGED <<now, policy, versions, intent, allocation, reservation, task, measured, granted>>

-----------------------------------------------------------------------------
(* Policies are reconciled at startup, evidence is collected in between.   *)

Newest == Max(versions)

Carried(k) == /\ k[1] = Newest
              /\ Algorithm(k[4]) # "gauge"
              /\ ~ (k[4] = "outputBytes" /\ k[3] \in CountedByRow)

(* Faulty variant: token buckets start full under the new policy.          *)
CarriedBucketFull(b, d, cap) ==
    IF Algorithm(d) = "tokenBucket" THEN [b EXCEPT !.cap = cap, !.avail = cap]
    ELSE [b EXCEPT !.cap = cap]

CarriedBucket(b, d, cap) ==
    IF Algorithm(d) = "tokenBucket" THEN [b EXCEPT !.cap = cap, !.avail = Min({@, cap})]
    ELSE [b EXCEPT !.cap = cap]

Fits(b, d, cap) == Algorithm(d) # "tokenBucket" => b.used <= cap

reconcile_quota_policy(v) ==
    LET kept == {k \in DOMAIN bucket : Carried(k)}
        lowered == lowered_limits_from(v, Newest)
        Renamed(k) == <<v, k[2], k[3], k[4], k[5]>>
    IN  /\ v > Newest
        /\ lowered # {} => PlanEffective <= now /\ \A x \in lowered : authorizes(x)
        /\ \A k \in kept : Fits(bucket[k], k[4], limit(v, k[4], k[2]))
        /\ bucket' = bucket @@ [j \in {Renamed(k) : k \in kept} |->
              LET k == CHOOSE k \in kept : Renamed(k) = j
              IN  CarriedBucket(bucket[k], k[4], limit(v, k[4], k[2]))]
        /\ versions' = versions \cup {v}

(* A replica is started, or started again with another policy.  Operators  *)
(* roll a revision out when its predecessor is in use: replicas opened     *)
(* with two revisions before the first charge reconcile nothing.           *)
OpenReplica(r, v) ==
    /\ policy[r] # v /\ from_json(v)
    /\ v = 1 \/ v - 1 \in versions
    /\ IF versions # {} /\ v # Newest THEN reconcile_quota_policy(v)
       ELSE UNCHANGED <<bucket, versions>>
    /\ policy' = [policy EXCEPT ![r] = v]
    /\ UNCHANGED <<now, intent, allocation, reservation, lease, holder, task, measured, granted>>

Old(t) == t + Retention <= now

(* Child first: closed leases, then the intents without a lease, then the  *)
(* buckets without a receipt.  A task keeps its evidence for ever.         *)
CollectedLease(i) == lease[i].state \in {"released", "expired"} /\ Old(lease[i].until)
CollectedLeases == {i \in Intents : CollectedLease(i)}
CollectedIntents == {i \in Intents : /\ intent[i] # None /\ TaskOf[i] = None /\ Old(intent[i].at)
                                     /\ lease[i].state = "none" \/ CollectedLease(i)}

Named(k, i) == \E s \in Scopes(i), d \in DimensionsOf(i) :
                  k = Key(intent[i].rev, s, Op[i], d, intent[i].at)

Collectable(k) ==
    /\ Old(bucket[k].at)
    /\ Algorithm(k[4]) = "gauge" => bucket[k].used = 0
    /\ \A i \in Intents : intent[i] # None /\ Named(k, i) => i \in CollectedIntents

gc_quota_authority ==
    /\ CollectedLeases # {} \/ CollectedIntents # {} \/ \E k \in DOMAIN bucket : Collectable(k)
    /\ lease' = [i \in Intents |-> IF i \in CollectedLeases THEN [state |-> "none", until |-> 0]
                                   ELSE lease[i]]
    /\ intent' = [i \in Intents |-> IF i \in CollectedIntents THEN None ELSE intent[i]]
    /\ bucket' = Restrict(bucket, {k \in DOMAIN bucket : ~ Collectable(k)})
    /\ UNCHANGED <<now, policy, versions, allocation, reservation, holder, task, measured, granted>>

Tick == /\ now < MaxTime
        /\ now' = now + 1
        /\ UNCHANGED <<policy, versions, bucket, intent, allocation, reservation, lease, holder,
                       task, measured, granted>>

-----------------------------------------------------------------------------
Init ==
    /\ now = 0 /\ policy = [r \in Replicas |-> 0] /\ versions = {} /\ bucket = <<>>
    /\ intent = [i \in Intents |-> None]
    /\ allocation = [i \in Intents |-> "none"]
    /\ reservation = [i \in Intents |-> [state |-> "none", units |-> 0, actual |-> 0]]
    /\ lease = [i \in Intents |-> [state |-> "none", until |-> 0]]
    /\ holder = [i \in Intents |-> "none"]
    /\ task = [t \in Tasks |-> "none"]
    /\ measured = [i \in Intents |-> None]
    /\ asked \in Mixes
    /\ granted = [s \in AllScopes |-> 0]

Next ==
    \/ \E r \in Replicas, i \in asked : Charge(r, i) \/ Admit(r, i) \/ Readmit(r, i)
                                            \/ acquire_quota_lease(r, i)
    \/ \E i \in asked : \/ Complete(i) \/ renew_quota_lease(i) \/ RenewalLost(i)
                        \/ release_quota_lease(i)
                        \/ \E n \in {"terminal", "inputRequired"} : Deliver(i, n)
    \/ \E t \in Tasks : Cancel(t)
    \/ \E r \in Replicas, v \in DOMAIN Policies : OpenReplica(r, v)
    \/ gc_quota_authority
    \/ Tick

Spec == Init /\ [][Next /\ UNCHANGED asked]_vars

-----------------------------------------------------------------------------
(* Work that counts against a limit never exceeds the highest limit of its *)
(* scope in any policy: not with two principals in one scope, across a     *)
(* policy upgrade, or when a holder lost its lease (postgres_store.rs:5034).*)
LiveWithinLimit ==
    \A i \in Intents : allocation[i] = "active" \/ lease[i].state = "active" => \A s \in Scopes(i) :
       \A d \in {"concurrentActiveWork", "concurrentSubscriptions"} :
          Live(i, s, d, now) <= Max({limit(v, d, s) : v \in DOMAIN Policies})

(* What the executions admitted in a window under its policy hold now, and *)
(* what those of older policies had reserved in the same window.           *)
HeldIn(k) ==
    MapThenSumSet(LAMBDA i : IF reservation[i].state = "settled" THEN reservation[i].actual
                             ELSE reservation[i].units,
                  {i \in Intents : intent[i] # None /\ Named(k, i)})
ReservedBefore(k) ==
    MapThenSumSet(LAMBDA i : reservation[i].units,
                  {i \in Intents : /\ intent[i] # None /\ intent[i].rev < k[1]
                                   /\ Named(<<intent[i].rev, k[2], k[3], k[4], k[5]>>, i)})

(* A window of an execution budget holds what is reserved plus what was    *)
(* really used: a reservation is settled once, on the delivery or on the   *)
(* task trigger, in the window and under the policy that admitted it       *)
(* (postgres_store.rs:5371).  A window of sendStream that an upgrade       *)
(* copies keeps what it copied: its refund goes to the older policy, so it *)
(* may hold more, by no more than was reserved there, and never less.      *)
ExecutionAccounted ==
    \A k \in DOMAIN bucket : k[4] = "outputBytes" /\ k[3] \in Executions =>
       LET copied == bucket[k].used - HeldIn(k)
       IN  0 <= copied /\ copied <= IF k[3] \in CountedByRow THEN 0 ELSE ReservedBefore(k)

(* A task that is paused or over holds neither active work nor a reserved  *)
(* budget, whichever of delivery and cancellation stored it.               *)
IdleHoldsNothing ==
    \A t \in Tasks : task[t] \in {"inputRequired", "terminal"} =>
       Working(t) = {} /\ Unsettled(t, reservation) = {}

(* "preserving refill time/remainder without minting" (QUOTA_RUNBOOK):     *)
(* what the newest policy grants never exceeds one full bucket and what    *)
(* the elapsed time refills, through upgrades, overrides and collection.   *)
NeverMinted ==
    \A s \in AllScopes :
       LET top == Max({limit(v, "reconnectCount", s) : v \in DOMAIN Policies})
       IN  granted[s] <= top + (top * now) \div Period

(* What is granted stays within the limits, concurrent and refilled.       *)
GrantsWithinLimit == LiveWithinLimit /\ NeverMinted

(* What is held for an execution is settled, once and when its task rests. *)
WorkSettled == ExecutionAccounted /\ IdleHoldsNothing
=============================================================================
