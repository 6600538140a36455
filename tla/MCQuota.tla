------------------------------ MODULE MCQuota ------------------------------
(***************************************************************************)
(* Two principals of one tenant, two policy revisions, two replicas.       *)
(***************************************************************************)
EXTENDS Quota

CONSTANTS create1, create2, continue1, stream1, stream2, subscribe1, reconnect1, reconnect2, read1,
          p1, p2, t1, t2

MCOp == [i \in Intents |-> CASE i \in {create1, create2} -> "taskCreate"
                              [] i = continue1 -> "taskContinue"
                              [] i \in {stream1, stream2} -> "sendStream"
                              [] i = subscribe1 -> "subscribe"
                              [] i = read1 -> "taskRead"
                              [] OTHER -> "reconnect"]
MCBy == [i \in Intents |-> IF i \in {create2, stream2} THEN p2 ELSE p1]
MCTaskOf == [i \in Intents |-> CASE i \in {create1, continue1, stream1} -> t1
                                  [] i \in {create2, stream2} -> t2
                                  [] OTHER -> None]

Limits(reconnects) ==
    [d \in Dimensions |-> [k \in {"tenant", "principal"} |->
        CASE k = "principal" -> 1
          [] d \in {"requestCount", "outputBytes"} -> 2
          [] d = "reconnectCount" -> reconnects
          [] OTHER -> 1]]

(* The second revision lowers the tenant's reconnects, which the plan      *)
(* allows, and raises them again by an override.                           *)
MCPolicies ==
    << [limit |-> Limits(2), overrides |-> {}],
       [limit |-> Limits(1),
        overrides |-> {[scope |-> <<"tenant", "t">>, op |-> "reconnect", dim |-> "reconnectCount",
                        new |-> 2, from |-> 1, until |-> 2]}] >>
MCMixes == {{create1, create2}, {create1, continue1}, {stream1, stream2}, {reconnect1, reconnect2}, {subscribe1, read1}}

(* The principals are alike: the first one asks first.                     *)
InScope ==
    /\ intent'[create2] # None => intent'[create1] # None
    /\ intent'[stream2] # None => intent'[stream1] # None
ReplicaSymmetry == Permutations(Replicas)
MCPlan == {<<"tenant", "reconnectCount">>}
=============================================================================
