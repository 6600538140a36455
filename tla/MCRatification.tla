---------------------------- MODULE MCRatification ----------------------------
(* One task, two ratifiers with two idempotency keys each, three dispatches.  *)
EXTENDS Ratification, RatificationLedger, TLC

CONSTANTS t1, r1, r2, k1, k2

MCMixes == {{"crash"}, {"owner", "bury"}, {"ledger"}}
RatifierSymmetry == Permutations(Ratifiers) \cup Permutations(Keys)

(* With crashes one ratifier acts, on up to three generations; without, both  *)
(* act on two, load the latest, and a third dispatch may wait for delivery.   *)
InScope == IF "crash" \in asked THEN Cardinality({r \in Ratifiers : request'[r].pc # "idle"}) <= 1
           ELSE /\ \A t \in Tasks : Len(packets'[t]) <= MaxGenerations
                /\ \A r \in Ratifiers : request'[r].pc = "loaded" /\ request[r].pc # "loaded" =>
                                         request'[r].tab[2] = Latest(request'[r].task)

(* The integrated ledger of the store, or the stand-alone one.                *)
MCInit == RatificationInit /\ LedgerInit /\ ("ledger" \in asked => backend = "sqlite")
MCNext == \/ "ledger" \notin asked /\ RatificationNext /\ UNCHANGED lvars
          \/ "ledger" \in asked /\ LedgerNext /\ UNCHANGED rvars
MCSpec == MCInit /\ [][MCNext]_<<rvars, lvars>>

(* A candidate is published only by an approval of the account that had       *)
(* acknowledged the same generation, and that generation is the last one,     *)
(* whatever other ratifiers, the owner and the driver do meanwhile.           *)
PublishedOnlyApproved ==
  \A t \in Tasks : task[t].published # 0 =>
    LET p == packets[t][task[t].published] IN
    /\ task[t].state = "Completed" /\ task[t].published = Latest(t)
    /\ Len(p.events) = 2 /\ p.events[1].op = "review" /\ p.events[2].op = "approve"
    /\ p.events[1].account = p.events[2].account

(* A command writes a receipt only to the exact view its If-Match names: the  *)
(* middleware's reads may be stale, the commit never acts on another history. *)
ActsOnSeenView ==
  [][\A t \in Tasks : \A g \in DOMAIN packets[t] : packets'[t][g].events # packets[t][g].events =>
       \E r \in Ratifiers : /\ request[r].pc = "admitted" /\ request'[r].pc = "committed"
                            /\ request[r].tab = ratification_etag(t, g)]_rvars

(* Each amendment makes one dispatch, however often it is sent, and a         *)
(* dispatch that must bring a candidate comes from nowhere else.              *)
AmendDispatchesOnce ==
  \A t \in Tasks : Cardinality({i \in DOMAIN outbox[t] : outbox[t][i].required}) =
                   Cardinality({g \in DOMAIN packets[t] : Amended(packets[t][g])})
=============================================================================
