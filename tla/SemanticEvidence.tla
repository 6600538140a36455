--------------------------- MODULE SemanticEvidence ---------------------------
(* The text-concordance profile: a runtime proposal becomes the result of a   *)
(* dispatch only through a candidate that is frozen under the receiver lease, *)
(* three issuer processes that sign it, an approval receipt, and the          *)
(* completion of the receiver that seals it.  Each store call is one          *)
(* transaction that locks the rows it reads; between the calls the lease may  *)
(* be taken over, the owner may cancel, an operator may revoke an issuer, and *)
(* another caller may freeze a different candidate under the same lease.      *)
EXTENDS Integers, FiniteSets

CONSTANTS Coordinators, MaxFences

VARIABLES
  inbox,       \* receiver row: lease epoch, holder, live lease, state, outcome
  intent,      \* cancellation intent of the dispatch
  candidates,  \* the candidate frozen under each lease epoch
  revoked,     \* issuer roles whose enrolment was revoked
  author       \* the authorisation each coordinator has in progress

svars == <<inbox, intent, candidates, revoked, author>>

Roles == {"review", "test", "contradiction"}
RoleOrder == <<"review", "test", "contradiction">>
Idle == [pc |-> "idle", fence |-> 0, revoked |-> {}, signed |-> {}]
NoCandidate == [state |-> "absent", evidence |-> {}, receipt |-> {}, conflicts |-> 0]

SemanticInit ==
  /\ inbox = [epoch |-> 0, holder |-> "none", live |-> FALSE, state |-> "ready", outcome |-> "none"]
  /\ intent = "none"
  /\ candidates = [f \in 1..MaxFences |-> NoCandidate]
  /\ revoked = {}
  /\ author = [c \in Coordinators |-> Idle]

Move(c, pc) == author' = [author EXCEPT ![c].pc = pc]
Unresolved(c) == author' = [author EXCEPT ![c] = Idle]
Fence(c) == author[c].fence
Candidate(c) == candidates[Fence(c)]
Holds(c) == inbox.state = "processing" /\ inbox.epoch = Fence(c)

(* A coordinator receives the dispatch when nobody holds a live lease on it;  *)
(* a dispatch cancelled before the runtime admits it is settled at once.      *)
begin_receive(c) ==
  /\ author[c].pc = "idle" /\ inbox.state # "completed" /\ ~inbox.live
  /\ inbox.epoch < MaxFences
  /\ inbox' = [inbox EXCEPT !.epoch = @ + 1, !.holder = c, !.live = TRUE, !.state = "processing"]
  /\ author' = [author EXCEPT ![c] = [Idle EXCEPT !.pc = IF intent = "requested" THEN "canceling" ELSE "running",
                                                  !.fence = inbox.epoch + 1]]
  /\ UNCHANGED <<intent, candidates, revoked>>

LeaseExpires ==
  /\ inbox.live /\ inbox.state = "processing"
  /\ inbox' = [inbox EXCEPT !.live = FALSE]
  /\ UNCHANGED <<intent, candidates, revoked, author>>

request_cancellation ==
  /\ intent = "none" /\ inbox.state # "completed"
  /\ intent' = "requested"
  /\ UNCHANGED <<inbox, candidates, revoked, author>>

RevokeIssuer(role) ==
  /\ role \notin revoked
  /\ revoked' = revoked \cup {role}
  /\ UNCHANGED <<inbox, intent, candidates, author>>

(* The processor's proposal must be exactly the recomputed artifact; the time *)
(* of the whole authorisation is sampled here.                                *)
validate_text_concordance_runtime_proposal(c) ==
  /\ author[c].pc = "running"
  /\ author' = [author EXCEPT ![c].pc = "freeze", ![c].revoked = revoked]
  /\ UNCHANGED <<inbox, intent, candidates, revoked>>

(* The lease is compared with the sampled time, so its later expiry passes;   *)
(* a takeover changes the epoch and does not.                                 *)
freeze_text_concordance_candidate(c) ==
  /\ author[c].pc = "freeze"
  /\ IF Holds(c) /\ intent = "none" /\ Candidate(c) = NoCandidate
     THEN /\ candidates' = [candidates EXCEPT ![Fence(c)].state = "open"]
          /\ Move(c, "load")
     ELSE candidates' = candidates /\ Unresolved(c)
  /\ UNCHANGED <<inbox, intent, revoked>>

(* Another candidate under the same attempt and fence poisons the first.      *)
ConflictingFreeze ==
  /\ inbox.state = "processing" /\ inbox.live /\ intent = "none"
  /\ candidates[inbox.epoch].state = "open"
  /\ candidates' = [candidates EXCEPT ![inbox.epoch].state = "conflicted",
                                      ![inbox.epoch].conflicts = @ + 1]
  /\ UNCHANGED <<inbox, intent, revoked, author>>

load_text_concordance_candidate(c) ==
  /\ author[c].pc = "load"
  /\ IF Candidate(c).state = "open" THEN Move(c, "issue") ELSE Unresolved(c)
  /\ UNCHANGED <<inbox, intent, candidates, revoked>>

(* Three processes sign the loaded packet; a failure or timeout of one ends   *)
(* the authorisation.                                                         *)
run_issuer(role) == {"signed", "failed", "timed_out"}
issue_all(c) ==
  /\ author[c].pc = "issue"
  /\ \E result \in [Roles -> UNION {run_issuer(role) : role \in Roles}] :
       IF \A role \in Roles : result[role] = "signed" THEN Move(c, "submit") ELSE Unresolved(c)
  /\ UNCHANGED <<inbox, intent, candidates, revoked>>

(* Evidence is verified with the enrolment as of the sampled time.            *)
NextRole(c) == RoleOrder[Cardinality(author[c].signed) + 1]
Retained(c) == Candidate(c).evidence \cup {NextRole(c)}
submit_text_concordance_evidence(c) ==
  /\ author[c].pc = "submit"
  /\ IF /\ Candidate(c).state = "open" /\ Holds(c) /\ intent = "none"
        /\ NextRole(c) \notin author[c].revoked
     THEN /\ candidates' = [candidates EXCEPT ![Fence(c)].evidence = Retained(c)]
          /\ author' = [author EXCEPT ![c].signed = @ \cup {NextRole(c)},
                                      ![c].pc = IF Cardinality(author[c].signed) = 2 THEN "approve" ELSE "submit"]
     ELSE candidates' = candidates /\ Unresolved(c)
  /\ UNCHANGED <<inbox, intent, revoked>>

(* Another record of an issuer whose evidence is retained poisons it too.     *)
ConflictingEvidence(role) ==
  /\ inbox.state = "processing" /\ inbox.live /\ intent = "none"
  /\ candidates[inbox.epoch].state = "open" /\ role \in candidates[inbox.epoch].evidence \ revoked
  /\ candidates' = [candidates EXCEPT ![inbox.epoch].state = "conflicted",
                                      ![inbox.epoch].conflicts = @ + 1]
  /\ UNCHANGED <<inbox, intent, revoked, author>>

(* The evidence set as it stands now: no conflict, the three roles, and every *)
(* issuer still enrolled.                                                     *)
LiveWhenSampled(c) == Candidate(c).conflicts = 0 /\ Candidate(c).evidence = Roles
verify_live_text_concordance_evidence(c) ==
  Candidate(c).conflicts = 0 /\ Candidate(c).evidence = Roles /\ revoked = {}

approve_text_concordance_candidate(c) ==
  /\ author[c].pc = "approve"
  /\ IF Candidate(c).state = "open" /\ verify_live_text_concordance_evidence(c)
     THEN /\ candidates' = [candidates EXCEPT ![Fence(c)].receipt = Candidate(c).evidence]
          /\ Move(c, "check")
     ELSE candidates' = candidates /\ Unresolved(c)
  /\ UNCHANGED <<inbox, intent, revoked>>

(* The authorisation is abandoned when its lease is lost or the owner cancels.*)
Abandon(c) ==
  /\ author[c].pc \in {"freeze", "load", "issue", "submit", "approve"}
  /\ ~(Holds(c) /\ inbox.live) \/ intent = "requested"
  /\ Unresolved(c)
  /\ UNCHANGED <<inbox, intent, candidates, revoked>>

cancellation_requested(c) ==
  /\ author[c].pc = "check"
  /\ Move(c, IF intent = "requested" THEN "cancel" ELSE "complete")
  /\ UNCHANGED <<inbox, intent, candidates, revoked>>

Settle(c, outcome) ==
  inbox' = [inbox EXCEPT !.state = "completed", !.outcome = outcome, !.live = FALSE]

(* The completion transaction: the lease, the intent, the receipt and the     *)
(* live evidence, then the seal and the receiver row together.                *)
complete_receiver(c) ==
  /\ author[c].pc = "complete"
  /\ IF /\ Holds(c) /\ inbox.live /\ intent = "none"
        /\ Candidate(c).state = "open" /\ Candidate(c).receipt # {}
        /\ verify_live_text_concordance_evidence(c) /\ Candidate(c).evidence = Candidate(c).receipt
     THEN /\ candidates' = [candidates EXCEPT ![Fence(c)].state = "sealed"]
          /\ Settle(c, "success")
          /\ Unresolved(c)
     ELSE /\ candidates' = candidates /\ inbox' = inbox
          /\ IF intent = "requested" THEN Move(c, "cancel") ELSE Unresolved(c)
  /\ UNCHANGED <<intent, revoked>>

(* Cancellation settles the receiver and closes the candidate it authorised.  *)
complete_text_concordance_canceled_receive(c) ==
  /\ author[c].pc = "cancel"
  /\ IF Holds(c) /\ inbox.live /\ intent = "requested" /\ Candidate(c).state = "open"
     THEN /\ candidates' = [candidates EXCEPT ![Fence(c)].state = "canceled"]
          /\ Settle(c, "canceled") /\ intent' = "receiver_canceled"
     ELSE UNCHANGED <<candidates, inbox, intent>>
  /\ Unresolved(c)
  /\ UNCHANGED revoked

complete_canceled_receive(c) ==
  /\ author[c].pc = "canceling"
  /\ IF Holds(c) /\ inbox.live
     THEN Settle(c, "canceled") /\ intent' = "receiver_canceled"
     ELSE UNCHANGED <<inbox, intent>>
  /\ Unresolved(c)
  /\ UNCHANGED <<candidates, revoked>>

SemanticNext ==
  \/ \E c \in Coordinators :
       \/ begin_receive(c) \/ validate_text_concordance_runtime_proposal(c)
       \/ freeze_text_concordance_candidate(c) \/ load_text_concordance_candidate(c)
       \/ issue_all(c) \/ submit_text_concordance_evidence(c)
       \/ approve_text_concordance_candidate(c) \/ Abandon(c) \/ cancellation_requested(c)
       \/ complete_receiver(c) \/ complete_text_concordance_canceled_receive(c)
       \/ complete_canceled_receive(c)
  \/ LeaseExpires \/ request_cancellation \/ ConflictingFreeze
  \/ \E role \in Roles : RevokeIssuer(role) \/ ConflictingEvidence(role)

(* A dispatch succeeds exactly when one candidate is sealed, and that is the  *)
(* undisputed candidate of the lease that settled it, with its three signed   *)
(* decisions in the receipt; a cancelled dispatch seals none.                 *)
SettledWithCandidate ==
  /\ Cardinality({f \in DOMAIN candidates : candidates[f].state = "sealed"}) =
       (IF inbox.outcome = "success" THEN 1 ELSE 0)
  /\ \A f \in DOMAIN candidates : candidates[f].state = "sealed" =>
       f = inbox.epoch /\ candidates[f].receipt = Roles /\ candidates[f].conflicts = 0

(* An issuer revoked at any moment before the seal, even after its evidence   *)
(* was accepted and the candidate approved, keeps the result from publication.*)
RevocationBlocksSeal ==
  \A f \in DOMAIN candidates :
    candidates'[f].state = "sealed" /\ candidates[f].state # "sealed" => revoked = {}

(* A result is published with the one candidate that was signed, undisputed   *)
(* and unrevoked up to the moment it was sealed.                              *)
CandidateSettles == [][SettledWithCandidate' /\ RevocationBlocksSeal]_svars
=============================================================================
