--------------------------- MODULE CompletionPolicy ---------------------------
(* The completion policy of src/policy.rs as operators over an evidence       *)
(* snapshot that grows in the order the workers' events arrive.  Digests and  *)
(* signatures are abstracted: a record is about the artifact set of the task  *)
(* and genuine, or it is not.                                                 *)
EXTENDS Integers, Sequences, SequencesExt, FiniteSets

CONSTANTS
  EvidenceRecords,  \* the records workers may hand in
  PolicySpec,       \* the configured profile
  MaxArrivals       \* bound on the records handed in

VARIABLE evidence
ASSUME PolicyAssumption == \A r \in EvidenceRecords :
  r.kind \in {"review", "test", "attestation", "contradiction", "ratification"}

(* What a profile must satisfy before the gateway starts with it.             *)
new_with_receipt_key(spec) ==
  /\ spec.required.review > 0 /\ spec.required.test > 0 /\ spec.required.contradiction > 0
  /\ spec.minAssurance \in 1..10000 /\ spec.maxEvidence > 0
  /\ spec.required.review + spec.required.test + spec.required.attestation
       + spec.required.contradiction <= spec.maxEvidence
  /\ \A k \in DOMAIN spec.issuers : Cardinality(spec.issuers[k]) >= spec.required[k]
  /\ spec.human = (spec.ratifiers # {})

Ratifications(e) == SelectSeq(e, LAMBDA r : r.kind = "ratification")
RecordsAsTheyCame(e) == SelectSeq(e, LAMBDA r : r.kind # "ratification")
Records(e) == SortSeq(RecordsAsTheyCame(e), LAMBDA a, b : a.id < b.id)

validate_claimed_evidence(r) == r.issuer \in PolicySpec.issuers[r.kind] /\ r.genuine
validate_evidence_record(r) == r.subject = "artifacts" /\ r.assurance <= 10000 /\ validate_claimed_evidence(r)

(* A snapshot that is too large, ambiguous or not genuine is an error.        *)
Malformed(e) ==
  LET records == Records(e) IN
  \/ Len(records) > PolicySpec.maxEvidence \/ Len(Ratifications(e)) > 1
  \/ \E r \in ToSet(records) : ~validate_evidence_record(r)
  \/ \E i, j \in DOMAIN records : i # j /\ (records[i].id = records[j].id
                                            \/ records[i].digest = records[j].digest)

CountedAll(e, kind) ==
  LET records == Records(e) IN {i \in DOMAIN records : records[i].kind = kind /\ records[i].favourable}
(* Only the first favourable record of an issuer counts.                      *)
Counted(e, kind) ==
  LET records == Records(e) IN
  {i \in DOMAIN records : /\ records[i].kind = kind /\ records[i].favourable
                          /\ \A j \in 1..i - 1 : ~(records[j].kind = kind /\ records[j].favourable
                                                   /\ records[j].issuer = records[i].issuer)}
Assurances(e, kind) ==
  LET records == Records(e) IN
  SortSeq(SetToSeq({<<records[i].assurance, i>> : i \in Counted(e, kind)}), LAMBDA a, b : a[1] > b[1])
Qualifying(e, kind) == {a \in ToSet(Assurances(e, kind)) : a[1] >= PolicySpec.minAssurance}

(* The weakest of the strongest records that fill the required places.        *)
selected_assurance(e) ==
  LET taken == UNION {{a[1] : a \in ToSet(SubSeq(Assurances(e, k), 1,
                                 IF PolicySpec.required[k] < Len(Assurances(e, k))
                                 THEN PolicySpec.required[k] ELSE Len(Assurances(e, k))))} :
                      k \in {"review", "test", "attestation"}}
  IN IF taken = {} THEN 0 ELSE CHOOSE a \in taken : \A b \in taken : a <= b

Reasons(e) ==
  {<<"failed", r.kind>> : r \in {x \in ToSet(Records(e)) : ~x.favourable}}
  \cup {<<"insufficient", k>> : k \in {x \in {"review", "test", "attestation"} :
           Cardinality(Qualifying(e, x)) < PolicySpec.required[x]}}
  \cup {<<"insufficient", k>> : k \in {x \in {"contradiction"} :
           Cardinality(Counted(e, x)) < PolicySpec.required[x]}}
  \cup {<<"assurance", k>> : k \in {x \in {"all"} : selected_assurance(e) < PolicySpec.minAssurance}}

(* The checkpoint binds the records in order of their IDs and the assurance.  *)
Checkpoint(e) == [records |-> Records(e), assurance |-> selected_assurance(e)]

evaluate(e) ==
  LET human == Ratifications(e)[1] IN
  CASE Malformed(e) -> [outcome |-> "error"]
    [] ~Malformed(e) /\ Reasons(e) # {} ->
         [outcome |-> "blocked", reasons |-> Reasons(e), checkpoint |-> Checkpoint(e)]
    [] ~Malformed(e) /\ Reasons(e) = {} /\ ~PolicySpec.human ->
         IF Ratifications(e) # <<>> THEN [outcome |-> "error"]
         ELSE [outcome |-> "accepted", checkpoint |-> Checkpoint(e)]
    [] ~Malformed(e) /\ Reasons(e) = {} /\ PolicySpec.human ->
         IF Ratifications(e) = <<>> THEN [outcome |-> "awaiting", checkpoint |-> Checkpoint(e)]
         ELSE IF human.statement # Checkpoint(e).records \/ human.issuer \notin PolicySpec.ratifiers
                 \/ ~human.genuine
         THEN [outcome |-> "error"]
         ELSE IF ~human.favourable THEN [outcome |-> "blocked", reasons |-> {<<"human">>},
                                         checkpoint |-> Checkpoint(e)]
         ELSE [outcome |-> "accepted", checkpoint |-> Checkpoint(e)]

PolicyInit == evidence = <<>> /\ new_with_receipt_key(PolicySpec)
Arrive(r) == Len(evidence) < MaxArrivals /\ r \notin ToSet(evidence) /\ evidence' = Append(evidence, r)
PolicyNext == \E r \in EvidenceRecords : Arrive(r)

(* The order in which the workers' records arrive never changes the decision  *)
(* or the checkpoint a ratifier signs: evaluate works on the sorted records.  *)
DecisionIgnoresArrival ==
  LET sorted == SortSeq(evidence, LAMBDA a, b : a.id < b.id) IN evaluate(evidence) = evaluate(sorted)

(* Whatever else was handed in, an accepted snapshot has, for each kind, as   *)
(* many distinct issuers as required whose records meet the assurance, and    *)
(* nothing unfavourable.                                                      *)
AcceptanceEarned ==
  evaluate(evidence).outcome = "accepted" =>
    /\ \A r \in ToSet(Records(evidence)) : r.favourable
    /\ \A k \in {"review", "test", "attestation"} :
         Cardinality({r.issuer : r \in {x \in ToSet(evidence) :
              x.kind = k /\ x.assurance >= PolicySpec.minAssurance}}) >= PolicySpec.required[k]
    /\ PolicySpec.human => \E r \in ToSet(evidence) : r.kind = "ratification" /\ r.favourable

(* What is accepted was earned and does not depend on the order of arrival.   *)
EvidenceDecides == AcceptanceEarned /\ DecisionIgnoresArrival
=============================================================================
