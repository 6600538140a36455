------------------------------ MODULE MCEvidence ------------------------------
(* How a result is judged: the completion policy, the text-concordance        *)
(* workload, the candidates its issuers sign and the capture of runtime       *)
(* events, each explored on its own.                                          *)
EXTENDS CompletionPolicy, TextConcordance, SemanticEvidence, RuntimeTrace, TLC

CONSTANTS c1, c2
VARIABLE part

Record(id, kind, issuer, favourable, assurance) ==
  [id |-> id, kind |-> kind, issuer |-> issuer, favourable |-> favourable, assurance |-> assurance,
   digest |-> id, subject |-> "artifacts", genuine |-> TRUE]
Good == <<Record(1, "review", "r", TRUE, 6000), Record(3, "test", "t", TRUE, 6000),
          Record(4, "contradiction", "k", TRUE, 0), Record(6, "review", "q", TRUE, 7000)>>
Repeated == Record(2, "review", "r", TRUE, 9000)
MCRecords ==
  ToSet(Good) \cup
  {Repeated, Record(5, "test", "t", FALSE, 9000),
   Record(7, "attestation", "n", TRUE, 4000),
   [Record(8, "test", "u", TRUE, 9000) EXCEPT !.digest = 3],
   Record(9, "ratification", "h", TRUE, 0) @@ [statement |-> Good],
   Record(10, "ratification", "h", FALSE, 0) @@ [statement |-> Good],
   Record(11, "ratification", "h", TRUE, 0) @@ [statement |-> <<Good[1], Repeated, Good[2], Good[3]>>]}
MCPolicy ==
  [required |-> [review |-> 2, test |-> 1, attestation |-> 0, contradiction |-> 1],
   minAssurance |-> 5000, maxEvidence |-> 4, human |-> TRUE, ratifiers |-> {"h"},
   issuers |-> [review |-> {"r", "q"}, test |-> {"t", "u"}, attestation |-> {"n"}, contradiction |-> {"k"}]]

evars == <<evidence, text, svars, traceVars, part>>
MCInit ==
  /\ part \in {"policy", "text", "semantic", "trace"}
  /\ PolicyInit /\ TextInit /\ SemanticInit /\ TraceInit
(* The first record to arrive is one that counts.                             *)
GoodFirst == Head(evidence') \in ToSet(Good)
(* Ticks, peer events, cancellations and a failed drain only come between the *)
(* first two required events.                                                 *)
OddEarly ==
  \/ offered = 1
  \/ /\ UNCHANGED <<optional, dropped, valid>>
     /\ \A i \in DOMAIN required' : required'[i].sequence = sequence =>
          /\ required'[i].kind # "peer"
          /\ required'[i].kind = "terminal" => required'[i].details.outcome = None
MCNext ==
  \/ part = "policy" /\ PolicyNext /\ GoodFirst /\ UNCHANGED <<text, svars, traceVars, part>>
  \/ part = "text" /\ TextNext /\ UNCHANGED <<evidence, svars, traceVars, part>>
  \/ part = "semantic" /\ SemanticNext /\ UNCHANGED <<evidence, text, traceVars, part>>
  \/ part = "trace" /\ TraceNext /\ OddEarly /\ UNCHANGED <<evidence, text, svars, part>>
MCSpec == MCInit /\ [][MCNext]_evars
MCSymmetry == Permutations(Coordinators) \cup Permutations(Hashes) \cup Permutations(Tasks)
=============================================================================
