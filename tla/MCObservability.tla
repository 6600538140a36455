--------------------------- MODULE MCObservability ---------------------------
(* The two halves of telemetry, each explored on its own: a decision and     *)
(* another audit event with two replicas, and one signal of the exporter     *)
(* with a collector that goes down and up.                                   *)
EXTENDS AuditProjection, OtlpExport

VARIABLE part
mcVars == <<auditVars, otlpVars, part>>

MCInit == /\ part \in {"audit", "otlp"}
          /\ AuditInit /\ (part = "otlp" => backend = "sqlite")
          /\ OtlpInit /\ ChunkSize = (IF signal = "log" THEN 2 ELSE 1) /\ (part = "audit" => signal = "log")
(* Two events and no stop, or one event and one stop; with the one projector *)
(* of SQLite two events and one stop, also between the rows of one batch.    *)
AuditBound == IF backend = "sqlite" THEN 3 ELSE 2
Audit(A) == /\ part = "audit" /\ A /\ UNCHANGED <<otlpVars, part>>
            /\ Cardinality(committed') + stops' <= AuditBound
Otlp(A) == part = "otlp" /\ A /\ UNCHANGED <<auditVars, part>>

(* The loop of a projector goes on and is started again with its replica;    *)
(* leases expire, admitted work ends, and the operator removes old decisions. *)
AuditFairness ==
    /\ \A p \in Projectors : WF_mcVars(Audit(Works(p)))
    /\ WF_mcVars(Audit(\E e \in Events : LeaseExpires(e) \/ WorkEnds(e) \/ CleanupAuthorizationDecisions({e})))

(* The threads of the exporter are scheduled and the clock goes on.          *)
OtlpFairness ==
    /\ WF_mcVars(Otlp(Turn \/ ExportChunk \/ Exported \/ Check))
    /\ WF_mcVars(Otlp(CircuitCools)) /\ WF_mcVars(Otlp(Join))

MCSpec == /\ MCInit /\ [][Audit(AuditNext) \/ Otlp(OtlpNext)]_mcVars
          /\ AuditFairness /\ OtlpFairness

(* Both halves get done: the outbox is drained and removed, and the exporter  *)
(* delivers its metrics and shuts down.                                       *)
TelemetrySettles == AuditSettles /\ MetricsArrive
=============================================================================
