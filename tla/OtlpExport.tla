----------------------------- MODULE OtlpExport -----------------------------
(***************************************************************************)
(* The telemetry exporter: emitters offer records without ever waiting, a  *)
(* worker thread per signal takes them from a bounded queue and sends them *)
(* to a collector through a circuit breaker, and shutdown closes the       *)
(* queues and gives the workers a deadline.  Logs stand for logs and spans *)
(* and are sent once; metrics are cumulative, and all series are sent      *)
(* again until every chunk of them has arrived.  Workers share nothing but *)
(* the gate and the shutdown, so a behaviour follows the records and the   *)
(* worker of one signal.                                                   *)
(*                                                                         *)
(* Times are abstracted: a batch or metric deadline may have passed        *)
(* whenever the worker looks, the pause of the circuit and the deadline of *)
(* shutdown end in steps of their own.                                     *)
(***************************************************************************)
EXTENDS Naturals, Sequences, FiniteSets, SequencesExt, FiniteSetsExt

CONSTANTS Emitters, Series, None,
          SeriesLimit,     \* of the registry
          QueueSize,
          ChunkSizes,      \* the batch sizes of the deployments
          Threshold,       \* failures that open the circuit, 3 in the code
          MaxOffers,       \* bound on records offered
          MaxFlips         \* bound on changes of the collector

ASSUME ExportAssumption ==
    /\ SeriesLimit \in Nat /\ QueueSize \in Nat \ {0} /\ ChunkSizes \subseteq Nat \ {0} /\ Threshold \in Nat \ {0}

VARIABLES signal,       \* "log" or "metric"
          ChunkSize,    \* batch_size of this deployment
          emitting,     \* the record an emitter offers while it holds the gate
          closed, registry, queue,
          worker,       \* the worker loop: where it is, stopping, chunks to export
          pending, aggregates, dirty,
          circuit,      \* consecutive failures and "closed", "open" or "over"
          stage,        \* of shutdown: "running", "started" or "joined"
          expired,      \* the deadline of shutdown has passed
          up, flips,    \* the collector
          received,     \* what it has: how often each log, or the value of each series
          admitted,     \* ghost: how often the queue took each item
          drops,        \* the drop counters, of what the log worker gave up
          failed,       \* ghost: the logs those counts stand for
          offered       \* records offered so far

emitVars == <<emitting, registry, admitted, offered>>
dropVars == <<drops, failed>>
workVars == <<pending, aggregates, dirty, circuit, received, dropVars>>
config == <<signal, ChunkSize>>
otlpVars == <<config, emitVars, workVars, closed, queue, worker, stage, expired, up, flips>>

Logs == 1..MaxOffers
Items == IF signal = "log" THEN Logs ELSE Series

OtlpInit == /\ signal \in {"log", "metric"} /\ ChunkSize \in ChunkSizes
        /\ emitting = [e \in Emitters |-> None]
        /\ closed = FALSE /\ registry = {} /\ queue = <<>>
        /\ worker = [at |-> "loop", stopping |-> FALSE, chunks |-> <<>>, exported |-> TRUE]
        /\ pending = <<>> /\ aggregates = [m \in Series |-> 0] /\ dirty = FALSE
        /\ circuit = [failures |-> 0, state |-> "closed"]
        /\ stage = "running" /\ expired = FALSE
        /\ up = TRUE /\ flips = 0
        /\ received = [i \in Items |-> 0] /\ admitted = [i \in Items |-> 0]
        /\ drops = 0 /\ failed = {} /\ offered = 0

-----------------------------------------------------------------------------
(* try_emit.  An emitter that finds the gate taken drops its record; one   *)
(* that has the gate looks at the flag, reserves the series of a new       *)
(* point, and gives the reservation back when the queue is full.           *)
GateFree == \A e \in Emitters : emitting[e] = None

TryEmit(e, item) ==
    /\ offered < MaxOffers /\ emitting[e] = None
    /\ signal = "log" => item = offered + 1
    /\ emitting' = IF GateFree THEN [emitting EXCEPT ![e] = item] ELSE emitting
    /\ offered' = offered + 1
    /\ UNCHANGED <<config, registry, admitted, workVars, closed, queue, worker, stage, expired, up, flips>>

Admit(item) == signal = "metric" => item \in registry \/ Cardinality(registry) < SeriesLimit
Reserved(item) == IF signal = "metric" THEN registry \cup {item} ELSE registry
Rollback(item) == registry

Emit(e) ==
    LET item == emitting[e]
    IN  /\ item # None
        /\ emitting' = [emitting EXCEPT ![e] = None]
        /\ IF closed \/ ~Admit(item)
           THEN UNCHANGED <<registry, queue, admitted>>
           ELSE IF Len(queue) >= QueueSize
           THEN registry' = Rollback(item) /\ UNCHANGED <<queue, admitted>>
           ELSE /\ registry' = Reserved(item)
                /\ queue' = Append(queue, item)
                /\ admitted' = [admitted EXCEPT ![item] = @ + 1]
        /\ UNCHANGED <<config, offered, workVars, closed, worker, stage, expired, up, flips>>

-----------------------------------------------------------------------------
(* One turn of the worker: take records, export what is due chunk by       *)
(* chunk, and leave when stopping and the queue is empty.  Shutdown closes *)
(* the queue before it sends the stop, so nothing arrives while it drains. *)
Count(items, i) == Cardinality({k \in DOMAIN items : items[k] = i})
Take(n) ==
    LET items == SubSeq(queue, 1, n)
    IN  /\ queue' = SubSeq(queue, n + 1, Len(queue))
        /\ IF signal = "log" THEN pending' = pending \o items /\ UNCHANGED <<aggregates, dirty>>
           ELSE /\ aggregates' = [m \in Series |-> aggregates[m] + Count(items, m)]
                /\ dirty' = (dirty \/ n > 0)
                /\ UNCHANGED pending

Chunks(items) ==
    [i \in 1..((Len(items) + ChunkSize - 1) \div ChunkSize) |->
        SubSeq(items, (i - 1) * ChunkSize + 1, Min({i * ChunkSize, Len(items)}))]

(* What a stopping worker drains before its deadline.                      *)
Drained ==
    IF expired THEN 0
    ELSE IF signal = "log" THEN Min({ChunkSize - Len(pending), Len(queue)}) ELSE Len(queue)

(* A running worker that receives nothing waits until its export is due.   *)
Ready == IF signal = "log" THEN pending' # <<>> ELSE dirty'
Due(stopping) ==
    {d \in BOOLEAN :
        IF ~Ready THEN ~d
        ELSE stopping \/ queue = <<>> \/ (signal = "log" /\ Len(pending') >= ChunkSize) => d}

Turn ==
    LET stopping == worker.stopping \/ stage # "running"
    IN  /\ worker.at = "loop"
        /\ Take(IF stopping THEN Drained ELSE Min({1, Len(queue)}))
        /\ stopping \/ queue # <<>> \/ Ready
        /\ \E due \in Due(stopping) :
            worker' = [at |-> IF due THEN "export" ELSE "checked", stopping |-> stopping, exported |-> TRUE,
                       chunks |-> IF ~due THEN <<>>
                                  ELSE IF signal = "log" THEN Chunks(pending')
                                  ELSE Chunks(SetToSeq({m \in Series : aggregates'[m] > 0}))]
        /\ UNCHANGED <<config, emitVars, circuit, received, dropVars, closed, stage, expired, up, flips>>

(* The circuit, which a stopping worker neither asks nor tells.            *)
Allowed == worker.stopping \/ circuit.state # "open"
Told(ok) ==
    LET failures == IF ok THEN 0 ELSE Min({circuit.failures + 1, Threshold})
    IN  IF worker.stopping THEN circuit
        ELSE [failures |-> failures, state |-> IF failures >= Threshold THEN "open" ELSE "closed"]

(* An export arrives when the collector is up.  When it is not, the export *)
(* may arrive all the same, with an answer that is lost or late.           *)
Arrives(chunk) ==
    received' = [i \in Items |-> IF Count(chunk, i) = 0 THEN received[i]
                                 ELSE IF signal = "log" THEN received[i] + 1 ELSE aggregates[i]]
NextChunk(ok) == worker' = [worker EXCEPT !.chunks = Tail(@), !.exported = @ /\ ok]

(* A failed export is counted once, however many records it carried; what  *)
(* is given up past the deadline of shutdown is counted record by record.  *)
Counted(items, n) ==
    IF signal = "metric" THEN UNCHANGED dropVars
    ELSE drops' = drops + n /\ failed' = failed \cup Range(items)
Fails(chunk) == Counted(chunk, 1)
GivenUp(items) == Counted(items, Len(items))

ExportChunk ==
    LET chunk == Head(worker.chunks)
        late == worker.stopping /\ expired
    IN  /\ worker.at = "export" /\ worker.chunks # <<>>
        /\ \/ /\ late
              /\ NextChunk(FALSE) /\ GivenUp(chunk) /\ UNCHANGED <<circuit, received>>
           \/ /\ ~late /\ ~Allowed
              /\ NextChunk(FALSE) /\ Fails(chunk) /\ UNCHANGED <<circuit, received>>
           \/ /\ ~late /\ Allowed /\ up
              /\ NextChunk(TRUE) /\ Arrives(chunk) /\ UNCHANGED dropVars
              /\ circuit' = Told(TRUE)
           \/ /\ ~late /\ Allowed /\ ~up
              /\ NextChunk(FALSE) /\ Fails(chunk)
              /\ UNCHANGED received \/ Arrives(chunk)
              /\ circuit' = Told(FALSE)
        /\ UNCHANGED <<config, emitVars, pending, aggregates, dirty, closed, queue, stage, expired, up, flips>>

StillDirty == dirty /\ ~worker.exported
Exported ==
    /\ worker.at = "export" /\ worker.chunks = <<>>
    /\ pending' = <<>>
    /\ dirty' = StillDirty
    /\ worker' = [worker EXCEPT !.at = "checked"]
    /\ UNCHANGED <<config, emitVars, aggregates, circuit, received, dropVars, closed, queue, stage, expired, up, flips>>

(* The end of a turn.  A stopping worker looks for one more record; when   *)
(* there is none, or the deadline has passed, it empties its queue and is  *)
(* gone.  The record it took last is lost with it.                         *)
Leaves == queue = <<>> \/ expired
\* Faulty variant: the rest of the queue goes uncounted.
LeftUncounted == <<>>
LeftBehind == SubSeq(queue, 2, Len(queue))
Check ==
    /\ worker.at = "checked"
    /\ IF ~worker.stopping
       THEN /\ worker' = [worker EXCEPT !.at = "loop"]
            /\ UNCHANGED <<queue, pending, aggregates, dirty, dropVars>>
       ELSE IF Leaves
       THEN /\ worker' = [worker EXCEPT !.at = "gone"]
            /\ queue' = <<>>
            /\ GivenUp(LeftBehind)
            /\ UNCHANGED <<pending, aggregates, dirty>>
       ELSE /\ Take(1)
            /\ worker' = [worker EXCEPT !.at = "loop"]
            /\ UNCHANGED dropVars
    /\ UNCHANGED <<config, emitVars, circuit, received, closed, stage, expired, up, flips>>

-----------------------------------------------------------------------------
(* Shutdown waits for the gate, closes, tells the workers to stop and      *)
(* waits for them, past its deadline too.                                  *)
Shutdown ==
    /\ stage = "running" /\ GateFree
    /\ closed' = TRUE /\ stage' = "started"
    /\ UNCHANGED <<config, emitVars, workVars, queue, worker, expired, up, flips>>
DeadlinePasses ==
    /\ stage = "started" /\ ~expired
    /\ expired' = TRUE
    /\ UNCHANGED <<config, emitVars, workVars, closed, queue, worker, stage, up, flips>>
Join ==
    /\ stage = "started" /\ worker.at = "gone"
    /\ stage' = "joined"
    /\ UNCHANGED <<config, emitVars, workVars, closed, queue, worker, expired, up, flips>>

CircuitCools ==
    /\ circuit.state = "open"
    /\ circuit' = [circuit EXCEPT !.state = "over"]
    /\ UNCHANGED <<config, emitVars, pending, aggregates, dirty, received, dropVars, closed, queue, worker, stage, expired, up, flips>>

CollectorChanges ==
    /\ flips < MaxFlips
    /\ up' = ~up /\ flips' = flips + 1
    /\ UNCHANGED <<config, emitVars, workVars, closed, queue, worker, stage, expired>>

OtlpNext == \/ \E e \in Emitters : Emit(e) \/ \E item \in Items : TryEmit(e, item)
        \/ Turn \/ ExportChunk \/ Exported \/ Check
        \/ Shutdown \/ DeadlinePasses \/ Join
        \/ CircuitCools \/ CollectorChanges

-----------------------------------------------------------------------------
(* The registry holds exactly the series of which a point was accepted,    *)
(* within its limit: a refused point never keeps the slot it reserved      *)
(* (try_emit, SeriesRegistry).                                             *)
SeriesExact ==
    signal = "metric" => /\ registry = {m \in Series : admitted[m] > 0}
                         /\ Cardinality(registry) <= SeriesLimit

(* An accepted log reaches the collector at most once, whatever exports    *)
(* time out after they arrived.  When shutdown has ended each has arrived   *)
(* or is one of those the drop counters stand for, up to a batch for each   *)
(* count; only a worker that leaves past its deadline loses one more, the   *)
(* record it took last (run_otlp_worker, OtlpOwner::shutdown).              *)
LogsAccounted ==
    signal = "log" =>
        /\ \A r \in Logs : received[r] <= admitted[r]
        /\ drops <= Cardinality(failed) /\ Cardinality(failed) <= ChunkSize * drops
        /\ stage = "joined" =>
             Cardinality({r \in Logs : received[r] < admitted[r]} \ failed) <= IF expired THEN 1 ELSE 0

(* Neither signal loses count of what it took.                             *)
ExportAccounted == SeriesExact /\ LogsAccounted

(* When the collector stays up, shutdown once begun ends, and as long as   *)
(* there is none the collector comes to hold every accepted point,         *)
(* whatever failed or was held back by the circuit before                  *)
(* (run_otlp_worker, CircuitBreaker, accumulate_metric).                   *)
MetricsArrive ==
    <>[]up => <>[](/\ stage # "started"
                   /\ signal = "metric" /\ stage = "running" => received = admitted)
=============================================================================
