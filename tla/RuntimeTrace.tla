---------------------------- MODULE RuntimeTrace ----------------------------
(***************************************************************************)
(* The bounded capture of runtime events: one window of required events    *)
(* shared by all workloads, a share of it for each workload, a buffer of   *)
(* optional events, and the tables that tie a signal hash to the task it   *)
(* was emitted for.  Every operation runs under the mutex of the capture   *)
(* and is one step; events of the runtime, registrations by processors and *)
(* terminal outputs by executors come in any order, and a hash may be used *)
(* again.  A task stands for its pair of task and context identifiers and  *)
(* also for the digest of that pair, which names its workload.             *)
(***************************************************************************)
EXTENDS Integers, Sequences, FiniteSets, SequencesExt

CONSTANTS Hashes, Tasks, None,
          PublishedStates,   \* the states executors publish other than by cancellation
          RequiredCapacity, OptionalCapacity, PerWorkloadCapacity,
          MaxSeen,      \* MAX_CAPTURE_EVENTS, as the bound of the hash history
          MaxEvents     \* bound on events offered in a behaviour

ASSUME CapacityAssumption ==
    /\ RequiredCapacity \in Nat /\ OptionalCapacity \in Nat
    /\ PerWorkloadCapacity \in 2..RequiredCapacity

VARIABLES required, optional, correlations, aliases, seen, ambiguous, saturated,
          sequence, retired, dropped,
          valid,        \* FALSE when the failure token is cancelled
          file,         \* the persisted trace
          offered       \* ghost: required events the capture answered with Ok

tables == <<correlations, aliases, seen, ambiguous, saturated>>
traceVars == <<required, optional, tables, sequence, retired, dropped, valid, file, offered>>

(***************************************************************************)
(* adapt_event: reinforced stands for every event in the life of a signal  *)
(* but its emission, peer for both peer events; claim and terminal are     *)
(* recorded by the gateway.  Only ticks are optional.                      *)
(***************************************************************************)
SignalKinds == {"emitted", "reinforced"}
GatewayKinds == {"claim", "terminal"}

Outcomes == {"CooperativeStop", "ForcedAbort"}
CancellationValid(d) ==
    \/ d.outcome = None /\ d.state # "Canceled"
    \/ d.outcome = "CooperativeStop" /\ d.state = "Canceled"
    \/ d.outcome = "ForcedAbort" /\ d.state = "Failed"

(* A claim carries whether its digests are canonical.                      *)
DetailsAreBounded(kind, d) ==
    /\ kind = "terminal" => CancellationValid(d)
    /\ kind = "claim" => d

(* The time is read in the critical section that numbers the event, so the *)
(* number tells all that matters of it.                                    *)
Event(kind, hash, task, details) ==
    [sequence |-> sequence, micros |-> sequence, kind |-> kind, hash |-> hash, task |-> task,
     details |-> details, workload |-> None]

TraceInit ==
        /\ required = <<>> /\ optional = <<>>
        /\ correlations = [h \in Hashes |-> None]
        /\ aliases = [h \in Hashes |-> None]
        /\ seen = {} /\ ambiguous = {} /\ saturated = FALSE
        /\ sequence = 0 /\ retired = 0 /\ dropped = 0
        /\ valid = TRUE /\ file = None /\ offered = 0

-----------------------------------------------------------------------------
(* The window.                                                             *)
IsBoundary(e) == e.kind \in {"emitted", "terminal"}
Of(window, w) == SelectSeq(window, LAMBDA e : e.workload = w)
WorkloadIsCompleted(window, w) == \E i \in DOMAIN window : window[i].workload = w /\ window[i].kind = "terminal"

First(window, P(_)) ==
    LET hits == {i \in DOMAIN window : P(window[i])}
    IN  IF hits = {} THEN 0 ELSE CHOOSE i \in hits : \A j \in hits : i <= j

RetirementIndexOldest(window, w) == First(window, LAMBDA e : e.workload = w)
(* A completed workload without an intermediate event loses its oldest     *)
(* event, and so does one that is not completed.                           *)
RetirementIndex(window, w) ==
    LET intermediate == First(window, LAMBDA e : e.workload = w /\ ~IsBoundary(e))
    IN  IF intermediate # 0 THEN intermediate ELSE First(window, LAMBDA e : e.workload = w)

RECURSIVE Reduced(_, _, _)
Reduced(window, w, limit) ==
    IF Len(Of(window, w)) <= limit THEN window
    ELSE Reduced(RemoveAt(window, RetirementIndex(window, w)), w, limit)

(* The process window gives up the oldest completed workload as a whole,   *)
(* else the oldest intermediate event, else the oldest event.  One round   *)
(* of the loop is enough: the window never exceeds its capacity.           *)
CompletedIndex(window) ==
    First(window, LAMBDA e : e.workload # None /\ WorkloadIsCompleted(window, e.workload))
RetireOne(window) ==
    LET done == CompletedIndex(window)
        intermediate == First(window, LAMBDA e : ~IsBoundary(e))
    IN  IF done # 0 THEN SelectSeq(window, LAMBDA e : e.workload # window[done].workload)
        ELSE IF intermediate # 0 THEN RemoveAt(window, intermediate)
        ELSE Tail(window)
MakeRoom(window) == IF Len(window) < RequiredCapacity THEN window ELSE RetireOne(window)

(* prune_workload_aliases: only hashes of retained events and of active    *)
(* correlations keep their entries.                                        *)
Kept(window, active) == {window[i].hash : i \in DOMAIN window} \cup {h \in Hashes : active[h] # None}
PruneWorkloadAliases(kept, table, doubtful) ==
    /\ aliases' = [h \in Hashes |-> IF h \in kept THEN table[h] ELSE None]
    /\ ambiguous' = doubtful \cap kept

WorkloadForEvent(e) ==
    IF e.hash # None
    THEN IF aliases[e.hash] # None THEN aliases[e.hash] ELSE e.hash
    ELSE e.task

(* push_required.  An intermediate event of a workload that fills its      *)
(* share with anchors is itself the one that goes.  Retiring a completed   *)
(* workload prunes the tables before the new event is in the window.       *)
Squeezed(e) ==
    LET own == Of(required, e.workload)
    IN  /\ e.workload # None /\ Len(own) >= PerWorkloadCapacity
        /\ ~IsBoundary(e) /\ \A i \in DOMAIN own : IsBoundary(own[i])
Share(e) == IF e.workload = None THEN required ELSE Reduced(required, e.workload, PerWorkloadCapacity - 1)
Pushed(e) == IF Squeezed(e) THEN required ELSE Append(MakeRoom(Share(e)), e)
WholeRetired(e) ==
    /\ ~Squeezed(e) /\ Len(Share(e)) >= RequiredCapacity /\ CompletedIndex(Share(e)) # 0

Retire(before, after) == retired' = retired + before - after

PushRequired(event) ==
    LET e == [event EXCEPT !.workload = WorkloadForEvent(event)]
        kept == Kept(required', correlations)
    IN  /\ required' = Pushed(e)
        /\ Retire(Len(required) + 1, Len(required'))
        /\ PruneWorkloadAliases(IF WholeRetired(e) THEN kept \cap Kept(MakeRoom(Share(e)), correlations) ELSE kept,
                                aliases, ambiguous)

-----------------------------------------------------------------------------
(* The operations.  Each answers an error by its guard: an operation that  *)
(* is refused changes nothing unless it invalidates the capture.           *)
Serving == valid /\ file = None
MayRecord == Serving /\ offered + dropped + Len(optional) < MaxEvents
Offer == /\ MayRecord
         /\ offered' = offered + 1

(* A processor registers the signal of its task before it does anything    *)
(* else; the events already captured for the hash join the workload.       *)
Relabelled(e, h, t) ==
    IF e.hash # h THEN e
    ELSE [e EXCEPT !.workload = t, !.task = IF e.kind = "emitted" /\ @ = None THEN t ELSE @]
RegisterCorrelation(h, t) ==
    LET active == [correlations EXCEPT ![h] = t]
        window == [i \in DOMAIN required |-> Relabelled(required[i], h, t)]
    IN  /\ Serving /\ correlations[h] = None
        /\ Cardinality({g \in Hashes : correlations[g] # None}) < RequiredCapacity
        /\ aliases[h] \in {None, t}
        /\ correlations' = active
        /\ IF Cardinality(seen) < MaxSeen THEN seen' = seen \cup {h} /\ UNCHANGED saturated
           ELSE saturated' = TRUE /\ UNCHANGED seen
        /\ required' = Reduced(window, t, PerWorkloadCapacity)
        /\ Retire(Len(required), Len(required'))
        /\ PruneWorkloadAliases(Kept(required', active), [aliases EXCEPT ![h] = t],
                                IF saturated \/ h \in seen THEN ambiguous \cup {h} ELSE ambiguous)
        /\ UNCHANGED <<optional, sequence, dropped, valid, file, offered>>

(* Late or ambiguous events of a hash retire on the spot.                  *)
Conservative(h) ==
    \/ saturated
    \/ h \in ambiguous
    \/ h \in seen /\ aliases[h] = None

RecordSignal(kind, h) ==
    /\ Offer
    /\ UNCHANGED <<optional, correlations, seen, saturated, dropped, valid, file>>
    /\ IF kind # "emitted" /\ Conservative(h)
       THEN /\ retired' = retired + 1
            /\ UNCHANGED <<required, aliases, ambiguous, sequence>>
       ELSE /\ PushRequired(Event(kind, h, IF kind = "emitted" THEN correlations[h] ELSE None, None))
            /\ sequence' = sequence + 1

RecordPeer ==
    /\ Offer
    /\ PushRequired(Event("peer", None, None, None))
    /\ sequence' = sequence + 1
    /\ UNCHANGED <<optional, correlations, seen, saturated, dropped, valid, file>>

RecordTick ==
    /\ MayRecord
    /\ IF Len(optional) >= OptionalCapacity
       THEN dropped' = dropped + 1 /\ UNCHANGED <<optional, sequence>>
       ELSE /\ optional' = Append(optional, Event("tick", None, None, None))
            /\ sequence' = sequence + 1
            /\ UNCHANGED dropped
    /\ UNCHANGED <<required, tables, retired, valid, file, offered>>

(* A gateway event of a task; a terminal output ends the correlations of   *)
(* its task, but the aliases are pruned only by the next event.            *)
RecordRequiredGateway(t, kind, details) ==
    /\ DetailsAreBounded(kind, details)
    /\ Offer
    /\ PushRequired(Event(kind, None, t, details))
    /\ sequence' = sequence + 1
    /\ correlations' = IF kind = "terminal" THEN [h \in Hashes |-> IF correlations[h] = t THEN None ELSE correlations[h]]
                       ELSE correlations
    /\ UNCHANGED <<optional, seen, saturated, dropped, valid, file>>

RecordEvidence(t, canonical) == RecordRequiredGateway(t, "claim", canonical)
RecordTerminal(t, state) ==
    /\ state # "Canceled"
    /\ RecordRequiredGateway(t, "terminal", [state |-> state, outcome |-> None])
RecordCancellationTerminal(t, outcome) ==
    RecordRequiredGateway(t, "terminal",
        [state |-> IF outcome = "CooperativeStop" THEN "Canceled" ELSE "Failed", outcome |-> outcome])

(* Reading the trace back: the sequence numbers are given anew, and a      *)
(* replay takes a trace whose times never go back and whose events have    *)
(* the shape of their kind.                                                *)
Rebased(events) == [i \in DOMAIN events |-> [events[i] EXCEPT !.sequence = i - 1]]
Snapshot ==
    [valid |-> valid,
     events |-> Rebased(SortSeq(required \o optional, LAMBDA a, b : a.sequence < b.sequence))]

TraceEventIsValid(e) ==
    /\ \/ e.kind \in SignalKinds /\ e.hash # None
       \/ e.kind \in {"peer", "tick"} /\ e.hash = None /\ e.task = None
       \/ e.kind \in GatewayKinds /\ e.hash = None /\ e.task # None
    /\ DetailsAreBounded(e.kind, e.details)

Replay(trace) ==
    /\ trace.valid
    /\ \A i \in DOMAIN trace.events :
        /\ trace.events[i].sequence = i - 1
        /\ i > 1 => trace.events[i - 1].micros <= trace.events[i].micros
        /\ TraceEventIsValid(trace.events[i])

(* The gateway stops.  A drain of runtime events that failed or did not    *)
(* stop in time invalidates the capture, and then nothing is persisted.    *)
Stop(drained) ==
    /\ Serving
    /\ valid' = drained
    /\ file' = IF drained THEN Snapshot ELSE None
    /\ UNCHANGED <<required, optional, tables, sequence, retired, dropped, offered>>

TraceNext ==
        \/ \E h \in Hashes, t \in Tasks : RegisterCorrelation(h, t)
        \/ \E h \in Hashes, kind \in SignalKinds : RecordSignal(kind, h)
        \/ RecordPeer
        \/ RecordTick
        \/ \E t \in Tasks, canonical \in BOOLEAN : RecordEvidence(t, canonical)
        \/ \E t \in Tasks, state \in PublishedStates : RecordTerminal(t, state)
        \/ \E t \in Tasks, outcome \in Outcomes : RecordCancellationTerminal(t, outcome)
        \/ \E drained \in BOOLEAN : Stop(drained)

-----------------------------------------------------------------------------
(* The capture stays within its bounds whatever order registrations,       *)
(* events and reuse of hashes come in: the window, each workload's share   *)
(* of it and the optional buffer; and every required event that was        *)
(* accepted is in the window or counted as retired (runtime_trace.rs,      *)
(* push_required and enforce_workload_limit).                              *)
WindowBounded ==
    /\ Len(required) <= RequiredCapacity /\ Len(optional) <= OptionalCapacity
    /\ \A w \in Tasks \cup Hashes : Len(Of(required, w)) <= PerWorkloadCapacity
    /\ offered = Len(required) + retired

(* A trace that is persisted is accepted by replay, and has every event    *)
(* still in the window, whatever was retired, relabelled or interleaved    *)
(* with ticks (snapshot, persist_new, replay).                             *)
Replayable ==
    file # None => Replay(file) /\ Len(file.events) = Len(required) + Len(optional)

(* No step drops the emission or the terminal output of a workload and     *)
(* keeps an older intermediate event of it: anchors go last within their   *)
(* workload (retirement_index, push_required).                             *)
Keeps(e) == \E i \in DOMAIN required' : required'[i].sequence = e.sequence
IntermediatesFirst ==
    \A i, j \in DOMAIN required :
        /\ required[i].workload = required[j].workload
        /\ IsBoundary(required[i]) /\ ~IsBoundary(required[j])
        /\ Keeps(required[j])
        => Keeps(required[i])

(* The trace as a whole: bounded and accounted for, replayable once it is  *)
(* persisted, and shortened from its intermediate events first.            *)
TraceKept == [][WindowBounded' /\ Replayable' /\ IntermediatesFirst]_traceVars
=============================================================================
