----------------------------- MODULE DurableHandler -----------------------------
(***************************************************************************)
(* What the callers of the durable gateway see: sends and streams of the   *)
(* messages of one task, subscriptions and cancellations, polling a store  *)
(* whose rows a driver (of this process or, with PostgreSQL, of another    *)
(* replica) changes meanwhile.  Each action is one store call or one turn  *)
(* of a stream; the driver's side is the outline of DurableDriver.         *)
(***************************************************************************)
EXTENDS Integers, Sequences, SequencesExt, FiniteSets

CONSTANTS
  Calls,       \* concurrent requests
  Messages,    \* 1..n: message m + 1 continues the task that m left paused
  Kinds        \* which of the five requests are made

VARIABLES
  backend,     \* "sqlite" | "postgres"
  rest,        \* the handler of the REST routes: no errors inside a stream
  quota,       \* a quota policy is installed: leases and charged egress
  events,      \* task_events: what the task was at each revision
  record,      \* idempotency_records, with the outbox row's progress and the revision
               \* of the task at which a packet awaits ratification (0: no packet)
  transcript,  \* stream_transcripts and stream_frames
  failed,      \* DriverState.failure of this process
  call         \* the requests

hvars == <<backend, rest, quota, events, record, transcript, failed, call>>
store == <<events, record, transcript>>
mode == <<backend, rest, quota>>

Terminal == {"completed", "canceled", "failed", "rejected"}
Outcomes == Terminal \cup {"input"}
NoTask == [state |-> "none", artifact |-> FALSE]
Task == IF events = <<>> THEN NoTask ELSE Last(events)
Revised(s) == Append(events, [state |-> s, artifact |-> s = "completed"])
Open(m) == record[m].mode # "none" /\ record[m].result = "none"

Idle == [kind |-> "idle", msg |-> 1, pc |-> "idle", via |-> "none", seen |-> 0, start |-> 0, cursor |-> 0,
         pending |-> <<>>, closed |-> FALSE, cut |-> FALSE, told |-> NoTask, out |-> <<>>, end |-> "none"]

HandlerInit ==
  /\ backend \in {"sqlite", "postgres"} /\ rest \in BOOLEAN /\ quota \in BOOLEAN
  /\ quota => backend = "postgres"
  /\ events = <<>> /\ failed = FALSE
  /\ record = [m \in Messages |-> [mode |-> "none", result |-> "none", received |-> FALSE, cancel |-> FALSE, packet |-> 0]]
  /\ transcript = [m \in Messages |-> [state |-> "none", frames |-> <<>>]]
  /\ call = [c \in Calls |-> Idle]

Set(c, r) == call' = [call EXCEPT ![c] = r]
Done(c, how) == Set(c, [call[c] EXCEPT !.pc = "done", !.end = how])
\* An error inside a stream: the REST handler just ends the stream.
StreamEnds(c, how) == Done(c, IF rest THEN "clean" ELSE how)
-----------------------------------------------------------------------------
(* Requests.                                                                *)

(* ensure_driver_healthy, and the task a continuation expects.              *)
ensure_driver_healthy(c, k, m) ==
  Set(c, [Idle EXCEPT !.kind = k, !.msg = m, !.seen = Len(events),
                      !.pc = IF failed THEN "done" ELSE IF k = "subscribe" THEN "snapshot" ELSE "admit",
                      !.end = IF failed THEN "driver" ELSE "none"])

Request(c) ==
  /\ call[c].pc = "idle"
  /\ \/ \E k \in Kinds \cap {"send", "immediate", "stream"}, m \in Messages :
          /\ m > 1 => events # <<>>
          /\ ensure_driver_healthy(c, k, m)
     \/ "subscribe" \in Kinds /\ ensure_driver_healthy(c, "subscribe", 1)
     \/ "cancel" \in Kinds /\ Set(c, [Idle EXCEPT !.kind = "cancel", !.pc = "cancel"])
  /\ UNCHANGED <<mode, store, failed>>

(* How each kind of send goes on once its message is on record.             *)
send_message(c) ==
  CASE call[c].kind = "send" -> [call[c] EXCEPT !.pc = "wait"]
    [] call[c].kind = "immediate" -> [call[c] EXCEPT !.pc = "done", !.end = "accepted"]
    [] call[c].kind = "stream" -> [call[c] EXCEPT !.pc = "lease", !.via = "transcript"]

ModeOf(c) == IF call[c].kind = "stream" THEN "stream" ELSE "send"

(* The admission transaction: replay, creation or continuation.             *)
Admit(c) ==
  LET m == call[c].msg
      fresh == IF m = 1 THEN events = <<>> ELSE Task.state = "input" /\ call[c].seen = Len(events)
  IN /\ call[c].pc = "admit"
     /\ IF record[m].mode # "none" THEN
          /\ UNCHANGED store
          /\ IF record[m].mode = ModeOf(c) THEN Set(c, send_message(c)) ELSE Done(c, "conflict")
        ELSE IF ~fresh THEN UNCHANGED store /\ Done(c, "refused")
        ELSE /\ events' = Revised(IF m = 1 THEN "submitted" ELSE "working")
             /\ record' = [record EXCEPT ![m].mode = ModeOf(c)]
             /\ transcript' = IF ModeOf(c) = "send" THEN transcript
                              ELSE [transcript EXCEPT ![m] = [state |-> "open", frames |-> <<"task">>]]
             /\ Set(c, send_message(c))
     /\ UNCHANGED <<mode, failed>>

(* wait_for_result: one durable read, then the failure of the driver.       *)
wait_for_result(c) ==
  /\ call[c].pc = "wait"
  /\ LET result == record[call[c].msg].result
     IN IF result = "none" THEN Set(c, [call[c] EXCEPT !.pc = "gate"])
        ELSE Set(c, [call[c] EXCEPT !.pc = "charge", !.out = <<result>>])
  /\ UNCHANGED <<mode, store, failed>>

\* Faulty variant: only a change of the store ends the wait.
GateBlind(c) ==
  /\ call[c].pc = "gate"
  /\ Set(c, [call[c] EXCEPT !.pc = IF call[c].via = "none" THEN "wait" ELSE "read"])
  /\ UNCHANGED <<mode, store, failed>>

(* Nothing new was read: the driver may have failed; otherwise the change   *)
(* notification or the poll interval starts another turn.                   *)
Gate(c) ==
  /\ call[c].pc = "gate"
  /\ IF ~failed THEN Set(c, [call[c] EXCEPT !.pc = IF call[c].via = "none" THEN "wait" ELSE "read"])
     ELSE IF call[c].via = "none" THEN Done(c, "driver")
     ELSE StreamEnds(c, "driver")
  /\ UNCHANGED <<mode, store, failed>>

(* charge_public_egress of an answer.                                       *)
charge_public_egress(c) ==
  /\ call[c].pc = "charge"
  /\ Done(c, "answered") \/ (quota /\ Done(c, "quota"))
  /\ UNCHANGED <<mode, store, failed>>
-----------------------------------------------------------------------------
(* Streams.                                                                 *)

acquire_quota_stream_lease(c) ==
  /\ call[c].pc = "lease"
  /\ Set(c, [call[c] EXCEPT !.pc = "read"]) \/ (quota /\ Done(c, "quota"))
  /\ UNCHANGED <<mode, store, failed>>

\* Faulty variant: every batch starts at the beginning.
StreamTranscriptBatchAll(m, n) ==
  [frames |-> transcript[m].frames, closed |-> transcript[m].state # "open", cut |-> transcript[m].state = "interrupted"]

(* The frames of message m after the n-th, read in one snapshot.            *)
StreamTranscriptBatch(m, n) ==
  [frames |-> SubSeq(transcript[m].frames, n + 1, Len(transcript[m].frames)),
   closed |-> transcript[m].state # "open", cut |-> transcript[m].state = "interrupted"]

(* The frames that turn revision r into revision r + 1.                     *)
FramesOf(r) ==
  (IF events[r + 1].artifact /\ ~events[r].artifact THEN <<"artifact">> ELSE <<>>)
    \o (IF events[r + 1].state # events[r].state THEN <<events[r + 1].state>> ELSE <<>>)

(* What the revisions after the n-th changed.                               *)
TaskEventBatch(n) ==
  [frames |-> FlattenSeq([i \in 1..(Len(events) - n) |-> FramesOf(n + i - 1)]),
   closed |-> Len(events) > n /\ Task.state \in Terminal, cut |-> FALSE]

\* A turn of a stream that has handed out all it read: it reads the next batch.
Refill(c, batch, cursor) ==
  /\ call[c].pc = "read" /\ call[c].pending = <<>> /\ ~call[c].closed
  /\ Set(c, [call[c] EXCEPT !.pending = batch.frames, !.closed = batch.closed, !.cut = batch.cut, !.cursor = cursor,
                            !.pc = IF batch.frames = <<>> /\ ~batch.closed THEN "gate" ELSE "read"])
  /\ UNCHANGED <<mode, store, failed>>

stream_from_message(c) ==
  call[c].via = "transcript" /\ Refill(c, StreamTranscriptBatch(call[c].msg, call[c].cursor), call[c].cursor)
stream_from_task_revision(c) ==
  call[c].via = "revision" /\ Refill(c, TaskEventBatch(call[c].cursor), Len(events))

(* The caller takes the next frame, which is charged first.                 *)
Emit(c) ==
  /\ call[c].pc = "read" /\ call[c].pending # <<>>
  /\ Set(c, [call[c] EXCEPT !.out = Append(@, Head(call[c].pending)), !.pending = Tail(@),
                            !.cursor = IF call[c].via = "transcript" THEN @ + 1 ELSE @])
  /\ UNCHANGED <<mode, store, failed>>

(* The lease was lost or the egress refused: an error even over REST.       *)
QuotaLeaseFails(c) ==
  /\ quota /\ call[c].pc = "read"
  /\ Done(c, "quota")
  /\ UNCHANGED <<mode, store, failed>>

StreamCloses(c) ==
  /\ call[c].pc = "read" /\ call[c].pending = <<>> /\ call[c].closed
  /\ IF call[c].cut THEN StreamEnds(c, "interrupted") ELSE Done(c, "clean")
  /\ UNCHANGED <<mode, store, failed>>
-----------------------------------------------------------------------------
(* Subscriptions.                                                           *)

Streaming == {m \in Messages : transcript[m].state = "open"}
Told(t, f) == IF f = "artifact" THEN [t EXCEPT !.artifact = TRUE] ELSE [t EXCEPT !.state = f]
Replayed(t, frames) == FoldLeft(Told, t, frames)

(* The task row joined with its open transcript.  SQLite reads the frames   *)
(* in the same turn of its connection; PostgreSQL in a second statement.    *)
subscription_snapshot(c) ==
  /\ call[c].pc = "snapshot"
  /\ IF events = <<>> THEN Done(c, "missing")
     ELSE IF Task.state \in Terminal THEN Done(c, "terminal")
     ELSE IF Streaming = {} THEN
       Set(c, [call[c] EXCEPT !.via = "revision", !.cursor = Len(events), !.start = Len(events),
                              !.told = Task, !.pc = "lease"])
     ELSE LET m == CHOOSE x \in Streaming : TRUE
          IN Set(c, [call[c] EXCEPT !.via = "transcript", !.msg = m, !.pc = IF backend = "sqlite" THEN "lease" ELSE "frames",
                                    !.cursor = Len(transcript[m].frames), !.start = Len(transcript[m].frames),
                                    !.told = Replayed(Task, Tail(transcript[m].frames))])
  /\ UNCHANGED <<mode, store, failed>>

(* PostgreSQL's second statement must count what the first one announced.   *)
subscription_frames(c) ==
  /\ call[c].pc = "frames"
  /\ IF Len(transcript[call[c].msg].frames) = call[c].cursor THEN Set(c, [call[c] EXCEPT !.pc = "lease"])
     ELSE Done(c, "corrupt")
  /\ UNCHANGED <<mode, store, failed>>
-----------------------------------------------------------------------------
(* Cancellation and the driver.                                             *)

Active == {m \in Messages : Open(m)}
\* Message m closes with result s and, if streamed, with these last frames.
Close(m, s, last) ==
  /\ events' = Revised(s)
  /\ record' = [record EXCEPT ![m].result = s]
  /\ transcript' = IF record[m].mode = "send" THEN transcript
                   ELSE [transcript EXCEPT ![m] = [state |-> "terminal", frames |-> @.frames \o last]]

cancel_task(c) ==
  /\ call[c].pc = "cancel"
  /\ IF Task.state \in Terminal \cup {"none"} THEN UNCHANGED store /\ Done(c, "refused")
     ELSE IF Active = {} THEN
       events' = Revised("canceled") /\ UNCHANGED <<record, transcript>> /\ Set(c, [call[c] EXCEPT !.pc = "charge"])
     ELSE LET m == CHOOSE x \in Active : TRUE
          IN IF record[m].received THEN
               /\ record' = [record EXCEPT ![m].cancel = TRUE] /\ UNCHANGED <<events, transcript>>
               /\ Set(c, [call[c] EXCEPT !.pc = "wait", !.msg = m])
             ELSE /\ Close(m, "canceled", <<"canceled">>)
                  /\ Set(c, [call[c] EXCEPT !.pc = "charge", !.msg = m, !.out = <<"canceled">>])
  /\ UNCHANGED <<mode, failed>>

Driving(m) == Open(m) /\ (failed => backend = "postgres")
Progressed(m) == record[m].mode = "stream" => Len(transcript[m].frames) > 1

append_stream_progress(m) ==
  /\ Driving(m) /\ ~Progressed(m)
  /\ transcript' = [transcript EXCEPT ![m].frames = Append(@, "working")]
  /\ UNCHANGED <<mode, events, record, failed, call>>

begin_receive(m) ==
  /\ Driving(m) /\ Progressed(m) /\ ~record[m].received
  /\ record' = [record EXCEPT ![m].received = TRUE]
  /\ UNCHANGED <<mode, events, transcript, failed, call>>

commit_delivery(m) ==
  /\ Driving(m) /\ record[m].received
  /\ \E s \in {"completed", "input"} \cup (IF record[m].cancel THEN {"canceled"} ELSE {}) :
       Close(m, s, IF s = "completed" THEN <<"artifact", s>> ELSE <<s>>)
  /\ UNCHANGED <<mode, failed, call>>

(* The candidate of a message that a person has to ratify is kept aside and *)
(* the message is answered with a paused task.  The frames written so far   *)
(* must begin the transcript of that answer, which has no progress frame: a *)
(* streamed message the driver has reported progress of stops the driver,   *)
(* while a caller of the store that wrote none gets its packet.             *)
Awaiting == <<"task", "input">>
commit_delivery_for_ratification(m) ==
  /\ Driving(m) /\ (record[m].received \/ ~Progressed(m))
  /\ IF record[m].mode = "stream" /\ ~IsPrefix(transcript[m].frames, Awaiting)
     THEN failed' = TRUE /\ UNCHANGED store
     ELSE /\ events' = Revised("input")
          /\ record' = [record EXCEPT ![m].result = "input", ![m].packet = Len(events) + 1]
          /\ transcript' = IF record[m].mode = "send" THEN transcript
                           ELSE [transcript EXCEPT ![m] = [state |-> "terminal", frames |-> Awaiting]]
          /\ UNCHANGED failed
  /\ UNCHANGED <<mode, call>>

(* The decision on a packet whose task has not moved on.  An approval       *)
(* publishes the candidate: it completes the task and replaces the answer   *)
(* and the frames of the message; a rejection only ends the task.           *)
decide_ratification(m) ==
  /\ Task.state = "input" /\ record[m].packet = Len(events)
  /\ \/ /\ events' = Revised("completed")
        /\ record' = [record EXCEPT ![m].result = "completed"]
        /\ transcript' = IF transcript[m].state # "terminal" THEN transcript
                         ELSE [transcript EXCEPT ![m].frames = <<"task", "working", "artifact", "completed">>]
     \/ events' = Revised("rejected") /\ UNCHANGED <<record, transcript>>
  /\ UNCHANGED <<mode, failed, call>>

(* A dispatch that is given up: the task fails, its transcript is cut.      *)
dead_letter(m) ==
  /\ Driving(m) /\ ~record[m].received
  /\ events' = Revised("failed")
  /\ record' = [record EXCEPT ![m].result = "failed"]
  /\ transcript' = IF record[m].mode = "send" THEN transcript ELSE [transcript EXCEPT ![m].state = "interrupted"]
  /\ UNCHANGED <<mode, failed, call>>

DriverFails ==
  /\ ~failed /\ failed' = TRUE
  /\ UNCHANGED <<mode, store, call>>

Turn(c) ==
  \/ Admit(c) \/ wait_for_result(c) \/ Gate(c) \/ charge_public_egress(c)
  \/ acquire_quota_stream_lease(c) \/ stream_from_message(c) \/ stream_from_task_revision(c)
  \/ Emit(c) \/ StreamCloses(c)
  \/ subscription_snapshot(c) \/ subscription_frames(c) \/ cancel_task(c)
Drive(m) ==
  append_stream_progress(m) \/ begin_receive(m) \/ commit_delivery(m) \/ commit_delivery_for_ratification(m) \/ dead_letter(m)
HandlerNext ==
  \/ \E c \in Calls : Request(c) \/ Turn(c) \/ QuotaLeaseFails(c)
  \/ \E m \in Messages : Drive(m) \/ decide_ratification(m)
  \/ DriverFails
\* Callers take their frames, the poll timer fires, and a driver either goes on or fails.
HandlerFairness ==
  /\ \A c \in Calls : WF_hvars(Turn(c))
  /\ \A m \in Messages : WF_hvars(Drive(m))
-----------------------------------------------------------------------------
\* An approval replaces what a message was answered with, and its frames.
Approved(m) == record[m].packet # 0 /\ record[m].result = "completed"
Results(m) == {record[m].result} \cup (IF Approved(m) THEN {"input"} ELSE {})
Transcripts(m) == {transcript[m].frames} \cup (IF Approved(m) THEN {Awaiting} ELSE {})

(* What a message stream has said is exactly what one transcript of the     *)
(* message holds from the stream's start on, and a stream that ends cleanly *)
(* has said all of it: the stored transcript or, of an approved message,    *)
(* the one the approval replaced, never some of each (stream_from_message,  *)
(* decide_ratification; the REST handler may end early without an error).   *)
StreamFaithful ==
  \A c \in Calls :
    LET r == call[c]
    IN r.via = "transcript" /\ r.pc \in {"read", "gate", "done"} =>
         \E frames \in Transcripts(r.msg) :
           /\ IsPrefix(r.out, SubSeq(frames, r.start + 1, Len(frames)))
           /\ r.end = "clean" /\ ~rest => transcript[r.msg].state = "terminal" /\ Len(r.out) = Len(frames) - r.start

(* A subscriber whose stream ended cleanly can rebuild the task that closed *)
(* it from the snapshot and the frames, whatever happened between snapshot, *)
(* lease and tail (subscribe_to_task).                                      *)
SubscriberKnows ==
  \A c \in Calls :
    LET r == call[c]
        known == Replayed(r.told, r.out)
    IN r.kind = "subscribe" /\ r.end = "clean" /\ ~rest =>
         IF r.via = "revision" THEN known = Task ELSE known.state \in Results(r.msg)

(* Everyone who is told how a message ended is told the same: sends and     *)
(* retries, cancellations that waited for it, and the streams' last frames. *)
(* Only an approval changes it, from awaiting a decision to completed.      *)
SameOutcome ==
  \A c \in Calls :
    LET r == call[c]
    IN /\ r.end = "answered" /\ r.out # <<>> => r.out[1] \in Results(r.msg)
       /\ r.via = "transcript" /\ r.end = "clean" /\ ~rest /\ r.out # <<>> => Last(r.out) \in Results(r.msg)

(* What callers are told is faithful, on streams, to subscribers and in     *)
(* answers.                                                                 *)
AnswersFaithful == StreamFaithful /\ SubscriberKnows /\ SameOutcome

(* Every send, stream and cancellation returns: with its answer, or because *)
(* the driver failed; so does a subscription whose task has ended.          *)
CallsReturn ==
  \A c \in Calls :
    /\ (call[c].kind \in {"send", "immediate", "stream", "cancel"}) ~> (call[c].pc = "done")
    /\ (call[c].kind = "subscribe" /\ Task.state \in Terminal) ~> (call[c].pc = "done")
=============================================================================
