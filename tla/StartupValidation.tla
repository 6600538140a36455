-------------------------- MODULE StartupValidation --------------------------
(***************************************************************************)
(* What opening a store demands of the dispatches it finds: the validators *)
(* that open_database (sqlite_store.rs) and PostgresDurableAuthority::open *)
(* (postgres_store.rs) run before anything else is served.  A row they     *)
(* refuse makes the whole store InvalidSchema.  Digests, sizes, identities *)
(* and the event chain, which each transaction writes together with the    *)
(* task row, are left out.                                                 *)
(***************************************************************************)
EXTENDS DurableAuthority

(* SQLite, validate_atomic_records: a message has a record, the dispatch   *)
(* follows an event of its task, and the attempt rows account for every    *)
(* attempt; the only open one is the current lease.                        *)
RecordValid(d) == idem[d] \in TaskStates \cup {"in_progress"}
OutboxValid(d) ==
    /\ cause[d] \in 1 .. revision[d[1]]
    /\ attempts[d] <= MaxAttempts
AttemptsValid(d) ==
    /\ attempts[d] = Len(log[d].tokens)
    /\ log[d].open = IF outbox[d] = "leased" THEN {attempts[d]} ELSE {}
    /\ \A n \in log[d].open : log[d].tokens[n] = senderGen[d]

(* SQLite, validate_receiver_records: a row is sealed exactly if it is     *)
(* completed, and a sender has been granted to it.                         *)
ReceiverValid(d) ==
    /\ recv[d] # "absent" => epoch[d] > 0
    /\ result[d] # "none" <=> recv[d] = "completed"

(* SQLite, validate_stream_records: the transcript agrees with the record  *)
(* and the outbox row of its message.                                      *)
StreamValid(d) ==
    /\ stream[d] \in OpenStream =>
         idem[d] = "in_progress" /\ outbox[d] \in {"pending", "leased"}
    /\ stream[d] = "terminal" =>
         idem[d] \in TaskStates /\ outbox[d] \in {"delivered", "superseded"}
    /\ stream[d] = "interrupted" =>
         idem[d] \in TaskStates /\ outbox[d] \in {"dead", "superseded"}

(* SQLite, validate_cancellation_records.                                  *)
CancellationValid(d) ==
    Sqlite =>
      /\ intent[d] = "requested" =>
           /\ recv[d] = "processing"
           /\ ~ IsTerminal(taskState[d[1]])
           /\ outbox[d] \in {"pending", "leased"}
      /\ intent[d] = "receiver_canceled" =>
           recv[d] = "completed" /\ outbox[d] \in {"leased", "delivered"}

(* PostgreSQL, validate_semantics: the sender a receiver row is bound to   *)
(* is one of the logged attempts, under the token that attempt last had.   *)
ReceiverFenceValid(d) ==
    recv[d] # "absent" =>
      /\ recvAttempt[d] \in DOMAIN log[d].tokens
      /\ log[d].tokens[recvAttempt[d]] = recvSender[d]

RecordsValid(d) ==
    IF Sqlite
    THEN /\ RecordValid(d) /\ OutboxValid(d) /\ AttemptsValid(d)
         /\ ReceiverValid(d) /\ StreamValid(d)
    ELSE ReceiverFenceValid(d)

StoreReadable ==
    \A d \in Dispatches : outbox[d] # "absent" => RecordsValid(d) /\ CancellationValid(d)

=============================================================================
