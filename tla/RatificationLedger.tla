-------------------------- MODULE RatificationLedger --------------------------
(* The stand-alone ratification ledger of src/ratification.rs: a SQLite file  *)
(* of packets, receipts, roots and heads.  A call reads the packet and the    *)
(* history under separate locks and appends its receipt in a transaction of   *)
(* its own, so calls of several accounts interleave between those steps.      *)
(* Hashes, seals and the key are abstracted to what they cover: the sealed    *)
(* metadata row keeps the counts and the content it was computed from.        *)
EXTENDS Integers, Sequences, SequencesExt, FiniteSets

CONSTANTS
  Callers,        \* human accounts of the tenant
  CallKeys,       \* idempotency keys
  Revisions,      \* expected revisions a command may carry
  MaxGenerations, \* bound on the generations of the task
  LedgerLimit     \* LEDGER_RETAINED_AUTHORITY_LIMIT, in packets and receipts

VARIABLES
  ledger,   \* the receipts of each generation of the task
  sealed,   \* the ratification_metadata row
  calls     \* the command each account has in flight

lvars == <<ledger, sealed, calls>>

LedgerOps == {"review", "approve", "reject", "amend"}
NoCall == [pc |-> "idle"]
Decision(op) == op # "review"

(* Every row is counted and enters the state hash; each generation has one    *)
(* packet and one root, and a head once it has a receipt.                     *)
compute_ledger_state(l) ==
  LET receipts == FlattenSeq(l) IN
  [packets |-> Len(l), roots |-> Len(l), events |-> Len(receipts),
   heads |-> Cardinality({g \in DOMAIN l : l[g] # <<>>}),
   retained |-> Len(l) + Len(receipts), content |-> l]

LedgerInit ==
  /\ ledger = <<>> /\ sealed = compute_ledger_state(<<>>)
  /\ calls = [c \in Callers |-> NoCall]

(* The new rows are committed with the state sealed over them, or, beyond the *)
(* retained limit, not at all.                                                *)
WithinLimit(l) == compute_ledger_state(l).retained <= LedgerLimit
write_ledger_state(l) == ledger' = l /\ sealed' = compute_ledger_state(l)

(* What is stored is what the metadata row was sealed over.                   *)
validate_ledger_state == sealed = compute_ledger_state(ledger) /\ WithinLimit(ledger)

(* A history the ledger accepts as the one before the next generation.        *)
EndsInAmendment(g) == Len(ledger[g]) = 2 /\ Last(ledger[g]).op = "amend"

(* Every transaction and every read validates the whole file first.           *)
authenticate_all_connection ==
  validate_ledger_state /\ \A g \in 1..Len(ledger) - 1 : EndsInAmendment(g)

(* The generation after the last one; freezing an existing generation again   *)
(* changes nothing.                                                           *)
freeze_packet ==
  /\ authenticate_all_connection
  /\ Len(ledger) < MaxGenerations
  /\ ledger # <<>> => EndsInAmendment(Len(ledger))
  /\ WithinLimit(Append(ledger, <<>>))
  /\ write_ledger_state(Append(ledger, <<>>))
  /\ UNCHANGED calls

(* A command names a generation the account has seen.                         *)
Command(c, op, key, g, revision) ==
  /\ calls[c].pc = "idle"
  /\ calls' = [calls EXCEPT ![c] = [pc |-> "packet", op |-> op, key |-> key, generation |-> g,
                                    expected |-> revision]]
  /\ UNCHANGED <<ledger, sealed>>

Return(c) == calls' = [calls EXCEPT ![c] = NoCall]

decision_command_matches_packet(c) == calls[c].generation = Len(ledger)

(* The first read: the latest packet must be the one the command names.       *)
packet(c) ==
  /\ calls[c].pc = "packet"
  /\ IF authenticate_all_connection /\ decision_command_matches_packet(c)
     THEN calls' = [calls EXCEPT ![c].pc = IF Decision(calls[c].op) THEN "history" ELSE "append"]
     ELSE Return(c)
  /\ UNCHANGED <<ledger, sealed>>

(* The second read, of a decision: the latest history must end in a review of *)
(* the same account, or in a decision under the same key.                     *)
MayDecide(c, history) ==
  /\ history # <<>>
  /\ IF Decision(Last(history).op) THEN Last(history).key = calls[c].key
                                   ELSE Last(history).account = c
decide(c) ==
  /\ calls[c].pc = "history"
  /\ IF authenticate_all_connection /\ MayDecide(c, ledger[Len(ledger)])
     THEN calls' = [calls EXCEPT ![c].pc = "append"]
     ELSE Return(c)
  /\ UNCHANGED <<ledger, sealed>>

ReceiptOf(c) == [op |-> calls[c].op, account |-> c, key |-> calls[c].key,
                 generation |-> calls[c].generation]
Replays(c) == {r \in UNION {ToSet(ledger[g]) : g \in DOMAIN ledger} :
                 r.account = c /\ r.key = calls[c].key}

RevisionUnchecked(c) == TRUE
RevisionExpected(c) ==
  LET current == Len(ledger[calls[c].generation]) IN
  current = calls[c].expected /\ (~Decision(calls[c].op) => current = 0)

(* The transaction: an earlier receipt under the key is the answer when it    *)
(* says the same and a conflict otherwise; a new one needs the revision.      *)
append_receipt(c) ==
  /\ calls[c].pc = "append"
  /\ Return(c)
  /\ LET appended == [ledger EXCEPT ![calls[c].generation] = Append(@, ReceiptOf(c))] IN
     IF /\ authenticate_all_connection /\ Replays(c) = {} /\ RevisionExpected(c)
        /\ WithinLimit(appended)
     THEN write_ledger_state(appended)
     ELSE UNCHANGED <<ledger, sealed>>

(* The process ends and opens the file again: open validates every record.    *)
open ==
  /\ \E c \in Callers : calls[c] # NoCall
  /\ authenticate_all_connection
  /\ calls' = [c \in Callers |-> NoCall]
  /\ UNCHANGED <<ledger, sealed>>

LedgerNext ==
  \/ freeze_packet
  \/ \E c \in Callers :
       \/ \E op \in LedgerOps, key \in CallKeys, g \in DOMAIN ledger, revision \in Revisions :
            Command(c, op, key, g, revision)
       \/ packet(c) \/ decide(c) \/ append_receipt(c)
  \/ open

(* Whatever the calls in flight and their stale reads, the history of a       *)
(* generation is a review and then a decision of the same account, no key of  *)
(* an account is used twice, and the file is within its limit and sealed over *)
(* what it holds.  decide lets an account through that repeats the key of the *)
(* last decision: under the next revision its receipt is a further decision,  *)
(* not the replay, and nothing else follows the first one.  Such a receipt on *)
(* a generation that has a successor is all that makes the file one that the  *)
(* next transaction, read and open refuse.                                    *)
ReviewThenDecision ==
  /\ validate_ledger_state
  /\ \A g \in DOMAIN ledger : LET h == ledger[g] IN
       /\ Len(h) >= 1 => h[1].op = "review"
       /\ Len(h) >= 2 => h[2].account = h[1].account
       /\ \A i \in 2..Len(h) : Decision(h[i].op)
       /\ g < Len(ledger) => EndsInAmendment(g) \/ Len(h) > 2
  /\ LET all == FlattenSeq(ledger) IN
     \A i, j \in DOMAIN all : all[i].account = all[j].account /\ all[i].key = all[j].key => i = j
=============================================================================
