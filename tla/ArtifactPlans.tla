---------------------------- MODULE ArtifactPlans ----------------------------
(* The two operator commands that build artifact rows while the gateway is    *)
(* down: restore of a sealed backup into an empty store                       *)
(* (src/artifact_restore_executor.rs) and migration of bodies kept inline in  *)
(* task rows (src/artifact_migration_executor.rs).  Each keeps a journal row  *)
(* with a lease, may die at any step and is run again; two operators may run  *)
(* the same command.  A SQL transaction is one step.                          *)
EXTENDS Integers, Sequences, FiniteSets

CONSTANTS
  Operators,  \* processes that run the command
  Inventory,  \* the entries of the backup, in order
  Rows,       \* task, event and transcript rows that hold inline bodies
  BodyOf,     \* row -> the artifact whose body it holds
  Lease,      \* duration of the journal lease (300 s restore, 60 s migration)
  SweepAge,   \* age beyond which the sweeper takes an unregistered stage file
  PlanTime,   \* bound on the clock
  MaxFaults   \* bound on crashes, damage and foreign writes

VARIABLES
  command,  \* "restore" or "migrate"
  clock, faults,
  journal,  \* artifact_restore_jobs or artifact_migration_plans row
  op,       \* operator -> where it is, with what it holds
  archive,  \* what is intact in the backup: its inventory, its entries
  target,   \* restored rows, restored files, references active, foreign rows
  inline,   \* rows that still hold their body
  stage,    \* operator, artifact -> when the stage file was written
  uploaded  \* artifact -> operator whose stage is registered

planVars == <<command, clock, faults, journal, op, archive, target, inline, stage, uploaded>>

Entries   == {Inventory[i] : i \in 1..Len(Inventory)}
Bodies    == {BodyOf[r] : r \in Rows}
NoStage   == -1
Nobody    == "nobody"
AtRest    == [pc |-> "idle", epoch |-> 0, next |-> 1, seen |-> {}]

ASSUME PlanConstants ==
  /\ {Lease, SweepAge, PlanTime, MaxFaults} \subseteq Nat /\ Lease <= SweepAge
  /\ IsFiniteSet(Operators) /\ IsFiniteSet(Rows) /\ DOMAIN BodyOf = Rows

PlanInit ==
  /\ command \in {"restore", "migrate"} /\ clock = 0 /\ faults = 0
  /\ journal = [state |-> "none", owner |-> Nobody, epoch |-> 0, until |-> 0]
  /\ op = [o \in Operators |-> AtRest]
  /\ archive = Entries \cup {"inventory"}
  /\ target = [rows |-> {}, files |-> {}, active |-> FALSE, foreign |-> FALSE]
  /\ inline = Rows
  /\ stage = [o \in Operators, b \in Bodies |-> NoStage]
  /\ uploaded = [b \in Bodies |-> Nobody]

Restoring(o) == command = "restore" /\ op[o].pc # "idle"
PlanGoto(o, pc)  == op' = [op EXCEPT ![o].pc = pc]
Quit(o)      == op' = [op EXCEPT ![o] = AtRest]
PlanFenced(o) == journal.epoch = op[o].epoch /\ journal.until > clock
Fault        == faults < MaxFaults /\ faults' = faults + 1

-----------------------------------------------------------------------------
(* Restore.                                                                  *)

(* validate_inventory_header, expand_shared_rows and                          *)
(* validate_inventory_entries: every entry of the document agrees with the    *)
(* rows it shares, with its digest and its signature.                         *)
InventoryValid == "inventory" \in archive

(* assert_target_empty_or_resume: an empty target, or no more rows than this  *)
(* restore left behind.                                                       *)
TargetResumable ==
  /\ journal.state = "none" \/ journal.state = "restoring"
  /\ journal.state = "none" => target.rows = {}
  /\ ~target.foreign

(* execute until the journal: the document is validated, the session lock     *)
(* admits one restore, the target must be fit and every ciphertext is         *)
(* authenticated; a failed test ends the command before anything is written.  *)
authenticate(o) ==
  /\ command = "restore" /\ op[o] = AtRest /\ ~\E p \in Operators : Restoring(p)
  /\ InventoryValid /\ TargetResumable /\ Entries \subseteq archive
  /\ PlanGoto(o, "authenticated")
  /\ UNCHANGED <<command, clock, faults, journal, archive, target, inline, stage, uploaded>>

(* commit_restore_journal: inserted, or taken over by a new token and epoch,  *)
(* since every run of a plan has the same owner; not over foreign rows.       *)
commit_restore_journal(o) ==
  /\ Restoring(o) /\ op[o].pc = "authenticated"
  /\ IF target.foreign
     THEN Quit(o) /\ UNCHANGED journal
     ELSE /\ journal' = [state |-> "restoring", owner |-> "plan", epoch |-> journal.epoch + 1, until |-> clock + Lease]
          /\ op' = [op EXCEPT ![o].pc = "importing", ![o].epoch = journal.epoch + 1]
  /\ UNCHANGED <<command, clock, faults, archive, target, inline, stage, uploaded>>

(* The batch transaction: renew_restore_lease, then the rows of the next      *)
(* entry are imported in their hidden states.                                 *)
import_entry(o) ==
  /\ Restoring(o) /\ op[o].pc = "importing" /\ op[o].next <= Len(Inventory)
  /\ IF PlanFenced(o)
     THEN /\ journal' = [journal EXCEPT !.until = clock + Lease]
          /\ target' = [target EXCEPT !.rows = @ \cup {Inventory[op[o].next]}]
          /\ PlanGoto(o, "copying")
     ELSE Quit(o) /\ UNCHANGED <<journal, target>>
  /\ UNCHANGED <<command, clock, faults, archive, inline, stage, uploaded>>

(* backup_verified and read_resolution: the ciphertext is copied and read     *)
(* back; damage since the authentication ends the command.                    *)
copy_entry(o) ==
  /\ Restoring(o) /\ op[o].pc = "copying"
  /\ LET e == Inventory[op[o].next] IN
     IF e \in archive
     THEN /\ target' = [target EXCEPT !.files = @ \cup {e}]
          /\ op' = [op EXCEPT ![o].pc = "importing", ![o].next = @ + 1]
     ELSE Quit(o) /\ UNCHANGED target
  /\ UNCHANGED <<command, clock, faults, journal, archive, inline, stage, uploaded>>

(* atomic_enable, after the provenance batches: token and lease still hold    *)
(* and the totals of the store are exactly those of the inventory.            *)
atomic_enable(o) ==
  /\ Restoring(o) /\ op[o].pc = "importing" /\ op[o].next > Len(Inventory)
  /\ IF PlanFenced(o) /\ target.rows = Entries /\ ~target.foreign
     THEN /\ target' = [target EXCEPT !.active = TRUE]
          /\ journal' = [journal EXCEPT !.state = "enabled"]
     ELSE UNCHANGED <<target, journal>>
  /\ Quit(o)
  /\ UNCHANGED <<command, clock, faults, archive, inline, stage, uploaded>>

(* Faults of a restore: the backup medium loses an entry; a gateway that was  *)
(* open before the journal existed writes a row of its own.                   *)
restore_fault ==
  /\ command = "restore" /\ Fault /\ ~target.active
  /\ \/ \E e \in archive : archive' = archive \ {e} /\ UNCHANGED target
     \/ ~target.foreign /\ target' = [target EXCEPT !.foreign = TRUE] /\ UNCHANGED archive
  /\ UNCHANGED <<command, clock, journal, op, inline, stage, uploaded>>

-----------------------------------------------------------------------------
(* Migration of inline bodies.                                               *)

(* scan_rows and group_artifacts: the rows that hold a body now, read without *)
(* a lock; a completed plan is only verified.                                 *)
scan_rows(o) ==
  /\ command = "migrate" /\ op[o].pc \in {"idle", "scanning"} /\ journal.state # "completed"
  /\ op' = [op EXCEPT ![o].pc = IF inline = {} /\ op[o].pc = "scanning" THEN "completing" ELSE "scanned",
                      ![o].seen = inline]
  /\ UNCHANGED <<command, clock, faults, journal, archive, target, inline, stage, uploaded>>

(* A pending plan, an expired lease or the operator's own.                    *)
Leasable(o) ==
  journal.state = "none" \/ (journal.state = "processing" /\ (journal.until <= clock \/ journal.owner = o))

(* acquire_lease: the plan row is inserted if need be and leased.             *)
acquire_lease(o) ==
  /\ command = "migrate" /\ op[o].pc = "scanned"
  /\ IF Leasable(o)
     THEN /\ journal' = [state |-> "processing", owner |-> o, epoch |-> journal.epoch + 1, until |-> clock + Lease]
          /\ op' = [op EXCEPT ![o].pc = IF op[o].seen = {} THEN "completing" ELSE "leased",
                              ![o].epoch = journal.epoch + 1]
     ELSE Quit(o) /\ UNCHANGED journal
  /\ UNCHANGED <<command, clock, faults, archive, target, inline, stage, uploaded>>

(* The batch is the first body the scan saw.                                  *)
Batch(o) == CHOOSE b \in Bodies : \E r \in op[o].seen : BodyOf[r] = b

(* prepare_artifact: the body is encrypted into a new stage file.             *)
prepare_artifact(o) ==
  /\ command = "migrate" /\ op[o].pc = "leased"
  /\ stage' = [stage EXCEPT ![o, Batch(o)] = clock]
  /\ PlanGoto(o, "prepared")
  /\ UNCHANGED <<command, clock, faults, journal, archive, target, inline, uploaded>>

(* The fence of the batch without its lease.                                  *)
BatchFencedLoose(o) == journal.state = "processing" /\ journal.owner = o /\ journal.epoch = op[o].epoch

(* The fence of the batch: state, owner, token, epoch and unexpired lease.    *)
BatchFenced(o) == journal.state = "processing" /\ journal.owner = o /\ PlanFenced(o)

(* commit_batch: under the fence the stage is registered, which must not find *)
(* another one, and every row the scan saw is rewritten if it is unchanged.   *)
commit_batch(o) ==
  /\ command = "migrate" /\ op[o].pc = "prepared"
  /\ LET body == Batch(o)
         affected == {r \in op[o].seen : BodyOf[r] = body}
     IN IF BatchFenced(o) /\ uploaded[body] \in {Nobody, o} /\ affected \subseteq inline
        THEN /\ uploaded' = [uploaded EXCEPT ![body] = o]
             /\ inline' = inline \ affected
             /\ journal' = [journal EXCEPT !.until = clock + Lease]
             /\ PlanGoto(o, "scanning")
        ELSE Quit(o) /\ UNCHANGED <<uploaded, inline, journal>>
  /\ UNCHANGED <<command, clock, faults, archive, target, stage>>

(* complete_plan: fenced like a batch, after a rescan of every durable row.   *)
complete_plan(o) ==
  /\ command = "migrate" /\ op[o].pc = "completing"
  /\ journal' = IF BatchFenced(o) /\ inline = {} THEN [journal EXCEPT !.state = "completed"] ELSE journal
  /\ Quit(o)
  /\ UNCHANGED <<command, clock, faults, archive, target, inline, stage, uploaded>>

(* The orphan scanner of another process removes an old unregistered stage.   *)
sweep_stage ==
  /\ command = "migrate"
  /\ \E o \in Operators, b \in Bodies :
       /\ stage[o, b] # NoStage /\ stage[o, b] < clock - SweepAge /\ uploaded[b] # o
       /\ stage' = [stage EXCEPT ![o, b] = NoStage]
  /\ UNCHANGED <<command, clock, faults, journal, op, archive, target, inline, uploaded>>

-----------------------------------------------------------------------------
plan_crash(o) ==
  /\ op[o] # AtRest /\ Fault /\ Quit(o)
  /\ UNCHANGED <<command, clock, journal, archive, target, inline, stage, uploaded>>

plan_tick ==
  /\ clock < PlanTime /\ clock' = clock + 1
  /\ UNCHANGED <<command, faults, journal, op, archive, target, inline, stage, uploaded>>

Step(o) ==
  \/ authenticate(o) \/ commit_restore_journal(o) \/ import_entry(o) \/ copy_entry(o) \/ atomic_enable(o)
  \/ scan_rows(o) \/ acquire_lease(o) \/ prepare_artifact(o) \/ commit_batch(o) \/ complete_plan(o)

PlanNext == (\E o \in Operators : Step(o) \/ plan_crash(o)) \/ restore_fault \/ sweep_stage \/ plan_tick

-----------------------------------------------------------------------------
(* After crashes, take-overs and a damaged backup: references become active   *)
(* only when every row and every ciphertext of the inventory is in place and  *)
(* nothing else is in the store.                                              *)
RestoredWhole == target.active => target.rows = Entries /\ target.files = Entries /\ ~target.foreign

(* No body is lost on its way out of the rows: each is still inline, or its   *)
(* registered stage file exists, though the sweeper runs beside the command   *)
(* and a slow operator may commit after another one took over.                *)
BodyKept ==
  \A r \in Rows : r \in inline \/ (uploaded[BodyOf[r]] # Nobody /\ stage[uploaded[BodyOf[r]], BodyOf[r]] # NoStage)

(* Neither command loses content on the way.                                  *)
PlansKeepContent == RestoredWhole /\ BodyKept
=============================================================================
