-------------------------- MODULE ArtifactOperators --------------------------
(* The operator commands that run beside the artifact authority: rotation of  *)
(* the key generation with re-encryption of every object                      *)
(* (src/artifact_reencryption_executor.rs) and backup of the pinned content   *)
(* (src/artifact_backup_executor.rs).                                         *)
EXTENDS Artifacts

CONSTANTS
  Rollback,    \* time the old ciphertext is kept after a swap
  KeyHorizon   \* time a sealed backup needs its keys (30 days in the code)

VARIABLES
  keys,     \* generation -> state of its artifact_key_generations row
  backup    \* the artifact_backup_jobs row with its inventory and copies

ops  == <<keys, backup>>
vars == <<envs, files, rows, read, work, ops>>

ASSUME OperatorConstants == {Rollback, KeyHorizon} \subseteq Nat

Init ==
  /\ AuthorityInit
  /\ keys = [old |-> "active", new |-> "none"]
  /\ backup = [state |-> "none", epoch |-> 0, until |-> 0, at |-> "none", key |-> "none", copied |-> {}, required |-> 0]

Rotating(w) == work[w].kind = "rotate"
Backing(w)  == work[w].kind = "backup"
Fenced(r, w) == r.epoch = work[w].epoch /\ r.until > now
Goto(w, pc) == work' = [work EXCEPT ![w].pc = pc]
Leave(w)    == work' = [work EXCEPT ![w] = Idle]

-----------------------------------------------------------------------------
(* Key rotation.                                                             *)

(* execute, first part: the session lock of the domain admits one rotation;   *)
(* the old generation becomes decrypt-only and the object gets its job.       *)
begin_rotation(w) ==
  /\ "rotate" \in asked /\ work[w] = Idle /\ ~\E v \in Workers : Rotating(v)
  /\ \/ /\ object.state \notin {"none", "deleted"} /\ object.key = "old"
        /\ keys' = [old |-> IF keys.old = "active" THEN "retiring" ELSE keys.old, new |-> "active"]
        /\ rekey' = IF rekey.state # "none" THEN rekey
                    ELSE [rekey EXCEPT !.state = "pending", !.epoch = 1, !.from = object.at]
     \/ /\ object.key = "new"
        /\ UNCHANGED <<keys, rekey>>
  /\ work' = [work EXCEPT ![w] = [kind |-> "rotate", pc |-> "claiming", epoch |-> 0, at |-> "none"]]
  /\ UNCHANGED <<envs, files, object, upload, ref, hold, pin, gcjob, orphan, read, backup>>

(* claim_artifact_reencryption: a due job is leased in the state it is in, or *)
(* failed when its attempts are used up; nothing due ends the loop.           *)
claim_artifact_reencryption(w) ==
  /\ Rotating(w) /\ work[w].pc = "claiming"
  /\ LET due == /\ rekey.state \in {"pending", "leased", "staged", "promoted", "swapped", "cleanup"}
                /\ rekey.state = "pending" \/ rekey.until <= now
     IN \/ /\ due /\ rekey.epoch <= MaxAttempts
           /\ rekey' = [rekey EXCEPT !.state = IF @ = "pending" THEN "leased" ELSE @,
                                     !.epoch = @ + 1, !.until = now + WorkLease]
           /\ work' = [work EXCEPT ![w].pc = "job", ![w].epoch = rekey.epoch + 1]
        \/ /\ due /\ rekey.epoch > MaxAttempts
           /\ rekey' = [rekey EXCEPT !.state = "failed"] /\ Goto(w, "cleaning")
        \/ /\ ~due /\ Goto(w, "cleaning") /\ UNCHANGED rekey
  /\ UNCHANGED <<envs, files, object, upload, ref, hold, pin, gcjob, orphan, read, ops>>

(* reencrypt_verified: the current blob is read and written to a new stage    *)
(* file; a missing blob ends the command and leaves the job leased.           *)
reencrypt_verified(w) ==
  /\ Rotating(w) /\ work[w].pc = "job" /\ rekey.state = "leased"
  /\ \/ /\ object.at \in blobs
        /\ \E l \in Rekeyed :
             /\ stages[l] = NoFile /\ l \notin blobs /\ orphan[l].state = "none"
             /\ stages' = [stages EXCEPT ![l] = now]
             /\ work' = [work EXCEPT ![w].pc = "staging", ![w].at = l]
     \/ object.at \notin blobs /\ Leave(w) /\ UNCHANGED stages
  /\ UNCHANGED <<envs, blobs, rows, read, ops>>

(* The registration of the stage without the test of the lease.               *)
register_rekeyed_late(w) ==
  /\ Rotating(w) /\ work[w].pc = "staging"
  /\ IF rekey.state = "leased" /\ rekey.epoch = work[w].epoch
     THEN rekey' = [rekey EXCEPT !.state = "staged", !.to = work[w].at] /\ Goto(w, "job")
     ELSE Leave(w) /\ UNCHANGED rekey
  /\ UNCHANGED <<envs, files, object, upload, ref, hold, pin, gcjob, orphan, read, ops>>

(* The stage is registered in the job, under its lease.                       *)
register_rekeyed(w) ==
  /\ Rotating(w) /\ work[w].pc = "staging"
  /\ IF rekey.state = "leased" /\ Fenced(rekey, w)
     THEN rekey' = [rekey EXCEPT !.state = "staged", !.to = work[w].at] /\ Goto(w, "job")
     ELSE Leave(w) /\ UNCHANGED rekey
  /\ UNCHANGED <<envs, files, object, upload, ref, hold, pin, gcjob, orphan, read, ops>>

(* promote_reencrypted: done when the final file is there already, otherwise  *)
(* link and unlink; without either file the job fails.                        *)
promote_reencrypted(w) ==
  /\ Rotating(w) /\ work[w].pc = "job" /\ rekey.state = "staged"
  /\ IF rekey.to \in blobs \/ stages[rekey.to] # NoFile
     THEN /\ blobs' = blobs \cup {rekey.to}
          /\ stages' = [stages EXCEPT ![rekey.to] = NoFile]
          /\ Goto(w, "promoted") /\ UNCHANGED rekey
     ELSE /\ rekey' = [rekey EXCEPT !.state = "failed"] /\ Leave(w) /\ UNCHANGED files
  /\ UNCHANGED <<envs, object, upload, ref, hold, pin, gcjob, orphan, read, ops>>

ack_rekeyed(w) ==
  /\ Rotating(w) /\ work[w].pc = "promoted"
  /\ IF rekey.state = "staged" /\ Fenced(rekey, w)
     THEN rekey' = [rekey EXCEPT !.state = "promoted"] /\ Goto(w, "job")
     ELSE Leave(w) /\ UNCHANGED rekey
  /\ UNCHANGED <<envs, files, object, upload, ref, hold, pin, gcjob, orphan, read, ops>>

(* The file in the new key can be read and opened.                            *)
verify_reencrypted == rekey.to \in blobs

(* The swap of the metadata after the verification: fenced by the lease and   *)
(* by the generation and locator the job was made for, and refused by a pin.  *)
swap_object(w) ==
  /\ Rotating(w) /\ work[w].pc = "job" /\ rekey.state = "promoted"
  /\ IF ~verify_reencrypted
     THEN rekey' = [rekey EXCEPT !.state = "failed"] /\ Leave(w) /\ UNCHANGED object
     ELSE IF Fenced(rekey, w) /\ object.key = "old" /\ object.at = rekey.from /\ ~Pinned
     THEN /\ object' = [object EXCEPT !.at = rekey.to, !.key = "new"]
          /\ rekey' = [rekey EXCEPT !.state = "swapped", !.rollback = now + Rollback]
          /\ Goto(w, "claiming")
     ELSE Leave(w) /\ UNCHANGED <<object, rekey>>
  /\ UNCHANGED <<envs, files, upload, ref, hold, pin, gcjob, orphan, read, ops>>

(* A job claimed after its swap has nothing left to do in this loop.          *)
already_swapped(w) ==
  /\ Rotating(w) /\ work[w].pc = "job" /\ rekey.state \in {"swapped", "cleanup"}
  /\ Goto(w, "claiming")
  /\ UNCHANGED <<envs, files, rows, read, ops>>

(* The jobs of the clean-up query.                                            *)
Cleanable ==
  /\ rekey.state \in {"swapped", "cleanup"} /\ rekey.rollback <= now
  /\ object.key = "new" /\ object.at = rekey.to
  /\ ~Pinned /\ ~ReadLeased

(* The clean-up: the old file is deleted inside the transaction that locks    *)
(* the object and completes the job; the process may die before the commit.   *)
cleanup_rekeyed(w) ==
  /\ Rotating(w) /\ work[w].pc = "cleaning"
  /\ IF Cleanable
     THEN /\ blobs' = blobs \ {rekey.from}
          /\ \/ rekey' = [rekey EXCEPT !.state = "completed"] /\ Goto(w, "closing") /\ UNCHANGED crashes
             \/ /\ "crash" \in asked /\ crashes < MaxCrashes /\ crashes' = crashes + 1
                /\ Leave(w) /\ UNCHANGED rekey
     ELSE Goto(w, "closing") /\ UNCHANGED <<blobs, rekey, crashes>>
  /\ UNCHANGED <<asked, now, stages, object, upload, ref, hold, pin, gcjob, orphan, read, ops>>

(* Retirement that ignores sealed backups.                                    *)
RetirableAlways == keys.old = "retiring"

(* An unexpired sealed backup keeps the generation it was encrypted with.     *)
Retirable == keys.old = "retiring" /\ ~(backup.state = "sealed" /\ backup.key = "old" /\ backup.required > now)

(* The last part: with no job left the old generation is retired.             *)
close_rotation(w) ==
  /\ Rotating(w) /\ work[w].pc = "closing"
  /\ keys' = IF rekey.state = "completed" /\ Retirable THEN [keys EXCEPT !.old = "retired"] ELSE keys
  /\ Leave(w)
  /\ UNCHANGED <<envs, files, rows, read, backup>>

-----------------------------------------------------------------------------
(* Backup.                                                                   *)

(* acquire_backup_pins: the inventory is written by the first attempt only; a *)
(* later one takes the job over and pins the object if it is still there.     *)
acquire_backup_pins(w) ==
  /\ "backup" \in asked /\ work[w] = Idle /\ backup.state # "sealed"
  /\ backup.state = "none" => object.state = "available"
  /\ backup.epoch <= MaxAttempts
  /\ LET entry == IF backup.state = "none" THEN [at |-> object.at, key |-> object.key]
                  ELSE [at |-> backup.at, key |-> backup.key]
     IN backup' = [backup EXCEPT !.state = "inventory", !.epoch = @ + 1, !.until = now + WorkLease,
                                 !.at = entry.at, !.key = entry.key]
  /\ pin' = IF object.state = "available" /\ object.retain >= now
            THEN [state |-> "active", epoch |-> backup.epoch + 1, until |-> now + WorkLease] ELSE pin
  /\ work' = [work EXCEPT ![w] = [kind |-> "backup", pc |-> "renewing", epoch |-> backup.epoch + 1, at |-> "none"]]
  /\ UNCHANGED <<envs, files, object, upload, ref, hold, gcjob, orphan, rekey, read, keys>>

(* What renew_backup_pins demands of the job and the pin.                     *)
StillPinned(w) == /\ backup.state = "inventory" /\ Fenced(backup, w)
                  /\ Live(pin) /\ pin.epoch = work[w].epoch

renew_backup_pins(w) ==
  /\ Backing(w) /\ work[w].pc = "renewing"
  /\ IF StillPinned(w)
     THEN /\ pin' = [pin EXCEPT !.until = now + WorkLease]
          /\ backup' = [backup EXCEPT !.until = now + WorkLease]
          /\ Goto(w, "copying")
     ELSE Goto(w, "failing") /\ UNCHANGED <<pin, backup>>
  /\ UNCHANGED <<envs, files, object, upload, ref, hold, gcjob, orphan, rekey, read, keys>>

(* The blob is read and copied; an equal copy that is there already will do.  *)
backup_verified ==
  /\ backup.at \in blobs
  /\ backup' = [backup EXCEPT !.copied = @ \cup {backup.at}]

(* copy_pinned_snapshot copies what the inventory names.                      *)
copy_pinned_snapshot(w) ==
  /\ Backing(w) /\ work[w].pc = "copying"
  /\ \/ backup_verified /\ Goto(w, "sealing")
     \/ backup.at \notin blobs /\ Goto(w, "failing") /\ UNCHANGED backup
  /\ UNCHANGED <<envs, files, rows, read, keys>>

(* finish_backup: a success seals the job under its lease and records the key *)
(* dependency; a failure is recorded under the token; either unpins.          *)
finish_backup(w) ==
  /\ Backing(w) /\ work[w].pc \in {"sealing", "failing"}
  /\ LET ours == backup.state = "inventory" /\ backup.epoch = work[w].epoch
         seal == work[w].pc = "sealing" /\ ours /\ backup.until > now
         fail == work[w].pc = "failing" /\ ours
     IN /\ backup' = IF seal THEN [backup EXCEPT !.state = "sealed", !.required = now + KeyHorizon]
                     ELSE IF fail THEN [backup EXCEPT !.state = "failed"] ELSE backup
        /\ pin' = IF (seal \/ fail) /\ pin.epoch = work[w].epoch THEN [pin EXCEPT !.state = "released"] ELSE pin
  /\ Leave(w)
  /\ UNCHANGED <<envs, files, object, upload, ref, hold, gcjob, orphan, rekey, read, keys>>

-----------------------------------------------------------------------------
OperatorNext ==
  \E w \in Workers :
    \/ begin_rotation(w) \/ claim_artifact_reencryption(w) \/ reencrypt_verified(w) \/ register_rekeyed(w)
    \/ promote_reencrypted(w) \/ ack_rekeyed(w) \/ swap_object(w) \/ already_swapped(w)
    \/ cleanup_rekeyed(w) \/ close_rotation(w)
    \/ acquire_backup_pins(w) \/ renew_backup_pins(w) \/ copy_pinned_snapshot(w) \/ finish_backup(w)

Next == (AuthorityNext /\ UNCHANGED ops) \/ OperatorNext
=============================================================================
