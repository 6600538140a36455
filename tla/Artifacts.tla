------------------------------ MODULE Artifacts ------------------------------
(* The artifact authority: publication of encrypted content, promotion of the *)
(* staged file, leased reads, holds and references, collection of expired     *)
(* content and sweeping of orphaned stage files.  Modelled: the artifact      *)
(* methods of src/postgres_store.rs, the functions of                         *)
(* migrations/postgres/0005_artifact_authority.sql they call, the file        *)
(* operations of src/artifact.rs and the loops of artifact_promoter.rs,       *)
(* artifact_gc.rs and artifact_orphan_scanner.rs.                             *)
(*                                                                            *)
(* All artifacts have the same owner and content, so they share one content   *)
(* object.  The locator of a staged file is named after the artifact that     *)
(* staged it.  A SQL transaction is one step; a file operation is a step of   *)
(* its own, between the transactions around it.                               *)
EXTENDS Integers, FiniteSets

CONSTANTS
  Artifacts,   \* publications of the one content
  Rekeyed,     \* locators a key rotation may stage
  Workers,     \* processes; each has one claim in hand at a time
  Retention,   \* time content is retained after it was staged
  WorkLease,   \* duration of a claim, a read lease and a pin
  Horizon,     \* age beyond which the sweeper takes a stage file for an orphan
  MaxTime,     \* bound on the clock
  MaxAttempts, \* claims after which a row is terminalized (1000 in the code)
  MaxCrashes,  \* bound on crashes
  Mixes        \* the groups of requests a behaviour may contain

VARIABLES
  asked,    \* the requests of this behaviour
  now,      \* PostgreSQL time
  crashes,  \* crashes so far
  stages,   \* locator -> when its stage file was written, NoFile when absent
  blobs,    \* locators whose object file exists
  object,   \* the content_objects row
  upload,   \* the upload_intents row
  ref,      \* artifact -> state of its artifact_references row
  read,     \* artifact -> its read lease and what the reader does with it
  hold,     \* the artifact_retention_holds row
  pin,      \* the artifact_backup_leases row
  gcjob,    \* the artifact_gc_jobs row
  orphan,   \* locator -> its artifact_orphan_candidates row
  rekey,    \* the artifact_reencryption_jobs row
  work      \* worker -> the claim it has in hand

rows  == <<object, upload, ref, hold, pin, gcjob, orphan, rekey>>
files == <<stages, blobs>>
envs  == <<asked, now, crashes>>

Locators == Artifacts \cup Rekeyed
NoFile   == -1
NoRow    == [state |-> "none", epoch |-> 0, until |-> 0]
Idle     == [kind |-> "idle", pc |-> "idle", epoch |-> 0, at |-> "none"]
NoReader == [pc |-> "idle", at |-> "none", until |-> 0, raced |-> FALSE]

ASSUME ArtifactConstants ==
  /\ IsFiniteSet(Artifacts) /\ IsFiniteSet(Rekeyed) /\ Artifacts \cap Rekeyed = {}
  /\ {Retention, WorkLease, Horizon, MaxTime, MaxAttempts, MaxCrashes} \subseteq Nat
  /\ WorkLease <= Horizon

AuthorityInit ==
  /\ asked \in Mixes /\ now = 0 /\ crashes = 0
  /\ stages = [l \in Locators |-> NoFile] /\ blobs = {}
  /\ object = [state |-> "none", at |-> "none", key |-> "old", refs |-> 0, retain |-> 0]
  /\ upload = NoRow /\ ref = [p \in Artifacts |-> "none"]
  /\ read = [p \in Artifacts |-> NoReader]
  /\ hold = [state |-> "none", until |-> 0, raced |-> FALSE] /\ pin = NoRow /\ gcjob = NoRow
  /\ orphan = [l \in Locators |-> NoRow]
  /\ rekey = [state |-> "none", epoch |-> 0, until |-> 0, from |-> "none", to |-> "none", rollback |-> 0]
  /\ work = [w \in Workers |-> Idle]

(* Whether a row's lease, hold or pin is active at PostgreSQL time.           *)
Live(r) == r.state = "active" /\ r.until > now

(* The trigger reject_pinned_artifact_mutation: a content_objects row does    *)
(* not change while an unexpired backup lease pins it.                        *)
Pinned == Live(pin)

ReadLeased == \E p \in Artifacts : read[p].pc \in {"leased", "unreadable", "streaming", "failed"} /\ read[p].until > now

(* Some collector has evaluated the object as a candidate and not yet locked  *)
(* it: what is granted now is not seen by it.                                 *)
Picked == \E w \in Workers : work[w].pc = "picked"

(* The stage locator of the upload: where the object was before a rotation.   *)
UploadStage == IF rekey.from = "none" THEN object.at ELSE rekey.from

-----------------------------------------------------------------------------
(* Publication.                                                              *)

(* stage_artifact: the content is encrypted into a file under stage/.         *)
stage_artifact(p) ==
  /\ "republish" \in asked \/ \A q \in Artifacts : ref[q] = "none" /\ stages[q] = NoFile
  /\ ref[p] = "none" /\ stages[p] = NoFile /\ p \notin blobs /\ orphan[p].state = "none"
  /\ stages' = [stages EXCEPT ![p] = now]
  /\ UNCHANGED <<envs, blobs, rows, read, work>>

(* register_artifact refuses a locator the sweeper has claimed.               *)
Registrable(p) == orphan[p].state = "none"

(* register_artifact, also inside complete_receiver: the object and its       *)
(* upload intent are inserted unless the object exists already, in whatever   *)
(* state it is; the reference counts in either case.                          *)
register_artifact(p) ==
  /\ ref[p] = "none" /\ (stages[p] # NoFile \/ orphan[p].state # "none")
  /\ Registrable(p)
  /\ ref' = [ref EXCEPT ![p] = "active"]
  /\ \/ /\ object.state = "none"
        /\ object' = [state |-> "staged", at |-> p, key |-> "old", refs |-> 1, retain |-> stages[p] + Retention]
        /\ upload' = [state |-> "committed", epoch |-> 1, until |-> 0]
     \/ /\ object.state # "none" /\ ~Pinned
        /\ object' = [object EXCEPT !.refs = @ + 1]
        /\ UNCHANGED upload
  /\ UNCHANGED <<envs, files, hold, pin, gcjob, orphan, rekey, read, work>>

-----------------------------------------------------------------------------
(* Promotion.                                                                *)

Due(r) == r.state = "committed" \/ (r.state = "promoting" /\ r.until <= now)

(* claim_artifact_upload: a due intent is leased, or failed when its attempts *)
(* are used up.                                                               *)
claim_artifact_upload(w) ==
  /\ work[w] = Idle /\ Due(upload)
  /\ \/ /\ upload.epoch > MaxAttempts
        /\ upload' = [upload EXCEPT !.state = "failed"]
        /\ UNCHANGED work
     \/ /\ upload.epoch <= MaxAttempts
        /\ upload' = [state |-> "promoting", epoch |-> upload.epoch + 1, until |-> now + WorkLease]
        /\ work' = [work EXCEPT ![w] = [kind |-> "promote", pc |-> "claimed", epoch |-> upload.epoch + 1,
                                     at |-> UploadStage, final |-> object.at]]
  /\ UNCHANGED <<envs, files, object, ref, hold, pin, gcjob, orphan, rekey, read>>

(* promote_claim, first half of promote_stage_locator: linkat gives the stage *)
(* file its final name, which may be there already, or finds no stage file.   *)
promote_link(w) ==
  /\ work[w].kind = "promote" /\ work[w].pc = "claimed"
  /\ LET l == work[w].at IN
     \/ /\ stages[l] # NoFile
        /\ blobs' = blobs \cup {work[w].final}
        /\ work' = [work EXCEPT ![w].pc = "linked"]
     \/ /\ stages[l] = NoFile
        /\ work' = [work EXCEPT ![w].pc = "failing"]
        /\ UNCHANGED blobs
  /\ UNCHANGED <<envs, stages, rows, read>>

(* Second half: the stage file is unlinked; that it is gone is no error.  The *)
(* object file is then read back and compared with the digest of the claim.   *)
promote_unlink(w) ==
  /\ work[w].kind = "promote" /\ work[w].pc = "linked"
  /\ stages' = [stages EXCEPT ![work[w].at] = NoFile]
  /\ work' = [work EXCEPT ![w].pc = IF work[w].final \in blobs THEN "moved" ELSE "failing"]
  /\ UNCHANGED <<envs, blobs, rows, read>>

(* The transaction of commit_artifact_promotion, fenced by token, epoch and   *)
(* lease; a lost fence is Ok(false) and the worker goes on.                   *)
ack_promotion(w) ==
  /\ work[w].kind = "promote" /\ work[w].pc = "moved"
  /\ IF upload.state = "promoting" /\ upload.epoch = work[w].epoch /\ upload.until > now
     THEN /\ upload' = [upload EXCEPT !.state = "available"]
          /\ object' = [object EXCEPT !.state = IF @ = "staged" THEN "available" ELSE @]
     ELSE UNCHANGED <<upload, object>>
  /\ work' = [work EXCEPT ![w] = Idle]
  /\ UNCHANGED <<envs, files, ref, hold, pin, gcjob, orphan, rekey, read>>

(* fail_artifact_promotion, fenced by token and epoch: failed is final.       *)
fail_artifact_promotion(w) ==
  /\ work[w].kind = "promote" /\ work[w].pc = "failing"
  /\ upload' = [upload EXCEPT !.state = IF @ = "promoting" /\ upload.epoch = work[w].epoch THEN "failed" ELSE @]
  /\ work' = [work EXCEPT ![w] = Idle]
  /\ UNCHANGED <<envs, files, object, ref, hold, pin, gcjob, orphan, rekey, read>>

-----------------------------------------------------------------------------
(* Resolution, references and holds.                                         *)

(* begin_artifact_resolution: a read lease on an available, retained object.  *)
begin_artifact_resolution(p) ==
  /\ "read" \in asked
  /\ read[p] = NoReader /\ ref[p] = "active"
  /\ object.state = "available" /\ object.retain >= now
  /\ read' = [read EXCEPT ![p] = [pc |-> "leased", at |-> object.at, until |-> now + WorkLease, raced |-> Picked]]
  /\ UNCHANGED <<envs, files, rows, work>>

(* read_resolution: the object file is read and verified, however late.       *)
read_resolution(p) ==
  /\ read[p].pc = "leased"
  /\ read' = [read EXCEPT ![p].pc = IF read[p].at \in blobs THEN "streaming" ELSE "unreadable"]
  /\ UNCHANGED <<envs, files, rows, work>>

(* read_artifact_resolution: after a failure the object is quarantined unless *)
(* it is deleted.                                                             *)
read_artifact_resolution(p) ==
  /\ read[p].pc = "unreadable"
  /\ read' = [read EXCEPT ![p].pc = "failed"]
  /\ object' = [object EXCEPT !.state = IF @ = "deleted" \/ Pinned THEN @ ELSE "quarantined"]
  /\ UNCHANGED <<envs, files, upload, ref, hold, pin, gcjob, orphan, rekey, work>>

(* finish_artifact_resolution: the lease is released, expired or not.         *)
finish_artifact_resolution(p) ==
  /\ read[p].pc \in {"streaming", "failed"}
  /\ read' = [read EXCEPT ![p] = [NoReader EXCEPT !.pc = "ended"]]
  /\ UNCHANGED <<envs, files, rows, work>>

(* The GET handler of the content.  It may be dropped between any two steps,  *)
(* with the client's connection; the lease then expires.                      *)
artifact_resolver(p) ==
  \/ begin_artifact_resolution(p) \/ read_resolution(p)
  \/ read_artifact_resolution(p) \/ finish_artifact_resolution(p)

place_artifact_hold ==
  /\ "hold" \in asked /\ hold.state = "none"
  /\ object.state = "available" /\ object.retain >= now
  /\ hold' = [state |-> "active", until |-> now + Retention, raced |-> Picked]
  /\ UNCHANGED <<envs, files, object, upload, ref, pin, gcjob, orphan, rekey, read, work>>

release_artifact_hold ==
  /\ hold.state = "active"
  /\ hold' = [hold EXCEPT !.state = "released"]
  /\ UNCHANGED <<envs, files, object, upload, ref, pin, gcjob, orphan, rekey, read, work>>

release_artifact_reference(p) ==
  /\ "release" \in asked /\ ref[p] = "active" /\ ~Pinned
  /\ ref' = [ref EXCEPT ![p] = "released"]
  /\ object' = [object EXCEPT !.refs = IF @ > 0 THEN @ - 1 ELSE @]
  /\ UNCHANGED <<envs, files, upload, hold, pin, gcjob, orphan, rekey, read, work>>

-----------------------------------------------------------------------------
(* Collection.                                                               *)

(* The collector forgets the read leases.                                     *)
CollectableWhileRead ==
  /\ object.state = "available" /\ object.refs = 0 /\ object.retain <= now
  /\ ~(\E p \in Artifacts : ref[p] = "active") /\ ~Live(hold) /\ ~Pinned

(* The candidates of claim_artifact_gc.                                       *)
Collectable ==
  /\ object.state = "available" /\ object.refs = 0 /\ object.retain <= now
  /\ ~(\E p \in Artifacts : ref[p] = "active") /\ ~Live(hold) /\ ~ReadLeased /\ ~Pinned

(* The first statement of claim_artifact_gc evaluates references, holds,      *)
(* leases and pins once, against its snapshot and the time n it began at,     *)
(* which the worker keeps; the rows are locked afterwards.                    *)
pick_candidates(w) ==
  /\ "collect" \in asked /\ work[w] = Idle /\ Collectable
  /\ work' = [work EXCEPT ![w] = [kind |-> "collect", pc |-> "picked", epoch |-> now, at |-> "none"]]
  /\ UNCHANGED <<envs, files, rows, read>>

(* The last statement, for the job and the object state the first one left: a *)
(* due job is leased and its object marked deleting.                          *)
lease_job(w, n, job, state) ==
  LET claimed == /\ job.state = "pending" \/ (job.state = "leased" /\ job.until <= n)
                 /\ job.epoch <= MaxAttempts /\ state \in {"tombstoned", "deleting"}
  IN /\ gcjob' = IF claimed THEN [state |-> "leased", epoch |-> job.epoch + 1, until |-> n + WorkLease] ELSE job
     /\ object' = [object EXCEPT !.state = IF claimed THEN "deleting" ELSE state]
     /\ work' = [work EXCEPT ![w] = IF claimed
                                   THEN [kind |-> "collect", pc |-> "claimed", epoch |-> job.epoch + 1, at |-> object.at]
                                   ELSE Idle]

(* The rest of the call: a picked object is locked and tombstoned with a job  *)
(* if it is still available, whatever it got since; a pin makes the trigger   *)
(* abort the call.                                                            *)
tombstone_candidates(w) ==
  /\ work[w].kind = "collect" /\ work[w].pc = "picked"
  /\ \/ Pinned /\ work' = [work EXCEPT ![w] = Idle] /\ UNCHANGED <<gcjob, object>>
     \/ /\ ~Pinned /\ object.state = "available"
        /\ lease_job(w, work[w].epoch, [state |-> "pending", epoch |-> 1, until |-> 0], "tombstoned")
     \/ ~Pinned /\ object.state # "available" /\ lease_job(w, work[w].epoch, gcjob, object.state)
  /\ UNCHANGED <<envs, files, upload, ref, hold, pin, orphan, rekey, read>>

(* The call without a candidate: a due job of a quarantined object or without *)
(* attempts left dies, any other due job is leased.                           *)
claim_artifact_gc(w) ==
  /\ "collect" \in asked /\ work[w] = Idle /\ ~Collectable
  /\ gcjob.state = "pending" \/ (gcjob.state = "leased" /\ gcjob.until <= now)
  /\ \/ /\ object.state = "quarantined" \/ gcjob.epoch > MaxAttempts
        /\ gcjob' = [gcjob EXCEPT !.state = "dead"]
        /\ UNCHANGED <<object, work>>
     \/ /\ object.state # "quarantined" /\ gcjob.epoch <= MaxAttempts /\ ~Pinned
        /\ lease_job(w, now, gcjob, object.state)
  /\ UNCHANGED <<envs, files, upload, ref, hold, pin, orphan, rekey, read>>

(* commit_artifact_gc unlinks the blob before its transaction.                *)
unlink_blob(w) ==
  /\ work[w].kind = "collect" /\ work[w].pc = "claimed"
  /\ blobs' = blobs \ {work[w].at}
  /\ work' = [work EXCEPT ![w].pc = "unlinked"]
  /\ UNCHANGED <<envs, stages, rows, read>>

(* Its transaction: fenced by owner, token, epoch and lease; when the object  *)
(* is no longer deleting it is rolled back with an error.                     *)
finalize_gc(w) ==
  /\ work[w].kind = "collect" /\ work[w].pc = "unlinked"
  /\ IF ~(gcjob.state = "leased" /\ gcjob.epoch = work[w].epoch /\ gcjob.until > now)
     THEN work' = [work EXCEPT ![w] = Idle] /\ UNCHANGED <<gcjob, object>>
     ELSE IF object.state # "deleting"
     THEN work' = [work EXCEPT ![w].pc = "failing"] /\ UNCHANGED <<gcjob, object>>
     ELSE /\ gcjob' = [gcjob EXCEPT !.state = "complete"]
          /\ object' = [object EXCEPT !.state = "deleted"]
          /\ work' = [work EXCEPT ![w] = Idle]
  /\ UNCHANGED <<envs, files, upload, ref, hold, pin, orphan, rekey, read>>

(* fail_artifact_gc: the job is pending again, a deleting object tombstoned.  *)
(* Also after a failed unlink.                                                *)
fail_artifact_gc(w) ==
  /\ work[w].kind = "collect" /\ work[w].pc \in {"claimed", "failing"}
  /\ IF gcjob.state = "leased" /\ gcjob.epoch = work[w].epoch
     THEN /\ gcjob' = [gcjob EXCEPT !.state = "pending"]
          /\ object' = [object EXCEPT !.state = IF @ = "deleting" THEN "tombstoned" ELSE @]
     ELSE UNCHANGED <<gcjob, object>>
  /\ work' = [work EXCEPT ![w] = Idle]
  /\ UNCHANGED <<envs, files, upload, ref, hold, pin, orphan, rekey, read>>

-----------------------------------------------------------------------------
(* Sweeping of stage files.                                                  *)

(* artifact_stage_locator_live: some row still needs the stage file.          *)
artifact_stage_locator_live(l) ==
  \/ l = UploadStage /\ upload.state \in {"committed", "promoting", "available"}
  \/ l = rekey.to /\ rekey.state \in {"staged", "promoted", "swapped", "cleanup", "completed"}

(* The stage files older than the horizon.                                    *)
scan_stage_candidates == {l \in Locators : stages[l] # NoFile /\ stages[l] < now - Horizon}

(* scan_artifact_stage_orphans, claim: an old file without a live row, or an  *)
(* expired claim, is claimed under the locator's lock.                        *)
claim_orphan(w, l) ==
  /\ "sweep" \in asked /\ work[w] = Idle
  /\ \/ l \in scan_stage_candidates /\ orphan[l].state = "none"
     \/ orphan[l].state = "claimed" /\ orphan[l].until <= now
  /\ ~artifact_stage_locator_live(l)
  /\ orphan' = [orphan EXCEPT ![l] = [state |-> "claimed", epoch |-> @.epoch + 1, until |-> now + WorkLease]]
  /\ work' = [work EXCEPT ![w] = [kind |-> "sweep", pc |-> "claimed", epoch |-> orphan[l].epoch + 1, at |-> l]]
  /\ UNCHANGED <<envs, files, object, upload, ref, hold, pin, gcjob, rekey, read>>

(* The unlink, then the fenced finalization.                                  *)
delete_stage_orphan(w) ==
  /\ work[w].kind = "sweep" /\ work[w].pc = "claimed"
  /\ stages' = [stages EXCEPT ![work[w].at] = NoFile]
  /\ work' = [work EXCEPT ![w].pc = "unlinked"]
  /\ UNCHANGED <<envs, blobs, rows, read>>

finalize_orphan(w) ==
  /\ work[w].kind = "sweep" /\ work[w].pc = "unlinked"
  /\ LET l == work[w].at
         owned == orphan[l].state = "claimed" /\ orphan[l].epoch = work[w].epoch
     IN orphan' = IF owned THEN [orphan EXCEPT ![l].state = "finalized"] ELSE orphan
  /\ work' = [work EXCEPT ![w] = Idle]
  /\ UNCHANGED <<envs, files, object, upload, ref, hold, pin, gcjob, rekey, read>>

-----------------------------------------------------------------------------
(* A process dies with its claim in hand; the rows and files stay.            *)
crash(w) ==
  /\ "crash" \in asked /\ crashes < MaxCrashes /\ work[w] # Idle
  /\ crashes' = crashes + 1
  /\ work' = [work EXCEPT ![w] = Idle]
  /\ UNCHANGED <<asked, now, files, rows, read>>

tick ==
  /\ now < MaxTime
  /\ now' = now + 1
  /\ UNCHANGED <<asked, crashes, files, rows, read, work>>

(* The loops of the three background workers.                                 *)
artifact_promoter(w) ==
  claim_artifact_upload(w) \/ promote_link(w) \/ promote_unlink(w) \/ ack_promotion(w) \/ fail_artifact_promotion(w)

artifact_gc(w) ==
  pick_candidates(w) \/ tombstone_candidates(w) \/ claim_artifact_gc(w) \/ unlink_blob(w) \/ finalize_gc(w) \/ fail_artifact_gc(w)

artifact_orphan_scanner(w) ==
  (\E l \in Locators : claim_orphan(w, l)) \/ delete_stage_orphan(w) \/ finalize_orphan(w)

AuthorityNext ==
  \/ \E p \in Artifacts :
       \/ stage_artifact(p) \/ register_artifact(p) \/ release_artifact_reference(p)
       \/ artifact_resolver(p)
  \/ place_artifact_hold \/ release_artifact_hold
  \/ \E w \in Workers : artifact_promoter(w) \/ artifact_gc(w) \/ artifact_orphan_scanner(w) \/ crash(w)
  \/ tick
=============================================================================
