----------------------------- MODULE MCArtifacts -----------------------------
(* The authority with two publications of one content, two workers, and every *)
(* pair of request groups that touch the same rows; and, on their own, the    *)
(* commands of two operators with a backup of two entries and three rows that *)
(* hold two bodies.                                                           *)
EXTENDS ArtifactOperators, ArtifactPlans, TLC

CONSTANTS a, b, n1, w1, w2, o1, o2
VARIABLE part

MCInventory == <<"x", "y">>
MCBodyOf == [r \in {"task", "event", "stream"} |-> IF r = "stream" THEN "y" ELSE "x"]
MCMixes == {{"crash", "read", "release", "collect"}, {"republish", "hold", "release", "collect"},
            {"republish", "sweep", "crash"}, {"rotate", "read", "crash"}, {"rotate", "sweep"}, {"rotate", "backup"},
            {"backup", "release", "collect"}, {"rotate", "release", "collect"},
            {"republish", "read", "release", "collect"}}
ArtifactSymmetry == Permutations(Workers) \cup Permutations(Artifacts)

(* Slow promoters occur in the groups with crashes only.                      *)
PromptPromotion == "crash" \in asked \/ now' = now \/ upload.state \notin {"committed", "promoting"}

mcVars == <<vars, planVars, part>>
MCInit == /\ part \in {"authority", "plans"} /\ Init /\ PlanInit
          /\ part = "authority" => command = "restore"
          /\ part = "plans" => asked = {"rotate", "sweep"}
MCNext == \/ part = "authority" /\ Next /\ UNCHANGED <<planVars, part>>
          \/ part = "plans" /\ PlanNext /\ UNCHANGED <<vars, part>>
MCSpec == MCInit /\ [][MCNext]_mcVars

(* Whatever promotes, rotates, collects or sweeps, and wherever it dies: the  *)
(* object file of an available object is in place, so begin_artifact_         *)
(* resolution never hands out a lease on content that is gone.  While a read  *)
(* lease or a hold runs the file stays: neither the collector nor the         *)
(* clean-up of a rotation removes it.  The one exception is a lease or a hold *)
(* granted between the evaluation of the candidates and their locks in        *)
(* claim_artifact_gc, which looks at neither a second time.                   *)
ServableHasBlob ==
  /\ object.state = "available" => object.at \in blobs
  /\ \A p \in Artifacts :
       read[p].pc \in {"leased", "streaming"} /\ read[p].until > now /\ ~read[p].raced => read[p].at \in blobs
  /\ Live(hold) /\ ~hold.raced => object.at \in blobs

(* Whoever dies where: the sweeper never removes the only copy of content a   *)
(* row still waits for, be it a publication or a re-encrypted stage           *)
(* registered in its last moment.  An upload is given up only after a         *)
(* promoter died or outlived its lease: with its attempts used up, or because *)
(* that promoter had moved the file and not acknowledged it.  The next one    *)
(* then finds no stage file and the object stays staged, but its content is   *)
(* in the object file.                                                        *)
StageRecoverable ==
  /\ upload.state \in {"committed", "promoting"} => stages[UploadStage] # NoFile \/ object.at \in blobs
  /\ upload.state = "failed" => /\ object.state = "staged" /\ (upload.epoch > 2 \/ upload.until <= now)
                                /\ upload.epoch > MaxAttempts \/ object.at \in blobs
  /\ rekey.state \in {"staged", "promoted"} => stages[rekey.to] # NoFile \/ rekey.to \in blobs

(* A sealed backup can be read until its horizon: it holds the ciphertext its *)
(* inventory names, and no rotation has retired the key of that ciphertext,   *)
(* though it may have swapped and deleted the original meanwhile.             *)
SealedReadable ==
  backup.state = "sealed" /\ backup.required > now => backup.at \in backup.copied /\ keys[backup.key] # "retired"
=============================================================================
