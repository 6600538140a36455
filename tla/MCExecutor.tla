----------------------------- MODULE MCExecutor -----------------------------
(***************************************************************************)
(* Two instances of Executor, one task each.  In the scope "race" one      *)
(* execution is cancelled by two calls; in the scope "reuse" the task runs *)
(* twice, the second time perhaps while the first still runs, and one call *)
(* may hold the control of the first; workers send no events there, the    *)
(* trace does not fail, and only the first stream may be dropped.          *)
(***************************************************************************)
EXTENDS Executor

CONSTANTS t1, t2, e1, e2, c1, c2
VARIABLE scope

BothTasks == {t1, t2}   \* the registry entry of the second stays empty
SameTask == [e \in Execs |-> t1]
CancelSame == [c \in Cancels |-> t1]

MCExecs == IF scope = "race" THEN {e1} ELSE {e1, e2}
MCCancels == IF scope = "race" THEN {c1, c2} ELSE {c1}
MCInit == Init /\ scope \in {"race", "reuse"}
InReuse == /\ observed' = observed /\ closed' \subseteq {e1}
           /\ \A e \in Execs : "traceFailed" \notin marks'[e]
           /\ At(e1, "idle") => pc'[e2] = "idle"
MCStep == /\ \/ \E e \in MCExecs : \/ MayExecute(e) /\ Execute(e)
                                   \/ RunStep(e)
                                   \/ DropStream(e)
             \/ \E c \in MCCancels : Cancel(c) \/ CancelStep(c)
          /\ scope = "reuse" => InReuse

(* All calls have been made and are over.                                  *)
Finished == /\ \A e \in MCExecs : At(e, "done")
            /\ \A c \in MCCancels : CallAt(c, "returned")
            /\ UNCHANGED vars

MCSpec == /\ MCInit /\ [][(MCStep \/ Finished) /\ UNCHANGED scope]_<<vars, scope>>
          /\ Fairness
=============================================================================
