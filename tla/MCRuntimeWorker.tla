--------------------------- MODULE MCRuntimeWorker ---------------------------
(***************************************************************************)
(* Two instances of RuntimeWorker with two permits: a task and a durable   *)
(* dispatch with a cancellation of the task; and two dispatches of one     *)
(* correlation with a cancellation, which propose nothing and do not fail, *)
(* and whose worker is not aborted.  The second dispatch comes after the   *)
(* first was admitted or rejected, is not rejected and is only cancelled   *)
(* by its reaper.  The first call is answered late only when the worker is *)
(* gone.                                                                   *)
(***************************************************************************)
EXTENDS RuntimeWorker

CONSTANTS j1, j2, j3, c1, c2, k1, k2
VARIABLE scope

OfEachKind == [x \in Jobs \cup Calls |-> IF x \in {j1, c1} THEN k1 ELSE k2]
InScope == IF scope = "both" THEN {j1, j2, c1} ELSE {j2, j3, c2}

(* All is over: the worker is gone and no request is under way.            *)
Finished == /\ worker = "gone" /\ Running = {} /\ Prepared = {}
            /\ \A c \in Calls \cap InScope : answer[c] \notin {"none", "sent"}
            /\ UNCHANGED vars

MCInit == Init /\ scope \in {"both", "durable"}
MCNext == /\ Next \/ Finished
          /\ \A j \in Jobs \ InScope : phase'[j] = "new"
          /\ \A c \in Calls \ InScope : answer'[c] = "none"
          /\ scope = "durable" => ~forced' /\ proposed' = {} /\ failed' = {}
          /\ j3 \in token' => reaper'[j3] # "none"
          /\ phase'[j3] # "new" => phase[j2] \notin {"new", "prepared"}
          /\ admission'[j3] # "Rejected" /\ (answer'[c1] = "unknown" => worker = "gone")
          /\ UNCHANGED scope
MCSpec == MCInit /\ [][MCNext]_<<vars, scope>> /\ Fairness
=============================================================================
