------------------------------ MODULE TaskState ------------------------------
(***************************************************************************)
(* The A2A task-state machine of the gateway (task_state.rs): which state  *)
(* may follow which in every store, in memory or durable.                  *)
(***************************************************************************)

TerminalStates == {"Completed", "Failed", "Canceled", "Rejected"}
PausedStates == {"InputRequired", "AuthRequired"}
LiveStates == {"Unspecified", "Submitted", "Working"} \cup PausedStates
TaskStates == LiveStates \cup TerminalStates

IsTerminal(s) == s \in TerminalStates

(* The states that a task in state s may move to.                          *)
Successors(s) ==
    CASE s = "Unspecified" -> {"Submitted", "Failed", "Rejected"}
      [] s = "Submitted" -> {"Working"} \cup PausedStates \cup TerminalStates
      [] s = "Working" -> PausedStates \cup TerminalStates
      [] s \in PausedStates -> {"Working", "Failed", "Canceled", "Rejected"}
      [] OTHER -> {}

TransitionAllowed(from, to) == from = to \/ to \in Successors(from)

=============================================================================
