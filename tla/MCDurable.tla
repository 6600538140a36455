----------------------------- MODULE MCDurable -----------------------------
EXTENDS DurableDriver

CONSTANTS t1, t2

(* SQLite with a loopback receiver and two tasks that compete for its one  *)
(* driver, SQLite with a task of two messages and a loopback that needs    *)
(* its context, and two PostgreSQL replicas that compete for one dispatch, *)
(* of the text concordance and of a runtime without authority.             *)
Load(b, m, ts, n, f) ==
    [backend |-> b, mode |-> m, tasks |-> ts, turns |-> n, faults |-> f]
MCDeployments ==
    {Load("sqlite", "loopback", {t1, t2}, 1, 1), Load("sqlite", "strict", {t1}, 2, 2),
     Load("postgres", "concordance", {t1}, 1, 2), Load("postgres", "runtime", {t1}, 1, 1)}

=============================================================================
