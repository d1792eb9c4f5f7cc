---------------------------- MODULE MCTaskManager ----------------------------
(* Small instances of TaskManager for TLC. *)
EXTENDS TaskManager, TLC

CONSTANTS t1, t2, t3, w1, w2, c1

\* Sound for the runs that check invariants and action properties only.
Symmetry == Permutations(Task) \union Permutations(Worker)

\* What an earlier process may have left: tasks nobody cancelled, and with
\* LeftAny also one whose cancellation was saved before the worker saw it.
LeftActive == {Pending, [Pending EXCEPT !.status = "running"]}
LeftAny == LeftActive \union {[Pending EXCEPT !.status = "running", !.cancelled = TRUE]}
=============================================================================
