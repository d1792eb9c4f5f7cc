------------------------------ MODULE MCTaskDir ------------------------------
(* Small instances of TaskDir for TLC. *)
EXTENDS TaskDir, TLC

CONSTANTS p1, p2, p3, o1, o2

\* A longer and a shorter playlist, so that a run may leave segments beyond the
\* end of the other one; they share the output, and the third has its own.
Lengths == p1 :> 3 @@ p2 :> 2 @@ p3 :> 1
Outputs == p1 :> o1 @@ p2 :> o1 @@ p3 :> o2
=============================================================================
