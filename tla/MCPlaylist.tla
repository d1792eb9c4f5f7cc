----------------------------- MODULE MCPlaylist -----------------------------
(* Small instances of Playlist for TLC. *)
EXTENDS Playlist, TLC

CONSTANTS u1, u2   \* two resources

\* Implicit ranges, an explicit one that an implicit one may follow beyond the
\* width, and one of length 0.
SomeRanges ==
  {[length |-> 1, offset |-> 0, explicit |-> FALSE],
   [length |-> 3, offset |-> 2, explicit |-> TRUE],
   [length |-> 0, offset |-> 0, explicit |-> FALSE]}
Swap == Permutations({u1, u2})
=============================================================================
