------------------------------ MODULE Resumable ------------------------------
(***************************************************************************)
(* What the output directory promises a user who downloads playlists into  *)
(* it and is interrupted now and then: a playlist owns the directory until *)
(* it is delivered, what was fetched for it is neither lost nor taken for  *)
(* another playlist, and at any moment a playlist all of which was fetched *)
(* is still there, as segments or as the output.  An output is kept until  *)
(* another playlist with the same file name is ready to take its place.    *)
(***************************************************************************)
EXTENDS Integers

CONSTANTS Playlist, SegCount, None,
          OutputOf    \* the name of the output of each playlist

VARIABLES owner,      \* the playlist that owns the directory, or None
          kept,       \* its segments that a later run will reuse
          spare,      \* segments that only the present run can use
          delivered   \* the playlists whose output is whole

dirVars == <<owner, kept, spare, delivered>>

SegmentsOf(p) == 0 .. SegCount[p] - 1

DirInit ==
  /\ owner = None /\ kept = {} /\ spare = {} /\ delivered = {}

\* Whatever lies in a directory that nobody owns, nobody trusts.
Claim(p) ==
  /\ owner = None
  /\ owner' = p
  /\ kept' = {} /\ spare' \in SUBSET SegmentsOf(p)
  /\ UNCHANGED delivered

Fetched(i) ==
  /\ owner # None /\ i \in SegmentsOf(owner) \ kept
  /\ \/ kept' = kept \union {i} /\ spare' = spare \ {i}
     \/ UNCHANGED kept /\ spare' = spare \union {i}
  /\ UNCHANGED <<owner, delivered>>

DropSpare(i) ==
  /\ i \in spare
  /\ spare' = spare \ {i}
  /\ UNCHANGED <<owner, kept, delivered>>

AllHere == owner # None /\ kept \union spare = SegmentsOf(owner)

Rivals(p) == {q \in Playlist : OutputOf[q] = OutputOf[p]}

\* An old output, of whichever playlist, is given up only when all the segments
\* of a new one are here.
Rewrite ==
  /\ AllHere
  /\ delivered' = delivered \ Rivals(owner)
  /\ UNCHANGED <<owner, kept, spare>>

Deliver ==
  /\ AllHere
  /\ delivered' = (delivered \ Rivals(owner)) \union {owner}
  /\ UNCHANGED <<owner, kept, spare>>

Discard ==
  /\ owner \in delivered
  /\ kept' \in SUBSET kept /\ spare' \in SUBSET spare
  /\ UNCHANGED <<owner, delivered>>

Release ==
  /\ owner \in delivered
  /\ owner' = None /\ kept' = {} /\ spare' = {}
  /\ UNCHANGED delivered

\* The user deletes the metadata, or the segments.
GiveUpClaim   == owner' = None /\ kept' = {} /\ spare' = {} /\ UNCHANGED delivered
GiveUpContent == kept' = {} /\ spare' = {} /\ UNCHANGED <<owner, delivered>>

DirNext ==
  \/ \E p \in Playlist : Claim(p) \/ \E i \in SegmentsOf(p) : Fetched(i) \/ DropSpare(i)
  \/ Rewrite \/ Deliver \/ Discard \/ Release \/ GiveUpClaim \/ GiveUpContent

DirSpec == DirInit /\ [][DirNext]_dirVars
=============================================================================
