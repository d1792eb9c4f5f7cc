---------------------------- MODULE TaskDir_proofs ----------------------------
(***************************************************************************)
(* Proofs about TaskDir, for any playlists of any lengths and any number   *)
(* of interrupted runs.                                                    *)
(***************************************************************************)
EXTENDS TaskDir, SequenceTheorems, TLAPS

-----------------------------------------------------------------------------
(* Types.                                                                  *)

\* The segment numbers of a playlist are among the numbers of ts/.
LEMMA IndexContains ==
  /\ \A p \in Playlist : SegmentsOf(p) \subseteq Index
  /\ Index \subseteq Nat
BY TaskDirAssumption DEF Index, SegmentsOf

\* Every variable keeps its type, for every set of playlists.
THEOREM TypeCorrect == Spec => []TypeOK
<1> USE TaskDirAssumption, IndexContains
<1>1. Init => TypeOK
  BY DEF Init, TypeOK
<1>2. TypeOK /\ [Next]_vars => TypeOK'
  <2> SUFFICES ASSUME TypeOK, [Next]_vars PROVE TypeOK'
    OBVIOUS
  <2> USE DEF TypeOK, Goto, Over, diskVars, runVars
  <2>1. ASSUME NEW p \in Playlist, Run(p) PROVE TypeOK'
    BY <2>1 DEF Run
  <2>2. CASE LoadMeta
    BY <2>2 DEF LoadMeta
  <2>3. CASE Refuse
    BY <2>3 DEF Refuse
  <2>4. CASE ScanSegment
    <3>1. pos \in SegmentsOf(params)
      BY <2>4 DEF ScanSegment, SegmentsOf
    <3>2. ts' \in [Index -> File \union {Absent}]
      BY <2>4 DEF ScanSegment
    <3>3. QED
      BY <2>4, <3>1, <3>2 DEF ScanSegment
  <2>5. CASE Resume \/ Fresh \/ Stale
    BY <2>5 DEF Resume, Fresh, Stale, ScanEnds
  <2>6. CASE WipeFile
    BY <2>6 DEF WipeFile
  <2>7. CASE WipeEnds
    BY <2>7 DEF WipeEnds
  <2>8. CASE SaveMeta
    BY <2>8 DEF SaveMeta
  <2>9. CASE Download
    BY <2>9 DEF Download, File
  <2>10. CASE MergeOpen
    <3>1. params \in Playlist /\ <<>> \in Seq(Piece)
      BY <2>10 DEF MergeOpen
    <3>2. QED
      BY <2>10, <3>1 DEF MergeOpen
  <2>11. CASE MergeCopy
    <3>1. params \in Playlist /\ pos \in SegmentsOf(params)
      BY <2>11 DEF MergeCopy, SegmentsOf
    <3>2. pos \in Index
      BY <3>1
    <3>3. ts[pos].of \in Playlist
      BY <2>11, <3>2 DEF MergeCopy, Present, File
    <3>4. [of |-> ts[pos].of, idx |-> pos] \in Piece
      BY <3>2, <3>3 DEF Piece
    <3>5. merged' \in Seq(Piece)
      BY <2>11, <3>4 DEF MergeCopy
    <3>6. QED
      BY <2>11, <3>5 DEF MergeCopy
  <2>12. CASE MergeSkip
    BY <2>12 DEF MergeSkip
  <2>13. CASE Flush
    <3>1. \A k \in 0 .. Len(merged) :
            SubSeq(merged, 1, k) \in Seq(Piece)
      <4>1. \A i \in 1 .. Len(merged) : merged[i] \in Piece
        OBVIOUS
      <4>2. ASSUME NEW k \in 0 .. Len(merged)
            PROVE  SubSeq(merged, 1, k) \in Seq(Piece)
        <5>1. \A i \in 1 .. k : merged[i] \in Piece
          BY <4>1, LenProperties
        <5>2. QED
          BY <5>1, SubSeqProperties
      <4>3. QED
        BY <4>2
    <3>2. PICK tail \in Seq(Piece) : out' = [out EXCEPT ![OutputOf[params]] = tail]
      <4>1. Len(merged) \in 0 .. Len(merged)
        BY LenProperties
      <4>2. QED
        BY <2>13, <3>1, <4>1 DEF Flush
    <3>3. params \in Playlist /\ out' \in [Output -> Seq(Piece)]
      BY <2>13, <3>2 DEF Flush
    <3>4. CASE complete(Len(merged))
      BY <2>13, <3>3, <3>4 DEF Flush
    <3>5. CASE ~complete(Len(merged))
      BY <2>13, <3>3, <3>5 DEF Flush
    <3>6. QED
      BY <3>4, <3>5
  <2>14. CASE CleanFile
    BY <2>14 DEF CleanFile
  <2>15. CASE CleanEnds
    BY <2>15 DEF CleanEnds
  <2>16. CASE RemoveMeta
    BY <2>16 DEF RemoveMeta
  <2>17. CASE Interrupted
    BY <2>17 DEF Interrupted
  <2>18. CASE DeleteMeta \/ DeleteSegments
    BY <2>18 DEF DeleteMeta, DeleteSegments
  <2>19. CASE UNCHANGED vars
    BY <2>19 DEF vars
  <2>20. QED
    BY <2>1, <2>2, <2>3, <2>4, <2>5, <2>6, <2>7, <2>8, <2>9, <2>10, <2>11,
       <2>12, <2>13, <2>14, <2>15, <2>16, <2>17, <2>18, <2>19 DEF Next, RunStep
<1>3. QED
  BY <1>1, <1>2, PTL DEF Spec

-----------------------------------------------------------------------------
(* The segments of the directory and those who own them.                    *)

\* The metadata name the playlist of every segment that a run will trust.
Owned == \A i \in Index :
  meta # None /\ i \in SegmentsOf(meta) /\ ts[i].sync => ts[i].of = meta

\* A run gets past the metadata of its own playlist only.
Claimed ==
  /\ pc = "scan" => meta \in {None, params}
  /\ pc \in {"wipe", "save"} => meta = None
  /\ pc \in {"fetch", "copy", "clean", "unclaim"} => meta = params

\* What a run counts as done: the segments found valid, then its own.
Counted ==
  /\ pc = "scan" =>
       /\ \A i \in done : ts[i].sync
       /\ \A i \in SegmentsOf(params) : i < pos /\ ts[i].sync => i \in done
  /\ pc = "save" => \A i \in SegmentsOf(params) : ~ts[i].sync
  /\ pc = "fetch" => \A i \in SegmentsOf(params) : ts[i].sync => i \in done
  /\ pc \in {"wipe", "save"} => done = {}
  /\ pc \in {"fetch", "copy"} => \A i \in done : ts[i].of = params
  /\ pc = "copy" => done = SegmentsOf(params)
  /\ pc \in {"load", "wipe", "save", "fetch"} => pos = 0
  /\ pc = "load" => done = {}

\* What merge has copied: segments of its playlist, all of them so far unless
\* one was skipped.
Copied ==
  /\ pc \notin {"copy", "clean", "unclaim"} => merged = <<>>
  /\ pc = "copy" =>
       /\ Len(merged) <= pos
       /\ \A k \in 1 .. Len(merged) :
            merged[k].of = params /\ (Len(merged) = pos => merged[k].idx = k - 1)

DirInv == Owned /\ Claimed /\ Counted /\ Copied

\* A file that is not there has no sync byte.
LEMMA AbsentHasNoSync == ~Absent.sync
BY DEF Absent

\* A step that changes nothing keeps the invariant.
LEMMA DirInvStutter ==
  ASSUME TypeOK, DirInv, UNCHANGED vars
  PROVE  DirInv'
BY DEF DirInv, Owned, Claimed, Counted, Copied, vars, diskVars, runVars

\* A run that is over leaves nothing to its invariant but the ownership.
LEMMA OverKeepsDirInv ==
  ASSUME TypeOK, DirInv, NEW r, Over(r), UNCHANGED ts, meta' \in {meta, None}
  PROVE  DirInv'
BY DEF DirInv, Owned, Claimed, Counted, Copied, Over

\* The metadata never claim a directory with segments of another playlist, and
\* a run counts and copies only its own, however earlier runs ended.
THEOREM DirInvCorrect == Spec => []DirInv
<1> USE TaskDirAssumption, IndexContains, AbsentHasNoSync
<1>1. Init => DirInv
  BY DEF Init, DirInv, Owned, Claimed, Counted, Copied
<1>2. TypeOK /\ DirInv /\ [Next]_vars => DirInv'
  <2> SUFFICES ASSUME TypeOK, DirInv, [Next]_vars PROVE DirInv'
    OBVIOUS
  <2> USE DEF TypeOK, DirInv, Goto, diskVars, runVars
  <2>1. ASSUME NEW p \in Playlist, Run(p) PROVE DirInv'
    BY <2>1 DEF Run, Owned, Claimed, Counted, Copied
  <2>2. CASE LoadMeta
    BY <2>2 DEF LoadMeta, SegmentsOf, Owned, Claimed, Counted, Copied
  <2>3. CASE Refuse \/ RemoveMeta \/ Interrupted
    BY <2>3, OverKeepsDirInv DEF Refuse, RemoveMeta, Interrupted
  <2>4. CASE ScanSegment
    <3>1. pos \in SegmentsOf(params) /\ pc' = "scan" /\ UNCHANGED <<meta, params, merged>>
      BY <2>4 DEF ScanSegment, SegmentsOf
    <3>2. \A i \in Index : ts'[i] = ts[i] \/ (i = pos /\ ~ts[pos].sync /\ ts'[i] = Absent)
      BY <2>4, <3>1 DEF ScanSegment
    <3>3. Owned'
      BY <3>1, <3>2 DEF Owned
    <3>4. Counted'
      <4>1. /\ pos' = pos + 1
            /\ done' = IF ts[pos].sync THEN done \union {pos} ELSE done
        BY <2>4 DEF ScanSegment
      <4>2. \A i \in Index : ts'[i].sync => ts[i].sync
        BY <3>2
      <4>3. \A i \in done' : i \in Index /\ ts[i].sync
        BY <2>4, <3>1, <4>1 DEF ScanSegment, Counted
      <4>4. \A i \in done' : ts'[i].sync
        BY <3>2, <4>3
      <4>5. \A i \in SegmentsOf(params) : i < pos' => i < pos \/ i = pos
        BY <4>1 DEF SegmentsOf
      <4>6. \A i \in SegmentsOf(params) : i < pos' /\ ts'[i].sync => i \in done'
        BY <2>4, <4>1, <4>2, <4>5 DEF ScanSegment, Counted
      <4>7. QED
        BY <3>1, <4>4, <4>6 DEF Counted
    <3>5. QED
      BY <2>4, <3>1, <3>3, <3>4 DEF ScanSegment, Claimed, Copied
  <2>5. CASE Resume
    <3>1. \A i \in SegmentsOf(params) : i < pos
      BY <2>5 DEF Resume, ScanEnds, SegmentsOf
    <3>2. \A i \in done : ts[i].of = params
      BY <2>5 DEF Resume, ScanEnds, Owned, Counted
    <3>3. QED
      BY <2>5, <3>1, <3>2 DEF Resume, ScanEnds, Owned, Claimed, Counted, Copied
  <2>6. CASE Fresh \/ Stale
    <3>1. \A i \in SegmentsOf(params) : i < pos
      BY <2>6 DEF Fresh, Stale, ScanEnds, SegmentsOf
    <3>2. QED
      BY <2>6, <3>1 DEF Fresh, Stale, ScanEnds, Owned, Claimed, Counted, Copied
  <2>7. CASE WipeFile
    BY <2>7 DEF WipeFile, Owned, Claimed, Counted, Copied
  <2>8. CASE WipeEnds
    BY <2>8 DEF WipeEnds, Present, Owned, Claimed, Counted, Copied
  <2>9. CASE SaveMeta
    BY <2>9 DEF SaveMeta, Owned, Claimed, Counted, Copied
  <2>10. CASE Download
    <3>1. PICK i \in SegmentsOf(params) \ done, sync \in BOOLEAN :
            /\ ts' = [ts EXCEPT ![i] = [of |-> params, sync |-> sync]]
            /\ done' = done \union {i}
      BY <2>10 DEF Download
    <3>2. QED
      BY <2>10, <3>1 DEF Download, Owned, Claimed, Counted, Copied
  <2>11. CASE MergeOpen
    BY <2>11 DEF MergeOpen, Owned, Claimed, Counted, Copied
  <2>12. CASE MergeCopy
    <3>1. Copied'
      <4>1. pos \in SegmentsOf(params)
        BY <2>12 DEF MergeCopy, SegmentsOf
      <4>2. ts[pos].of = params
        BY <2>12, <4>1 DEF MergeCopy, Counted
      <4>3. /\ Len(merged') = Len(merged) + 1
            /\ \A k \in 1 .. Len(merged) : merged'[k] = merged[k]
            /\ merged'[Len(merged) + 1] = [of |-> params, idx |-> pos]
        BY <2>12, <4>2 DEF MergeCopy
      <4>4. QED
        BY <2>12, <4>3 DEF MergeCopy, Copied
    <3>2. QED
      BY <2>12, <3>1 DEF MergeCopy, Owned, Claimed, Counted
  <2>13. CASE MergeSkip
    BY <2>13 DEF MergeSkip, Owned, Claimed, Counted, Copied
  <2>14. CASE Flush
    <3>1. CASE complete(Len(merged))
      BY <2>14, <3>1 DEF Flush, Owned, Claimed, Counted, Copied
    <3>2. CASE ~complete(Len(merged))
      BY <2>14, <3>2, OverKeepsDirInv DEF Flush
    <3>3. QED
      BY <3>1, <3>2
  <2>15. CASE CleanFile
    BY <2>15 DEF CleanFile, Absent, Owned, Claimed, Counted, Copied
  <2>16. CASE CleanEnds
    BY <2>16 DEF CleanEnds, Owned, Claimed, Counted, Copied
  <2>17. CASE DeleteMeta \/ DeleteSegments
    BY <2>17 DEF DeleteMeta, DeleteSegments, Absent, Owned, Claimed, Counted, Copied
  <2>18. CASE UNCHANGED vars
    BY <2>18, DirInvStutter
  <2>19. QED
    BY <2>1, <2>2, <2>3, <2>4, <2>5, <2>6, <2>7, <2>8, <2>9, <2>10, <2>11,
       <2>12, <2>13, <2>14, <2>15, <2>16, <2>17, <2>18 DEF Next, RunStep
<1>3. QED
  BY <1>1, <1>2, TypeCorrect, PTL DEF Spec

-----------------------------------------------------------------------------
(* The outputs.                                                             *)

\* An output changes when merge truncates it and when merge flushes it.
LEMMA OutSteps ==
  ASSUME TypeOK, [Next]_vars
  PROVE  \/ UNCHANGED out
         \/ MergeOpen
         \/ Flush
BY DEF Next, RunStep, vars, diskVars, runVars, Run, LoadMeta, Refuse, ScanSegment,
       Resume, Fresh, Stale, WipeFile, WipeEnds, SaveMeta, Download, MergeCopy,
       MergeSkip, CleanFile, CleanEnds, RemoveMeta, Interrupted, DeleteMeta,
       DeleteSegments

\* What Flush writes is a part of what was copied, and all of it unless the
\* disk refuses.
LEMMA FlushWrites ==
  ASSUME TypeOK, Flush
  PROVE  \E k \in 0 .. Len(merged) :
           /\ out' = [out EXCEPT ![OutputOf[params]] = SubSeq(merged, 1, k)]
           /\ ~FlushMayFail => SubSeq(merged, 1, k) = merged
<1> USE DEF TypeOK
<1>1. Len(merged) \in 0 .. Len(merged) /\ SubSeq(merged, 1, Len(merged)) = merged
  <2>1. Len(merged) \in Nat
    BY LenProperties
  <2>2. QED
    BY <2>1, SubSeqFull
<1>2. PICK k \in IF FlushMayFail THEN 0 .. Len(merged) ELSE {Len(merged)} :
         out' = [out EXCEPT ![OutputOf[params]] = SubSeq(merged, 1, k)]
  BY DEF Flush
<1>3. k \in 0 .. Len(merged) /\ (~FlushMayFail => k = Len(merged))
  <2>1. k \in 0 .. Len(merged) \/ (~FlushMayFail /\ k = Len(merged))
    OBVIOUS
  <2>2. ~FlushMayFail => k = Len(merged)
    OBVIOUS
  <2>3. QED
    BY <1>1, <2>1, <2>2, Zenon
<1>4. ~FlushMayFail => SubSeq(merged, 1, k) = merged
  BY <1>1, <1>3
<1>5. QED
  BY <1>2, <1>3, <1>4

\* An output holds segments of one playlist only, one with its file name, however
\* the runs before it ended, whatever the user deleted, and even if the disk
\* refuses a write.
THEOREM OutputUnmixedCorrect == Spec => []OutputUnmixed
<1> USE TaskDirAssumption DEF TypeOK
<1>1. Init => OutputUnmixed
  BY DEF Init, OutputUnmixed
<1>2. TypeOK /\ DirInv /\ OutputUnmixed /\ [Next]_vars => OutputUnmixed'
  <2> SUFFICES ASSUME TypeOK, DirInv, OutputUnmixed, [Next]_vars,
                      NEW o \in Output, NEW j \in DOMAIN out'[o]
               PROVE  out'[o][j].of = out'[o][1].of /\ OutputOf[out'[o][j].of] = o
    BY DEF OutputUnmixed
  <2>1. CASE out'[o] = out[o]
    BY <2>1 DEF OutputUnmixed
  <2>2. CASE MergeOpen
    <3>1. out'[o] = out[o] \/ out'[o] = <<>>
      BY <2>2 DEF MergeOpen
    <3>2. QED
      BY <2>1, <3>1
  <2>3. CASE Flush /\ out'[o] # out[o]
    <3>1. PICK k \in 0 .. Len(merged) :
            out' = [out EXCEPT ![OutputOf[params]] = SubSeq(merged, 1, k)]
      BY <2>3, FlushWrites
    <3>2. o = OutputOf[params] /\ out'[o] = SubSeq(merged, 1, k)
      BY <2>3, <3>1
    <3>3. \A i \in 1 .. Len(merged) : merged[i].of = params
      BY <2>3 DEF Flush, DirInv, Copied
    <3>4. \A i \in DOMAIN SubSeq(merged, 1, k) :
            SubSeq(merged, 1, k)[i].of = params
      BY <3>3
    <3>5. DOMAIN SubSeq(merged, 1, k) = 1 .. k
      OBVIOUS
    <3>6. 1 \in DOMAIN out'[o]
      BY <3>2, <3>5
    <3>7. QED
      BY <3>2, <3>4, <3>6
  <2>4. QED
    BY <2>1, <2>2, <2>3, OutSteps
<1>3. QED
  BY <1>1, <1>2, TypeCorrect, DirInvCorrect, PTL DEF Spec

\* Between the merge and the end of the run, and after it, the output is whole.
WholeWhenMerged ==
  /\ pc \in {"clean", "unclaim"} => Whole(params)
  /\ pc = "idle" /\ result = "ok" => params \in Playlist /\ Whole(params)

\* A complete merge copied the playlist, in order.
LEMMA CompleteIsWhole ==
  ASSUME TypeOK, DirInv, pc = "copy", pos = SegCount[params],
         Len(merged) = SegCount[params]
  PROVE  merged = [k \in 1 .. SegCount[params] |-> [of |-> params, idx |-> k - 1]]
<1>1. merged \in [1 .. SegCount[params] -> Piece]
  BY LenProperties DEF TypeOK
<1>2. ASSUME NEW k \in 1 .. SegCount[params]
      PROVE  merged[k] = [of |-> params, idx |-> k - 1]
  <2>1. merged[k].of = params /\ merged[k].idx = k - 1
    BY DEF DirInv, Copied
  <2>2. merged[k] \in Piece
    BY <1>1
  <2>3. QED
    BY <2>1, <2>2 DEF Piece
<1>3. QED
  BY <1>1, <1>2

\* As long as the disk takes what merge flushes, a step of the merge that says
\* so has made the output whole.
THEOREM WholeWhenMergedCorrect ==
  ASSUME ~FlushMayFail
  PROVE  Spec => []WholeWhenMerged
<1> USE TaskDirAssumption DEF TypeOK
<1>1. Init => WholeWhenMerged
  BY DEF Init, WholeWhenMerged
<1>2. TypeOK /\ DirInv /\ WholeWhenMerged /\ [Next]_vars => WholeWhenMerged'
  <2> SUFFICES ASSUME TypeOK, DirInv, WholeWhenMerged, [Next]_vars
               PROVE  WholeWhenMerged'
    OBVIOUS
  <2>1. CASE Flush
    <3>1. CASE complete(Len(merged))
      <4>1. params \in Playlist /\ out' = [out EXCEPT ![OutputOf[params]] = merged]
        BY <2>1, FlushWrites DEF Flush
      <4>2. merged = [k \in 1 .. SegCount[params] |-> [of |-> params, idx |-> k - 1]]
        BY <2>1, <3>1, CompleteIsWhole DEF Flush, complete
      <4>3. params' = params /\ out'[OutputOf[params]] = merged
        BY <2>1, <3>1, <4>1 DEF Flush, runVars
      <4>4. Whole(params)'
        BY <4>2, <4>3 DEF Whole
      <4>5. QED
        BY <2>1, <3>1, <4>4 DEF Flush, Goto, runVars, WholeWhenMerged
    <3>2. CASE ~complete(Len(merged))
      BY <2>1, <3>2 DEF Flush, Over, WholeWhenMerged
    <3>3. QED
      BY <3>1, <3>2
  <2>2. CASE MergeOpen
    BY <2>2 DEF MergeOpen, Goto, WholeWhenMerged
  <2>3. CASE UNCHANGED out
    <3>1. \A p \in Playlist : Whole(p) => Whole(p)'
      BY <2>3 DEF Whole
    <3>2. \/ pc' \in {"clean", "unclaim"} /\ params' = params /\ pc \in {"clean", "unclaim"}
          \/ pc' = "idle" /\ result' = "ok" /\ params' = params /\ pc = "unclaim"
          \/ pc' = "idle" /\ UNCHANGED <<pc, params, result>>
          \/ pc' = "idle" /\ result' # "ok"
          \/ pc' \notin {"idle", "clean", "unclaim"}
          \/ Flush
      BY DEF Next, RunStep, vars, diskVars, runVars, Goto, Over, Run, LoadMeta,
             Refuse, ScanSegment, Resume, Fresh, Stale, WipeFile, WipeEnds,
             SaveMeta, Download, MergeOpen, MergeCopy, MergeSkip, CleanFile,
             CleanEnds, RemoveMeta, Interrupted, DeleteMeta, DeleteSegments
    <3>3. QED
      BY <2>1, <3>1, <3>2 DEF WholeWhenMerged, Whole
  <2>4. QED
    BY <2>1, <2>2, <2>3, OutSteps
<1>3. QED
  BY <1>1, <1>2, TypeCorrect, DirInvCorrect, PTL DEF Spec

\* A run that reports success leaves its whole playlist behind, in order,
\* provided that the disk takes what merge flushes.
THEOREM OkMeansWholeCorrect ==
  ASSUME ~FlushMayFail
  PROVE  Spec => []OkMeansWhole
<1>1. WholeWhenMerged => OkMeansWhole
  BY DEF WholeWhenMerged, OkMeansWhole
<1>2. Spec => []WholeWhenMerged
  BY WholeWhenMergedCorrect
<1>3. QED
  BY <1>1, <1>2, PTL

\* Then nothing is removed before the output is whole either.
THEOREM RemovedOnlyAfterMergeCorrect ==
  ASSUME ~FlushMayFail
  PROVE  Spec => RemovedOnlyAfterMerge
<1>1. WholeWhenMerged =>
        [(pc \in {"clean", "unclaim"} /\ <<meta, ts>>' # <<meta, ts>>) => Whole(params)]_vars
  BY DEF WholeWhenMerged
<1>2. Spec => []WholeWhenMerged
  BY WholeWhenMergedCorrect
<1>3. QED
  BY <1>1, <1>2, PTL DEF RemovedOnlyAfterMerge

-----------------------------------------------------------------------------
(* The promises of Resumable.                                               *)

\* A segment of the owner is kept, or spare, or not there.
LEMMA KeptOrSpare ==
  ASSUME TypeOK, DirInv, meta # None, NEW i \in SegmentsOf(meta)
  PROVE  /\ i \in Kept <=> ts[i].sync
         /\ i \in Spare <=> Present(i) /\ ~ts[i].sync
         /\ ts[i].sync => Present(i)
<1>1. i \in Index
  BY IndexContains DEF TypeOK
<1>2. ts[i].sync => ts[i] = [of |-> meta, sync |-> TRUE]
  BY <1>1 DEF TypeOK, DirInv, Owned, File, Absent
<1>3. QED
  BY <1>1, <1>2, AbsentHasNoSync DEF Kept, Spare, Present

\* Only these steps touch what the promises are about; the others stutter.
LEMMA PromiseUntouched ==
  ASSUME UNCHANGED <<meta, ts, out>>
  PROVE  UNCHANGED R!dirVars
BY DEF R!dirVars, Kept, Spare, Present, Delivered, Whole

\* When all segments are counted, they are all there.
LEMMA AllCounted ==
  ASSUME TypeOK, DirInv, pc \in {"fetch", "copy"}, done = SegmentsOf(params)
  PROVE  R!AllHere
<1> USE TaskDirAssumption, IndexContains
<1>1. meta = params /\ meta \in Playlist /\ meta # None
  BY DEF TypeOK, DirInv, Claimed
<1>2. \A i \in SegmentsOf(meta) : i \in Index /\ Present(i)
  BY <1>1 DEF TypeOK, DirInv, Counted, Present, Absent
<1>3. \A i \in SegmentsOf(meta) : i \in Kept \/ i \in Spare
  BY <1>1, <1>2, KeptOrSpare
<1>4. Kept \subseteq SegmentsOf(meta) /\ Spare \subseteq SegmentsOf(meta)
  BY DEF Kept, Spare
<1>5. R!SegmentsOf(meta) = SegmentsOf(meta)
  BY DEF R!SegmentsOf, SegmentsOf
<1>6. QED
  BY <1>1, <1>3, <1>4, <1>5 DEF R!AllHere

\* The directory keeps the promises of Resumable, as long as the disk takes
\* what merge flushes: nothing fetched is lost by an interruption, and no
\* playlist loses the directory before it is delivered, but by its user.
THEOREM TaskDirImplementsResumable ==
  ASSUME ~FlushMayFail
  PROVE  Spec => ImplementsResumable
<1> USE TaskDirAssumption, IndexContains
<1>1. Init => R!DirInit
  <2> SUFFICES ASSUME Init PROVE R!DirInit
    OBVIOUS
  <2>1. \A p \in Playlist : ~Whole(p)
    BY DEF Init, Whole
  <2>2. QED
    BY <2>1 DEF Init, R!DirInit, Kept, Spare, Delivered
<1>2. /\ TypeOK /\ TypeOK' /\ DirInv /\ DirInv' /\ WholeWhenMerged
      /\ [Next]_vars
      => [R!DirNext]_(R!dirVars)
  <2> SUFFICES ASSUME TypeOK, TypeOK', DirInv, DirInv', WholeWhenMerged, [Next]_vars
               PROVE  R!DirNext \/ UNCHANGED R!dirVars
    OBVIOUS
  <2>0. \A p \in Playlist : R!SegmentsOf(p) = SegmentsOf(p)
    BY DEF R!SegmentsOf, SegmentsOf
  <2>1. CASE UNCHANGED <<meta, ts, out>>
    BY <2>1, PromiseUntouched
  <2>2. CASE ScanSegment \/ WipeFile
    <3>1. meta \in {None, params} /\ UNCHANGED <<meta, out>>
      BY <2>2 DEF ScanSegment, WipeFile, DirInv, Claimed
    <3>2. CASE meta = None
      BY <3>1, <3>2 DEF R!dirVars, Kept, Spare, Delivered, Whole
    <3>3. CASE meta # None
      <4>1. ScanSegment /\ pos \in SegmentsOf(meta) /\ meta \in Playlist
        BY <2>2, <3>1, <3>3 DEF WipeFile, ScanSegment, SegmentsOf, DirInv, Claimed, TypeOK
      <4>2. CASE ts' = ts
        BY <3>1, <4>2, PromiseUntouched
      <4>3. CASE ts' = [ts EXCEPT ![pos] = Absent] /\ Present(pos) /\ ~ts[pos].sync
        <5>1. pos \in Spare /\ pos \notin Kept
          BY <3>3, <4>1, <4>3, KeptOrSpare
        <5>2. Spare' = Spare \ {pos} /\ Kept' = Kept
          <6>1. pos \in Index /\ ts'[pos] = Absent
            BY <4>1, <4>3 DEF TypeOK
          <6>2. \A i \in Index \ {pos} : ts'[i] = ts[i]
            BY <4>3 DEF TypeOK
          <6>3. ts[pos] # [of |-> meta, sync |-> TRUE]
            BY <4>3
          <6>4. ts'[pos] # [of |-> meta, sync |-> TRUE]
            BY <6>1, AbsentHasNoSync
          <6>5. Kept' = Kept
            BY <3>1, <6>1, <6>2, <6>3, <6>4 DEF Kept
          <6>6. Spare' = Spare \ {pos}
            BY <3>1, <6>1, <6>2 DEF Spare, Present, Absent
          <6>7. QED
            BY <6>5, <6>6
        <5>3. R!DropSpare(pos)
          BY <3>1, <5>1, <5>2 DEF R!DropSpare, Delivered, Whole
        <5>4. QED
          BY <2>0, <4>1, <5>3 DEF R!DirNext
      <4>4. QED
        BY <4>1, <4>2, <4>3 DEF ScanSegment
    <3>4. QED
      BY <3>2, <3>3
  <2>3. CASE SaveMeta
    <3>1. meta = None /\ meta' = params /\ params \in Playlist /\ UNCHANGED <<ts, out>>
      BY <2>3 DEF SaveMeta, DirInv, Claimed, TypeOK
    <3>2. Kept = {} /\ Kept' = {} /\ Spare = {} /\ Spare' \subseteq SegmentsOf(params)
      BY <2>3, <3>1 DEF SaveMeta, DirInv, Counted, Kept, Spare
    <3>3. R!Claim(params)
      BY <2>0, <3>1, <3>2 DEF R!Claim, Delivered, Whole
    <3>4. QED
      BY <3>1, <3>3 DEF R!DirNext
  <2>4. CASE Download
    <3>1. PICK i \in SegmentsOf(params) \ done, sync \in BOOLEAN :
            /\ ts' = [ts EXCEPT ![i] = [of |-> params, sync |-> sync]]
            /\ UNCHANGED <<meta, out>>
      BY <2>4 DEF Download
    <3>2. meta = params /\ params \in Playlist /\ params # None /\ i \in Index
      BY <2>4, <3>1 DEF Download, DirInv, Claimed, TypeOK
    <3>3. i \in SegmentsOf(meta) /\ i \notin Kept
      BY <2>4, <3>1, <3>2 DEF Download, DirInv, Counted, Kept
    <3>4. ts'[i] = [of |-> meta, sync |-> sync] /\ \A j \in Index \ {i} : ts'[j] = ts[j]
      BY <3>1, <3>2 DEF TypeOK
    <3>5. \/ Kept' = Kept \union {i} /\ Spare' = Spare \ {i}
          \/ Kept' = Kept /\ Spare' = Spare \union {i}
      <4>1. CASE sync = TRUE
        <5>1. ts'[i] = [of |-> meta, sync |-> TRUE] /\ ts'[i].sync
          BY <3>4, <4>1
        <5>2. Kept' = Kept \union {i}
          BY <3>1, <3>2, <3>3, <3>4, <5>1 DEF Kept
        <5>3. Spare' = Spare \ {i}
          BY <3>1, <3>2, <3>3, <3>4, <5>1 DEF Spare, Present
        <5>4. QED
          BY <5>2, <5>3
      <4>2. CASE sync = FALSE
        <5>1. /\ ts'[i] # [of |-> meta, sync |-> TRUE]
              /\ ~ts'[i].sync /\ ts'[i] # Absent
          BY <3>2, <3>4, <4>2 DEF Absent
        <5>2. Kept' = Kept
          BY <3>1, <3>3, <3>4, <5>1 DEF Kept
        <5>3. Spare' = Spare \union {i}
          BY <3>1, <3>2, <3>3, <3>4, <5>1 DEF Spare, Present
        <5>4. QED
          BY <5>2, <5>3
      <4>3. QED
        BY <4>1, <4>2
    <3>6. R!Fetched(i)
      BY <2>0, <3>1, <3>2, <3>3, <3>5 DEF R!Fetched, Delivered, Whole
    <3>7. QED
      BY <2>0, <3>2, <3>3, <3>6 DEF R!DirNext
  <2>5. CASE MergeOpen
    <3>1. R!AllHere /\ meta = params /\ params \in Playlist /\ UNCHANGED <<meta, ts>>
      BY <2>5, AllCounted DEF MergeOpen, DirInv, Claimed, TypeOK
    <3>2. out' = [out EXCEPT ![OutputOf[params]] = <<>>]
      BY <2>5, <3>1 DEF MergeOpen
    <3>3. Delivered' = Delivered \ R!Rivals(params)
      <4>1. \A p \in Playlist \ R!Rivals(params) : Whole(p)' <=> Whole(p)
        BY <3>1, <3>2 DEF TypeOK, Whole, R!Rivals
      <4>2. ASSUME NEW p \in R!Rivals(params) PROVE ~Whole(p)'
        <5>1. out'[OutputOf[p]] = <<>> /\ SegCount[p] \in Nat \ {0}
          BY <3>1, <3>2, <4>2 DEF TypeOK, R!Rivals
        <5>2. out'[OutputOf[p]] # [k \in 1 .. SegCount[p] |-> [of |-> p, idx |-> k - 1]]
          BY <5>1
        <5>3. QED
          BY <5>2 DEF Whole
      <4>3. QED
        BY <4>1, <4>2 DEF Delivered, R!Rivals
    <3>4. R!Rewrite
      BY <3>1, <3>3 DEF R!Rewrite, Kept, Spare, Present
    <3>5. QED
      BY <3>4 DEF R!DirNext
  <2>6. CASE Flush
    <3>1. R!AllHere /\ meta = params /\ params \in Playlist /\ UNCHANGED <<meta, ts>>
      BY <2>6, AllCounted DEF Flush, DirInv, Claimed, Counted, TypeOK
    <3>2. PICK n \in 0 .. Len(merged) :
            out' = [out EXCEPT ![OutputOf[params]] = SubSeq(merged, 1, n)]
      BY <2>6, FlushWrites
    <3>3. \/ Delivered' = (Delivered \ R!Rivals(params)) \union {params}
          \/ Delivered' = Delivered \ R!Rivals(params)
      <4>1. \A p \in Playlist \ R!Rivals(params) : Whole(p)' <=> Whole(p)
        BY <3>1, <3>2 DEF TypeOK, Whole, R!Rivals
      <4>2. ASSUME NEW p \in R!Rivals(params), p # params PROVE ~Whole(p)'
        <5>1. out'[OutputOf[p]] = SubSeq(merged, 1, n) /\ SegCount[p] \in Nat \ {0}
          BY <3>1, <3>2, <4>2 DEF TypeOK, R!Rivals
        <5>2. \A k \in 1 .. Len(merged) : merged[k].of = params
          BY <2>6 DEF Flush, DirInv, Copied
        <5>3. /\ DOMAIN SubSeq(merged, 1, n) = 1 .. n
              /\ \A k \in 1 .. n : SubSeq(merged, 1, n)[k].of = params
          BY <5>2 DEF TypeOK
        <5> DEFINE list == [k \in 1 .. SegCount[p] |-> [of |-> p, idx |-> k - 1]]
        <5>4. DOMAIN list = 1 .. SegCount[p] /\ 1 \in DOMAIN list /\ list[1].of = p
          BY <5>1
        <5> HIDE DEF list
        <5>5. SubSeq(merged, 1, n) # list
          BY <4>2, <5>3, <5>4
        <5>6. QED
          BY <5>1, <5>5 DEF Whole, list
      <4>3. params \in R!Rivals(params)
        BY <3>1 DEF R!Rivals
      <4>4. QED
        BY <3>1, <4>1, <4>2, <4>3 DEF Delivered, R!Rivals
    <3>4. UNCHANGED <<Kept, Spare>>
      BY <3>1 DEF Kept, Spare, Present
    <3>5. R!Deliver \/ R!Rewrite
      BY <3>1, <3>3, <3>4 DEF R!Deliver, R!Rewrite
    <3>6. QED
      BY <3>5 DEF R!DirNext
  <2>7. CASE CleanFile
    <3>1. meta = params /\ params \in Playlist /\ Whole(params) /\ UNCHANGED <<meta, out>>
      BY <2>7 DEF CleanFile, DirInv, Claimed, TypeOK, WholeWhenMerged
    <3>2. \A i \in Index : ts'[i] = ts[i] \/ ts'[i] = Absent
      BY <2>7 DEF CleanFile, TypeOK
    <3>3. Kept' \subseteq Kept /\ Spare' \subseteq Spare
      <4>1. Absent # [of |-> meta, sync |-> TRUE]
        BY AbsentHasNoSync
      <4>2. Kept' \subseteq Kept
        BY <3>1, <3>2, <4>1 DEF Kept
      <4>3. Spare' \subseteq Spare
        BY <3>1, <3>2 DEF Spare, Present
      <4>4. QED
        BY <4>2, <4>3
    <3>4. R!Discard
      BY <3>1, <3>3 DEF R!Discard, Delivered, Whole
    <3>5. QED
      BY <3>4 DEF R!DirNext
  <2>8. CASE RemoveMeta
    <3>1. meta = params /\ params \in Playlist /\ Whole(params)
      BY <2>8 DEF RemoveMeta, DirInv, Claimed, TypeOK, WholeWhenMerged
    <3>2. meta' = None /\ Kept' = {} /\ Spare' = {} /\ UNCHANGED out
      BY <2>8 DEF RemoveMeta, Kept, Spare
    <3>3. R!Release
      BY <3>1, <3>2 DEF R!Release, Delivered, Whole
    <3>4. QED
      BY <3>3 DEF R!DirNext
  <2>9. CASE DeleteMeta
    <3>1. R!GiveUpClaim
      BY <2>9 DEF DeleteMeta, R!GiveUpClaim, Kept, Spare, Delivered, Whole
    <3>2. QED
      BY <3>1 DEF R!DirNext
  <2>10. CASE DeleteSegments
    <3>1. R!GiveUpContent
      BY <2>10, AbsentHasNoSync
         DEF DeleteSegments, R!GiveUpContent, Kept, Spare, Present,
             Delivered, Whole
    <3>2. QED
      BY <3>1 DEF R!DirNext
  <2>11. QED
    BY <2>1, <2>2, <2>3, <2>4, <2>5, <2>6, <2>7, <2>8, <2>9, <2>10
       DEF Next, RunStep, vars, diskVars, runVars, Goto, Over, Run, LoadMeta,
           Refuse, Resume, Fresh, Stale, WipeEnds, MergeCopy, MergeSkip,
           CleanEnds, Interrupted
<1>3. Spec => []WholeWhenMerged
  BY WholeWhenMergedCorrect
<1>4. QED
  BY <1>1, <1>2, <1>3, TypeCorrect, DirInvCorrect, PTL
     DEF Spec, ImplementsResumable, R!DirSpec
=============================================================================
