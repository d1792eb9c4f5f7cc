------------------------------- MODULE TaskDir -------------------------------
(***************************************************************************)
(* One output directory through any number of runs of m3u8, of which each  *)
(* may be killed or fail at any step: the metadata file, the segments in   *)
(* ts/ and the merged output (dl/downloader.go, dl/resume.go,              *)
(* dl/taskmeta.go).                                                        *)
(*                                                                         *)
(* A playlist stands for what the metadata compare: url, file name and     *)
(* number of segments.  The output is named after the file name alone, so  *)
(* playlists may share one.  A segment file is known by the playlist it came *)
(* from and by its first byte: without the sync byte the next run does not *)
(* reuse it.  Temporary files are left out: only the rename makes a        *)
(* segment or the metadata, and a leftover is overwritten.  Downloads are  *)
(* in any order; Downloader has the goroutines.                            *)
(***************************************************************************)
EXTENDS Integers, Sequences, FiniteSets

CONSTANTS Playlist,       \* the arguments the user runs m3u8 with
          SegCount,       \* the number of segments of each
          Output,         \* the base names of output files
          OutputOf,       \* the one that the file name of each playlist resolves to
          FlushMayFail,   \* the disk may refuse what merge flushes last
          None

ASSUME TaskDirAssumption ==
  /\ SegCount \in [Playlist -> Nat \ {0}]   \* parser.go:39 refuses 0
  /\ OutputOf \in [Playlist -> Output]
  /\ FlushMayFail \in BOOLEAN
  /\ None \notin Playlist

VARIABLES
  meta,      \* the playlist in .m3u8-task.json, or None
  ts,        \* ts/: each segment file, or Absent
  out,       \* each output file, as the segments that are in it
  pc,        \* where the run is; "idle" when there is none
  params,    \* the arguments of the run
  done,      \* the segments found complete or downloaded by the run
  pos,       \* the index of the scan and merge loops
  merged,    \* what merge has given to its buffered writer
  result     \* what the last run told its user

diskVars == <<meta, ts, out>>
runVars  == <<params, done, pos, merged>>
vars     == <<diskVars, pc, runVars, result>>

SegmentsOf(p) == 0 .. SegCount[p] - 1
Index         == UNION {SegmentsOf(p) : p \in Playlist}
File          == [of : Playlist, sync : BOOLEAN]
Piece         == [of : Playlist, idx : Index]   \* of an output
Absent        == [of |-> None, sync |-> FALSE]
Present(i)    == ts[i] # Absent

Init ==
  /\ meta = None
  /\ ts = [i \in Index |-> Absent]
  /\ out = [o \in Output |-> <<>>]
  /\ pc = "idle" /\ result = "none"
  /\ params = None /\ done = {} /\ pos = 0 /\ merged = <<>>

Goto(l) == pc' = l /\ UNCHANGED result

\* The run is over; what it had in memory is gone.
Over(r) ==
  /\ pc' = "idle" /\ result' = r
  /\ done' = {} /\ pos' = 0 /\ merged' = <<>>
  /\ params' = IF r = "ok" THEN params ELSE None

-----------------------------------------------------------------------------
(* NewTaskFromResult: metadata, scan, wipe.                                 *)

Run(p) ==
  /\ pc = "idle"
  /\ Goto("load")
  /\ params' = p
  /\ UNCHANGED <<diskVars, done, pos, merged>>

\* LoadTaskMeta and ValidateTaskMeta.
LoadMeta ==
  /\ pc = "load" /\ meta \in {None, params}
  /\ Goto("scan")
  /\ UNCHANGED <<diskVars, runVars>>

Refuse ==
  /\ pc = "load" /\ meta \notin {None, params}
  /\ Over("refused")
  /\ UNCHANGED diskVars

\* A segment without sync byte is removed; an error of the removal is dropped.
ScanSegment ==
  /\ pc = "scan" /\ pos < SegCount[params]
  /\ pos' = pos + 1
  /\ done' = IF ts[pos].sync THEN done \union {pos} ELSE done
  /\ ts' \in IF Present(pos) /\ ~ts[pos].sync
             THEN {ts, [ts EXCEPT ![pos] = Absent]} ELSE {ts}
  /\ UNCHANGED <<meta, out, pc, params, merged, result>>

ScanEnds == pc = "scan" /\ pos = SegCount[params] /\ pos' = 0

Resume ==
  /\ ScanEnds /\ meta = params
  /\ Goto("fetch")
  /\ UNCHANGED <<diskVars, params, done, merged>>

Fresh ==
  /\ ScanEnds /\ meta = None /\ done = {}
  /\ Goto("save")
  /\ UNCHANGED <<diskVars, params, done, merged>>

\* Mutation: the metadata are saved before the segments are wiped.
Stale_SaveFirst ==
  /\ ScanEnds /\ meta = None /\ done # {}
  /\ Goto("wipe")
  /\ done' = {} /\ meta' = params
  /\ UNCHANGED <<ts, out, params, merged>>

\* Segments without metadata belong to nobody.
Stale ==
  /\ ScanEnds /\ meta = None /\ done # {}
  /\ Goto("wipe")
  /\ done' = {}
  /\ UNCHANGED <<diskVars, params, merged>>

WipeFile ==
  /\ pc = "wipe"
  /\ \E i \in Index : Present(i) /\ ts' = [ts EXCEPT ![i] = Absent]
  /\ UNCHANGED <<meta, out, pc, runVars, result>>

WipeEnds ==
  /\ pc = "wipe" /\ \A i \in Index : ~Present(i)
  /\ Goto("save")
  /\ UNCHANGED <<diskVars, runVars>>

SaveMeta ==
  /\ pc = "save"
  /\ meta' = params
  /\ Goto("fetch")
  /\ UNCHANGED <<ts, out, runVars>>

-----------------------------------------------------------------------------
(* Start: download and merge.                                               *)

\* Mutation: the file is named after the next segment.
Download_NextName ==
  /\ pc = "fetch"
  /\ \E i \in SegmentsOf(params) \ done, sync \in BOOLEAN :
       /\ i + 1 \in Index
       /\ ts' = [ts EXCEPT ![i + 1] = [of |-> params, sync |-> sync]]
       /\ done' = done \union {i + 1}
  /\ UNCHANGED <<meta, out, pc, params, pos, merged, result>>

\* A goroutine renames its temporary file; the bytes before the first sync
\* byte were cut off, if there is one.
Download ==
  /\ pc = "fetch"
  /\ \E i \in SegmentsOf(params) \ done, sync \in BOOLEAN :
       /\ ts' = [ts EXCEPT ![i] = [of |-> params, sync |-> sync]]
       /\ done' = done \union {i}
  /\ UNCHANGED <<meta, out, pc, params, pos, merged, result>>

\* os.Create truncates the output of an earlier run, also one of another
\* playlist with the same file name.  What the buffered writer
\* hands on before the flush is not told apart from an empty file.
MergeOpen ==
  /\ pc = "fetch" /\ done = SegmentsOf(params)
  /\ out' = [out EXCEPT ![OutputOf[params]] = <<>>]
  /\ Goto("copy")
  /\ UNCHANGED <<meta, ts, runVars>>

\* Mutation: a segment is removed as soon as it is copied.
MergeCopy_Removes ==
  /\ pc = "copy" /\ pos < SegCount[params] /\ Present(pos)
  /\ merged' = Append(merged, [of |-> ts[pos].of, idx |-> pos])
  /\ ts' = [ts EXCEPT ![pos] = Absent]
  /\ pos' = pos + 1
  /\ UNCHANGED <<meta, out, pc, params, done, result>>

MergeCopy ==
  /\ pc = "copy" /\ pos < SegCount[params] /\ Present(pos)
  /\ merged' = Append(merged, [of |-> ts[pos].of, idx |-> pos])
  /\ pos' = pos + 1
  /\ UNCHANGED <<diskVars, pc, params, done, result>>

\* The file cannot be opened or read: the loop goes on without it.
MergeSkip ==
  /\ pc = "copy" /\ pos < SegCount[params]
  /\ pos' = pos + 1
  /\ UNCHANGED <<diskVars, pc, params, done, merged, result>>

\* Mutation: the number of merged segments is not compared.
complete_M(count) == TRUE
complete(count) == count = SegCount[params]

\* Flush, whose error is dropped: the tail of what the writer was given may not
\* reach the disk.
Flush ==
  /\ pc = "copy" /\ pos = SegCount[params]
  /\ \E k \in IF FlushMayFail THEN 0 .. Len(merged) ELSE {Len(merged)} :
       out' = [out EXCEPT ![OutputOf[params]] = SubSeq(merged, 1, k)]
  /\ IF complete(Len(merged))
     THEN Goto("clean") /\ UNCHANGED runVars
     ELSE Over("error")
  /\ UNCHANGED <<meta, ts>>

\* RemoveAll takes the files one by one and may stop; its error is dropped.
CleanFile ==
  /\ pc = "clean"
  /\ \E i \in Index : Present(i) /\ ts' = [ts EXCEPT ![i] = Absent]
  /\ UNCHANGED <<meta, out, pc, runVars, result>>

CleanEnds ==
  /\ pc = "clean"
  /\ Goto("unclaim")
  /\ UNCHANGED <<diskVars, runVars>>

\* Mutation: the metadata file stays.
RemoveMeta_Not ==
  /\ pc = "unclaim"
  /\ Over("ok")
  /\ UNCHANGED diskVars

RemoveMeta ==
  /\ pc = "unclaim"
  /\ meta' = None
  /\ Over("ok")
  /\ UNCHANGED <<ts, out>>

\* A kill, a cancellation, a segment given up, or an error of the file system
\* that the code returns: the disk stays as it is.
Interrupted ==
  /\ pc # "idle"
  /\ Over("error")
  /\ UNCHANGED diskVars

-----------------------------------------------------------------------------
(* The user follows the advice of the refusal (taskmeta.go:88), whole or in *)
(* part.                                                                    *)

DeleteMeta ==
  /\ pc = "idle" /\ meta # None
  /\ meta' = None
  /\ UNCHANGED <<ts, out, pc, runVars, result>>

DeleteSegments ==
  /\ pc = "idle" /\ \E i \in Index : Present(i)
  /\ ts' = [i \in Index |-> Absent]
  /\ UNCHANGED <<meta, out, pc, runVars, result>>

-----------------------------------------------------------------------------
RunStep ==
  \/ LoadMeta \/ Refuse \/ ScanSegment \/ Resume \/ Fresh \/ Stale
  \/ WipeFile \/ WipeEnds \/ SaveMeta
  \/ Download \/ MergeOpen \/ MergeCopy \/ MergeSkip \/ Flush
  \/ CleanFile \/ CleanEnds \/ RemoveMeta

Next ==
  \/ \E p \in Playlist : Run(p)
  \/ RunStep \/ Interrupted \/ DeleteMeta \/ DeleteSegments

\* A run that is not interrupted goes on, and the user tries again
\* (README.md:130).
Fairness == WF_vars(RunStep) /\ \A p \in Playlist : SF_vars(Run(p))

Spec     == Init /\ [][Next]_vars
FairSpec == Spec /\ Fairness

-----------------------------------------------------------------------------
(* Safety.                                                                  *)

\* Every variable keeps its type, and the indices belong to the playlist of
\* the run, if there is one.
TypeOK ==
  /\ meta \in Playlist \union {None}
  /\ ts \in [Index -> File \union {Absent}]
  /\ out \in [Output -> Seq(Piece)]
  /\ pc \in {"idle", "load", "scan", "wipe", "save", "fetch", "copy", "clean",
             "unclaim"}
  /\ params \in Playlist \union {None}
  /\ pc # "idle" => params # None
  /\ done \subseteq IF pc = "idle" THEN {} ELSE SegmentsOf(params)
  /\ pos \in 0 .. IF pc = "idle" THEN 0 ELSE SegCount[params]
  /\ merged \in Seq(Piece)
  /\ result \in {"none", "ok", "refused", "error"}

Whole(p) ==
  out[OutputOf[p]] = [k \in 1 .. SegCount[p] |-> [of |-> p, idx |-> k - 1]]

\* Whatever was interrupted, and whatever the user deleted in between, an output
\* holds segments of one playlist only, one with its file name
\* (TestNewTask_noMetaStaleTS tries one such case).
OutputUnmixed ==
  \A o \in Output : \A k \in DOMAIN out[o] :
    out[o][k].of = out[o][1].of /\ OutputOf[out[o][k].of] = o

\* A run that reports success leaves its whole playlist behind, in order.
OkMeansWhole == result = "ok" /\ pc = "idle" => Whole(params)

\* downloader.go:433: "Remove `ts` folder and task meta only after successful
\* merge".  What merge removes, a segment or the metadata, it removes with the
\* whole playlist in its output.
RemovedOnlyAfterMerge ==
  [][(pc \in {"clean", "unclaim"} /\ <<meta, ts>>' # <<meta, ts>>) => Whole(params)]_vars

\* What the segments in ts/ are to the owner of the directory.
Kept ==
  {i \in Index : meta # None /\ i \in SegmentsOf(meta) /\ ts[i] = [of |-> meta, sync |-> TRUE]}
Spare ==
  {i \in Index : meta # None /\ i \in SegmentsOf(meta) /\ Present(i) /\ ~ts[i].sync}

Delivered == {p \in Playlist : Whole(p)}

R == INSTANCE Resumable WITH
       owner <- meta, kept <- Kept, spare <- Spare, delivered <- Delivered

\* The directory keeps the promises of Resumable.
ImplementsResumable == R!DirSpec

-----------------------------------------------------------------------------
(* Liveness.                                                                *)

\* Once the runs are no longer interrupted, a user who runs each of the
\* playlists again and again gets each of them at some time, whatever earlier
\* runs left: no leftover makes m3u8 refuse for ever (README.md:130).
EveryoneDelivered ==
  <>[][~(Interrupted \/ MergeSkip)]_vars => \A p \in Playlist : <>Whole(p)
=============================================================================
