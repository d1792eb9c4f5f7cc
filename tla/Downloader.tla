------------------------------ MODULE Downloader ------------------------------
(***************************************************************************)
(* One call of Downloader.Start (dl/downloader.go): the dispatch loop, the *)
(* goroutines it spawns, the merge and the optional conversion, with the   *)
(* cancellation context of the API server, which may be cancelled at any   *)
(* moment.                                                                 *)
(*                                                                         *)
(* Goroutines are taken from a pool of identifiers; the pool is larger     *)
(* than the number of goroutines the code ever has alive at once, which    *)
(* PoolSuffices states.  Segment contents, URLs and decryption are         *)
(* abstracted to "the attempt succeeds or fails".                          *)
(***************************************************************************)
EXTENDS Integers, Sequences, FiniteSets

CONSTANTS SegLen,       \* d.segLen, the number of segments of the playlist
          Concurrency,  \* the argument of Start, the capacity of limitChan
          MaxRetry,     \* d.maxRetry
          ToMP4,        \* the argument of Start
          Goroutine     \* identifiers of download goroutines

ASSUME DownloaderAssumption ==
  /\ SegLen \in Nat
  /\ Concurrency \in Nat \ {0}   \* Start refuses the rest (downloader.go:160)
  /\ MaxRetry \in Nat            \* the CLI refuses the rest, the API passes 10
  /\ ToMP4 \in BOOLEAN
  /\ IsFiniteSet(Goroutine)
  /\ Cardinality(Goroutine) > Concurrency

Seg == 0 .. SegLen - 1

VARIABLES
  queue,      \* d.queue
  retries,    \* d.retries
  failed,     \* the keys of d.failed
  finish,     \* d.finish
  tokens,     \* len(limitChan)
  gpc,        \* where each goroutine is; "idle" when it does not exist
  gseg,       \* the segment each goroutine was spawned for
  pc,         \* where Start is
  cancelled,  \* d.cancelCtx.Err() # nil
  files,      \* the segments whose final file is in ts/
  meta,       \* .m3u8-task.json exists
  outputs,    \* the output files that exist: "ts", "mp4"
  pos,        \* segIndex of the merge loop
  merged,     \* the segments copied into the merge writer, in order
  result,     \* what Start returned
  finished    \* history: the segments whose attempt has counted in finish

queueVars == <<queue, retries, failed>>
poolVars  == <<gpc, gseg>>
diskVars  == <<files, meta, outputs>>
mergeVars == <<pos, merged>>
vars == <<queueVars, finish, tokens, poolVars, pc, cancelled, diskVars,
          mergeVars, result, finished>>

DownloadSteps == {"start", "fetch", "renamed", "erred"}
GPC    == {"idle", "tail"} \union DownloadSteps
PC     == {"loop", "send", "cancelwait", "wait", "merge", "copy", "clean",
           "meta", "convert", "unlink", "done"}
Result == {"none", "ok", "cancelled", "gaveup", "merge_error", "meta_error",
           "convert_error", "unlink_error"}

\* The goroutines that exist, and those of them that still own a segment: a
\* "tail" has only its receive from limitChan left.
Alive   == {g \in Goroutine : gpc[g] # "idle"}
Working == {g \in Goroutine : gpc[g] \in DownloadSteps}
Busy    == {gseg[g] : g \in Working}
Queued  == {queue[k] : k \in DOMAIN queue}

-----------------------------------------------------------------------------
\* buildQueue: the segments that are not complete, in ascending order.
buildQueue(completed) ==
  LET todo == Seg \ completed
  IN {q \in [1 .. Cardinality(todo) -> todo] :
        /\ \A j, k \in DOMAIN q : j < k => q[j] < q[k]
        /\ \A i \in todo : \E k \in DOMAIN q : q[k] = i}

finishOfResume(completed) == Cardinality(completed)

\* NewTaskFromResult has returned: some segments were found complete in ts/.
Init ==
  /\ \E completed \in SUBSET Seg :
       /\ queue \in buildQueue(completed)
       /\ finish = finishOfResume(completed)
       /\ files = completed
       /\ finished = completed
  /\ retries = [i \in Seg |-> 0]
  /\ failed = {}
  /\ tokens = 0
  /\ gpc = [g \in Goroutine |-> "idle"]
  /\ gseg = [g \in Goroutine |-> 0]
  /\ pc = "loop"
  /\ cancelled = FALSE
  /\ meta = TRUE
  /\ outputs \in SUBSET {"ts", "mp4"}   \* an earlier run may have left some
  /\ pos = 0
  /\ merged = <<>>
  /\ result = "none"

-----------------------------------------------------------------------------
(* Start: the dispatch loop.                                               *)

Return(r) == pc' = "done" /\ result' = r
Goto(l)   == pc' = l /\ UNCHANGED result

\* The caller cancels the task's context; nothing obliges it to.
Cancel ==
  /\ ~cancelled /\ pc # "done"
  /\ cancelled' = TRUE
  /\ UNCHANGED <<queueVars, finish, tokens, poolVars, pc, diskVars, mergeVars,
                 result, finished>>

StopDispatch ==
  /\ pc = "loop" /\ cancelled
  /\ Goto("cancelwait")
  /\ UNCHANGED <<queueVars, finish, tokens, poolVars, cancelled, diskVars,
                 mergeVars, finished>>

\* next() pops the queue and the goroutine is spawned, before the send on
\* limitChan that is to bound how many there are.
Spawn ==
  /\ pc = "loop" /\ ~cancelled
  /\ queue # <<>>
  /\ \E g \in Goroutine :
       /\ gpc[g] = "idle"
       /\ gpc' = [gpc EXCEPT ![g] = "start"]
       /\ gseg' = [gseg EXCEPT ![g] = Head(queue)]
  /\ queue' = Tail(queue)
  /\ Goto("send")
  /\ UNCHANGED <<retries, failed, finish, tokens, cancelled, diskVars,
                 mergeVars, finished>>

\* The end flag of next(): the queue is empty and every segment is finished or
\* given up.  (When some are still running the loop sleeps and asks again: a
\* stuttering step.)  Mutation: the end is an empty queue.
end_M == queue = <<>>
end ==
  /\ queue = <<>>
  /\ finish = SegLen \/ finish + Cardinality(failed) = SegLen

StopAtEnd ==
  /\ pc = "loop" /\ ~cancelled
  /\ end
  /\ Goto("wait")
  /\ UNCHANGED <<queueVars, finish, tokens, poolVars, cancelled, diskVars,
                 mergeVars, finished>>

\* limitChan <- struct{}{} blocks while the channel is full.  Mutations: a
\* channel without bound; a send that gives up on a full channel.
SendToken_Unbounded ==
  /\ pc = "send"
  /\ tokens' = tokens + 1
  /\ Goto("loop")
  /\ UNCHANGED <<queueVars, finish, poolVars, cancelled, diskVars, mergeVars,
                 finished>>

SendToken_Default ==
  /\ pc = "send"
  /\ tokens' = IF tokens < Concurrency THEN tokens + 1 ELSE tokens
  /\ Goto("loop")
  /\ UNCHANGED <<queueVars, finish, poolVars, cancelled, diskVars, mergeVars,
                 finished>>
SendToken ==
  /\ pc = "send"
  /\ tokens < Concurrency
  /\ tokens' = tokens + 1
  /\ Goto("loop")
  /\ UNCHANGED <<queueVars, finish, poolVars, cancelled, diskVars, mergeVars,
                 finished>>

\* wg.Wait(), on the cancelled path and on the normal one.  Mutation: merge
\* without looking at d.failed or at the context.
WaitAll_M ==
  /\ pc = "wait" /\ Alive = {}
  /\ \/ cancelled /\ Return("cancelled")
     \/ ~cancelled /\ Goto("merge")
  /\ UNCHANGED <<queueVars, finish, tokens, poolVars, cancelled, diskVars,
                 mergeVars, finished>>

WaitCancelled ==
  /\ pc = "cancelwait" /\ Alive = {}
  /\ Return("cancelled")
  /\ UNCHANGED <<queueVars, finish, tokens, poolVars, cancelled, diskVars,
                 mergeVars, finished>>

WaitAll ==
  /\ pc = "wait" /\ Alive = {}
  /\ \/ cancelled /\ Return("cancelled")
     \/ ~cancelled /\ failed # {} /\ Return("gaveup")
     \/ ~cancelled /\ failed = {} /\ Goto("merge")
  /\ UNCHANGED <<queueVars, finish, tokens, poolVars, cancelled, diskVars,
                 mergeVars, finished>>

-----------------------------------------------------------------------------
(* merge.  Its count of missing files is only printed.                     *)

MergeOpen ==
  /\ pc = "merge"
  /\ \/ cancelled /\ Return("cancelled") /\ UNCHANGED outputs
     \/ ~cancelled /\ Return("merge_error") /\ UNCHANGED outputs \* os.Create
     \/ ~cancelled /\ Goto("copy") /\ outputs' = outputs \union {"ts"}
  /\ UNCHANGED <<queueVars, finish, tokens, poolVars, cancelled, files, meta,
                 mergeVars, finished>>

\* One round of the copy loop: a segment that cannot be opened or copied is
\* skipped.  Mutation: the loop does not look at the context.
MergeSegment_M ==
  /\ pc = "copy" /\ pos < SegLen
  /\ pos' = pos + 1
  /\ merged' = IF pos \in files THEN Append(merged, pos) ELSE merged
  /\ UNCHANGED <<queueVars, finish, tokens, poolVars, pc, result, cancelled,
                 diskVars, finished>>

MergeSegment ==
  /\ pc = "copy" /\ pos < SegLen
  /\ \/ /\ cancelled
        /\ Return("cancelled")
        /\ UNCHANGED <<pos, merged>>
     \/ /\ ~cancelled
        /\ pos' = pos + 1
        /\ \/ pos \in files /\ merged' = Append(merged, pos)
           \/ UNCHANGED merged
        /\ UNCHANGED <<pc, result>>
  /\ UNCHANGED <<queueVars, finish, tokens, poolVars, cancelled, diskVars,
                 finished>>

\* The segments copied to the writer are counted, whatever its Flush returns.
\* Mutation: a short merge is only a warning.
mergeShort_M == FALSE
mergeShort == Len(merged) # SegLen

MergeCount ==
  /\ pc = "copy" /\ pos = SegLen
  /\ IF mergeShort THEN Return("merge_error") ELSE Goto("clean")
  /\ UNCHANGED <<queueVars, finish, tokens, poolVars, cancelled, diskVars,
                 mergeVars, finished>>

\* os.RemoveAll(d.tsFolder): what it fails to remove is not noticed.
RemoveTS ==
  /\ pc = "clean"
  /\ files' \in SUBSET files
  /\ Goto("meta")
  /\ UNCHANGED <<queueVars, finish, tokens, poolVars, cancelled, meta, outputs,
                 mergeVars, finished>>

\* RemoveTaskMeta, the return of merge and the check of the context after it.
RemoveMeta ==
  /\ pc = "meta"
  /\ \/ UNCHANGED meta /\ Return("meta_error")
     \/ meta' = FALSE /\ cancelled /\ Return("cancelled")
     \/ meta' = FALSE /\ ~cancelled /\ ToMP4 /\ Goto("convert")
     \/ meta' = FALSE /\ ~cancelled /\ ~ToMP4 /\ Return("ok")
  /\ UNCHANGED <<queueVars, finish, tokens, poolVars, cancelled, files,
                 outputs, mergeVars, finished>>

\* tool.ConvertTSToMP4, then os.Remove(d.outputTS).  Neither looks at the
\* context; a failed conversion may leave a partial file.  Mutation: it is
\* reported as success.
Convert_M ==
  /\ pc = "convert"
  /\ \/ outputs' = outputs \union {"mp4"} /\ Goto("unlink")
     \/ outputs' \in {outputs, outputs \union {"mp4"}} /\ Return("ok")
  /\ UNCHANGED <<queueVars, finish, tokens, poolVars, cancelled, files, meta,
                 mergeVars, finished>>

Convert ==
  /\ pc = "convert"
  /\ \/ outputs' = outputs \union {"mp4"} /\ Goto("unlink")
     \/ /\ outputs' \in {outputs, outputs \union {"mp4"}}
        /\ Return("convert_error")
  /\ UNCHANGED <<queueVars, finish, tokens, poolVars, cancelled, files, meta,
                 mergeVars, finished>>

UnlinkTS ==
  /\ pc = "unlink"
  /\ \/ outputs' = outputs \ {"ts"} /\ Return("ok")
     \/ UNCHANGED outputs /\ Return("unlink_error")
  /\ UNCHANGED <<queueVars, finish, tokens, poolVars, cancelled, files, meta,
                 mergeVars, finished>>

-----------------------------------------------------------------------------
(* The goroutine of Start: download, back on failure, then the receive.    *)

\* download() looks at the context once, before the request.
Begin(g) ==
  /\ gpc[g] = "start"
  /\ gpc' = [gpc EXCEPT ![g] = IF cancelled THEN "erred" ELSE "fetch"]
  /\ UNCHANGED <<queueVars, finish, tokens, gseg, pc, cancelled, diskVars,
                 mergeVars, result, finished>>

\* Request, decryption and the temporary file succeed; the file is renamed.
FetchOk(g) ==
  /\ gpc[g] = "fetch"
  /\ gpc' = [gpc EXCEPT ![g] = "renamed"]
  /\ files' = files \union {gseg[g]}
  /\ UNCHANGED <<queueVars, finish, tokens, gseg, pc, cancelled, meta, outputs,
                 mergeVars, result, finished>>

\* Any step of download() fails; the temporary file is removed.
FetchFail(g) ==
  /\ gpc[g] = "fetch"
  /\ gpc' = [gpc EXCEPT ![g] = "erred"]
  /\ UNCHANGED <<queueVars, finish, tokens, gseg, pc, cancelled, diskVars,
                 mergeVars, result, finished>>

\* atomic.AddInt32(&d.finish, 1)
Count(g) ==
  /\ gpc[g] = "renamed"
  /\ gpc' = [gpc EXCEPT ![g] = "tail"]
  /\ finish' = finish + 1
  /\ finished' = finished \union {gseg[g]}
  /\ UNCHANGED <<queueVars, tokens, gseg, pc, cancelled, diskVars, mergeVars,
                 result>>

\* back(): the segment is given up or queued again.  Mutations: an attempt
\* less, a retry that is not counted, a given-up segment queued again.
exceeded_Early(tries) == tries >= MaxRetry
exceeded(tries) == tries > MaxRetry

countRetry_M(i) == retries[i]
countRetry(i) == retries[i] + 1

requeue_M(i, givenUp) == queue' = Append(queue, i)
requeue(i, givenUp) == queue' = IF givenUp THEN queue ELSE Append(queue, i)

back(g) ==
  LET i == gseg[g]
      tries == countRetry(i)
      givenUp == exceeded(tries)
  IN /\ gpc[g] = "erred"
     /\ gpc' = [gpc EXCEPT ![g] = "tail"]
     /\ IF i \in failed
        THEN UNCHANGED queueVars
        ELSE /\ retries' = [retries EXCEPT ![i] = tries]
             /\ failed' = IF givenUp THEN failed \union {i} ELSE failed
             /\ requeue(i, givenUp)
     /\ UNCHANGED <<finish, tokens, gseg, pc, cancelled, diskVars, mergeVars,
                    result, finished>>

\* <-limitChan, then the goroutine ends (wg.Done is deferred).
ReceiveToken(g) ==
  /\ gpc[g] = "tail"
  /\ tokens > 0
  /\ tokens' = tokens - 1
  /\ gpc' = [gpc EXCEPT ![g] = "idle"]
  /\ gseg' = [gseg EXCEPT ![g] = 0]
  /\ UNCHANGED <<queueVars, finish, pc, cancelled, diskVars, mergeVars, result,
                 finished>>

Start ==
  \/ StopDispatch \/ Spawn \/ StopAtEnd \/ SendToken
  \/ WaitCancelled \/ WaitAll
  \/ MergeOpen \/ MergeSegment \/ MergeCount \/ RemoveTS \/ RemoveMeta
  \/ Convert \/ UnlinkTS

download(g) ==
  \/ Begin(g) \/ FetchOk(g) \/ FetchFail(g) \/ Count(g)
  \/ back(g) \/ ReceiveToken(g)

\* Start has returned.
Returned == pc = "done" /\ UNCHANGED vars

Next == Start \/ Cancel \/ Returned \/ \E g \in Goroutine : download(g)

\* The scheduler runs every goroutine that can move, requests end (the HTTP
\* client has a timeout) and so does ffmpeg; cancelling is the user's choice.
Fairness == WF_vars(Start) /\ \A g \in Goroutine : WF_vars(download(g))

Spec     == Init /\ [][Next]_vars
FairSpec == Spec /\ Fairness

-----------------------------------------------------------------------------
(* Safety.                                                                 *)

\* Every variable of the run keeps its type; a goroutine that owns a segment
\* owns a segment of the playlist, and limitChan holds its capacity at most.
TypeOK ==
  /\ queue \in Seq(Seg)
  /\ retries \in [Seg -> Nat]
  /\ failed \in SUBSET Seg
  /\ finished \in SUBSET Seg
  /\ files \in SUBSET Seg
  /\ finish \in Nat
  /\ tokens \in 0 .. Concurrency
  /\ gpc \in [Goroutine -> GPC]
  /\ gseg \in [Goroutine -> Nat]
  /\ Busy \subseteq Seg
  /\ pc \in PC
  /\ cancelled \in BOOLEAN
  /\ meta \in BOOLEAN
  /\ outputs \in SUBSET {"ts", "mp4"}
  /\ pos \in 0 .. SegLen
  /\ merged \in Seq(Seg)
  /\ result \in Result

\* At any moment a segment is in exactly one place: queued once, in the hands
\* of one goroutine, given up, or finished.  So no segment is lost between
\* next() and back(), and no two goroutines write the same temporary file.
Partition ==
  /\ \A j, k \in DOMAIN queue : queue[j] = queue[k] => j = k
  /\ \A g, h \in Working : gseg[g] = gseg[h] => g = h
  /\ Queued \intersect Busy = {}
  /\ Queued \intersect failed = {}
  /\ Queued \intersect finished = {}
  /\ Busy \intersect failed = {}
  /\ Busy \intersect finished = {}
  /\ failed \intersect finished = {}
  /\ Queued \union Busy \union failed \union finished = Seg

\* d.finish, which next() compares with segLen, counts the finished segments,
\* those found on disk by an earlier run included.
FinishCounts == finish = Cardinality(finished)

\* The tokens in limitChan stand for the goroutines alive, save the one whose
\* send is still to come: at most Concurrency + 1 exist at once.
Throttled ==
  Cardinality(Alive) = tokens + (IF pc = "send" THEN 1 ELSE 0)

\* Once the loop has left by its end flag, whatever made it leave (the two
\* comparisons of next() are made on counters, not on sets), nothing is queued,
\* no goroutine owns a segment, and every segment is finished or given up.
SettledAtEnd ==
  (\/ pc \in PC \ {"loop", "send", "cancelwait", "done"}
   \/ result \in Result \ {"none", "cancelled"}) =>
    /\ queue = <<>>
    /\ Working = {}
    /\ finished \union failed = Seg

\* merge starts with every segment file in place and no goroutine left that
\* could still write to ts/.
MergeSeesAll ==
  pc \in {"merge", "copy", "clean"} => files = Seg /\ failed = {} /\ Alive = {}

Whole == [k \in 1 .. SegLen |-> k - 1]

\* Start returns nil only if every segment was merged, in playlist order, the
\* requested output file exists and the intermediate one does not.
OkMeansDelivered ==
  result = "ok" =>
    /\ merged = Whole
    /\ IF ToMP4 THEN "mp4" \in outputs /\ "ts" \notin outputs
                ELSE "ts" \in outputs

\* "%d segments failed after %d retries" (downloader.go:202): a segment is
\* given up exactly when MaxRetry + 1 attempts at it have failed, and the error
\* is returned only when some segment was.
GivenUpAfterAllRetries ==
  /\ \A i \in Seg : IF i \in failed THEN retries[i] = MaxRetry + 1
                                  ELSE retries[i] <= MaxRetry
  /\ result = "gaveup" => failed # {}

\* Segment files, which a later run resumes from, are removed only after the
\* whole playlist was merged (downloader.go:433): an error or a cancellation
\* during the merge leaves all of them.
FilesKeptUntilMerged ==
  [][~(files \subseteq files') => merged = Whole]_vars

\* When Start has returned, nothing it started moves any more: no late
\* goroutine changes the queue, the counters or the task directory.
QuietAfterReturn ==
  [][pc = "done" => UNCHANGED vars]_vars

-----------------------------------------------------------------------------
(* Liveness and refinement.                                                *)

\* The dispatch loop cannot wait for ever: Start returns.
Termination == <>(pc = "done")

\* A cancellation that arrives before the last segment has been merged makes
\* Start return the context's error and nothing else.
CancelHonoured ==
  (cancelled /\ (pc \in {"loop", "send", "cancelwait", "wait", "merge"}
                   \/ (pc = "copy" /\ pos < SegLen)))
    ~> (result = "cancelled")

Status ==
  [i \in Seg |-> IF i \in finished THEN "done"
                 ELSE IF i \in failed THEN "given_up" ELSE "pending"]

Outcome ==
  CASE result \in {"none", "ok", "cancelled"} -> result
    [] result = "gaveup" -> "gave_up"
    [] OTHER -> "error"

Job == INSTANCE SegmentJob WITH
         Segment <- Seg, status <- Status, delivered <- merged = Whole,
         outcome <- Outcome

\* Start implements the job it promises its caller.
ImplementsJob == Job!JobSpec
=============================================================================
