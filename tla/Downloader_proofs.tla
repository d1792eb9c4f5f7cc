--------------------------- MODULE Downloader_proofs ---------------------------
(***************************************************************************)
(* Proofs about Downloader, for every playlist length, concurrency, retry  *)
(* limit and pool of goroutines.  The invariants are proved in layers:     *)
(* each one is inductive relative to those before it.                      *)
(***************************************************************************)
EXTENDS Downloader, FiniteSetTheorems, SequenceTheorems, TLAPS

-----------------------------------------------------------------------------
(* Finite sets of segments, and sequences.                                 *)

\* The segments of a playlist, and any set of them, can be counted.
LEMMA SegmentsFinite ==
  /\ IsFiniteSet(Seg)
  /\ Cardinality(Seg) = SegLen
  /\ \A S \in SUBSET Seg : IsFiniteSet(S) /\ Cardinality(S) \in Nat
<1>1. IsFiniteSet(Seg) /\ Cardinality(Seg) = SegLen
  BY FS_Interval, DownloaderAssumption DEF Seg
<1>2. \A S \in SUBSET Seg : IsFiniteSet(S) /\ Cardinality(S) \in Nat
  BY <1>1, FS_Subset, FS_CardinalityType
<1>3. QED
  BY <1>1, <1>2

\* A function on an initial segment of the positive numbers is a sequence.
LEMMA FunctionIsSequence ==
  ASSUME NEW S, NEW n \in Nat, NEW f \in [1 .. n -> S]
  PROVE  f \in Seq(S)
BY SeqDef

-----------------------------------------------------------------------------
(* Types.                                                                  *)

\* Every variable of a run keeps its type, for every instance.
THEOREM TypeCorrect == Spec => []TypeOK
<1>1. Init => TypeOK
  <2> SUFFICES ASSUME Init PROVE TypeOK
    OBVIOUS
  <2> PICK completed \in SUBSET Seg : /\ queue \in buildQueue(completed)
                                      /\ finish = Cardinality(completed)
                                      /\ files = completed
                                      /\ finished = completed
    BY Zenon DEF Init, finishOfResume
  <2>1. IsFiniteSet(Seg) /\ IsFiniteSet(completed) /\ IsFiniteSet(Seg \ completed)
    BY SegmentsFinite
  <2>2. finish \in Nat
    BY <2>1, FS_CardinalityType
  <2>3. queue \in Seq(Seg)
    <3>1. Cardinality(Seg \ completed) \in Nat
      BY <2>1, FS_CardinalityType
    <3>2. queue \in [1 .. Cardinality(Seg \ completed) -> Seg]
      BY DEF buildQueue
    <3>3. QED
      BY <3>1, <3>2, FunctionIsSequence
  <2>4. Busy = {}
    BY DEF Init, Busy, Working, DownloadSteps
  <2>5. QED
    <3>1. merged \in Seq(Seg)
      BY EmptySeq DEF Init
    <3>2. /\ retries \in [Seg -> Nat]
          /\ gpc \in [Goroutine -> GPC]
          /\ gseg \in [Goroutine -> Nat]
      BY DEF Init, GPC
    <3>3. pos \in 0 .. SegLen /\ tokens \in 0 .. Concurrency
      BY DownloaderAssumption DEF Init
    <3>4. QED
      BY <2>2, <2>3, <2>4, <3>1, <3>2, <3>3 DEF Init, TypeOK, PC, Result
<1>2. TypeOK /\ [Next]_vars => TypeOK'
  <2> SUFFICES ASSUME TypeOK, [Next]_vars PROVE TypeOK'
    OBVIOUS
  <2> USE DownloaderAssumption DEF TypeOK
  <2>1. CASE StopDispatch
    BY <2>1 DEF StopDispatch, Goto, PC, queueVars, poolVars, diskVars, mergeVars,
            Busy, Working
  <2>2. CASE Spawn
    <3>1. Head(queue) \in Seg /\ Tail(queue) \in Seq(Seg)
      BY <2>2, HeadTailProperties DEF Spawn
    <3>2. Busy' \subseteq Seg
      BY <2>2, <3>1 DEF Spawn, Busy, Working, DownloadSteps, poolVars
    <3>3. Seg \subseteq Nat
      BY DEF Seg
    <3>4. QED
      BY <2>2, <3>1, <3>2, <3>3
         DEF Spawn, Goto, PC, GPC, DownloadSteps, diskVars, mergeVars
  <2>3. CASE StopAtEnd
    BY <2>3 DEF StopAtEnd, Goto, PC, queueVars, poolVars, diskVars, mergeVars,
            Busy, Working
  <2>4. CASE SendToken
    BY <2>4 DEF SendToken, Goto, PC, queueVars, poolVars, diskVars, mergeVars,
            Busy, Working
  <2>5. CASE WaitCancelled
    BY <2>5 DEF WaitCancelled, Return, PC, Result, queueVars, poolVars, diskVars,
            mergeVars, Busy, Working
  <2>6. CASE WaitAll
    BY <2>6 DEF WaitAll, Return, Goto, PC, Result, queueVars, poolVars, diskVars,
            mergeVars, Busy, Working
  <2>7. CASE MergeOpen
    BY <2>7 DEF MergeOpen, Return, Goto, PC, Result, queueVars, poolVars,
            mergeVars, Busy, Working
  <2>8. CASE MergeSegment
    <3>1. pos' \in 0 .. SegLen
      BY <2>8 DEF MergeSegment
    <3>2. merged' \in Seq(Seg)
      <4>1. CASE merged' = merged
        BY <4>1
      <4>2. CASE pos \in files /\ merged' = Append(merged, pos)
        BY <4>2, AppendProperties
      <4>3. QED
        BY <2>8, <4>1, <4>2 DEF MergeSegment
    <3>3. QED
      BY <2>8, <3>1, <3>2 DEF MergeSegment, Return, PC, Result, queueVars,
            poolVars, diskVars, Busy, Working
  <2>9. CASE MergeCount
    BY <2>9 DEF MergeCount, mergeShort, Return, Goto, PC, Result, queueVars, mergeVars,
            poolVars, diskVars, Busy, Working
  <2>10. CASE RemoveTS
    BY <2>10 DEF RemoveTS, Goto, PC, queueVars, poolVars, mergeVars, Busy, Working
  <2>11. CASE RemoveMeta
    BY <2>11 DEF RemoveMeta, Return, Goto, PC, Result, queueVars, poolVars,
            mergeVars, Busy, Working
  <2>12. CASE Convert
    BY <2>12 DEF Convert, Return, Goto, PC, Result, queueVars, poolVars,
            mergeVars, Busy, Working
  <2>13. CASE UnlinkTS
    BY <2>13 DEF UnlinkTS, Return, PC, Result, queueVars, poolVars,
            mergeVars, Busy, Working
  <2>14. CASE Cancel
    BY <2>14 DEF Cancel, queueVars, poolVars, diskVars, mergeVars, Busy, Working
  <2>15. ASSUME NEW g \in Goroutine, download(g) PROVE TypeOK'
    <3> USE DEF GPC, DownloadSteps
    <3>0. gpc[g] \in DownloadSteps => gseg[g] \in Seg
      BY DEF Busy, Working
    <3>1. CASE Begin(g)
      <4>1. Busy' \subseteq Seg
        BY <3>0, <3>1 DEF Begin, Busy, Working
      <4>2. QED
        BY <3>1, <4>1 DEF Begin, queueVars, diskVars, mergeVars
    <3>2. CASE FetchOk(g)
      <4>1. Busy' \subseteq Seg
        BY <3>0, <3>2 DEF FetchOk, Busy, Working
      <4>2. files' \in SUBSET Seg
        BY <3>0, <3>2 DEF FetchOk
      <4>3. QED
        BY <3>2, <4>1, <4>2 DEF FetchOk, queueVars, mergeVars
    <3>3. CASE FetchFail(g)
      <4>1. Busy' \subseteq Seg
        BY <3>0, <3>3 DEF FetchFail, Busy, Working
      <4>2. QED
        BY <3>3, <4>1 DEF FetchFail, queueVars, diskVars, mergeVars
    <3>4. CASE Count(g)
      <4>1. Busy' \subseteq Seg
        BY <3>0, <3>4 DEF Count, Busy, Working
      <4>2. finished' \in SUBSET Seg
        BY <3>0, <3>4 DEF Count
      <4>3. QED
        BY <3>4, <4>1, <4>2 DEF Count, queueVars, diskVars, mergeVars
    <3>5. CASE back(g)
      <4>1. Busy' \subseteq Seg
        BY <3>0, <3>5 DEF back, Busy, Working
      <4>2. gseg[g] \in Seg
        BY <3>0, <3>5 DEF back
      <4>3. failed' \in SUBSET Seg
        BY <3>5, <4>2 DEF back, queueVars
      <4>4. queue' \in Seq(Seg)
        <5>1. CASE queue' = queue
          BY <5>1
        <5>2. CASE queue' = Append(queue, gseg[g])
          BY <4>2, <5>2, AppendProperties
        <5>3. QED
          BY <3>5, <5>1, <5>2 DEF back, requeue, queueVars
      <4>5. retries' \in [Seg -> Nat]
        <5>1. retries' = retries \/ retries' = [retries EXCEPT ![gseg[g]] = @ + 1]
          BY <3>5 DEF back, countRetry, queueVars
        <5>2. CASE retries' = [retries EXCEPT ![gseg[g]] = @ + 1]
          <6>1. retries \in [Seg -> Nat] /\ retries[gseg[g]] + 1 \in Nat
            BY <4>2
          <6>2. QED
            BY <5>2, <6>1
        <5>3. QED
          BY <5>1, <5>2
      <4>6. QED
        BY <3>5, <4>1, <4>3, <4>4, <4>5 DEF back, diskVars, mergeVars
    <3>6. CASE ReceiveToken(g)
      <4>1. Busy' \subseteq Seg
        BY <3>0, <3>6 DEF ReceiveToken, Busy, Working
      <4>2. QED
        BY <3>6, <4>1 DEF ReceiveToken, queueVars, diskVars, mergeVars
    <3>7. QED
      BY <2>15, <3>1, <3>2, <3>3, <3>4, <3>5, <3>6 DEF download
  <2>16. CASE UNCHANGED vars
    BY <2>16 DEF vars, queueVars, poolVars, diskVars, mergeVars, Busy, Working
  <2>17. QED
    BY <2>1, <2>2, <2>3, <2>4, <2>5, <2>6, <2>7, <2>8, <2>9, <2>10, <2>11,
       <2>12, <2>13, <2>14, <2>15, <2>16 DEF Next, Start, Returned
<1>3. QED
  BY <1>1, <1>2, PTL DEF Spec

-----------------------------------------------------------------------------
(* Every segment in exactly one place.                                     *)

placeVars == <<queue, retries, failed, finish, gpc, gseg, finished>>

\* The steps that touch neither the queue, nor the goroutines, nor the records
\* of what was finished or given up.
Elsewhere ==
  \/ StopDispatch \/ StopAtEnd \/ SendToken \/ WaitCancelled \/ WaitAll
  \/ MergeOpen \/ MergeSegment \/ MergeCount \/ RemoveTS \/ RemoveMeta
  \/ Convert \/ UnlinkTS \/ Cancel \/ UNCHANGED vars

\* Such a step leaves every place a segment may be in as it is.
LEMMA ElsewhereKeepsPlaces == Elsewhere => UNCHANGED placeVars
BY DEF Elsewhere, placeVars, StopDispatch, StopAtEnd, SendToken, WaitCancelled,
       WaitAll, MergeOpen, MergeSegment, MergeCount, RemoveTS, RemoveMeta,
       Convert, UnlinkTS, Cancel, vars, queueVars, poolVars

\* A step is elsewhere, or it is the spawn, or a goroutine's.
LEMMA StepCases ==
  [Next]_vars => Elsewhere \/ Spawn \/ \E g \in Goroutine : download(g)
BY DEF Next, Start, Returned, Elsewhere

\* Popping the queue removes its head from the set of queued segments and
\* keeps the rest free of repetitions.
LEMMA PopQueue ==
  ASSUME queue \in Seq(Seg), queue # <<>>, queue' = Tail(queue),
         \A j, k \in DOMAIN queue : queue[j] = queue[k] => j = k
  PROVE  /\ Head(queue) \in Queued
         /\ Queued' = Queued \ {Head(queue)}
         /\ \A j, k \in DOMAIN queue' : queue'[j] = queue'[k] => j = k
<1>1. Len(queue) \in Nat /\ DOMAIN queue = 1 .. Len(queue) /\ Len(queue) > 0
  BY EmptySeq, LenProperties
<1>2. /\ Tail(queue) \in Seq(Seg)
      /\ Len(Tail(queue)) = Len(queue) - 1
      /\ \A k \in 1 .. Len(Tail(queue)) : Tail(queue)[k] = queue[k + 1]
  BY HeadTailProperties
<1>3. DOMAIN queue' = 1 .. Len(queue) - 1
  BY <1>2, LenProperties
<1>4. Head(queue) = queue[1]
  OBVIOUS
<1>5. \A k \in DOMAIN queue' : k + 1 \in DOMAIN queue /\ queue'[k] = queue[k + 1]
  BY <1>1, <1>2, <1>3
<1>6. \A k \in DOMAIN queue \ {1} : k - 1 \in DOMAIN queue' /\ queue'[k - 1] = queue[k]
  <2> TAKE k \in DOMAIN queue \ {1}
  <2>1. k - 1 \in DOMAIN queue'
    BY <1>1, <1>3
  <2>2. (k - 1) + 1 = k
    BY <1>1
  <2>3. QED
    BY <1>5, <2>1, <2>2
<1>7. \A j, k \in DOMAIN queue' : queue'[j] = queue'[k] => j = k
  <2> SUFFICES ASSUME NEW j \in DOMAIN queue', NEW k \in DOMAIN queue',
                      queue'[j] = queue'[k]
               PROVE  j = k
    OBVIOUS
  <2>1. j + 1 = k + 1
    BY <1>5
  <2>2. QED
    BY <1>1, <1>3, <2>1
<1>8. Head(queue) \in Queued
  BY <1>1, <1>4 DEF Queued
<1>9. Queued' \subseteq Queued \ {Head(queue)}
  <2> SUFFICES ASSUME NEW k \in DOMAIN queue'
               PROVE  queue'[k] \in Queued /\ queue'[k] # Head(queue)
    BY DEF Queued
  <2>1. k + 1 \in DOMAIN queue /\ queue'[k] = queue[k + 1] /\ 1 \in DOMAIN queue
    BY <1>1, <1>5
  <2>2. k + 1 # 1
    BY <1>1, <1>3
  <2>3. QED
    BY <1>4, <2>1, <2>2 DEF Queued
<1>10. Queued \ {Head(queue)} \subseteq Queued'
  <2> SUFFICES ASSUME NEW k \in DOMAIN queue, queue[k] # Head(queue)
               PROVE  queue[k] \in Queued'
    BY DEF Queued
  <2>1. k \in DOMAIN queue \ {1}
    BY <1>4
  <2>2. QED
    BY <1>6, <2>1 DEF Queued
<1>11. QED
  BY <1>7, <1>8, <1>9, <1>10

\* Queueing a segment that is not queued adds it once.
LEMMA PushQueue ==
  ASSUME NEW i \in Seg, queue \in Seq(Seg), i \notin Queued,
         queue' = Append(queue, i),
         \A j, k \in DOMAIN queue : queue[j] = queue[k] => j = k
  PROVE  /\ Queued' = Queued \union {i}
         /\ \A j, k \in DOMAIN queue' : queue'[j] = queue'[k] => j = k
<1>1. Len(queue) \in Nat /\ DOMAIN queue = 1 .. Len(queue)
  BY LenProperties
<1>2. /\ DOMAIN queue' = 1 .. Len(queue) + 1
      /\ \A k \in DOMAIN queue : queue'[k] = queue[k]
      /\ queue'[Len(queue) + 1] = i
  BY <1>1, AppendProperties, LenProperties
<1>3. DOMAIN queue' = DOMAIN queue \union {Len(queue) + 1}
  BY <1>1, <1>2
<1>4. Queued' = Queued \union {i}
  BY <1>2, <1>3 DEF Queued
<1>5. \A k \in DOMAIN queue : queue'[k] # i
  BY <1>2 DEF Queued
<1>6. QED
  BY <1>2, <1>3, <1>4, <1>5

\* A goroutine that stops working lets go of its segment, and of no other.
LEMMA LetGo ==
  ASSUME NEW g \in Goroutine, g \in Working,
         gpc \in [Goroutine -> GPC],
         gpc' = [gpc EXCEPT ![g] = "tail"], gseg' = gseg,
         \A a, b \in Working : gseg[a] = gseg[b] => a = b
  PROVE  /\ Working' = Working \ {g}
         /\ Busy' = Busy \ {gseg[g]}
         /\ gseg[g] \in Busy
<1>1. Working' = Working \ {g}
  BY DEF Working, DownloadSteps
<1>2. QED
  BY <1>1 DEF Busy

\* At any moment every segment is queued once, or owned by one goroutine, or
\* given up, or finished, and in one of these only.
THEOREM PartitionCorrect == Spec => []Partition
<1>1. Init => Partition
  <2> SUFFICES ASSUME Init PROVE Partition
    OBVIOUS
  <2> PICK completed \in SUBSET Seg : /\ queue \in buildQueue(completed)
                                      /\ finished = completed
    BY Zenon DEF Init
  <2>1. Cardinality(Seg \ completed) \in Nat
    BY SegmentsFinite
  <2>2. /\ queue \in [1 .. Cardinality(Seg \ completed) -> Seg \ completed]
        /\ \A j, k \in DOMAIN queue : j < k => queue[j] < queue[k]
        /\ \A i \in Seg \ completed : \E k \in DOMAIN queue : queue[k] = i
    BY DEF buildQueue
  <2>3. Queued = Seg \ completed
    BY <2>2 DEF Queued
  <2>4. \A j, k \in DOMAIN queue : queue[j] = queue[k] => j = k
    <3> SUFFICES ASSUME NEW j \in DOMAIN queue, NEW k \in DOMAIN queue, j # k
                 PROVE  queue[j] # queue[k]
      OBVIOUS
    <3>1. Seg \subseteq Int
      BY DEF Seg
    <3>2. DOMAIN queue = 1 .. Cardinality(Seg \ completed)
      BY <2>2
    <3>3. j \in Int /\ k \in Int
      BY <2>1, <3>2
    <3>4. queue[j] \in Int /\ queue[k] \in Int
      BY <2>2, <3>1, <3>2
    <3>5. j < k \/ k < j
      BY <3>3
    <3>6. queue[j] < queue[k] \/ queue[k] < queue[j]
      BY <2>2, <3>5
    <3>7. QED
      BY <3>4, <3>6
  <2>5. Working = {} /\ Busy = {} /\ failed = {}
    BY DEF Init, Working, Busy, DownloadSteps
  <2>6. QED
    BY <2>3, <2>4, <2>5 DEF Partition
<1>2. TypeOK /\ Partition /\ [Next]_vars => Partition'
  <2> SUFFICES ASSUME TypeOK, Partition, [Next]_vars PROVE Partition'
    OBVIOUS
  <2>0. /\ \A j, k \in DOMAIN queue : queue[j] = queue[k] => j = k
        /\ \A a, b \in Working : gseg[a] = gseg[b] => a = b
        /\ queue \in Seq(Seg)
        /\ gpc \in [Goroutine -> GPC] /\ gseg \in [Goroutine -> Nat]
        /\ Busy \subseteq Seg
    BY DEF Partition, TypeOK
  <2>1. CASE UNCHANGED placeVars
    BY <2>1 DEF Partition, placeVars, Queued, Busy, Working
  <2>2. CASE Spawn
    <3>1. queue # <<>> /\ queue' = Tail(queue)
          /\ failed' = failed /\ finished' = finished
      BY <2>2 DEF Spawn
    <3>2. PICK g \in Goroutine : /\ gpc[g] = "idle"
                                 /\ gpc' = [gpc EXCEPT ![g] = "start"]
                                 /\ gseg' = [gseg EXCEPT ![g] = Head(queue)]
      BY <2>2 DEF Spawn
    <3>3. /\ Head(queue) \in Queued
          /\ Queued' = Queued \ {Head(queue)}
          /\ \A j, k \in DOMAIN queue' : queue'[j] = queue'[k] => j = k
      BY <2>0, <3>1, PopQueue
    <3>4. g \notin Working /\ Working' = Working \union {g}
      BY <2>0, <3>2 DEF Working, DownloadSteps
    <3>5. /\ gseg'[g] = Head(queue)
          /\ \A a \in Working : gseg'[a] = gseg[a]
      BY <2>0, <3>2, <3>4 DEF Working
    <3>6. Busy' = Busy \union {Head(queue)}
      BY <3>4, <3>5 DEF Busy
    <3>7. Head(queue) \notin Busy
      BY <3>3 DEF Partition
    <3>8. \A a, b \in Working' : gseg'[a] = gseg'[b] => a = b
      BY <2>0, <3>4, <3>5, <3>7 DEF Busy
    <3>9. QED
      BY <3>1, <3>3, <3>6, <3>8 DEF Partition
  <2>3. ASSUME NEW g \in Goroutine, download(g) PROVE Partition'
    <3>0. g \in Working => gseg[g] \in Busy
      BY DEF Busy
    <3>1. CASE Begin(g) \/ FetchOk(g) \/ FetchFail(g)
      <4>1. /\ Working' = Working
            /\ gseg' = gseg /\ queue' = queue
            /\ failed' = failed /\ finished' = finished
        BY <2>0, <3>1 DEF Begin, FetchOk, FetchFail, Working, DownloadSteps, queueVars
      <4>2. Busy' = Busy /\ Queued' = Queued
        BY <4>1 DEF Busy, Queued
      <4>3. QED
        BY <4>1, <4>2 DEF Partition
    <3>2. CASE Count(g)
      <4>1. /\ g \in Working /\ gpc' = [gpc EXCEPT ![g] = "tail"]
            /\ gseg' = gseg /\ queue' = queue /\ failed' = failed
            /\ finished' = finished \union {gseg[g]}
        BY <3>2 DEF Count, Working, DownloadSteps, queueVars
      <4>2. /\ Working' = Working \ {g}
            /\ Busy' = Busy \ {gseg[g]}
            /\ gseg[g] \in Busy
        BY <2>0, <4>1, LetGo
      <4>3. Queued' = Queued
        BY <4>1 DEF Queued
      <4>4. QED
        BY <4>1, <4>2, <4>3 DEF Partition
    <3>3. CASE back(g)
      <4>1. /\ g \in Working /\ gpc' = [gpc EXCEPT ![g] = "tail"]
            /\ gseg' = gseg /\ finished' = finished
        BY <3>3 DEF back, Working, DownloadSteps
      <4>2. /\ Working' = Working \ {g}
            /\ Busy' = Busy \ {gseg[g]}
            /\ gseg[g] \in Busy
        BY <2>0, <4>1, LetGo
      <4>3. gseg[g] \in Seg /\ gseg[g] \notin failed /\ gseg[g] \notin Queued
        BY <2>0, <4>2 DEF Partition
      <4>4. \/ failed' = failed \union {gseg[g]} /\ queue' = queue
            \/ failed' = failed /\ queue' = Append(queue, gseg[g])
        BY <3>3, <4>3 DEF back, requeue
      <4>5. CASE failed' = failed \union {gseg[g]} /\ queue' = queue
        <5>1. Queued' = Queued
          BY <4>5 DEF Queued
        <5>2. QED
          BY <4>1, <4>2, <4>5, <5>1 DEF Partition
      <4>6. CASE failed' = failed /\ queue' = Append(queue, gseg[g])
        <5>1. /\ Queued' = Queued \union {gseg[g]}
              /\ \A j, k \in DOMAIN queue' : queue'[j] = queue'[k] => j = k
          BY <2>0, <4>3, <4>6, PushQueue
        <5>2. QED
          BY <4>1, <4>2, <4>6, <5>1 DEF Partition
      <4>7. QED
        BY <4>4, <4>5, <4>6
    <3>4. CASE ReceiveToken(g)
      <4>1. /\ Working' = Working
            /\ \A a \in Working : gseg'[a] = gseg[a]
            /\ queue' = queue /\ failed' = failed /\ finished' = finished
        BY <2>0, <3>4 DEF ReceiveToken, Working, DownloadSteps, queueVars
      <4>2. Busy' = Busy /\ Queued' = Queued
        BY <4>1 DEF Busy, Queued
      <4>3. QED
        BY <4>1, <4>2 DEF Partition
    <3>5. QED
      BY <2>3, <3>1, <3>2, <3>3, <3>4 DEF download
  <2>4. QED
    BY <2>1, <2>2, <2>3, StepCases, ElsewhereKeepsPlaces
<1>3. QED
  BY <1>1, <1>2, TypeCorrect, PTL DEF Spec

-----------------------------------------------------------------------------
(* Counters.                                                               *)

\* The counter that next() compares with segLen is the number of segments
\* finished, in this run or an earlier one.
THEOREM FinishCountsCorrect == Spec => []FinishCounts
<1>1. Init => FinishCounts
  BY Zenon DEF Init, FinishCounts, finishOfResume
<1>2. TypeOK /\ Partition /\ FinishCounts /\ [Next]_vars => FinishCounts'
  <2> SUFFICES ASSUME TypeOK, Partition, FinishCounts, [Next]_vars
               PROVE  FinishCounts'
    OBVIOUS
  <2>1. CASE UNCHANGED placeVars
    BY <2>1 DEF placeVars, FinishCounts
  <2>2. CASE Spawn
    BY <2>2 DEF Spawn, FinishCounts
  <2>3. ASSUME NEW g \in Goroutine, download(g) PROVE FinishCounts'
    <3>1. CASE Count(g)
      <4>1. /\ gseg[g] \in Busy
            /\ finish' = finish + 1
            /\ finished' = finished \union {gseg[g]}
        BY <3>1 DEF Count, Busy, Working, DownloadSteps
      <4>2. gseg[g] \notin finished
        BY <4>1 DEF Partition
      <4>3. IsFiniteSet(finished)
        BY SegmentsFinite DEF TypeOK
      <4>4. Cardinality(finished') = Cardinality(finished) + 1
        BY <4>1, <4>2, <4>3, FS_AddElement
      <4>5. QED
        BY <4>1, <4>4 DEF FinishCounts
    <3>2. CASE ~Count(g)
      BY <2>3, <3>2 DEF download, Begin, FetchOk, FetchFail, back, ReceiveToken,
                        FinishCounts
    <3>3. QED
      BY <3>1, <3>2
  <2>4. QED
    BY <2>1, <2>2, <2>3, StepCases, ElsewhereKeepsPlaces
<1>3. QED
  BY <1>1, <1>2, TypeCorrect, PartitionCorrect, PTL DEF Spec

\* The goroutines that exist can be counted, because the pool is finite.
LEMMA AliveFinite == IsFiniteSet(Alive) /\ Cardinality(Alive) \in Nat
BY FS_Subset, FS_CardinalityType, DownloaderAssumption DEF Alive

\* limitChan holds one token for every goroutine alive, save the one whose send
\* is pending.
THEOREM ThrottledCorrect == Spec => []Throttled
<1>1. Init => Throttled
  <2> SUFFICES ASSUME Init PROVE Throttled
    OBVIOUS
  <2>1. Alive = {}
    BY DEF Init, Alive
  <2>2. QED
    BY <2>1, FS_EmptySet DEF Init, Throttled
<1>2. TypeOK /\ Throttled /\ [Next]_vars => Throttled'
  <2> SUFFICES ASSUME TypeOK, Throttled, [Next]_vars PROVE Throttled'
    OBVIOUS
  <2>0. /\ gpc \in [Goroutine -> GPC]
        /\ tokens \in Int
        /\ Cardinality(Alive) = tokens + (IF pc = "send" THEN 1 ELSE 0)
    BY DownloaderAssumption DEF TypeOK, Throttled
  <2>1. CASE SendToken
    <3>1. Alive' = Alive
      BY <2>1 DEF SendToken, Alive, poolVars
    <3>2. pc = "send" /\ pc' = "loop" /\ tokens' = tokens + 1
      BY <2>1 DEF SendToken, Goto
    <3>3. QED
      BY <2>0, <3>1, <3>2 DEF Throttled
  <2>2. CASE Spawn
    <3>1. PICK g \in Goroutine :
            gpc[g] = "idle" /\ gpc' = [gpc EXCEPT ![g] = "start"]
      BY <2>2 DEF Spawn
    <3>2. pc = "loop" /\ pc' = "send" /\ tokens' = tokens
      BY <2>2 DEF Spawn, Goto
    <3>3. g \notin Alive /\ Alive' = Alive \union {g}
      BY <2>0, <3>1 DEF Alive
    <3>4. Cardinality(Alive') = Cardinality(Alive) + 1
      BY <3>3, AliveFinite, FS_AddElement
    <3>5. QED
      BY <2>0, <3>2, <3>4 DEF Throttled
  <2>3. CASE Elsewhere /\ ~SendToken
    <3>1. UNCHANGED <<gpc, tokens>>
      BY <2>3 DEF Elsewhere, StopDispatch, StopAtEnd, WaitCancelled, WaitAll,
                  MergeOpen, MergeSegment, MergeCount, RemoveTS, RemoveMeta,
                  Convert, UnlinkTS, Cancel, vars, poolVars
    <3>2. pc' = "send" <=> pc = "send"
      BY <2>3 DEF Elsewhere, StopDispatch, StopAtEnd, WaitCancelled, WaitAll,
                  MergeOpen, MergeSegment, MergeCount, RemoveTS, RemoveMeta,
                  Convert, UnlinkTS, Cancel, vars, Goto, Return
    <3>3. Alive' = Alive
      BY <3>1 DEF Alive
    <3>4. QED
      BY <2>0, <3>1, <3>2, <3>3 DEF Throttled
  <2>4. ASSUME NEW g \in Goroutine, download(g) PROVE Throttled'
    <3>1. CASE ReceiveToken(g)
      <4>1. tokens' = tokens - 1 /\ pc' = pc
        BY <3>1 DEF ReceiveToken
      <4>2. g \in Alive /\ Alive' = Alive \ {g}
        BY <2>0, <3>1 DEF ReceiveToken, Alive
      <4>3. Cardinality(Alive') = Cardinality(Alive) - 1
        BY <4>2, AliveFinite, FS_RemoveElement
      <4>4. QED
        BY <2>0, <4>1, <4>3 DEF Throttled
    <3>2. CASE ~ReceiveToken(g)
      <4>1. tokens' = tokens /\ pc' = pc
        BY <2>4, <3>2 DEF download, Begin, FetchOk, FetchFail, Count, back
      <4>2. Alive' = Alive
        BY <2>0, <2>4, <3>2
           DEF download, Begin, FetchOk, FetchFail, Count, back, Alive
      <4>3. QED
        BY <4>1, <4>2 DEF Throttled
    <3>3. QED
      BY <3>1, <3>2
  <2>5. QED
    BY <2>1, <2>2, <2>3, <2>4, StepCases
<1>3. QED
  BY <1>1, <1>2, TypeCorrect, PTL DEF Spec

\* The dispatch loop never has to wait for a goroutine identifier: the pool is
\* no bound on the model.
THEOREM PoolSuffices ==
  Spec => [](pc = "loop" => \E g \in Goroutine : gpc[g] = "idle")
<1>1. TypeOK /\ Throttled => (pc = "loop" => \E g \in Goroutine : gpc[g] = "idle")
  <2> SUFFICES ASSUME TypeOK, Throttled, pc = "loop"
               PROVE  \E g \in Goroutine : gpc[g] = "idle"
    OBVIOUS
  <2>1. Cardinality(Alive) = tokens /\ tokens \in 0 .. Concurrency
    BY DEF Throttled, TypeOK
  <2>2. Alive # Goroutine
    BY <2>1, DownloaderAssumption
  <2>3. QED
    BY <2>2 DEF Alive
<1>2. QED
  BY <1>1, TypeCorrect, ThrottledCorrect, PTL

\* At most one goroutine more than Concurrency exists at any moment.
THEOREM GoroutinesBounded == Spec => [](Cardinality(Alive) <= Concurrency + 1)
<1>1. TypeOK /\ Throttled => Cardinality(Alive) <= Concurrency + 1
  BY DownloaderAssumption DEF TypeOK, Throttled
<1>2. QED
  BY <1>1, TypeCorrect, ThrottledCorrect, PTL

-----------------------------------------------------------------------------
(* The end of the dispatch loop.                                           *)

\* Start has a result exactly when it has returned.
Answered == pc = "done" <=> result # "none"

\* Answered is kept by every step: a return always sets both.
LEMMA AnsweredCorrect == Spec => []Answered
<1>1. Init => Answered
  BY DEF Init, Answered
<1>2. Answered /\ [Next]_vars => Answered'
  BY DEF Answered, Next, Start, Returned, StopDispatch, Spawn, StopAtEnd,
         SendToken, WaitCancelled, WaitAll, MergeOpen, MergeSegment, MergeCount,
         RemoveTS, RemoveMeta, Convert, UnlinkTS, Cancel, download, Begin,
         FetchOk, FetchFail, Count, back, ReceiveToken, Goto, Return, vars
<1>3. QED
  BY <1>1, <1>2, PTL DEF Spec

\* Either comparison of next(), made on counters when the queue is empty, tells
\* that every segment is finished or given up and no goroutine owns one.
LEMMA EndMeansSettled ==
  ASSUME TypeOK, Partition, FinishCounts, end
  PROVE  queue = <<>> /\ Working = {} /\ finished \union failed = Seg
<1>1. /\ IsFiniteSet(Seg) /\ Cardinality(Seg) = SegLen
      /\ finished \in SUBSET Seg /\ failed \in SUBSET Seg
      /\ IsFiniteSet(finished) /\ IsFiniteSet(failed)
  BY SegmentsFinite DEF TypeOK
<1>2. finished \intersect failed = {} /\ Busy \intersect finished = {}
      /\ Busy \intersect failed = {} /\ Busy \subseteq Seg
  BY DEF Partition, TypeOK
<1>3. finished \union failed = Seg
  <2>1. CASE finish = SegLen
    BY <1>1, <2>1, FS_Subset DEF FinishCounts
  <2>2. CASE finish + Cardinality(failed) = SegLen
    <3>1. Cardinality(finished \union failed)
            = Cardinality(finished) + Cardinality(failed)
      <4>1. Cardinality(finished \intersect failed) = 0
        <5>1. finished \intersect failed = {}
          BY <1>2
        <5>2. QED
          BY <5>1, FS_EmptySet
      <4>2. Cardinality(finished) \in Nat /\ Cardinality(failed) \in Nat
        BY <1>1, FS_CardinalityType
      <4>3. Cardinality(finished \union failed)
              = Cardinality(finished) + Cardinality(failed)
                - Cardinality(finished \intersect failed)
        BY <1>1, FS_Union
      <4>4. QED
        BY <4>1, <4>2, <4>3
    <3>2. finished \union failed \in SUBSET Seg
      BY <1>1
    <3>3. QED
      BY <1>1, <2>2, <3>1, <3>2, FS_Subset DEF FinishCounts
  <2>3. QED
    BY <2>1, <2>2 DEF end
<1>4. Busy = {}
  BY <1>2, <1>3
<1>5. Working = {}
  BY <1>4 DEF Busy
<1>6. QED
  BY <1>3, <1>5 DEF end

\* A retry is counted at every failed attempt, and the attempt after the last
\* retry gives the segment up.
GivenUp ==
  \A i \in Seg : IF i \in failed THEN retries[i] = MaxRetry + 1
                                 ELSE retries[i] <= MaxRetry

\* A segment is given up at its last retry, and "gaveup" needs such a segment.
LEMMA GivenUpCorrect == Spec => []GivenUp
<1>1. Init => GivenUp
  BY DownloaderAssumption DEF Init, GivenUp
<1>2. TypeOK /\ GivenUp /\ [Next]_vars => GivenUp'
  <2> SUFFICES ASSUME TypeOK, GivenUp, [Next]_vars PROVE GivenUp'
    OBVIOUS
  <2>1. CASE UNCHANGED placeVars
    BY <2>1 DEF placeVars, GivenUp
  <2>2. CASE Spawn
    BY <2>2 DEF Spawn, GivenUp
  <2>3. ASSUME NEW g \in Goroutine, download(g) PROVE GivenUp'
    <3>1. CASE back(g) /\ gseg[g] \notin failed
      <4>1. /\ gseg[g] \in Seg
            /\ retries' = [retries EXCEPT ![gseg[g]] = retries[gseg[g]] + 1]
            /\ failed' = IF retries[gseg[g]] + 1 > MaxRetry
                         THEN failed \union {gseg[g]} ELSE failed
        BY <3>1 DEF back, countRetry, exceeded, TypeOK, Busy, Working, DownloadSteps
      <4>2. retries \in [Seg -> Nat] /\ MaxRetry \in Nat
        BY DownloaderAssumption DEF TypeOK
      <4>3. retries[gseg[g]] <= MaxRetry
        BY <3>1, <4>1 DEF GivenUp
      <4>4. QED
        BY <4>1, <4>2, <4>3 DEF GivenUp
    <3>2. CASE ~(back(g) /\ gseg[g] \notin failed)
      <4>1. failed' = failed /\ retries' = retries
        BY <2>3, <3>2 DEF download, Begin, FetchOk, FetchFail, Count, back,
                          ReceiveToken, queueVars
      <4>2. QED
        BY <4>1 DEF GivenUp
    <3>3. QED
      BY <3>1, <3>2
  <2>4. QED
    BY <2>1, <2>2, <2>3, StepCases, ElsewhereKeepsPlaces
<1>3. QED
  BY <1>1, <1>2, TypeCorrect, PTL DEF Spec

\* A segment is given up exactly when MaxRetry + 1 attempts at it have failed,
\* and "gaveup" is returned only when some segment was.
THEOREM GivenUpAfterAllRetriesCorrect == Spec => []GivenUpAfterAllRetries
<1> DEFINE SomeFailed == result = "gaveup" => failed # {}
<1>1. Init => SomeFailed
  BY DEF Init
<1>2. Answered /\ SomeFailed /\ [Next]_vars => SomeFailed'
  <2> SUFFICES ASSUME Answered, SomeFailed, [Next]_vars PROVE SomeFailed'
    OBVIOUS
  <2>1. CASE Elsewhere
    BY <2>1 DEF Elsewhere, StopDispatch, StopAtEnd, SendToken, WaitCancelled,
         WaitAll, MergeOpen, MergeSegment, MergeCount, RemoveTS, RemoveMeta,
         Convert, UnlinkTS, Cancel, vars, Goto, Return, queueVars
  <2>2. CASE Spawn
    BY <2>2 DEF Spawn, Goto
  <2>3. ASSUME NEW g \in Goroutine, download(g) PROVE SomeFailed'
    BY <2>3 DEF download, Begin, FetchOk, FetchFail, Count, back, ReceiveToken,
                queueVars
  <2>4. QED
    BY <2>1, <2>2, <2>3, StepCases
<1>3. GivenUp /\ SomeFailed => GivenUpAfterAllRetries
  BY DEF GivenUp, GivenUpAfterAllRetries
<1>4. QED
  BY <1>1, <1>2, <1>3, AnsweredCorrect, GivenUpCorrect, PTL DEF Spec

\* When the loop has left by its end flag nothing is queued or owned any more
\* and every segment is finished or given up, up to the return of Start.
THEOREM SettledAtEndCorrect == Spec => []SettledAtEnd
<1>1. Init => SettledAtEnd
  BY DEF Init, SettledAtEnd, PC, Result
<1>2. /\ TypeOK /\ Partition /\ FinishCounts /\ Answered /\ SettledAtEnd
      /\ [Next]_vars
      => SettledAtEnd'
  <2> SUFFICES ASSUME TypeOK, Partition, FinishCounts, Answered, SettledAtEnd,
                      [Next]_vars
               PROVE  SettledAtEnd'
    OBVIOUS
  <2> DEFINE Settled == queue = <<>> /\ Working = {} /\ finished \union failed = Seg
             Past == \/ pc \in PC \ {"loop", "send", "cancelwait", "done"}
                     \/ result \in Result \ {"none", "cancelled"}
  <2>0. Past => Settled
    BY DEF SettledAtEnd
  <2>1. CASE StopAtEnd
    <3>1. Settled
      BY <2>1, EndMeansSettled DEF StopAtEnd
    <3>2. Settled'
      BY <2>1, <3>1 DEF StopAtEnd, queueVars, poolVars, Working
    <3>3. QED
      BY <3>2 DEF SettledAtEnd
  <2>2. CASE Elsewhere /\ ~StopAtEnd
    <3>1. Past' => Past
      BY <2>2 DEF Elsewhere, StopDispatch, SendToken, WaitCancelled, WaitAll,
         MergeOpen, MergeSegment, MergeCount, RemoveTS, RemoveMeta, Convert,
         UnlinkTS, Cancel, vars, Goto, Return, PC, Result, Answered
    <3>2. UNCHANGED placeVars
      BY <2>2, ElsewhereKeepsPlaces
    <3>3. Settled => Settled'
      BY <3>2 DEF placeVars, Working
    <3>4. QED
      BY <2>0, <3>1, <3>3 DEF SettledAtEnd
  <2>3. CASE Spawn
    <3>1. ~Past'
      BY <2>3 DEF Spawn, Goto, PC, Result, Answered
    <3>2. QED
      BY <3>1 DEF SettledAtEnd
  <2>4. ASSUME NEW g \in Goroutine, download(g) PROVE SettledAtEnd'
    <3>1. pc' = pc /\ result' = result
      BY <2>4 DEF download, Begin, FetchOk, FetchFail, Count, back, ReceiveToken
    <3>2. Working = {} => ReceiveToken(g)
      BY <2>4 DEF download, Begin, FetchOk, FetchFail, Count, back, Working,
                  DownloadSteps
    <3>3. ReceiveToken(g) /\ Working = {} => Working' = {}
      BY DEF ReceiveToken, Working, DownloadSteps, TypeOK
    <3>4. ReceiveToken(g) => UNCHANGED <<queue, failed, finished>>
      BY DEF ReceiveToken, queueVars
    <3>5. QED
      BY <2>0, <3>1, <3>2, <3>3, <3>4 DEF SettledAtEnd
  <2>5. QED
    BY <2>1, <2>2, <2>3, <2>4, StepCases
<1>3. QED
  BY <1>1, <1>2, TypeCorrect, PartitionCorrect, FinishCountsCorrect,
     AnsweredCorrect, PTL DEF Spec

-----------------------------------------------------------------------------
(* The merge.                                                              *)

MergePhase == {"merge", "copy", "clean", "meta", "convert", "unlink"}

\* Until merge removes ts/, the file of every finished segment is there, and so
\* is the file of a segment that is about to be counted.
OnDisk ==
  pc \notin {"meta", "convert", "unlink", "done"} =>
    /\ finished \subseteq files
    /\ \A g \in Goroutine : gpc[g] = "renamed" => gseg[g] \in files

\* merge runs alone, and only when no segment was given up.
MergeAlone ==
  /\ pc \in MergePhase \union {"done"} => Alive = {}
  /\ pc \in MergePhase \/ result = "ok" => failed = {}

\* A finished segment has its file, until merge removes the files.
LEMMA OnDiskCorrect == Spec => []OnDisk
<1>1. Init => OnDisk
  BY DEF Init, OnDisk
<1>2. TypeOK /\ OnDisk /\ [Next]_vars => OnDisk'
  <2> SUFFICES ASSUME TypeOK, OnDisk, [Next]_vars PROVE OnDisk'
    OBVIOUS
  <2>1. CASE Elsewhere
    <3>1. UNCHANGED <<gpc, gseg, finished>>
      BY <2>1, ElsewhereKeepsPlaces DEF placeVars
    <3>2. \/ pc' \in {"meta", "done"} /\ pc \notin {"meta", "convert", "unlink", "done"}
          \/ pc \in {"meta", "convert", "unlink", "done"}
             /\ pc' \in {"meta", "convert", "unlink", "done"}
          \/ files' = files /\ pc \notin {"meta", "convert", "unlink", "done"}
      BY <2>1 DEF Elsewhere, StopDispatch, StopAtEnd, SendToken, WaitCancelled,
         WaitAll, MergeOpen, MergeSegment, MergeCount, RemoveTS, RemoveMeta,
         Convert, UnlinkTS, Cancel, vars, Goto, Return, diskVars
    <3>3. QED
      BY <3>1, <3>2 DEF OnDisk
  <2>2. CASE Spawn
    BY <2>2 DEF Spawn, Goto, OnDisk, TypeOK, diskVars
  <2>3. ASSUME NEW g \in Goroutine, download(g) PROVE OnDisk'
    <3>1. pc' = pc /\ files \subseteq files'
      BY <2>3 DEF download, Begin, FetchOk, FetchFail, Count, back, ReceiveToken,
                  diskVars
    <3>2. CASE Count(g)
      BY <3>2 DEF Count, OnDisk, TypeOK, diskVars
    <3>3. CASE FetchOk(g)
      BY <3>3 DEF FetchOk, OnDisk, TypeOK
    <3>4. CASE ~Count(g) /\ ~FetchOk(g)
      <4>1. finished' = finished
        BY <2>3, <3>4 DEF download, Begin, FetchFail, back, ReceiveToken
      <4>2. ASSUME NEW h \in Goroutine, gpc'[h] = "renamed"
            PROVE  gpc[h] = "renamed" /\ gseg'[h] = gseg[h]
        BY <2>3, <3>4, <4>2
           DEF download, Begin, FetchFail, back, ReceiveToken, TypeOK
      <4>3. QED
        BY <3>1, <4>1, <4>2 DEF OnDisk
    <3>5. QED
      BY <3>2, <3>3, <3>4
  <2>4. QED
    BY <2>1, <2>2, <2>3, StepCases
<1>3. QED
  BY <1>1, <1>2, TypeCorrect, PTL DEF Spec

\* From merge on no goroutine exists.
LEMMA MergeAloneCorrect == Spec => []MergeAlone
<1>1. Init => MergeAlone
  BY DEF Init, MergeAlone, MergePhase
<1>2. TypeOK /\ Answered /\ MergeAlone /\ [Next]_vars => MergeAlone'
  <2> SUFFICES ASSUME TypeOK, Answered, MergeAlone, [Next]_vars PROVE MergeAlone'
    OBVIOUS
  <2>1. CASE Elsewhere
    <3>1. UNCHANGED <<gpc, failed>>
      BY <2>1, ElsewhereKeepsPlaces DEF placeVars
    <3>2. Alive' = Alive
      BY <3>1 DEF Alive
    <3>3. pc' \in MergePhase \union {"done"} =>
            Alive = {} \/ pc \in MergePhase \union {"done"}
      BY <2>1 DEF Elsewhere, StopDispatch, StopAtEnd, SendToken, WaitCancelled,
         WaitAll, MergeOpen, MergeSegment, MergeCount, RemoveTS, RemoveMeta,
         Convert, UnlinkTS, Cancel, vars, Goto, Return, MergePhase
    <3>4. pc' \in MergePhase \/ result' = "ok" =>
            failed = {} \/ pc \in MergePhase \/ result = "ok"
      BY <2>1 DEF Elsewhere, StopDispatch, StopAtEnd, SendToken, WaitCancelled,
         WaitAll, MergeOpen, MergeSegment, MergeCount, RemoveTS, RemoveMeta,
         Convert, UnlinkTS, Cancel, vars, Goto, Return, MergePhase
    <3>5. QED
      BY <3>1, <3>2, <3>3, <3>4 DEF MergeAlone
  <2>2. CASE Spawn
    BY <2>2 DEF Spawn, Goto, MergeAlone, MergePhase, Answered
  <2>3. ASSUME NEW g \in Goroutine, download(g) PROVE MergeAlone'
    <3>1. pc' = pc /\ result' = result
      BY <2>3 DEF download, Begin, FetchOk, FetchFail, Count, back, ReceiveToken
    <3>2. g \in Alive
      BY <2>3 DEF download, Begin, FetchOk, FetchFail, Count, back, ReceiveToken,
                  Alive
    <3>3. pc \notin MergePhase \union {"done"} /\ result # "ok"
      BY <3>2 DEF MergeAlone, Answered
    <3>4. QED
      BY <3>1, <3>3 DEF MergeAlone
  <2>4. QED
    BY <2>1, <2>2, <2>3, StepCases
<1>3. QED
  BY <1>1, <1>2, TypeCorrect, AnsweredCorrect, PTL DEF Spec

\* merge starts with every segment file in place and nobody left to write one.
THEOREM MergeSeesAllCorrect == Spec => []MergeSeesAll
<1>1. TypeOK /\ SettledAtEnd /\ OnDisk /\ MergeAlone => MergeSeesAll
  <2> SUFFICES ASSUME TypeOK, SettledAtEnd, OnDisk, MergeAlone,
                      pc \in {"merge", "copy", "clean"}
               PROVE  files = Seg /\ failed = {} /\ Alive = {}
    BY DEF MergeSeesAll
  <2>1. failed = {} /\ Alive = {}
    BY DEF MergeAlone, MergePhase
  <2>2. finished \union failed = Seg
    BY DEF SettledAtEnd, PC
  <2>3. finished \subseteq files /\ files \subseteq Seg
    BY DEF OnDisk, TypeOK
  <2>4. QED
    BY <2>1, <2>2, <2>3
<1>2. QED
  BY <1>1, TypeCorrect, SettledAtEndCorrect, OnDiskCorrect, MergeAloneCorrect, PTL

\* What has been copied: nothing before the loop; in the loop, if no segment
\* was skipped, the segments so far in order; after it, all of them.
MergeOrder ==
  /\ pc \in {"loop", "send", "cancelwait", "wait", "merge"} => pos = 0 /\ merged = <<>>
  /\ pc = "copy" => /\ Len(merged) <= pos
                    /\ Len(merged) = pos => \A k \in 1 .. pos : merged[k] = k - 1
  /\ pc \in {"clean", "meta", "convert", "unlink"} \/ result = "ok" => merged = Whole

\* Which output files exist, whatever an earlier run has left.
OutputFiles ==
  /\ pc \in {"copy", "clean", "meta", "convert", "unlink"} => "ts" \in outputs
  /\ pc \in {"convert", "unlink"} => ToMP4
  /\ pc = "unlink" => "mp4" \in outputs
  /\ result = "ok" => IF ToMP4 THEN "mp4" \in outputs /\ "ts" \notin outputs
                              ELSE "ts" \in outputs

\* The merge loop copies in playlist order; a full count means all of them.
LEMMA MergeOrderCorrect == Spec => []MergeOrder
<1>1. Init => MergeOrder
  BY DEF Init, MergeOrder
<1>2. TypeOK /\ Answered /\ MergeOrder /\ [Next]_vars => MergeOrder'
  <2> SUFFICES ASSUME TypeOK, Answered, MergeOrder, [Next]_vars PROVE MergeOrder'
    OBVIOUS
  <2>0. /\ merged \in Seq(Seg) /\ Len(merged) \in Nat
        /\ pos \in 0 .. SegLen /\ SegLen \in Nat
    BY LenProperties, DownloaderAssumption DEF TypeOK
  <2>1. CASE MergeSegment
    <3>1. CASE cancelled
      BY <2>1, <3>1 DEF MergeSegment, Return, MergeOrder
    <3>2. CASE ~cancelled /\ merged' = merged
      <4>1. pc = "copy" /\ pc' = "copy" /\ pos' = pos + 1 /\ result' = result
        BY <2>1, <3>2 DEF MergeSegment
      <4>2. Len(merged) <= pos
        BY <4>1 DEF MergeOrder
      <4>3. Len(merged') < pos'
        BY <2>0, <3>2, <4>1, <4>2
      <4>4. result' # "ok"
        BY <4>1 DEF Answered
      <4>5. QED
        BY <2>0, <3>2, <4>1, <4>3, <4>4 DEF MergeOrder
    <3>3. CASE ~cancelled /\ merged' = Append(merged, pos) /\ pos \in files
      <4>1. pc = "copy" /\ pc' = "copy" /\ pos' = pos + 1 /\ result' = result
        BY <2>1, <3>3 DEF MergeSegment
      <4>2. /\ Len(merged) <= pos
            /\ Len(merged) = pos => \A k \in 1 .. pos : merged[k] = k - 1
        BY <4>1 DEF MergeOrder
      <4>3. /\ Len(merged') = Len(merged) + 1
            /\ \A k \in 1 .. Len(merged) : merged'[k] = merged[k]
            /\ merged'[Len(merged) + 1] = pos
        BY <2>0, <3>3, AppendProperties DEF TypeOK
      <4>4. Len(merged') = pos' => \A k \in 1 .. pos' : merged'[k] = k - 1
        <5> SUFFICES ASSUME Len(merged') = pos', NEW k \in 1 .. pos'
                     PROVE  merged'[k] = k - 1
          OBVIOUS
        <5>1. Len(merged) = pos
          BY <2>0, <4>1, <4>3
        <5>2. CASE k = pos + 1
          BY <2>0, <4>3, <5>1, <5>2
        <5>3. CASE k \in 1 .. pos
          BY <4>2, <4>3, <5>1, <5>3
        <5>4. QED
          BY <2>0, <4>1, <5>2, <5>3
      <4>5. Len(merged') <= pos' /\ result' # "ok"
        BY <2>0, <4>1, <4>2, <4>3 DEF Answered
      <4>6. QED
        BY <4>1, <4>4, <4>5 DEF MergeOrder
    <3>4. QED
      BY <2>1, <3>1, <3>2, <3>3 DEF MergeSegment
  <2>2. CASE MergeCount
    <3>1. pc = "copy" /\ pos = SegLen /\ merged' = merged /\ pos' = pos
      BY <2>2 DEF MergeCount, mergeVars
    <3>2. CASE mergeShort
      BY <2>2, <3>2 DEF MergeCount, Return, MergeOrder
    <3>3. CASE ~mergeShort
      <4>1. Len(merged) = SegLen /\ \A k \in 1 .. SegLen : merged[k] = k - 1
        BY <3>1, <3>3 DEF mergeShort, MergeOrder
      <4>2. merged = Whole
        <5>1. DOMAIN merged = 1 .. SegLen /\ merged = [k \in DOMAIN merged |-> merged[k]]
          BY <2>0, <4>1, LenProperties
        <5>2. QED
          BY <4>1, <5>1 DEF Whole
      <4>3. merged' = Whole'
        BY <3>1, <4>2 DEF Whole
      <4>4. pc' = "clean"
        BY <2>2, <3>3 DEF MergeCount, Goto
      <4>5. QED
        BY <4>3, <4>4 DEF MergeOrder
    <3>4. QED
      BY <3>2, <3>3
  <2>3. CASE MergeOpen
    <3>1. pc = "merge" /\ UNCHANGED <<pos, merged>>
          /\ \/ pc' = "copy" /\ result' = result
             \/ pc' = "done" /\ result' # "ok"
      BY <2>3 DEF MergeOpen, Goto, Return, mergeVars
    <3>2. pos = 0 /\ merged = <<>> /\ Len(merged) = 0
      BY <3>1 DEF MergeOrder
    <3>3. result # "ok"
      BY <3>1 DEF Answered
    <3>4. QED
      BY <3>1, <3>2, <3>3 DEF MergeOrder
  <2>4. CASE Elsewhere /\ ~MergeSegment /\ ~MergeCount /\ ~MergeOpen
    <3>1. UNCHANGED <<pos, merged>>
      BY <2>4 DEF Elsewhere, StopDispatch, StopAtEnd, SendToken, WaitCancelled,
         WaitAll, RemoveTS, RemoveMeta, Convert, UnlinkTS, Cancel, vars, mergeVars
    <3>2. \/ pc' = "copy" <=> pc = "copy"
          \/ pc' = "done"
      BY <2>4 DEF Elsewhere, StopDispatch, StopAtEnd, SendToken, WaitCancelled,
         WaitAll, RemoveTS, RemoveMeta, Convert, UnlinkTS, Cancel, vars, Goto, Return
    <3>3. pc' \in {"loop", "send", "cancelwait", "wait", "merge"} =>
            pc \in {"loop", "send", "cancelwait", "wait", "merge"}
      BY <2>4 DEF Elsewhere, StopDispatch, StopAtEnd, SendToken, WaitCancelled,
         WaitAll, RemoveTS, RemoveMeta, Convert, UnlinkTS, Cancel, vars, Goto, Return
    <3>4. pc' \in {"clean", "meta", "convert", "unlink"} \/ result' = "ok" =>
            pc \in {"clean", "meta", "convert", "unlink"} \/ result = "ok"
      BY <2>4 DEF Elsewhere, StopDispatch, StopAtEnd, SendToken, WaitCancelled,
         WaitAll, RemoveTS, RemoveMeta, Convert, UnlinkTS, Cancel, vars, Goto, Return
    <3>5. Whole' = Whole
      BY DEF Whole
    <3>6. QED
      BY <3>1, <3>2, <3>3, <3>4, <3>5 DEF MergeOrder
  <2>5. CASE Spawn
    BY <2>5 DEF Spawn, Goto, MergeOrder, mergeVars, Answered
  <2>6. ASSUME NEW g \in Goroutine, download(g) PROVE MergeOrder'
    <3>1. UNCHANGED <<pc, pos, merged, result>>
      BY <2>6 DEF download, Begin, FetchOk, FetchFail, Count, back, ReceiveToken,
                  mergeVars
    <3>2. QED
      BY <3>1 DEF MergeOrder, Whole
  <2>7. QED
    BY <2>1, <2>2, <2>3, <2>4, <2>5, <2>6, StepCases
<1>3. QED
  BY <1>1, <1>2, TypeCorrect, AnsweredCorrect, PTL DEF Spec

\* The files that exist at each stage after merge has created the output.
LEMMA OutputFilesCorrect == Spec => []OutputFiles
<1>1. Init => OutputFiles
  BY DEF Init, OutputFiles
<1>2. Answered /\ OutputFiles /\ [Next]_vars => OutputFiles'
  <2> SUFFICES ASSUME Answered, OutputFiles, [Next]_vars PROVE OutputFiles'
    OBVIOUS
  <2> USE DEF OutputFiles, Answered
  <2>1. CASE StopDispatch \/ StopAtEnd \/ SendToken \/ WaitCancelled \/ WaitAll
             \/ Spawn
    BY <2>1 DEF StopDispatch, StopAtEnd, SendToken, WaitCancelled, WaitAll,
                Spawn, Goto, Return, diskVars
  <2>2. CASE MergeOpen \/ MergeSegment \/ MergeCount \/ RemoveTS
    BY <2>2 DEF MergeOpen, MergeSegment, MergeCount, RemoveTS, Goto, Return, diskVars
  <2>3. CASE RemoveMeta \/ Convert
    BY <2>3 DEF RemoveMeta, Convert, Goto, Return
  <2>4. CASE UnlinkTS
    BY <2>4 DEF UnlinkTS, Return
  <2>5. CASE Cancel \/ UNCHANGED vars
    BY <2>5 DEF Cancel, vars, diskVars
  <2>6. ASSUME NEW g \in Goroutine, download(g) PROVE OutputFiles'
    BY <2>6 DEF download, Begin, FetchOk, FetchFail, Count, back, ReceiveToken,
                diskVars
  <2>7. QED
    BY <2>1, <2>2, <2>3, <2>4, <2>5, <2>6, StepCases DEF Elsewhere
<1>3. QED
  BY <1>1, <1>2, AnsweredCorrect, PTL DEF Spec

\* nil from Start means every segment merged in playlist order and the requested
\* output file left.
THEOREM OkMeansDeliveredCorrect == Spec => []OkMeansDelivered
<1>1. MergeOrder /\ OutputFiles => OkMeansDelivered
  BY DEF MergeOrder, OutputFiles, OkMeansDelivered
<1>2. QED
  BY <1>1, MergeOrderCorrect, OutputFilesCorrect, PTL

\* Segment files disappear only in a step that finds the whole playlist merged.
THEOREM FilesKept == Spec => FilesKeptUntilMerged
<1>1. MergeOrder /\ [Next]_vars => (~(files \subseteq files') => merged = Whole)
  <2> SUFFICES ASSUME MergeOrder, [Next]_vars, ~(files \subseteq files')
               PROVE  merged = Whole
    OBVIOUS
  <2>1. RemoveTS
    BY DEF Next, Start, Returned, StopDispatch, Spawn, StopAtEnd, SendToken,
       WaitCancelled, WaitAll, MergeOpen, MergeSegment, MergeCount, RemoveMeta,
       Convert, UnlinkTS, Cancel, download, Begin, FetchOk, FetchFail, Count,
       back, ReceiveToken, vars, diskVars
  <2>2. QED
    BY <2>1 DEF RemoveTS, MergeOrder
<1>2. QED
  BY <1>1, MergeOrderCorrect, PTL DEF Spec, FilesKeptUntilMerged

\* Nothing moves after Start has returned.
THEOREM Quiet == Spec => QuietAfterReturn
<1>1. MergeAlone /\ [Next]_vars => (pc = "done" => UNCHANGED vars)
  <2> SUFFICES ASSUME MergeAlone, [Next]_vars, pc = "done" PROVE UNCHANGED vars
    OBVIOUS
  <2>1. Alive = {}
    BY DEF MergeAlone
  <2>2. ~Start /\ ~Cancel
    BY DEF Start, StopDispatch, Spawn, StopAtEnd, SendToken, WaitCancelled,
       WaitAll, MergeOpen, MergeSegment, MergeCount, RemoveTS, RemoveMeta,
       Convert, UnlinkTS, Cancel
  <2>3. \A g \in Goroutine : ~download(g)
    BY <2>1 DEF download, Begin, FetchOk, FetchFail, Count, back, ReceiveToken, Alive
  <2>4. QED
    BY <2>2, <2>3 DEF Next, Returned
<1>2. QED
  BY <1>1, MergeAloneCorrect, PTL DEF Spec, QuietAfterReturn

-----------------------------------------------------------------------------
(* Refinement.                                                             *)

Delivered == merged = Whole

\* The abstract outcome of every result.
LEMMA OutcomeValues ==
  /\ result = "none" => Outcome = "none"
  /\ result = "ok" => Outcome = "ok"
  /\ result = "cancelled" => Outcome = "cancelled"
  /\ result = "gaveup" => Outcome = "gave_up"
  /\ result \in {"merge_error", "meta_error", "convert_error", "unlink_error"}
       => Outcome = "error"
BY DEF Outcome

\* The same of the next state.
LEMMA OutcomeValuesNext ==
  /\ result' = "none" => Outcome' = "none"
  /\ result' = "ok" => Outcome' = "ok"
  /\ result' = "cancelled" => Outcome' = "cancelled"
  /\ result' = "gaveup" => Outcome' = "gave_up"
  /\ result' \in {"merge_error", "meta_error", "convert_error", "unlink_error"}
       => Outcome' = "error"
BY DEF Outcome

\* The conjunction of invariants under which every step of the downloader is a
\* step of the job.
JobInv ==
  /\ TypeOK /\ Partition /\ Answered /\ SettledAtEnd
  /\ MergeAlone /\ MergeOrder /\ GivenUpAfterAllRetries

\* A return after the dispatch loop has ended, or a cancelled one, is an answer
\* that the abstract job allows.
LEMMA ReturnIsAnswer ==
  ASSUME JobInv, result = "none",
         UNCHANGED <<finished, failed, merged>>,
         \/ result' = "cancelled"
         \/ result' = "ok" /\ merged = Whole
         \/ result' = "gaveup" /\ pc = "wait" /\ failed # {}
         \/ /\ result' \in {"merge_error", "meta_error", "convert_error", "unlink_error"}
            /\ pc \in MergePhase
  PROVE  Job!Answer
<1>1. Status' = Status /\ Delivered' = Delivered
  BY DEF Status, Delivered, Whole
<1>2. Outcome = "none"
  BY OutcomeValues
<1>3. CASE result' = "cancelled"
  BY <1>1, <1>2, <1>3, OutcomeValuesNext DEF Job!Answer, Delivered
<1>4. CASE result' = "ok" /\ merged = Whole
  BY <1>1, <1>2, <1>4, OutcomeValuesNext DEF Job!Answer, Delivered
<1>5. CASE result' = "gaveup" /\ pc = "wait" /\ failed # {}
  <2>1. finished \union failed = Seg /\ finished \intersect failed = {}
    BY <1>5 DEF JobInv, SettledAtEnd, PC, Partition
  <2>2. \A i \in Seg : Status[i] # "pending"
    BY <2>1 DEF Status
  <2>3. PICK i \in failed : TRUE
    BY <1>5
  <2>4. i \in Seg /\ Status[i] = "given_up"
    BY <2>1, <2>3 DEF Status
  <2>5. ~Job!AllDone
    BY <2>4 DEF Job!AllDone
  <2>6. QED
    BY <1>1, <1>2, <1>5, <2>2, <2>5, OutcomeValuesNext DEF Job!Answer, Delivered
<1>6. CASE /\ result' \in {"merge_error", "meta_error", "convert_error", "unlink_error"}
           /\ pc \in MergePhase
  <2>1. finished = Seg
    BY <1>6 DEF JobInv, SettledAtEnd, PC, MergeAlone, MergePhase
  <2>2. Job!AllDone
    BY <2>1 DEF Job!AllDone, Status
  <2>3. QED
    BY <1>1, <1>2, <1>6, <2>2, OutcomeValuesNext DEF Job!Answer, Delivered
<1>7. QED
  BY <1>3, <1>4, <1>5, <1>6

\* A step that keeps the records, the output and the result is a stutter.
LEMMA SameJob ==
  UNCHANGED <<finished, failed, merged, result>> => UNCHANGED Job!jobVars
<1>1. UNCHANGED <<finished, failed, merged, result>> =>
        Status' = Status /\ Delivered' = Delivered /\ Outcome' = Outcome
  BY DEF Status, Delivered, Whole, Outcome
<1>2. QED
  BY <1>1 DEF Job!jobVars, Delivered

\* Start implements the job it promises: its initial states are initial states
\* of SegmentJob, and each of its steps is a step of it or a stutter.
THEOREM DownloaderImplementsJob == Spec => ImplementsJob
<1>1. Init => Job!JobInit
  <2> SUFFICES ASSUME Init PROVE Job!JobInit
    OBVIOUS
  <2>1. failed = {} /\ result = "none" /\ merged = <<>>
    BY DEF Init
  <2>2. Status \in [Seg -> {"pending", "done"}]
    BY <2>1 DEF Status
  <2>3. (merged = Whole) = (Seg = {})
    <3>1. CASE SegLen = 0
      BY <2>1, <3>1 DEF Whole, Seg
    <3>2. CASE SegLen # 0
      <4>1. 0 \in Seg /\ 1 \in 1 .. SegLen
        BY <3>2, DownloaderAssumption DEF Seg
      <4>2. DOMAIN Whole # {} /\ DOMAIN <<>> = {}
        BY <4>1 DEF Whole
      <4>3. QED
        BY <2>1, <4>1, <4>2
    <3>3. QED
      BY <3>1, <3>2
  <2>4. QED
    BY <2>1, <2>2, <2>3, OutcomeValues DEF Job!JobInit
<1>2. JobInv /\ [Next]_vars => [Job!JobNext]_(Job!jobVars)
  <2> SUFFICES ASSUME JobInv, [Next]_vars PROVE Job!JobNext \/ UNCHANGED Job!jobVars
    OBVIOUS
  <2>0. pc # "done" => result = "none"
    BY DEF JobInv, Answered
  <2>1. CASE StopDispatch \/ StopAtEnd \/ SendToken \/ Spawn \/ Cancel
    <3>1. UNCHANGED <<finished, failed, merged, result>>
      BY <2>1 DEF StopDispatch, StopAtEnd, SendToken, Spawn, Cancel, Goto,
                  queueVars, mergeVars
    <3>2. QED
      BY <3>1, SameJob
  <2>2. CASE WaitCancelled
    <3>1. UNCHANGED <<finished, failed, merged>> /\ result' = "cancelled" /\ pc # "done"
      BY <2>2 DEF WaitCancelled, Return, queueVars, mergeVars
    <3>2. QED
      BY <2>0, <3>1, ReturnIsAnswer DEF Job!JobNext
  <2>3. CASE WaitAll
    <3>1. UNCHANGED <<finished, failed, merged>> /\ pc = "wait"
      BY <2>3 DEF WaitAll, queueVars, mergeVars
    <3>2. \/ result' = result
          \/ result' = "cancelled"
          \/ result' = "gaveup" /\ failed # {}
      BY <2>3 DEF WaitAll, Return, Goto
    <3>3. QED
      BY <2>0, <3>1, <3>2, ReturnIsAnswer, SameJob DEF Job!JobNext
  <2>4. CASE MergeSegment
    <3>1. UNCHANGED <<finished, failed>> /\ pc = "copy" /\ pos < SegLen
      BY <2>4 DEF MergeSegment, queueVars
    <3>2. CASE cancelled
      <4>1. merged' = merged /\ result' = "cancelled"
        BY <2>4, <3>2 DEF MergeSegment, Return
      <4>2. QED
        BY <2>0, <3>1, <4>1, ReturnIsAnswer DEF Job!JobNext
    <3>3. CASE ~cancelled
      <4>1. result' = result
        BY <2>4, <3>3 DEF MergeSegment
      <4>2. CASE merged' = merged
        BY <3>1, <4>1, <4>2, SameJob
      <4>3. CASE merged' # merged /\ merged' # Whole
        <5>1. merged # Whole
          <6>1. Len(merged) < SegLen
            BY <3>1, LenProperties, DownloaderAssumption
               DEF JobInv, TypeOK, MergeOrder
          <6>2. Whole \in [1 .. SegLen -> Int]
            BY DownloaderAssumption DEF Whole
          <6>3. Len(Whole) = SegLen
            BY DownloaderAssumption DEF Whole
          <6>4. QED
            BY <6>1, <6>3, LenProperties, DownloaderAssumption DEF JobInv, TypeOK
        <5>2. Status' = Status /\ Delivered' = Delivered /\ Outcome' = Outcome
          BY <3>1, <4>1, <4>3, <5>1 DEF Status, Delivered, Whole, Outcome
        <5>3. QED
          BY <5>2 DEF Job!jobVars, Delivered
      <4>4. CASE merged' = Whole
        <5>1. Status' = Status /\ Outcome' = Outcome /\ Outcome = "none" /\ Delivered'
          BY <2>0, <3>1, <4>1, <4>4, OutcomeValues
             DEF Status, Outcome, Delivered, Whole
        <5>2. finished = Seg
          BY <3>1 DEF JobInv, SettledAtEnd, PC, MergeAlone, MergePhase
        <5>3. Job!AllDone
          BY <5>2 DEF Job!AllDone, Status
        <5>4. Job!Deliver
          BY <5>1, <5>3 DEF Job!Deliver, Delivered
        <5>5. QED
          BY <5>4 DEF Job!JobNext
      <4>5. QED
        BY <4>2, <4>3, <4>4
    <3>4. QED
      BY <3>2, <3>3
  <2>5. CASE MergeOpen \/ MergeCount \/ RemoveTS \/ RemoveMeta \/ Convert \/ UnlinkTS
    <3>1. UNCHANGED <<finished, failed, merged>> /\ pc \in MergePhase /\ pc # "done"
      BY <2>5 DEF MergeOpen, MergeCount, RemoveTS, RemoveMeta, Convert, UnlinkTS,
                  queueVars, mergeVars, MergePhase
    <3>2. \/ result' = result
          \/ result' = "cancelled"
          \/ result' \in {"merge_error", "meta_error", "convert_error", "unlink_error"}
          \/ result' = "ok" /\ pc \in {"meta", "convert", "unlink"}
      BY <2>5 DEF MergeOpen, MergeCount, RemoveTS, RemoveMeta, Convert, UnlinkTS,
                  Goto, Return
    <3>3. result' = "ok" /\ pc \in {"meta", "convert", "unlink"} => merged = Whole
      BY DEF JobInv, MergeOrder
    <3>4. QED
      BY <2>0, <3>1, <3>2, <3>3, ReturnIsAnswer, SameJob DEF Job!JobNext
  <2>6. ASSUME NEW g \in Goroutine, download(g)
        PROVE  Job!JobNext \/ UNCHANGED Job!jobVars
    <3>0. UNCHANGED <<pc, result, merged>> /\ g \in Alive
      BY <2>6 DEF download, Begin, FetchOk, FetchFail, Count, back, ReceiveToken,
                  mergeVars, Alive
    <3>1. CASE UNCHANGED <<finished, failed>>
      BY <3>0, <3>1, SameJob
    <3>2. CASE ~UNCHANGED <<finished, failed>>
      <4>1. /\ g \in Working
            /\ \/ failed' = failed /\ finished' = finished \union {gseg[g]}
               \/ failed' = failed \union {gseg[g]} /\ finished' = finished
        BY <2>6, <3>2 DEF download, Begin, FetchOk, FetchFail, Count, back,
                          ReceiveToken, queueVars, Working, DownloadSteps
      <4>2. gseg[g] \in Seg /\ gseg[g] \notin finished /\ gseg[g] \notin failed
        BY <4>1 DEF JobInv, Partition, TypeOK, Busy
      <4>3. Alive # {} /\ pc \notin MergePhase \union {"done"}
        BY <3>0 DEF JobInv, MergeAlone
      <4>4. merged = <<>> /\ result = "none"
        BY <2>0, <4>3 DEF JobInv, MergeOrder, TypeOK, PC, MergePhase
      <4>5. ~Delivered
        <5>1. 1 \in 1 .. SegLen
          BY <4>2, DownloaderAssumption DEF Seg
        <5>2. DOMAIN Whole # {} /\ DOMAIN <<>> = {}
          BY <5>1 DEF Whole
        <5>3. QED
          BY <4>4, <5>2 DEF Delivered
      <4>6. Delivered' = Delivered /\ Outcome' = Outcome /\ Outcome = "none"
        BY <3>0, <4>4, OutcomeValues DEF Delivered, Whole, Outcome
      <4>7. Status[gseg[g]] = "pending"
        BY <4>2 DEF Status
      <4>8. CASE failed' = failed /\ finished' = finished \union {gseg[g]}
        <5>1. Status' = [Status EXCEPT ![gseg[g]] = "done"]
          BY <4>2, <4>8 DEF Status
        <5>2. QED
          BY <4>2, <4>5, <4>6, <4>7, <5>1 DEF Job!JobNext, Job!Settle, Delivered
      <4>9. CASE failed' = failed \union {gseg[g]} /\ finished' = finished
        <5>1. Status' = [Status EXCEPT ![gseg[g]] = "given_up"]
          BY <4>2, <4>9 DEF Status
        <5>2. QED
          BY <4>2, <4>5, <4>6, <4>7, <5>1 DEF Job!JobNext, Job!Settle, Delivered
      <4>10. QED
        BY <4>1, <4>8, <4>9
    <3>3. QED
      BY <3>1, <3>2
  <2>7. CASE UNCHANGED vars
    BY <2>7, SameJob DEF vars, queueVars, mergeVars
  <2>8. QED
    BY <2>1, <2>2, <2>3, <2>4, <2>5, <2>6, <2>7 DEF Next, Start, Returned
<1>3. TypeOK /\ Partition /\ Answered /\ SettledAtEnd /\ MergeAlone /\ MergeOrder
      /\ GivenUpAfterAllRetries => JobInv
  BY DEF JobInv
<1>4. QED
  BY <1>1, <1>2, <1>3, TypeCorrect, PartitionCorrect, AnsweredCorrect,
     SettledAtEndCorrect, MergeAloneCorrect, MergeOrderCorrect,
     GivenUpAfterAllRetriesCorrect, PTL DEF Spec, ImplementsJob, Job!JobSpec
=============================================================================
