-------------------------- MODULE TaskManager_proofs --------------------------
(***************************************************************************)
(* Proofs about TaskManager, for any number of tasks, workers, handlers     *)
(* and crashes.                                                            *)
(***************************************************************************)
EXTENDS TaskManager, FiniteSetTheorems, TLAPS

-----------------------------------------------------------------------------
(* The inductive invariants, in parts.                                      *)

DispatchPlace == {"release", "dispatch", "list", "scan", "enqueue", "sending"}
RunningPlace == {"save_running", "prepare", "download", "save_progress", "convert", "reload",
                 "save_completed", "save_missing", "save_failed", "save_cancelled", "deregister"}
WorkerPlace == {"recv", "exited", "undispatch", "load", "save_skipped", "register"}
                 \union RunningPlace \union DispatchPlace
HandlerPlace == {"stash", "submit", "submitting", "rollback", "unsave"}
TaskPlace == {"new", "parse", "done"} \union HandlerPlace \union DispatchPlace
CancelPlace == {"idle", "signal", "mark", "settle", "done"} \union DispatchPlace
BootPlace == {"recover", "scan", "enqueue", "sending", "done"}
StopPlace == {"idle", "mark", "close", "wait", "exited"}
CleanerPlace == {"idle", "delete"}

Place == WorkerPlace \union TaskPlace \union CancelPlace \union BootPlace \union StopPlace
           \union CleanerPlace

\* Each process is where its code can be.
PlacesOK ==
  /\ pc \in [Proc -> Place]
  /\ \A w \in Worker : pc[w] \in WorkerPlace
  /\ \A t \in Task : pc[t] \in TaskPlace
  /\ \A c \in Canceller : pc[c] \in CancelPlace
  /\ pc[Boot] \in BootPlace /\ pc[Stop] \in StopPlace /\ pc[Cleaner] \in CleanerPlace

\* Where a process has a task.
JobPlace == {"enqueue", "sending", "undispatch", "load", "save_skipped", "register",
             "signal", "mark", "settle", "delete"} \union HandlerPlace \union RunningPlace

JobsGiven ==
  /\ \A p \in Proc \ {Stop} : pc[p] \in JobPlace => job[p] \in Task
  /\ \A t \in Task : pc[t] \in HandlerPlace => job[t] = t
  /\ \A c \in Canceller : pc[c] \in {"signal", "mark"} => rec[c].status \in {"pending", "running"}

\* The mutex is held by the process that waits to send, and by nobody once the manager
\* shuts down.
Mutex ==
  /\ \A p \in Proc : pc[p] \in Sending <=> mu = p
  /\ shuttingDown <=> pc[Stop] \in {"close", "wait"}
  /\ shuttingDown => mu = Nobody
  /\ closed => shuttingDown

\* Of a copy that may be saved as it is, or to which a date to expire is about to be given.
VerdictsKnown ==
  /\ \A t \in Task : store[t].status = "completed" => t \in delivered
  /\ \A w \in Worker :
       /\ pc[w] \in {"prepare", "download", "save_progress"} => rec[w].status = "running"
       /\ pc[w] \in {"reload", "save_completed", "save_missing"} => job[w] \in delivered

\* A process has a copy of a record only where its code uses one.
CopyPlace == {"signal", "mark", "settle", "save_skipped", "release", "register"}
               \union RunningPlace

CopyHeld == \A p \in Proc : rec[p] # Absent => p # Stop /\ pc[p] \in CopyPlace

Content(s) == {s[k] : k \in DOMAIN s}

\* A record that is gone was that of a task that was delivered, for every task that
\* somebody still has in hand; and so was one that has a date to expire.
Removable(t) == t \in delivered /\ MayExpire

Known(t) == store[t] # Absent \/ Removable(t)

ExpiryDelivered ==
  /\ \A t \in Task : store[t].expires => t \in delivered
  /\ \A t \in Task : expiring[t] # Absent => Removable(t)
  /\ \A p \in Proc : rec[p].expires => job[p] \in delivered
  /\ pc[Cleaner] = "delete" => Removable(job[Cleaner])
  /\ \A p \in Proc : job[p] # Nobody => Known(job[p])
  /\ \A p \in Proc : \A t \in todo[p] : Known(t)
  /\ \A t \in Content(workCh) : Known(t)

\* A record says running, uncancelled, only while a worker runs the task, or until
\* Recover has seen it.
RunnerPlace == RunningPlace \ {"save_running", "deregister"}

RunningHasRunner ==
  pc[Stop] # "exited" /\ pc[Boot] # "recover" =>
    \A t \in Task : store[t].status = "running" /\ ~store[t].cancelled =>
      \E w \in Worker : pc[w] \in RunnerPlace /\ job[w] = t

\* As long as a task waits, somebody is at work who will look at the tasks again when
\* he is done, or is looking and has the task on his list and a slot for it.
BusyPlace == {"stash", "submit", "submitting", "undispatch", "load", "save_skipped", "register",
              "release", "dispatch", "list", "enqueue", "sending"} \union RunningPlace

Active(t) == store[t].status \in {"pending", "running"} /\ ~store[t].cancelled

SomebodyLooks(t) ==
  \/ pc[Boot] = "recover"
  \/ workCh # <<>>
  \/ \E p \in Proc : pc[p] \in BusyPlace
  \/ \E p \in Proc : pc[p] = "scan" /\ t \in todo[p] /\ slots[p] > 0

WaitingIsSeen ==
  /\ \A p \in Proc : pc[p] = "list" => slots[p] > 0
  /\ ~shuttingDown /\ pc[Stop] # "exited" => \A t \in Task : Active(t) => SomebodyLooks(t)

\* A parsed playlist is kept for a task that is on its way to a worker.
ParsedInPipeline ==
  ~shuttingDown /\ pc[Stop] # "exited" => \A t \in parsed :
    \/ pc[t] \in {"submit", "submitting"}
    \/ t \in {workCh[k] : k \in DOMAIN workCh}
    \/ \E w \in Worker : /\ pc[w] \in {"undispatch", "load", "register", "save_running", "prepare"}
                         /\ job[w] = t

\* Nobody knows of a task before its record is saved.
Unborn ==
  \A t \in Task : pc[t] \in {"new", "parse"} =>
    /\ store[t] = Absent /\ expiring[t] = Absent /\ t \notin Content(workCh)
    /\ \A p \in Proc : job[p] # t /\ t \notin todo[p]

\* Create only goes back on its word when the manager shuts down.
Refusals == \A t \in Task : pc[t] \in {"rollback", "unsave"} => shuttingDown

\* Until Recover has listed the tasks nobody does anything; and before the first process
\* has begun nothing was delivered or cancelled.
FirstStart ==
  pc[Boot] = "recover" =>
    /\ workCh = <<>> /\ Expiring = {} /\ pc[Stop] = "idle" /\ pc[Cleaner] = "idle"
    /\ \A w \in Worker : pc[w] = "recv"
    /\ \A t \in Task : pc[t] \in {"new", "done"}
    /\ \A c \in Canceller : pc[c] \in {"idle", "done"}
    /\ crashes = 0 => delivered = {} /\ asked = {}

\* Without a cancellation, by a handler or before the first process began, no record and
\* no copy says cancelled.  (A copy of a record that was removed may say anything.)
NobodyCancelled ==
  CleanBacklog /\ asked = {} /\ (\A t \in Task : ~Removable(t)) =>
    /\ \A t \in Task : ~store[t].cancelled
    /\ \A p \in Proc : ~rec[p].cancelled

\* A slot is held for a task by whoever will give it back in the end, or will hand the
\* task on, and for one that waits to be dispatched; and by a cancellation on its way to
\* give one back.
SlotPlace == {"undispatch", "load", "save_skipped", "register", "release"} \union RunningPlace

HasSlot(p, t) ==
  \/ p = t /\ pc[p] \in {"parse", "stash", "submit", "submitting", "release"}
  \/ job[p] = t /\ \/ p \in Worker /\ pc[p] \in SlotPlace
                   \/ p \in Canceller /\ pc[p] = "settle"
                   \/ pc[p] = "sending"

Dispatchable(t) == store[t].status = "pending" /\ ~store[t].cancelled /\ ~Removable(t)

Held(t) == t \in Content(workCh) \/ Dispatchable(t) \/ \E p \in Proc : HasSlot(p, t)

Holders == {t \in Task : Held(t)} \union {c \in Canceller : pc[c] = "release"}

SlotsHeld ==
  Accountable /\ ~shuttingDown /\ pc[Stop] # "exited" => activeSlots <= Cardinality(Holders)

-----------------------------------------------------------------------------
(* Processes and steps.                                                     *)

Dispatcher == Worker \union Task \union Canceller

\* The processes are told apart by what they run.
LEMMA Processes ==
  /\ \A w \in Worker : w \notin Task \union Canceller \union {Boot, Stop, Cleaner, Nobody}
  /\ \A t \in Task : t \notin Worker \union Canceller \union {Boot, Stop, Cleaner, Nobody}
  /\ \A c \in Canceller : c \notin Worker \union Task \union {Boot, Stop, Cleaner, Nobody}
  /\ Boot \notin {Stop, Cleaner, Nobody} /\ Stop \notin {Boot, Cleaner, Nobody}
  /\ Cleaner \notin {Boot, Stop, Nobody}
  /\ Proc = Dispatcher \union {Boot, Stop, Cleaner} /\ Nobody \notin Proc
BY TaskManagerAssumption DEF Proc, Dispatcher

\* The steps of one process, and the ends of all of them.
ProcStep(p) ==
  \/ p \in Dispatcher \union {Boot} /\ (enqueue(p) \/ ScanEnd(p))
  \/ p \in Dispatcher /\ (releaseSlot(p) \/ CountSlots(p) \/ ListPending(p) \/ ScanNext(p))
  \/ p \in Task /\ Create(p)
  \/ p \in Canceller /\ CancelTask(p)
  \/ p \in Worker /\ (workerLoop(p) \/ runTask(p))
  \/ p = Cleaner /\ CleanupExpired
  \/ p = Boot /\ (RecoverList \/ RecoverNext)
  \/ p = Stop /\ (Signal \/ ShutdownMark \/ ShutdownClose)

Ends == ShutdownReturn \/ Crash

\* A step of the system is that of one process, or the end of all of them.
LEMMA NextCases ==
  ASSUME [Next]_vars
  PROVE  (\E p \in Proc : ProcStep(p)) \/ Ends \/ UNCHANGED vars
<1> USE DEF ProcStep, Dispatcher, Ends
<1>1. CASE \E w \in Worker : WorkerStep(w)
  BY <1>1, Processes DEF WorkerStep, Handler, dispatchPending
<1>2. CASE \E t \in Task : CreateStep(t)
  BY <1>2, Processes DEF CreateStep, Handler, dispatchPending
<1>3. CASE \E c \in Canceller : CancelStep(c)
  BY <1>3, Processes DEF CancelStep, Handler, dispatchPending
<1>4. CASE CleanupExpired \/ Recover \/ Signal \/ Shutdown
  BY <1>4, Processes DEF Recover, Shutdown
<1>5. CASE Crash \/ Idle
  BY <1>5 DEF Idle
<1>6. QED
  BY <1>1, <1>2, <1>3, <1>4, <1>5 DEF Next

\* A step of a process leaves the others where they are, with what they have.
LEMMA OthersKeep ==
  ASSUME TypeOK, PlacesOK, NEW p \in Proc, ProcStep(p), NEW q \in Proc, q # p
  PROVE  /\ pc'[q] = pc[q] /\ job'[q] = job[q] /\ rec'[q] = rec[q]
         /\ todo'[q] = todo[q] /\ slots'[q] = slots[q]
<1> USE DEF TypeOK, PlacesOK, Step, loopVars
<1>1. CASE enqueue(p) \/ ScanEnd(p)
  BY <1>1 DEF enqueue, EnqueueRefused, EnqueueSend, EnqueueBlocks, SendUnblocks, ScanEnd
<1>2. CASE releaseSlot(p) \/ CountSlots(p) \/ ListPending(p) \/ ScanNext(p)
  BY <1>2 DEF releaseSlot, CountSlots, ListPending, ScanNext
<1>3. CASE Create(p)
  BY <1>3 DEF Create, CreateRefused, CreateReserve, CreateFails, CreateSave, CreateStash,
              CreateRollback, CreateUnsave
<1>4. CASE CancelTask(p)
  BY <1>4 DEF CancelTask, CancelGet, CancelSignal, CancelMark, CancelSettle
<1>5. CASE workerLoop(p)
  BY <1>5 DEF workerLoop, Receive, WorkerExit, Undispatch, LoadTask, SaveSkipped
<1>6. CASE runTask(p)
  BY <1>6 DEF runTask, Register, SaveRunning, Prepare, ReportProgress, SaveProgress,
              DownloadMerged, DownloadCancelled, DownloadFails, DownloadSucceeds, Reload,
              SaveVerdict, Deregister
<1>7. CASE p = Cleaner /\ CleanupExpired
  BY <1>7 DEF CleanupExpired, CleanupList, ListExpired, CleanupSave, CleanupDelete, CleanupFails,
              CleanupEnds
<1>8. CASE p = Boot /\ (RecoverList \/ RecoverNext)
  BY <1>8 DEF RecoverList, RecoverNext
<1>9. CASE p = Stop /\ (Signal \/ ShutdownMark \/ ShutdownClose)
  BY <1>9 DEF Signal, ShutdownMark, ShutdownClose
<1>10. QED
  BY <1>1, <1>2, <1>3, <1>4, <1>5, <1>6, <1>7, <1>8, <1>9 DEF ProcStep

\* A step leaves its process where its code can be.
LEMMA StepPlaces ==
  ASSUME TypeOK, PlacesOK, NEW p \in Proc, ProcStep(p)
  PROVE  PlacesOK'
<1> USE DEF Step, loopVars
<1> DEFINE Fits == /\ p \in Worker => pc'[p] \in WorkerPlace
                   /\ p \in Task => pc'[p] \in TaskPlace
                   /\ p \in Canceller => pc'[p] \in CancelPlace
                   /\ p = Boot => pc'[p] \in BootPlace
                   /\ p = Stop => pc'[p] \in StopPlace
                   /\ p = Cleaner => pc'[p] \in CleanerPlace
           Moved == \E place : pc' = [pc EXCEPT ![p] = place]
<1>0. /\ DOMAIN pc = Proc
      /\ p \in Worker => pc[p] \in WorkerPlace
      /\ p \in Task => pc[p] \in TaskPlace
      /\ p \in Canceller => pc[p] \in CancelPlace
      /\ p = Boot => pc[p] \in BootPlace
  BY DEF PlacesOK
<1>1. ASSUME p \in Dispatcher \union {Boot}, enqueue(p) \/ ScanEnd(p) PROVE Fits /\ Moved
  <2>1. PICK place \in {"scan", "done", "rollback", "recv", "sending", "submitting"} :
          /\ pc' = [pc EXCEPT ![p] = place]
          /\ pc[p] \in {"enqueue", "sending", "scan"} =>
               place \in {"scan", "sending"} \/ place = Rest(p)
    BY <1>1 DEF enqueue, EnqueueRefused, EnqueueSend, EnqueueBlocks, SendUnblocks, ScanEnd,
                Refused, AfterEnqueue, Rest
  <2>2. pc[p] \in {"enqueue", "sending", "scan", "submit", "submitting"}
    BY <1>1 DEF enqueue, EnqueueRefused, EnqueueSend, EnqueueBlocks, SendUnblocks, ScanEnd
  <2>3. pc[p] \in {"submit", "submitting"} => place \in {"done", "rollback", "submitting"}
    BY <1>1, <2>1, <1>0 DEF enqueue, EnqueueRefused, EnqueueSend, EnqueueBlocks, SendUnblocks,
                ScanEnd, Refused, AfterEnqueue
  <2>4. pc'[p] = place
    BY <1>0, <2>1
  <2>5. CASE p \in Worker
    BY <1>0, <2>1, <2>2, <2>3, <2>4, <2>5, Processes
       DEF WorkerPlace, RunningPlace, DispatchPlace, Rest
  <2>6. CASE p \in Task \union Canceller \union {Boot}
    BY <1>0, <2>1, <2>2, <2>3, <2>4, <2>6, Processes
       DEF TaskPlace, CancelPlace, BootPlace, DispatchPlace, HandlerPlace, Rest
  <2>7. QED
    BY <1>1, <2>1, <2>5, <2>6 DEF Dispatcher
<1>2. ASSUME p \in Dispatcher, releaseSlot(p) \/ CountSlots(p) \/ ListPending(p) \/ ScanNext(p)
      PROVE  Fits /\ Moved
  <2>1. pc' = pc \/ \E place \in {"dispatch", "list", "scan", "enqueue", Rest(p)} :
                      pc' = [pc EXCEPT ![p] = place]
    BY <1>2 DEF releaseSlot, CountSlots, ListPending, ScanNext
  <2>2. CASE pc' = pc
    BY <1>0, <1>2, <2>2, Processes DEF PlacesOK, Dispatcher
  <2>3. CASE \E place \in {"dispatch", "list", "scan", "enqueue", Rest(p)} :
               pc' = [pc EXCEPT ![p] = place]
    BY <1>0, <1>2, <2>3, Processes
       DEF Dispatcher, WorkerPlace, TaskPlace, CancelPlace, DispatchPlace, Rest
  <2>4. QED
    BY <2>1, <2>2, <2>3
<1>3. ASSUME p \in Task, Create(p) PROVE Fits /\ Moved
  BY <1>0, <1>3, Processes DEF Create, CreateRefused, CreateReserve, CreateFails, CreateSave,
     CreateStash, CreateRollback, CreateUnsave, TaskPlace, HandlerPlace, DispatchPlace
<1>4. ASSUME p \in Canceller, CancelTask(p) PROVE Fits /\ Moved
  BY <1>0, <1>4, Processes DEF CancelTask, CancelGet, CancelSignal, CancelMark, CancelSettle,
     CancelPlace, DispatchPlace
<1>5. ASSUME p \in Worker, workerLoop(p) PROVE Fits /\ Moved
  BY <1>0, <1>5, Processes DEF workerLoop, Receive, WorkerExit, Undispatch, LoadTask, SaveSkipped,
     WorkerPlace, DispatchPlace
<1>6. ASSUME p \in Worker, runTask(p) PROVE Fits /\ Moved
  BY <1>0, <1>6, Processes DEF runTask, Register, SaveRunning, Prepare, ReportProgress,
     SaveProgress, DownloadMerged, DownloadCancelled, DownloadFails, DownloadSucceeds, Reload,
     SaveVerdict, Deregister, WorkerPlace, RunningPlace, DispatchPlace
<1>7. ASSUME p = Cleaner, CleanupExpired PROVE Fits /\ Moved
  BY <1>0, <1>7, Processes DEF CleanupExpired, CleanupList, ListExpired, CleanupSave,
     CleanupDelete, CleanupFails, CleanupEnds, CleanerPlace, PlacesOK
<1>8. ASSUME p = Boot, RecoverList \/ RecoverNext PROVE Fits /\ Moved
  BY <1>0, <1>8, Processes DEF RecoverList, RecoverNext, BootPlace
<1>9. ASSUME p = Stop, Signal \/ ShutdownMark \/ ShutdownClose PROVE Fits /\ Moved
  BY <1>0, <1>9, Processes DEF Signal, ShutdownMark, ShutdownClose, StopPlace
<1>10. Fits /\ Moved
  BY <1>1, <1>2, <1>3, <1>4, <1>5, <1>6, <1>7, <1>8, <1>9 DEF ProcStep
<1>11. pc' \in [Proc -> Place]
  <2>1. pc'[p] \in Place
    BY <1>10, Processes DEF Place, Dispatcher
  <2>2. QED
    BY <1>10, <2>1 DEF PlacesOK
<1>12. \A q \in Proc : q # p => pc'[q] = pc[q]
  BY OthersKeep
<1>13. QED
  BY <1>10, <1>11, <1>12, Processes DEF PlacesOK, Dispatcher

\* A process has a task wherever its code goes on to use one.
LEMMA StepJobs ==
  ASSUME TypeOK, PlacesOK, JobsGiven, NEW p \in Proc, ProcStep(p)
  PROVE  JobsGiven'
<1> USE DEF Step, loopVars
<1> DEFINE Given == /\ p # Stop /\ pc'[p] \in JobPlace => job'[p] \in Task
                    /\ p \in Task /\ pc'[p] \in HandlerPlace => job'[p] = p
                    /\ p \in Canceller /\ pc'[p] \in {"signal", "mark"}
                         => rec'[p].status \in {"pending", "running"}
<1>0. /\ DOMAIN pc = Proc /\ DOMAIN job = Proc /\ DOMAIN rec = Proc
      /\ p # Stop /\ pc[p] \in JobPlace => job[p] \in Task
      /\ p \in Task /\ pc[p] \in HandlerPlace => job[p] = p
      /\ p \in Canceller /\ pc[p] \in {"signal", "mark"} => rec[p].status \in {"pending", "running"}
      /\ p \in Canceller => pc[p] \in CancelPlace
      /\ p \in Worker => pc[p] \in WorkerPlace
      /\ todo[p] \subseteq Task
  BY DEF PlacesOK, TypeOK, JobsGiven
<1>1. ASSUME p \in Dispatcher \union {Boot}, enqueue(p) PROVE Given
  <2>1. /\ UNCHANGED <<job, rec>>
        /\ \/ pc'[p] \in {"scan", "done"}
           \/ pc[p] = "submit" /\ pc'[p] \in {"rollback", "submitting"}
           \/ pc[p] = "enqueue" /\ pc'[p] = "sending"
    BY <1>0, <1>1 DEF enqueue, EnqueueRefused, EnqueueSend, EnqueueBlocks, SendUnblocks,
                Refused, AfterEnqueue
  <2>2. QED
    BY <1>0, <2>1 DEF JobPlace, HandlerPlace, RunningPlace
<1>2. ASSUME p \in Dispatcher \union {Boot},
             ScanEnd(p) \/ releaseSlot(p) \/ CountSlots(p) \/ ListPending(p)
      PROVE  Given
  <2>1. pc'[p] \in {"recv", "done", "dispatch", "list", "scan"}
    BY <1>0, <1>2 DEF ScanEnd, releaseSlot, CountSlots, ListPending, Rest
  <2>2. QED
    BY <2>1 DEF JobPlace, HandlerPlace, RunningPlace
<1>3. ASSUME p \in Dispatcher, ScanNext(p) PROVE Given
  <2>1. /\ rec' = rec
        /\ \/ pc'[p] = "scan"
           \/ pc'[p] = "enqueue" /\ job'[p] \in Task
    BY <1>0, <1>3 DEF ScanNext
  <2>2. QED
    BY <2>1 DEF JobPlace, HandlerPlace, RunningPlace
<1>4. ASSUME p \in Task, Create(p) PROVE Given
  <2>1. \/ pc'[p] \in {"done", "parse", "release"}
        \/ pc'[p] = "stash" /\ job'[p] = p
        \/ pc[p] \in HandlerPlace /\ job' = job
    BY <1>0, <1>4 DEF Create, CreateRefused, CreateReserve, CreateFails, CreateSave, CreateStash,
       CreateRollback, CreateUnsave, HandlerPlace
  <2>2. QED
    BY <1>0, <1>4, <2>1, Processes DEF JobPlace, HandlerPlace, RunningPlace
<1>5. ASSUME p \in Canceller, CancelTask(p) PROVE Given
  <2>1. CASE CancelGet(p)
    <3>1. /\ pc'[p] = "signal" /\ job'[p] \in Task
          /\ rec'[p].status \in {"pending", "running"}
      BY <1>0, <2>1 DEF CancelGet
    <3>2. QED
      BY <1>5, <3>1, Processes
  <2>2. CASE ~CancelGet(p)
    <3>1. \/ pc'[p] \in {"done", "release"}
          \/ /\ pc[p] \in {"signal", "mark"} /\ pc'[p] \in {"mark", "settle"}
             /\ UNCHANGED <<job, rec>>
      BY <1>0, <1>5, <2>2 DEF CancelTask, CancelSignal, CancelMark, CancelSettle
    <3>2. QED
      BY <1>0, <1>5, <3>1, Processes DEF JobPlace, HandlerPlace, RunningPlace
  <2>3. QED
    BY <2>1, <2>2
<1>6. ASSUME p \in Worker, workerLoop(p) \/ runTask(p) PROVE Given
  <2>1. \/ pc'[p] \in {"exited", "release"}
        \/ pc'[p] = "undispatch" /\ job'[p] \in Task
        \/ pc[p] \in JobPlace /\ job' = job
    <3>1. CASE Receive(p)
      BY <1>0, <3>1 DEF Receive, TypeOK
    <3>2. CASE ~Receive(p) /\ workerLoop(p)
      BY <1>0, <3>2 DEF workerLoop, WorkerExit, Undispatch, LoadTask, SaveSkipped, JobPlace
    <3>3. CASE runTask(p)
      BY <1>0, <3>3 DEF runTask, Register, SaveRunning, Prepare, ReportProgress,
         SaveProgress, DownloadMerged, DownloadCancelled, DownloadFails, DownloadSucceeds, Reload,
         SaveVerdict, Deregister, JobPlace, RunningPlace
    <3>4. QED
      BY <1>6, <3>1, <3>2, <3>3
  <2>2. QED
    BY <1>0, <1>6, <2>1, Processes DEF JobPlace, HandlerPlace, RunningPlace
<1>7. ASSUME p = Cleaner, CleanupExpired PROVE Given
  <2>1. \/ pc' = pc /\ job' = job
        \/ pc'[p] = "idle"
        \/ pc'[p] = "delete" /\ job'[p] \in Task
    BY <1>0, <1>7 DEF CleanupExpired, CleanupList, ListExpired, CleanupSave, CleanupDelete,
       CleanupFails, CleanupEnds, Expiring
  <2>2. QED
    BY <1>0, <1>7, <2>1, Processes DEF JobPlace, HandlerPlace, RunningPlace, Dispatcher
<1>8. ASSUME p = Boot, RecoverList \/ RecoverNext PROVE Given
  <2>1. \/ pc'[p] = "scan"
        \/ pc'[p] = "enqueue" /\ job'[p] \in Task
    BY <1>0, <1>8 DEF RecoverList, RecoverNext
  <2>2. QED
    BY <1>8, <2>1, Processes DEF JobPlace, HandlerPlace, RunningPlace
<1>9. ASSUME p = Stop PROVE Given
  BY <1>9, Processes
<1>10. Given
  BY <1>1, <1>2, <1>3, <1>4, <1>5, <1>6, <1>7, <1>8, <1>9 DEF ProcStep, Dispatcher
<1>11. \A q \in Proc : q # p => pc'[q] = pc[q] /\ job'[q] = job[q] /\ rec'[q] = rec[q]
  BY OthersKeep
<1>12. QED
  BY <1>10, <1>11, Processes DEF JobsGiven, Dispatcher

-----------------------------------------------------------------------------
(* m.running, and the types.                                                *)

Runners == {w \in Worker : pc[w] \in RunningPlace}

\* The workers in runTask can be counted.
LEMMA RunnersFinite == Runners = {w \in Worker : Running(w)} /\ IsFiniteSet(Runners)
<1>1. Runners = {w \in Worker : Running(w)}
  BY DEF Runners, Running, RunningPlace
<1>2. Runners \subseteq Worker
  BY DEF Runners
<1>3. QED
  BY <1>1, <1>2, FS_Subset, TaskManagerAssumption

\* Only a worker that registers or deregisters changes m.running and m.onCancel, and
\* only it comes to run a task or leaves it.
LEMMA RunnersMove ==
  ASSUME TypeOK, PlacesOK, NEW p \in Proc, ProcStep(p)
  PROVE  \/ p \in Worker /\ Register(p) /\ pc[p] = "register" /\ pc'[p] \in RunningPlace
         \/ p \in Worker /\ Deregister(p) /\ pc[p] = "deregister" /\ pc'[p] \notin RunningPlace
         \/ /\ UNCHANGED <<running, onCancel>>
            /\ pc'[p] \in RunningPlace <=> pc[p] \in RunningPlace
            /\ pc[p] \in RunningPlace => job'[p] = job[p]
<1> USE DEF Step, loopVars, sharedVars, slotVars, ctxVars, RunningPlace
<1> DEFINE Same == /\ UNCHANGED <<running, onCancel>>
                   /\ pc'[p] \in RunningPlace <=> pc[p] \in RunningPlace
                   /\ pc[p] \in RunningPlace => job'[p] = job[p]
<1>0. DOMAIN pc = Proc
  BY DEF PlacesOK
<1>1. ASSUME enqueue(p) \/ ScanEnd(p) PROVE Same
  BY <1>0, <1>1 DEF enqueue, EnqueueRefused, EnqueueSend, EnqueueBlocks, SendUnblocks, ScanEnd,
                    Refused, AfterEnqueue, Rest
<1>2. ASSUME releaseSlot(p) \/ CountSlots(p) \/ ListPending(p) \/ ScanNext(p) PROVE Same
  BY <1>0, <1>2 DEF releaseSlot, CountSlots, ListPending, ScanNext, Rest
<1>3. ASSUME p \in Task, Create(p) PROVE Same
  BY <1>0, <1>3 DEF Create, CreateRefused, CreateReserve, CreateFails, CreateSave,
     CreateStash, CreateRollback, CreateUnsave
<1>4. ASSUME p \in Canceller, CancelTask(p) PROVE Same
  BY <1>0, <1>4 DEF CancelTask, CancelGet, CancelSignal, CancelMark, CancelSettle
<1>5. ASSUME p \in Worker, workerLoop(p) PROVE Same
  BY <1>0, <1>5 DEF workerLoop, Receive, WorkerExit, Undispatch, LoadTask, SaveSkipped
<1>6. ASSUME p \in Worker, runTask(p), ~Register(p), ~Deregister(p) PROVE Same
  BY <1>0, <1>6 DEF runTask, SaveRunning, Prepare, ReportProgress, SaveProgress, DownloadMerged,
     DownloadCancelled, DownloadFails, DownloadSucceeds, Reload, SaveVerdict
<1>7. ASSUME p = Cleaner, CleanupExpired PROVE Same
  <2>1. UNCHANGED <<running, onCancel>>
    BY <1>7 DEF CleanupExpired, CleanupList, ListExpired, CleanupSave, CleanupDelete, CleanupFails,
                CleanupEnds
  <2>2. pc[Cleaner] \in CleanerPlace /\ pc'[Cleaner] \in CleanerPlace
    BY StepPlaces DEF PlacesOK
  <2>3. QED
    BY <1>7, <2>1, <2>2 DEF CleanerPlace
<1>8. ASSUME p = Boot, RecoverList \/ RecoverNext PROVE Same
  BY <1>0, <1>8 DEF RecoverList, RecoverNext
<1>9. ASSUME p = Stop, Signal \/ ShutdownMark \/ ShutdownClose PROVE Same
  BY <1>0, <1>9 DEF Signal, ShutdownMark, ShutdownClose
<1>10. ASSUME p \in Worker, Register(p) \/ Deregister(p)
       PROVE  \/ Register(p) /\ pc[p] = "register" /\ pc'[p] \in RunningPlace
              \/ Deregister(p) /\ pc[p] = "deregister" /\ pc'[p] \notin RunningPlace
  BY <1>0, <1>10 DEF Register, Deregister
<1>11. QED
  BY <1>1, <1>2, <1>3, <1>4, <1>5, <1>6, <1>7, <1>8, <1>9, <1>10 DEF ProcStep

\* m.running goes up and down with the workers that enter and leave runTask.
LEMMA StepRunning ==
  ASSUME TypeOK, PlacesOK, RunningCounts, NEW p \in Proc, ProcStep(p)
  PROVE  RunningCounts' /\ running' \in Nat
<1>1. \A q \in Proc : q # p => pc'[q] = pc[q]
  BY OthersKeep
<1>2. running = Cardinality(Runners) /\ running \in Nat /\ IsFiniteSet(Runners)
  BY RunnersFinite DEF RunningCounts, TypeOK
<1>3. Runners' = {w \in Worker : Running(w)}'
  BY DEF Runners, Running, RunningPlace
<1>4. CASE p \in Worker /\ Register(p) /\ pc[p] = "register" /\ pc'[p] \in RunningPlace
  <2>1. Runners' = Runners \union {p} /\ p \notin Runners
    BY <1>1, <1>4, Processes DEF Runners, RunningPlace, Dispatcher
  <2>2. running' = running + 1
    BY <1>4 DEF Register
  <2>3. Cardinality(Runners') = Cardinality(Runners) + 1
    BY <1>2, <2>1, FS_AddElement
  <2>4. QED
    BY <1>2, <1>3, <2>2, <2>3 DEF RunningCounts
<1>5. CASE p \in Worker /\ Deregister(p) /\ pc[p] = "deregister" /\ pc'[p] \notin RunningPlace
  <2>1. Runners' = Runners \ {p} /\ p \in Runners
    BY <1>1, <1>5, Processes DEF Runners, RunningPlace, Dispatcher
  <2>2. running' = running - 1
    BY <1>5 DEF Deregister
  <2>3. Cardinality(Runners') = Cardinality(Runners) - 1
    BY <1>2, <2>1, FS_RemoveElement
  <2>4. Cardinality(Runners') \in Nat
    BY <1>2, <2>1, FS_RemoveElement, FS_CardinalityType
  <2>5. QED
    BY <1>2, <1>3, <2>2, <2>3, <2>4 DEF RunningCounts
<1>6. CASE running' = running /\ (pc'[p] \in RunningPlace <=> pc[p] \in RunningPlace)
  <2>1. Runners' = Runners
    BY <1>1, <1>6, Processes DEF Runners, Dispatcher
  <2>2. QED
    BY <1>2, <1>3, <1>6, <2>1 DEF RunningCounts
<1>7. QED
  BY <1>4, <1>5, <1>6, RunnersMove

\* m.onCancel names, for a task, a worker that runs it.
LEMMA StepRegistry ==
  ASSUME TypeOK, PlacesOK, JobsGiven, RegistryPointsAtRunner, NEW p \in Proc, ProcStep(p)
  PROVE  RegistryPointsAtRunner'
<1> USE DEF RunningPlace
<1>0. \A q \in Proc : q # p => pc'[q] = pc[q] /\ job'[q] = job[q]
  BY OthersKeep
<1>1. \A w \in Worker : w \in Proc /\ w # Nobody
  BY Processes DEF Dispatcher
<1>2. \A w \in Worker : Running(w) <=> pc[w] \in RunningPlace
  BY DEF Running
<1>3. \A w \in Worker : Running(w)' <=> pc'[w] \in RunningPlace
  BY DEF Running
<1>4. \A t \in Task : onCancel[t] # Nobody =>
        onCancel[t] \in Worker /\ pc[onCancel[t]] \in RunningPlace /\ job[onCancel[t]] = t
  BY <1>2 DEF RegistryPointsAtRunner, TypeOK
<1>5. SUFFICES ASSUME NEW t \in Task, onCancel'[t] # Nobody
               PROVE  /\ onCancel'[t] \in Worker
                      /\ pc'[onCancel'[t]] \in RunningPlace /\ job'[onCancel'[t]] = t
  BY <1>3 DEF RegistryPointsAtRunner
<1>6. CASE p \in Worker /\ Register(p) /\ pc'[p] \in RunningPlace
  <2>1. onCancel' = [onCancel EXCEPT ![job[p]] = p] /\ job' = job
    BY <1>6 DEF Register
  <2>2. pc[p] \notin RunningPlace
    BY <1>6 DEF Register, Step
  <2>3. CASE t = job[p]
    BY <1>6, <2>1, <2>3 DEF TypeOK
  <2>4. CASE t # job[p]
    BY <1>0, <1>1, <1>4, <1>5, <2>1, <2>2, <2>4 DEF TypeOK
  <2>5. QED
    BY <2>3, <2>4
<1>7. CASE p \in Worker /\ Deregister(p) /\ pc'[p] \notin RunningPlace
  <2>1. onCancel' = [onCancel EXCEPT ![job[p]] = Nobody] /\ job' = job
    BY <1>7 DEF Deregister
  <2>2. t # job[p] /\ onCancel'[t] = onCancel[t]
    BY <1>5, <2>1 DEF TypeOK
  <2>3. onCancel[t] # p
    BY <1>1, <1>4, <1>7, <2>2
  <2>4. QED
    BY <1>0, <1>1, <1>4, <1>5, <2>1, <2>2, <2>3
<1>8. CASE /\ onCancel' = onCancel /\ (pc'[p] \in RunningPlace <=> pc[p] \in RunningPlace)
           /\ pc[p] \in RunningPlace => job'[p] = job[p]
  BY <1>0, <1>1, <1>4, <1>5, <1>8
<1>9. QED
  BY <1>6, <1>7, <1>8, RunnersMove

\* The lists and counts of whoever looks for work.
LEMMA FreeSlots ==
  ASSUME TypeOK
  PROVE  /\ MaxTasks \in Nat /\ MaxTasks > 0 /\ pipelineLocked \in Nat
         /\ pipelineLocked > 0 => running > 0 \/ dispatched # {}
         /\ \A S \in SUBSET Task : Cardinality(S) \in Nat
<1>1. \A S \in SUBSET Task : Cardinality(S) \in Nat
  BY FS_Subset, FS_CardinalityType, TaskManagerAssumption
<1>2. MaxTasks \in Nat /\ MaxTasks > 0
  BY FS_CardinalityType, FS_EmptySet, TaskManagerAssumption DEF MaxTasks
<1>3. Cardinality({}) = 0
  BY FS_EmptySet
<1>4. dispatched \in SUBSET Task /\ running \in Nat
  BY DEF TypeOK
<1>5. QED
  BY <1>1, <1>2, <1>3, <1>4 DEF pipelineLocked

\* The fields of records and of the absence of one.
AnyRecord == [status : Statuses \union {"absent"}, cancelled : BOOLEAN, expires : BOOLEAN]

\* The fields of the records that the code writes.
LEMMA Records ==
  /\ Pending \in Record /\ Pending.status = "pending" /\ ~Pending.cancelled /\ ~Pending.expires
  /\ Absent.status = "absent" /\ ~Absent.expires /\ ~Absent.cancelled
  /\ Absent \notin Record /\ Record \union {Absent} \subseteq AnyRecord
<1>1. Pending \in Record /\ Pending.status = "pending" /\ ~Pending.cancelled /\ ~Pending.expires
  BY DEF Pending, Record, Statuses
<1>2. /\ Absent \in [status : {"absent"}, cancelled : BOOLEAN, expires : BOOLEAN]
      /\ Absent.status = "absent" /\ ~Absent.expires /\ ~Absent.cancelled
  BY DEF Pending, Absent
<1>3. Absent \notin Record
  BY <1>2 DEF Record, Statuses
<1>4. Record \subseteq AnyRecord
  BY DEF Record, AnyRecord
<1>5. Absent \in AnyRecord
  BY <1>2 DEF AnyRecord
<1>6. QED
  BY <1>1, <1>2, <1>3, <1>4, <1>5

\* Every variable keeps its type with a step of a process.
LEMMA StepTypes ==
  ASSUME TypeOK, PlacesOK, JobsGiven, RunningCounts, NEW p \in Proc, ProcStep(p)
  PROVE  TypeOK'
<1> USE DEF Step, loopVars, sharedVars, chanVars, slotVars, ctxVars, historyVars
<1>0. /\ pc[p] \in JobPlace /\ p # Stop => job[p] \in Task
      /\ running' \in Nat
  BY StepRunning DEF JobsGiven
<1>1. ASSUME p \in Dispatcher \union {Boot}, enqueue(p) PROVE TypeOK'
  <2>1. job[p] \in Task
    BY <1>0, <1>1, Processes DEF enqueue, EnqueueRefused, EnqueueSend, EnqueueBlocks, SendUnblocks,
                JobPlace, HandlerPlace, Dispatcher
  <2>2. /\ dispatched' \in {dispatched, dispatched \union {job[p]}}
        /\ \/ workCh' = workCh
           \/ workCh' = Append(workCh, job[p]) /\ Len(workCh) < Capacity
        /\ mu' \in {mu, p, Nobody}
        /\ UNCHANGED <<store, parsed, closed, slotVars, ctxVars, job, rec, loopVars, historyVars>>
    BY <1>1 DEF enqueue, EnqueueRefused, EnqueueSend, EnqueueBlocks, SendUnblocks
  <2>3. workCh' \in Seq(Task) /\ Len(workCh') <= Capacity
    <3>1. workCh \in Seq(Task) /\ Len(workCh) \in Nat /\ Len(workCh) <= Capacity /\ Capacity \in Nat
      BY FreeSlots DEF TypeOK, Capacity
    <3>2. CASE workCh' = workCh
      BY <3>1, <3>2
    <3>3. CASE workCh' = Append(workCh, job[p]) /\ Len(workCh) < Capacity
      <4>1. Len(workCh') = Len(workCh) + 1 /\ workCh' \in Seq(Task)
        BY <2>1, <3>1, <3>3
      <4>2. QED
        BY <3>1, <3>3, <4>1
    <3>4. QED
      BY <2>2, <3>2, <3>3
  <2>4. QED
    BY <2>1, <2>2, <2>3 DEF TypeOK
<1>2. ASSUME releaseSlot(p) PROVE TypeOK'
  BY <1>2 DEF releaseSlot, TypeOK
<1>3. ASSUME CountSlots(p) PROVE TypeOK'
  <2>1. /\ slots' = slots \/ (slots' = [slots EXCEPT ![p] = MaxTasks - pipelineLocked]
                              /\ MaxTasks - pipelineLocked > 0)
        /\ UNCHANGED <<sharedVars, job, rec, todo, expiring, historyVars>>
    BY <1>3, FreeSlots DEF CountSlots
  <2>2. QED
    BY <2>1, FreeSlots DEF TypeOK
<1>4. ASSUME ListPending(p) PROVE TypeOK'
  BY <1>4 DEF ListPending, TypeOK
<1>5. ASSUME ScanNext(p) PROVE TypeOK'
  <2>1. PICK t \in todo[p] :
          /\ todo' = [todo EXCEPT ![p] = todo[p] \ {t}]
          /\ job' \in {job, [job EXCEPT ![p] = t]}
          /\ slots' \in {slots, [slots EXCEPT ![p] = slots[p] - 1]}
    BY <1>5 DEF ScanNext, TypeOK
  <2>2. slots[p] \in Nat /\ slots[p] > 0 /\ t \in Task
    BY <1>5 DEF ScanNext, TypeOK
  <2>3. UNCHANGED <<sharedVars, rec, expiring, historyVars>>
    BY <1>5 DEF ScanNext
  <2>4. /\ todo' \in [Proc -> SUBSET Task] /\ job' \in [Proc -> Task \union {Nobody}]
        /\ slots' \in [Proc -> Nat]
    <3>1. slots[p] - 1 \in Nat /\ slots \in [Proc -> Nat]
      BY <2>2 DEF TypeOK
    <3>2. slots' \in [Proc -> Nat]
      BY <2>1, <3>1
    <3>3. QED
      BY <2>1, <2>2, <3>2 DEF TypeOK
  <2>5. QED
    BY <2>3, <2>4 DEF TypeOK
<1>6. ASSUME ScanEnd(p) PROVE TypeOK'
  BY <1>6 DEF ScanEnd, TypeOK
<1>7. ASSUME p \in Task, Create(p) PROVE TypeOK'
  <2>1. /\ UNCHANGED <<chanVars, mu, running, shuttingDown, ctxVars, rec, loopVars, historyVars>>
        /\ activeSlots' \in Nat
    BY <1>7 DEF Create, CreateRefused, CreateReserve, CreateFails, CreateSave, CreateStash,
                CreateRollback, CreateUnsave, TypeOK
  <2>2. parsed' \in SUBSET Task /\ job' \in [Proc -> Task \union {Nobody}]
    BY <1>7 DEF Create, CreateRefused, CreateReserve, CreateFails, CreateSave, CreateStash,
                CreateRollback, CreateUnsave, TypeOK
  <2>3. store' \in [Task -> Record \union {Absent}]
    <3>1. [Pending EXCEPT !.status = "cancelled"] \in Record
      BY Records DEF Record, Statuses
    <3>2. \/ store' = store \/ store' = [store EXCEPT ![p] = Pending]
          \/ store' = [store EXCEPT ![p] = [Pending EXCEPT !.status = "cancelled"]]
      BY <1>7 DEF Create, CreateRefused, CreateReserve, CreateFails, CreateSave, CreateStash,
                  CreateRollback, CreateUnsave, Save
    <3>3. QED
      BY <3>1, <3>2, Records DEF TypeOK
  <2>4. QED
    BY <2>1, <2>2, <2>3 DEF TypeOK
<1>8. ASSUME p \in Canceller, CancelTask(p) PROVE TypeOK'
  <2>1. CASE CancelGet(p)
    BY <2>1 DEF CancelGet, TypeOK
  <2>2. CASE CancelSignal(p)
    <3>1. \A w \in Worker : (ctx[w] \/ onCancel[job[p]] = w) \in BOOLEAN
      BY DEF TypeOK
    <3>2. ctx' \in [Worker -> BOOLEAN]
      BY <2>2, <3>1 DEF CancelSignal
    <3>3. QED
      BY <2>2, <3>2 DEF CancelSignal, TypeOK
  <2>3. CASE CancelMark(p)
    <3>1. /\ rec[p].status \in {"pending", "running"} /\ rec[p] \in Record
          /\ job[p] \in Task
      BY <1>0, <1>8, <2>3, Records, Processes DEF CancelMark, JobsGiven, TypeOK, JobPlace
    <3>2. [rec[p] EXCEPT !.status = IF rec[p].status = "pending" THEN "cancelled" ELSE rec[p].status,
                         !.cancelled = TRUE] \in Record
      BY <3>1 DEF Record, Statuses
    <3>3. store' = [store EXCEPT ![job[p]] =
            [rec[p] EXCEPT !.status = IF rec[p].status = "pending" THEN "cancelled" ELSE rec[p].status,
                           !.cancelled = TRUE]]
      BY <2>3 DEF CancelMark, Save
    <3>4. store' \in [Task -> Record \union {Absent}]
      BY <3>1, <3>2, <3>3 DEF TypeOK
    <3>5. QED
      BY <2>3, <3>1, <3>4 DEF CancelMark, TypeOK
  <2>4. CASE CancelSettle(p)
    BY <2>4 DEF CancelSettle, TypeOK
  <2>5. QED
    BY <1>8, <2>1, <2>2, <2>3, <2>4 DEF CancelTask
<1>9. ASSUME p \in Worker, workerLoop(p) PROVE TypeOK'
  <2>1. CASE Receive(p)
    <3>1. workCh' \in Seq(Task) /\ Len(workCh') <= Capacity /\ job' \in [Proc -> Task \union {Nobody}]
      BY <2>1, FreeSlots DEF Receive, TypeOK, Capacity
    <3>2. QED
      BY <2>1, <3>1 DEF Receive, TypeOK
  <2>2. CASE WorkerExit(p) \/ Undispatch(p)
    BY <2>2 DEF WorkerExit, Undispatch, TypeOK
  <2>3. CASE LoadTask(p)
    <3>1. job[p] \in Task
      BY <1>0, <1>9, <2>3, Processes DEF LoadTask, JobPlace
    <3>2. Fresh(p, Queued) \subseteq Record \union {Absent}
      BY <3>1 DEF Fresh, Queued, TypeOK
    <3>3. rec' \in [Proc -> Record \union {Absent}] /\ parsed' \in SUBSET Task
      BY <2>3, <3>2 DEF LoadTask, TypeOK
    <3>4. QED
      BY <2>3, <3>3 DEF LoadTask, TypeOK
  <2>4. CASE SaveSkipped(p)
    <3>1. job[p] \in Task
      BY <1>0, <1>9, <2>4, Processes DEF SaveSkipped, JobPlace
    <3>2. rec[p] \in AnyRecord
      BY Records DEF TypeOK
    <3>3. [rec[p] EXCEPT !.status = "cancelled"] \in Record
      BY <3>2 DEF AnyRecord, Record, Statuses
    <3>4. store' \in [Task -> Record \union {Absent}]
      BY <2>4, <3>1, <3>3 DEF SaveSkipped, Save, TypeOK
    <3>5. QED
      BY <2>4, <3>4 DEF SaveSkipped, TypeOK
  <2>5. QED
    BY <1>9, <2>1, <2>2, <2>3, <2>4 DEF workerLoop
<1>10. ASSUME p \in Worker, runTask(p) PROVE TypeOK'
  <2>0. job[p] \in Task
    BY <1>0, <1>10, Processes DEF runTask, Register, SaveRunning, Prepare, ReportProgress,
       SaveProgress, DownloadMerged, DownloadCancelled, DownloadFails, DownloadSucceeds, Reload,
       SaveVerdict, Deregister, JobPlace, RunningPlace
  <2>1. CASE Register(p) \/ Deregister(p)
    <3>1. /\ onCancel' \in [Task -> Worker \union {Nobody}] /\ ctx' \in [Worker -> BOOLEAN]
          /\ UNCHANGED <<store, parsed, chanVars, mu, activeSlots, shuttingDown, job, rec, loopVars,
                         historyVars>>
      <4>1. /\ onCancel' \in {[onCancel EXCEPT ![job[p]] = p], [onCancel EXCEPT ![job[p]] = Nobody]}
            /\ ctx' = [ctx EXCEPT ![p] = FALSE]
            /\ UNCHANGED <<store, parsed, chanVars, mu, activeSlots, shuttingDown, job, rec,
                           loopVars, historyVars>>
        BY <2>1 DEF Register, Deregister
      <4>2. ctx' \in [Worker -> BOOLEAN]
        BY <4>1 DEF TypeOK
      <4>3. onCancel' \in [Task -> Worker \union {Nobody}]
        BY <1>10, <4>1 DEF TypeOK
      <4>4. QED
        BY <4>1, <4>2, <4>3
    <3>2. QED
      BY <1>0, <3>1 DEF TypeOK
  <2>2. CASE SaveRunning(p)
    <3>1. rec[p] \in AnyRecord
      BY Records DEF TypeOK
    <3>2. [rec[p] EXCEPT !.status = "running"] \in Record
      BY <3>1 DEF AnyRecord, Record, Statuses
    <3>3. /\ store' = [store EXCEPT ![job[p]] = [rec[p] EXCEPT !.status = "running"]]
          /\ rec' = [rec EXCEPT ![p] = [rec[p] EXCEPT !.status = "running"]]
      BY <2>2 DEF SaveRunning, Save
    <3>4. /\ store' \in [Task -> Record \union {Absent}]
          /\ rec' \in [Proc -> Record \union {Absent}]
      BY <2>0, <3>2, <3>3 DEF TypeOK
    <3>5. QED
      BY <2>2, <3>4 DEF SaveRunning, TypeOK
  <2>3. CASE Prepare(p) \/ ReportProgress(p) \/ DownloadMerged(p) \/ DownloadCancelled(p)
             \/ DownloadFails(p)
    <3>1. /\ parsed' \in SUBSET Task
          /\ UNCHANGED <<store, chanVars, mu, slotVars, ctxVars, job, rec, loopVars, historyVars>>
      BY <2>3 DEF Prepare, ReportProgress, DownloadMerged, DownloadCancelled, DownloadFails, TypeOK
    <3>2. QED
      BY <3>1 DEF TypeOK
  <2>4. CASE SaveProgress(p)
    <3>1. store' \in [Task -> Record \union {Absent}]
      BY <2>0, <2>4 DEF SaveProgress, Save, TypeOK
    <3>2. QED
      BY <2>4, <3>1 DEF SaveProgress, TypeOK
  <2>5. CASE DownloadSucceeds(p)
    BY <2>0, <2>5 DEF DownloadSucceeds, TypeOK
  <2>6. CASE Reload(p)
    <3>1. Fresh(p, {rec[p]}) \subseteq Record \union {Absent}
      BY <2>0 DEF Fresh, TypeOK
    <3>2. rec' \in [Proc -> Record \union {Absent}]
      BY <2>6, <3>1 DEF Reload, TypeOK
    <3>3. QED
      BY <2>6, <3>2 DEF Reload, TypeOK
  <2>7. CASE SaveVerdict(p)
    <3>1. rec[p] \in AnyRecord /\ Verdict(p) \in Statuses
      BY Records DEF TypeOK, Verdict, Statuses
    <3>2. (rec[p].expires \/ Dated(p)) \in BOOLEAN
      BY <3>1 DEF AnyRecord
    <3>3. [rec[p] EXCEPT !.status = Verdict(p),
                         !.expires = rec[p].expires \/ Dated(p)] \in Record
      BY <3>1, <3>2 DEF AnyRecord, Record
    <3>4. store' = [store EXCEPT ![job[p]] =
            [rec[p] EXCEPT !.status = Verdict(p),
                           !.expires = rec[p].expires \/ Dated(p)]]
      BY <2>7 DEF SaveVerdict, Save
    <3>5. store' \in [Task -> Record \union {Absent}]
      BY <2>0, <3>3, <3>4 DEF TypeOK
    <3>6. QED
      BY <2>7, <3>5 DEF SaveVerdict, TypeOK
  <2>8. QED
    BY <1>10, <2>1, <2>2, <2>3, <2>4, <2>5, <2>6, <2>7 DEF runTask
<1>11. ASSUME p = Cleaner, CleanupExpired PROVE TypeOK'
  <2>1. CASE CleanupList
    BY <2>1 DEF CleanupList, ListExpired, TypeOK
  <2>2. CASE CleanupSave
    <3>1. PICK t \in Task : /\ expiring[t] # Absent
                            /\ store' = [store EXCEPT ![t] = [expiring[t] EXCEPT !.status = "expired"]]
                            /\ job' = [job EXCEPT ![Cleaner] = t]
      BY <2>2 DEF CleanupSave, Expiring, Save
    <3>2. expiring[t] \in AnyRecord
      BY Records DEF TypeOK
    <3>3. [expiring[t] EXCEPT !.status = "expired"] \in Record
      BY <3>2 DEF AnyRecord, Record, Statuses
    <3>4. store' \in [Task -> Record \union {Absent}] /\ job' \in [Proc -> Task \union {Nobody}]
      BY <3>1, <3>3 DEF TypeOK
    <3>5. QED
      BY <2>2, <3>4 DEF CleanupSave, TypeOK
  <2>3. CASE CleanupDelete
    <3>1. /\ store' = [store EXCEPT ![job[Cleaner]] = Absent]
          /\ expiring' = [expiring EXCEPT ![job[Cleaner]] = Absent]
          /\ job' = [job EXCEPT ![Cleaner] = Nobody]
      BY <2>3 DEF CleanupDelete, CleanupEnds, Save
    <3>2. QED
      BY <2>3, <3>1 DEF CleanupDelete, CleanupEnds, TypeOK
  <2>4. CASE CleanupFails
    BY <2>4 DEF CleanupFails, CleanupEnds, TypeOK
  <2>5. QED
    BY <1>11, <2>1, <2>2, <2>3, <2>4 DEF CleanupExpired
<1>12. ASSUME p = Boot, RecoverList PROVE TypeOK'
  <2>1. ASSUME NEW t \in Task
        PROVE (IF store[t].status = "running" THEN [store[t] EXCEPT !.status = "pending"]
                                              ELSE store[t]) \in Record \union {Absent}
    <3>1. store[t] \in AnyRecord /\ store[t] \in Record \union {Absent}
      BY Records DEF TypeOK
    <3>2. [store[t] EXCEPT !.status = "pending"] \in Record
      BY <3>1 DEF AnyRecord, Record, Statuses
    <3>3. QED
      BY <3>1, <3>2
  <2>2. store' \in [Task -> Record \union {Absent}]
    BY <1>12, <2>1 DEF RecoverList
  <2>3. /\ activeSlots' \in Nat /\ todo' \in [Proc -> SUBSET Task] /\ slots' \in [Proc -> Nat]
        /\ UNCHANGED <<parsed, chanVars, mu, running, shuttingDown, ctxVars, job, rec, expiring,
                       historyVars>>
    <3>1. MaxTasks - pipelineLocked \in Int
      BY FreeSlots
    <3>2. (IF MaxTasks - pipelineLocked < 0 THEN 0 ELSE MaxTasks - pipelineLocked) \in Nat
      BY <3>1
    <3>3. slots' = [slots EXCEPT ![Boot] = IF MaxTasks - pipelineLocked < 0 THEN 0
                                           ELSE MaxTasks - pipelineLocked]
      BY <1>12 DEF RecoverList
    <3>4. slots' \in [Proc -> Nat]
      BY <3>2, <3>3 DEF TypeOK
    <3>5. {t \in Task : store[t].status \in {"pending", "running"}} \in SUBSET Task
      OBVIOUS
    <3>6. activeSlots' \in Nat /\ todo' \in [Proc -> SUBSET Task]
      BY <1>12, <3>5, FreeSlots DEF RecoverList, TypeOK
    <3>7. QED
      BY <1>12, <3>4, <3>6 DEF RecoverList
  <2>4. QED
    BY <2>2, <2>3 DEF TypeOK
<1>13. ASSUME p = Boot, RecoverNext PROVE TypeOK'
  <2>1. PICK t \in todo[Boot] : /\ todo' = [todo EXCEPT ![Boot] = todo[Boot] \ {t}]
                                /\ job' = [job EXCEPT ![Boot] = t]
    BY <1>13 DEF RecoverNext, TypeOK
  <2>2. /\ slots' = [slots EXCEPT ![Boot] = slots[Boot] - 1] /\ slots[Boot] > 0
        /\ slots[Boot] \in Nat /\ t \in Task
    BY <1>13 DEF RecoverNext, TypeOK
  <2>3. UNCHANGED <<sharedVars, rec, expiring, historyVars>>
    BY <1>13 DEF RecoverNext
  <2>4. /\ todo' \in [Proc -> SUBSET Task] /\ job' \in [Proc -> Task \union {Nobody}]
        /\ slots' \in [Proc -> Nat]
    <3>1. slots[Boot] - 1 \in Nat /\ slots \in [Proc -> Nat]
      BY <2>2 DEF TypeOK
    <3>2. slots' \in [Proc -> Nat]
      BY <2>2, <3>1
    <3>3. QED
      BY <2>1, <2>2, <3>2 DEF TypeOK
  <2>5. QED
    BY <2>3, <2>4 DEF TypeOK
<1>14. ASSUME Signal \/ ShutdownClose PROVE TypeOK'
  BY <1>14 DEF Signal, ShutdownClose, TypeOK
<1>15. ASSUME ShutdownMark PROVE TypeOK'
  <2>1. \A w \in Worker : (ctx[w] \/ \E t \in Task : onCancel[t] = w) \in BOOLEAN
    BY DEF TypeOK
  <2>2. ctx' \in [Worker -> BOOLEAN]
    BY <1>15, <2>1 DEF ShutdownMark
  <2>3. QED
    BY <1>15, <2>2 DEF ShutdownMark, TypeOK
<1>16. QED
  BY <1>1, <1>2, <1>3, <1>4, <1>5, <1>6, <1>7, <1>8, <1>9, <1>10, <1>11, <1>12, <1>13, <1>14, <1>15
     DEF ProcStep

-----------------------------------------------------------------------------
(* The beginning and the ends.                                              *)

\* Where each process begins.
LEMMA Resting ==
  /\ \A w \in Worker : RestingPC[w] = "recv"
  /\ \A t \in Task : RestingPC[t] \in {"new", "done"}
  /\ \A c \in Canceller : RestingPC[c] = "idle"
  /\ RestingPC[Boot] = "recover" /\ RestingPC[Stop] = "idle" /\ RestingPC[Cleaner] = "idle"
BY Processes DEF RestingPC, Dispatcher

\* Where an end leaves everybody: the workers wait for work, and of what ran only the
\* store and the history remain.
LEMMA EndsLeave ==
  ASSUME Ends
  PROVE  /\ Forget /\ UNCHANGED <<store, delivered, asked>>
         /\ pc' \in [Proc -> Place]
         /\ \A w \in Worker : pc'[w] = "recv"
         /\ \A t \in Task : pc'[t] \in {"new", "done"}
         /\ \A c \in Canceller : pc'[c] \in {"idle", "done"}
         /\ pc'[Cleaner] = "idle"
         /\ \/ pc'[Boot] = "recover" /\ pc'[Stop] = "idle"
            \/ pc'[Boot] = "done" /\ pc'[Stop] = "exited"
         /\ crashes' = crashes \/ (crashes' = crashes + 1 /\ crashes < MaxCrashes)
<1>1. /\ \A w \in Worker : AfterEnd[w] = "recv"
      /\ \A t \in Task : AfterEnd[t] \in {"new", "done"}
      /\ \A c \in Canceller : AfterEnd[c] \in {"idle", "done"}
      /\ AfterEnd[Boot] = "recover" /\ AfterEnd[Stop] = "idle" /\ AfterEnd[Cleaner] = "idle"
      /\ DOMAIN AfterEnd = Proc /\ AfterEnd = [p \in Proc |-> AfterEnd[p]]
  <2>1. \A p \in Proc : AfterEnd[p] = IF p \in Task \union Canceller /\ pc[p] # RestingPC[p]
                                      THEN "done" ELSE RestingPC[p]
    BY DEF AfterEnd
  <2>2. DOMAIN AfterEnd = Proc /\ AfterEnd = [p \in Proc |-> AfterEnd[p]]
    BY DEF AfterEnd
  <2>3. QED
    BY <2>1, <2>2, Resting, Processes DEF Dispatcher
<1>2. AfterEnd \in [Proc -> Place]
  <2>1. \A p \in Proc : AfterEnd[p] \in Place
    BY <1>1, Processes DEF Dispatcher, Place, WorkerPlace, TaskPlace, CancelPlace, BootPlace,
                           StopPlace, CleanerPlace
  <2>2. QED
    BY <1>1, <2>1
<1>3. CASE ShutdownReturn
  <2>1. pc' = [AfterEnd EXCEPT ![Stop] = "exited", ![Boot] = "done"]
    BY <1>3 DEF ShutdownReturn
  <2>2. "exited" \in Place /\ "done" \in Place
    BY DEF Place, StopPlace, TaskPlace
  <2>3. pc' \in [Proc -> Place]
    BY <1>2, <2>1, <2>2
  <2>4. /\ pc'[Stop] = "exited" /\ pc'[Boot] = "done"
        /\ \A p \in Proc \ {Stop, Boot} : pc'[p] = AfterEnd[p]
    BY <1>1, <2>1, Processes
  <2>5. Forget /\ UNCHANGED <<store, delivered, asked, crashes>>
    BY <1>3 DEF ShutdownReturn, historyVars
  <2>6. QED
    BY <1>1, <2>3, <2>4, <2>5, Processes DEF Dispatcher
<1>4. CASE Crash
  BY <1>1, <1>2, <1>4 DEF Crash
<1>5. QED
  BY <1>3, <1>4 DEF Ends

\* What is forgotten has its type, and nobody runs.
LEMMA EndsTypes ==
  ASSUME TypeOK, Ends
  PROVE  TypeOK' /\ PlacesOK' /\ JobsGiven' /\ RunningCounts' /\ RegistryPointsAtRunner'
<1> USE EndsLeave
<1>1. PlacesOK'
  BY DEF PlacesOK, WorkerPlace, TaskPlace, CancelPlace, BootPlace, StopPlace, CleanerPlace
<1>2. JobsGiven'
  <2>1. \A p \in Proc \ {Stop} : pc'[p] \in {"recv", "new", "done", "idle", "recover"}
    BY Processes DEF Dispatcher
  <2>2. QED
    BY <2>1, Processes DEF JobsGiven, JobPlace, HandlerPlace, RunningPlace, Dispatcher
<1>3. RunningCounts'
  <2>1. {w \in Worker : Running(w)}' = {}
    BY DEF Running
  <2>2. running' = 0
    BY DEF Forget
  <2>3. QED
    BY <2>1, <2>2, FS_EmptySet DEF RunningCounts
<1>4. RegistryPointsAtRunner'
  BY DEF RegistryPointsAtRunner, Forget
<1>5. TypeOK'
  <2>1. /\ parsed' \in SUBSET Task /\ dispatched' \in SUBSET Task
        /\ closed' \in BOOLEAN /\ shuttingDown' \in BOOLEAN
        /\ mu' \in Proc \union {Nobody} /\ activeSlots' \in Nat /\ running' \in Nat
    BY DEF Forget
  <2>2. workCh' \in Seq(Task) /\ Len(workCh') <= Capacity
    BY FreeSlots DEF Forget, Capacity
  <2>3. /\ onCancel' \in [Task -> Worker \union {Nobody}] /\ ctx' \in [Worker -> BOOLEAN]
        /\ job' \in [Proc -> Task \union {Nobody}] /\ rec' \in [Proc -> Record \union {Absent}]
        /\ todo' \in [Proc -> SUBSET Task] /\ slots' \in [Proc -> Nat]
        /\ expiring' \in [Task -> Record \union {Absent}]
    <3> HIDE EndsLeave
    <3>0. /\ onCancel' = [t \in Task |-> Nobody] /\ ctx' = [w \in Worker |-> FALSE]
          /\ job' = [q \in Proc |-> Nobody] /\ rec' = [q \in Proc |-> Absent]
          /\ todo' = [q \in Proc |-> {}] /\ slots' = [q \in Proc |-> 0]
          /\ expiring' = [t \in Task |-> Absent]
      BY EndsLeave DEF Forget
    <3>1. onCancel' \in [Task -> Worker \union {Nobody}] /\ ctx' \in [Worker -> BOOLEAN]
      BY <3>0
    <3>2. job' \in [Proc -> Task \union {Nobody}] /\ rec' \in [Proc -> Record \union {Absent}]
      BY <3>0
    <3>3. todo' \in [Proc -> SUBSET Task] /\ slots' \in [Proc -> Nat]
      BY <3>0
    <3>4. expiring' \in [Task -> Record \union {Absent}]
      BY <3>0
    <3>5. QED
      BY <3>1, <3>2, <3>3, <3>4
  <2>4. crashes' \in 0 .. MaxCrashes
    BY TaskManagerAssumption DEF TypeOK
  <2>5. store' = store /\ delivered' = delivered /\ asked' = asked
    OBVIOUS
  <2>6. QED
    BY <2>1, <2>2, <2>3, <2>4, <2>5 DEF TypeOK
<1>6. QED
  BY <1>1, <1>2, <1>3, <1>4, <1>5

\* The first state has its types, with nobody at work.
LEMMA InitTypes ==
  ASSUME Init
  PROVE  TypeOK /\ PlacesOK /\ JobsGiven /\ RunningCounts /\ RegistryPointsAtRunner
<1>0. /\ pc = RestingPC
      /\ \A p \in Proc : pc[p] = RestingPC[p]
  BY DEF Init
<1>1. PlacesOK
  <2>1. \A p \in Proc : pc[p] \in Place
    BY <1>0, Resting, Processes DEF Dispatcher, Place, WorkerPlace, TaskPlace, CancelPlace,
                                    BootPlace, StopPlace, CleanerPlace
  <2>2. pc = [p \in Proc |-> pc[p]]
    BY <1>0 DEF RestingPC
  <2>3. pc \in [Proc -> Place]
    BY <2>1, <2>2
  <2>4. QED
    BY <1>0, <2>3, Resting, Processes
       DEF PlacesOK, WorkerPlace, TaskPlace, CancelPlace, BootPlace, StopPlace, CleanerPlace
<1>2. JobsGiven
  <2>1. \A p \in Proc : pc[p] \in {"recv", "new", "done", "idle", "recover"}
    BY <1>0, Resting, Processes DEF Dispatcher
  <2>2. QED
    BY <2>1, Processes DEF JobsGiven, JobPlace, HandlerPlace, RunningPlace, Dispatcher
<1>3. RunningCounts
  <2>1. {w \in Worker : Running(w)} = {}
    BY <1>0, Resting, Processes DEF Running, Dispatcher
  <2>2. QED
    BY <2>1, FS_EmptySet DEF RunningCounts, Init
<1>4. RegistryPointsAtRunner
  BY DEF RegistryPointsAtRunner, Init
<1>5. TypeOK
  <2>1. store \in [Task -> Record \union {Absent}]
    <3>1. PICK left \in [Backlog -> LeftRecords] :
            store = [t \in Task |-> IF t \in Backlog THEN left[t] ELSE Absent]
      BY DEF Init
    <3>2. LeftRecords \subseteq Record
      BY TaskManagerAssumption DEF Record, Statuses
    <3>3. \A t \in Backlog : left[t] \in Record
      BY <3>2
    <3>4. QED
      BY <3>1, <3>3
  <2>2. /\ parsed \in SUBSET Task /\ dispatched \in SUBSET Task
        /\ closed \in BOOLEAN /\ shuttingDown \in BOOLEAN
        /\ mu \in Proc \union {Nobody} /\ activeSlots \in Nat /\ running \in Nat
        /\ delivered \in SUBSET Task /\ asked \in SUBSET Task
    BY DEF Init
  <2>3. workCh \in Seq(Task) /\ Len(workCh) <= Capacity
    <3>1. Cardinality(Worker) \in Nat
      BY FS_CardinalityType, TaskManagerAssumption
    <3>2. QED
      BY <3>1 DEF Init, Capacity, MaxTasks
  <2>4. /\ onCancel \in [Task -> Worker \union {Nobody}] /\ ctx \in [Worker -> BOOLEAN]
        /\ job \in [Proc -> Task \union {Nobody}] /\ rec \in [Proc -> Record \union {Absent}]
        /\ todo \in [Proc -> SUBSET Task] /\ slots \in [Proc -> Nat]
        /\ expiring \in [Task -> Record \union {Absent}]
    BY DEF Init
  <2>5. crashes \in 0 .. MaxCrashes
    BY TaskManagerAssumption DEF Init
  <2>6. QED
    BY <2>1, <2>2, <2>3, <2>4, <2>5 DEF TypeOK
<1>6. QED
  BY <1>1, <1>2, <1>3, <1>4, <1>5

\* What a step that changes nothing leaves alone.
LEMMA Stutters ==
  ASSUME UNCHANGED vars
  PROVE  UNCHANGED <<store, parsed, dispatched, workCh, closed, mu, activeSlots, running,
                     shuttingDown, onCancel, ctx, pc, job, rec, todo, slots, expiring, crashes,
                     delivered, asked>>
BY DEF vars, sharedVars, chanVars, slotVars, ctxVars, loopVars, historyVars

TypeInv == TypeOK /\ PlacesOK /\ JobsGiven /\ RunningCounts

\* The inductive invariant of the types: the queue stays within its capacity and the
\* counters above zero, however the steps of the workers and handlers mix.
THEOREM TypeInvariant == Spec => []TypeInv
<1>1. ASSUME TypeInv, [Next]_vars PROVE TypeInv'
  <2> USE <1>1 DEF TypeInv
  <2>1. CASE \E p \in Proc : ProcStep(p)
    BY <2>1, StepTypes, StepPlaces, StepJobs, StepRunning
  <2>2. CASE Ends
    BY <2>2, EndsTypes
  <2>3. CASE UNCHANGED vars
    BY <2>3, Stutters DEF TypeOK, PlacesOK, JobsGiven, RunningCounts, Running
  <2>4. QED
    BY <2>1, <2>2, <2>3, NextCases
<1>2. QED
  BY <1>1, InitTypes, PTL DEF Spec, TypeInv

\* Every variable keeps its type, for any tasks, workers, handlers and restarts.
THEOREM TypeCorrect == Spec => []TypeOK
BY TypeInvariant, PTL DEF TypeInv

\* m.running, from which the free slots are computed, counts the workers in runTask.
THEOREM RunningCountsCorrect == Spec => []RunningCounts
BY TypeInvariant, PTL DEF TypeInv

\* An entry of m.onCancel belongs to a worker that runs the task: a cancellation never
\* stops the download of another one.
THEOREM RegistryCorrect == Spec => []RegistryPointsAtRunner
<1>1. ASSUME TypeInv, RegistryPointsAtRunner, [Next]_vars PROVE RegistryPointsAtRunner'
  <2>1. CASE \E p \in Proc : ProcStep(p)
    BY <1>1, <2>1, StepRegistry DEF TypeInv
  <2>2. CASE Ends
    BY <1>1, <2>2, EndsTypes DEF TypeInv
  <2>3. CASE UNCHANGED vars
    BY <1>1, <2>3, Stutters DEF RegistryPointsAtRunner, Running
  <2>4. QED
    BY <1>1, <2>1, <2>2, <2>3, NextCases
<1>2. QED
  BY <1>1, InitTypes, TypeInvariant, PTL DEF Spec

-----------------------------------------------------------------------------
(* The mutex and the channel.                                               *)

\* Each step hands m.mu on as the code does, also across a send that blocks.
LEMMA StepMutex ==
  ASSUME TypeOK, PlacesOK, Mutex, NEW p \in Proc, ProcStep(p)
  PROVE  Mutex'
<1> USE DEF Step, loopVars, sharedVars, chanVars, slotVars, ctxVars, Sending
<1> DEFINE Keeps == /\ UNCHANGED <<mu, shuttingDown, closed>>
                    /\ pc[p] \notin Sending /\ pc'[p] \notin Sending
<1>0. /\ DOMAIN pc = Proc /\ pc[Stop] \in StopPlace
      /\ \A q \in Proc : q # p => pc'[q] = pc[q]
      /\ \A q \in Proc : q # Nobody
      /\ Stop \in Proc
  BY OthersKeep, Processes DEF PlacesOK
<1>1. CASE p \in Dispatcher \union {Boot} /\ enqueue(p)
  <2>1. /\ UNCHANGED <<shuttingDown, closed>> /\ p # Stop
        /\ pc'[p] \in Sending <=> mu' = p
        /\ \/ mu = Nobody /\ mu' = Nobody
           \/ mu = Nobody /\ mu' = p /\ ~shuttingDown
           \/ mu = p /\ mu' = Nobody
    BY <1>0, <1>1, Processes DEF enqueue, EnqueueRefused, EnqueueSend, EnqueueBlocks, SendUnblocks,
       Refused, AfterEnqueue, Unlocked, Dispatcher, Mutex
  <2>2. QED
    BY <1>0, <2>1 DEF Mutex
<1>2. ASSUME p \in Dispatcher \union {Boot},
             ScanEnd(p) \/ releaseSlot(p) \/ CountSlots(p) \/ ListPending(p) \/ ScanNext(p)
      PROVE  Keeps /\ p # Stop
  BY <1>0, <1>2, Processes DEF ScanEnd, releaseSlot, CountSlots, ListPending, ScanNext, Rest,
                               Dispatcher
<1>3. ASSUME p \in Task, Create(p) PROVE Keeps /\ p # Stop
  BY <1>0, <1>3, Processes DEF Create, CreateRefused, CreateReserve, CreateFails, CreateSave,
     CreateStash, CreateRollback, CreateUnsave
<1>4. ASSUME p \in Canceller, CancelTask(p) PROVE Keeps /\ p # Stop
  BY <1>0, <1>4, Processes DEF CancelTask, CancelGet, CancelSignal, CancelMark, CancelSettle
<1>5. ASSUME p \in Worker, workerLoop(p) PROVE Keeps /\ p # Stop
  BY <1>0, <1>5, Processes DEF workerLoop, Receive, WorkerExit, Undispatch, LoadTask, SaveSkipped
<1>6. ASSUME p \in Worker, runTask(p) PROVE Keeps /\ p # Stop
  BY <1>0, <1>6, Processes DEF runTask, Register, SaveRunning, Prepare, ReportProgress,
     SaveProgress, DownloadMerged, DownloadCancelled, DownloadFails, DownloadSucceeds, Reload,
     SaveVerdict, Deregister
<1>7. ASSUME p = Cleaner, CleanupExpired PROVE Keeps /\ p # Stop
  <2>1. UNCHANGED <<mu, shuttingDown, closed>>
    BY <1>7 DEF CleanupExpired, CleanupList, ListExpired, CleanupSave, CleanupDelete, CleanupFails,
                CleanupEnds
  <2>2. pc[Cleaner] \in CleanerPlace /\ pc'[Cleaner] \in CleanerPlace
    BY StepPlaces DEF PlacesOK
  <2>3. QED
    BY <1>7, <2>1, <2>2, Processes DEF CleanerPlace
<1>8. ASSUME p = Boot, RecoverList \/ RecoverNext PROVE Keeps /\ p # Stop
  BY <1>0, <1>8, Processes DEF RecoverList, RecoverNext
<1>9. CASE p = Stop /\ (Signal \/ ShutdownMark \/ ShutdownClose)
  <2>1. /\ mu' = mu /\ closed' \in {closed, TRUE}
        /\ \/ /\ pc[p] = "idle" /\ pc'[p] = "mark" /\ UNCHANGED <<shuttingDown, closed>>
           \/ /\ pc[p] = "mark" /\ pc'[p] = "close" /\ shuttingDown' = TRUE /\ mu = Nobody
           \/ /\ pc[p] = "close" /\ pc'[p] = "wait" /\ shuttingDown' = shuttingDown
    BY <1>0, <1>9 DEF Signal, ShutdownMark, ShutdownClose, Unlocked
  <2>2. QED
    BY <1>0, <1>9, <2>1 DEF Mutex
<1>10. CASE Keeps /\ p # Stop
  BY <1>0, <1>10 DEF Mutex
<1>11. QED
  BY <1>1, <1>2, <1>3, <1>4, <1>5, <1>6, <1>7, <1>8, <1>9, <1>10 DEF ProcStep

\* m.mu is kept across steps by whoever waits to send and by nobody else, and by nobody
\* once Shutdown has marked the manager; only then is the channel closed.
THEOREM MutexInvariant == Spec => []Mutex
<1>1. ASSUME TypeInv, Mutex, [Next]_vars PROVE Mutex'
  <2>1. CASE \E p \in Proc : ProcStep(p)
    BY <1>1, <2>1, StepMutex DEF TypeInv
  <2>2. CASE Ends
    <3>1. \A p \in Proc : pc'[p] \in {"recv", "new", "done", "idle", "recover", "exited"}
      BY <2>2, EndsLeave, Processes DEF Dispatcher
    <3>2. mu' = Nobody /\ ~shuttingDown' /\ ~closed' /\ pc'[Stop] \in {"idle", "exited"}
      BY <2>2, EndsLeave DEF Forget
    <3>3. QED
      BY <3>1, <3>2, Processes DEF Mutex, Sending
  <2>3. CASE UNCHANGED vars
    BY <1>1, <2>3, Stutters DEF Mutex
  <2>4. QED
    BY <1>1, <2>1, <2>2, <2>3, NextCases
<1>2. Init => Mutex
  <2>1. SUFFICES ASSUME Init PROVE Mutex
    OBVIOUS
  <2>0. pc = RestingPC /\ mu = Nobody /\ shuttingDown = FALSE /\ closed = FALSE
    BY <2>1 DEF Init
  <2>2. \A p \in Proc : pc[p] \in {"recv", "new", "done", "idle", "recover"}
    BY <2>0, Resting, Processes DEF Dispatcher
  <2>3. mu = Nobody /\ ~shuttingDown /\ ~closed /\ pc[Stop] = "idle"
    BY <2>0, Resting
  <2>4. QED
    BY <2>2, <2>3, Processes DEF Mutex, Sending
<1>3. QED
  BY <1>1, <1>2, TypeInvariant, PTL DEF Spec

\* A send never meets a closed channel: whoever waits to send holds the mutex that
\* Shutdown needs before it closes the channel.
THEOREM NoSendOnClosedCorrect == Spec => []NoSendOnClosed
<1>1. Mutex => NoSendOnClosed
  BY DEF Mutex, NoSendOnClosed
<1>2. QED
  BY <1>1, MutexInvariant, PTL

-----------------------------------------------------------------------------
(* The tasks on their way to a worker.                                      *)

\* What is in a sequence after an append, and before its tail is taken.
LEMMA Contents ==
  ASSUME NEW S, NEW s \in Seq(S)
  PROVE  /\ \A e \in S : Content(Append(s, e)) = Content(s) \union {e} /\ Append(s, e) # <<>>
         /\ s # <<>> => Content(s) = {Head(s)} \union Content(Tail(s)) /\ Tail(s) \in Seq(S)
<1>1. ASSUME NEW e \in S PROVE Content(Append(s, e)) = Content(s) \union {e} /\ Append(s, e) # <<>>
  <2>1. /\ DOMAIN Append(s, e) = 1 .. Len(s) + 1 /\ DOMAIN s = 1 .. Len(s) /\ Len(s) \in Nat
        /\ \A k \in 1 .. Len(s) : Append(s, e)[k] = s[k]
        /\ Append(s, e)[Len(s) + 1] = e
    OBVIOUS
  <2>2. Content(Append(s, e)) \subseteq Content(s) \union {e}
    BY <2>1 DEF Content
  <2>3. Content(s) \subseteq Content(Append(s, e)) /\ e \in Content(Append(s, e))
    <3>1. 1 .. Len(s) \subseteq 1 .. Len(s) + 1 /\ Len(s) + 1 \in 1 .. Len(s) + 1
      BY <2>1
    <3>2. QED
      BY <2>1, <3>1 DEF Content
  <2>4. QED
    BY <2>2, <2>3
<1>2. ASSUME s # <<>> PROVE Content(s) = {Head(s)} \union Content(Tail(s)) /\ Tail(s) \in Seq(S)
  <2>1. /\ Len(s) \in Nat \ {0} /\ DOMAIN s = 1 .. Len(s) /\ Head(s) = s[1]
        /\ Tail(s) \in Seq(S) /\ DOMAIN Tail(s) = 1 .. Len(s) - 1
        /\ \A k \in 1 .. Len(s) - 1 : Tail(s)[k] = s[k + 1]
    BY <1>2
  <2>2. Content(s) \subseteq {Head(s)} \union Content(Tail(s))
    <3>1. ASSUME NEW k \in DOMAIN s PROVE s[k] \in {Head(s)} \union Content(Tail(s))
      <4>1. CASE k = 1
        BY <2>1, <4>1
      <4>2. CASE k # 1
        <5>1. k - 1 \in 1 .. Len(s) - 1 /\ (k - 1) + 1 = k
          BY <2>1, <4>2
        <5>2. Tail(s)[k - 1] = s[k] /\ k - 1 \in DOMAIN Tail(s)
          BY <2>1, <5>1
        <5>3. QED
          BY <5>2 DEF Content
      <4>3. QED
        BY <4>1, <4>2
    <3>2. QED
      BY <3>1 DEF Content
  <2>3. {Head(s)} \union Content(Tail(s)) \subseteq Content(s)
    <3>1. \A k \in 1 .. Len(s) - 1 : k + 1 \in 1 .. Len(s)
      BY <2>1
    <3>2. 1 \in 1 .. Len(s)
      BY <2>1
    <3>3. QED
      BY <2>1, <3>1, <3>2 DEF Content
  <2>4. QED
    BY <2>1, <2>2, <2>3
<1>3. QED
  BY <1>1, <1>2

\* Only enqueue, Receive and Undispatch touch the channel and the marks, and only they
\* leave or reach the places where a process has a task in its hand.
Handing == Sending \union {"undispatch"}

\* Who touches workCh and m.dispatched, and is there with a task in hand.
LEMMA ChannelMoves ==
  ASSUME TypeOK, PlacesOK, NEW p \in Proc, ProcStep(p)
  PROVE  \/ p \in Dispatcher \union {Boot} /\ enqueue(p)
         \/ p \in Worker /\ (Receive(p) \/ Undispatch(p))
         \/ UNCHANGED <<dispatched, workCh>> /\ pc[p] \notin Handing /\ pc'[p] \notin Handing
<1> USE DEF Step, loopVars, sharedVars, chanVars, Sending, Handing
<1> DEFINE Keeps == UNCHANGED <<dispatched, workCh>> /\ pc[p] \notin Handing /\ pc'[p] \notin Handing
<1>0. DOMAIN pc = Proc
  BY DEF PlacesOK
<1>1. ASSUME ScanEnd(p) \/ releaseSlot(p) \/ CountSlots(p) \/ ListPending(p) \/ ScanNext(p)
      PROVE  Keeps
  BY <1>0, <1>1 DEF ScanEnd, releaseSlot, CountSlots, ListPending, ScanNext, Rest
<1>2. ASSUME Create(p) PROVE Keeps
  BY <1>0, <1>2 DEF Create, CreateRefused, CreateReserve, CreateFails, CreateSave,
     CreateStash, CreateRollback, CreateUnsave
<1>3. ASSUME CancelTask(p) PROVE Keeps
  BY <1>0, <1>3 DEF CancelTask, CancelGet, CancelSignal, CancelMark, CancelSettle
<1>4. ASSUME WorkerExit(p) \/ LoadTask(p) \/ SaveSkipped(p) PROVE Keeps
  BY <1>0, <1>4 DEF WorkerExit, LoadTask, SaveSkipped
<1>5. ASSUME runTask(p) PROVE Keeps
  BY <1>0, <1>5 DEF runTask, Register, SaveRunning, Prepare, ReportProgress,
     SaveProgress, DownloadMerged, DownloadCancelled, DownloadFails, DownloadSucceeds, Reload,
     SaveVerdict, Deregister
<1>6. ASSUME p = Cleaner, CleanupExpired PROVE Keeps
  <2>1. UNCHANGED <<dispatched, workCh>>
    BY <1>6 DEF CleanupExpired, CleanupList, ListExpired, CleanupSave, CleanupDelete, CleanupFails,
                CleanupEnds
  <2>2. pc[Cleaner] \in CleanerPlace /\ pc'[Cleaner] \in CleanerPlace
    BY StepPlaces DEF PlacesOK
  <2>3. QED
    BY <1>6, <2>1, <2>2 DEF CleanerPlace
<1>7. ASSUME p = Boot, RecoverList \/ RecoverNext PROVE Keeps
  BY <1>0, <1>7 DEF RecoverList, RecoverNext
<1>8. ASSUME p = Stop, Signal \/ ShutdownMark \/ ShutdownClose PROVE Keeps
  BY <1>0, <1>8 DEF Signal, ShutdownMark, ShutdownClose
<1>9. QED
  BY <1>1, <1>2, <1>3, <1>4, <1>5, <1>6, <1>7, <1>8 DEF ProcStep, workerLoop

\* A process has task t in its hand: it waits to send it, or has just received it.
Hands(p, t) == job[p] = t /\ (pc[p] \in Sending \/ (p \in Worker /\ pc[p] = "undispatch"))

\* A mark stands for a task in the channel or in the hand of a process.
LEMMA PhantomByHand ==
  NoPhantomDispatch <=> \A t \in dispatched : t \in Content(workCh) \/ \E p \in Proc : Hands(p, t)
BY Processes DEF NoPhantomDispatch, Content, Hands, Dispatcher

\* Each step keeps a task behind every mark of m.dispatched.
LEMMA StepPhantom ==
  ASSUME TypeOK, PlacesOK, JobsGiven, NoPhantomDispatch, NEW p \in Proc, ProcStep(p)
  PROVE  NoPhantomDispatch'
<1> USE DEF Step
<1> DEFINE OnItsWay(t) == t \in Content(workCh) \/ \E q \in Proc : Hands(q, t)
<1>0. /\ DOMAIN pc = Proc /\ DOMAIN job = Proc
      /\ \A q \in Proc : q # p => pc'[q] = pc[q] /\ job'[q] = job[q]
      /\ workCh \in Seq(Task)
  BY OthersKeep DEF PlacesOK, TypeOK
<1>1. \A t : \A q \in Proc : q # p /\ Hands(q, t) => Hands(q, t)'
  BY <1>0 DEF Hands
<1>2. \A t \in dispatched : OnItsWay(t)
  BY PhantomByHand
<1>3. ASSUME p \in Dispatcher \union {Boot}, enqueue(p) PROVE \A t \in dispatched' : OnItsWay(t)'
  <2>1. job[p] \in Task /\ job' = job
    BY <1>3, Processes DEF enqueue, EnqueueRefused, EnqueueSend, EnqueueBlocks, SendUnblocks,
                JobPlace, HandlerPlace, Dispatcher, JobsGiven
  <2>2. Content(Append(workCh, job[p])) = Content(workCh) \union {job[p]}
    BY <1>0, <2>1, Contents
  <2>3. CASE EnqueueRefused(p)
    <3>1. dispatched' = dispatched /\ workCh' = workCh /\ \A t : ~Hands(p, t)
      BY <2>3 DEF EnqueueRefused, sharedVars, chanVars, Hands, Sending
    <3>2. QED
      BY <1>1, <1>2, <3>1
  <2>4. CASE EnqueueSend(p)
    <3>1. /\ dispatched' = dispatched \union {job[p]} /\ workCh' = Append(workCh, job[p])
          /\ \A t : ~Hands(p, t)
      BY <2>4 DEF EnqueueSend, Hands, Sending
    <3>2. QED
      BY <1>1, <1>2, <2>2, <3>1
  <2>5. CASE EnqueueBlocks(p)
    <3>1. /\ dispatched' = dispatched \union {job[p]} /\ workCh' = workCh
          /\ \A t : ~Hands(p, t)
      BY <2>5 DEF EnqueueBlocks, Hands, Sending
    <3>2. \A t : t = job[p] => Hands(p, t)'
      BY <1>0, <2>1, <2>5 DEF EnqueueBlocks, Hands, Sending
    <3>3. QED
      BY <1>1, <1>2, <3>1, <3>2
  <2>6. CASE SendUnblocks(p)
    <3>1. dispatched' = dispatched /\ workCh' = Append(workCh, job[p])
      BY <2>6 DEF SendUnblocks
    <3>2. \A t : Hands(p, t) => t = job[p]
      BY DEF Hands
    <3>3. QED
      BY <1>1, <1>2, <2>2, <3>1, <3>2
  <2>7. QED
    BY <1>3, <2>3, <2>4, <2>5, <2>6 DEF enqueue
<1>4. ASSUME p \in Worker, Receive(p) PROVE \A t \in dispatched' : OnItsWay(t)'
  <2>1. /\ dispatched' = dispatched /\ workCh # <<>> /\ workCh' = Tail(workCh)
        /\ \A t : ~Hands(p, t)
    BY <1>4 DEF Receive, Hands, Sending
  <2>2. \A t : t = Head(workCh) => Hands(p, t)'
    BY <1>0, <1>4 DEF Receive, Hands
  <2>3. QED
    BY <1>0, <1>1, <1>2, <2>1, <2>2, Contents
<1>5. ASSUME p \in Worker, Undispatch(p) PROVE \A t \in dispatched' : OnItsWay(t)'
  <2>1. dispatched' = dispatched \ {job[p]} /\ workCh' = workCh
    BY <1>5 DEF Undispatch
  <2>2. \A t : Hands(p, t) => t = job[p]
    BY DEF Hands
  <2>3. QED
    BY <1>1, <1>2, <2>1, <2>2
<1>6. ASSUME UNCHANGED <<dispatched, workCh>>, pc[p] \notin Handing
      PROVE \A t \in dispatched' : OnItsWay(t)'
  <2>1. \A t : ~Hands(p, t)
    BY <1>6 DEF Hands, Handing
  <2>2. QED
    BY <1>1, <1>2, <1>6, <2>1
<1>7. \A t \in dispatched' : OnItsWay(t)'
  BY <1>3, <1>4, <1>5, <1>6, ChannelMoves
<1>8. QED
  BY <1>7, Processes DEF NoPhantomDispatch, Content, Hands, Dispatcher

\* A mark that a task is dispatched always has the task behind it, in the channel or in
\* somebody's hand: dispatchPending never skips a task for ever.
THEOREM NoPhantomDispatchCorrect == Spec => []NoPhantomDispatch
<1>1. ASSUME TypeInv, NoPhantomDispatch, [Next]_vars PROVE NoPhantomDispatch'
  <2>1. CASE \E p \in Proc : ProcStep(p)
    BY <1>1, <2>1, StepPhantom DEF TypeInv
  <2>2. CASE Ends
    BY <2>2, EndsLeave DEF NoPhantomDispatch, Forget
  <2>3. CASE UNCHANGED vars
    BY <1>1, <2>3, Stutters DEF NoPhantomDispatch
  <2>4. QED
    BY <1>1, <2>1, <2>2, <2>3, NextCases
<1>2. Init => NoPhantomDispatch
  BY DEF Init, NoPhantomDispatch
<1>3. QED
  BY <1>1, <1>2, TypeInvariant, PTL DEF Spec

-----------------------------------------------------------------------------
(* What is saved.                                                           *)

\* Process p saves record r of task t, or removes it.
Saves(p, t, r) ==
  \/ p \in Task /\ CreateSave(p) /\ p = t /\ r = Pending
  \/ /\ p \in Task /\ CreateUnsave(p) /\ p = t
     /\ r.status = "cancelled" /\ ~r.cancelled /\ ~r.expires
  \/ /\ p \in Canceller /\ CancelMark(p) /\ job[p] = t
     /\ r.status \in {"cancelled", "running"} /\ r.cancelled /\ r.expires = rec[p].expires
  \/ /\ p \in Worker /\ SaveSkipped(p) /\ job[p] = t
     /\ r.status = "cancelled" /\ r.cancelled = rec[p].cancelled /\ r.expires = rec[p].expires
  \/ /\ p \in Worker /\ SaveRunning(p) /\ job[p] = t
     /\ r.status = "running" /\ r.cancelled = rec[p].cancelled /\ r.expires = rec[p].expires
     /\ rec'[p] = r
  \/ p \in Worker /\ SaveProgress(p) /\ job[p] = t /\ r = rec[p]
  \/ /\ p \in Worker /\ SaveVerdict(p) /\ job[p] = t
     /\ r.status = Verdict(p) /\ r.expires = (rec[p].expires \/ Dated(p))
     /\ r.cancelled = rec[p].cancelled
  \/ /\ p = Cleaner /\ CleanupSave /\ job'[Cleaner] = t
     /\ r.status = "expired" /\ expiring[t] # Absent /\ r.expires = expiring[t].expires
  \/ p = Cleaner /\ CleanupDelete /\ job[Cleaner] = t /\ r = Absent

\* A step saves one record at most, unless it is that of Recover.
LEMMA StoreMoves ==
  ASSUME TypeOK, PlacesOK, JobsGiven, NEW p \in Proc, ProcStep(p)
  PROVE  \/ store' = store
         \/ p = Boot /\ RecoverList
         \/ \E t \in Task, r \in AnyRecord : Saves(p, t, r) /\ store' = [store EXCEPT ![t] = r]
<1> USE DEF Step, loopVars, sharedVars
<1> DEFINE Saved == \E t \in Task, r \in AnyRecord : Saves(p, t, r) /\ store' = [store EXCEPT ![t] = r]
<1>0. /\ p # Stop /\ pc[p] \in JobPlace => job[p] \in Task
      /\ p \in Task /\ pc[p] \in HandlerPlace => job[p] = p
      /\ rec[p] \in AnyRecord /\ DOMAIN job = Proc /\ DOMAIN rec = Proc
      /\ \A t \in Task : expiring[t] \in AnyRecord
      /\ Pending \in AnyRecord /\ Absent \in AnyRecord
  BY Records DEF JobsGiven, TypeOK
<1>1. CASE enqueue(p) \/ ScanEnd(p) \/ releaseSlot(p) \/ CountSlots(p) \/ ListPending(p) \/ ScanNext(p)
  BY <1>1 DEF enqueue, EnqueueRefused, EnqueueSend, EnqueueBlocks, SendUnblocks, ScanEnd,
              releaseSlot, CountSlots, ListPending, ScanNext
<1>2. ASSUME p \in Task, Create(p) PROVE store' = store \/ Saved
  <2>1. CASE CreateSave(p)
    <3>1. Saves(p, p, Pending)
      BY <1>2, <2>1 DEF Saves
    <3>2. store' = [store EXCEPT ![p] = Pending]
      BY <2>1 DEF CreateSave, Save
    <3>3. QED
      BY <1>0, <1>2, <3>1, <3>2
  <2>2. CASE CreateUnsave(p)
    <3> DEFINE r == [Pending EXCEPT !.status = "cancelled"]
    <3>1. r \in AnyRecord /\ r.status = "cancelled" /\ ~r.cancelled /\ ~r.expires
      BY Records DEF Record, AnyRecord, Statuses
    <3>2. store' = [store EXCEPT ![p] = r]
      BY <2>2 DEF CreateUnsave, Save
    <3> HIDE DEF r
    <3>3. Saves(p, p, r)
      BY <1>2, <2>2, <3>1 DEF Saves
    <3>4. QED
      BY <1>2, <3>1, <3>2, <3>3
  <2>3. CASE ~CreateSave(p) /\ ~CreateUnsave(p)
    BY <1>2, <2>3 DEF Create, CreateRefused, CreateReserve, CreateFails, CreateStash, CreateRollback
  <2>4. QED
    BY <2>1, <2>2, <2>3
<1>3. ASSUME p \in Canceller, CancelTask(p) PROVE store' = store \/ Saved
  <2>1. CASE CancelMark(p)
    <3> DEFINE r == [rec[p] EXCEPT !.status = IF rec[p].status = "pending" THEN "cancelled"
                                              ELSE rec[p].status,
                                   !.cancelled = TRUE]
    <3>1. rec[p].status \in {"pending", "running"} /\ job[p] \in Task
      BY <1>0, <1>3, <2>1, Processes DEF CancelMark, JobsGiven, JobPlace
    <3>2. /\ r \in AnyRecord /\ r.status \in {"cancelled", "running"} /\ r.cancelled
          /\ r.expires = rec[p].expires
      BY <1>0, <3>1 DEF AnyRecord, Statuses
    <3>3. store' = [store EXCEPT ![job[p]] = r]
      BY <2>1 DEF CancelMark, Save
    <3> HIDE DEF r
    <3>4. Saves(p, job[p], r)
      BY <1>3, <2>1, <3>2 DEF Saves
    <3>5. QED
      BY <3>1, <3>2, <3>3, <3>4
  <2>2. CASE ~CancelMark(p)
    BY <1>3, <2>2 DEF CancelTask, CancelGet, CancelSignal, CancelSettle
  <2>3. QED
    BY <2>1, <2>2
<1>4. ASSUME p \in Worker, workerLoop(p) \/ runTask(p) PROVE store' = store \/ Saved
  <2>0. (pc[p] \in JobPlace => job[p] \in Task) /\ Verdict(p) \in Statuses
    BY <1>0, <1>4, Processes DEF Verdict, Statuses
  <2>1. CASE SaveSkipped(p)
    <3> DEFINE r == [rec[p] EXCEPT !.status = "cancelled"]
    <3>1. /\ r \in AnyRecord /\ r.status = "cancelled" /\ r.cancelled = rec[p].cancelled
          /\ r.expires = rec[p].expires
      BY <1>0 DEF AnyRecord, Statuses
    <3>2. store' = [store EXCEPT ![job[p]] = r] /\ job[p] \in Task
      BY <2>0, <2>1 DEF SaveSkipped, Save, JobPlace
    <3> HIDE DEF r
    <3>3. Saves(p, job[p], r)
      BY <1>4, <2>1, <3>1 DEF Saves
    <3>4. QED
      BY <3>1, <3>2, <3>3
  <2>2. CASE SaveRunning(p)
    <3> DEFINE r == [rec[p] EXCEPT !.status = "running"]
    <3>1. /\ r \in AnyRecord /\ r.status = "running" /\ r.cancelled = rec[p].cancelled
          /\ r.expires = rec[p].expires
      BY <1>0 DEF AnyRecord, Statuses
    <3>2. /\ store' = [store EXCEPT ![job[p]] = r] /\ job[p] \in Task
          /\ rec' = [rec EXCEPT ![p] = r]
      BY <2>0, <2>2 DEF SaveRunning, Save, JobPlace, RunningPlace
    <3> HIDE DEF r
    <3>3. rec'[p] = r
      BY <1>0, <3>2
    <3>4. Saves(p, job[p], r)
      BY <1>4, <2>2, <3>1, <3>3 DEF Saves
    <3>5. QED
      BY <3>1, <3>2, <3>4
  <2>3. CASE SaveProgress(p)
    <3>1. store' = [store EXCEPT ![job[p]] = rec[p]] /\ job[p] \in Task
      BY <2>0, <2>3 DEF SaveProgress, Save, JobPlace, RunningPlace
    <3>2. Saves(p, job[p], rec[p])
      BY <1>4, <2>3 DEF Saves
    <3>3. QED
      BY <1>0, <3>1, <3>2
  <2>4. CASE SaveVerdict(p)
    <3> DEFINE r == [rec[p] EXCEPT !.status = Verdict(p),
                                   !.expires = rec[p].expires \/ Dated(p)]
    <3>0. (rec[p].expires \/ Dated(p)) \in BOOLEAN
      BY <1>0 DEF AnyRecord
    <3>1. /\ r \in AnyRecord /\ r.status = Verdict(p) /\ r.cancelled = rec[p].cancelled
          /\ r.expires = (rec[p].expires \/ Dated(p))
      BY <1>0, <2>0, <3>0 DEF AnyRecord
    <3>2. store' = [store EXCEPT ![job[p]] = r] /\ job[p] \in Task
      BY <2>0, <2>4 DEF SaveVerdict, Save, JobPlace, RunningPlace
    <3> HIDE DEF r
    <3>3. Saves(p, job[p], r)
      BY <1>4, <2>4, <3>1 DEF Saves
    <3>4. QED
      BY <3>1, <3>2, <3>3
  <2>5. CASE ~SaveSkipped(p) /\ ~SaveRunning(p) /\ ~SaveProgress(p) /\ ~SaveVerdict(p)
    BY <1>4, <2>5 DEF workerLoop, Receive, WorkerExit, Undispatch, LoadTask, runTask, Register,
       Prepare, ReportProgress, DownloadMerged, DownloadCancelled, DownloadFails, DownloadSucceeds,
       Reload, Deregister
  <2>6. QED
    BY <2>1, <2>2, <2>3, <2>4, <2>5
<1>5. ASSUME p = Cleaner, CleanupExpired PROVE store' = store \/ Saved
  <2>1. CASE CleanupSave
    <3>1. PICK t \in Task : /\ expiring[t] # Absent
                            /\ store' = [store EXCEPT ![t] = [expiring[t] EXCEPT !.status = "expired"]]
                            /\ job' = [job EXCEPT ![Cleaner] = t]
      BY <2>1 DEF CleanupSave, Expiring, Save
    <3> DEFINE r == [expiring[t] EXCEPT !.status = "expired"]
    <3>2. r \in AnyRecord /\ r.status = "expired" /\ r.expires = expiring[t].expires
      BY <1>0 DEF AnyRecord, Statuses
    <3>3. job'[Cleaner] = t
      BY <1>0, <1>5, <3>1
    <3> HIDE DEF r
    <3>4. Saves(p, t, r)
      BY <1>5, <2>1, <3>1, <3>2, <3>3 DEF Saves
    <3>5. QED
      BY <3>1, <3>2, <3>4 DEF r
  <2>2. CASE CleanupDelete
    <3>1. store' = [store EXCEPT ![job[Cleaner]] = Absent] /\ job[Cleaner] \in Task
      BY <1>0, <1>5, <2>2, Processes DEF CleanupDelete, CleanupEnds, Save, JobPlace
    <3>2. Saves(p, job[Cleaner], Absent)
      BY <1>5, <2>2 DEF Saves
    <3>3. QED
      BY <1>0, <3>1, <3>2
  <2>3. CASE CleanupList \/ CleanupFails
    BY <2>3 DEF CleanupList, ListExpired, CleanupFails
  <2>4. QED
    BY <1>5, <2>1, <2>2, <2>3 DEF CleanupExpired
<1>6. CASE RecoverNext \/ Signal \/ ShutdownMark \/ ShutdownClose
  BY <1>6 DEF RecoverNext, Signal, ShutdownMark, ShutdownClose
<1>7. QED
  BY <1>1, <1>2, <1>3, <1>4, <1>5, <1>6 DEF ProcStep

-----------------------------------------------------------------------------
(* The verdicts.                                                            *)

\* Only a download that ends without error delivers a task, and for good.
LEMMA DeliveredGrows ==
  ASSUME NEW p \in Proc, ProcStep(p)
  PROVE  /\ delivered \subseteq delivered'
         /\ delivered' # delivered => p \in Worker /\ DownloadSucceeds(p)
<1> USE DEF Step, loopVars, historyVars
<1>1. CASE enqueue(p) \/ ScanEnd(p) \/ releaseSlot(p) \/ CountSlots(p) \/ ListPending(p) \/ ScanNext(p)
  BY <1>1 DEF enqueue, EnqueueRefused, EnqueueSend, EnqueueBlocks, SendUnblocks, ScanEnd,
              releaseSlot, CountSlots, ListPending, ScanNext
<1>2. CASE Create(p)
  BY <1>2 DEF Create, CreateRefused, CreateReserve, CreateFails, CreateSave, CreateStash,
              CreateRollback, CreateUnsave
<1>3. CASE CancelTask(p)
  BY <1>3 DEF CancelTask, CancelGet, CancelSignal, CancelMark, CancelSettle
<1>4. CASE workerLoop(p)
  BY <1>4 DEF workerLoop, Receive, WorkerExit, Undispatch, LoadTask, SaveSkipped
<1>5. CASE p \in Worker /\ runTask(p)
  BY <1>5 DEF runTask, Register, SaveRunning, Prepare, ReportProgress, SaveProgress,
              DownloadMerged, DownloadCancelled, DownloadFails, DownloadSucceeds, Reload,
              SaveVerdict, Deregister
<1>6. CASE CleanupExpired
  BY <1>6 DEF CleanupExpired, CleanupList, ListExpired, CleanupSave, CleanupDelete, CleanupFails,
              CleanupEnds
<1>7. CASE RecoverList \/ RecoverNext \/ Signal \/ ShutdownMark \/ ShutdownClose
  BY <1>7 DEF RecoverList, RecoverNext, Signal, ShutdownMark, ShutdownClose
<1>8. QED
  BY <1>1, <1>2, <1>3, <1>4, <1>5, <1>6, <1>7 DEF ProcStep

\* A step saves completed only for a task that was delivered.
LEMMA StepVerdicts ==
  ASSUME TypeOK, PlacesOK, JobsGiven, VerdictsKnown, NEW p \in Proc, ProcStep(p)
  PROVE  VerdictsKnown'
<1> USE DEF Step
<1>0. /\ DOMAIN pc = Proc /\ DOMAIN rec = Proc /\ DOMAIN job = Proc /\ DOMAIN store = Task
      /\ \A q \in Proc : q # p => pc'[q] = pc[q] /\ job'[q] = job[q] /\ rec'[q] = rec[q]
      /\ delivered \subseteq delivered'
  BY OthersKeep, DeliveredGrows DEF PlacesOK, TypeOK
<1>1. ASSUME NEW t \in Task, store'[t].status = "completed" PROVE t \in delivered'
  <2>1. CASE store' = store
    BY <1>0, <1>1, <2>1 DEF VerdictsKnown
  <2>2. CASE RecoverList
    <3>1. store'[t] = IF store[t].status = "running" THEN [store[t] EXCEPT !.status = "pending"]
                                                     ELSE store[t]
      BY <2>2 DEF RecoverList
    <3>2. store[t] \in AnyRecord
      BY Records DEF TypeOK
    <3>3. [store[t] EXCEPT !.status = "pending"].status = "pending"
      BY <3>2 DEF AnyRecord
    <3>4. store[t].status = "completed"
      BY <1>1, <3>1, <3>3
    <3>5. QED
      BY <1>0, <3>4 DEF VerdictsKnown
  <2>3. ASSUME NEW u \in Task, NEW r \in AnyRecord, Saves(p, u, r), store' = [store EXCEPT ![u] = r]
        PROVE  t \in delivered'
    <3>1. CASE t # u
      BY <1>0, <1>1, <2>3, <3>1 DEF VerdictsKnown
    <3>2. CASE t = u
      <4>1. r.status = "completed"
        BY <1>0, <1>1, <2>3, <3>2
      <4>2. \/ p \in Worker /\ SaveProgress(p) /\ r = rec[p]
            \/ p \in Worker /\ SaveVerdict(p) /\ job[p] = t /\ Verdict(p) = "completed"
        BY <2>3, <3>2, <4>1, Records DEF Saves
      <4>3. ~SaveProgress(p)
        BY <4>1, <4>2 DEF VerdictsKnown, SaveProgress, SaveVerdict
      <4>4. t \in delivered
        BY <4>2, <4>3 DEF VerdictsKnown, Verdict
      <4>5. QED
        BY <1>0, <4>4
    <3>3. QED
      BY <3>1, <3>2
  <2>4. QED
    BY <2>1, <2>2, <2>3, StoreMoves
<1>2. ASSUME NEW w \in Worker
      PROVE  /\ pc'[w] \in {"prepare", "download", "save_progress"} => rec'[w].status = "running"
             /\ pc'[w] \in {"reload", "save_completed", "save_missing"} => job'[w] \in delivered'
  <2>0. w \in Proc
    BY Processes DEF Dispatcher
  <2>1. CASE w # p
    BY <1>0, <2>0, <2>1 DEF VerdictsKnown
  <2>2. CASE w = p /\ pc'[p] = pc[p] /\ rec'[p] = rec[p] /\ job'[p] = job[p]
    BY <1>0, <2>2 DEF VerdictsKnown
  <2>3. CASE w = p /\ pc'[p] \in Place \ {"prepare", "download", "save_progress", "reload", "save_completed", "save_missing"}
    BY <2>3
  <2>4. CASE w = p /\ SaveRunning(p)
    <3>1. rec[p] \in AnyRecord
      BY Records DEF TypeOK
    <3>2. rec'[p] = [rec[p] EXCEPT !.status = "running"] /\ pc'[p] = "prepare"
      BY <1>0, <2>4 DEF SaveRunning
    <3>3. rec'[p].status = "running"
      BY <3>1, <3>2 DEF AnyRecord
    <3>4. QED
      BY <2>4, <3>2, <3>3
  <2>5. CASE w = p /\ (Prepare(p) \/ ReportProgress(p) \/ SaveProgress(p))
    BY <1>0, <2>5 DEF Prepare, ReportProgress, SaveProgress, VerdictsKnown, sharedVars
  <2>6. CASE w = p /\ DownloadSucceeds(p)
    BY <1>0, <2>6 DEF DownloadSucceeds
  <2>7. CASE w = p /\ Reload(p)
    BY <1>0, <2>7 DEF Reload, VerdictsKnown
  <2>8. ASSUME w = p, enqueue(p) \/ ScanEnd(p) \/ releaseSlot(p) \/ CountSlots(p) \/ ListPending(p)
                      \/ ScanNext(p)
        PROVE  \/ pc'[p] = pc[p] /\ rec'[p] = rec[p] /\ job'[p] = job[p]
               \/ pc'[p] \notin {"prepare", "download", "save_progress", "reload", "save_completed", "save_missing"}
    BY <1>0, <2>8 DEF enqueue, EnqueueRefused, EnqueueSend, EnqueueBlocks, SendUnblocks, ScanEnd,
       releaseSlot, CountSlots, ListPending, ScanNext, Rest, Refused, AfterEnqueue
  <2>9. ASSUME w = p, workerLoop(p) \/ Register(p) \/ DownloadMerged(p) \/ DownloadCancelled(p)
                      \/ DownloadFails(p) \/ SaveVerdict(p) \/ Deregister(p)
        PROVE pc'[p] \notin {"prepare", "download", "save_progress", "reload", "save_completed", "save_missing"}
    BY <1>0, <2>9 DEF workerLoop, Receive, WorkerExit, Undispatch, LoadTask, SaveSkipped, Register,
       DownloadMerged, DownloadCancelled, DownloadFails, SaveVerdict, Deregister
  <2>10. QED
    BY <2>0, <2>1, <2>2, <2>3, <2>4, <2>5, <2>6, <2>7, <2>8, <2>9, Processes DEF ProcStep, runTask
<1>3. QED
  BY <1>1, <1>2 DEF VerdictsKnown

\* A task is only saved as completed if its download ended without error: the worker
\* comes to that save in no other way, and no old copy brings the word back.
THEOREM CompletedCorrect == Spec => []CompletedMeansDelivered
<1>1. ASSUME TypeInv, VerdictsKnown, [Next]_vars PROVE VerdictsKnown'
  <2>1. CASE \E p \in Proc : ProcStep(p)
    BY <1>1, <2>1, StepVerdicts DEF TypeInv
  <2>2. CASE Ends
    <3>1. store' = store /\ delivered' = delivered /\ \A w \in Worker : pc'[w] = "recv"
      BY <2>2, EndsLeave
    <3>2. QED
      BY <1>1, <3>1 DEF VerdictsKnown
  <2>3. CASE UNCHANGED vars
    BY <1>1, <2>3, Stutters DEF VerdictsKnown
  <2>4. QED
    BY <1>1, <2>1, <2>2, <2>3, NextCases
<1>2. Init => VerdictsKnown
  <2>1. SUFFICES ASSUME Init PROVE VerdictsKnown
    OBVIOUS
  <2>2. ASSUME NEW t \in Task PROVE store[t].status # "completed"
    <3>1. PICK left \in [Backlog -> LeftRecords] :
            store = [u \in Task |-> IF u \in Backlog THEN left[u] ELSE Absent]
      BY <2>1 DEF Init
    <3>2. store[t] = IF t \in Backlog THEN left[t] ELSE Absent
      BY <3>1
    <3>3. t \in Backlog => left[t].status \in {"pending", "running"}
      <4>1. \A r \in LeftRecords : r.status \in {"pending", "running"}
        BY TaskManagerAssumption
      <4>2. QED
        BY <4>1
    <3>4. QED
      BY <3>2, <3>3, Records
  <2>3. \A w \in Worker : pc[w] = "recv"
    BY <2>1, Resting DEF Init
  <2>4. QED
    BY <2>2, <2>3 DEF VerdictsKnown
<1>3. VerdictsKnown => CompletedMeansDelivered
  BY DEF VerdictsKnown, CompletedMeansDelivered
<1>4. QED
  BY <1>1, <1>2, <1>3, TypeInvariant, PTL DEF Spec

-----------------------------------------------------------------------------
(* The removal of old tasks.                                                *)

Removal == VerdictsKnown /\ CopyHeld /\ ExpiryDelivered

\* Only the removal itself makes a record absent.
LEMMA StoreKeeps ==
  ASSUME TypeOK, PlacesOK, JobsGiven, VerdictsKnown, NEW p \in Proc, ProcStep(p),
         NEW t \in Task, store[t] # Absent, store'[t] = Absent
  PROVE  p = Cleaner /\ CleanupDelete /\ t = job[Cleaner]
<1>0. DOMAIN store = Task
  BY DEF TypeOK
<1>1. CASE store' = store
  BY <1>1
<1>2. CASE RecoverList
  <2>1. store'[t] = IF store[t].status = "running" THEN [store[t] EXCEPT !.status = "pending"]
                                                   ELSE store[t]
    BY <1>2 DEF RecoverList
  <2>2. store[t] \in AnyRecord
    BY Records DEF TypeOK
  <2>3. [store[t] EXCEPT !.status = "pending"].status = "pending"
    BY <2>2 DEF AnyRecord
  <2>4. QED
    BY <2>1, <2>3, Records
<1>3. ASSUME NEW u \in Task, NEW r \in AnyRecord, Saves(p, u, r), store' = [store EXCEPT ![u] = r]
      PROVE  p = Cleaner /\ CleanupDelete /\ t = job[Cleaner]
  <2>1. t = u /\ r.status = "absent"
    BY <1>0, <1>3, Records
  <2>2. SaveProgress(p) => rec[p].status = "running" \/ p \notin Worker
    BY DEF SaveProgress, Step, VerdictsKnown
  <2>3. Verdict(p) # "absent"
    BY DEF Verdict
  <2>4. QED
    BY <1>3, <2>1, <2>2, <2>3, Records DEF Saves
<1>4. QED
  BY <1>1, <1>2, <1>3, StoreMoves

\* A task with a record keeps it, unless it was delivered and is removed.
LEMMA KnownKept ==
  ASSUME TypeOK, PlacesOK, JobsGiven, VerdictsKnown, ExpiryDelivered, NEW p \in Proc, ProcStep(p),
         NEW t \in Task, Known(t)
  PROVE  Known(t)'
<1>1. delivered \subseteq delivered'
  BY DeliveredGrows
<1>2. p = Cleaner /\ CleanupDelete => Removable(job[Cleaner])
  BY DEF CleanupDelete, CleanupEnds, Step, ExpiryDelivered
<1>3. QED
  BY <1>1, <1>2, StoreKeeps DEF Known, Removable

\* A record gets a date to expire only when its task was delivered.
LEMMA StoreExpiry ==
  ASSUME TypeOK, PlacesOK, JobsGiven, Removal, NEW p \in Proc, ProcStep(p),
         NEW t \in Task, store'[t].expires
  PROVE  t \in delivered'
<1>0. DOMAIN store = Task /\ delivered \subseteq delivered'
  BY DeliveredGrows DEF TypeOK
<1>1. CASE store' = store
  BY <1>0, <1>1 DEF Removal, ExpiryDelivered
<1>2. CASE RecoverList
  <2>1. store'[t] = IF store[t].status = "running" THEN [store[t] EXCEPT !.status = "pending"]
                                                   ELSE store[t]
    BY <1>2 DEF RecoverList
  <2>2. store[t] \in AnyRecord
    BY Records DEF TypeOK
  <2>3. [store[t] EXCEPT !.status = "pending"].expires = store[t].expires
    BY <2>2 DEF AnyRecord
  <2>4. QED
    BY <1>0, <2>1, <2>3 DEF Removal, ExpiryDelivered
<1>3. ASSUME NEW u \in Task, NEW r \in AnyRecord, Saves(p, u, r), store' = [store EXCEPT ![u] = r]
      PROVE  t \in delivered'
  <2>1. CASE t # u
    BY <1>0, <1>3, <2>1 DEF Removal, ExpiryDelivered
  <2>2. CASE t = u
    <3>1. r.expires
      BY <1>0, <1>3, <2>2
    <3>2. \/ job[p] = t /\ rec[p].expires
          \/ p \in Worker /\ SaveVerdict(p) /\ job[p] = t /\ Dated(p)
          \/ expiring[t] # Absent
      BY <1>3, <2>2, <3>1, Records DEF Saves
    <3>3. p \in Worker /\ Dated(p) => job[p] \in delivered
      BY DEF Removal, VerdictsKnown, Dated
    <3>4. t \in delivered
      BY <3>2, <3>3 DEF Removal, ExpiryDelivered, Removable
    <3>5. QED
      BY <1>0, <3>4
  <2>3. QED
    BY <2>1, <2>2
<1>4. QED
  BY <1>1, <1>2, <1>3, StoreMoves

\* CleanupExpired lists what has a date to expire.
LEMMA ListedExpiry ==
  ASSUME TypeOK, NEW p \in Proc, ProcStep(p), NEW t \in Task, expiring'[t] # Absent
  PROVE  expiring[t] # Absent \/ (store[t].expires /\ MayExpire)
<1> USE DEF Step, loopVars
<1>1. CASE CleanupList
  <2>1. PICK over \in SUBSET {u \in Task : store[u].expires} :
          expiring' = [u \in Task |-> IF u \in over THEN store[u] ELSE Absent]
    BY <1>1 DEF CleanupList, ListExpired
  <2>2. MayExpire
    BY <1>1 DEF CleanupList, ListExpired
  <2>3. QED
    BY <2>1, <2>2
<1>2. CASE CleanupSave
  BY <1>2 DEF CleanupSave
<1>3. CASE CleanupDelete \/ CleanupFails
  BY <1>3 DEF CleanupDelete, CleanupFails, CleanupEnds, TypeOK
<1>4. CASE enqueue(p) \/ ScanEnd(p) \/ releaseSlot(p) \/ CountSlots(p) \/ ListPending(p) \/ ScanNext(p)
  BY <1>4 DEF enqueue, EnqueueRefused, EnqueueSend, EnqueueBlocks, SendUnblocks, ScanEnd,
              releaseSlot, CountSlots, ListPending, ScanNext
<1>5. CASE Create(p)
  BY <1>5 DEF Create, CreateRefused, CreateReserve, CreateFails, CreateSave, CreateStash,
              CreateRollback, CreateUnsave
<1>6. CASE CancelTask(p)
  BY <1>6 DEF CancelTask, CancelGet, CancelSignal, CancelMark, CancelSettle
<1>7. CASE workerLoop(p)
  BY <1>7 DEF workerLoop, Receive, WorkerExit, Undispatch, LoadTask, SaveSkipped
<1>8. CASE runTask(p)
  BY <1>8 DEF runTask, Register, SaveRunning, Prepare, ReportProgress, SaveProgress,
              DownloadMerged, DownloadCancelled, DownloadFails, DownloadSucceeds, Reload,
              SaveVerdict, Deregister
<1>9. CASE RecoverList \/ RecoverNext \/ Signal \/ ShutdownMark \/ ShutdownClose
  BY <1>9 DEF RecoverList, RecoverNext, Signal, ShutdownMark, ShutdownClose
<1>10. QED
  BY <1>1, <1>2, <1>3, <1>4, <1>5, <1>6, <1>7, <1>8, <1>9 DEF ProcStep, CleanupExpired

\* How the copy that a process has of a record, and the task it is of, change.
LEMMA CopyMoves ==
  ASSUME TypeOK, PlacesOK, JobsGiven, CopyHeld, NEW p \in Proc, ProcStep(p)
  PROVE  \/ rec'[p] = Absent
         \/ /\ p # Stop /\ pc[p] \in CopyPlace /\ pc'[p] \in CopyPlace /\ job'[p] = job[p]
            /\ \/ rec'[p].expires = rec[p].expires /\ rec'[p].cancelled = rec[p].cancelled
               \/ job[p] \in Task /\ rec'[p] = store[job[p]]
         \/ /\ p # Stop /\ pc'[p] \in CopyPlace /\ job'[p] \in Task
            /\ \/ rec'[p] = store[job'[p]]
               \/ job'[p] = job[p] /\ store[job[p]] = Absent
<1> USE DEF Step, loopVars, sharedVars, CopyPlace, RunningPlace
<1> DEFINE Holds == /\ pc[p] \in CopyPlace /\ pc'[p] \in CopyPlace /\ job'[p] = job[p]
                    /\ \/ rec'[p].expires = rec[p].expires /\ rec'[p].cancelled = rec[p].cancelled
                       \/ job[p] \in Task /\ rec'[p] = store[job[p]]
           Takes == /\ pc'[p] \in CopyPlace /\ job'[p] \in Task
                    /\ \/ rec'[p] = store[job'[p]]
                       \/ job'[p] = job[p] /\ store[job[p]] = Absent
           Fine == rec'[p] = Absent \/ Holds \/ Takes
<1>0. /\ DOMAIN pc = Proc /\ DOMAIN job = Proc /\ DOMAIN rec = Proc
      /\ pc[p] \notin CopyPlace => rec[p] = Absent
  BY DEF PlacesOK, TypeOK, CopyHeld
<1>1. ASSUME enqueue(p) PROVE Fine
  BY <1>0, <1>1 DEF enqueue, EnqueueRefused, EnqueueSend, EnqueueBlocks, SendUnblocks
<1>2. ASSUME ScanEnd(p) \/ releaseSlot(p) \/ CountSlots(p) \/ ListPending(p) \/ ScanNext(p)
      PROVE Fine
  BY <1>0, <1>2 DEF ScanEnd, releaseSlot, CountSlots, ListPending, ScanNext
<1>3. ASSUME Create(p) PROVE Fine
  BY <1>0, <1>3 DEF Create, CreateRefused, CreateReserve, CreateFails, CreateSave, CreateStash,
     CreateRollback, CreateUnsave
<1>4. ASSUME CancelTask(p) PROVE Fine
  <2>1. CASE CancelGet(p)
    <3>1. PICK t \in Task : job' = [job EXCEPT ![p] = t] /\ rec' = [rec EXCEPT ![p] = store[t]]
      BY <2>1 DEF CancelGet
    <3>2. job'[p] = t /\ rec'[p] = store[t] /\ pc'[p] = "signal"
      BY <1>0, <2>1, <3>1 DEF CancelGet
    <3>3. Takes
      BY <3>2
    <3>4. QED
      BY <3>3
  <2>2. CASE CancelSignal(p) \/ CancelMark(p)
    BY <1>0, <2>2 DEF CancelSignal, CancelMark
  <2>3. CASE CancelSettle(p)
    BY <1>0, <2>3 DEF CancelSettle
  <2>4. QED
    BY <1>4, <2>1, <2>2, <2>3 DEF CancelTask
<1>5. ASSUME p \in Worker, workerLoop(p) PROVE Fine
  <2>1. CASE Receive(p) \/ WorkerExit(p) \/ Undispatch(p)
    BY <1>0, <2>1 DEF Receive, WorkerExit, Undispatch
  <2>2. CASE LoadTask(p)
    <3>1. job[p] \in Task
      BY <1>5, <2>2, Processes DEF LoadTask, JobsGiven, JobPlace
    <3>2. PICK fresh \in Fresh(p, Queued) : rec' = [rec EXCEPT ![p] = fresh]
      BY <2>2 DEF LoadTask
    <3>3. store[job[p]] = Absent \/ rec'[p] = store[job[p]]
      BY <1>0, <3>2 DEF Fresh
    <3>4. pc'[p] \in CopyPlace /\ job' = job
      BY <1>0, <2>2 DEF LoadTask
    <3>5. Takes
      BY <3>1, <3>3, <3>4
    <3>6. QED
      BY <3>5
  <2>3. CASE SaveSkipped(p)
    BY <1>0, <2>3 DEF SaveSkipped
  <2>4. QED
    BY <1>5, <2>1, <2>2, <2>3 DEF workerLoop
<1>6. ASSUME p \in Worker, runTask(p) PROVE Fine
  <2>1. CASE Register(p) \/ Prepare(p) \/ ReportProgress(p) \/ SaveProgress(p) \/ DownloadMerged(p)
             \/ DownloadCancelled(p) \/ DownloadFails(p) \/ DownloadSucceeds(p) \/ SaveVerdict(p)
             \/ Deregister(p)
    BY <1>0, <2>1 DEF Register, Prepare, ReportProgress, SaveProgress, DownloadMerged,
       DownloadCancelled, DownloadFails, DownloadSucceeds, SaveVerdict, Deregister
  <2>2. CASE SaveRunning(p)
    <3>1. rec[p] \in AnyRecord
      BY Records DEF TypeOK
    <3>2. /\ [rec[p] EXCEPT !.status = "running"].expires = rec[p].expires
          /\ [rec[p] EXCEPT !.status = "running"].cancelled = rec[p].cancelled
      BY <3>1 DEF AnyRecord
    <3>3. rec'[p] = [rec[p] EXCEPT !.status = "running"]
      BY <1>0, <2>2 DEF SaveRunning
    <3>4. /\ pc[p] \in CopyPlace /\ pc'[p] \in CopyPlace /\ job'[p] = job[p]
      BY <1>0, <2>2 DEF SaveRunning
    <3>5. Holds
      BY <3>2, <3>3, <3>4
    <3>6. QED
      BY <3>5
  <2>3. CASE Reload(p)
    <3>1. rec'[p] \in Fresh(p, {rec[p]})
      BY <1>0, <2>3 DEF Reload
    <3>2. job[p] \in Task /\ (rec'[p] = rec[p] \/ rec'[p] = store[job[p]])
      BY <1>6, <2>3, <3>1, Processes DEF Fresh, Reload, JobsGiven, JobPlace
    <3>3. /\ pc[p] \in CopyPlace /\ pc'[p] \in CopyPlace /\ job'[p] = job[p]
      BY <1>0, <2>3 DEF Reload
    <3>4. Holds
      BY <3>2, <3>3
    <3>5. QED
      BY <3>4
  <2>4. QED
    BY <1>6, <2>1, <2>2, <2>3 DEF runTask
<1>7. ASSUME p = Cleaner PROVE Fine
  <2>1. rec' = rec
    BY <1>7, Processes DEF ProcStep, Dispatcher, CleanupExpired, CleanupList, ListExpired,
       CleanupSave, CleanupDelete, CleanupFails, CleanupEnds
  <2>2. pc[Cleaner] \notin CopyPlace
    BY DEF PlacesOK, CleanerPlace
  <2>3. QED
    BY <1>0, <1>7, <2>1, <2>2
<1>8. ASSUME p = Boot, RecoverList \/ RecoverNext PROVE Fine
  BY <1>0, <1>8 DEF RecoverList, RecoverNext
<1>9. ASSUME p = Stop PROVE rec'[p] = Absent
  <2>1. rec' = rec
    BY <1>9, Processes DEF ProcStep, Dispatcher, Signal, ShutdownMark, ShutdownClose
  <2>2. QED
    BY <1>9, <2>1 DEF CopyHeld
<1>10. Fine
  BY <1>1, <1>2, <1>3, <1>4, <1>5, <1>6, <1>7, <1>8, <1>9 DEF ProcStep
<1>11. QED
  BY <1>9, <1>10

\* Where the task comes from that a process takes in hand.
LEMMA JobSources ==
  ASSUME TypeOK, PlacesOK, NEW p \in Proc, ProcStep(p)
  PROVE  \/ job'[p] = job[p]
         \/ job'[p] = Nobody
         \/ job'[p] \in todo[p]
         \/ job'[p] \in Content(workCh)
         \/ job'[p] \in Task /\ store'[job'[p]] # Absent
<1> USE DEF Step, loopVars, sharedVars
<1>0. /\ DOMAIN pc = Proc /\ DOMAIN job = Proc /\ job[p] \in Task \union {Nobody}
      /\ DOMAIN store = Task /\ todo[p] \subseteq Task
      /\ p = Cleaner => pc[p] \in CleanerPlace
      /\ \A t \in Task : t # Nobody
  BY Processes DEF PlacesOK, TypeOK
<1>1. CASE enqueue(p) \/ ScanEnd(p) \/ releaseSlot(p) \/ CountSlots(p) \/ ListPending(p) \/ ScanNext(p)
  BY <1>0, <1>1 DEF enqueue, EnqueueRefused, EnqueueSend, EnqueueBlocks, SendUnblocks, ScanEnd,
     releaseSlot, CountSlots, ListPending, ScanNext
<1>2. CASE p \in Task /\ Create(p)
  <2>1. CASE CreateSave(p)
    <3>1. job'[p] = p /\ store'[p] = Pending
      BY <1>0, <1>2, <2>1 DEF CreateSave, Save
    <3>2. QED
      BY <1>2, <3>1, Records
  <2>2. CASE ~CreateSave(p)
    BY <1>0, <1>2, <2>2 DEF Create, CreateRefused, CreateReserve, CreateFails, CreateStash,
       CreateRollback, CreateUnsave
  <2>3. QED
    BY <2>1, <2>2
<1>3. CASE CancelTask(p)
  <2>1. CASE CancelGet(p)
    BY <1>0, <2>1, Records DEF CancelGet
  <2>2. CASE ~CancelGet(p)
    BY <1>0, <1>3, <2>2 DEF CancelTask, CancelSignal, CancelMark, CancelSettle
  <2>3. QED
    BY <2>1, <2>2
<1>4. CASE workerLoop(p)
  <2>1. CASE Receive(p)
    <3>1. job'[p] = Head(workCh) /\ workCh # <<>> /\ workCh \in Seq(Task)
      BY <1>0, <2>1 DEF Receive, TypeOK
    <3>2. QED
      BY <3>1, Contents
  <2>2. CASE ~Receive(p)
    BY <1>0, <1>4, <2>2 DEF workerLoop, WorkerExit, Undispatch, LoadTask, SaveSkipped
  <2>3. QED
    BY <2>1, <2>2
<1>5. CASE runTask(p)
  BY <1>0, <1>5 DEF runTask, Register, SaveRunning, Prepare, ReportProgress, SaveProgress,
     DownloadMerged, DownloadCancelled, DownloadFails, DownloadSucceeds, Reload, SaveVerdict,
     Deregister
<1>6. CASE p = Cleaner /\ CleanupExpired
  <2>1. CASE CleanupSave
    <3>1. PICK t \in Task : /\ store' = [store EXCEPT ![t] = [expiring[t] EXCEPT !.status = "expired"]]
                            /\ job' = [job EXCEPT ![Cleaner] = t]
      BY <2>1 DEF CleanupSave, Expiring, Save
    <3>2. expiring[t] \in AnyRecord
      BY Records DEF TypeOK
    <3>3. [expiring[t] EXCEPT !.status = "expired"].status = "expired"
      BY <3>2 DEF AnyRecord
    <3>4. store'[t] = [expiring[t] EXCEPT !.status = "expired"]
      BY <1>0, <3>1
    <3>5. store'[t] # Absent
      BY <3>3, <3>4, Records
    <3>6. QED
      BY <1>0, <1>6, <3>1, <3>5
  <2>2. CASE ~CleanupSave
    BY <1>0, <1>6, <2>2 DEF CleanupExpired, CleanupList, ListExpired, CleanupDelete, CleanupFails,
       CleanupEnds
  <2>3. QED
    BY <2>1, <2>2
<1>7. CASE p = Boot /\ (RecoverList \/ RecoverNext)
  BY <1>0, <1>7 DEF RecoverList, RecoverNext
<1>8. CASE Signal \/ ShutdownMark \/ ShutdownClose
  BY <1>8 DEF Signal, ShutdownMark, ShutdownClose
<1>9. QED
  BY <1>1, <1>2, <1>3, <1>4, <1>5, <1>6, <1>7, <1>8 DEF ProcStep

\* Whatever a process takes in hand or puts on a list has a record, or was delivered.
LEMMA JobMoves ==
  ASSUME TypeOK, PlacesOK, JobsGiven, VerdictsKnown, ExpiryDelivered, NEW p \in Proc, ProcStep(p)
  PROVE  /\ (job[p] # Nobody => Known(job[p]))'
         /\ pc'[p] = "delete" /\ p = Cleaner => Removable(job[p])'
<1> USE DEF Step, loopVars, sharedVars
<1>0. /\ DOMAIN pc = Proc /\ DOMAIN job = Proc /\ job[p] \in Task \union {Nobody}
      /\ DOMAIN store = Task /\ todo[p] \subseteq Task
      /\ p = Cleaner => pc[p] \in CleanerPlace
      /\ \A t \in Task : t # Nobody
  BY Processes DEF PlacesOK, TypeOK
<1>1. \A t \in Task : Known(t) => Known(t)'
  BY KnownKept
<1>2. \/ job'[p] = job[p]
      \/ job'[p] = Nobody
      \/ job'[p] \in todo[p]
      \/ job'[p] \in Content(workCh)
      \/ job'[p] \in Task /\ store'[job'[p]] # Absent
  BY JobSources
<1>3. (job[p] # Nobody => Known(job[p]))'
  <2>1. ASSUME job'[p] # Nobody PROVE \/ store'[job'[p]] # Absent
                                      \/ job'[p] \in delivered' /\ MayExpire
    <3>1. Content(workCh) \subseteq Task
      BY DEF Content, TypeOK
    <3>2. job'[p] \in Task /\ (Known(job'[p]) \/ store'[job'[p]] # Absent)
      BY <1>0, <1>2, <2>1, <3>1 DEF ExpiryDelivered
    <3>3. QED
      BY <1>1, <3>2 DEF Known, Removable
  <2>2. QED
    BY <2>1 DEF Known, Removable
<1>4. ASSUME pc'[p] = "delete", p = Cleaner PROVE Removable(job[p])'
  <2> USE DEF Removable
  <2>0. delivered \subseteq delivered' /\ CleanupExpired
    BY <1>4, DeliveredGrows, Processes DEF ProcStep, Dispatcher
  <2>1. CASE CleanupSave
    <3>1. PICK t \in Task : expiring[t] # Absent /\ job' = [job EXCEPT ![Cleaner] = t]
      BY <2>1 DEF CleanupSave, Expiring
    <3>2. QED
      BY <1>0, <1>4, <2>0, <3>1 DEF ExpiryDelivered
  <2>2. CASE CleanupList
    BY <1>4, <2>0, <2>2 DEF CleanupList, ListExpired, ExpiryDelivered
  <2>3. CASE CleanupDelete \/ CleanupFails
    BY <1>0, <1>4, <2>3 DEF CleanupDelete, CleanupFails, CleanupEnds
  <2>4. QED
    BY <2>0, <2>1, <2>2, <2>3 DEF CleanupExpired
<1>5. QED
  BY <1>3, <1>4

\* Where the tasks come from that a process puts on a list or in the channel.
LEMMA ListSources ==
  ASSUME TypeOK, PlacesOK, JobsGiven, NEW p \in Proc, ProcStep(p)
  PROVE  /\ \A t \in todo'[p] :
              t \in todo[p] \/ (t \in Task /\ store[t].status \in {"pending", "running"})
         /\ \A t \in Content(workCh') : t \in Content(workCh) \/ (t = job[p] /\ t \in Task)
<1> USE DEF Step, loopVars, sharedVars, chanVars
<1>0. /\ DOMAIN todo = Proc /\ DOMAIN pc = Proc /\ todo[p] \subseteq Task /\ workCh \in Seq(Task)
  BY DEF TypeOK, PlacesOK
<1>1. ASSUME NEW t \in todo'[p], t \notin todo[p]
      PROVE  t \in Task /\ store[t].status \in {"pending", "running"}
  <2>1. todo' # todo /\ ~(todo'[p] \subseteq todo[p])
    BY <1>1
  <2>2. ~enqueue(p) /\ ~ScanEnd(p) /\ ~releaseSlot(p) /\ ~CountSlots(p) /\ ~ScanNext(p)
    BY <1>0, <2>1 DEF enqueue, EnqueueRefused, EnqueueSend, EnqueueBlocks, SendUnblocks, ScanEnd,
       releaseSlot, CountSlots, ScanNext
  <2>3. ~Create(p)
    BY <2>1 DEF Create, CreateRefused, CreateReserve, CreateFails, CreateSave, CreateStash,
       CreateRollback, CreateUnsave
  <2>4. ~CancelTask(p) /\ ~workerLoop(p)
    BY <2>1 DEF CancelTask, CancelGet, CancelSignal, CancelMark, CancelSettle, workerLoop, Receive,
       WorkerExit, Undispatch, LoadTask, SaveSkipped
  <2>5. ~runTask(p)
    BY <2>1 DEF runTask, Register, SaveRunning, Prepare, ReportProgress, SaveProgress,
       DownloadMerged, DownloadCancelled, DownloadFails, DownloadSucceeds, Reload, SaveVerdict,
       Deregister
  <2>6. ~CleanupExpired
    BY <2>1 DEF CleanupExpired, CleanupList, ListExpired, CleanupSave, CleanupDelete, CleanupFails,
       CleanupEnds
  <2>7. p = Boot => ~RecoverNext
    BY <1>0, <2>1 DEF RecoverNext
  <2>8. ~Signal /\ ~ShutdownMark /\ ~ShutdownClose
    BY <2>1 DEF Signal, ShutdownMark, ShutdownClose
  <2>9. ListPending(p) \/ (RecoverList /\ p = Boot)
    BY <2>2, <2>3, <2>4, <2>5, <2>6, <2>7, <2>8 DEF ProcStep
  <2>10. QED
    BY <1>0, <1>1, <2>9 DEF ListPending, RecoverList
<1>2. ASSUME NEW t \in Content(workCh') PROVE t \in Content(workCh) \/ (t = job[p] /\ t \in Task)
  <2>1. CASE workCh' = workCh
    BY <1>2, <2>1
  <2>2. CASE p \in Dispatcher \union {Boot} /\ enqueue(p)
    <3>1. workCh' \in {workCh, Append(workCh, job[p])} /\ pc[p] \in JobPlace
      BY <2>2 DEF enqueue, EnqueueRefused, EnqueueSend, EnqueueBlocks, SendUnblocks, JobPlace, HandlerPlace
    <3>2. job[p] \in Task
      BY <2>2, <3>1, Processes DEF JobsGiven, Dispatcher
    <3>3. Content(Append(workCh, job[p])) = Content(workCh) \union {job[p]}
      BY <1>0, <3>2, Contents
    <3>4. QED
      BY <1>2, <3>1, <3>2, <3>3
  <2>3. CASE Receive(p)
    <3>1. workCh # <<>> /\ workCh' = Tail(workCh)
      BY <2>3 DEF Receive
    <3>2. QED
      BY <1>0, <1>2, <3>1, Contents
  <2>4. CASE Undispatch(p)
    BY <1>2, <2>4 DEF Undispatch
  <2>5. QED
    BY <2>1, <2>2, <2>3, <2>4, ChannelMoves
<1>3. QED
  BY <1>1, <1>2

\* Whatever a process lists or puts in the channel has a record, or was delivered.
LEMMA ListMoves ==
  ASSUME TypeOK, PlacesOK, JobsGiven, VerdictsKnown, ExpiryDelivered, NEW p \in Proc, ProcStep(p)
  PROVE  /\ \A t \in todo'[p] : Known(t)'
         /\ \A t \in Content(workCh') : Known(t)'
<1> USE DEF Step, loopVars, sharedVars, chanVars
<1>0. /\ DOMAIN todo = Proc /\ DOMAIN pc = Proc /\ todo[p] \subseteq Task /\ workCh \in Seq(Task)
      /\ \A t \in Task : t # Nobody
  BY Processes DEF TypeOK, PlacesOK
<1>1. \A t \in Task : Known(t) => Known(t)'
  BY KnownKept
<1>2. ASSUME NEW t \in todo'[p] PROVE Known(t)'
  <2>1. CASE t \in todo[p]
    BY <1>0, <1>1, <2>1 DEF ExpiryDelivered
  <2>2. t \notin todo[p] => t \in Task /\ store[t].status \in {"pending", "running"}
    BY <1>2, ListSources
  <2>3. CASE t \in Task /\ store[t].status \in {"pending", "running"}
    <3>1. Known(t)
      BY <2>3, Records DEF Known
    <3>2. QED
      BY <1>1, <2>3, <3>1
  <2>4. QED
    BY <2>1, <2>2, <2>3
<1>3. ASSUME NEW t \in Content(workCh') PROVE Known(t)'
  <2>1. t \in Content(workCh) \/ (t = job[p] /\ t \in Task)
    BY <1>3, ListSources
  <2>2. t \in Task /\ Known(t)
    <3>1. Content(workCh) \subseteq Task
      BY DEF Content, TypeOK
    <3>2. QED
      BY <1>0, <2>1, <3>1 DEF ExpiryDelivered
  <2>3. QED
    BY <1>1, <2>2
<1>4. QED
  BY <1>2, <1>3

\* Each step keeps what the removal of old tasks relies on.
LEMMA StepRemoval ==
  ASSUME TypeOK, PlacesOK, JobsGiven, Removal, NEW p \in Proc, ProcStep(p)
  PROVE  Removal'
<1> USE DEF Removal
<1>0. /\ \A q \in Proc : q # p => pc'[q] = pc[q] /\ job'[q] = job[q] /\ rec'[q] = rec[q]
                                  /\ todo'[q] = todo[q]
      /\ delivered \subseteq delivered'
      /\ \A q \in Proc : job[q] \in Task \union {Nobody} /\ todo[q] \subseteq Task
      /\ Cleaner \in Proc /\ \A t \in Task : t # Nobody
  BY OthersKeep, DeliveredGrows, Processes DEF TypeOK
<1>1. \A t \in Task : Known(t) => Known(t)'
  BY KnownKept
<1>2. CopyHeld'
  BY <1>0, CopyMoves DEF CopyHeld
<1>3. rec'[p].expires => job'[p] \in delivered'
  <2>1. ASSUME NEW t \in Task, store[t].expires PROVE t \in delivered'
    BY <1>0, <2>1 DEF ExpiryDelivered
  <2>2. rec[p].expires => job[p] \in delivered'
    BY <1>0 DEF ExpiryDelivered
  <2>3. ASSUME job[p] \in Task, store[job[p]] = Absent PROVE job[p] \in delivered'
    BY <1>0, <2>3 DEF ExpiryDelivered, Known, Removable
  <2>4. QED
    BY <2>1, <2>2, <2>3, CopyMoves, Records
<1>4. \A q \in Proc : rec'[q].expires => job'[q] \in delivered'
  BY <1>0, <1>3 DEF ExpiryDelivered
<1>5. pc'[Cleaner] = "delete" => job'[Cleaner] \in delivered' /\ MayExpire
  BY <1>0, JobMoves DEF ExpiryDelivered, Removable
<1>6. ASSUME NEW q \in Proc PROVE (job[q] # Nobody => Known(job[q]))'
  <2>1. CASE q = p
    <3>1. (job[p] # Nobody => Known(job[p]))'
      BY JobMoves
    <3>2. QED
      BY <2>1, <3>1
  <2>2. CASE q # p
    <3>1. job'[q] = job[q] /\ (job[q] # Nobody => job[q] \in Task /\ Known(job[q]))
      BY <1>0, <2>2 DEF ExpiryDelivered
    <3>2. QED
      BY <1>1, <3>1 DEF Known, Removable
  <2>3. QED
    BY <2>1, <2>2
<1>7. ASSUME NEW q \in Proc PROVE \A t \in todo'[q] : Known(t)'
  <2>1. CASE q = p
    BY <2>1, ListMoves
  <2>2. CASE q # p
    BY <1>0, <1>1, <2>2 DEF ExpiryDelivered
  <2>3. QED
    BY <2>1, <2>2
<1>8. ExpiryDelivered'
  <2>1. \A t \in Task : store'[t].expires => t \in delivered'
    BY StoreExpiry
  <2>2. \A t \in Task : expiring'[t] # Absent => t \in delivered' /\ MayExpire
    BY <1>0, ListedExpiry DEF ExpiryDelivered, Removable
  <2>3. \A t \in Content(workCh') : Known(t)'
    BY ListMoves
  <2>4. QED
    BY <1>4, <1>5, <1>6, <1>7, <2>1, <2>2, <2>3 DEF ExpiryDelivered, Removable
<1>9. QED
  BY <1>2, <1>8, StepVerdicts

\* What an earlier process left has no date to expire.
LEMMA InitRemoval ==
  ASSUME Init
  PROVE  Removal
<1>1. \A t \in Task : store[t].status # "completed" /\ ~store[t].expires
  <2>1. PICK left \in [Backlog -> LeftRecords] :
          store = [u \in Task |-> IF u \in Backlog THEN left[u] ELSE Absent]
    BY DEF Init
  <2>2. \A r \in LeftRecords : r.status \in {"pending", "running"} /\ ~r.expires
    BY TaskManagerAssumption
  <2>3. QED
    BY <2>1, <2>2, Records
<1>2. /\ \A p \in Proc : job[p] = Nobody /\ rec[p] = Absent /\ todo[p] = {}
      /\ \A t \in Task : expiring[t] = Absent
      /\ workCh = <<>> /\ pc = RestingPC
  BY DEF Init
<1>3. pc[Cleaner] = "idle" /\ \A w \in Worker : pc[w] = "recv"
  BY <1>2, Resting
<1>4. Content(workCh) = {}
  BY <1>2 DEF Content
<1>5. QED
  BY <1>1, <1>2, <1>3, <1>4, Records DEF Removal, VerdictsKnown, CopyHeld, ExpiryDelivered

\* The store keeps it across an end of the process.
LEMMA EndsRemoval ==
  ASSUME Removal, Ends
  PROVE  Removal'
<1>1. store' = store /\ delivered' = delivered /\ Forget /\ pc'[Cleaner] = "idle"
      /\ \A w \in Worker : pc'[w] = "recv"
  BY EndsLeave
<1>2. /\ \A p \in Proc : job'[p] = Nobody /\ rec'[p] = Absent /\ todo'[p] = {}
      /\ \A t \in Task : expiring'[t] = Absent
      /\ workCh' = <<>>
  BY <1>1 DEF Forget
<1>3. Content(workCh') = {}
  BY <1>2 DEF Content
<1>4. VerdictsKnown' /\ CopyHeld'
  BY <1>1, <1>2 DEF Removal, VerdictsKnown, CopyHeld
<1>5. ExpiryDelivered'
  BY <1>1, <1>2, <1>3, Records DEF Removal, ExpiryDelivered
<1>6. QED
  BY <1>4, <1>5 DEF Removal

\* What was delivered is known of every record, copy and list with a date to expire.
THEOREM RemovalInvariant == Spec => []Removal
<1>1. ASSUME TypeInv, Removal, [Next]_vars PROVE Removal'
  <2>1. CASE \E p \in Proc : ProcStep(p)
    BY <1>1, <2>1, StepRemoval DEF TypeInv
  <2>2. CASE Ends
    BY <1>1, <2>2, EndsRemoval
  <2>3. CASE UNCHANGED vars
    BY <1>1, <2>3, Stutters DEF Removal, VerdictsKnown, CopyHeld, ExpiryDelivered, Known, Removable,
       Content
  <2>4. QED
    BY <1>1, <2>1, <2>2, <2>3, NextCases
<1>2. QED
  BY <1>1, InitRemoval, TypeInvariant, PTL DEF Spec

\* The removal works on an old list and reads nothing again, and still only takes the
\* record of a task that was delivered once: nobody brings an undelivered one on its list.
THEOREM OnlyDeliveredRemovedCorrect == Spec => OnlyDeliveredRemoved
<1>1. ASSUME TypeInv, Removal, [Next]_vars, NEW t \in Task, store[t] # Absent, store'[t] = Absent
      PROVE  t \in delivered
  <2>1. CASE \E p \in Proc : ProcStep(p)
    <3>1. CleanupDelete /\ t = job[Cleaner]
      BY <1>1, <2>1, StoreKeeps DEF TypeInv, Removal
    <3>2. QED
      BY <1>1, <3>1 DEF CleanupDelete, CleanupEnds, Step, Removal, ExpiryDelivered, Removable
  <2>2. CASE Ends
    BY <1>1, <2>2, EndsLeave
  <2>3. CASE UNCHANGED vars
    BY <1>1, <2>3, Stutters
  <2>4. QED
    BY <1>1, <2>1, <2>2, <2>3, NextCases
<1>2. TypeInv /\ Removal /\ [Next]_vars =>
        [\A t \in Task : store[t] # Absent /\ store'[t] = Absent => t \in delivered]_vars
  BY <1>1
<1>3. QED
  BY <1>2, TypeInvariant, RemovalInvariant, PTL DEF Spec, OnlyDeliveredRemoved

-----------------------------------------------------------------------------
(* Nothing is stranded.                                                     *)

\* A worker leaves a task that it runs only with a last record of it.
LEMMA RunnerKeeps ==
  ASSUME TypeOK, PlacesOK, NEW w \in Worker, ProcStep(w), pc[w] \in RunnerPlace
  PROVE  job'[w] = job[w] /\ (pc'[w] \in RunnerPlace \/ SaveVerdict(w))
<1> USE DEF Step, sharedVars, RunnerPlace, RunningPlace
<1>0. DOMAIN pc = Proc /\ w \in Proc
  BY Processes DEF PlacesOK, Dispatcher
<1>1. runTask(w)
  BY Processes DEF ProcStep, Dispatcher, enqueue, EnqueueRefused, EnqueueSend, EnqueueBlocks,
     SendUnblocks, ScanEnd, releaseSlot, CountSlots, ListPending, ScanNext, workerLoop, Receive,
     WorkerExit, Undispatch, LoadTask, SaveSkipped
<1>2. QED
  BY <1>0, <1>1 DEF runTask, Register, SaveRunning, Prepare, ReportProgress, SaveProgress,
     DownloadMerged, DownloadCancelled, DownloadFails, DownloadSucceeds, Reload, SaveVerdict,
     Deregister

\* A record says running only while a worker runs its task.
LEMMA StepRunner ==
  ASSUME TypeOK, PlacesOK, JobsGiven, VerdictsKnown, RunningHasRunner, NEW p \in Proc, ProcStep(p)
  PROVE  RunningHasRunner'
<1> USE DEF Step
<1> DEFINE Runner(w, t) == pc[w] \in RunnerPlace /\ job[w] = t
<1>0. /\ \A q \in Proc : q # p => pc'[q] = pc[q] /\ job'[q] = job[q]
      /\ DOMAIN store = Task /\ DOMAIN pc = Proc
      /\ \A w \in Worker : w \in Proc
  BY OthersKeep, Processes DEF TypeOK, PlacesOK, Dispatcher
<1>1. SUFFICES ASSUME pc'[Stop] # "exited", pc'[Boot] # "recover", NEW t \in Task,
                      store'[t].status = "running", ~store'[t].cancelled
               PROVE  \E w \in Worker : Runner(w, t)'
  BY DEF RunningHasRunner
<1>2. pc[Stop] # "exited"
  <2>1. pc'[Stop] = pc[Stop] \/ p = Stop
    BY <1>0, Processes
  <2>2. p = Stop => pc[Stop] # "exited"
    BY Processes DEF ProcStep, Dispatcher, Signal, ShutdownMark, ShutdownClose
  <2>3. QED
    BY <1>1, <2>1, <2>2
<1>3. CASE RecoverList
  <2>1. store'[t] = IF store[t].status = "running" THEN [store[t] EXCEPT !.status = "pending"]
                                                   ELSE store[t]
    BY <1>3 DEF RecoverList
  <2>2. store[t] \in AnyRecord
    BY Records DEF TypeOK
  <2>3. [store[t] EXCEPT !.status = "pending"].status = "pending"
    BY <2>2 DEF AnyRecord
  <2>4. QED
    BY <1>1, <2>1, <2>3
<1>4. CASE ~RecoverList /\ store'[t] = store[t]
  <2>1. pc[Boot] # "recover"
    <3>1. CASE p = Boot
      BY <1>4, <3>1, Processes DEF ProcStep, Dispatcher, enqueue, EnqueueRefused, EnqueueSend,
         EnqueueBlocks, SendUnblocks, ScanEnd, RecoverNext
    <3>2. QED
      BY <1>0, <1>1, <3>1, Processes
  <2>2. PICK w \in Worker : Runner(w, t)
    BY <1>1, <1>2, <1>4, <2>1 DEF RunningHasRunner
  <2>3. CASE w # p
    BY <1>0, <2>2, <2>3
  <2>4. CASE w = p
    <3>1. ~SaveVerdict(w)
      <4>1. ASSUME SaveVerdict(w) PROVE FALSE
        <5>1. store' = [store EXCEPT ![t] = [rec[w] EXCEPT !.status = Verdict(w),
                                             !.expires = rec[w].expires \/ Dated(w)]]
          BY <2>2, <4>1 DEF SaveVerdict, Save
        <5>2. rec[w] \in AnyRecord /\ Verdict(w) \in {"completed", "failed", "cancelled"}
          BY <1>0, Records DEF TypeOK, Verdict
        <5>3. [rec[w] EXCEPT !.status = Verdict(w),
               !.expires = rec[w].expires \/ Dated(w)].status = Verdict(w)
          BY <5>2 DEF AnyRecord
        <5>4. QED
          BY <1>0, <1>1, <5>1, <5>2, <5>3
      <4>2. QED
        BY <4>1
    <3>2. QED
      BY <2>2, <2>4, <3>1, RunnerKeeps
  <2>5. QED
    BY <2>3, <2>4
<1>5. ASSUME NEW u \in Task, NEW r \in AnyRecord, Saves(p, u, r), store' = [store EXCEPT ![u] = r],
             store'[t] # store[t]
      PROVE  \E w \in Worker : Runner(w, t)'
  <2>1. t = u /\ r.status = "running" /\ ~r.cancelled
    BY <1>0, <1>1, <1>5
  <2>2. p \in Worker /\ (SaveRunning(p) \/ SaveProgress(p)) /\ job[p] = t
    <3>1. Verdict(p) # "running"
      BY DEF Verdict
    <3>2. QED
      BY <1>5, <2>1, <3>1, Records DEF Saves
  <2>3. pc'[p] \in RunnerPlace /\ job'[p] = t
    BY <1>0, <2>2 DEF SaveRunning, SaveProgress, RunnerPlace, RunningPlace
  <2>4. QED
    BY <2>2, <2>3
<1>6. QED
  BY <1>3, <1>4, <1>5, StoreMoves

Waiting == Mutex /\ NoPhantomDispatch /\ VerdictsKnown /\ RunningHasRunner /\ WaitingIsSeen

\* When no slot is free, or a task is marked as dispatched, somebody else is busy with it.
LEMMA PipelineBusy ==
  ASSUME TypeOK, PlacesOK, RunningCounts, NoPhantomDispatch, running > 0 \/ dispatched # {}
  PROVE  \/ workCh # <<>>
         \/ \E q \in Proc : pc[q] \in RunningPlace \union Sending \union {"undispatch"}
<1>1. CASE running > 0
  <2>1. Runners # {}
    BY <1>1, RunnersFinite, FS_EmptySet DEF RunningCounts
  <2>2. QED
    BY <2>1, Processes DEF Runners, Dispatcher
<1>2. ASSUME NEW t \in dispatched PROVE \/ workCh # <<>>
                                        \/ \E q \in Proc : pc[q] \in Sending \union {"undispatch"}
  <2>1. CASE t \in Content(workCh)
    BY <2>1 DEF Content
  <2>2. CASE \E q \in Proc : Hands(q, t)
    BY <2>2 DEF Hands
  <2>3. QED
    BY <2>1, <2>2, PhantomByHand
<1>3. QED
  BY <1>1, <1>2

\* A place and a count of slots go together where dispatchPending lists the tasks.
LEMMA StepSlots ==
  ASSUME TypeOK, PlacesOK, \A q \in Proc : pc[q] = "list" => slots[q] > 0, NEW p \in Proc, ProcStep(p)
  PROVE  \A q \in Proc : pc'[q] = "list" => slots'[q] > 0
<1> USE DEF Step, sharedVars
<1>0. /\ \A q \in Proc : q # p => pc'[q] = pc[q] /\ slots'[q] = slots[q]
      /\ DOMAIN pc = Proc /\ DOMAIN slots = Proc
  BY OthersKeep DEF TypeOK, PlacesOK
<1>1. CASE CountSlots(p)
  <2>1. MaxTasks - pipelineLocked \in Int
    BY FreeSlots
  <2>2. pc'[p] = "list" => slots'[p] = MaxTasks - pipelineLocked /\ MaxTasks - pipelineLocked > 0
    BY <1>0, <1>1, <2>1 DEF CountSlots, Rest
  <2>3. QED
    BY <1>0, <2>1, <2>2
<1>2. CASE enqueue(p) \/ ScanEnd(p) \/ releaseSlot(p) \/ ListPending(p) \/ ScanNext(p)
  BY <1>0, <1>2 DEF enqueue, EnqueueRefused, EnqueueSend, EnqueueBlocks, SendUnblocks, ScanEnd,
              releaseSlot, ListPending, ScanNext, Rest, Refused, AfterEnqueue
<1>3. CASE Create(p)
  BY <1>0, <1>3 DEF Create, CreateRefused, CreateReserve, CreateFails, CreateSave, CreateStash,
              CreateRollback, CreateUnsave
<1>4. CASE CancelTask(p)
  BY <1>0, <1>4 DEF CancelTask, CancelGet, CancelSignal, CancelMark, CancelSettle
<1>5. CASE workerLoop(p) \/ runTask(p)
  BY <1>0, <1>5 DEF workerLoop, Receive, WorkerExit, Undispatch, LoadTask, SaveSkipped, runTask,
     Register, SaveRunning, Prepare, ReportProgress, SaveProgress, DownloadMerged,
     DownloadCancelled, DownloadFails, DownloadSucceeds, Reload, SaveVerdict, Deregister
<1>6. CASE p = Cleaner
  BY <1>0, <1>6, StepPlaces DEF PlacesOK, CleanerPlace
<1>7. CASE p = Boot /\ (RecoverList \/ RecoverNext)
  BY <1>0, <1>7 DEF RecoverList, RecoverNext
<1>8. CASE p = Stop
  BY <1>0, <1>8, StepPlaces DEF PlacesOK, StopPlace
<1>9. QED
  BY <1>1, <1>2, <1>3, <1>4, <1>5, <1>6, <1>7, <1>8 DEF ProcStep

\* A step after which nobody seems to look: it took nobody away who did, and the task
\* waited before it, unless it is one of those that are looked at below.
LEMMA QuietSteps ==
  ASSUME TypeOK, PlacesOK, JobsGiven, VerdictsKnown, ~shuttingDown, NEW p \in Proc, ProcStep(p)
  PROVE  \/ pc'[p] \in BusyPlace
         \/ workCh' # <<>>
         \/ p \in Dispatcher /\ (CountSlots(p) \/ ListPending(p) \/ ScanNext(p))
         \/ p \in Dispatcher \union {Boot} /\ ScanEnd(p)
         \/ p = Boot /\ RecoverList
         \/ /\ workCh' = workCh /\ pc[p] \notin BusyPlace \union {"scan", "recover"}
            /\ \A t \in Task : Active(t)' => Active(t)
<1> USE DEF Step, sharedVars, chanVars, BusyPlace, RunningPlace
<1> DEFINE Idles == /\ workCh' = workCh /\ pc[p] \notin BusyPlace \union {"scan", "recover"}
                    /\ \A t \in Task : Active(t)' => Active(t)
<1>0. DOMAIN pc = Proc /\ DOMAIN store = Task /\ workCh \in Seq(Task)
  BY DEF PlacesOK, TypeOK
<1>1. ASSUME p \in Dispatcher \union {Boot}, enqueue(p) PROVE pc'[p] \in BusyPlace \/ workCh' # <<>>
  <2>1. job[p] \in Task
    BY <1>1, Processes DEF enqueue, EnqueueRefused, EnqueueSend, EnqueueBlocks, SendUnblocks,
                JobPlace, HandlerPlace, Dispatcher, JobsGiven
  <2>2. Append(workCh, job[p]) # <<>>
    BY <1>0, <2>1, Contents
  <2>3. QED
    BY <1>0, <1>1, <2>2 DEF enqueue, EnqueueRefused, EnqueueSend, EnqueueBlocks, SendUnblocks
<1>2. ASSUME releaseSlot(p) PROVE pc'[p] \in BusyPlace
  BY <1>0, <1>2 DEF releaseSlot
<1>3. ASSUME p \in Task, Create(p) PROVE pc'[p] \in BusyPlace \/ Idles
  <2>1. CASE CreateUnsave(p)
    <3>1. store' = [store EXCEPT ![p] = [Pending EXCEPT !.status = "cancelled"]]
      BY <2>1 DEF CreateUnsave, Save
    <3>2. [Pending EXCEPT !.status = "cancelled"].status = "cancelled"
      BY Records DEF Record
    <3>3. \A t \in Task : Active(t)' => Active(t)
      BY <1>0, <3>1, <3>2 DEF Active
    <3>4. QED
      BY <1>0, <2>1, <3>3 DEF CreateUnsave
  <2>2. CASE ~CreateUnsave(p)
    BY <1>0, <1>3, <2>2 DEF Create, CreateRefused, CreateReserve, CreateFails, CreateSave,
       CreateStash, CreateRollback, Active
  <2>3. QED
    BY <2>1, <2>2
<1>4. ASSUME p \in Canceller, CancelTask(p) PROVE pc'[p] \in BusyPlace \/ Idles
  <2>1. CASE CancelMark(p)
    <3>1. rec[p] \in AnyRecord
      BY Records DEF TypeOK
    <3>2. PICK s \in {"cancelled", rec[p].status} :
            store' = [store EXCEPT ![job[p]] = [rec[p] EXCEPT !.status = s, !.cancelled = TRUE]]
      BY <2>1 DEF CancelMark, Save
    <3>3. [rec[p] EXCEPT !.status = s, !.cancelled = TRUE].cancelled
      BY <3>1 DEF AnyRecord
    <3>4. \A t \in Task : Active(t)' => Active(t)
      BY <1>0, <3>2, <3>3 DEF Active
    <3>5. QED
      BY <1>0, <2>1, <3>4 DEF CancelMark
  <2>2. CASE ~CancelMark(p)
    BY <1>0, <1>4, <2>2 DEF CancelTask, CancelGet, CancelSignal, CancelSettle, Active
  <2>3. QED
    BY <2>1, <2>2
<1>5. ASSUME workerLoop(p) PROVE pc'[p] \in BusyPlace \/ Idles
  BY <1>0, <1>5 DEF workerLoop, Receive, WorkerExit, Undispatch, LoadTask, SaveSkipped, Active
<1>6. ASSUME runTask(p) PROVE pc'[p] \in BusyPlace
  BY <1>0, <1>6 DEF runTask, Register, SaveRunning, Prepare, ReportProgress, SaveProgress,
     DownloadMerged, DownloadCancelled, DownloadFails, DownloadSucceeds, Reload, SaveVerdict,
     Deregister
<1>7. ASSUME p = Cleaner, CleanupExpired PROVE Idles
  <2>1. pc[Cleaner] \notin BusyPlace \union {"scan", "recover"}
    BY DEF PlacesOK, CleanerPlace
  <2>2. CASE CleanupList \/ CleanupFails
    BY <1>7, <2>1, <2>2 DEF CleanupList, ListExpired, CleanupFails, CleanupEnds, Active
  <2>3. CASE CleanupSave
    <3>1. PICK t \in Task : store' = [store EXCEPT ![t] = [expiring[t] EXCEPT !.status = "expired"]]
      BY <2>3 DEF CleanupSave, Expiring, Save
    <3>2. expiring[t] \in AnyRecord
      BY Records DEF TypeOK
    <3>3. [expiring[t] EXCEPT !.status = "expired"].status = "expired"
      BY <3>2 DEF AnyRecord
    <3>4. \A u \in Task : Active(u)' => Active(u)
      BY <1>0, <3>1, <3>3 DEF Active
    <3>5. QED
      BY <1>7, <2>1, <2>3, <3>4 DEF CleanupSave
  <2>4. CASE CleanupDelete
    <3>1. store' = [store EXCEPT ![job[Cleaner]] = Absent]
      BY <2>4 DEF CleanupDelete, Save
    <3>2. \A u \in Task : Active(u)' => Active(u)
      BY <1>0, <3>1, Records DEF Active
    <3>3. QED
      BY <1>7, <2>1, <2>4, <3>2 DEF CleanupDelete, CleanupEnds
  <2>5. QED
    BY <1>7, <2>2, <2>3, <2>4 DEF CleanupExpired
<1>8. ASSUME p = Boot, RecoverNext PROVE pc'[p] \in BusyPlace
  BY <1>0, <1>8 DEF RecoverNext
<1>9. ASSUME p = Stop, Signal \/ ShutdownMark \/ ShutdownClose PROVE Idles
  BY <1>0, <1>9 DEF Signal, ShutdownMark, ShutdownClose, Active
<1>10. QED
  BY <1>1, <1>2, <1>3, <1>4, <1>5, <1>6, <1>7, <1>8, <1>9 DEF ProcStep

\* As long as a task waits, each step leaves somebody at work who will look at it.
LEMMA StepWaiting ==
  ASSUME TypeInv, Waiting, NEW p \in Proc, ProcStep(p)
  PROVE  WaitingIsSeen'
<1> USE DEF Step, sharedVars, chanVars
<1> DEFINE Looking(q, t) == pc[q] = "scan" /\ t \in todo[q] /\ slots[q] > 0
<1>0. /\ \A q \in Proc : q # p => pc'[q] = pc[q] /\ todo'[q] = todo[q] /\ slots'[q] = slots[q]
      /\ DOMAIN pc = Proc /\ DOMAIN slots = Proc /\ DOMAIN todo = Proc
      /\ TypeOK /\ PlacesOK /\ JobsGiven /\ RunningCounts
      /\ Mutex /\ NoPhantomDispatch /\ VerdictsKnown /\ RunningHasRunner /\ WaitingIsSeen
      /\ Stop \in Proc /\ Boot \in Proc /\ Stop # Boot
  BY OthersKeep, Processes DEF TypeInv, TypeOK, PlacesOK, Waiting
<1>1. \A q \in Proc : pc'[q] = "list" => slots'[q] > 0
  BY <1>0, StepSlots DEF WaitingIsSeen
<1>2. SUFFICES ASSUME ~shuttingDown', pc'[Stop] # "exited", NEW t \in Task, Active(t)'
               PROVE  SomebodyLooks(t)'
  BY <1>1 DEF WaitingIsSeen
<1>3. RunningHasRunner'
  BY <1>0, StepRunner
<1>4. ~shuttingDown /\ pc[Stop] # "exited"
  <2>1. Mutex'
    BY <1>0, StepMutex
  <2>2. pc'[Stop] = pc[Stop] \/ p = Stop
    BY <1>0
  <2>3. p = Stop => Signal \/ ShutdownMark \/ ShutdownClose
    BY Processes DEF ProcStep, Dispatcher
  <2>4. QED
    BY <1>0, <1>2, <2>1, <2>2, <2>3 DEF Mutex, Signal, ShutdownMark, ShutdownClose
<1>5. Active(t) => SomebodyLooks(t)
  BY <1>0, <1>4 DEF WaitingIsSeen
<1>6. CASE pc'[p] \in BusyPlace \/ workCh' # <<>>
  BY <1>6 DEF SomebodyLooks
<1>7. ASSUME workCh' = workCh, pc[p] \notin RunningPlace \union Sending \union {"undispatch"},
             running > 0 \/ dispatched # {}
      PROVE  SomebodyLooks(t)'
  <2>1. ASSUME NEW q \in Proc, pc[q] \in RunningPlace \union Sending \union {"undispatch"}
        PROVE  pc'[q] \in BusyPlace
    BY <1>0, <1>7, <2>1 DEF BusyPlace, Sending
  <2>2. QED
    BY <1>0, <1>7, <2>1, PipelineBusy DEF SomebodyLooks
<1>8. ASSUME workCh' = workCh, pc[p] \notin BusyPlace \union {"recover"}, Active(t),
             Looking(p, t) => Looking(p, t)'
      PROVE  SomebodyLooks(t)'
  <2>1. CASE pc[Boot] = "recover" \/ workCh # <<>>
    BY <1>0, <1>8, <2>1 DEF SomebodyLooks
  <2>2. ASSUME NEW q \in Proc, pc[q] \in BusyPlace PROVE SomebodyLooks(t)'
    BY <1>0, <1>8, <2>2 DEF SomebodyLooks
  <2>3. ASSUME NEW q \in Proc, Looking(q, t) PROVE SomebodyLooks(t)'
    BY <1>0, <1>8, <2>3 DEF SomebodyLooks
  <2>4. QED
    BY <1>5, <1>8, <2>1, <2>2, <2>3 DEF SomebodyLooks
<1>9. CASE p \in Dispatcher /\ CountSlots(p)
  <2>1. CASE MaxTasks - pipelineLocked <= 0
    <3>1. running > 0 \/ dispatched # {}
      BY <1>0, <2>1, FreeSlots
    <3>2. workCh' = workCh /\ pc[p] = "dispatch"
      BY <1>9 DEF CountSlots
    <3>3. QED
      BY <1>7, <3>1, <3>2 DEF RunningPlace, Sending
  <2>2. CASE ~(MaxTasks - pipelineLocked <= 0)
    <3>1. pc'[p] = "list"
      BY <1>0, <1>4, <1>9, <2>2 DEF CountSlots
    <3>2. QED
      BY <1>6, <3>1 DEF BusyPlace
  <2>3. QED
    BY <2>1, <2>2
<1>10. CASE p \in Dispatcher /\ ListPending(p)
  <2>1. /\ pc[p] = "list" /\ pc'[p] = "scan" /\ store' = store /\ slots' = slots
        /\ todo'[p] = {u \in Task : store[u].status = "pending" /\ ~store[u].cancelled}
    BY <1>0, <1>10 DEF ListPending
  <2>2. CASE store[t].status = "pending"
    <3>1. Looking(p, t)'
      BY <1>0, <1>1, <1>2, <2>1, <2>2 DEF Active, WaitingIsSeen
    <3>2. QED
      BY <3>1 DEF SomebodyLooks
  <2>3. CASE store[t].status = "running"
    <3>1. CASE pc'[Boot] = "recover"
      BY <3>1 DEF SomebodyLooks
    <3>2. CASE pc'[Boot] # "recover"
      <4>1. PICK w \in Worker : pc'[w] \in RunnerPlace /\ job'[w] = t
        BY <1>2, <1>3, <2>1, <2>3, <3>2 DEF RunningHasRunner, Active
      <4>2. w \in Proc /\ pc'[w] \in BusyPlace
        BY <4>1, Processes DEF Dispatcher, RunnerPlace, BusyPlace
      <4>3. QED
        BY <4>2 DEF SomebodyLooks
    <3>3. QED
      BY <3>1, <3>2
  <2>4. QED
    BY <1>2, <2>1, <2>2, <2>3 DEF Active
<1>11. CASE p \in Dispatcher /\ ScanNext(p)
  <2>1. PICK u \in todo[p] : /\ todo' = [todo EXCEPT ![p] = todo[p] \ {u}]
                             /\ \/ u \in dispatched /\ UNCHANGED <<pc, slots>>
                                \/ pc' = [pc EXCEPT ![p] = "enqueue"]
    BY <1>11 DEF ScanNext
  <2>2. /\ workCh' = workCh /\ store' = store /\ pc[p] = "scan"
    BY <1>11 DEF ScanNext
  <2>3. CASE pc' = [pc EXCEPT ![p] = "enqueue"]
    BY <1>0, <1>6, <2>3 DEF BusyPlace
  <2>4. CASE u = t /\ u \in dispatched
    BY <1>7, <2>2, <2>4 DEF RunningPlace, Sending
  <2>5. CASE u # t /\ UNCHANGED <<pc, slots>>
    <3>1. Looking(p, t) => Looking(p, t)'
      BY <1>0, <2>1, <2>5
    <3>2. Active(t)
      BY <1>2, <2>2 DEF Active
    <3>3. QED
      BY <1>8, <2>2, <3>1, <3>2 DEF BusyPlace, RunningPlace
  <2>6. QED
    BY <2>1, <2>3, <2>4, <2>5
<1>12. CASE p \in Dispatcher \union {Boot} /\ ScanEnd(p)
  <2>1. /\ workCh' = workCh /\ store' = store /\ pc[p] = "scan" /\ ~Looking(p, t)
    BY <1>12 DEF ScanEnd
  <2>2. Active(t)
    BY <1>2, <2>1 DEF Active
  <2>3. QED
    BY <1>8, <2>1, <2>2 DEF BusyPlace, RunningPlace
<1>13. CASE p = Boot /\ RecoverList
  <2>1. /\ pc[Boot] = "recover" /\ pc'[Boot] = "scan" /\ workCh' = workCh
        /\ todo'[Boot] = {u \in Task : store[u].status \in {"pending", "running"}}
        /\ store'[t] = IF store[t].status = "running" THEN [store[t] EXCEPT !.status = "pending"]
                                                      ELSE store[t]
    BY <1>0, <1>13 DEF RecoverList
  <2>2. t \in todo'[Boot]
    BY <1>2, <2>1 DEF Active
  <2>3. CASE MaxTasks - pipelineLocked <= 0
    <3>1. running > 0 \/ dispatched # {}
      BY <1>0, <2>3, FreeSlots
    <3>2. QED
      BY <1>7, <1>13, <2>1, <3>1 DEF RunningPlace, Sending
  <2>4. CASE ~(MaxTasks - pipelineLocked <= 0)
    <3>1. MaxTasks - pipelineLocked \in Int
      BY <1>0, FreeSlots
    <3>2. slots'[Boot] > 0
      BY <1>0, <1>13, <2>4, <3>1 DEF RecoverList
    <3>3. QED
      BY <1>0, <2>1, <2>2, <3>2 DEF SomebodyLooks
  <2>5. QED
    BY <2>3, <2>4
<1>14. CASE /\ workCh' = workCh /\ pc[p] \notin BusyPlace \union {"scan", "recover"}
            /\ Active(t)' => Active(t)
  BY <1>2, <1>8, <1>14
<1>15. QED
  BY <1>0, <1>4, <1>6, <1>9, <1>10, <1>11, <1>12, <1>13, <1>14, QuietSteps

\* The last one to give a slot back sees whatever waits: at rest, no task that nobody
\* cancelled is left pending or running on disk, although nothing ever looks again.
THEOREM NoTaskStrandedCorrect == Spec => []NoTaskStranded
<1>1. ASSUME TypeInv, Waiting, [Next]_vars PROVE Waiting'
  <2>1. CASE \E p \in Proc : ProcStep(p)
    BY <1>1, <2>1, StepMutex, StepPhantom, StepVerdicts, StepRunner, StepWaiting DEF TypeInv, Waiting
  <2>2. CASE Ends
    <3>1. /\ \A p \in Proc : pc'[p] \in {"recv", "new", "done", "idle", "recover", "exited"}
          /\ \A w \in Worker : pc'[w] = "recv"
          /\ store' = store /\ delivered' = delivered
          /\ pc'[Boot] = "recover" \/ pc'[Stop] = "exited"
          /\ pc'[Stop] \in {"idle", "exited"}
      BY <2>2, EndsLeave, Processes DEF Dispatcher
    <3>2. mu' = Nobody /\ ~shuttingDown' /\ ~closed' /\ dispatched' = {}
      BY <2>2, EndsLeave DEF Forget
    <3>3. Mutex' /\ NoPhantomDispatch'
      BY <3>1, <3>2, Processes DEF Mutex, Sending, NoPhantomDispatch
    <3>4. VerdictsKnown'
      BY <1>1, <3>1 DEF Waiting, VerdictsKnown
    <3>5. RunningHasRunner' /\ WaitingIsSeen'
      BY <3>1 DEF RunningHasRunner, WaitingIsSeen, SomebodyLooks
    <3>6. QED
      BY <3>3, <3>4, <3>5 DEF Waiting
  <2>3. CASE UNCHANGED vars
    BY <1>1, <2>3, Stutters DEF Waiting, Mutex, NoPhantomDispatch, VerdictsKnown, RunningHasRunner,
       WaitingIsSeen, SomebodyLooks, Active
  <2>4. QED
    BY <1>1, <2>1, <2>2, <2>3, NextCases
<1>2. Init => Waiting
  <2>1. SUFFICES ASSUME Init PROVE Waiting
    OBVIOUS
  <2>2. pc = RestingPC /\ mu = Nobody /\ ~shuttingDown /\ ~closed /\ dispatched = {}
    BY <2>1 DEF Init
  <2>3. /\ \A p \in Proc : pc[p] \in {"recv", "new", "done", "idle", "recover"}
        /\ pc[Boot] = "recover" /\ pc[Stop] = "idle"
    BY <2>2, Resting, Processes DEF Dispatcher
  <2>4. Mutex /\ NoPhantomDispatch
    BY <2>2, <2>3, Processes DEF Mutex, Sending, NoPhantomDispatch
  <2>5. RunningHasRunner /\ WaitingIsSeen
    BY <2>3 DEF RunningHasRunner, WaitingIsSeen, SomebodyLooks
  <2>6. QED
    BY <2>1, <2>4, <2>5, InitRemoval DEF Waiting, Removal
<1>3. TypeInv /\ Waiting => NoTaskStranded
  <2>1. SUFFICES ASSUME TypeInv, Waiting, Quiet, NEW t \in Task, Active(t)
                 PROVE  FALSE
    BY DEF NoTaskStranded, Active
  <2>2. ~shuttingDown /\ pc[Stop] # "exited"
    BY <2>1 DEF Waiting, Mutex, Quiet
  <2>3. SomebodyLooks(t)
    BY <2>1, <2>2 DEF Waiting, WaitingIsSeen
  <2>4. \A p \in Proc : pc[p] \in {"recv", "new", "idle", "done"}
    BY <2>1, Processes DEF Quiet, Dispatcher
  <2>5. QED
    BY <2>1, <2>3, <2>4, Processes DEF SomebodyLooks, BusyPlace, RunningPlace, Quiet
<1>4. QED
  BY <1>1, <1>2, <1>3, TypeInvariant, PTL DEF Spec

-----------------------------------------------------------------------------
(* What is held is given back.                                              *)

\* Nobody comes to the beginning of a request, and only CreateReserve to its second place.
LEMMA BornOnce ==
  ASSUME TypeOK, PlacesOK, NEW p \in Task, p \in Proc, ProcStep(p), pc'[p] \in {"new", "parse"}
  PROVE  CreateReserve(p) /\ pc[p] = "new" /\ pc'[p] = "parse"
<1> USE DEF Step, sharedVars
<1>0. DOMAIN pc = Proc /\ pc[p] \in TaskPlace
  BY DEF PlacesOK
<1>1. ~enqueue(p) /\ ~ScanEnd(p) /\ ~releaseSlot(p) /\ ~CountSlots(p) /\ ~ListPending(p) /\ ~ScanNext(p)
  BY <1>0, Processes DEF enqueue, EnqueueRefused, EnqueueSend, EnqueueBlocks, SendUnblocks, ScanEnd,
     releaseSlot, CountSlots, ListPending, ScanNext, Rest, Refused, AfterEnqueue
<1>2. Create(p)
  BY <1>1, Processes DEF ProcStep
<1>3. QED
  BY <1>0, <1>2 DEF Create, CreateRefused, CreateReserve, CreateFails, CreateSave, CreateStash,
     CreateRollback, CreateUnsave

\* Each step leaves a task unknown to everybody until its own handler saves it.
LEMMA StepUnborn ==
  ASSUME TypeOK, PlacesOK, JobsGiven, Unborn, NEW p \in Proc, ProcStep(p)
  PROVE  Unborn'
<1> USE DEF Step
<1>0. /\ \A q \in Proc : q # p => pc'[q] = pc[q] /\ job'[q] = job[q] /\ todo'[q] = todo[q]
      /\ DOMAIN store = Task /\ \A t \in Task : t \in Proc /\ t # Nobody
  BY OthersKeep, Processes DEF TypeOK, Dispatcher
<1>1. SUFFICES ASSUME NEW t \in Task, pc'[t] \in {"new", "parse"}
               PROVE  /\ store'[t] = Absent /\ expiring'[t] = Absent /\ t \notin Content(workCh')
                      /\ \A q \in Proc : job'[q] # t /\ t \notin todo'[q]
  BY DEF Unborn
<1>2. pc[t] \in {"new", "parse"} /\ (p = t => pc'[p] = "parse" /\ CreateReserve(p))
  BY <1>0, <1>1, BornOnce
<1>3. /\ store[t] = Absent /\ expiring[t] = Absent /\ t \notin Content(workCh)
      /\ \A q \in Proc : job[q] # t /\ t \notin todo[q]
  BY <1>2 DEF Unborn
<1>4. store'[t] = Absent
  <2>1. CASE RecoverList
    <3>1. store'[t] = IF store[t].status = "running" THEN [store[t] EXCEPT !.status = "pending"]
                                                     ELSE store[t]
      BY <2>1 DEF RecoverList
    <3>2. QED
      BY <1>3, <3>1, Records
  <2>2. ASSUME NEW u \in Task, NEW r \in AnyRecord, Saves(p, u, r), store' = [store EXCEPT ![u] = r]
        PROVE  store'[t] = Absent
    <3>1. u # t
      <4>1. CASE p \in Task /\ (CreateSave(p) \/ CreateUnsave(p)) /\ p = u
        BY <1>1, <4>1, BornOnce DEF CreateSave, CreateUnsave
      <4>2. CASE job[p] = u \/ job[Cleaner] = u
        BY <1>3, <4>2, Processes
      <4>3. CASE expiring[u] # Absent
        BY <1>3, <4>3
      <4>4. QED
        BY <2>2, <4>1, <4>2, <4>3 DEF Saves
    <3>2. QED
      BY <1>0, <1>3, <2>2, <3>1
  <2>3. QED
    BY <1>3, <2>1, <2>2, StoreMoves
<1>5. expiring'[t] = Absent
  BY <1>3, ListedExpiry, Records
<1>6. t \notin Content(workCh') /\ \A q \in Proc : t \notin todo'[q]
  BY <1>0, <1>3, ListSources, Records
<1>7. \A q \in Proc : job'[q] # t
  <2>1. job'[p] # t
    BY <1>0, <1>3, <1>4, JobSources
  <2>2. QED
    BY <1>0, <1>3, <2>1
<1>8. QED
  BY <1>4, <1>5, <1>6, <1>7

\* Create is refused by its enqueue only after Shutdown has marked the manager.
LEMMA StepRefusals ==
  ASSUME TypeOK, PlacesOK, Mutex, Refusals, NEW p \in Proc, ProcStep(p)
  PROVE  Refusals' /\ (shuttingDown => shuttingDown')
<1> USE DEF Step
<1>0. /\ \A q \in Proc : q # p => pc'[q] = pc[q]
      /\ DOMAIN pc = Proc /\ Stop \in Proc /\ \A t \in Task : t \in Proc
  BY OthersKeep, Processes DEF PlacesOK, Dispatcher
<1>1. ASSUME shuttingDown PROVE shuttingDown'
  <2>1. pc[Stop] \in {"close", "wait"}
    BY <1>1 DEF Mutex
  <2>2. p = Stop => pc'[Stop] \in {"close", "wait"}
    BY <1>0, <2>1, Processes DEF ProcStep, Dispatcher, Signal, ShutdownMark, ShutdownClose
  <2>3. QED
    BY <1>0, <2>1, <2>2, StepMutex DEF Mutex
<1>2. ASSUME NEW t \in Task, t = p, pc'[t] \in {"rollback", "unsave"} PROVE shuttingDown
  <2>1. enqueue(p) \/ ScanEnd(p) \/ releaseSlot(p) \/ CountSlots(p) \/ ListPending(p) \/ ScanNext(p)
        \/ Create(p)
    BY <1>2, Processes DEF ProcStep
  <2>2. enqueue(p) \/ CreateRollback(p)
    BY <1>0, <1>2, <2>1, Processes DEF ScanEnd, releaseSlot, CountSlots, ListPending, ScanNext, Rest,
       Create, CreateRefused, CreateReserve, CreateFails, CreateSave, CreateStash, CreateUnsave,
       sharedVars
  <2>3. QED
    BY <1>0, <1>2, <2>2 DEF enqueue, EnqueueRefused, EnqueueSend, EnqueueBlocks, SendUnblocks,
       AfterEnqueue, Refusals, CreateRollback
<1>3. QED
  BY <1>0, <1>1, <1>2 DEF Refusals

\* The first step of a process is that of Recover.
LEMMA BeginsWithRecover ==
  ASSUME TypeOK, PlacesOK, Mutex, FirstStart, NEW p \in Proc, ProcStep(p)
  PROVE  /\ pc[Boot] = "recover" => p = Boot /\ RecoverList
         /\ pc'[Boot] # "recover"
<1> USE DEF Step
<1>0. /\ \A q \in Proc : q # p => pc'[q] = pc[q]
      /\ DOMAIN pc = Proc /\ Boot \in Proc
  BY OthersKeep, Processes DEF PlacesOK
<1>1. ASSUME pc[Boot] = "recover" PROVE p = Boot /\ RecoverList
  <2>1. /\ workCh = <<>> /\ Expiring = {} /\ pc[Stop] = "idle" /\ pc[Cleaner] = "idle" /\ ~closed
        /\ \A w \in Worker : pc[w] = "recv"
        /\ \A t \in Task : pc[t] \in {"new", "done"}
        /\ \A c \in Canceller : pc[c] \in {"idle", "done"}
    BY <1>1 DEF FirstStart, Mutex
  <2>2. \A q \in Dispatcher \union {Boot} : pc[q] \in {"recover", "recv", "new", "idle", "done"}
    BY <1>1, <2>1 DEF Dispatcher
  <2>3. p \in Dispatcher \union {Boot} => ~enqueue(p) /\ ~ScanEnd(p) /\ ~releaseSlot(p)
                                         /\ ~CountSlots(p) /\ ~ListPending(p) /\ ~ScanNext(p)
    BY <2>2 DEF enqueue, EnqueueRefused, EnqueueSend, EnqueueBlocks, SendUnblocks, ScanEnd,
       releaseSlot, CountSlots, ListPending, ScanNext
  <2>4. p \in Task => ~Create(p)
    BY <1>1, <2>1 DEF Create, CreateRefused, CreateReserve, CreateFails, CreateSave, CreateStash,
       CreateRollback, CreateUnsave, Listening
  <2>5. p \in Canceller => ~CancelTask(p)
    BY <1>1, <2>1 DEF CancelTask, CancelGet, CancelSignal, CancelMark, CancelSettle, Listening
  <2>6. p \in Worker => ~workerLoop(p)
    BY <2>1 DEF workerLoop, Receive, WorkerExit, Undispatch, LoadTask, SaveSkipped
  <2>7. p \in Worker => ~runTask(p)
    BY <2>1 DEF runTask, Register, SaveRunning, Prepare, ReportProgress, SaveProgress,
       DownloadMerged, DownloadCancelled, DownloadFails, DownloadSucceeds, Reload, SaveVerdict,
       Deregister
  <2>8. ~CleanupExpired
    BY <1>1, <2>1 DEF CleanupExpired, CleanupList, ListExpired, CleanupSave, CleanupDelete,
       CleanupFails, CleanupEnds
  <2>9. ~Signal /\ ~ShutdownMark /\ ~ShutdownClose /\ ~RecoverNext
    BY <1>1, <2>1 DEF Signal, ShutdownMark, ShutdownClose, RecoverNext
  <2>10. QED
    BY <2>3, <2>4, <2>5, <2>6, <2>7, <2>8, <2>9, Processes DEF ProcStep, Dispatcher
<1>2. p = Boot => pc'[Boot] # "recover"
  BY <1>0, Processes DEF ProcStep, Dispatcher, enqueue, EnqueueRefused, EnqueueSend, EnqueueBlocks,
     SendUnblocks, ScanEnd, RecoverList, RecoverNext, Rest, Refused, AfterEnqueue
<1>3. QED
  BY <1>0, <1>1, <1>2

\* Who changes the count of slots.
LEMMA SlotMoves ==
  ASSUME TypeOK, NEW p \in Proc, ProcStep(p)
  PROVE  /\ crashes' = crashes
         /\ \/ p \in Task /\ CreateReserve(p)
            \/ p \in Dispatcher /\ releaseSlot(p)
            \/ p = Boot /\ RecoverList
            \/ activeSlots' <= activeSlots
<1> USE DEF Step, sharedVars, slotVars, historyVars
<1>0. activeSlots \in Nat
  BY DEF TypeOK
<1>1. CASE enqueue(p) \/ ScanEnd(p) \/ CountSlots(p) \/ ListPending(p) \/ ScanNext(p)
  BY <1>0, <1>1 DEF enqueue, EnqueueRefused, EnqueueSend, EnqueueBlocks, SendUnblocks, ScanEnd,
     CountSlots, ListPending, ScanNext
<1>2. CASE p \in Dispatcher /\ releaseSlot(p)
  BY <1>0, <1>2 DEF releaseSlot
<1>3. CASE p \in Task /\ Create(p)
  BY <1>0, <1>3 DEF Create, CreateRefused, CreateReserve, CreateFails, CreateSave, CreateStash,
     CreateRollback, CreateUnsave
<1>4. CASE CancelTask(p)
  BY <1>0, <1>4 DEF CancelTask, CancelGet, CancelSignal, CancelMark, CancelSettle
<1>5. CASE workerLoop(p)
  BY <1>0, <1>5 DEF workerLoop, Receive, WorkerExit, Undispatch, LoadTask, SaveSkipped
<1>6. CASE runTask(p)
  BY <1>0, <1>6 DEF runTask, Register, SaveRunning, Prepare, ReportProgress, SaveProgress,
     DownloadMerged, DownloadCancelled, DownloadFails, DownloadSucceeds, Reload, SaveVerdict,
     Deregister
<1>7. CASE CleanupExpired
  BY <1>0, <1>7 DEF CleanupExpired, CleanupList, ListExpired, CleanupSave, CleanupDelete,
     CleanupFails, CleanupEnds
<1>8. CASE (p = Boot /\ RecoverList) \/ RecoverNext \/ Signal \/ ShutdownMark \/ ShutdownClose
  BY <1>0, <1>8 DEF RecoverList, RecoverNext, Signal, ShutdownMark, ShutdownClose
<1>9. QED
  BY <1>1, <1>2, <1>3, <1>4, <1>5, <1>6, <1>7, <1>8 DEF ProcStep

\* What is in the channel stays there until a worker takes it in hand.
LEMMA ContentKeeps ==
  ASSUME TypeOK, PlacesOK, JobsGiven, NEW p \in Proc, ProcStep(p), NEW t \in Content(workCh)
  PROVE  \/ t \in Content(workCh')
         \/ p \in Worker /\ pc'[p] = "undispatch" /\ job'[p] = t
<1> USE DEF Step
<1>0. workCh \in Seq(Task) /\ DOMAIN pc = Proc /\ DOMAIN job = Proc
  BY DEF TypeOK, PlacesOK
<1>1. CASE workCh' = workCh
  BY <1>1
<1>2. CASE p \in Dispatcher \union {Boot} /\ enqueue(p)
  <2>1. workCh' \in {workCh, Append(workCh, job[p])} /\ pc[p] \in JobPlace
    BY <1>2 DEF enqueue, EnqueueRefused, EnqueueSend, EnqueueBlocks, SendUnblocks, JobPlace,
       HandlerPlace, sharedVars, chanVars
  <2>2. job[p] \in Task
    BY <1>2, <2>1, Processes DEF JobsGiven, Dispatcher
  <2>3. Content(Append(workCh, job[p])) = Content(workCh) \union {job[p]}
    BY <1>0, <2>2, Contents
  <2>4. QED
    BY <2>1, <2>3
<1>3. CASE p \in Worker /\ Receive(p)
  <2>1. /\ workCh # <<>> /\ workCh' = Tail(workCh)
        /\ pc'[p] = "undispatch" /\ job'[p] = Head(workCh)
    BY <1>0, <1>3 DEF Receive
  <2>2. Content(workCh) = {Head(workCh)} \union Content(Tail(workCh))
    BY <1>0, <2>1, Contents
  <2>3. QED
    BY <1>3, <2>1, <2>2
<1>4. CASE Undispatch(p)
  BY <1>4 DEF Undispatch
<1>5. QED
  BY <1>1, <1>2, <1>3, <1>4, ChannelMoves

\* A task that a process sends stays in its hand until it is in the channel.
LEMMA SendKeeps ==
  ASSUME TypeOK, PlacesOK, JobsGiven, ~shuttingDown, NEW p \in Proc, ProcStep(p),
         pc[p] \in {"submit", "submitting", "sending"}
  PROVE  \/ job[p] \in Content(workCh')
         \/ pc[p] = "submit" /\ pc'[p] = "submitting" /\ job'[p] = job[p]
<1> USE DEF Step, sharedVars
<1>0. workCh \in Seq(Task) /\ DOMAIN pc = Proc /\ pc[p] \in JobPlace
  BY DEF TypeOK, PlacesOK, JobPlace, HandlerPlace
<1>1. p # Stop /\ p # Cleaner
  BY DEF PlacesOK, CancelPlace, DispatchPlace, StopPlace, CleanerPlace
<1>2. job[p] \in Task
  BY <1>0, <1>1 DEF JobsGiven
<1>3. enqueue(p)
  <2>1. ~ScanEnd(p) /\ ~releaseSlot(p) /\ ~CountSlots(p) /\ ~ListPending(p) /\ ~ScanNext(p)
    BY DEF ScanEnd, releaseSlot, CountSlots, ListPending, ScanNext
  <2>2. ~Create(p) /\ ~CancelTask(p)
    BY DEF Create, CreateRefused, CreateReserve, CreateFails, CreateSave, CreateStash,
       CreateRollback, CreateUnsave, CancelTask, CancelGet, CancelSignal, CancelMark, CancelSettle
  <2>3. ~workerLoop(p) /\ ~runTask(p)
    BY DEF workerLoop, Receive, WorkerExit, Undispatch, LoadTask, SaveSkipped, runTask, Register,
       SaveRunning, Prepare, ReportProgress, SaveProgress, DownloadMerged, DownloadCancelled,
       DownloadFails, DownloadSucceeds, Reload, SaveVerdict, Deregister
  <2>4. p = Boot => ~RecoverList /\ ~RecoverNext
    BY DEF RecoverList, RecoverNext
  <2>5. QED
    BY <1>1, <2>1, <2>2, <2>3, <2>4 DEF ProcStep
<1>4. Content(Append(workCh, job[p])) = Content(workCh) \union {job[p]}
  BY <1>0, <1>2, Contents
<1>5. QED
  BY <1>0, <1>3, <1>4 DEF enqueue, EnqueueRefused, EnqueueSend, EnqueueBlocks, SendUnblocks

\* A worker keeps the slot of its task until it gives it back.
LEMMA WorkerHolds ==
  ASSUME TypeOK, PlacesOK, NEW w \in Worker, ProcStep(w), pc[w] \in SlotPlace
  PROVE  releaseSlot(w) \/ (job'[w] = job[w] /\ pc'[w] \in SlotPlace)
<1> USE DEF Step, sharedVars, SlotPlace, RunningPlace
<1>0. DOMAIN pc = Proc /\ w \in Proc
  BY Processes DEF PlacesOK, Dispatcher
<1>1. releaseSlot(w) \/ workerLoop(w) \/ runTask(w)
  BY Processes DEF ProcStep, Dispatcher, enqueue, EnqueueRefused, EnqueueSend, EnqueueBlocks,
     SendUnblocks, ScanEnd, CountSlots, ListPending, ScanNext
<1>2. CASE workerLoop(w)
  BY <1>0, <1>2 DEF workerLoop, Receive, WorkerExit, Undispatch, LoadTask, SaveSkipped
<1>3. CASE runTask(w)
  BY <1>0, <1>3 DEF runTask, Register, SaveRunning, Prepare, ReportProgress, SaveProgress,
     DownloadMerged, DownloadCancelled, DownloadFails, DownloadSucceeds, Reload, SaveVerdict,
     Deregister
<1>4. QED
  BY <1>1, <1>2, <1>3

\* Whoever takes a task that waits away from those that wait has a slot for it.
LEMMA DispatchableHeld ==
  ASSUME TypeOK, PlacesOK, JobsGiven, ExpiryDelivered, Refusals, ~shuttingDown,
         NEW p \in Proc, ProcStep(p), NEW t \in Task, Dispatchable(t)
  PROVE  Held(t)'
<1> USE DEF Step
<1>0. DOMAIN pc = Proc /\ DOMAIN job = Proc /\ DOMAIN store = Task
  BY DEF PlacesOK, TypeOK
<1>1. ASSUME p \in Worker, job'[p] = t, pc'[p] \in SlotPlace PROVE Held(t)'
  BY <1>1 DEF Held, HasSlot
<1>2. CASE Removable(t)'
  <2>1. p \in Worker /\ DownloadSucceeds(p)
    BY <1>2, DeliveredGrows DEF Dispatchable, Removable
  <2>2. job'[p] = t /\ pc'[p] \in SlotPlace
    BY <1>0, <1>2, <2>1 DEF DownloadSucceeds, Dispatchable, Removable, SlotPlace, RunningPlace
  <2>3. QED
    BY <1>1, <2>1, <2>2
<1>3. CASE ~Removable(t)' /\ store'[t] = store[t]
  BY <1>3 DEF Dispatchable, Held
<1>4. CASE RecoverList
  <2>1. store'[t] = store[t]
    BY <1>4 DEF RecoverList, Dispatchable
  <2>2. QED
    BY <1>2, <1>3, <2>1
<1>5. ASSUME ~Removable(t)', NEW r \in AnyRecord, Saves(p, t, r),
             store' = [store EXCEPT ![t] = r]
      PROVE  Held(t)'
  <2>1. CASE p \in Task /\ CreateSave(p) /\ r = Pending
    BY <1>0, <1>5, <2>1, Records DEF Dispatchable, Held
  <2>2. CASE p \in Task /\ CreateUnsave(p)
    BY <2>2 DEF CreateUnsave, Refusals
  <2>3. CASE p \in Canceller /\ CancelMark(p) /\ job[p] = t
    BY <1>0, <2>3 DEF CancelMark, Held, HasSlot
  <2>4. CASE /\ p \in Worker /\ job[p] = t
             /\ SaveSkipped(p) \/ SaveRunning(p) \/ SaveProgress(p) \/ SaveVerdict(p)
    <3>1. job'[p] = t /\ pc'[p] \in SlotPlace
      BY <1>0, <2>4 DEF SaveSkipped, SaveRunning, SaveProgress, SaveVerdict, SlotPlace, RunningPlace
    <3>2. QED
      BY <1>1, <2>4, <3>1
  <2>5. CASE expiring[t] # Absent
    BY <2>5 DEF ExpiryDelivered, Dispatchable
  <2>6. CASE CleanupDelete /\ job[Cleaner] = t
    BY <2>6 DEF ExpiryDelivered, Dispatchable, CleanupDelete, CleanupEnds
  <2>7. QED
    BY <1>5, <2>1, <2>2, <2>3, <2>4, <2>5, <2>6 DEF Saves
<1>6. QED
  <2>1. ASSUME NEW u \in Task, NEW r \in AnyRecord, Saves(p, u, r),
               store' = [store EXCEPT ![u] = r], ~Removable(t)'
        PROVE  Held(t)'
    <3>1. CASE u = t
      BY <1>5, <2>1, <3>1
    <3>2. CASE u # t
      BY <1>0, <1>3, <2>1, <3>2
    <3>3. QED
      BY <3>1, <3>2
  <2>2. QED
    BY <1>2, <1>3, <1>4, <2>1, StoreMoves

\* A task that is held stays so, until its slot is given back or taken over by a cancellation.
LEMMA HoldMoves ==
  ASSUME TypeOK, PlacesOK, JobsGiven, RegistryPointsAtRunner, NoPhantomDispatch, ExpiryDelivered,
         Refusals, ~shuttingDown, NEW p \in Proc, ProcStep(p), NEW t \in Task, Held(t)
  PROVE  \/ Held(t)'
         \/ releaseSlot(p) /\ t = IF p \in Worker THEN job[p] ELSE p
         \/ p \in Canceller /\ pc[p] = "settle" /\ job[p] = t /\ pc'[p] = "release"
<1> USE DEF Step
<1>0. /\ DOMAIN pc = Proc /\ DOMAIN job = Proc
      /\ \A q \in Proc : q # p => pc'[q] = pc[q] /\ job'[q] = job[q]
      /\ \A q \in Task : pc[q] \in HandlerPlace => job[q] = q
  BY OthersKeep DEF PlacesOK, TypeOK, JobsGiven
<1>1. CASE t \in Content(workCh)
  <2>1. p \in Worker /\ pc'[p] = "undispatch" /\ job'[p] = t => Held(t)'
    BY DEF Held, HasSlot, SlotPlace
  <2>2. QED
    BY <1>1, <2>1, ContentKeeps DEF Held
<1>2. CASE Dispatchable(t)
  BY <1>2, DispatchableHeld
<1>3. ASSUME NEW q \in Proc, q # p, HasSlot(q, t) PROVE Held(t)'
  BY <1>0, <1>3 DEF HasSlot, Held
<1>4. CASE HasSlot(p, t) /\ p = t /\ pc[p] \in {"parse", "stash", "submit", "submitting", "release"}
  <2>1. CASE pc[p] \in {"submit", "submitting"}
    <3>1. job[p] = t
      BY <1>0, <1>4, <2>1 DEF HandlerPlace
    <3>2. QED
      BY <1>4, <2>1, <3>1, SendKeeps DEF Held, HasSlot
  <2>2. CASE pc[p] \in {"parse", "stash"}
    <3>1. Create(p)
      BY <1>4, <2>2, Processes DEF ProcStep, enqueue, EnqueueRefused, EnqueueSend, EnqueueBlocks,
         SendUnblocks, ScanEnd, releaseSlot, CountSlots, ListPending, ScanNext
    <3>2. pc'[p] \in {"stash", "submit", "release"}
      BY <1>0, <2>2, <3>1 DEF Create, CreateRefused, CreateReserve, CreateFails, CreateSave,
         CreateStash, CreateRollback, CreateUnsave
    <3>3. QED
      BY <1>4, <3>2 DEF Held, HasSlot
  <2>3. CASE pc[p] = "release"
    <3>1. releaseSlot(p)
      BY <1>4, <2>3, Processes DEF ProcStep, enqueue, EnqueueRefused, EnqueueSend, EnqueueBlocks,
         SendUnblocks, ScanEnd, CountSlots, ListPending, ScanNext, Create, CreateRefused,
         CreateReserve, CreateFails, CreateSave, CreateStash, CreateRollback, CreateUnsave
    <3>2. QED
      BY <1>4, <3>1, Processes
  <2>4. QED
    BY <1>4, <2>1, <2>2, <2>3
<1>5. CASE job[p] = t /\ p \in Worker /\ pc[p] \in SlotPlace
  BY <1>5, WorkerHolds DEF Held, HasSlot
<1>6. CASE job[p] = t /\ pc[p] = "sending"
  BY <1>6, SendKeeps DEF Held
<1>7. CASE job[p] = t /\ p \in Canceller /\ pc[p] = "settle"
  <2>1. CancelSettle(p)
    BY <1>7, Processes DEF ProcStep, enqueue, EnqueueRefused, EnqueueSend, EnqueueBlocks,
       SendUnblocks, ScanEnd, releaseSlot, CountSlots, ListPending, ScanNext, CancelTask, CancelGet,
       CancelSignal, CancelMark
  <2>2. CASE pc'[p] = "release"
    BY <1>7, <2>2
  <2>3. CASE t \in dispatched
    <3>1. CASE t \in Content(workCh)
      BY <1>1, <3>1
    <3>2. ASSUME NEW q \in Proc, Hands(q, t) PROVE HasSlot(q, t) /\ q # p
      <4>1. pc[q] = "submitting" => q \in Task
        BY Processes DEF PlacesOK, Dispatcher, WorkerPlace, CancelPlace, BootPlace, StopPlace,
           CleanerPlace, DispatchPlace, RunningPlace
      <4>2. QED
        BY <1>0, <1>7, <3>2, <4>1 DEF Hands, HasSlot, Sending, SlotPlace, HandlerPlace
    <3>3. QED
      BY <1>3, <2>3, <3>1, <3>2, PhantomByHand
  <2>4. CASE onCancel[t] # Nobody
    <3>1. onCancel[t] \in Worker /\ pc[onCancel[t]] \in SlotPlace /\ job[onCancel[t]] = t
      BY <2>4 DEF RegistryPointsAtRunner, Running, TypeOK, SlotPlace, RunningPlace
    <3>2. QED
      BY <1>3, <1>7, <3>1, Processes DEF HasSlot, Dispatcher
  <2>5. QED
    BY <1>0, <1>7, <2>1, <2>2, <2>3, <2>4 DEF CancelSettle
<1>8. QED
  <2>1. HasSlot(p, t) => Held(t)' \/ (releaseSlot(p) /\ t = IF p \in Worker THEN job[p] ELSE p)
                         \/ (p \in Canceller /\ pc[p] = "settle" /\ job[p] = t /\ pc'[p] = "release")
    BY <1>4, <1>5, <1>6, <1>7 DEF HasSlot
  <2>2. QED
    BY <1>1, <1>2, <1>3, <2>1 DEF Held

\* A cancellation that is saved is remembered.
LEMMA AskedGrows ==
  ASSUME NEW p \in Proc, ProcStep(p)
  PROVE  asked \subseteq asked' /\ (p \in Canceller /\ CancelMark(p) => job[p] \in asked')
<1> USE DEF Step, loopVars, historyVars
<1>1. CASE enqueue(p) \/ ScanEnd(p) \/ releaseSlot(p) \/ CountSlots(p) \/ ListPending(p) \/ ScanNext(p)
  BY <1>1 DEF enqueue, EnqueueRefused, EnqueueSend, EnqueueBlocks, SendUnblocks, ScanEnd,
              releaseSlot, CountSlots, ListPending, ScanNext, CancelMark
<1>2. CASE Create(p)
  BY <1>2 DEF Create, CreateRefused, CreateReserve, CreateFails, CreateSave, CreateStash,
              CreateRollback, CreateUnsave, CancelMark
<1>3. CASE CancelTask(p)
  BY <1>3 DEF CancelTask, CancelGet, CancelSignal, CancelMark, CancelSettle
<1>4. CASE p \in Worker /\ (workerLoop(p) \/ runTask(p))
  BY <1>4, Processes DEF workerLoop, Receive, WorkerExit, Undispatch, LoadTask, SaveSkipped, runTask,
              Register, SaveRunning, Prepare, ReportProgress, SaveProgress, DownloadMerged,
              DownloadCancelled, DownloadFails, DownloadSucceeds, Reload, SaveVerdict, Deregister
<1>5. CASE p = Cleaner /\ CleanupExpired
  BY <1>5, Processes DEF CleanupExpired, CleanupList, ListExpired, CleanupSave, CleanupDelete,
              CleanupFails, CleanupEnds
<1>6. CASE p \in {Boot, Stop} /\ (RecoverList \/ RecoverNext \/ Signal \/ ShutdownMark \/ ShutdownClose)
  BY <1>6, Processes DEF RecoverList, RecoverNext, Signal, ShutdownMark, ShutdownClose
<1>7. QED
  BY <1>1, <1>2, <1>3, <1>4, <1>5, <1>6 DEF ProcStep

\* The flag comes from a cancellation, and otherwise from where it was already.
LEMMA StepUncancelled ==
  ASSUME TypeOK, PlacesOK, JobsGiven, CopyHeld, ExpiryDelivered, NobodyCancelled,
         NEW p \in Proc, ProcStep(p)
  PROVE  NobodyCancelled'
<1>1. SUFFICES ASSUME CleanBacklog, asked' = {}, \A t \in Task : ~Removable(t)'
               PROVE  /\ \A t \in Task : ~store'[t].cancelled
                      /\ \A q \in Proc : ~rec'[q].cancelled
  BY DEF NobodyCancelled
<1>2. /\ asked = {} /\ ~(p \in Canceller /\ CancelMark(p))
      /\ \A t \in Task : ~Removable(t)
  BY <1>1, AskedGrows, DeliveredGrows DEF Removable
<1>3. /\ \A t \in Task : ~store[t].cancelled
      /\ \A q \in Proc : ~rec[q].cancelled
      /\ DOMAIN store = Task
  BY <1>1, <1>2 DEF NobodyCancelled, TypeOK
<1>4. ASSUME NEW t \in Task PROVE ~store'[t].cancelled
  <2>1. CASE store' = store
    BY <1>3, <2>1
  <2>2. CASE RecoverList
    <3>1. store'[t] = IF store[t].status = "running" THEN [store[t] EXCEPT !.status = "pending"]
                                                     ELSE store[t]
      BY <2>2 DEF RecoverList
    <3>2. store[t] \in AnyRecord
      BY Records DEF TypeOK
    <3>3. [store[t] EXCEPT !.status = "pending"].cancelled = store[t].cancelled
      BY <3>2 DEF AnyRecord
    <3>4. QED
      BY <1>3, <3>1, <3>3
  <2>3. ASSUME NEW u \in Task, NEW r \in AnyRecord, Saves(p, u, r), store' = [store EXCEPT ![u] = r]
        PROVE  ~store'[t].cancelled
    <3>1. expiring[u] = Absent
      BY <1>2 DEF ExpiryDelivered
    <3>2. ~r.cancelled
      BY <1>2, <1>3, <2>3, <3>1, Records DEF Saves
    <3>3. QED
      BY <1>3, <2>3, <3>2
  <2>4. QED
    BY <2>1, <2>2, <2>3, StoreMoves
<1>5. ~rec'[p].cancelled
  <2>1. job[p] \in Task => store[job[p]] # Absent
    BY <1>2, Processes DEF ExpiryDelivered, Known
  <2>2. QED
    BY <1>3, <2>1, CopyMoves, Records
<1>6. QED
  BY <1>3, <1>4, <1>5, OthersKeep

\* Those who hold slots can be counted.
LEMMA HoldersFinite ==
  ASSUME NEW S, S \subseteq Task \union Canceller
  PROVE  IsFiniteSet(S) /\ Cardinality(S) \in Nat
BY FS_Union, FS_Subset, FS_CardinalityType, TaskManagerAssumption

\* One who leaves takes one slot along, and may be replaced by one who was not there.
LEMMA OneLeaves ==
  ASSUME NEW S, NEW T, S \subseteq Task \union Canceller, T \subseteq Task \union Canceller,
         NEW x, S \ {x} \subseteq T
  PROVE  /\ Cardinality(T) >= Cardinality(S) - 1
         /\ \A y \in T \ S : Cardinality(T) >= Cardinality(S)
         /\ S \subseteq T => Cardinality(T) >= Cardinality(S)
<1>1. /\ IsFiniteSet(S) /\ IsFiniteSet(T) /\ IsFiniteSet(S \ {x})
      /\ Cardinality(S) \in Nat /\ Cardinality(T) \in Nat /\ Cardinality(S \ {x}) \in Nat
  BY HoldersFinite, FS_RemoveElement, FS_CardinalityType
<1>2. Cardinality(S \ {x}) <= Cardinality(T) /\ Cardinality(S \ {x}) >= Cardinality(S) - 1
  BY <1>1, FS_Subset, FS_RemoveElement
<1>3. ASSUME NEW y \in T \ S PROVE Cardinality(T) >= Cardinality(S)
  <2>1. (S \ {x}) \union {y} \subseteq T /\ y \notin S \ {x}
    BY <1>3
  <2>2. Cardinality((S \ {x}) \union {y}) = Cardinality(S \ {x}) + 1
    BY <1>1, <2>1, FS_AddElement
  <2>3. Cardinality((S \ {x}) \union {y}) <= Cardinality(T)
    BY <1>1, <2>1, FS_Subset
  <2>4. QED
    BY <1>1, <1>2, <2>2, <2>3
<1>4. S \subseteq T => Cardinality(T) >= Cardinality(S)
  BY <1>1, FS_Subset
<1>5. QED
  BY <1>1, <1>2, <1>3, <1>4

\* What the count of the slots rests on.
Accounts == /\ TypeInv /\ RegistryPointsAtRunner /\ Mutex /\ NoPhantomDispatch /\ Removal
            /\ Unborn /\ Refusals /\ FirstStart /\ NobodyCancelled

\* A process only shuts down or ends for good.
LEMMA StaysUp ==
  ASSUME Accounts, NEW p \in Proc, ProcStep(p), ~shuttingDown', pc'[Stop] # "exited"
  PROVE  ~shuttingDown /\ pc[Stop] # "exited"
<1>1. TypeOK /\ PlacesOK /\ Mutex /\ Refusals
  BY DEF Accounts, TypeInv
<1>2. ~shuttingDown
  BY <1>1, StepRefusals
<1>3. pc'[Stop] = pc[Stop] \/ p = Stop
  BY <1>1, OthersKeep, Processes
<1>4. p = Stop => pc[Stop] # "exited"
  BY Processes DEF ProcStep, Dispatcher, Signal, ShutdownMark, ShutdownClose, Step
<1>5. QED
  BY <1>2, <1>3, <1>4

\* Each step keeps a holder for every slot that is taken.
LEMMA StepHolders ==
  ASSUME Accounts, SlotsHeld, NEW p \in Proc, ProcStep(p)
  PROVE  SlotsHeld'
<1> USE DEF Step
<1>0. /\ TypeOK /\ PlacesOK /\ JobsGiven /\ RegistryPointsAtRunner /\ Mutex /\ NoPhantomDispatch
      /\ ExpiryDelivered /\ Unborn /\ Refusals /\ FirstStart /\ NobodyCancelled
      /\ DOMAIN pc = Proc
      /\ \A q \in Proc : q # p => pc'[q] = pc[q]
  BY OthersKeep DEF Accounts, TypeInv, Removal, PlacesOK
<1>1. SUFFICES ASSUME Accountable', ~shuttingDown', pc'[Stop] # "exited"
               PROVE  activeSlots' <= Cardinality(Holders')
  BY DEF SlotsHeld
<1>2. Accountable /\ ~shuttingDown /\ pc[Stop] # "exited"
  BY <1>0, <1>1, SlotMoves, AskedGrows, StaysUp DEF Accountable
<1>3. activeSlots <= Cardinality(Holders)
  BY <1>2 DEF SlotsHeld
<1>4. /\ Holders \subseteq Task \union Canceller /\ Holders' \subseteq Task \union Canceller
      /\ activeSlots \in Nat
  BY <1>0 DEF Holders, TypeOK
<1>5. Cardinality(Holders) \in Nat /\ Cardinality(Holders') \in Nat
  BY <1>4, HoldersFinite
<1>6. \A t \in Task : Held(t) =>
        \/ Held(t)'
        \/ releaseSlot(p) /\ t = IF p \in Worker THEN job[p] ELSE p
        \/ p \in Canceller /\ pc[p] = "settle" /\ job[p] = t /\ pc'[p] = "release"
  BY <1>0, <1>2, HoldMoves
<1>7. \A c \in Canceller : pc[c] = "release" /\ c # p => pc'[c] = "release"
  BY <1>0, Processes DEF Dispatcher
<1>8. ASSUME p \in Canceller, pc[p] = "release" PROVE releaseSlot(p)
  BY <1>8, Processes DEF ProcStep, enqueue, EnqueueRefused, EnqueueSend, EnqueueBlocks,
     SendUnblocks, ScanEnd, CountSlots, ListPending, ScanNext, CancelTask, CancelGet, CancelSignal,
     CancelMark, CancelSettle
<1>9. CASE releaseSlot(p)
  <2> DEFINE x == IF p \in Worker THEN job[p] ELSE p
  <2>1. pc[p] = "release" /\ activeSlots' = IF activeSlots > 0 THEN activeSlots - 1 ELSE 0
    BY <1>9 DEF releaseSlot
  <2>2. Holders \ {x} \subseteq Holders'
    BY <1>6, <1>7, <2>1, Processes DEF Holders
  <2>3. Cardinality(Holders') >= Cardinality(Holders) - 1
    BY <1>4, <2>2, OneLeaves
  <2>4. QED
    BY <1>3, <1>4, <1>5, <2>1, <2>3
<1>10. CASE p \in Task /\ CreateReserve(p)
  <2>1. pc[p] = "new" /\ pc'[p] = "parse" /\ activeSlots' = activeSlots + 1
    BY <1>0, <1>10 DEF CreateReserve
  <2>2. p \notin Holders
    BY <1>0, <1>10, <2>1, Records, Processes DEF Unborn, Holders, Held, HasSlot, Dispatchable
  <2>3. p \in Holders'
    BY <1>10, <2>1 DEF Holders, Held, HasSlot
  <2>4. Holders \subseteq Holders'
    BY <1>6, <1>7, <1>10, <2>1, Processes DEF Holders, releaseSlot
  <2>5. Cardinality(Holders') >= Cardinality(Holders) + 1
    <3>1. IsFiniteSet(Holders) /\ IsFiniteSet(Holders')
      BY <1>4, HoldersFinite
    <3>2. Cardinality(Holders \union {p}) = Cardinality(Holders) + 1
      BY <2>2, <3>1, FS_AddElement
    <3>3. Cardinality(Holders \union {p}) <= Cardinality(Holders')
      BY <2>3, <2>4, <3>1, FS_Subset
    <3>4. QED
      BY <1>5, <3>2, <3>3
  <2>6. QED
    BY <1>3, <1>4, <1>5, <2>1, <2>5
<1>11. CASE p = Boot /\ RecoverList
  <2> DEFINE pending == {t \in Task : store[t].status \in {"pending", "running"}}
  <2>1. activeSlots' = Cardinality(pending) /\ pc[Boot] = "recover" /\ delivered' = delivered
    BY <1>11 DEF RecoverList, historyVars
  <2>2. \A t \in Task : ~Removable(t) /\ ~store[t].cancelled
    BY <1>0, <1>2, <2>1 DEF Accountable, FirstStart, Removable, NobodyCancelled
  <2>3. ASSUME NEW t \in pending PROVE t \in Holders'
    <3>1. store'[t] = IF store[t].status = "running" THEN [store[t] EXCEPT !.status = "pending"]
                                                     ELSE store[t]
      BY <1>11 DEF RecoverList
    <3>2. store[t] \in AnyRecord
      BY <1>0, Records DEF TypeOK
    <3>3. store'[t].status = "pending" /\ store'[t].cancelled = store[t].cancelled
      BY <3>1, <3>2 DEF AnyRecord
    <3>4. QED
      BY <2>1, <2>2, <3>3 DEF Holders, Held, Dispatchable, Removable
  <2>4. QED
    <3>1. IsFiniteSet(Holders') /\ pending \subseteq Holders'
      BY <1>4, <2>3, HoldersFinite
    <3>2. QED
      BY <2>1, <3>1, FS_Subset
<1>12. ASSUME activeSlots' <= activeSlots, ~releaseSlot(p)
       PROVE  activeSlots' <= Cardinality(Holders')
  <2>1. activeSlots' \in Int /\ Cardinality(Holders') >= Cardinality(Holders) => activeSlots' <= Cardinality(Holders')
    BY <1>3, <1>4, <1>5, <1>12
  <2>2. activeSlots' \in Int
    BY <1>0, StepTypes DEF TypeOK, Accounts, TypeInv
  <2>3. CASE p \in Canceller /\ pc[p] = "settle" /\ pc'[p] = "release"
    <3>1. Holders \ {job[p]} \subseteq Holders' /\ p \in Holders' \ Holders
      BY <1>6, <1>7, <1>8, <1>12, <2>3, Processes DEF Holders
    <3>2. Cardinality(Holders') >= Cardinality(Holders)
      BY <1>4, <3>1, OneLeaves
    <3>3. QED
      BY <2>1, <2>2, <3>2
  <2>4. CASE ~(p \in Canceller /\ pc[p] = "settle" /\ pc'[p] = "release")
    <3>1. Holders \subseteq Holders'
      BY <1>6, <1>7, <1>8, <1>12, <2>4 DEF Holders
    <3>2. Cardinality(Holders') >= Cardinality(Holders)
      BY <1>4, <3>1, OneLeaves
    <3>3. QED
      BY <2>1, <2>2, <3>2
  <2>5. QED
    BY <2>3, <2>4
<1>13. QED
  BY <1>0, <1>9, <1>10, <1>11, <1>12, SlotMoves

\* Only Create keeps a playlist, and the worker that has the task takes it out before it
\* has gone far, or skips the task and takes it out.
LEMMA ParsedMoves ==
  ASSUME TypeOK, PlacesOK, NEW p \in Proc, ProcStep(p)
  PROVE  /\ parsed' \subseteq parsed \/ (p \in Task /\ CreateStash(p))
         /\ p \in Worker /\ pc[p] \in {"undispatch", "load", "register", "save_running", "prepare"} =>
              \/ job[p] \notin parsed'
              \/ /\ job'[p] = job[p]
                 /\ pc'[p] \in {"undispatch", "load", "register", "save_running", "prepare"}
<1> USE DEF Step, sharedVars
<1>0. DOMAIN pc = Proc /\ (p = Cleaner => pc[p] \in CleanerPlace)
  BY DEF PlacesOK
<1>1. CASE enqueue(p) \/ ScanEnd(p) \/ releaseSlot(p) \/ CountSlots(p) \/ ListPending(p) \/ ScanNext(p)
  BY <1>1 DEF enqueue, EnqueueRefused, EnqueueSend, EnqueueBlocks, SendUnblocks, ScanEnd,
     releaseSlot, CountSlots, ListPending, ScanNext
<1>2. CASE p \in Task /\ Create(p)
  BY <1>2, Processes DEF Create, CreateRefused, CreateReserve, CreateFails, CreateSave, CreateStash,
     CreateRollback, CreateUnsave
<1>3. CASE p \in Canceller /\ CancelTask(p)
  BY <1>3, Processes DEF CancelTask, CancelGet, CancelSignal, CancelMark, CancelSettle
<1>4. CASE p \in Worker /\ workerLoop(p)
  BY <1>0, <1>4 DEF workerLoop, Receive, WorkerExit, Undispatch, LoadTask, SaveSkipped
<1>5. CASE p \in Worker /\ runTask(p)
  BY <1>0, <1>5 DEF runTask, Register, SaveRunning, Prepare, ReportProgress, SaveProgress,
     DownloadMerged, DownloadCancelled, DownloadFails, DownloadSucceeds, Reload, SaveVerdict,
     Deregister
<1>6. CASE p = Cleaner /\ CleanupExpired
  BY <1>6, Processes DEF CleanupExpired, CleanupList, ListExpired, CleanupSave, CleanupDelete,
     CleanupFails, CleanupEnds
<1>7. CASE p = Boot /\ (RecoverList \/ RecoverNext)
  BY <1>7, Processes DEF RecoverList, RecoverNext
<1>8. CASE p = Stop /\ (Signal \/ ShutdownMark \/ ShutdownClose)
  BY <1>8, Processes DEF Signal, ShutdownMark, ShutdownClose
<1>9. QED
  BY <1>1, <1>2, <1>3, <1>4, <1>5, <1>6, <1>7, <1>8 DEF ProcStep

\* Each step keeps a parsed playlist only for a task on its way to a worker.
LEMMA StepParsed ==
  ASSUME Accounts, ParsedInPipeline, NEW p \in Proc, ProcStep(p)
  PROVE  ParsedInPipeline'
<1> USE DEF Step
<1> DEFINE Reading == {"undispatch", "load", "register", "save_running", "prepare"}
           Underway(t) == \/ pc[t] \in {"submit", "submitting"}
                          \/ t \in Content(workCh)
                          \/ \E w \in Worker : pc[w] \in Reading /\ job[w] = t
<1>0. /\ TypeOK /\ PlacesOK /\ JobsGiven
      /\ DOMAIN pc = Proc /\ \A t \in Task : t \in Proc
      /\ \A w \in Worker : w \in Proc
      /\ \A q \in Proc : q # p => pc'[q] = pc[q] /\ job'[q] = job[q]
  BY OthersKeep, Processes DEF Accounts, TypeInv, PlacesOK, Dispatcher
<1>1. SUFFICES ASSUME ~shuttingDown', pc'[Stop] # "exited", NEW t \in parsed' PROVE Underway(t)'
  BY DEF ParsedInPipeline, Content
<1>2. ~shuttingDown /\ pc[Stop] # "exited"
  BY <1>1, StaysUp
<1>3. CASE p \in Task /\ CreateStash(p) /\ t \notin parsed
  <2>1. t = p /\ pc'[p] = "submit"
    BY <1>0, <1>1, <1>3 DEF CreateStash
  <2>2. QED
    BY <2>1
<1>4. CASE t \in parsed
  <2>1. t \in Task /\ Underway(t)
    BY <1>0, <1>2, <1>4 DEF ParsedInPipeline, Content, TypeOK
  <2>2. CASE pc[t] \in {"submit", "submitting"}
    <3>1. CASE t = p
      <4>1. job[p] = t
        BY <1>0, <2>1, <2>2, <3>1 DEF JobsGiven, HandlerPlace
      <4>2. QED
        BY <1>0, <1>2, <2>2, <3>1, <4>1, SendKeeps
    <3>2. QED
      BY <1>0, <2>1, <2>2, <3>1
  <2>3. CASE t \in Content(workCh)
    BY <1>0, <2>3, ContentKeeps
  <2>4. ASSUME NEW w \in Worker, pc[w] \in Reading, job[w] = t PROVE Underway(t)'
    <3>1. CASE w = p
      BY <1>0, <1>1, <2>4, <3>1, ParsedMoves
    <3>2. CASE w # p
      BY <1>0, <2>4, <3>2
    <3>3. QED
      BY <3>1, <3>2
  <2>5. QED
    BY <2>1, <2>2, <2>3, <2>4
<1>5. QED
  BY <1>0, <1>1, <1>3, <1>4, ParsedMoves

\* The next process begins with no slot taken and no playlist.
LEMMA EndsBalance ==
  ASSUME Accounts, Ends
  PROVE  /\ Unborn' /\ Refusals' /\ FirstStart' /\ NobodyCancelled'
         /\ ParsedInPipeline' /\ SlotsHeld'
<1>1. /\ Forget /\ store' = store /\ delivered' = delivered /\ asked' = asked
      /\ \A t \in Task : pc'[t] \in {"new", "done"}
      /\ \A p \in Proc : pc'[p] \in {"recv", "new", "done", "idle", "recover", "exited"}
      /\ \A w \in Worker : pc'[w] = "recv"
      /\ \A c \in Canceller : pc'[c] \in {"idle", "done"}
      /\ pc'[Cleaner] = "idle"
      /\ \/ pc'[Boot] = "recover" /\ pc'[Stop] = "idle"
         \/ pc'[Boot] = "done" /\ pc'[Stop] = "exited"
  BY EndsLeave, Processes DEF Dispatcher
<1>2. \A t \in Task : pc'[t] = "new" => pc[t] = "new"
  <2>1. \A t \in Task : AfterEnd[t] = "new" => pc[t] = "new"
    BY Processes DEF AfterEnd, Dispatcher
  <2>2. \A t \in Task : pc'[t] = AfterEnd[t]
    <3>1. \A t \in Task : t \in Proc /\ t # Stop /\ t # Boot
      BY Processes DEF Dispatcher
    <3>2. QED
      BY <3>1 DEF Ends, ShutdownReturn, Crash, AfterEnd
  <2>3. QED
    BY <2>1, <2>2
<1>3. /\ \A t \in Task : expiring'[t] = Absent
      /\ \A p \in Proc : job'[p] = Nobody /\ todo'[p] = {} /\ rec'[p] = Absent
      /\ workCh' = <<>> /\ parsed' = {} /\ ~shuttingDown' /\ activeSlots' = 0
  BY <1>1 DEF Forget
<1>4. Content(workCh') = {}
  BY <1>3 DEF Content
<1>5. Unborn'
  BY <1>1, <1>2, <1>3, <1>4, Processes DEF Unborn, Accounts, Dispatcher
<1>6. Refusals' /\ ParsedInPipeline'
  BY <1>1, <1>3 DEF Refusals, ParsedInPipeline
<1>7. ~(pc'[Boot] = "recover" /\ crashes' = 0)
  <2>1. CASE ShutdownReturn
    <3>1. pc' = [AfterEnd EXCEPT ![Stop] = "exited", ![Boot] = "done"]
      BY <2>1 DEF ShutdownReturn
    <3>2. Boot \in DOMAIN AfterEnd
      BY DEF AfterEnd, Proc
    <3>3. QED
      BY <3>1, <3>2
  <2>2. CASE Crash
    BY <2>2 DEF Crash, Accounts, TypeInv, TypeOK
  <2>3. QED
    BY <2>1, <2>2 DEF Ends
<1>8. FirstStart'
  BY <1>1, <1>3, <1>7 DEF FirstStart, Expiring
<1>9. SlotsHeld'
  <2>1. Holders' \subseteq Task \union Canceller
    BY DEF Holders
  <2>2. Cardinality(Holders') \in Nat
    BY <2>1, HoldersFinite
  <2>3. QED
    BY <1>3, <2>2 DEF SlotsHeld
<1>10. NobodyCancelled'
  BY <1>1, <1>3, Records DEF Accounts, NobodyCancelled, Removable
<1>11. QED
  BY <1>5, <1>6, <1>8, <1>9, <1>10

Balance == Unborn /\ Refusals /\ FirstStart /\ NobodyCancelled /\ ParsedInPipeline /\ SlotsHeld

\* Slots, playlists and those who will give them back are in balance.
THEOREM BalanceInvariant == Spec => [](Accounts /\ Balance)
<1> DEFINE Base == TypeInv /\ RegistryPointsAtRunner /\ Mutex /\ NoPhantomDispatch /\ Removal
<1>1. ASSUME Base, Balance, [Next]_vars PROVE Balance'
  <2>0. Accounts /\ TypeOK /\ PlacesOK /\ JobsGiven /\ Mutex /\ CopyHeld /\ ExpiryDelivered
    BY <1>1 DEF Balance, Accounts, TypeInv, Removal
  <2>1. ASSUME NEW p \in Proc, ProcStep(p) PROVE Balance'
    <3>1. Unborn' /\ Refusals' /\ NobodyCancelled'
      BY <1>1, <2>0, <2>1, StepUnborn, StepRefusals, StepUncancelled DEF Balance
    <3>2. FirstStart'
      BY <1>1, <2>0, <2>1, BeginsWithRecover DEF Balance, FirstStart
    <3>3. ParsedInPipeline' /\ SlotsHeld'
      BY <1>1, <2>0, <2>1, StepParsed, StepHolders DEF Balance
    <3>4. QED
      BY <3>1, <3>2, <3>3 DEF Balance
  <2>2. CASE Ends
    BY <2>0, <2>2, EndsBalance DEF Balance
  <2>3. CASE UNCHANGED vars
    BY <1>1, <2>3, Stutters DEF Balance, Unborn, Refusals, FirstStart, NobodyCancelled,
       ParsedInPipeline, SlotsHeld, Accountable, Holders, Held, HasSlot, Dispatchable, Removable,
       Content, Expiring
  <2>4. QED
    BY <1>1, <2>1, <2>2, <2>3, NextCases
<1>2. Init => Balance
  <2>1. SUFFICES ASSUME Init PROVE Balance
    OBVIOUS
  <2>2. /\ workCh = <<>> /\ parsed = {} /\ activeSlots = 0 /\ delivered = {} /\ asked = {}
        /\ pc = RestingPC
        /\ \A t \in Task : expiring[t] = Absent
        /\ \A p \in Proc : job[p] = Nobody /\ rec[p] = Absent /\ todo[p] = {}
    BY <2>1 DEF Init
  <2>3. PICK left \in [Backlog -> LeftRecords] :
          store = [t \in Task |-> IF t \in Backlog THEN left[t] ELSE Absent]
    BY <2>1 DEF Init
  <2>4. Content(workCh) = {}
    BY <2>2 DEF Content
  <2>5. Unborn
    <3>1. \A t \in Task : RestingPC[t] \in {"new", "parse"} => t \notin Backlog
      BY Processes DEF RestingPC, Dispatcher
    <3>2. QED
      BY <2>2, <2>3, <2>4, <3>1, Processes DEF Unborn, Dispatcher
  <2>6. Refusals /\ FirstStart
    BY <2>2, Resting DEF Refusals, FirstStart, Expiring
  <2>7. NobodyCancelled
    BY <2>2, <2>3, Records DEF NobodyCancelled, CleanBacklog
  <2>8. ParsedInPipeline
    BY <2>2 DEF ParsedInPipeline
  <2>9. SlotsHeld
    <3>1. Cardinality(Holders) \in Nat
      BY HoldersFinite DEF Holders
    <3>2. QED
      BY <2>2, <3>1 DEF SlotsHeld
  <2>10. QED
    BY <2>5, <2>6, <2>7, <2>8, <2>9 DEF Balance
<1>3. Base /\ Balance => Accounts /\ Balance
  BY DEF Accounts, Balance
<1>4. Spec => []Base
  BY TypeInvariant, RegistryCorrect, MutexInvariant, NoPhantomDispatchCorrect, RemovalInvariant, PTL
<1> HIDE DEF Base
<1>5. QED
  BY <1>1, <1>2, <1>3, <1>4, PTL DEF Spec

\* At rest the manager keeps no playlist, whatever was refused, cancelled or skipped.
THEOREM PlaylistsReturned == Spec => [](Quiet => parsed = {})
<1>1. Accounts /\ Balance /\ Quiet => parsed = {}
  <2>1. SUFFICES ASSUME Accounts, Balance, Quiet, NEW t \in parsed PROVE FALSE
    OBVIOUS
  <2>2. ~shuttingDown /\ pc[Stop] # "exited"
    BY <2>1 DEF Accounts, Mutex, Quiet
  <2>3. t \in Task
    BY <2>1 DEF Accounts, TypeInv, TypeOK
  <2>4. QED
    BY <2>1, <2>2, <2>3 DEF Balance, ParsedInPipeline, Quiet
<1>2. QED
  BY <1>1, BalanceInvariant, PTL

\* Of what Create reserves and Recover counts nothing is kept: at rest no parsed playlist is
\* left and every slot is free again, in the first process whatever its handlers do, and
\* after any number of restarts if no task was cancelled and none expires.
THEOREM AllReturnedCorrect == Spec => []AllReturned
<1>1. Accounts /\ Balance /\ NoTaskStranded /\ Accountable /\ Quiet => activeSlots = 0
  <2>1. SUFFICES ASSUME Accounts, Balance, NoTaskStranded, Accountable, Quiet PROVE activeSlots = 0
    OBVIOUS
  <2>2. ~shuttingDown /\ pc[Stop] # "exited" /\ activeSlots \in Nat
    BY <2>1 DEF Accounts, Mutex, Quiet, TypeInv, TypeOK
  <2>3. ASSUME NEW t \in Task PROVE ~Held(t)
    <3>1. t \notin Content(workCh)
      BY <2>1 DEF Quiet, Content
    <3>2. ~Dispatchable(t)
      BY <2>1 DEF NoTaskStranded, Dispatchable
    <3>3. \A p \in Proc : pc[p] \in {"recv", "new", "idle", "done"}
      BY <2>1, Processes DEF Quiet, Dispatcher
    <3>4. \A p \in Proc : ~HasSlot(p, t)
      BY <3>3 DEF HasSlot, SlotPlace, RunningPlace
    <3>5. QED
      BY <3>1, <3>2, <3>4 DEF Held
  <2>4. Holders = {}
    BY <2>1, <2>3 DEF Holders, Quiet
  <2>5. QED
    BY <2>1, <2>2, <2>4, FS_EmptySet DEF Balance, SlotsHeld
<1>2. Accounts /\ Balance /\ NoTaskStranded /\ (Quiet => parsed = {}) => AllReturned
  BY <1>1 DEF AllReturned
<1>3. QED
  BY <1>2, BalanceInvariant, PlaylistsReturned, NoTaskStrandedCorrect, PTL
=============================================================================
