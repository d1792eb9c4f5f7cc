------------------------------ MODULE TaskManager ------------------------------
(***************************************************************************)
(* The task manager of the API server (api/task/manager.go, worker.go,     *)
(* store.go, register.go): the workers, the HTTP handlers that create and  *)
(* cancel tasks, the recovery at start-up, the removal of old tasks, the   *)
(* shutdown and the crash of the process.                                  *)
(*                                                                         *)
(* A step is what one goroutine does between two points where another one  *)
(* may see or change the shared state: one call of the store, one critical *)
(* section of m.mu, one channel operation.  m.mu is held across steps only *)
(* by an enqueue whose send on workCh blocks.  Saves and loads of existing *)
(* records succeed.  Time is left out: an expiry date may pass at once.    *)
(***************************************************************************)
EXTENDS Integers, Sequences, FiniteSets

CONSTANTS Task,         \* task ids
          Worker,       \* the goroutines of StartWorkers(MaxTasks)
          Canceller,    \* handlers that cancel a task, one call each
          Boot, Stop,   \* the goroutines that run Recover and Shutdown
          Cleaner,      \* the goroutine of StartCleanup
          Nobody,       \* no process, no worker
          Backlog,      \* the tasks an earlier process left on disk
          LeftRecords,  \* the records they may have been left with
          MayShutdown,  \* the process may receive a signal
          MayExpire,    \* the time to live is short enough to pass
          MaxCrashes    \* how often it may be killed and started again

Proc == Worker \union Task \union Canceller \union {Boot, Stop, Cleaner}

\* An earlier process has left what Recover looks for, the tasks that are not ended.
ASSUME TaskManagerAssumption ==
  /\ IsFiniteSet(Worker) /\ Worker # {}
  /\ IsFiniteSet(Task) /\ IsFiniteSet(Canceller)
  /\ Worker \intersect Task = {} /\ Canceller \intersect (Worker \union Task) = {}
  /\ {Boot, Stop, Cleaner, Nobody} \intersect (Worker \union Task \union Canceller) = {}
  /\ Boot \notin {Stop, Cleaner, Nobody} /\ Stop \notin {Cleaner, Nobody} /\ Cleaner # Nobody
  /\ Backlog \subseteq Task
  /\ LeftRecords \subseteq [status : {"pending", "running"}, cancelled : BOOLEAN, expires : {FALSE}]
  /\ MayShutdown \in BOOLEAN /\ MayExpire \in BOOLEAN
  /\ MaxCrashes \in Nat

MaxTasks == Cardinality(Worker)

\* Of a record: its status, its cancelled flag, and whether ExpiresAt is set.
Statuses == {"pending", "running", "completed", "failed", "cancelled", "expired"}
Record   == [status : Statuses, cancelled : BOOLEAN, expires : BOOLEAN]
Pending  == [status |-> "pending", cancelled |-> FALSE, expires |-> FALSE]
Absent   == [Pending EXCEPT !.status = "absent"]
Terminal == {"completed", "failed", "cancelled"}

VARIABLES
  store,        \* task.json of each task, or Absent
  parsed,       \* the keys of m.parsed
  dispatched,   \* the keys of m.dispatched
  workCh,       \* m.workCh, whose capacity is MaxTasks
  closed,       \* close(m.workCh) has been called
  mu,           \* the process that holds m.mu while it waits to send
  activeSlots, running, shuttingDown,   \* the fields of Manager
  onCancel,     \* m.onCancel: the worker whose context the entry cancels
  ctx,          \* the context of the worker's task is cancelled
  pc, job, rec, \* of each process: its place, its task, its copy of a record
  todo, slots,  \* the list dispatchPending or Recover works through
  expiring,     \* the records CleanupExpired works through, as it listed them
  crashes,      \* how often the process was killed
  delivered,    \* history: the tasks of which a download ended without error
  asked         \* history: the tasks whose cancellation was accepted

chanVars   == <<dispatched, workCh, closed>>
slotVars   == <<activeSlots, running, shuttingDown>>
ctxVars    == <<onCancel, ctx>>
loopVars   == <<todo, slots, expiring>>
historyVars == <<crashes, delivered, asked>>
sharedVars == <<store, parsed, chanVars, mu, slotVars, ctxVars>>
vars == <<sharedVars, pc, job, rec, loopVars, historyVars>>

Capacity == MaxTasks
Unlocked == mu = Nobody

Step(p, from, to) == pc[p] = from /\ pc' = [pc EXCEPT ![p] = to]
Save(t, r)        == store' = [store EXCEPT ![t] = r]

\* The server listens once NewServer has returned and until it shuts down.
Listening == pc[Boot] = "done" /\ pc[Stop] = "idle"

RestingPC ==
  [p \in Proc |-> CASE p \in Worker -> "recv"
                    [] p \in Task -> IF p \in Backlog THEN "done" ELSE "new"
                    [] p \in Canceller -> "idle"
                    [] p = Boot -> "recover"
                    [] p \in {Stop, Cleaner} -> "idle"]

Init ==
  /\ \E left \in [Backlog -> LeftRecords] :
       store = [t \in Task |-> IF t \in Backlog THEN left[t] ELSE Absent]
  /\ parsed = {}
  /\ dispatched = {} /\ workCh = <<>> /\ closed = FALSE
  /\ mu = Nobody
  /\ activeSlots = 0 /\ running = 0 /\ shuttingDown = FALSE
  /\ onCancel = [t \in Task |-> Nobody]
  /\ ctx = [w \in Worker |-> FALSE]
  /\ pc = RestingPC
  /\ job = [p \in Proc |-> Nobody]
  /\ rec = [p \in Proc |-> Absent]
  /\ todo = [p \in Proc |-> {}]
  /\ slots = [p \in Proc |-> 0]
  /\ expiring = [t \in Task |-> Absent]
  /\ crashes = 0 /\ delivered = {} /\ asked = {}

-----------------------------------------------------------------------------
(* enqueue: the send happens under m.mu.  A process enters it with its task *)
(* in job[p] at "enqueue" (dispatchPending, Recover) or "submit" (Create).  *)

AfterEnqueue(p) == CASE pc[p] \in {"submit", "submitting"} -> "done"
                     [] OTHER -> "scan"

Refused(p) == IF pc[p] = "submit" THEN "rollback" ELSE "scan"

EnqueueRefused(p) ==
  /\ pc[p] \in {"enqueue", "submit"} /\ Unlocked
  /\ shuttingDown
  /\ pc' = [pc EXCEPT ![p] = Refused(p)]
  /\ UNCHANGED <<sharedVars, job, rec, loopVars, historyVars>>

\* The channel has room: mark and send in one critical section.
EnqueueSend(p) ==
  /\ pc[p] \in {"enqueue", "submit"} /\ Unlocked
  /\ ~shuttingDown
  /\ Len(workCh) < Capacity
  /\ dispatched' = dispatched \union {job[p]}
  /\ workCh' = Append(workCh, job[p])
  /\ pc' = [pc EXCEPT ![p] = AfterEnqueue(p)]
  /\ UNCHANGED <<store, parsed, closed, mu, slotVars, ctxVars, job, rec,
                 loopVars, historyVars>>

\* The channel is full: the process keeps m.mu until a worker receives.
EnqueueBlocks(p) ==
  /\ pc[p] \in {"enqueue", "submit"} /\ Unlocked
  /\ ~shuttingDown
  /\ Len(workCh) = Capacity
  /\ dispatched' = dispatched \union {job[p]}
  /\ mu' = p
  /\ pc' = [pc EXCEPT ![p] = IF pc[p] = "submit" THEN "submitting" ELSE "sending"]
  /\ UNCHANGED <<store, parsed, workCh, closed, slotVars, ctxVars, job, rec,
                 loopVars, historyVars>>

SendUnblocks(p) ==
  /\ pc[p] \in {"sending", "submitting"}
  /\ Len(workCh) < Capacity
  /\ workCh' = Append(workCh, job[p])
  /\ mu' = Nobody
  /\ pc' = [pc EXCEPT ![p] = AfterEnqueue(p)]
  /\ UNCHANGED <<store, parsed, dispatched, closed, slotVars, ctxVars, job, rec,
                 loopVars, historyVars>>

enqueue(p) ==
  EnqueueRefused(p) \/ EnqueueSend(p) \/ EnqueueBlocks(p) \/ SendUnblocks(p)

-----------------------------------------------------------------------------
(* releaseSlot and dispatchPending, run by workers and by handlers.         *)

Rest(p) == IF p \in Worker THEN "recv" ELSE "done"

releaseSlot_Unchecked(p) ==
  /\ Step(p, "release", "dispatch") /\ Unlocked
  /\ activeSlots' = activeSlots - 1
  /\ job' = [job EXCEPT ![p] = Nobody]
  /\ rec' = [rec EXCEPT ![p] = Absent]
  /\ UNCHANGED <<store, parsed, chanVars, mu, running, shuttingDown, ctxVars,
                 loopVars, historyVars>>

releaseSlot_NoDispatch(p) ==
  /\ Step(p, "release", Rest(p)) /\ Unlocked
  /\ activeSlots' = IF activeSlots > 0 THEN activeSlots - 1 ELSE 0
  /\ job' = [job EXCEPT ![p] = Nobody]
  /\ rec' = [rec EXCEPT ![p] = Absent]
  /\ UNCHANGED <<store, parsed, chanVars, mu, running, shuttingDown, ctxVars,
                 loopVars, historyVars>>

releaseSlot(p) ==
  /\ Step(p, "release", "dispatch") /\ Unlocked
  /\ activeSlots' = IF activeSlots > 0 THEN activeSlots - 1 ELSE 0
  /\ job' = [job EXCEPT ![p] = Nobody]
  /\ rec' = [rec EXCEPT ![p] = Absent]
  /\ UNCHANGED <<store, parsed, chanVars, mu, running, shuttingDown, ctxVars,
                 loopVars, historyVars>>

pipelineLocked == running + Cardinality(dispatched)

CountSlots_OffByOne(p) ==
  LET free == MaxTasks - pipelineLocked
  IN /\ pc[p] = "dispatch" /\ Unlocked
     /\ IF shuttingDown \/ free <= 1
        THEN /\ pc' = [pc EXCEPT ![p] = Rest(p)]
             /\ UNCHANGED slots
        ELSE /\ pc' = [pc EXCEPT ![p] = "list"]
             /\ slots' = [slots EXCEPT ![p] = free]
     /\ UNCHANGED <<sharedVars, job, rec, todo, expiring, historyVars>>

CountSlots(p) ==
  LET free == MaxTasks - pipelineLocked
  IN /\ pc[p] = "dispatch" /\ Unlocked
     /\ IF shuttingDown \/ free <= 0
        THEN /\ pc' = [pc EXCEPT ![p] = Rest(p)]
             /\ UNCHANGED slots
        ELSE /\ pc' = [pc EXCEPT ![p] = "list"]
             /\ slots' = [slots EXCEPT ![p] = free]
     /\ UNCHANGED <<sharedVars, job, rec, todo, expiring, historyVars>>

\* store.ListAll(): only the pending records that are not cancelled matter.
ListPending(p) ==
  /\ Step(p, "list", "scan")
  /\ todo' = [todo EXCEPT ![p] =
                {t \in Task : store[t].status = "pending" /\ ~store[t].cancelled}]
  /\ UNCHANGED <<sharedVars, job, rec, slots, expiring, historyVars>>

\* One round of the loop, in the order of the directory: task ids are random.
ScanNext(p) ==
  /\ pc[p] = "scan" /\ p # Boot
  /\ slots[p] > 0
  /\ \E t \in todo[p] :
       /\ todo' = [todo EXCEPT ![p] = @ \ {t}]
       /\ IF t \in dispatched
          THEN UNCHANGED <<pc, job, slots>>
          ELSE /\ pc' = [pc EXCEPT ![p] = "enqueue"]
               /\ job' = [job EXCEPT ![p] = t]
               /\ slots' = [slots EXCEPT ![p] = @ - 1]
  /\ UNCHANGED <<sharedVars, rec, expiring, historyVars>>

ScanEnd(p) ==
  /\ pc[p] = "scan"
  /\ slots[p] = 0 \/ todo[p] = {}
  /\ pc' = [pc EXCEPT ![p] = Rest(p)]
  /\ todo' = [todo EXCEPT ![p] = {}]
  /\ slots' = [slots EXCEPT ![p] = 0]
  /\ job' = [job EXCEPT ![p] = Nobody]
  /\ UNCHANGED <<sharedVars, rec, expiring, historyVars>>

dispatchPending(p) == CountSlots(p) \/ ListPending(p) \/ ScanNext(p) \/ ScanEnd(p)

-----------------------------------------------------------------------------
(* Create, run by the handler of the task's own request: the process that   *)
(* creates task t is t.                                                     *)

CreateRefused(t) ==
  /\ pc[t] = "new" /\ Listening /\ Unlocked
  /\ shuttingDown \/ activeSlots >= MaxTasks
  /\ pc' = [pc EXCEPT ![t] = "done"]
  /\ UNCHANGED <<sharedVars, job, rec, loopVars, historyVars>>

CreateReserve(t) ==
  /\ Step(t, "new", "parse") /\ Listening /\ Unlocked
  /\ ~shuttingDown /\ activeSlots < MaxTasks
  /\ activeSlots' = activeSlots + 1
  /\ UNCHANGED <<store, parsed, chanVars, mu, running, shuttingDown, ctxVars,
                 job, rec, loopVars, historyVars>>

\* The playlist is parsed and the record saved; on an error the deferred
\* function gives the slot back.
CreateFails(t) ==
  /\ Step(t, "parse", "release")
  /\ UNCHANGED <<sharedVars, job, rec, loopVars, historyVars>>

CreateSave(t) ==
  /\ Step(t, "parse", "stash")
  /\ Save(t, Pending)
  /\ job' = [job EXCEPT ![t] = t]
  /\ UNCHANGED <<parsed, chanVars, mu, slotVars, ctxVars, rec, loopVars,
                 historyVars>>

CreateStash(t) ==
  /\ Step(t, "stash", "submit")
  /\ parsed' = parsed \union {t}
  /\ UNCHANGED <<store, chanVars, mu, slotVars, ctxVars, job, rec, loopVars,
                 historyVars>>

\* enqueue returned false: the slot is given back without dispatching.
CreateRollback(t) ==
  /\ Step(t, "rollback", "unsave") /\ Unlocked
  /\ parsed' = parsed \ {t}
  /\ activeSlots' = IF activeSlots > 0 THEN activeSlots - 1 ELSE 0
  /\ UNCHANGED <<store, chanVars, mu, running, shuttingDown, ctxVars, job, rec,
                 loopVars, historyVars>>

CreateUnsave(t) ==
  /\ Step(t, "unsave", "done")
  /\ Save(t, [Pending EXCEPT !.status = "cancelled"])
  /\ UNCHANGED <<parsed, chanVars, mu, slotVars, ctxVars, job, rec, loopVars,
                 historyVars>>

Create(t) ==
  \/ CreateRefused(t) \/ CreateReserve(t) \/ CreateFails(t) \/ CreateSave(t)
  \/ CreateStash(t) \/ CreateRollback(t) \/ CreateUnsave(t)

-----------------------------------------------------------------------------
(* Cancel: it works on the copy of the record that it read first.           *)

CancelGet(c) ==
  /\ pc[c] = "idle" /\ Listening
  /\ \E t \in Task :
       /\ store[t].status \in {"pending", "running"}
       /\ job' = [job EXCEPT ![c] = t]
       /\ rec' = [rec EXCEPT ![c] = store[t]]
  /\ pc' = [pc EXCEPT ![c] = "signal"]
  /\ UNCHANGED <<sharedVars, loopVars, historyVars>>

CancelSignal(c) ==
  /\ Step(c, "signal", "mark") /\ Unlocked
  /\ ctx' = [w \in Worker |-> ctx[w] \/ onCancel[job[c]] = w]
  /\ UNCHANGED <<store, parsed, chanVars, mu, slotVars, onCancel, job, rec,
                 loopVars, historyVars>>

CancelMark(c) ==
  /\ Step(c, "mark", "settle")
  /\ Save(job[c], [rec[c] EXCEPT !.status = IF @ = "pending" THEN "cancelled" ELSE @,
                                 !.cancelled = TRUE])
  /\ asked' = asked \union {job[c]}
  /\ UNCHANGED <<parsed, chanVars, mu, slotVars, ctxVars, job, rec, loopVars,
                 crashes, delivered>>

\* Nobody has the task, as far as the two maps tell: its slot is given back.
CancelSettle(c) ==
  /\ pc[c] = "settle" /\ Unlocked
  /\ IF job[c] \in dispatched \/ onCancel[job[c]] # Nobody
     THEN pc' = [pc EXCEPT ![c] = "done"] /\ UNCHANGED parsed
     ELSE pc' = [pc EXCEPT ![c] = "release"] /\ parsed' = parsed \ {job[c]}
  /\ job' = [job EXCEPT ![c] = Nobody]
  /\ rec' = [rec EXCEPT ![c] = Absent]
  /\ UNCHANGED <<store, chanVars, mu, slotVars, ctxVars, loopVars, historyVars>>

CancelTask(c) == CancelGet(c) \/ CancelSignal(c) \/ CancelMark(c) \/ CancelSettle(c)

-----------------------------------------------------------------------------
(* workerLoop and runTask.                                                  *)

Receive(w) ==
  /\ Step(w, "recv", "undispatch")
  /\ workCh # <<>>
  /\ job' = [job EXCEPT ![w] = Head(workCh)]
  /\ workCh' = Tail(workCh)
  /\ UNCHANGED <<store, parsed, dispatched, closed, mu, slotVars, ctxVars, rec,
                 loopVars, historyVars>>

\* The channel is closed and drained: the worker returns.
WorkerExit(w) ==
  /\ Step(w, "recv", "exited")
  /\ workCh = <<>> /\ closed
  /\ UNCHANGED <<sharedVars, job, rec, loopVars, historyVars>>

Undispatch_UnlessCancelled(w) ==
  /\ Step(w, "undispatch", "load")
  /\ dispatched' = IF store[job[w]].cancelled THEN dispatched
                   ELSE dispatched \ {job[w]}
  /\ UNCHANGED <<store, parsed, workCh, closed, mu, slotVars, ctxVars, job, rec,
                 loopVars, historyVars>>

Undispatch(w) ==
  /\ Step(w, "undispatch", "load")
  /\ dispatched' = dispatched \ {job[w]}
  /\ UNCHANGED <<store, parsed, workCh, closed, mu, slotVars, ctxVars, job, rec,
                 loopVars, historyVars>>

\* What a worker goes on with: the record, or the copy it has if that is gone.
Fresh(w, copies) == IF store[job[w]] = Absent THEN copies ELSE {store[job[w]]}

\* The copy in the channel: Recover may have queued any, the others only Pending.
Queued == {r \in Record : r.status = "pending" /\ (r = Pending \/ Backlog # {} \/ MaxCrashes > 0)}

LoadTask_KeepsSlot(w) ==
  /\ pc[w] = "load"
  /\ \E fresh \in Fresh(w, Queued) :
       /\ rec' = [rec EXCEPT ![w] = fresh]
       /\ IF fresh.cancelled
          THEN /\ parsed' = parsed \ {job[w]}
               /\ pc' = [pc EXCEPT ![w] = "recv"]
          ELSE pc' = [pc EXCEPT ![w] = "register"] /\ UNCHANGED parsed
  /\ UNCHANGED <<store, chanVars, mu, slotVars, ctxVars, job, loopVars, historyVars>>

\* The worker reads the record, which may be gone; a cancelled task is not run,
\* and its record is saved as cancelled if it still says pending.  (A cancelled
\* copy of a record that is gone reaches the same saves at the head of runTask.)
LoadTask(w) ==
  /\ pc[w] = "load"
  /\ \E fresh \in Fresh(w, Queued) :
       /\ rec' = [rec EXCEPT ![w] = fresh]
       /\ IF fresh.cancelled
          THEN /\ parsed' = parsed \ {job[w]}
               /\ pc' = [pc EXCEPT ![w] = IF fresh.status = "pending"
                                          THEN "save_skipped" ELSE "release"]
          ELSE pc' = [pc EXCEPT ![w] = "register"] /\ UNCHANGED parsed
  /\ UNCHANGED <<store, chanVars, mu, slotVars, ctxVars, job, loopVars, historyVars>>

SaveSkipped(w) ==
  /\ Step(w, "save_skipped", "release")
  /\ Save(job[w], [rec[w] EXCEPT !.status = "cancelled"])
  /\ UNCHANGED <<parsed, chanVars, mu, slotVars, ctxVars, job, rec, loopVars,
                 historyVars>>

Register(w) ==
  /\ Step(w, "register", "save_running") /\ Unlocked
  /\ onCancel' = [onCancel EXCEPT ![job[w]] = w]
  /\ ctx' = [ctx EXCEPT ![w] = FALSE]
  /\ running' = running + 1
  /\ UNCHANGED <<store, parsed, chanVars, mu, activeSlots, shuttingDown, job,
                 rec, loopVars, historyVars>>

SaveRunning(w) ==
  LET r == [rec[w] EXCEPT !.status = "running"]
  IN /\ Step(w, "save_running", "prepare")
     /\ Save(job[w], r)
     /\ rec' = [rec EXCEPT ![w] = r]
     /\ UNCHANGED <<parsed, chanVars, mu, slotVars, ctxVars, job, loopVars,
                    historyVars>>

\* The downloader is built from the parsed playlist of Create or from a new
\* one; the task directory may refuse it.
Prepare(w) ==
  /\ pc[w] = "prepare"
  /\ parsed' = parsed \ {job[w]}
  /\ \E next \in {"download", "save_failed"} : pc' = [pc EXCEPT ![w] = next]
  /\ UNCHANGED <<store, chanVars, mu, slotVars, ctxVars, job, rec, loopVars,
                 historyVars>>

\* The progress reporter looks at the context, then saves its copy.
ReportProgress(w) ==
  /\ Step(w, "download", "save_progress")
  /\ ~ctx[w]
  /\ UNCHANGED <<sharedVars, job, rec, loopVars, historyVars>>

SaveProgress(w) ==
  /\ Step(w, "save_progress", "download")
  /\ Save(job[w], rec[w])
  /\ UNCHANGED <<parsed, chanVars, mu, slotVars, ctxVars, job, rec, loopVars,
                 historyVars>>

\* Start looks at the context for the last time before the conversion.
DownloadMerged(w) ==
  /\ Step(w, "download", "convert")
  /\ ~ctx[w]
  /\ UNCHANGED <<sharedVars, job, rec, loopVars, historyVars>>

DownloadCancelled_NoError(w) ==
  /\ Step(w, "download", "reload")
  /\ ctx[w]
  /\ UNCHANGED <<sharedVars, job, rec, loopVars, historyVars>>

DownloadCancelled(w) ==
  /\ Step(w, "download", "save_cancelled")
  /\ ctx[w]
  /\ UNCHANGED <<sharedVars, job, rec, loopVars, historyVars>>

DownloadFails(w) ==
  /\ pc[w] \in {"download", "convert"}
  /\ pc' = [pc EXCEPT ![w] = "save_failed"]
  /\ UNCHANGED <<sharedVars, job, rec, loopVars, historyVars>>

DownloadSucceeds(w) ==
  /\ Step(w, "convert", "reload")
  /\ delivered' = delivered \union {job[w]}
  /\ UNCHANGED <<sharedVars, job, rec, loopVars, crashes, asked>>

\* The record is read again for a cancellation that came too late for Start.  The
\* output file may be missing, which shows once the record has its expiry date.
Reload(w) ==
  /\ pc[w] = "reload"
  /\ \E fresh \in Fresh(w, {rec[w]}) :
     /\ rec' = [rec EXCEPT ![w] = fresh]
     /\ \E next \in IF fresh.cancelled THEN {"save_cancelled"}
                    ELSE {"save_completed", "save_missing"} :
          pc' = [pc EXCEPT ![w] = next]
  /\ UNCHANGED <<sharedVars, job, loopVars, historyVars>>

\* The last saves of runTask, by where the worker is.
Verdict(w) == CASE pc[w] = "save_completed" -> "completed"
                [] pc[w] \in {"save_failed", "save_missing"} -> "failed"
                [] OTHER -> "cancelled"

\* ExpiresAt is set on the way, also for the task whose output is missing.
Dated(w) == pc[w] \in {"save_completed", "save_missing"}

SaveVerdict(w) ==
  /\ pc[w] \in {"save_completed", "save_missing", "save_failed", "save_cancelled"}
  /\ Save(job[w], [rec[w] EXCEPT !.status = Verdict(w), !.expires = @ \/ Dated(w)])
  /\ pc' = [pc EXCEPT ![w] = "deregister"]
  /\ rec' = [rec EXCEPT ![w] = Absent]
  /\ UNCHANGED <<parsed, chanVars, mu, slotVars, ctxVars, job, loopVars,
                 historyVars>>

Deregister_OwnEntryOnly(w) ==
  /\ Step(w, "deregister", "release") /\ Unlocked
  /\ running' = IF onCancel[job[w]] = w THEN running - 1 ELSE running
  /\ onCancel' = [onCancel EXCEPT ![job[w]] = Nobody]
  /\ ctx' = [ctx EXCEPT ![w] = FALSE]
  /\ UNCHANGED <<store, parsed, chanVars, mu, activeSlots, shuttingDown, job,
                 rec, loopVars, historyVars>>

Deregister_KeepsEntry(w) ==
  /\ Step(w, "deregister", "release") /\ Unlocked
  /\ running' = running - 1
  /\ ctx' = [ctx EXCEPT ![w] = FALSE]
  /\ UNCHANGED <<store, parsed, chanVars, mu, activeSlots, shuttingDown,
                 onCancel, job, rec, loopVars, historyVars>>

\* The deferred function of runTask: the entry is deleted, whoever's it is.
Deregister(w) ==
  /\ Step(w, "deregister", "release") /\ Unlocked
  /\ running' = running - 1
  /\ onCancel' = [onCancel EXCEPT ![job[w]] = Nobody]
  /\ ctx' = [ctx EXCEPT ![w] = FALSE]
  /\ UNCHANGED <<store, parsed, chanVars, mu, activeSlots, shuttingDown, job,
                 rec, loopVars, historyVars>>

workerLoop(w) ==
  \/ Receive(w) \/ WorkerExit(w) \/ Undispatch(w) \/ LoadTask(w)
  \/ SaveSkipped(w)

runTask(w) ==
  \/ Register(w) \/ SaveRunning(w) \/ Prepare(w)
  \/ ReportProgress(w) \/ SaveProgress(w)
  \/ DownloadMerged(w) \/ DownloadCancelled(w) \/ DownloadFails(w)
  \/ DownloadSucceeds(w) \/ Reload(w) \/ SaveVerdict(w) \/ Deregister(w)

-----------------------------------------------------------------------------
(* CleanupExpired, at every tick once Recover has returned: it marks and     *)
(* removes what it listed, whatever has become of it since.                  *)

Expiring == {t \in Task : expiring[t] # Absent}

ListExpired(candidates) ==
  /\ MayExpire /\ pc[Boot] = "done" /\ pc[Stop] # "exited"
  /\ pc[Cleaner] = "idle" /\ Expiring = {}
  /\ \E over \in SUBSET candidates \ {{}} :
       expiring' = [t \in Task |-> IF t \in over THEN store[t] ELSE Absent]
  /\ UNCHANGED <<sharedVars, pc, job, rec, todo, slots, historyVars>>

CleanupList_Ended ==
  ListExpired({t \in Task : store[t].status \in Terminal})

\* The date has passed for some of those that have one.
CleanupList == ListExpired({t \in Task : store[t].expires})

CleanupSave ==
  /\ Step(Cleaner, "idle", "delete")
  /\ \E t \in Expiring :
       /\ Save(t, [expiring[t] EXCEPT !.status = "expired"])
       /\ job' = [job EXCEPT ![Cleaner] = t]
  /\ UNCHANGED <<parsed, chanVars, mu, slotVars, ctxVars, rec, loopVars,
                 historyVars>>

CleanupEnds(left) ==
  /\ Step(Cleaner, "delete", "idle")
  /\ expiring' = left
  /\ job' = [job EXCEPT ![Cleaner] = Nobody]
  /\ UNCHANGED <<parsed, chanVars, mu, slotVars, ctxVars, rec, todo, slots,
                 historyVars>>

CleanupDelete ==
  /\ CleanupEnds([expiring EXCEPT ![job[Cleaner]] = Absent])
  /\ Save(job[Cleaner], Absent)

\* The directory could not be removed: the rest has to wait for the next tick.
CleanupFails ==
  CleanupEnds([t \in Task |-> Absent]) /\ UNCHANGED store

CleanupExpired == CleanupList \/ CleanupSave \/ CleanupDelete \/ CleanupFails

-----------------------------------------------------------------------------
(* Recover, Shutdown and the end of the process.                            *)

\* What is in memory is gone and requests in flight are lost; the store stays.
Forget ==
  /\ parsed' = {} /\ dispatched' = {} /\ workCh' = <<>> /\ closed' = FALSE
  /\ mu' = Nobody
  /\ activeSlots' = 0 /\ running' = 0 /\ shuttingDown' = FALSE
  /\ onCancel' = [t \in Task |-> Nobody]
  /\ ctx' = [w \in Worker |-> FALSE]
  /\ job' = [p \in Proc |-> Nobody]
  /\ rec' = [p \in Proc |-> Absent]
  /\ todo' = [p \in Proc |-> {}]
  /\ slots' = [p \in Proc |-> 0]
  /\ expiring' = [t \in Task |-> Absent]

AfterEnd ==
  [p \in Proc |-> IF p \in Task \union Canceller /\ pc[p] # RestingPC[p]
                  THEN "done" ELSE RestingPC[p]]

\* Before anything is enqueued the workers are idle and the server does not
\* listen yet: listing, saving and counting are one step.
RecoverList ==
  LET pending == {t \in Task : store[t].status \in {"pending", "running"}}
      avail   == MaxTasks - pipelineLocked
  IN /\ Step(Boot, "recover", "scan") /\ Unlocked
     /\ store' = [t \in Task |-> IF store[t].status = "running"
                                 THEN [store[t] EXCEPT !.status = "pending"]
                                 ELSE store[t]]
     /\ activeSlots' = Cardinality(pending)
     /\ todo' = [todo EXCEPT ![Boot] = pending]
     /\ slots' = [slots EXCEPT ![Boot] = IF avail < 0 THEN 0 ELSE avail]
     /\ UNCHANGED <<parsed, chanVars, mu, running, shuttingDown, ctxVars, job,
                    rec, expiring, historyVars>>

RecoverNext ==
  /\ Step(Boot, "scan", "enqueue")
  /\ slots[Boot] > 0
  /\ \E t \in todo[Boot] :
       /\ todo' = [todo EXCEPT ![Boot] = @ \ {t}]
       /\ job' = [job EXCEPT ![Boot] = t]
  /\ slots' = [slots EXCEPT ![Boot] = @ - 1]
  /\ UNCHANGED <<sharedVars, rec, expiring, historyVars>>

Recover == RecoverList \/ RecoverNext \/ ScanEnd(Boot) \/ enqueue(Boot)

\* The signal: the HTTP server stops listening, then waits for its handlers
\* until a timeout, which may come before any of them has moved.
Signal ==
  /\ MayShutdown /\ pc[Boot] = "done"
  /\ Step(Stop, "idle", "mark")
  /\ UNCHANGED <<sharedVars, job, rec, loopVars, historyVars>>

ShutdownMark_Unlocked ==
  /\ Step(Stop, "mark", "close")
  /\ shuttingDown' = TRUE
  /\ ctx' = [w \in Worker |-> ctx[w] \/ \E t \in Task : onCancel[t] = w]
  /\ UNCHANGED <<store, parsed, chanVars, mu, activeSlots, running, onCancel,
                 job, rec, loopVars, historyVars>>

ShutdownMark ==
  /\ Step(Stop, "mark", "close") /\ Unlocked
  /\ shuttingDown' = TRUE
  /\ ctx' = [w \in Worker |-> ctx[w] \/ \E t \in Task : onCancel[t] = w]
  /\ UNCHANGED <<store, parsed, chanVars, mu, activeSlots, running, onCancel,
                 job, rec, loopVars, historyVars>>

ShutdownClose ==
  /\ Step(Stop, "close", "wait")
  /\ closed' = TRUE
  /\ UNCHANGED <<store, parsed, dispatched, workCh, mu, slotVars, ctxVars, job,
                 rec, loopVars, historyVars>>

\* The workers have returned, or the timeout has passed; the process ends, and
\* its memory with it.
ShutdownReturn ==
  /\ pc[Stop] = "wait"
  /\ Forget
  /\ pc' = [AfterEnd EXCEPT ![Stop] = "exited", ![Boot] = "done"]
  /\ UNCHANGED <<store, historyVars>>

Shutdown == ShutdownMark \/ ShutdownClose \/ ShutdownReturn

\* The process is killed, or has ended, and a new one starts.
Crash ==
  /\ crashes < MaxCrashes
  /\ crashes' = crashes + 1
  /\ Forget
  /\ pc' = AfterEnd
  /\ UNCHANGED <<store, delivered, asked>>

-----------------------------------------------------------------------------
\* What a process does once its work has begun.
Handler(p) == enqueue(p) \/ releaseSlot(p) \/ dispatchPending(p)
WorkerStep(w) == workerLoop(w) \/ runTask(w) \/ Handler(w)
CreateStep(t) == Create(t) \/ Handler(t)
CancelStep(c) == CancelTask(c) \/ Handler(c)

\* Nobody is at work: the workers wait on an empty channel and no request,
\* recovery or shutdown is in progress.
Quiet ==
  /\ Unlocked /\ workCh = <<>>
  /\ \A w \in Worker : pc[w] = "recv"
  /\ \A p \in Task \union Canceller : pc[p] \in {"new", "idle", "done"}
  /\ pc[Boot] = "done" /\ pc[Stop] = "idle"
  /\ pc[Cleaner] = "idle" /\ Expiring = {}

\* Nothing is left to do, or the process has ended.
Idle == (pc[Stop] = "exited" \/ Quiet) /\ UNCHANGED vars

Next ==
  \/ \E w \in Worker : WorkerStep(w)
  \/ \E t \in Task : CreateStep(t)
  \/ \E c \in Canceller : CancelStep(c)
  \/ CleanupExpired
  \/ Recover \/ Signal \/ Shutdown \/ Crash \/ Idle

\* Goroutines run, m.mu is starvation free and downloads end: requests have a
\* timeout, and a download reports each segment once.  Users and signals are
\* not obliged to come.
DownloadEnds(w) == DownloadMerged(w) \/ DownloadCancelled(w) \/ DownloadFails(w)

Fairness ==
  /\ \A w \in Worker : SF_vars(WorkerStep(w))
  /\ \A w \in Worker : SF_vars(DownloadEnds(w))
  /\ \A t \in Task : SF_vars(pc[t] # "new" /\ CreateStep(t))
  /\ \A c \in Canceller : SF_vars(pc[c] # "idle" /\ CancelStep(c))
  /\ SF_vars(Recover)
  /\ WF_vars(CleanupExpired)
  /\ SF_vars(Shutdown)

Spec     == Init /\ [][Next]_vars
FairSpec == Spec /\ Fairness

-----------------------------------------------------------------------------
(* Safety.                                                                  *)

Running(w) == pc[w] \in {"save_running", "prepare", "download", "save_progress",
                         "convert", "reload", "save_completed", "save_missing",
                         "save_failed", "save_cancelled", "deregister"}

Sending == {"sending", "submitting"}

\* Every variable keeps its type; workCh never exceeds its capacity, and the
\* counters never go below zero.
TypeOK ==
  /\ store \in [Task -> Record \union {Absent}]
  /\ parsed \in SUBSET Task
  /\ dispatched \in SUBSET Task
  /\ workCh \in Seq(Task) /\ Len(workCh) <= Capacity
  /\ closed \in BOOLEAN /\ shuttingDown \in BOOLEAN
  /\ mu \in Proc \union {Nobody}
  /\ activeSlots \in Nat /\ running \in Nat
  /\ onCancel \in [Task -> Worker \union {Nobody}]
  /\ ctx \in [Worker -> BOOLEAN]
  /\ job \in [Proc -> Task \union {Nobody}]
  /\ rec \in [Proc -> Record \union {Absent}]
  /\ todo \in [Proc -> SUBSET Task]
  /\ slots \in [Proc -> Nat]
  /\ expiring \in [Task -> Record \union {Absent}]
  /\ crashes \in 0 .. MaxCrashes
  /\ delivered \in SUBSET Task
  /\ asked \in SUBSET Task

\* A process that waits to send holds m.mu, nobody else does, and the channel
\* is not closed under it: a send on a closed channel would panic.
NoSendOnClosed ==
  /\ \A p \in Proc : pc[p] \in Sending <=> mu = p
  /\ closed => mu = Nobody /\ shuttingDown

\* m.running, from which the free slots are computed, counts the workers that
\* are in runTask, and m.onCancel only names workers that run the task.
RunningCounts == running = Cardinality({w \in Worker : Running(w)})

RegistryPointsAtRunner ==
  \A t \in Task : onCancel[t] # Nobody =>
    Running(onCancel[t]) /\ job[onCancel[t]] = t

\* A task marked as dispatched is on its way to a worker: a mark without a task
\* behind it would make dispatchPending skip the task for ever.
NoPhantomDispatch ==
  \A t \in dispatched :
    \/ t \in {workCh[k] : k \in DOMAIN workCh}
    \/ \E p \in Proc : pc[p] \in Sending /\ job[p] = t
    \/ \E w \in Worker : pc[w] = "undispatch" /\ job[w] = t

\* A record says completed only if a download of the task ended without error.
CompletedMeansDelivered ==
  \A t \in Task : store[t].status = "completed" => t \in delivered

\* The removal of old tasks, which works on an old list, only ever removes tasks
\* of which a download ended without error: not the record or the segments of
\* one that never got so far.  Such a task need not say completed: the one whose
\* output was then missing is saved as failed, with the date set before that was
\* found, and is removed like the others; a later run may have failed as well.
OnlyDeliveredRemoved ==
  [][\A t \in Task : store[t] # Absent /\ store'[t] = Absent => t \in delivered]_vars

\* dispatchPending is only called when somebody gives a slot back, so the last
\* one to do so must see whatever waits: once everything is quiet, no task that
\* nobody cancelled is left pending or running on disk.
NoTaskStranded ==
  Quiet => \A t \in Task :
             store[t].status \in {"pending", "running"} => store[t].cancelled

\* After a restart the slots only add up if Recover counts what will be run: not
\* a cancelled record, of which it counts a slot that nobody gives back; and
\* only if the new process finds all of its tasks as the old one left them.
CleanBacklog == \A r \in LeftRecords : ~r.cancelled
Accountable  == CleanBacklog /\ (crashes = 0 \/ (asked = {} /\ ~MayExpire))

\* Of what Create reserves and Recover counts nothing is kept, whoever runs,
\* cancels or skips the task: the manager at rest keeps no parsed playlist
\* (TestManagerCancelPendingClearsParsedCache) and admits MaxTasks tasks again.
\* A slot given back twice does not show here, since the counter stops at zero.
AllReturned == Quiet => parsed = {} /\ (Accountable => activeSlots = 0)

-----------------------------------------------------------------------------
(* Liveness.                                                                *)

\* TestManagerRecoverMaxTasksOneDrainsBacklog (manager_test.go:306): what an
\* earlier process left is finished, one task after the other.
BacklogDrains ==
  \A t \in Backlog : <>[](store[t].status \in Terminal \union {"expired", "absent"})

-----------------------------------------------------------------------------
(* What the documentation says and the code does not keep.                  *)

\* manager.go:38: m.dispatched holds the tasks "sent to workCh but not yet
\* running".  Create and dispatchPending may both send the same one.
DispatchedNotRunning ==
  \A w \in Worker : Running(w) => job[w] \notin dispatched

\* README.md:194: running tasks are recovered on restart.  Recover leaves alone
\* a cancelled record, so a task may only be saved so if somebody asked for it;
\* Shutdown cancels the context of the downloads and they are saved so too.
CancelledOnRequest ==
  \A t \in Backlog : store[t].status = "cancelled" => t \in asked

\* manager_test.go:266: a cancelled task is not marked completed.  The worker
\* saves the copy of the record that it read before the cancellation.
CancelledNotCompleted ==
  \A t \in asked : store[t].status # "completed"

\* manager_test.go:144,179: with MaxTasks tasks pending or running the next one
\* is refused.  Cancel and the worker may both give back the same slot.
AdmissionBounded ==
  Cardinality({t \in Task : /\ store[t].status \in {"pending", "running"}
                            /\ ~store[t].cancelled}) <= MaxTasks

\* manager.go:249: Shutdown waits for the workers and closes the resources, or
\* its context ends.  It needs m.mu, which a blocked enqueue may hold for ever.
ShutdownCompletes == pc[Stop] = "mark" ~> pc[Stop] = "exited"
=============================================================================
