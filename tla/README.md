# Verification of m3u8

This directory holds TLA+ models of the m3u8 downloader and of its API server,
the TLC configurations that check them on small instances, and proofs checked
by TLAPS. Every definition is translated from the Go source; `PROJECT.json`
maps each one to the lines it stands for, and lists the runs, the hazards they
are aimed at, the theorems, and the places where the code and its
documentation disagree.

## 1. The system

m3u8 downloads an HLS playlist: it parses the playlist, fetches the segments
with several goroutines, decrypts them, merges them into one `.ts` file and
remuxes that to `.mp4`. It runs as a command (`m3u8 -u ...`) or as an HTTP
server (`m3u8 serve`) that keeps a directory of tasks.

| Component | State it keeps | Operations | Talks to |
|---|---|---|---|
| Segment downloader, `dl/downloader.go` | queue, retries and given-up segments under a mutex, an atomic counter, a token channel, `ts/` and the output files | `Start`, `download`, `next`, `back`, `merge` | HTTP client, decryption service, ffmpeg; a cancellation context and a progress reporter given by the worker |
| Resume and task metadata, `dl/resume.go`, `dl/taskmeta.go` | `.m3u8-task.json`, `ts/N.ts`, `ts/N.ts_tmp` | scan, wipe, build queue, load, save, validate, remove metadata | file system |
| Task manager and workers, `api/task/manager.go`, `worker.go`, `register.go` | `activeSlots`, `running`, `shuttingDown`, `onCancel` under a mutex; `dispatched` and `parsed` as concurrent maps; the buffered channel `workCh` | `Create`, `Cancel`, `List`, `Recover`, `Shutdown`, `CleanupExpired`, `workerLoop`, `runTask`, `dispatchPending` | store, parser, downloader |
| Task store, `api/task/store.go` | one `task.json` per task under a read-write mutex | `Save`, `Load`, `ListAll`, `Delete` | file system |
| HTTP API, `api/server.go`, `handler.go`, `middleware.go` | none | routes, authentication, `Server.Shutdown` | manager, parser |
| Playlist parser, `parse/` | none; the automaton over the lines of a playlist | `FromURL`, `parse` | HTTP client, decryption service (keys) |
| Decryption service and registry, `crypt/service.go`, `registry.go`, `setup.go`, `config.go` | the active provider, the compiled rules, the decryptors opened so far | `SetActiveProvider`, `ProcessKey`, `DecryptSegment`, `Close` | decryptors, providers |
| External and Starlark decryptors, `crypt/external.go`, `starlark.go` | a child process and its two pipes; a Starlark thread under a mutex | `call`, `restart`, `Close` | child process |
| Cloud providers, `crypt/provider/` | none | rewriting of key and playlist requests | decryption service |
| AES primitives, `tool/crypt.go` | none | CBC, padding | |
| HTTP client, ffmpeg, paths, `tool/` | none | `Get`, `GetRange`, `ConvertTSToMP4` | network, ffmpeg |
| Command line, `cmd/`, `main.go` | none | flags, signals | all of the above |

What is hard in it:

* **Concurrency.** `Start` and its goroutines share the queue under a mutex, but
  the counter of finished segments is updated outside of it, and the end of the
  download is a comparison of counters. In the server, HTTP handlers, workers,
  the recovery at start-up, the expiry and the shutdown share the manager's
  fields, two concurrent maps, a channel that is sent to with the mutex held,
  and records on disk that everybody reads, keeps for a while and writes back.
* **Failure.** Requests fail and are retried; merging, removing files,
  converting and saving may fail half-way.
* **Crash and restart.** Both the task directory (`ts/`, metadata) and the
  records of the server are meant to survive a kill at any moment.
* **Cancellation and shutdown** arrive at any moment and are looked at only at
  some points.
* **A child process** answers line by line, may be slow, hang, exit or write what
  nobody asked for, and is killed and started again beside the calls of other
  goroutines.
* **Order.** What a line of a playlist means depends on the lines before it, and
  the keys of one playlist are made while other tasks change the provider that
  they all share.

## 2. The modules

| Module | Models | State |
|---|---|---|
| `SegmentJob` | what `Start` promises: each segment is settled once, success means that the whole output was written, nothing moves after the answer | done |
| `Downloader` | one call of `Start` with its goroutines | done |
| `Downloader_proofs` | the safety of `Downloader` and that it implements `SegmentJob` | done |
| `TaskManager` | manager, workers, store, handlers, recovery, shutdown, expiry, crash | done |
| `Resumable` | what the output directory promises a user whose downloads are interrupted: a playlist owns it until it is delivered, and nothing fetched is lost or taken for another playlist | done |
| `TaskDir` | the output directory through any number of runs: metadata, scan, wipe, merge, kill | done |
| `TaskDir_proofs` | the safety of `TaskDir` and that it implements `Resumable` | done |
| `ScriptCalls` | what the callers of an external script's hooks are promised: every call ends once, with the answer to its own request or with an error | done |
| `ExternalDecryptor` | the line protocol with a child process, its timeouts and restarts | done |
| `CryptService` | from a link to decrypted segments: `FromURL`, the service shared by all tasks, its provider, its registry of scripts, the chain of hooks | done |
| `Playlist` | `parse` over the lines of a playlist, against what the document says as a whole | done |
| `MCDownloader`, `MCTaskManager`, `MCTaskDir`, `MCExternalDecryptor`, `MCCryptService`, `MCPlaylist` | instances for TLC | done |
| `TaskManager_proofs` | the safety of `TaskManager`, and when its slots are all given back | done |
| `ExternalDecryptor_proofs` | the safety of `ExternalDecryptor` and that it implements `ScriptCalls` | done |
| `CryptService_proofs` | the safety of `CryptService` | done |
| `Playlist_proofs` | that `Playlist` reads a document as its reference definitions say | done |

`Downloader` instantiates `SegmentJob`, `TaskDir` instantiates `Resumable`, and
`ExternalDecryptor` instantiates `ScriptCalls`, each under a refinement mapping.
`TaskManager` sees a download only as the steps of `Start` that its own
properties can tell apart: the last look at the context, the conversion, the
failure and the success. `TaskDir` sees it only as changes of the disk.
`CryptService` sees a call of a script only as its result, which is what
`ScriptCalls` promises of it, and a playlist only as its keys, which is what
`Playlist` makes of it.

### Downloader

A step is what one goroutine does between two points where another may see or
change the shared state: a critical section of `d.lock`, an atomic operation, a
channel operation, a look at the context, a change of the directory.

* `pc` is the place of `Start`: the dispatch `loop`, the `send` on `limitChan`
  that follows a spawn, the two waits, the stages of `merge`, the conversion.
* Each goroutine is `start`ed, looks at the context, `fetch`es, and has then
  `renamed` its file or `erred`; it counts or gives the segment `back`, and its
  `tail` is the receive from `limitChan`. Identifiers come from a pool;
  `PoolSuffices` proves that the pool does not restrict the code.
* Files are the set of segments whose final file exists. Contents, URLs, keys
  and temporary files are abstracted: an attempt succeeds or fails.
* Each failure of the file system that `merge` and the conversion can meet is a
  choice, also those whose error the code drops (`Flush`, `RemoveAll`).
* `Init` is the state after `NewTaskFromResult`: any set of segments may have
  been found complete, and output files of an earlier run may exist.
* The 10 ms sleep of the loop is a stuttering step.
* The output is what was copied into the buffered writer of `merge`; `TaskDir`
  has the flush behind it.

### TaskDir

One directory and, one after the other, the runs of m3u8 in it. A playlist
stands for what the metadata compare: url, file name, number of segments. Its
output is named after the file name alone (`OutputOf`, downloader.go:461-469), so
playlists may share one: `merge` of the one truncates what it finds of the other.

* `meta`, `ts` and `out` (by name) are the disk; the rest is the memory of the run. A
  segment file is the playlist it came from and whether it starts with the sync
  byte, without which `scanCompletedSegments` removes it.
* `pc` goes through `load`, `scan`, `wipe`, `save` (`NewTaskFromResult`), `fetch`
  (`Start`), `copy`, `clean`, `unclaim` (`merge`). A step is one change of one
  file.
* `Interrupted` stands for a kill and for every error return: both leave the disk
  as it is. The errors that the code drops (`os.Remove` in the scan, `Flush`,
  `RemoveAll`, a segment that `merge` cannot read) are choices of their steps.
* `DeleteMeta` and `DeleteSegments` are the user, who follows the advice of the
  refusal in part or in whole.
* `FlushMayFail` says whether the disk may refuse the last flush of `merge`. What
  holds only if it does not is said so.
* Temporary files are left out: metadata and segments come into being by a
  rename. The conversion touches neither metadata nor segments.

### TaskManager

Every process has a place `pc`, a task `job`, a copy `rec` of a record, and for
the loops over a list its `todo` and `slots`. The process that creates task `t`
is `t` itself; cancelling handlers, the workers, the recovery (`Boot`) and the
shutdown (`Stop`) are processes of their own. A step is one critical section of
`m.mu`, one call of the store, or one operation on the channel or a concurrent
map. The copies are the point of the model: `Cancel`, `runTask` and the progress
reporter write back what they read several steps before.

`m.mu` is a variable because `enqueue` sends with it held: `EnqueueBlocks` marks
the task and keeps the mutex, `SendUnblocks` gives it back; every other critical
section needs `Unlocked`.

A record is its status, its cancelled flag, and whether it has a date to expire.
The worker sets the date before it looks whether the output is there
(worker.go:138, 150), so a task whose output is missing is saved as failed with a
date, and removed later: `Dated` and the place `save_missing`. Playlists, progress
numbers, times and output descriptions are left out. Saves of records and loads of
existing ones succeed. `Crash` keeps the store only, and starts the next
process; it also stands for the restart after a shutdown. `delivered` and
`asked` are history variables: the tasks a download of which ended without
error, and those whose cancellation was accepted.

The `Cleaner` is `CleanupExpired`: it lists the records with an expiry date that
has passed, and then, task by task, saves the record as expired and deletes the
directory; a failing deletion ends the loop. Its list is a copy like the others.
Time is left out: a date, once it is set, may have passed at once
(`MayExpire`). It lists nothing after the process has exited. A record that is gone can no longer be loaded, and a worker then
goes on with the copy that was in the channel. Copies are not kept there, so
`Fresh` takes any copy that may have been queued, which is more than the code
can do.

### ExternalDecryptor

The goroutines that call the hooks of one script, the goroutine inside `doCall`
that reads the answer, `Close`, and the script itself.

* `callMu` is modelled, `procMu` is not: except when the decryptor is made, it is
  only taken with `callMu` held.
* `inbox` and `outbox` are the two pipes (the buffered reader is part of the
  second), `work` is what the script has read and not answered. `proc` says which
  start of the process `d.stdin` and `d.stdout` belong to; `alive`, that it has
  not exited.
* A reader is `spawned` and takes `d.stdout` only when it begins, without a lock,
  as the code does: it may find the pipe of a later process, another reader in
  the same `bufio.Reader` (a data race: the line is damaged, or is read and left
  behind), or none, which is a nil dereference (`panicked`). After a timeout it
  is an `orphan`, whose pipe is closed.
* `excess` is a history variable: the lines of this process beyond one for each
  request, be it that the script wrote one unasked (`strays`), or that two readers
  raced and left one behind.
* A request beyond the buffer of the pipe is written only while the script reads
  (`ChildReadsBig`). The deadline is not looked at before that.
* Errors are the classes that `isTimeoutErr` and `isDeadProcessErr` sort their
  texts into. A text of the script itself that says `timeout` or `broken pipe`
  is in these classes too, and `ChildAnswers` has it.
* The script is external; its steps are what the protocol allows, and what a
  script may do in spite of it.

### CryptService

A task is one call of `FromURL` and then one segment per key. Its steps are what
it does between two looks at the shared provider or at the registry.

* `active` is `prov.ActiveID`, which nothing locks. `Detect` and `ChooseHook` are
  separate steps, and other tasks come between.
* `mu` is held while a script is read or its process started (`Miss`, then
  `Loaded` or `LoadFails`); `loaded` counts the instances made and not closed.
* `Close` comes once, at any moment. A task may have a decryptor in hand then
  (`stale`); if that is one of the `External` scripts, its call fails and starts
  the process again (`revived`, external.go:134-135 and 156-158). `overtaken` is a
  history variable: the tasks that had not ended.
* `material` says who made each key (a provider, a script, or `raw`), `plain` who
  decrypted each segment (a script, the built-in decryptor, nobody because the
  key is empty, or nobody because of an error).
* `config` is what the command line, `decrypt.yaml` and the files in the scripts
  directory assign to each method, and the hooks that each script has. How a
  rule or a name is matched is abstracted to this assignment. Documents are
  constants (`Web`).
* `CommandLine` and `Server` are the two ways to set a service up: for one link,
  perhaps with a provider and its parameters, or for all tasks with neither.

### Playlist

One action per case of the switch of `parse`, in its order, then `Finish`, and the
pass over the byte ranges with its map `lastEndByURI`, one step per segment. A
line is its tag and the parameters that matter; a line whose value does not parse
is `malformed`. `doc` is a history variable, the lines read so far, and the
properties compare the result with what the whole document says, segment by
segment and by its `Position`. Arithmetic on ranges wraps at `Modulus`, as uint64
does at 2^64. The line after `#EXT-X-STREAM-INF` is taken as the URI of the
variant whatever it says, unless it is empty or starts with `#`, which fails; if
there is none, `parse` panics.

## 3. What TLC checks

### Downloader

| Run | Instance | Shows |
|---|---|---|
| `downloader` | 3 segments, concurrency 2, 1 retry, conversion, 3 goroutine identifiers, no symmetry | `TypeOK` and all properties of section 4 with a cancellation at any step and any resumed set: safety, `Termination`, `CancelHonoured`, `ImplementsJob` |

With three segments and two tokens the queue can be empty while goroutines are
at work, a retried segment can overtake another, and the loop can block on the
channel; one retry distinguishes a retry from giving up. The proofs show that
the safety results do not depend on these numbers.

Fairness: weak fairness of `Start` and of each goroutine. The Go scheduler runs
what can run, a request ends because the HTTP client has a timeout of 60 s, and
`wg.Wait` and the channel operations, once possible, stay possible. ffmpeg has no
timeout: that it ends is an assumption. Nothing is assumed of `Cancel`.

### TaskDir

| Run | Instance | Shows |
|---|---|---|
| `taskdir_resume` | playlists of 3, 2 and 1 segments, of which the first two have one file name, a kill at any step of any run, no limit on the runs | `TypeOK`, `OutputUnmixed`, `OkMeansWhole`, `ImplementsResumable`, `EveryoneDelivered` |
| `taskdir_flush` | the same with `FlushMayFail` | a counterexample to `RemovedOnlyAfterMerge`: a segment is removed and its output is empty |

The state of the directory is finite without a bound on the runs, so the run
covers every number of kills, refusals and deletions. A longer and a shorter
playlist leave segments beyond the end of each other; two with one output take it
from each other, and a third with its own sees that nothing else is touched.

Fairness: weak fairness of the steps of a run, strong fairness of each `Run(p)`:
the user tries again, as README.md:130 tells. Interruptions may come for ever;
`EveryoneDelivered` has as its premise that they stop.

### TaskManager

| Run | Instance | Shows |
|---|---|---|
| `manager_safety` | 2 requests, 1 worker, 1 cancellation, shutdown, 1 kill, symmetric | `TypeOK`, `NoSendOnClosed`, `NoPhantomDispatch`, `CompletedMeansDelivered`, `AllReturned` |
| `manager_recovery` | 3 tasks left on disk, cancelled ones among them, 2 workers, 1 kill, symmetric | `RunningCounts`, `RegistryPointsAtRunner`, `NoTaskStranded` while `Recover` and the workers dispatch at once |
| `manager_backlog` | 3 tasks left on disk, none cancelled, 1 worker, 1 kill, expiry, fairness | `OnlyDeliveredRemoved`, `BacklogDrains`, `AllReturned` for what `Recover` counts |
| `manager_lostcancel`, `_hang` | the smallest instance that shows it | counterexamples, section 6 |

One worker makes every second task wait, so queueing, refusing and draining all
happen with two or three tasks; two workers are what recovery and dispatching at
once need. One cancellation and one kill, each at any step, meet every state of
the rest.

`manager_safety` and the runs with a counterexample switch TLC's deadlock check
off, because the server does block for ever (`manager_hang`): the states before
that are still explored and checked. `manager_recovery` and `manager_backlog`
check deadlock as well: without requests the block cannot happen.

Fairness: weak fairness of `CleanupExpired`, which a ticker calls; strong
fairness of every process that has begun its work, for Go's mutex hands the lock to a waiter that has waited long enough, and of the end of
a download, which reports each segment once and cannot go on reporting. Users
need not come, and neither must signals nor kills.

### ExternalDecryptor

| Run | Instance | Shows |
|---|---|---|
| `external_calls` | 2 calls, one with a request larger than the pipe, one line that nobody asked for, `Close`, restarts that fail | `TypeOK`, `InStep`, `KillSparesOthers`, `CallsReturn`, `ImplementsScriptCalls` |
| `external_hang` | the same, without stray lines, and a script that may stop reading | a counterexample to `CallsReturn` |

Two calls are what one goroutine and the reader left behind by another need to
meet, and each call may have two attempts and two readers. The stray line shifts
every answer after it by one, which a second one only repeats. The reader left
behind may also lose a line of a script that writes one for each request.

Fairness: `CallersFair` is the Go scheduler, the timers, and a mutex that goes to
a waiter; `FairSpec` adds that the script goes back to its stdin, as the loop in
`scripts/README.md` does. That it answers in time is not assumed. `HangSpec` does
without the script's part. The deadlock check is off: when all calls have
returned the system is at rest, and after a panic it is down.

### CryptService

| Run | Instance | Shows |
|---|---|---|
| `cryptsvc` | 2 tasks; a master playlist, one of each provider, one that needs a script and has a segment without encryption, an empty one; 2 scripts, forced, by rule, by name or not at all, with every set of hooks; a `Close` at any moment | `TypeOK`, `CloudKeysByProvider`, `NothingLeftBehind`, `TasksEnd` |

Two tasks on playlists of different providers are the smallest case in which one
changes the provider of the other; both may need the same script, and one can be
overtaken by the `Close` that the other is not. One of the scripts is a process.

Fairness: weak fairness of each task. Requests, hooks and the start of a process
end, the first two within their timeouts (but see `external_hang`).

### Playlist

| Run | Instance | Shows |
|---|---|---|
| `playlist` | every playlist of at most 7 lines, one of them without meaning, 2 URIs, 3 byte ranges (implicit, explicit, of length 0), offsets modulo 4, symmetric | `TypeOK`, `SegmentsAsListed`, `KeyInForce`, `ImplicitRangesAdjoin`, `VariantsAsListed` |

Seven lines hold a header and three ranges with their URIs, so that an implicit
range follows an implicit one, across another resource or a wrap at the width.

## 4. The properties

Downloader: `Partition` (a segment is in exactly one of queue, goroutines,
given up, finished), `Throttled` (tokens stand for goroutines), `SettledAtEnd`
(the loop ends only when all is settled), `OkMeansDelivered`,
`GivenUpAfterAllRetries`, `FilesKeptUntilMerged`; `Termination`,
`CancelHonoured`; `ImplementsJob`. `FinishCounts`, `MergeSeesAll` and
`QuietAfterReturn` are proved, and the ones before rest on them or imply them.

TaskManager: `NoSendOnClosed` (a process that waits to send holds the mutex, and
the channel is not closed under it), `CompletedMeansDelivered`, `RunningCounts`,
`RegistryPointsAtRunner`, `NoPhantomDispatch` (a dispatch mark has a task behind
it), `OnlyDeliveredRemoved` (the cleanup works on an old list, and yet removes
only tasks of which a download ended without error, be its output found afterwards
or not), and of the states where nobody is at work `NoTaskStranded` and
`AllReturned` (no slot and no parsed playlist is kept; that no slot is given back
twice does not show, since the counter stops at 0, and does not hold, section 6);
`BacklogDrains`.

TaskDir: `OutputUnmixed` (an output holds segments of one playlist only, one with
its file name), `OkMeansWhole`, `RemovedOnlyAfterMerge` (merge removes a segment or
the metadata only when its playlist is whole in its output), `ImplementsResumable`
(an output, of whichever playlist with its file name, is given up only once all
segments of the next are here), `EveryoneDelivered` (once the interruptions stop, whoever tries again gets every
playlist, whatever earlier runs left behind).

ExternalDecryptor: `InStep` (when no call holds the mutex, the pipes of a live
process have no more in them than it has had lines too many; so timeouts, deaths
and refusals leave nothing behind, only a script that writes unasked and a race of
two readers do), `KillSparesOthers` (no call has the process
stopped under it by another), `CallsReturn`, and `ImplementsScriptCalls`, of
which `OwnAnswer` is the heart: a caller acts on an answer only if the script
gave it to that very request.

CryptService: `CloudKeysByProvider` (of a playlist with a provider's signature,
each key for which neither the command line nor a rule names a script is made by
that provider, whatever other tasks activate meanwhile), `NothingLeftBehind` (of
each script there is one instance, in the cache, or none; a `Close` after the last
task leaves nothing running, one that overtakes a task may), `TasksEnd`.

Playlist: `SegmentsAsListed`, `KeyInForce`, `ImplicitRangesAdjoin`,
`VariantsAsListed`.

Each property of a passing run has a mutant in `PROJECT.json`: a plausible bug of one operation (the
definitions named with a suffix `_...` beside the faithful one) under which TLC
finds it violated.

## 5. What is proved

`Downloader_proofs` proves, for every playlist length, concurrency, retry limit
and pool (`DownloaderAssumption`: the lengths are natural numbers, concurrency
is positive as `Start` demands, the pool is finite and larger than
`Concurrency`), in layers of which each uses those before it:

1. `TypeCorrect`.
2. `PartitionCorrect`. Inductive relative to the types: most steps leave all
   places of a segment alone (`ElsewhereKeepsPlaces`), and the others move one
   segment (`PopQueue`, `PushQueue`, `LetGo`).
3. `FinishCountsCorrect`: a segment counted now was not finished before, which is
   `Partition`.
4. `ThrottledCorrect`, and from it `GoroutinesBounded` and `PoolSuffices`.
5. `SettledAtEndCorrect`: `EndMeansSettled` turns the two comparisons of `next()`
   into sets, by the cardinalities of layer 2 and 3. It covers all places after
   the loop, which makes it inductive.
6. `GivenUpAfterAllRetriesCorrect`.
7. The merge: `OnDiskCorrect`, `MergeAloneCorrect`, `MergeOrderCorrect` and
   `OutputFilesCorrect` are the strengthening under which `MergeSeesAllCorrect`
   and `OkMeansDeliveredCorrect` follow; then `FilesKept` and `Quiet`.
8. `DownloaderImplementsJob`: the initial states map to initial states of
   `SegmentJob`, and each step to one of its steps or a stutter.

`TaskDir_proofs` proves, for any set of playlists of any positive lengths, whichever
of them share an output (`TaskDirAssumption`), and any number of runs:

1. `TypeCorrect`.
2. `DirInvCorrect`, the inductive invariant, in four parts: `Owned` (every
   segment that a run will trust is of the playlist in the metadata), `Claimed`
   (how the metadata and the arguments of the run are related at each place),
   `Counted` (what the run counts as done) and `Copied` (what merge has copied).
   `OutputUnmixed` alone is not inductive: the mixing is done at the merge, but
   caused runs earlier, when the metadata of one playlist meet segments of
   another. The scan must have seen all segments, and the wipe must come before
   the metadata; `Counted` carries the first and `Claimed` the second.
3. `OutputUnmixedCorrect`.
4. If the disk takes what merge flushes (`~FlushMayFail`):
   `WholeWhenMergedCorrect`, and from it `OkMeansWholeCorrect`,
   `RemovedOnlyAfterMergeCorrect` and `TaskDirImplementsResumable`. `taskdir_flush`
   shows that the proviso is needed.

`TaskManager_proofs` proves, for any finite sets of tasks, workers and cancelling
handlers, any records left behind that `Recover` looks for, and any number of
kills (`TaskManagerAssumption`, which also keeps the names of the processes
apart), in layers of which each uses those before it:

1. `TypeInvariant`: types, `PlacesOK`, `JobsGiven` (where a process has a task in
   hand) and `RunningCounts` are inductive together; `TypeCorrect`,
   `RunningCountsCorrect`, `RegistryCorrect`.
2. `MutexInvariant`: who holds `m.mu`, and that it is free in a shutdown. From it
   `NoSendOnClosedCorrect` and `NoPhantomDispatchCorrect`.
3. `CompletedCorrect` with `VerdictsKnown`: a copy that may be saved as completed
   belongs to a task that was delivered.
4. `RemovalInvariant` and `OnlyDeliveredRemovedCorrect`: `CopyHeld` confines the
   copies, and `ExpiryDelivered` says that a date, or a record that somebody has
   in hand and that is gone, means that a download of the task ended without error. Without the copies the property is
   not inductive: the cleanup saves what it read several steps before.
5. `NoTaskStrandedCorrect`: `WaitingIsSeen` says that while a task waits somebody is
   at work who will look at the tasks afterwards, or is looking and has the task on
   the list and a slot for it; `RunningHasRunner` covers the records that say
   running.
6. `BalanceInvariant`: everyone who will give a slot back, and every task that
   waits, is a holder, and the slots in use are at most as many (`SlotsHeld`); a
   playlist is kept only for a task on its way (`ParsedInPipeline`). From it
   `PlaylistsReturned`, which has no proviso, and `AllReturnedCorrect`.

The slots do not always add up after a restart. `Recover` counts every record
that is pending or running (manager.go:311), also a running one whose
cancellation was accepted before the kill, and such a record beyond `MaxTasks` is
never dispatched: `dispatchPending` skips it, and its slot stays taken.
`AllReturned` therefore asks for the slots only if `Accountable`: no record was left
behind cancelled, and either the process was never killed, or nobody cancels and
nothing expires. `manager_backlog` has it for what `Recover` counts in the first
process, and `manager_safety` for the requests, and after a kill if nobody
cancelled.

`ExternalDecryptor_proofs` proves, for any calls, any of which may exceed the pipe,
and any number of stray lines:

1. `TypeCorrect`, with `FirstOnly`: only a first attempt is followed by a restart.
2. `SerialCorrect`: `callMu` is held by the call whose request is underway; from it
   `KillSparesOthersCorrect`.
3. `Waiting`: what each call waits for, and that its reader is no orphan.
4. `TraceableCorrect`: ids in the pipes, in the channels and in the script's hands
   come from calls that have begun. With `Waiting` it gives `OwnAnswerCorrect`, and
   step by step `DecryptorImplementsCalls`.
5. `InStepCorrect`, of which `Lockstep` is the inductive form: beyond its excess a
   live process has at most one request in its pipes, and its call still waits.
   `InStep` speaks only of the moments when the mutex is free; what makes it true
   is what a timeout leaves behind while it is held.

`CryptService_proofs` proves, for any finite sets of tasks and links, any scripts and
configurations, and documents with any number of keys:

1. `TypeCorrect`, inductive together with `InHand` (the key a task has in hand is one
   of its playlist), `LoadsAlone` (who loads a script holds the mutex) and
   `InstancesCounted` (one instance of what is in the cache, none of the rest).
2. `NothingLeftBehindCorrect`: `CloseLast` says that after a `Close` that overtook
   nobody the tasks have ended for good, so nothing is loaded or called any more.
3. `KeysInvCorrect`: `KeysMade` and `PlainByTarget` say who may have made a key and
   decrypted a segment, by the configuration alone. `OneProvider` and `ProviderHolds`
   say why the shared provider does no harm: several tasks exist only in the server,
   where no parameters are given and only Aliyun's provider can be activated.
4. `CloudKeysByProviderCorrect` follows.

`Playlist_proofs` proves, for documents of any length, any resources, methods and
ranges, and offsets of any width:

1. `TypeCorrect`.
2. How the references change with a line (`LinesAdded`, `TagsStay`, `TagsOpen`,
   `SegmentsAdded`, `Positions`): a line changes nothing about those before it.
3. `ListedCorrect`: `Tracked` relates what the automaton remembers (`extInf`,
   `extByte`, `variant`, `keyIndex`, the key of the open segment) to the document.
   `SegmentsAsListedCorrect`, `KeyInForceCorrect` and `VariantsAsListedCorrect` are
   parts of it.
4. `ResolvedCorrect`: the map has the end of the last range of each resource that the
   pass has come past; `ImplicitRangesAdjoinCorrect` follows.

`TaskManagerAssumption`, `ExternalAssumption`, `CryptAssumption` and
`PlaylistAssumption` say no more than that the sets are finite where the code
counts them, that names of different things differ, that constants have their
types, and, in `CryptAssumption`, that no master playlist leads back to itself.

Every invariant and every action property of a run without a counterexample is
proved; `OkMeansWhole`, `RemovedOnlyAfterMerge` and `ImplementsResumable` under the
proviso above. Only model-checked are `Termination`, `CancelHonoured`, `EveryoneDelivered`,
`BacklogDrains`, `CallsReturn` and `TasksEnd`: liveness under fairness, which the
prover does not reach.

## 6. Where the code and its documentation disagree

* `taskdir_flush`: a failed last `Flush` of the merge is ignored, and the segments
  are removed, although the output is short (downloader.go:426, 433-434).
* `manager_lostcancel`: the worker saves a record it read before a cancellation
  was saved; the task completes although `Cancel` answered without error.
* `manager_hang`: `enqueue` sends with `m.mu` held; with the duplicate of the last
  item the channel is full and the only worker is the sender.
* `external_hang`: `doCall` writes a request with `callMu` held and before it looks
  at the deadline. A script that stops reading blocks it for ever, and every
  other call and `Close` with it; `external_timeout` is said to bound it.

Four more are stated in the modules and not among the runs. Each is violated,
under `Spec`, by the instance in brackets. In `TaskManager.tla`:

* `DispatchedNotRunning` [2 tasks, 1 worker]: `Create` saves before it enqueues,
  and a worker that looks for pending tasks in between enqueues the same task.
* `AdmissionBounded` [3 tasks, 1 worker, 1 cancellation]: `Cancel` gives back the
  slot of a task a worker has just received; the worker gives it back again.
* `CancelledOnRequest` [1 task left on disk, `MayShutdown`]: running tasks are
  saved as cancelled at a shutdown and are not recovered.

In `CryptService.tla`:

* `ProviderBeforeRules` [that of `cryptsvc`]: README.md:160 and
  scripts/README.md:145 put the built-in provider before the rules of
  `decrypt.yaml`. service.go:69 asks `HasExplicitScript` first, which counts such a
  rule as a script the user asked for (registry.go:76-81), so with a rule for
  AES-128 and no `-decrypt-script` the rule's script makes the keys of a playlist
  with a provider's signature. `CloudKeysByProvider` takes no side: it leaves out
  the keys for which a rule names a script.

Found while reading, and not a property of the models:

* An IV in the playlist overrides the IV that a key hook has returned
  (`downloader.go:267`).
* `testdata/echo_decrypt.py` answers a `full` request with `unknown hook`, not
  with `not implemented`, which fails the segment instead of trying `segment`.
* README.md:229 calls the retention one of completed tasks; a failed task whose
  output was missing has a date to expire too, and is removed with them.
* The command line's `os.Exit(1)` skips `Close`.

Not counted as disagreements, as nothing in the repository says otherwise:
`GoroutinesBounded` is `Concurrency + 1`, because `Start` spawns before it takes
the token; a running record with an accepted cancellation is recovered as
pending, and beyond `MaxTasks` of them nobody takes it up or gives its slot back
(`NoTaskStranded` speaks of tasks that nobody cancelled, and see `AllReturned` in
section 5); after a kill between `RemoveAll` and
`RemoveTaskMeta` the directory refuses other playlists although it is delivered,
until the same one is run again; a segment whose key is empty is kept as it came;
a segment with `#EXT-X-BYTERANGE` alone has no key (`KeyInForce` says so); a late
save, or a second run, brings back a record that the cleanup has removed; playlists
with one file name, `main` if none is given, overwrite each other's output;
a key between `#EXTINF` and its URI does not reach that segment; a call on a closed
external decryptor starts its process again, and nobody closes it (`revived`);
after a line too many every call of a script fails on the wrong id, as that does
not restart the process (external.go:127-138), until it dies or times out; `List`
panics on a negative offset (manager.go:162), from which net/http recovers.

## 7. What is not modelled

The formatting of requests and answers, authentication, flags and logging; the
bytes of segments, playlists and keys, and with them AES and the padding; ffmpeg
and the network beyond success and failure. Two runs at once in one directory.
In TaskManager the progress numbers and failing saves: with those a record may
say running until the next start. In the decryption service the rewriting of
URLs, the rules and the checks on a script's path, the functions that Starlark
scripts may call. The parser is given whole lines; a connection that breaks in
the middle ends the document there, which `Finish` allows after any line. A
master playlist that leads back to itself is excluded by `CryptAssumption`:
`FromURL` follows it for ever. The provider of one playlist stays for the next
ones without a signature, so `CloudKeysByProvider` speaks only of those with one.
Each is a line of `components` or `hazards` in `PROJECT.json`.
