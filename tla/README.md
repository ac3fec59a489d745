# A TLA+ model of out-of-container

out-of-container lets an agent inside a container run build and test commands
on its host. `ooc-server` is one Go process: an HTTP server whose handlers
check a command against a whitelist, run it, and record it; `ooc-client` sends
one request and prints the answer. This directory models both, from the start
of a server to its end, checks the models with TLC on small instances, and
proves with TLAPS, for every instance, the invariants and action properties the
runs check and two of three refinements.

Contents: [inventory](#1-inventory) · [modules](#2-modules-and-how-they-correspond-to-the-code) ·
[runs](#3-what-each-run-checks) · [fairness](#4-fairness) · [proofs](#5-what-is-proved) ·
[findings](#6-where-the-code-and-its-documents-disagree) · [not modelled](#7-what-is-not-modelled-and-why) ·
[plan](#8-plan)

## 1. Inventory

| Component | State | Operations | Talks to |
|---|---|---|---|
| **Asynchronous task service** `internal/task/manager.go`, `memory_store.go`, `task.go`, `handlers/task.go` | the map of tasks under an RWMutex; a WaitGroup; each task's heap object | `POST /task` → `SubmitTask`; `GET /task/{id}`; `executeTask` (one goroutine per task); `CleanupExpired` on a ticker; `Close` | whitelist checker, executor, auditor |
| **Executor** `internal/executor/executor.go` | none of its own; per command: a context with deadline, two `LimitedBuffer`s, a `SharedCounter` | `Execute`, `LimitedBuffer.Write`, `SharedCounter.CanWrite` | the operating system's processes |
| **Synchronous endpoint** `handlers/exec.go`, `concurrency/limiter.go`, `auth/middleware.go` | the limiter's channel | one HTTP request, start to finish | checker, executor, auditor |
| **Auditor** `internal/auditor/logger.go` | a channel of 1000 entries, a context, the log file and its rotated copies | `Log` (never blocks), `writerLoop`, `writeEntry`, `rotateLog`, `Close` (5 s limit) | the file system |
| **Whitelist checker** `internal/whitelist/checker.go` | config, compiled rules, modification time, under an RWMutex | `IsAllowed`, `reloadConfig`, `loadConfig`, `compileRules`, `GetConfig` | the config file |
| **Task persistence** `internal/task/persistence.go` | a JSON file, a ticker | `Start` (restore), `saveLoop`, `save`, `Stop` | the task store; nothing in the server starts it |
| **Config loader** `pkg/config/loader.go` | the config file | `Load`, `validate`, `InitConfig` | the file, which the checker reads again |
| **Wiring** `cmd/ooc-server/main.go` | the deferred calls of `run()` | starts the above, serves, leaves on a signal or a failed listen | all |
| **Whitelist-info endpoint** `handlers/whitelist_info.go` | – | one answer from a copy of the checker's config | checker |
| **Client** `cmd/ooc-client/main.go` | its exit status | discovery; one request, one answer | the server, over HTTP |
| Models, rules, validation | none | pure predicates | – |

Interaction is by direct calls and by goroutines: one per HTTP request, one per
asynchronous task, one per reload, one writer of the audit log, one cleanup
loop, two copying goroutines per command. What they share is guarded by one
mutex per component, with gaps *between* critical sections; those gaps are the
subject of the models.

What is hard to test here, and what would make each component right:

* **Tasks.** `SubmitTask` saves the task, adds to the WaitGroup and starts the
  goroutine in three steps, and returns the very pointer it stored; the handler
  reads it without the lock while the goroutine updates it. A sweep may remove a
  task before its goroutine fetches it or while it runs. Right means: nobody is
  left pending with no goroutine at work, the store and the audit trail agree,
  a client never hears of an earlier state after a later one, nothing is
  forgotten before its time, `Close` waits for whatever runs, and everything
  accepted comes to an end.
* **Commands.** The end of a process, the deadline, the kill of the leader, the
  children that hold its pipes, and the copying of output are all concurrent.
  Right means: the slots of the limiter are exactly the requests inside, no
  output written is missing from an answer, 408 leaves nothing of the group
  behind, and every request is answered.
* **Output buffers.** Two goroutines reserve bytes of one counter with a
  compare-and-swap. Right means: the limit holds for both together, no
  reserved byte is lost, what is dropped is reported, and nothing is kept after
  a gap.
* **Audit.** A queue that drops, a rotation made of many file operations each of
  which may fail, a crash in the middle. Right means: reading the files oldest
  first is an ordered trail without repeats that forgets only its beginning.
* **Start and end of the server.** The config file is read by `-init`, by `Load`
  and by `NewChecker`, one after the other, while somebody may save it; `run()`
  leaves through two deferred calls that wait, last deferred first. Right means:
  the settings of a server were validated and are never ahead of its rules, a
  task that ends during a shutdown still gets its audit entry written, and the
  process ends.
* **Client.** The connection may break at any moment while the server goes on.
  Right means: status 0 only for a command that ran to a good end, and a client
  that ends.
* **Persistence.** A save is a snapshot, a truncation and a write; `saveLoop`
  and `Stop` may save at once, and the process may end in between. Right means:
  what the next start reads is the last save, and every change is saved in the end.
* **Reload.** Any number of reloads overlap with edits of the file; a reload is
  eight steps. Right means: only contents that parse and compile decide, the
  two halves of the config agree, and a saved content is enforced in the end.

`PROJECT.json` lists these hazards at their lines, each with the properties
that cover it.

## 2. Modules and how they correspond to the code

A module per component, an `MC...` module per component that TLC runs, a
`...Proofs` module per component that is proved about, and an abstract
specification where a component promises something a client could state.

| Module | Role |
|---|---|
| `TaskLifecycle` | abstract: what a client that polls one task may see |
| `TaskManager` | the task service and its handlers; implements `TaskLifecycle` |
| `TaskManagerProofs` | its proofs |
| `Admission` | abstract: what a limiter of N promises |
| `ExecHandler` | the synchronous endpoint, `Execute` and the processes; implements `Admission` |
| `ExecHandlerProofs` | its proofs |
| `LimitedBuffer`, `LimitedBufferProofs` | `LimitedBuffer.Write` and `SharedCounter.CanWrite` under concurrent writers |
| `AuditTrail` | abstract: what a reader of the audit files may rely on |
| `Auditor`, `AuditorProofs` | the queue, the writer, the rotation, `Close`, crashes; implements `AuditTrail` |
| `WhitelistChecker`, `WhitelistCheckerProofs` | the config file, the loader, the start of `run()`, the checker and its reloads |
| `Persistence`, `PersistenceProofs` | the file, `saveLoop`, `Stop`, and restarts |
| `Client`, `ClientProofs` | composition: one `ooc-client` per request, over `ExecHandler` |
| `Server`, `ServerProofs` | composition: `run()` over `TaskManager` and `Auditor`; implements `Auditor` |

Definitions marked `mutant` beside the one they would replace are plausible
bugs; each property is broken by at least one of them, and none of them is part
of a specification.

**TaskManager.** `task[t]` is the heap object and `stored` the keys of the map,
so an object outlives its entry as in Go. Every critical section of the store
is one action: `CreateTask` (the submission passed the whitelist and `NewTask`),
`SaveTask` (`Save`), `Launch` (`wg.Add` and `go`), `ReadPointer`/`ReadLength`
(the handler's unlocked read of a string the goroutine writes under the lock:
its pointer and its length are two reads, so the answer may be a
mixture, `"garbled"`), `FetchTask`, `MarkRunning`, `RunCommand`, `FinishTask`,
`AuditTask` (`executeTask`, with its early returns), `ComputeCutoff` and
`Sweep` (the cutoff is computed before the lock is taken), `Close` and
`CloseReturns`, `Poll` (the GET handler). `RefuseTask` keeps the code's
comparison of error texts (`RefusalCode`): `SubmitTask` wraps its errors in
more words than the handler compares with, so every refusal is answered 500,
where docs/API.md:173 has 403.

**ExecHandler.** One request goes through `Acquire` (or `Unauthorized`, or a
full limiter's 503), `Refuse` (all checks before execution are one choice),
`Start`/`StartFails`, `WaitReturns`, `CheckTimeout`, `KillGroup`,
`AuditAndRespond`, `Release`. Beside it run `DeadlineFires`, `KillLeader`
(`exec.CommandContext`'s goroutine), `Copy` (os/exec's copying goroutines) and
the processes themselves (`LeaderExits`, `Fork`, `ChildExits`, `Emit`). A child
is one more process of the group, which holds the pipes or has redirected its
output. `WaitReturns` needs the leader gone, no child holding the pipes and
everything copied: that is os/exec's `Wait` with a writer that is not a file and
no `WaitDelay`. `Copy` adds to the buffer and to nothing else because
`LimitedBuffer` inherits `ReadFrom` of the `bytes.Buffer` it embeds and `io.Copy`
prefers it (section 6). `Release` is the deferred receive and comes after the answer.

**LimitedBuffer.** `Write` as `Lock`, `Test` (already truncated), `Load` and
`CompareAndSwap` (`CanWrite` of a shared counter, with its retry) and `Store`,
each a step; a chunk is its length. `offered` is a history variable: what was
passed to a buffer, in the order of its mutex.

**Auditor.** Entries are numbered; a file is the sequence of its lines. A
failed `Write` may leave a fragment without newline (`0`), and the next entry
then lands on that line and is unreadable (`-e`). `Fail` is any operation of
`writeEntry` or `rotateLog` failing; `Restart` is the end of the process at any
step, followed by a new auditor on the files as they are.

**WhitelistChecker.** Edits of the file are numbered, and an edit's number is
its content and its modification time; a content is good, passes everything but
`Load`'s validation (a reload takes it), has a bad regex, does not parse, or the
file is gone. A reload goroutine is `StatFile`, `CompareTime`,
`KeepOld`, `ReadData`, `StatAgain`, `Install`, `CompileRules`, `Restore`: one step per
critical section or file operation, in the code's order (content first, time
second). Before that, `LoadSettings` is `Load` (read, parse, validate) and
`NewChecker` lets the main goroutine take the steps `ReadData` to `CompileRules`
in a reloader's place; `GiveUp` is `run()`'s exit on its error. `InitCheck` and
`InitWrite` are `InitConfig` in a process of its own: a Stat, and later a write
that may be torn. `InfoAnswer` is `/whitelist-info`. `overlapped` and `raced` are history variables that only say in which
states the stronger properties are claimed.

**Persistence.** The store's content is a version, of whose encoding only the
length matters (`Size`): a byte of the file is the version it belongs to, so a
file parses when it is exactly one encoding. `save` is `Snapshot` (`GetAll`),
`OpenFile` (`O_TRUNC`) and `WriteFile` (from offset 0 of the saver's own
descriptor: what a longer write of the other saver left beyond it stays);
`SaveFails` is any of the two file operations failing, with a part written.
Two savers, `"loop"` and `"stop"`, take these steps without a lock. `Restart` may
come at any step. `overlap`, `disturbed`, `saved` and `mark` are history.

**Client.** `ClientNext` composes every step of `ExecHandler` with a client per
request: `LeaveEarly`, `Discover`, `Send`, `LoseConnection`, `ReadAnswer`. A
request arrives (`Arrive`) once, and also after the connection broke; the
handler never looks at the connection. `code` is the command's exit code as
`Wait` reports it, -1 for an end by a signal; `ExitByte` is what `os.Exit` makes
of it.

**Server.** The variables of `TaskManager` and `Auditor` side by side. `AuditTask`
is `executeTask`'s audit together with the `Log` it calls; `AuditRequest` is
the synchronous endpoint's. `deferred` is the stack of calls `run()` has still
to make, `Unwind` makes the next one when the last has returned. `Kill` is any
signal but the two `run()` asks for. Polls, the auditor's faults and its restart
are left to the components' own runs.

## 3. What each run checks

All figures are from TLC with two workers; every run takes less than three minutes.

| Run (cfg) | Bounds | States | Shows |
|---|---|---|---|
| `TaskManager` | 2 tasks, TTL 0, clock to 1 | 1 675 250 | `TypeOK`, `DurationDefined`, `NoOrphan`, `AuditMatchesStore`, `CloseWaits`, `RetentionRespected`, `ToldMonotone`, `ImplementsLifecycle` |
| `Server` | 1 task, TTL 0, clock to 1, 2 entries, queue 1 | 85 490 | the liveness `AcceptedSettles`, `ExpiredForgotten`, `AuditedReachesFile` |
| `Auditor` | 7 entries, queue 2, file size 2, 2 rotated files, 1 fault, 1 restart | 467 815 | `TypeOK`, `TrailOrdered`, `OnlyOldestForgotten`, `DrainedOnClose`, `ImplementsTrail` |
| `WhitelistChecker` | 2 reloads at once, 3 edits | 868 684 | `TypeOK`, `OnlyGoodRules`, `ConsistentWithoutOverlap`, `CurrentWithoutRace`, `SettingsOldest`, `GoodEditIsPickedUp` |
| `Client` (run `exec_handler`) | 2 clients, capacity 1, 1 chunk | 114 356 | `ClientTypeOK`, `NothingLost`, `TimeoutKillsGroup`, `AuditedAreCompleted`, `ZeroMeansDone`, `ImplementsAdmission`, `ClientEnds` |
| `LimitedBuffer` | 3 writers, limit 2, chunks to 2, 2 writes each | 983 172 | `TypeOK`, `LimitHolds`, `CounterExact`, `TruncatedExact`, `TruncatedIsFinal`, `WriteReturns` |
| `Persistence` | 4 changes, 2 faults, 2 restarts, encodings of 1 to 3 bytes | 137 869 | `TypeOK`, `ReadableUnlessDisturbed`, `StopSaves`, `RestartRestoresLastSave`, `ChangeReachesFile` |
| `ServerExit`, `WhitelistMixed`, `WhitelistLost`, `ExecHandlerOutput`, `ExecHandlerTimeout` | smallest that shows it | – | one statement of a document or comment each, which TLC refutes: section 6 |

Why these bounds are enough for what they are meant to show:

* Two tasks are needed for one sweep to take several and for the WaitGroup to
  count more than one; the tasks touch each other in nothing else. TTL 0 with
  one tick makes the sweep able to remove a task at every step of its life
  (and it is the TTL of a server whose config has no `task_ttl_hours`), and a
  cutoff age while the sweep waits for the lock. A longer TTL is covered by the
  proof of `RetentionHolds`.
* One task and one more entry are enough for `Server`: the entry may find the
  queue full or the writer busy, and end before, while or after `run()` leaves.
* Seven entries are more than three files of two lines hold, so the oldest file
  is pushed out and a rotation happens again afterwards; one fault and one
  restart may each fall at every step of it. `Capacity` 2 lets the queue be
  full, and drained, with an entry under way.
* Three edits let a reload miss one, be overtaken by another and still find a
  newer; two reloads are the smallest overlap. The bound on edits makes the last
  one permanent, which is what the liveness properties are about.
* Two clients are one more than the limiter admits. One chunk of output is
  enough to be written before or after the leader ends, the kill and the
  deadline; a second only repeats it, and the run on `OutputLimited` has two.
  More requests and a greater capacity are covered by the proofs.
* Three writers on two buffers give two that compete for a mutex and one that
  moves the shared counter under them. Chunks of 0, 1 and 2 against a limit of 2
  fit, fill, straddle and exceed it.
* Encodings whose length alternates make a save shorter and longer than the
  last; four versions let both savers hold older ones than the store; two faults
  and two restarts let a torn file be met, refused, and met again.

No symmetry is declared: most runs check liveness or refinement, where it is
not sound. Deadlock is checked on `WhitelistChecker`, which never stops; the
other systems really stop (every request answered, the process ended, the
bounds used up).

## 4. Fairness

* `Server`: weak fairness on the handler from `SaveTask` on, on the task's
  goroutine, on the cleanup loop, on the auditor's writer, on `run()` and on
  time: the Go scheduler runs what can run. No submission, signal or failed
  listen is required. That `RunCommand` comes back is an assumption about the
  executor; `Client`'s `ClientEnds` says when it is met: unless a child of the
  command keeps its pipes open. `AuditedReachesFile` counts an entry that a full
  channel dropped as settled, because `Log` promises no more.
* `Client`: weak fairness on the arrival of a request whose connection holds, on
  the handler, the deadline, the kill, the copying and the client's read. None
  on the processes: a command need never exit. `ExecHandlerTimeout` checks
  `ExecHandler` alone under the same fairness.
* `Persistence`: weak fairness on the ticker and on each saver's steps; a fault,
  a restart or `Stop` is never required, and bounded faults leave a save that succeeds.
* `WhitelistChecker`: weak fairness on the start of `run()`, on the reload's steps, and on `Spawn`,
  because nothing but a request starts a reload: the liveness properties are
  about a server that is used. `Edit` is not fair.
* `LimitedBuffer`: weak fairness on each writer's steps. `Lock` is one of them
  and weak fairness is enough here because calls are bounded; a Go mutex
  hands itself to a starving waiter, so no stronger assumption is made.

## 5. What is proved

For every value of the constants: any tasks, TTL and clock bound; any requests,
capacity and output; any writers, limit and chunks; any number of reloads and
edits; any changes, faults, restarts and lengths of encodings; any channel, log
size, number of files and entries. The assumptions are the named `ASSUME`s of
the modules: numbers are natural; `Tasks` and `Requests` are finite (they are
counted); an encoding and the audit channel have room for at least one byte and
one entry; at least one reload can run; and `Server` leaves room in its bound on `Log` calls for one entry of each task
(`RoomAssumption`), so that the bound only limits requests' entries, which
`BoundLeavesRoom` shows to be so.

Each inductive invariant was model-checked on a run's instance before it was
proved.

**TaskManagerProofs.** `Spec => []IInv` (`InvariantHolds`). `IInv` adds to the
types that the WaitGroup is exact, that a cutoff is never younger than TTL, and
for each task that the handler, the goroutine, the object, the audit entry and
what the client was told agree (`HandlerInv`, `ObjectInv`, `AuditInv`,
`ToldInv`). `NoOrphan` is not inductive on its own: that a pending task has a
goroutine at `get` or `mark` needs that `MarkRunning` only finds what
`FetchTask` left, which is `ObjectInv`. From it follow `DurationAlwaysDefined`,
`NoTaskOrphaned`, `AuditAgrees`, `CloseWaitsForAll`, `RetentionHolds`,
`ToldNeverGoesBack`, and, one action at a time, that the service implements
`TaskLifecycle` (`ServiceImplementsLifecycle`).

**ExecHandlerProofs.** `Spec => []IInv` (`ExecInvariant`): the semaphore equals
the number of requests inside (`SlotsExact`), and `RequestInv` ties the
processes, the buffers, the answer and the audit to where the handler is. From
it `CommandsAreBounded` (the running leaders are a subset of the slots),
`OutputComplete`, `TimeoutIsClean`, `AuditIsOfCompleted` and `LimiterKeepsPromise`
(the endpoint implements `Admission`).

**LimitedBufferProofs.** `Spec => []BInv` (`BufferInvariant`). The limit is not
inductive: two writers between reservation and store have promised bytes that
no buffer shows yet. `CounterInv` accounts for them (the counter is what is
kept plus what is reserved); `MutexInv` makes a reservation unique per buffer;
`WriterInv` says what a writer past its test knows; `BufferInv` relates what is
kept to what was offered. With it `LimitIsKept`, `CounterIsExact`,
`TruncationIsReported` and `TruncationIsFinal`. A corollary met on the way: a
buffer on a shared counter never takes the branch of `Write` that keeps part of
a chunk, because the reservation leaves room for all of it.

**ClientProofs.** `ClientImplementsHandler`: every behaviour of clients and
endpoint together is a behaviour of the endpoint, whatever the clients do, so
that all theorems of `ExecHandlerProofs` hold of the composition. On top of it
`ClientInvariant`: a client that ended with an answer has the status of that
answer, and neither the answer (`AnswerStays`) nor the command's code
(`CodeStays`: the leader of an answered request is gone) changes any more. With
`IInv` it gives `ClientIsTyped` and `ZeroIsDone`.

**WhitelistCheckerProofs.** `Spec => []WInv` (`CheckerInvariant`). What decides
in the end is a content some goroutine read many steps ago, so `WInv` says of
every goroutine what it may hold: a content that was in the file, no older than
the settings of `run()`, with a time no newer than the file (`LocalInv`); of the
checker that its rules compiled and its config parsed (`CheckerInv`); and of the
start that nobody but `NewChecker` works before the server serves (`StartInv`).
`ConsistentWithoutOverlap` is not inductive: between `Install` and `CompileRules`
config and rules differ. `OverlapInv` says that as long as reloads did not overlap at most
one is past its comparison, and that what it would restore is what the rules were
compiled from. `CurrentWithoutRace` needs the same of the modification time
(`RaceInv`, `CurrentInv`). With these, `CheckerTypes`, `GoodRulesDecide`,
`SettingsAreOldest`, `ConsistentIfSerial` and `CurrentIfSerial`.

**PersistenceProofs.** Lemmas about bytes come first: an encoding parses to its
version and to no other (`ParsedEncoding`), a write into an empty file leaves
what it wrote (`WriteIntoEmpty`), and a write over anything brings nothing newer
than both (`WriteKeepsBound`). `Spec => []PInv` (`PersistenceInvariant`) then
follows each saver's snapshot between its truncation and its write: a saver that
was alone since it opened the file finds it empty (`SaverInv`), one that overlaps
Stop's save is recorded as such, and one that follows has a newer snapshot
(`StopInv`); the file, when no save is under way or recorded as torn or
overlapped, is exactly the encoding of the last version saved (`FileInv`). With
it `PersistenceTypes`, `ReadableFile`, `StopKeepsStore` and the action property
`RestoreLastSave`.

**AuditorProofs.** Lemmas about the file operations come first: a rename keeps
the order of the files (`Renamed`), a new line is the last of the newest file
(`Added`). `Spec => []AInv` (`AuditorInvariant`) orders the queue, the entry under
way and the written entries by the number of their `Log` call (`QueueInv`,
`EntryInv`), and the lines of the files by the same numbers (`LinesInv`).
`OnlyOldestForgotten` holds of a rotation only because the loop frees the place
it fills next, so that no rename but the one onto the oldest file overwrites
anything: that free place is `RotationInv`. `SizeInv` allows a line more than the
size for each Stat that failed; `AccountInv` says that an entry is written, lost,
queued or under way; `CloseInv` that what the writer left behind came after
`Close`. With it `AuditorTypes`, `TrailInOrder`, `OldestForgotten` and `CloseDrains`.
`ForgettingKeepsALog` is the other half of what `AuditTrail` promises, in terms
of files: a step that takes a line from the reader is a rotation of a log that
was due, and all lines of that log stay.

**ServerProofs.** `ServerImplementsAuditor`: a behaviour of the server is a
behaviour of `Auditor` without faults and restarts, whatever tasks, requests and
`run()` do, so that all theorems of `AuditorProofs` hold in the server. Each step
of the server is also a step of `TaskManager` or leaves it alone (`ManagerStep`),
but its first state is not the manager's, because the cleanup loop runs
already: `ServerInvariant` therefore starts the manager's invariant from the server's
first state, and adds that `run()` is no further than its first deferred call
(`RunInv`), that the tasks' entries have numbers of their own (`EntriesInv`) and
that the bound leaves room (`RoomInv`). From it, `ServerKeepsTasksSafe` (the
manager's three invariants in the whole process), `TaskAuditsAccounted` (an audited
task's entry is queued, being written, written, or was dropped by a full channel),
and `RunNeverReturns`: `run()` never returns and the auditor is never closed, for
any tasks and any TTL. TLC shows this once (section 6, 1); the theorem says that
no instance escapes it.

Every invariant and every action property the passing runs check is stated by a
theorem, as are two of their three refinements. Only model-checked:

* every liveness property: the provers do not do fairness and `ENABLED`;
* `ImplementsTrail`, whose mapping puts the lines of all files into one sequence
  (`AllLines`, a fold over files): what such a fold computes is an induction over
  data, which is out of the provers' reach. What it says is proved file by file:
  order by `TrailInOrder`, forgetting by `OldestForgotten` and `ForgettingKeepsALog`.

## 6. Where the code and its documents disagree

Each is a run that TLC must find violated; `PROJECT.json` quotes the lines.

1. **The server does not end** (`ServerExit`). The cleanup loop ranges over a
   ticker that is never stopped and is counted in the WaitGroup the deferred
   `Manager.Close` waits for: after SIGINT, SIGTERM or an address that cannot be
   bound, `run()` hangs there, and the deferred `aud.Close` is never made. The theorem
   `RunNeverReturns` has it for every set of tasks and every TTL.
2. **Overlapping reloads mix two configs** (`WhitelistMixed`): a failed reload
   restores the config it saw over a newer one, and the rules of one content
   decide with the paths of another.
3. **An edit during a reload is lost** (`WhitelistLost`): content first,
   modification time second.
4. **A command's output is not limited** (`ExecHandlerOutput`): `io.Copy` uses
   the `ReadFrom` that `LimitedBuffer` inherits. `LimitedBuffer.Write` itself is
   right, as its module proves; it is not on the path.
5. **The timeout does not end a command whose child holds the pipes**
   (`ExecHandlerTimeout`): the group is killed after `Wait`, which waits for the child.

Observations without a run:

* A synchronous command that was timed out is not audited (README.md:220 says
  all executions are): `AuditedAreCompleted` and the theorem `AuditIsOfCompleted`
  say exactly which are. The asynchronous path audits the same outcome.
* Refusals of `POST /task` are answered 500 where docs/API.md:173 has 403
  (modelled, section 2).
* Asynchronous tasks do not pass the limiter, although README.md:23 speaks of at
  most five concurrent executions.
* A config without `task_ttl_hours` means a TTL of 0, which removes running tasks.
* README.md:592 documents persistence; `run()` never builds a
  `PersistenceManager`. If it did, a save torn by a crash would keep every later
  start from succeeding (`RestartRestoresLastSave` is claimed of undisturbed
  saves only), and two overlapping saves can leave a mixture.
* docs/RUNBOOK.md:119 and :313 send SIGHUP to reload; nothing asks for it, so it
  ends the process without a deferred call (`Kill`).
* The client's `timeout_seconds` (README.md:186) is read and not used, and its
  `-args` are split at commas where README.md:586 passes a JSON array.
* A reload accepts what `Load` refuses: no command, no path, an empty token.

## 7. What is not modelled, and why

* **Matching a command and a path, the validator, the parsing of JSON and
  YAML**: pure functions of strings; their outcomes are choices in the models.
* **The text of answers, logs and of what the client prints**: no property is
  about it. The default values and the token of `InitConfig` are data.
* **Restored tasks that nobody works on**: persistence keeps the store as a
  version; a composition with the task service would be of a program that does
  not exist, since the server starts no persistence.
* **`PersistenceManager` disabled or without `RestoreOnLoad`**: `Start` then does
  nothing, or no restore.
* **A process that leaves its group** (setsid): the model's child stays in the
  group, so `TimeoutKillsGroup` is about the group, as the code is.
* **Two chunks in one pipe write, stdout and stderr apart** in `ExecHandler`:
  one stream is enough for its properties; `LimitedBuffer` has both.
* **Durations**: a deadline, the five seconds of `Auditor.Close` and the reload
  interval may be over at any time.

## 8. Plan

Built, in this order: task service and its proofs; auditor; whitelist checker;
synchronous endpoint, executor and their proofs; output buffers and their
proofs; persistence; start of the server and loader; the client over the
endpoint with its proofs; the server over task service and auditor; the proofs
about whitelist checker, persistence, auditor and server.

Left:

1. In `ServerProofs`, the action properties and the refinement of the task
   service (`RetentionRespected`, `ToldMonotone`, `ImplementsLifecycle`), from
   `ManagerStep` and the server's own first state.
2. A form of `AuditTrail` over files instead of one sequence, which `Auditor`
   could be proved to implement.
3. A theorem about what the client may conclude from status 0 when its
   connection breaks and the server goes on.
