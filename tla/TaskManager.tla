----------------------------- MODULE TaskManager -----------------------------
(***************************************************************************)
(* The asynchronous task service: internal/task (Manager, MemoryStore) and *)
(* the two HTTP handlers of internal/handlers/task.go.                     *)
(*                                                                         *)
(* Processes: one request handler per submitted task (several steps), one  *)
(* executeTask goroutine per stored task, the cleanup goroutine, and       *)
(* Manager.Close.  The store's RWMutex makes each store operation one      *)
(* step; everything between two store operations interleaves.  A Task is   *)
(* a heap object: SubmitTask returns the very pointer it put in the map,   *)
(* so the object outlives its map entry.                                   *)
(***************************************************************************)
EXTENDS Integers, FiniteSets

CONSTANTS
  Tasks,          \* submissions (one generated task ID each)
  TTL,            \* taskTTL in clock units
  MaxTime         \* bound of the modelled clock

ASSUME TTLAssumption == TTL \in Nat
ASSUME MaxTimeAssumption == MaxTime \in Nat
ASSUME TasksAssumption == IsFiniteSet(Tasks)

VARIABLES
  now,       \* the clock
  task,      \* task[t]: the heap object of submission t
  stored,    \* the keys of MemoryStore.tasks
  handler,   \* handler[t]: where the POST /task handler of t is
  reply,     \* reply[t]: the HTTP status it wrote (0: none yet)
  told,      \* told[t]: the last status a client was told of t
  exec,      \* exec[t]: where the executeTask goroutine of t is
  outcome,   \* outcome[t]: what Execute returned
  wg,        \* the WaitGroup counter
  cleaner,   \* where the cleanup goroutine is
  cutoff,    \* the cutoff CleanupExpired computed before it took the lock
  closer,    \* where Manager.Close is
  auditLog   \* the tasks whose entry was handed to Auditor.Log

taskVars   == <<task, stored>>
handleVars == <<handler, reply, told>>
execVars   == <<exec, outcome, auditLog>>
cleanVars  == <<cleaner, cutoff>>
vars == <<now, taskVars, handleVars, execVars, wg, cleanVars, closer>>

NoTime   == -1                                     \* a nil *time.Time
Final    == {"completed", "failed", "timeout"}
Statuses == {"pending", "running"} \cup Final
Outcomes == {"ok", "unsafe", "startFailed", "timedOut"}
Refusals == {"commandNotListed", "pathNotAllowed", "matchError"}

NoTask == [status |-> "none", createdAt |-> NoTime, startedAt |-> NoTime,
           completedAt |-> NoTime, result |-> FALSE, error |-> FALSE]

\* The fields of a Task that change or that its life depends on.  TokenPrefix
\* is left out: the POST handler always passes the empty one.
TaskRecord == [status : Statuses \cup {"none"},
               createdAt : Int, startedAt : Int, completedAt : Int,
               result : BOOLEAN, error : BOOLEAN]

-----------------------------------------------------------------------------
(* Pure parts of the code. *)

\* NewTask: a fresh object, pending, created now.
NewTask == [status |-> "pending", createdAt |-> now, startedAt |-> NoTime,
            completedAt |-> NoTime, result |-> FALSE, error |-> FALSE]

\* How executeTask turns Execute's answer into a status, and whether the
\* answer carries a Result.  "unsafe" is the validator's 400 without Result.
StatusOf(o) == CASE o = "ok"       -> "completed"
                 [] o = "timedOut" -> "timeout"
                 [] OTHER          -> "failed"
HasResult(o) == o # "unsafe"

StartedWithoutTime(k)   == [k EXCEPT !.status = "running"]      \* mutant
StartedWithoutStatus(k) == [k EXCEPT !.startedAt = now]         \* mutant

\* MemoryStore.Update on one object, for "running" and for a final status.
Started(k) == [k EXCEPT !.status = "running", !.startedAt = now]
Finished(k, s, hasResult, hasError) ==
  [k EXCEPT !.status = s, !.completedAt = now,
            !.result = @ \/ hasResult, !.error = @ \/ hasError]

\* The length of the status strings
StatusLen(s) == CASE s = "failed" -> 6 [] s = "completed" -> 9 [] OTHER -> 7

\* The text of SubmitTask's error: fmt.Errorf puts its own words before the
\* text of the wrapped sentinel, so the text is a pair.
SubmitError(v) ==
  CASE v = "commandNotListed" -> <<"command not in whitelist", "command not in whitelist">>
    [] v = "pathNotAllowed"   -> <<"cwd not allowed", "path not in allowed_paths">>
    [] v = "matchError"       -> <<"whitelist check failed", "match error">>

\* The handler compares the whole text with two literals.
RefusalCode(text) ==
  IF text \in {<<"command not in whitelist">>, <<"cwd not allowed">>} THEN 403 ELSE 500

ExpiredByAge(k) == k.createdAt < cutoff                                    \* mutant
ExpiredUnfinished(k) == k.completedAt = NoTime /\ k.createdAt < cutoff     \* mutant

\* CleanupExpired's test of one entry against its cutoff.
Expired(k) == \/ k.completedAt # NoTime /\ k.completedAt < cutoff
              \/ k.completedAt = NoTime /\ k.createdAt < cutoff

\* The answer to GET /task/t: the handler reads a copy taken under the lock
\* and dereferences StartedAt whenever CompletedAt is set.
PollAnswer(t) ==
  IF t \notin stored THEN "notFound"
  ELSE IF task[t].completedAt # NoTime /\ task[t].startedAt = NoTime
       THEN "panic" ELSE task[t].status

-----------------------------------------------------------------------------
Init ==
  /\ now = 0
  /\ task = [t \in Tasks |-> NoTask]
  /\ stored = {}
  /\ handler = [t \in Tasks |-> "idle"]
  /\ reply = [t \in Tasks |-> 0]
  /\ told = [t \in Tasks |-> "nothing"]
  /\ exec = [t \in Tasks |-> "none"]
  /\ outcome = [t \in Tasks |-> "none"]
  /\ wg = 0
  /\ cleaner = "off"
  /\ cutoff = 0
  /\ closer = "open"
  /\ auditLog = {}

\* The POST /task handler.  A request that is not a POST, does not parse or
\* names no command or cwd is answered at once.
RejectRequest(t) ==
  /\ closer = "open" /\ handler[t] = "idle"
  /\ \E code \in {405, 400} : reply' = [reply EXCEPT ![t] = code]
  /\ handler' = [handler EXCEPT ![t] = "malformed"]
  /\ UNCHANGED <<now, taskVars, told, execVars, wg, cleanVars, closer>>

\* SubmitTask refuses what the whitelist does not allow.
RefuseTask(t) ==
  /\ closer = "open" /\ handler[t] = "idle"
  /\ \E v \in Refusals :
       /\ reply' = [reply EXCEPT ![t] = RefusalCode(SubmitError(v))]
       /\ handler' = [handler EXCEPT ![t] = v]
  /\ UNCHANGED <<now, taskVars, told, execVars, wg, cleanVars, closer>>

\* SubmitTask creates the object of an allowed command.
CreateTask(t) ==
  /\ closer = "open" /\ handler[t] = "idle"
  /\ task' = [task EXCEPT ![t] = NewTask]
  /\ handler' = [handler EXCEPT ![t] = "created"]
  /\ UNCHANGED <<now, stored, reply, told, execVars, wg, cleanVars, closer>>

\* store.Save
SaveTask(t) ==
  /\ handler[t] = "created"
  /\ stored' = stored \cup {t}
  /\ handler' = [handler EXCEPT ![t] = "saved"]
  /\ UNCHANGED <<now, task, reply, told, execVars, wg, cleanVars, closer>>

LaunchWithoutAdd(t) ==    \* mutant
  /\ handler[t] = "saved"
  /\ exec' = [exec EXCEPT ![t] = "get"]
  /\ handler' = [handler EXCEPT ![t] = "submitted"]
  /\ UNCHANGED <<now, taskVars, wg, reply, told, outcome, auditLog, cleanVars, closer>>

\* wg.Add(1); go executeTask(ID); return the shared pointer
Launch(t) ==
  /\ handler[t] = "saved"
  /\ wg' = wg + 1
  /\ exec' = [exec EXCEPT ![t] = "get"]
  /\ handler' = [handler EXCEPT ![t] = "submitted"]
  /\ UNCHANGED <<now, taskVars, reply, told, outcome, auditLog, cleanVars, closer>>

\* The handler reads newTask.Status without the store's lock: first the
\* string's pointer, then its length, each as it is at that moment.
ReadPointer(t) ==
  /\ handler[t] = "submitted"
  /\ told' = [told EXCEPT ![t] = task[t].status]
  /\ handler' = [handler EXCEPT ![t] = "reading"]
  /\ UNCHANGED <<now, taskVars, reply, execVars, wg, cleanVars, closer>>

ReadLength(t) ==
  /\ handler[t] = "reading"
  /\ told' = [told EXCEPT ![t] =
       IF StatusLen(@) = StatusLen(task[t].status) THEN @ ELSE "garbled"]
  /\ handler' = [handler EXCEPT ![t] = "replied"]
  /\ reply' = [reply EXCEPT ![t] = 202]
  /\ UNCHANGED <<now, taskVars, execVars, wg, cleanVars, closer>>

-----------------------------------------------------------------------------
(* executeTask.  Whatever way it ends, its deferred wg.Done runs and its    *)
(* locals are gone.                                                        *)

Return(t) == /\ exec' = [exec EXCEPT ![t] = "done"]
             /\ outcome' = [outcome EXCEPT ![t] = "none"]
             /\ wg' = wg - 1

\* getTask
FetchTask(t) ==
  /\ exec[t] = "get"
  /\ IF t \in stored
       THEN exec' = [exec EXCEPT ![t] = "mark"] /\ UNCHANGED <<outcome, wg>>
       ELSE Return(t)
  /\ UNCHANGED <<now, taskVars, handleVars, auditLog, cleanVars, closer>>

MarkRunningUpserts(t) ==    \* mutant: Update inserts a missing task
  /\ exec[t] = "mark"
  /\ stored' = stored \cup {t}
  /\ task' = [task EXCEPT ![t] = Started(@)]
  /\ exec' = [exec EXCEPT ![t] = "run"]
  /\ UNCHANGED <<now, handleVars, outcome, auditLog, wg, cleanVars, closer>>

\* Update(running)
MarkRunning(t) ==
  /\ exec[t] = "mark"
  /\ IF t \in stored
       THEN /\ task' = [task EXCEPT ![t] = Started(@)]
            /\ exec' = [exec EXCEPT ![t] = "run"]
            /\ UNCHANGED <<outcome, wg>>
       ELSE Return(t) /\ UNCHANGED task
  /\ UNCHANGED <<now, stored, handleVars, auditLog, cleanVars, closer>>

\* executor.Execute comes back
RunCommand(t) ==
  /\ exec[t] = "run"
  /\ \E o \in Outcomes : outcome' = [outcome EXCEPT ![t] = o]
  /\ exec' = [exec EXCEPT ![t] = "finish"]
  /\ UNCHANGED <<now, taskVars, handleVars, auditLog, wg, cleanVars, closer>>

FinishOnlyResults(t) ==    \* mutant: gives up when there is no Result
  /\ exec[t] = "finish"
  /\ IF t \in stored /\ HasResult(outcome[t])
       THEN /\ task' = [task EXCEPT ![t] = Finished(@, StatusOf(outcome[t]), TRUE, FALSE)]
            /\ exec' = [exec EXCEPT ![t] = "audit"]
            /\ UNCHANGED <<outcome, wg>>
       ELSE Return(t) /\ UNCHANGED task
  /\ UNCHANGED <<now, stored, handleVars, auditLog, cleanVars, closer>>

\* Update(final status); a task that is gone ends here, without audit.
FinishTask(t) ==
  /\ exec[t] = "finish"
  /\ IF t \in stored
       THEN /\ task' = [task EXCEPT ![t] =
                 Finished(@, StatusOf(outcome[t]), HasResult(outcome[t]), outcome[t] # "ok")]
            /\ exec' = [exec EXCEPT ![t] = "audit"]
            /\ UNCHANGED <<outcome, wg>>
       ELSE Return(t) /\ UNCHANGED task
  /\ UNCHANGED <<now, stored, handleVars, auditLog, cleanVars, closer>>

AuditOnlySuccess(t) ==    \* mutant: failed and timed out runs are not logged
  /\ exec[t] = "audit"
  /\ auditLog' = IF outcome[t] = "ok" THEN auditLog \cup {t} ELSE auditLog
  /\ Return(t)
  /\ UNCHANGED <<now, taskVars, handleVars, cleanVars, closer>>

\* auditor.Log for an outcome with a Result
AuditTask(t) ==
  /\ exec[t] = "audit"
  /\ auditLog' = IF HasResult(outcome[t])
                   THEN auditLog \cup {t} ELSE auditLog
  /\ Return(t)
  /\ UNCHANGED <<now, taskVars, handleVars, cleanVars, closer>>

-----------------------------------------------------------------------------
(* The cleanup goroutine, Close, polls and the clock. *)

\* run() starts the loop before the server listens; a Manager without it is
\* what the tests use.
StartCleanupLoop ==
  /\ cleaner = "off" /\ closer = "open"
  /\ \A t \in Tasks : handler[t] = "idle"
  /\ cleaner' = "waiting"
  /\ wg' = wg + 1
  /\ UNCHANGED <<now, taskVars, handleVars, execVars, cutoff, closer>>

\* A tick: CleanupExpired computes its cutoff before it asks for the lock.
ComputeCutoff ==
  /\ cleaner = "waiting"
  /\ cleaner' = "sweeping"
  /\ cutoff' = now - TTL
  /\ UNCHANGED <<now, taskVars, handleVars, execVars, wg, closer>>

\* The loop over the map, under the lock.
Sweep ==
  /\ cleaner = "sweeping"
  /\ stored' = {t \in stored : ~Expired(task[t])}
  /\ cleaner' = "waiting"
  /\ UNCHANGED <<now, task, handleVars, execVars, wg, cutoff, closer>>

\* The server is closed and run()'s deferred Close cancels a context nothing
\* listens to, then waits.  Handlers already running go on.
Close ==
  /\ closer = "open"
  /\ closer' = "waiting"
  /\ UNCHANGED <<now, taskVars, handleVars, execVars, wg, cleanVars>>

CloseReturns ==
  /\ closer = "waiting" /\ wg = 0
  /\ closer' = "closed"
  /\ UNCHANGED <<now, taskVars, handleVars, execVars, wg, cleanVars>>

\* GET /task/t by a client that was told the ID
Poll(t) ==
  /\ closer = "open" /\ handler[t] = "replied"
  /\ told' = [told EXCEPT ![t] = PollAnswer(t)]
  /\ UNCHANGED <<now, taskVars, handler, reply, execVars, wg, cleanVars, closer>>

Tick == /\ now < MaxTime
        /\ now' = now + 1
        /\ UNCHANGED <<taskVars, handleVars, execVars, wg, cleanVars, closer>>

HandlerStep(t) == \/ RejectRequest(t) \/ RefuseTask(t) \/ CreateTask(t)
                  \/ SaveTask(t) \/ Launch(t) \/ ReadPointer(t) \/ ReadLength(t)

ExecStep(t) == \/ FetchTask(t) \/ MarkRunning(t) \/ RunCommand(t)
               \/ FinishTask(t) \/ AuditTask(t)

CleanerStep == ComputeCutoff \/ Sweep

Next == \/ \E t \in Tasks : HandlerStep(t) \/ ExecStep(t) \/ Poll(t)
        \/ StartCleanupLoop \/ CleanerStep \/ Close \/ CloseReturns \/ Tick

Spec == Init /\ [][Next]_vars

-----------------------------------------------------------------------------
(* Properties. *)

\* Every variable holds a value of its kind, the WaitGroup counter never goes
\* below zero (sync.WaitGroup would panic).
TypeOK ==
  /\ now \in 0..MaxTime
  /\ task \in [Tasks -> TaskRecord]
  /\ stored \subseteq Tasks
  /\ handler \in [Tasks -> {"idle", "malformed", "created", "saved", "submitted",
                            "reading", "replied"} \cup Refusals]
  /\ reply \in [Tasks -> {0, 202, 400, 403, 405, 500}]
  /\ told \in [Tasks -> Statuses \cup {"nothing", "garbled", "notFound", "panic"}]
  /\ exec \in [Tasks -> {"none", "get", "mark", "run", "finish", "audit", "done"}]
  /\ outcome \in [Tasks -> Outcomes \cup {"none"}]
  /\ wg \in Nat
  /\ cleaner \in {"off", "waiting", "sweeping"}
  /\ cutoff \in Int
  /\ closer \in {"open", "waiting", "closed"}
  /\ auditLog \subseteq Tasks

Running(t) == exec[t] \notin {"none", "done"}

\* Whatever the goroutine and the cleanup loop do between two polls, the GET
\* handler finds StartedAt set when it computes the duration of a completed
\* task, and the duration is not negative.
DurationDefined ==
  \A t \in stored :
    task[t].completedAt # NoTime =>
      task[t].startedAt \in 0..task[t].completedAt

\* A task in the store that is not finished has somebody who will finish it:
\* its handler about to launch it, or its goroutine at the step the status
\* says.  No step of one leaves a task pending or running with nobody at work.
NoOrphan ==
  \A t \in stored :
    /\ task[t].status = "pending" => handler[t] = "saved" \/ exec[t] \in {"get", "mark"}
    /\ task[t].status = "running" => exec[t] \in {"run", "finish"}

\* The audit trail agrees with the store: a task is logged only with the
\* Result it finished with, and a retained task whose goroutine ended with a
\* Result was logged.
AuditMatchesStore ==
  /\ \A t \in auditLog : task[t].result /\ task[t].status \in Final
  /\ \A t \in stored : exec[t] = "done" /\ task[t].result => t \in auditLog

\* The WaitGroup counts exactly the goroutines that have not returned.
WaitGroupExact ==
  wg = Cardinality({t \in Tasks : Running(t)}) + (IF cleaner = "off" THEN 0 ELSE 1)

\* Close returns only when no task goroutine is at work and no cleanup loop
\* runs, whatever was launched while it waited.
CloseWaits ==
  [][closer' = "closed" /\ closer # "closed" =>
       cleaner = "off" /\ \A t \in Tasks : ~Running(t)]_vars

\* The cleanup loop removes a finished task only when more than TTL passed
\* since it completed, and an unfinished one only when more than TTL passed
\* since it was created, although the cutoff is older than the lock.
RetentionRespected ==
  [][\A t \in stored \ stored' :
       now - (IF task[t].completedAt # NoTime THEN task[t].completedAt
              ELSE task[t].createdAt) > TTL]_vars

\* How far along a task is that a client is told this of.
Progress(a) == CASE a = "nothing"             -> 0
                 [] a \in {"pending", "garbled"} -> 1
                 [] a = "running"             -> 2
                 [] a \in Final               -> 3
                 [] OTHER                     -> 4

\* What a client is told of its task, by the reply to its submission and by
\* its polls, never goes back: no earlier status after a later one, no other
\* final status, nothing but "not found" after "not found".  The reply's
\* racing read does not break this, as long as no poll comes before the reply.
ToldMonotone ==
  [][\A t \in Tasks : told'[t] # told[t] /\ handler[t] = "replied"
       => Progress(told[t]) < Progress(told'[t])]_vars

\* The status a client of the service can rely on.
AbstractStatus ==
  [t \in Tasks |-> IF t \in stored THEN task[t].status
                   ELSE IF handler[t] \in {"idle", "malformed", "created"} \cup Refusals THEN "absent"
                   ELSE "removed"]

Lifecycle == INSTANCE TaskLifecycle WITH status <- AbstractStatus

\* The service implements the life of a task that TaskLifecycle promises.
ImplementsLifecycle == Lifecycle!Spec

-----------------------------------------------------------------------------
(* The inductive invariant: how the handler, the goroutine and the object of *)
(* one task move together.                                                 *)

Unsubmitted == {"idle", "malformed"} \cup Refusals

\* Where the handler is says whether the task is stored and launched.
HandlerInv(t) ==
  /\ handler[t] \in Unsubmitted \cup {"created"} => t \notin stored
  /\ handler[t] \in Unsubmitted \cup {"created", "saved"} <=> exec[t] = "none"
  /\ handler[t] \notin Unsubmitted => task[t].status \in Statuses

\* Where the goroutine is says what its object looks like; it is done with a
\* task still stored only after the final Update.
ObjectInv(t) ==
  /\ exec[t] \in {"none", "get", "mark"} /\ handler[t] \notin Unsubmitted
       => task[t].status = "pending"
  /\ exec[t] \in {"none", "get", "mark"} => task[t].startedAt = NoTime
  /\ exec[t] \in {"run", "finish"} => task[t].status = "running" /\ task[t].startedAt # NoTime
  /\ exec[t] \in {"none", "get", "mark", "run", "finish"} =>
       task[t].completedAt = NoTime /\ ~task[t].result
  /\ exec[t] = "audit" => task[t].status \in Final /\ task[t].result = HasResult(outcome[t])
  /\ exec[t] \in {"finish", "audit"} => outcome[t] \in Outcomes
  /\ exec[t] = "done" /\ t \in stored => task[t].status \in Final
  /\ task[t].startedAt \in NoTime..now
  /\ task[t].completedAt # NoTime => task[t].startedAt \in 0..task[t].completedAt

\* What was logged is final; what is done, stored and has a Result was logged.
AuditInv(t) ==
  /\ t \in auditLog => exec[t] = "done" /\ task[t].result /\ task[t].status \in Final
  /\ exec[t] = "done" /\ t \in stored /\ task[t].result => t \in auditLog

\* What a client was told is not ahead of the object.
ToldInv(t) ==
  /\ handler[t] \notin {"reading", "replied"} => told[t] = "nothing"
  /\ handler[t] \in {"reading", "replied"} =>
    /\ told[t] \in Statuses \cup {"garbled", "notFound"}
    /\ told[t] = "running" => task[t].status # "pending"
    /\ told[t] \in Final => task[t].status = told[t]
    /\ told[t] = "garbled" => task[t].status \in Final
    /\ told[t] = "notFound" => t \notin stored

\* The cutoff ages between its computation and the sweep, never the reverse.
CutoffInv == cleaner = "sweeping" => cutoff <= now - TTL

IInv == /\ TypeOK
        /\ WaitGroupExact
        /\ CutoffInv
        /\ \A t \in Tasks : HandlerInv(t) /\ ObjectInv(t) /\ AuditInv(t) /\ ToldInv(t)

=============================================================================
