-------------------------------- MODULE Server --------------------------------
(***************************************************************************)
(* cmd/ooc-server/main.go: run() builds the auditor and the task manager,  *)
(* starts the cleanup loop, serves until a signal or a failed listen, and  *)
(* leaves through its deferred calls, the last deferred first.             *)
(*                                                                         *)
(* The composition of TaskManager and Auditor: an executed task's audit    *)
(* entry is a Log call on the auditor's channel, and so is that of a       *)
(* synchronous request.  Goroutines and handlers live until the process    *)
(* ends.  Polls only read, and are left out.                               *)
(***************************************************************************)
EXTENDS Integers, Sequences, FiniteSets

CONSTANTS
  Tasks, TTL, MaxTime,                         \* TaskManager's
  Capacity, MaxSize, RotationCount, MaxLogs    \* Auditor's

ASSUME ManagerAssumption == IsFiniteSet(Tasks) /\ TTL \in Nat /\ MaxTime \in Nat
ASSUME AuditorAssumption == /\ Capacity \in Nat \ {0} /\ MaxSize \in Nat
                            /\ RotationCount \in Nat /\ MaxLogs \in Nat
\* The bound of Auditor has room for the entry of each task.
ASSUME RoomAssumption == Cardinality(Tasks) <= MaxLogs

VARIABLES
  run,        \* where run() is, or how the process ended
  deferred,   \* the deferred calls not yet made, the next one first
  entryOf     \* entryOf[t]: the number of task t's audit entry (0: none yet)

VARIABLES now, task, stored, handler, reply, told, exec, outcome, wg, cleaner,
          cutoff, closer, auditLog
VARIABLES logged, channel, disk, writer, entry, draining, index, cancelled,
          auditorCloser, mark, written, lost, faults, restarts

\* What failed file operations do and what a restart finds is Auditor's subject.
TM == INSTANCE TaskManager
AU == INSTANCE Auditor WITH closer <- auditorCloser, MaxFaults <- 0, MaxRestarts <- 0

runVars     == <<run, deferred, entryOf>>
taskVars    == <<now, task, stored, handler, reply, told, exec, outcome, wg, cleaner,
                 cutoff, closer, auditLog>>
auditorVars == <<logged, channel, disk, writer, entry, draining, index, cancelled,
                 auditorCloser, mark, written, lost, faults, restarts>>
vars == <<runVars, taskVars, auditorVars>>

\* run() executes until the process is gone.
Alive == run \in {"serving", "returning"}

BuildOrder      == <<"auditor", "manager">>
DeferredInOrder == BuildOrder      \* mutant: the calls run in the order they were deferred

\* The deferred calls in the order they will run: last in, first out.
DeferredCalls == <<BuildOrder[2], BuildOrder[1]>>

-----------------------------------------------------------------------------
(* The components are built and the cleanup loop is started before run()   *)
(* listens; nothing in between can fail.                                   *)
Init ==
  /\ run = "serving"
  /\ deferred = DeferredCalls
  /\ entryOf = [t \in Tasks |-> 0]
  /\ now = 0 /\ cleaner = "waiting" /\ cutoff = 0 /\ wg = 1 /\ closer = "open"
  /\ task = [t \in Tasks |-> TM!NoTask] /\ stored = {} /\ auditLog = {}
  /\ handler = [t \in Tasks |-> "idle"] /\ reply = [t \in Tasks |-> 0]
  /\ told = [t \in Tasks |-> "nothing"]
  /\ exec = [t \in Tasks |-> "none"] /\ outcome = [t \in Tasks |-> "none"]
  /\ AU!Init

\* A new connection: only while run() serves.
Accept(t) ==
  /\ run = "serving"
  /\ TM!RejectRequest(t) \/ TM!RefuseTask(t) \/ TM!CreateTask(t)
  /\ UNCHANGED <<runVars, auditorVars>>

\* server.Close does not wait for handlers: those at work go on.
HandlerStep(t) ==
  /\ Alive
  /\ TM!SaveTask(t) \/ TM!Launch(t) \/ TM!ReadPointer(t) \/ TM!ReadLength(t)
  /\ UNCHANGED <<runVars, auditorVars>>

\* executeTask up to its audit
Execute(t) ==
  /\ Alive
  /\ TM!FetchTask(t) \/ TM!MarkRunning(t) \/ TM!RunCommand(t) \/ TM!FinishTask(t)
  /\ UNCHANGED <<runVars, auditorVars>>

\* executeTask's Log call, for an outcome with a Result
AuditTask(t) ==
  /\ Alive /\ TM!AuditTask(t)
  /\ IF t \in auditLog' THEN AU!Log /\ entryOf' = [entryOf EXCEPT ![t] = logged']
                        ELSE UNCHANGED <<auditorVars, entryOf>>
  /\ UNCHANGED <<run, deferred>>

\* ExecHandler.handle's Log call; one entry's number is kept for each task.
AuditRequest ==
  /\ Alive /\ logged < MaxLogs - Cardinality({t \in Tasks : entryOf[t] = 0})
  /\ AU!Log
  /\ UNCHANGED <<runVars, taskVars>>

CleanUp ==
  /\ Alive /\ TM!CleanerStep
  /\ UNCHANGED <<runVars, auditorVars>>

WriterStep ==
  /\ Alive /\ AU!WriterStep
  /\ UNCHANGED <<runVars, taskVars>>

TimePasses ==
  /\ Alive /\ TM!Tick
  /\ UNCHANGED <<runVars, auditorVars>>

-----------------------------------------------------------------------------
(* The end of the process. *)

\* SIGINT or SIGTERM: the signal goroutine closes the server, ListenAndServe
\* returns ErrServerClosed.  The goroutine takes one signal; a second one
\* stays in its channel.
Shutdown ==
  /\ run = "serving" /\ run' = "returning"
  /\ UNCHANGED <<deferred, entryOf, taskVars, auditorVars>>

\* ListenAndServe cannot bind the address: run() returns 1 by the same way.
ListenFails ==
  /\ run = "serving" /\ \A t \in Tasks : handler[t] = "idle"
  /\ logged = 0
  /\ run' = "returning"
  /\ UNCHANGED <<deferred, entryOf, taskVars, auditorVars>>

\* SIGKILL, or a signal run() did not ask for, SIGHUP among them.
Kill ==
  /\ Alive /\ run' = "killed"
  /\ UNCHANGED <<deferred, entryOf, taskVars, auditorVars>>

\* The deferred call that was made has returned: Manager.Close when the
\* WaitGroup is empty, Auditor.Close after five seconds at the latest.
Returned == closer = "open" \/ wg = 0

\* run() makes the next deferred call, or returns and the process exits.
Unwind ==
  /\ run = "returning" /\ Returned
  /\ IF deferred = <<>>
       THEN run' = "exited" /\ UNCHANGED <<deferred, taskVars, auditorVars>>
       ELSE /\ deferred' = Tail(deferred)
            /\ IF Head(deferred) = "manager"
                 THEN TM!Close /\ UNCHANGED auditorVars
                 ELSE AU!Close /\ UNCHANGED taskVars
            /\ UNCHANGED run
  /\ UNCHANGED entryOf

Next ==
  \/ \E t \in Tasks : Accept(t) \/ HandlerStep(t) \/ Execute(t) \/ AuditTask(t)
  \/ AuditRequest \/ CleanUp \/ WriterStep \/ TimePasses
  \/ Shutdown \/ ListenFails \/ Kill \/ Unwind

Spec == Init /\ [][Next]_vars

\* Goroutines that can run do run, commands come back (ExecHandler says when),
\* the hourly ticker ticks, time passes and run() goes on when a call returns.
\* Nobody has to submit, poll or send a signal.
Fairness ==
  /\ \A t \in Tasks : WF_vars(HandlerStep(t)) /\ WF_vars(Execute(t) \/ AuditTask(t))
  /\ WF_vars(CleanUp) /\ WF_vars(WriterStep) /\ WF_vars(TimePasses) /\ WF_vars(Unwind)

FairSpec == Spec /\ Fairness

-----------------------------------------------------------------------------
(* Properties. *)

\* A task whose submission was accepted is finished or forgotten in the end,
\* also when the server is shut down meanwhile, unless the process ends.
AcceptedSettles ==
  \A t \in Tasks : handler[t] = "saved" ~>
    (t \notin stored \/ task[t].status \in TM!Final \/ ~Alive)

\* A task that completed more than TTL ago is forgotten.
ExpiredForgotten ==
  \A t \in Tasks :
    (t \in stored /\ task[t].completedAt # TM!NoTime /\ task[t].completedAt < now - TTL)
      ~> (t \notin stored \/ ~Alive)

\* The audit entry of a task is written in the end, or was dropped by a full
\* channel, also when the shutdown began before the task was audited: run()
\* does not close the auditor before the tasks are done.
AuditedReachesFile ==
  \A t \in Tasks :
    entryOf[t] # 0 ~> (entryOf[t] \in written \cup lost \/ ~Alive)

-----------------------------------------------------------------------------
(* What the repository says and the code does not do. *)

\* After a signal or a failed listen the process leaves through its deferred
\* calls (main.go: "extracted into a function of its own so that the defers
\* are sure to run").
ServerExits == run = "returning" ~> ~Alive
=============================================================================
