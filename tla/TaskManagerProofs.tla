-------------------------- MODULE TaskManagerProofs --------------------------
(***************************************************************************)
(* Proofs about TaskManager for any finite set of tasks, any TTL and any   *)
(* bound of the clock.                                                     *)
(***************************************************************************)
EXTENDS TaskManager, FiniteSetTheorems, TLAPS

USE DEF NoTime, Final, Statuses, Outcomes, Refusals

-----------------------------------------------------------------------------
(* The operators of MemoryStore.Update: the record they return. *)

\* Started changes the status and the start time, nothing else.
LEMMA StartedFields ==
  ASSUME NEW k \in TaskRecord, now \in Int
  PROVE  /\ Started(k) \in TaskRecord
         /\ Started(k).status = "running"
         /\ Started(k).startedAt = now
         /\ Started(k).createdAt = k.createdAt
         /\ Started(k).completedAt = k.completedAt
         /\ Started(k).result = k.result
BY DEF Started, TaskRecord

Ended(k, o) == Finished(k, StatusOf(o), HasResult(o), o # "ok")

\* Finished sets the status and the completion time and keeps the start.
LEMMA FinishedFields ==
  ASSUME NEW k \in TaskRecord, now \in Int, NEW o
  PROVE  /\ Ended(k, o) \in TaskRecord
         /\ Ended(k, o).status \in Final
         /\ Ended(k, o).completedAt = now
         /\ Ended(k, o).startedAt = k.startedAt
         /\ Ended(k, o).createdAt = k.createdAt
         /\ ~k.result => Ended(k, o).result = HasResult(o)
<1>1. StatusOf(o) \in Final
  BY DEF StatusOf
<1>2. ~k.result => (k.result \/ HasResult(o)) = HasResult(o)
  BY DEF HasResult, TaskRecord
<1>3. (k.result \/ HasResult(o)) \in BOOLEAN /\ (k.error \/ o # "ok") \in BOOLEAN
  OBVIOUS
<1> QED
  BY <1>1, <1>2, <1>3 DEF Ended, Finished, TaskRecord

-----------------------------------------------------------------------------
(* Types.  Everything but the counter is typed without help. *)

Types == /\ now \in 0..MaxTime
         /\ task \in [Tasks -> TaskRecord]
         /\ stored \subseteq Tasks
         /\ handler \in [Tasks -> {"idle", "malformed", "created", "saved", "submitted",
                                   "reading", "replied"} \cup Refusals]
         /\ reply \in [Tasks -> {0, 202, 400, 403, 405, 500}]
         /\ told \in [Tasks -> Statuses \cup {"none", "nothing", "garbled", "notFound", "panic"}]
         /\ exec \in [Tasks -> {"none", "get", "mark", "run", "finish", "audit", "done"}]
         /\ outcome \in [Tasks -> Outcomes \cup {"none"}]
         /\ wg \in Int
         /\ cleaner \in {"off", "waiting", "sweeping"}
         /\ cutoff \in Int
         /\ closer \in {"open", "waiting", "closed"}
         /\ auditLog \subseteq Tasks

\* A step keeps every variable in its set.
LEMMA TypesStep == Types /\ [Next]_vars => Types'
<1> SUFFICES ASSUME Types, [Next]_vars PROVE Types'
  OBVIOUS
<1> USE TTLAssumption, MaxTimeAssumption DEF Types, taskVars, handleVars, execVars, cleanVars
<1>1. ASSUME NEW t \in Tasks, RejectRequest(t) PROVE Types'
  BY <1>1 DEF RejectRequest
<1>2. ASSUME NEW t \in Tasks, RefuseTask(t) PROVE Types'
  <2>1. \A v \in Refusals : RefusalCode(SubmitError(v)) \in {403, 500}
    BY DEF RefusalCode
  <2> QED
    BY <1>2, <2>1 DEF RefuseTask
<1>3. ASSUME NEW t \in Tasks, CreateTask(t) PROVE Types'
  <2>1. NewTask \in TaskRecord
    BY DEF NewTask, TaskRecord
  <2> QED
    BY <1>3, <2>1 DEF CreateTask
<1>4. ASSUME NEW t \in Tasks, SaveTask(t) PROVE Types'
  BY <1>4 DEF SaveTask
<1>5. ASSUME NEW t \in Tasks, Launch(t) PROVE Types'
  BY <1>5 DEF Launch
<1>6. ASSUME NEW t \in Tasks, ReadPointer(t) PROVE Types'
  <2>1. task[t].status \in Statuses \cup {"none"}
    BY DEF TaskRecord
  <2> QED
    BY <1>6, <2>1 DEF ReadPointer
<1>7. ASSUME NEW t \in Tasks, ReadLength(t) PROVE Types'
  BY <1>7 DEF ReadLength
<1>8. ASSUME NEW t \in Tasks, FetchTask(t) PROVE Types'
  BY <1>8 DEF FetchTask, Return
<1>9. ASSUME NEW t \in Tasks, MarkRunning(t) PROVE Types'
  <2>1. task[t] \in TaskRecord /\ now \in Int
    OBVIOUS
  <2>2. Started(task[t]) \in TaskRecord
    BY <2>1, StartedFields
  <2> QED
    BY <1>9, <2>2 DEF MarkRunning, Return
<1>10. ASSUME NEW t \in Tasks, RunCommand(t) PROVE Types'
  BY <1>10 DEF RunCommand
<1>11. ASSUME NEW t \in Tasks, FinishTask(t) PROVE Types'
  <2>1. task[t] \in TaskRecord /\ now \in Int
    OBVIOUS
  <2>2. Ended(task[t], outcome[t]) \in TaskRecord
    BY <2>1, FinishedFields
  <2> QED
    BY <1>11, <2>2 DEF FinishTask, Return, Ended
<1>12. ASSUME NEW t \in Tasks, AuditTask(t) PROVE Types'
  BY <1>12 DEF AuditTask, Return
<1>13. ASSUME NEW t \in Tasks, Poll(t) PROVE Types'
  <2>1. PollAnswer(t) \in Statuses \cup {"none", "notFound", "panic"}
    BY DEF PollAnswer, TaskRecord
  <2> QED
    BY <1>13, <2>1 DEF Poll
<1>14. CASE StartCleanupLoop
  BY <1>14 DEF StartCleanupLoop
<1>15. CASE ComputeCutoff
  BY <1>15 DEF ComputeCutoff
<1>16. CASE Sweep
  BY <1>16 DEF Sweep
<1>17. CASE Close \/ CloseReturns
  BY <1>17 DEF Close, CloseReturns
<1>18. CASE Tick
  BY <1>18 DEF Tick
<1>19. CASE UNCHANGED vars
  BY <1>19 DEF vars
<1> QED
  BY <1>1, <1>2, <1>3, <1>4, <1>5, <1>6, <1>7, <1>8, <1>9, <1>10, <1>11, <1>12, <1>13,
     <1>14, <1>15, <1>16, <1>17, <1>18, <1>19
     DEF Next, HandlerStep, ExecStep, CleanerStep

-----------------------------------------------------------------------------
(* One task.  A step of one task's processes leaves the others alone. *)

TaskInv(t) == HandlerInv(t) /\ ObjectInv(t) /\ AuditInv(t) /\ ToldInv(t)

Same(u) == /\ handler'[u] = handler[u] /\ exec'[u] = exec[u] /\ task'[u] = task[u]
           /\ told'[u] = told[u] /\ outcome'[u] = outcome[u]
           /\ u \in stored' <=> u \in stored
           /\ u \in auditLog' <=> u \in auditLog

TaskStep(t) == HandlerStep(t) \/ ExecStep(t) \/ Poll(t)

\* What a step of task t does to another task and to the clock: nothing.
LEMMA Frame ==
  ASSUME Types, NEW t \in Tasks, NEW u \in Tasks, u # t, TaskStep(t)
  PROVE  Same(u) /\ now' = now
<1> USE DEF Types, Same, taskVars, handleVars, execVars
<1>1. CASE HandlerStep(t)
  BY <1>1 DEF HandlerStep, RejectRequest, RefuseTask, CreateTask, SaveTask, Launch,
              ReadPointer, ReadLength
<1>2. CASE ExecStep(t)
  BY <1>2 DEF ExecStep, FetchTask, MarkRunning, RunCommand, FinishTask, AuditTask, Return
<1>3. CASE Poll(t)
  BY <1>3 DEF Poll
<1> QED
  BY <1>1, <1>2, <1>3 DEF TaskStep

\* A task nothing happened to keeps its invariant.
LEMMA SameKeeps ==
  ASSUME NEW u \in Tasks, TaskInv(u), Same(u), now' = now
  PROVE  TaskInv(u)'
BY DEF TaskInv, Same, HandlerInv, ObjectInv, AuditInv, ToldInv, HasResult

\* Every step of the handler of t, of its goroutine and of a client that polls
\* it keeps the invariant of t.
LEMMA HandlerKeeps ==
  ASSUME Types, Types', NEW t \in Tasks, TaskInv(t), HandlerStep(t)
  PROVE  TaskInv(t)'
<1> USE DEF Types, TaskInv, HandlerInv, ObjectInv, AuditInv, ToldInv, Unsubmitted,
            taskVars, handleVars, execVars
<1>1. CASE RejectRequest(t) \/ RefuseTask(t)
  BY <1>1 DEF RejectRequest, RefuseTask
<1>2. CASE CreateTask(t)
  <2>1. /\ task'[t].status = "pending" /\ task'[t].startedAt = NoTime
        /\ task'[t].completedAt = NoTime /\ task'[t].result = FALSE
    BY <1>2 DEF CreateTask, NewTask
  <2> QED
    BY <1>2, <2>1 DEF CreateTask
<1>3. CASE SaveTask(t)
  BY <1>3 DEF SaveTask
<1>4. CASE Launch(t)
  BY <1>4 DEF Launch
<1>5. CASE ReadPointer(t)
  BY <1>5 DEF ReadPointer
<1>6. CASE ReadLength(t)
  BY <1>6 DEF ReadLength, StatusLen
<1> QED
  BY <1>1, <1>2, <1>3, <1>4, <1>5, <1>6 DEF HandlerStep

\* The goroutine's steps keep the invariant of its task.
LEMMA ExecKeeps ==
  ASSUME Types, Types', NEW t \in Tasks, TaskInv(t), ExecStep(t)
  PROVE  TaskInv(t)'
<1> USE DEF Types, TaskInv, HandlerInv, ObjectInv, AuditInv, ToldInv, Unsubmitted,
            taskVars, handleVars, execVars, Return
<1>0. task[t] \in TaskRecord /\ now \in Int
  OBVIOUS
<1>1. CASE FetchTask(t)
  BY <1>1 DEF FetchTask
<1>2. CASE MarkRunning(t)
  <2>1. CASE t \in stored
    <3>1. task'[t] = Started(task[t])
      BY <1>2, <2>1 DEF MarkRunning
    <3>2. /\ task'[t].status = "running" /\ task'[t].startedAt = now
          /\ task'[t].completedAt = task[t].completedAt
          /\ task'[t].result = task[t].result
      BY <1>0, <3>1, StartedFields
    <3> QED
      BY <1>2, <2>1, <3>2 DEF MarkRunning
  <2>2. CASE t \notin stored
    BY <1>2, <2>2 DEF MarkRunning
  <2> QED
    BY <2>1, <2>2
<1>3. CASE RunCommand(t)
  BY <1>3 DEF RunCommand
<1>4. CASE FinishTask(t)
  <2>1. CASE t \in stored
    <3>1. task'[t] = Ended(task[t], outcome[t])
      BY <1>4, <2>1 DEF FinishTask, Ended
    <3>2. task[t].status = "running" /\ task[t].startedAt \in 0..now /\ ~task[t].result
      BY <1>4 DEF FinishTask
    <3>3. /\ task'[t].status \in Final /\ task'[t].completedAt = now
          /\ task'[t].startedAt = task[t].startedAt
          /\ task'[t].result = HasResult(outcome[t])
      BY <1>0, <3>1, <3>2, FinishedFields
    <3> QED
      BY <1>4, <2>1, <3>2, <3>3 DEF FinishTask, HasResult
  <2>2. CASE t \notin stored
    BY <1>4, <2>2 DEF FinishTask
  <2> QED
    BY <2>1, <2>2
<1>5. CASE AuditTask(t)
  BY <1>5 DEF AuditTask
<1> QED
  BY <1>1, <1>2, <1>3, <1>4, <1>5 DEF ExecStep

-----------------------------------------------------------------------------
(* The WaitGroup counts the goroutines. *)

Alive == {t \in Tasks : Running(t)}

\* The goroutines at work can be counted.
LEMMA AliveFinite == IsFiniteSet(Alive) /\ Cardinality(Alive) \in Nat
BY TasksAssumption, FS_Subset, FS_CardinalityType DEF Alive

\* No step changes the counter without a goroutine starting or returning.
LEMMA WaitGroupStep ==
  ASSUME Types, WaitGroupExact, \A t \in Tasks : HandlerInv(t), [Next]_vars
  PROVE  WaitGroupExact'
<1> USE DEF Types, WaitGroupExact
<1>a. WaitGroupExact <=> wg = Cardinality(Alive) + (IF cleaner = "off" THEN 0 ELSE 1)
  BY DEF Alive
<1>b. WaitGroupExact' <=> wg' = Cardinality(Alive') + (IF cleaner' = "off" THEN 0 ELSE 1)
  BY DEF Alive
<1>1. ASSUME NEW t \in Tasks, Launch(t) PROVE WaitGroupExact'
  <2>1. t \notin Alive /\ Alive' = Alive \cup {t}
    BY <1>1 DEF Launch, HandlerInv, Unsubmitted, Alive, Running
  <2>2. Cardinality(Alive') = Cardinality(Alive) + 1
    BY <2>1, AliveFinite, FS_AddElement
  <2> QED
    BY <1>1, <1>a, <1>b, <2>2, AliveFinite DEF Launch, cleanVars
<1>2. ASSUME NEW t \in Tasks, Return(t), t \in Alive, UNCHANGED cleaner
      PROVE  WaitGroupExact'
  <2>1. Alive' = Alive \ {t}
    BY <1>2 DEF Return, Alive, Running
  <2>2. Cardinality(Alive') = Cardinality(Alive) - 1
    BY <1>2, <2>1, AliveFinite, FS_RemoveElement
  <2> QED
    BY <1>2, <1>a, <1>b, <2>2, AliveFinite DEF Return
<1>3. ASSUME Alive' = Alive, UNCHANGED <<wg, cleaner>> PROVE WaitGroupExact'
  BY <1>3, <1>a, <1>b
<1>4. ASSUME NEW t \in Tasks, ExecStep(t) PROVE WaitGroupExact'
  <2>1. t \in Alive /\ UNCHANGED cleaner
    BY <1>4 DEF ExecStep, FetchTask, MarkRunning, RunCommand, FinishTask, AuditTask,
                cleanVars, Alive, Running
  <2>2. Return(t) \/ (UNCHANGED wg /\ \E e \in {"mark", "run", "finish", "audit"} :
                                         exec' = [exec EXCEPT ![t] = e])
    BY <1>4 DEF ExecStep, FetchTask, MarkRunning, RunCommand, FinishTask, AuditTask
  <2>3. CASE UNCHANGED wg /\ \E e \in {"mark", "run", "finish", "audit"} :
                               exec' = [exec EXCEPT ![t] = e]
    <3>1. Alive' = Alive
      BY <2>1, <2>3 DEF Alive, Running
    <3> QED
      BY <1>3, <2>1, <2>3, <3>1
  <2> QED
    BY <1>2, <2>1, <2>2, <2>3
<1>5. CASE StartCleanupLoop
  <2>1. Alive' = Alive
    BY <1>5 DEF StartCleanupLoop, execVars, Alive, Running
  <2> QED
    BY <1>5, <1>a, <1>b, <2>1, AliveFinite DEF StartCleanupLoop
<1>6. CASE ComputeCutoff \/ Sweep
  <2>1. Alive' = Alive
    BY <1>6 DEF ComputeCutoff, Sweep, execVars, Alive, Running
  <2> QED
    BY <1>6, <1>a, <1>b, <2>1 DEF ComputeCutoff, Sweep
<1>7. ASSUME UNCHANGED <<execVars, wg, cleanVars>> PROVE WaitGroupExact'
  BY <1>3, <1>7 DEF execVars, cleanVars, Alive, Running
<1>8. ASSUME NEW t \in Tasks, HandlerStep(t), ~Launch(t) PROVE WaitGroupExact'
  BY <1>7, <1>8 DEF HandlerStep, RejectRequest, RefuseTask, CreateTask, SaveTask,
                    ReadPointer, ReadLength
<1>9. CASE Close \/ CloseReturns \/ Tick \/ UNCHANGED vars \/ \E t \in Tasks : Poll(t)
  BY <1>7, <1>9 DEF Close, CloseReturns, Tick, Poll, vars
<1> QED
  BY <1>1, <1>4, <1>5, <1>6, <1>8, <1>9 DEF Next, CleanerStep

-----------------------------------------------------------------------------
(* The whole invariant. *)

PInv == Types /\ WaitGroupExact /\ CutoffInv /\ \A t \in Tasks : TaskInv(t)

\* At first there is no task and no goroutine.
LEMMA InitPInv == Init => PInv
<1> SUFFICES ASSUME Init PROVE PInv
  OBVIOUS
<1> USE DEF Init, NoTask
<1>1. Types
  BY MaxTimeAssumption DEF Types, TaskRecord
<1>2. WaitGroupExact
  <2>1. {t \in Tasks : Running(t)} = {}
    BY DEF Running
  <2>2. Cardinality({t \in Tasks : Running(t)}) = 0
    BY <2>1, FS_EmptySet, Zenon
  <2> QED
    BY <2>2 DEF WaitGroupExact
<1>3. CutoffInv
  BY DEF CutoffInv
<1>4. ASSUME NEW t \in Tasks PROVE TaskInv(t)
  BY DEF TaskInv, HandlerInv, ObjectInv, AuditInv, ToldInv, Unsubmitted
<1> QED
  BY <1>1, <1>2, <1>3, <1>4 DEF PInv

\* Only a tick and the computation of the cutoff touch what CutoffInv is about.
LEMMA CutoffStep == ASSUME Types, CutoffInv, [Next]_vars PROVE CutoffInv'
<1> USE TTLAssumption, MaxTimeAssumption
        DEF CutoffInv, Types, taskVars, handleVars, execVars, cleanVars
<1>1. CASE ComputeCutoff \/ Sweep \/ StartCleanupLoop
  BY <1>1 DEF ComputeCutoff, Sweep, StartCleanupLoop
<1>2. CASE Tick
  BY <1>2 DEF Tick
<1>3. ASSUME NEW t \in Tasks, HandlerStep(t) PROVE CutoffInv'
  BY <1>3 DEF HandlerStep, RejectRequest, RefuseTask, CreateTask, SaveTask, Launch,
              ReadPointer, ReadLength
<1>4. ASSUME NEW t \in Tasks, ExecStep(t) PROVE CutoffInv'
  BY <1>4 DEF ExecStep, FetchTask, MarkRunning, RunCommand, FinishTask, AuditTask
<1>5. CASE Close \/ CloseReturns \/ UNCHANGED vars \/ \E t \in Tasks : Poll(t)
  BY <1>5 DEF Close, CloseReturns, Poll, vars
<1> QED
  BY <1>1, <1>2, <1>3, <1>4, <1>5 DEF Next, CleanerStep

\* A poll tells the client what the store holds.
LEMMA PollKeeps ==
  ASSUME Types, NEW t \in Tasks, TaskInv(t), Poll(t)
  PROVE  TaskInv(t)'
BY DEF Types, TaskInv, HandlerInv, ObjectInv, AuditInv, ToldInv, Unsubmitted,
       taskVars, handleVars, execVars, Poll, PollAnswer, HasResult

\* Every step keeps the invariant of every task.
LEMMA TaskInvStep ==
  ASSUME Types, Types', \A t \in Tasks : TaskInv(t), [Next]_vars, NEW u \in Tasks
  PROVE  TaskInv(u)'
<1>1. ASSUME NEW t \in Tasks, TaskStep(t) PROVE TaskInv(u)'
  <2>1. CASE u = t
    BY <1>1, <2>1, HandlerKeeps, ExecKeeps, PollKeeps DEF TaskStep
  <2>2. CASE u # t
    BY <1>1, <2>2, Frame, SameKeeps
  <2> QED
    BY <2>1, <2>2
<1>2. CASE StartCleanupLoop \/ ComputeCutoff \/ Close \/ CloseReturns \/ UNCHANGED vars
  <2>1. Same(u) /\ now' = now
    BY <1>2 DEF StartCleanupLoop, ComputeCutoff, Close, CloseReturns, vars, Same,
                taskVars, handleVars, execVars
  <2> QED
    BY <2>1, SameKeeps
<1>3. CASE Sweep
  BY <1>3 DEF Sweep, Types, TaskInv, HandlerInv, ObjectInv, AuditInv, ToldInv,
              taskVars, handleVars, execVars, HasResult
<1>4. CASE Tick
  <2>1. now \in Nat /\ now' = now + 1
    BY <1>4, MaxTimeAssumption DEF Tick, Types
  <2> QED
    BY <1>4, <2>1 DEF Tick, TaskInv, HandlerInv, ObjectInv, AuditInv, ToldInv,
                      taskVars, handleVars, execVars, HasResult
<1> QED
  BY <1>1, <1>2, <1>3, <1>4 DEF Next, TaskStep, CleanerStep

\* Every step keeps the invariant,
LEMMA PInvStep == PInv /\ [Next]_vars => PInv'
BY TypesStep, WaitGroupStep, CutoffStep, TaskInvStep DEF PInv, TaskInv

\* which is the one that was model-checked, in the form the provers take.
LEMMA PInvImpliesIInv == PInv => IInv
<1> SUFFICES ASSUME PInv PROVE IInv
  OBVIOUS
<1>1. wg \in Nat
  BY AliveFinite DEF PInv, WaitGroupExact, Alive
<1>2. \A t \in Tasks : told[t] \in Statuses \cup {"nothing", "garbled", "notFound", "panic"}
  BY DEF PInv, Types, TaskInv, ToldInv
<1> QED
  BY <1>1, <1>2 DEF PInv, IInv, TypeOK, Types, TaskInv

\* What the invariant says of every stored and of every audited task
LEMMA IInvSafety == IInv => DurationDefined /\ NoOrphan /\ AuditMatchesStore
<1>1. IInv => DurationDefined
  BY DEF IInv, DurationDefined, TypeOK, ObjectInv
<1>2. ASSUME IInv, NEW t \in stored
      PROVE  /\ task[t].status = "pending" => handler[t] = "saved" \/ exec[t] \in {"get", "mark"}
             /\ task[t].status = "running" => exec[t] \in {"run", "finish"}
  BY <1>2 DEF IInv, TypeOK, HandlerInv, ObjectInv, Unsubmitted
<1>3. IInv => NoOrphan
  BY <1>2 DEF NoOrphan
<1>4. IInv => AuditMatchesStore
  BY DEF IInv, AuditMatchesStore, TypeOK, AuditInv
<1> QED
  BY <1>1, <1>3, <1>4

\* So it holds in every reachable state.
LEMMA PInvAlways == Spec => []PInv
BY InitPInv, PInvStep, PTL DEF Spec

-----------------------------------------------------------------------------
(* The theorems. *)

\* In every run of the service the handler, the goroutine and the object of
\* each task agree, and the WaitGroup counts the goroutines.
THEOREM InvariantHolds == Spec => []IInv
BY PInvAlways, PInvImpliesIInv, PTL

\* Every variable keeps its type; the WaitGroup counter never drops below zero.
THEOREM TypeCorrect == Spec => []TypeOK
<1>1. IInv => TypeOK
  BY DEF IInv
<1> QED
  BY <1>1, InvariantHolds, PTL

\* GET /task/{id} always finds the start time of a completed task, and the
\* duration it computes is not negative (handlers/task.go, GetTaskStatus).
THEOREM DurationAlwaysDefined == Spec => []DurationDefined
BY IInvSafety, InvariantHolds, PTL

\* A stored task that is not finished has a handler or a goroutine that will
\* finish it (SubmitTask and executeTask).
THEOREM NoTaskOrphaned == Spec => []NoOrphan
BY IInvSafety, InvariantHolds, PTL

\* The audit trail holds the retained tasks that ended with a Result, and only
\* tasks that ended with one (executeTask).
THEOREM AuditAgrees == Spec => []AuditMatchesStore
BY IInvSafety, InvariantHolds, PTL

\* Close returns only after every goroutine that was launched has returned.
THEOREM CloseWaitsForAll == Spec => CloseWaits
<1>1. ASSUME PInv, [Next]_vars, closer' = "closed", closer # "closed"
      PROVE  cleaner = "off" /\ \A t \in Tasks : ~Running(t)
  <2>1. wg = 0
    BY <1>1 DEF PInv, Types, Next, HandlerStep, RejectRequest, RefuseTask, CreateTask,
                SaveTask, Launch, ReadPointer, ReadLength, ExecStep, FetchTask,
                MarkRunning, RunCommand, FinishTask, AuditTask, Poll, StartCleanupLoop,
                CleanerStep, ComputeCutoff, Sweep, Close, CloseReturns, Tick, vars
  <2>2. Cardinality(Alive) = 0 /\ cleaner = "off"
    BY <1>1, <2>1, AliveFinite DEF PInv, WaitGroupExact, Alive
  <2>3. Alive = {}
    BY <2>2, AliveFinite, FS_EmptySet
  <2> QED
    BY <2>2, <2>3 DEF Alive
<1> QED
  BY <1>1, PInvAlways, PTL DEF Spec, CloseWaits

\* A step that takes a task out of the map is a sweep.
LEMMA OnlySweepRemoves ==
  ASSUME Types, [Next]_vars, NEW t \in stored \ stored'
  PROVE  Sweep
BY DEF Types, Next, HandlerStep, RejectRequest, RefuseTask, CreateTask, SaveTask, Launch,
       ReadPointer, ReadLength, ExecStep, FetchTask, MarkRunning, RunCommand, FinishTask,
       AuditTask, Poll, StartCleanupLoop, CleanerStep, ComputeCutoff, Close, CloseReturns,
       Tick, vars, taskVars

\* The cleanup loop removes nothing before its TTL (CleanupExpired).
THEOREM RetentionHolds == Spec => RetentionRespected
<1>1. ASSUME PInv, [Next]_vars, NEW t \in stored \ stored'
      PROVE  now - (IF task[t].completedAt # NoTime THEN task[t].completedAt
                    ELSE task[t].createdAt) > TTL
  <2>1. Sweep
    BY <1>1, OnlySweepRemoves DEF PInv
  <2>2. t \in Tasks /\ Expired(task[t]) /\ cutoff <= now - TTL
    BY <1>1, <2>1 DEF Sweep, PInv, CutoffInv, Types
  <2>3. /\ now \in Int /\ cutoff \in Int /\ TTL \in Int
        /\ task[t].completedAt \in Int /\ task[t].createdAt \in Int
    BY <1>1, <2>2, TTLAssumption DEF PInv, Types, TaskRecord
  <2> QED
    BY <2>2, <2>3 DEF Expired
<1>2. PInv /\ [Next]_vars =>
        [\A t \in stored \ stored' :
           now - (IF task[t].completedAt # NoTime THEN task[t].completedAt
                  ELSE task[t].createdAt) > TTL]_vars
  BY <1>1
<1> QED
  BY <1>2, PInvAlways, PTL DEF Spec, RetentionRespected

\* What the client is told of its task never goes back (SubmitTask's reply and
\* GetTaskStatus).
THEOREM ToldNeverGoesBack == Spec => ToldMonotone
<1>1. ASSUME PInv, PInv', [Next]_vars, NEW t \in Tasks,
             told'[t] # told[t], handler[t] = "replied"
      PROVE  Progress(told[t]) < Progress(told'[t])
  <2>1. Poll(t)
    BY <1>1 DEF PInv, Types, Next, HandlerStep, RejectRequest, RefuseTask, CreateTask,
                SaveTask, Launch, ReadPointer, ReadLength, ExecStep, FetchTask,
                MarkRunning, RunCommand, FinishTask, AuditTask, Poll, StartCleanupLoop,
                CleanerStep, ComputeCutoff, Sweep, Close, CloseReturns, Tick, vars,
                handleVars
  <2>2. TaskInv(t) /\ told'[t] = PollAnswer(t)
    BY <1>1, <2>1 DEF PInv, Types, Poll
  <2>3. CASE t \notin stored
    BY <1>1, <2>2, <2>3 DEF PollAnswer, Progress, TaskInv, ToldInv
  <2>4. CASE t \in stored
    <3>1. PollAnswer(t) = task[t].status
      BY <2>2, <2>4 DEF PollAnswer, TaskInv, ObjectInv
    <3>2. task[t].status \in Statuses
      BY <1>1, <2>2 DEF TaskInv, HandlerInv, Unsubmitted
    <3> QED
      BY <1>1, <2>2, <2>4, <3>1, <3>2 DEF Progress, TaskInv, ToldInv
  <2> QED
    BY <2>3, <2>4
<1>2. PInv /\ PInv' /\ [Next]_vars =>
        [\A t \in Tasks : told'[t] # told[t] /\ handler[t] = "replied"
           => Progress(told[t]) < Progress(told'[t])]_vars
  BY <1>1
<1> QED
  BY <1>2, PInvAlways, PTL DEF Spec, ToldMonotone

-----------------------------------------------------------------------------
(* Refinement: AbstractStatus takes every step of the service to a step of *)
(* TaskLifecycle or to none.                                               *)

\* A step of one task changes nothing but the status of that task.
LEMMA MappingFrame ==
  ASSUME Types, Types', NEW t \in Tasks, TaskStep(t),
         \A u \in Tasks : TaskInv(u) /\ TaskInv(u)',
         NEW s, AbstractStatus'[t] = s
  PROVE  AbstractStatus' = [AbstractStatus EXCEPT ![t] = s]
<1>1. \A u \in Tasks \ {t} : AbstractStatus'[u] = AbstractStatus[u]
  <2> SUFFICES ASSUME NEW u \in Tasks \ {t} PROVE AbstractStatus'[u] = AbstractStatus[u]
    OBVIOUS
  <2>1. Same(u)
    BY Frame
  <2> QED
    BY <2>1 DEF AbstractStatus, Same
<1>2. /\ AbstractStatus = [u \in Tasks |-> AbstractStatus[u]]
      /\ AbstractStatus' = [u \in Tasks |-> AbstractStatus'[u]]
  BY DEF AbstractStatus
<1> QED
  BY <1>1, <1>2

\* Every step of the service is one of TaskLifecycle or a stutter.
LEMMA RefineStep ==
  ASSUME PInv, PInv', [Next]_vars
  PROVE  [Lifecycle!Next]_AbstractStatus
<1> USE DEF PInv
<1>1. ASSUME NEW t \in Tasks, TaskStep(t) PROVE [Lifecycle!Next]_AbstractStatus
  <2> DEFINE a == AbstractStatus[t]
             b == AbstractStatus'[t]
  <2>1. /\ a = IF t \in stored THEN task[t].status
               ELSE IF handler[t] \in Unsubmitted \cup {"created"} THEN "absent" ELSE "removed"
        /\ b = IF t \in stored' THEN task'[t].status
               ELSE IF handler'[t] \in Unsubmitted \cup {"created"} THEN "absent" ELSE "removed"
    BY DEF AbstractStatus, Unsubmitted
  <2>2. \/ a = b
        \/ a = "absent" /\ b = "pending"
        \/ a = "pending" /\ b = "running"
        \/ a = "running" /\ b \in Final
    <3> USE <2>1 DEF Types, TaskInv, HandlerInv, ObjectInv, Unsubmitted,
                     taskVars, handleVars, execVars
    <3> HIDE DEF a, b
    <3>1. CASE HandlerStep(t)
      BY <3>1 DEF HandlerStep, RejectRequest, RefuseTask, CreateTask, SaveTask, Launch,
                  ReadPointer, ReadLength
    <3>2. CASE ExecStep(t)
      <4>1. CASE FetchTask(t) \/ RunCommand(t) \/ AuditTask(t)
        BY <4>1 DEF FetchTask, RunCommand, AuditTask, Return
      <4>2. CASE MarkRunning(t)
        BY <4>2 DEF MarkRunning, Return
      <4>3. CASE FinishTask(t)
        BY <4>3 DEF FinishTask, Return
      <4> QED
        BY <3>2, <4>1, <4>2, <4>3 DEF ExecStep
    <3>3. CASE Poll(t)
      BY <3>3 DEF Poll
    <3> QED
      BY <1>1, <3>1, <3>2, <3>3 DEF TaskStep
  <2>3. AbstractStatus' = [AbstractStatus EXCEPT ![t] = b]
    BY <1>1, MappingFrame
  <2>4. AbstractStatus = [AbstractStatus EXCEPT ![t] = a]
    BY DEF AbstractStatus
  <2> HIDE DEF a, b
  <2>5. CASE a = b
    BY <2>3, <2>4, <2>5
  <2>6. CASE a = "absent" /\ b = "pending"
    BY <2>3, <2>6 DEF a, Lifecycle!Next, Lifecycle!Store
  <2>7. CASE a = "pending" /\ b = "running"
    BY <2>3, <2>7 DEF a, Lifecycle!Next, Lifecycle!Start
  <2>8. CASE a = "running" /\ b \in Final
    BY <2>3, <2>8 DEF a, Lifecycle!Next, Lifecycle!Finish, Lifecycle!Final
  <2> QED
    BY <2>2, <2>5, <2>6, <2>7, <2>8
<1>2. CASE Sweep
  <2> DEFINE gone == stored \ stored'
  <2>1. /\ stored' \subseteq stored
        /\ UNCHANGED <<task, handler, exec>>
    BY <1>2 DEF Sweep, handleVars, execVars
  <2>2. \A t \in gone : /\ t \in Tasks /\ AbstractStatus[t] = task[t].status
                        /\ task[t].status \in Statuses
                        /\ handler[t] \notin Unsubmitted \cup {"created"}
    BY DEF Types, AbstractStatus, TaskInv, HandlerInv, Unsubmitted
  <2>3. gone \in SUBSET {t \in Tasks : AbstractStatus[t] \in Lifecycle!Live \cup Lifecycle!Final}
    BY <2>2 DEF Lifecycle!Live, Lifecycle!Final
  <2>4. AbstractStatus' = [t \in Tasks |-> IF t \in gone THEN "removed" ELSE AbstractStatus[t]]
    BY <2>1, <2>2 DEF AbstractStatus, Unsubmitted
  <2> QED
    BY <2>3, <2>4 DEF Lifecycle!Next, Lifecycle!Forget
<1>3. CASE \/ StartCleanupLoop \/ ComputeCutoff \/ Close \/ CloseReturns \/ Tick
           \/ UNCHANGED vars
  <2>1. UNCHANGED <<task, stored, handler>>
    BY <1>3 DEF StartCleanupLoop, ComputeCutoff, Close, CloseReturns, Tick, vars,
                taskVars, handleVars
  <2> QED
    BY <2>1 DEF AbstractStatus
<1> QED
  BY <1>1, <1>2, <1>3 DEF Next, TaskStep, CleanerStep

\* The task service implements TaskLifecycle: through handler, goroutine,
\* cleanup and Close, a task is stored once, runs once, ends once and never
\* comes back after it was removed.
THEOREM ServiceImplementsLifecycle == Spec => ImplementsLifecycle
<1>1. Init => Lifecycle!Init
  BY DEF Init, Lifecycle!Init, AbstractStatus
<1>2. PInv /\ PInv' /\ [Next]_vars => [Lifecycle!Next]_AbstractStatus
  BY RefineStep
<1> QED
  BY <1>1, <1>2, PInvAlways, PTL DEF Spec, ImplementsLifecycle, Lifecycle!Spec
=============================================================================
