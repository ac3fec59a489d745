----------------------------- MODULE ServerProofs -----------------------------
(***************************************************************************)
(* The composition keeps what its parts promise: the server's steps are    *)
(* steps of the task manager and of the auditor, so that what is proved of *)
(* them in TaskManagerProofs and AuditorProofs holds in the server, and    *)
(* what run() makes of the two is proved on top of it.                     *)
(***************************************************************************)
EXTENDS Server, FiniteSetTheorems, TLAPS

\* The components with their theorems
TMP == INSTANCE TaskManagerProofs
AUP == INSTANCE AuditorProofs WITH closer <- auditorCloser, MaxFaults <- 0, MaxRestarts <- 0

-----------------------------------------------------------------------------
(* The invariant of the composition. *)

\* run() waits in its first deferred call for ever once it returns: the cleanup
\* loop is counted and does not end, so that no call behind it is made.
RunInv ==
  /\ run \in {"serving", "returning", "killed"}
  /\ cleaner \in {"waiting", "sweeping"}
  /\ closer \in {"open", "waiting"} /\ auditorCloser = "open"
  /\ deferred = IF closer = "open" THEN <<"manager", "auditor">> ELSE <<"auditor">>
  /\ run = "serving" => closer = "open"

\* The entries of tasks have numbers of their own.
EntriesInv ==
  /\ entryOf \in [Tasks -> 0..logged]
  /\ \A t \in Tasks : entryOf[t] # 0 <=> t \in auditLog
  /\ \A t, u \in Tasks : entryOf[t] = entryOf[u] /\ entryOf[t] # 0 => t = u

\* The tasks without a number
Unaudited == {t \in Tasks : entryOf[t] = 0}

\* The bound on Log calls keeps a number for each of them.
RoomInv == logged + Cardinality(Unaudited) <= MaxLogs

SInv == TMP!PInv /\ RunInv /\ EntriesInv /\ RoomInv

-----------------------------------------------------------------------------
(* The components' assumptions and steps. *)

\* The server's constants are ones that the manager admits,
LEMMA ManagerAssumptions ==
  TMP!TTLAssumption /\ TMP!MaxTimeAssumption /\ TMP!TasksAssumption
BY ManagerAssumption DEF TMP!TTLAssumption, TMP!MaxTimeAssumption, TMP!TasksAssumption,
   IsFiniteSet, TMP!IsFiniteSet

\* and ones that the auditor admits, which neither fails nor restarts here.
LEMMA AuditorAssumptions ==
  /\ AUP!CapacityAssumption /\ AUP!MaxSizeAssumption /\ AUP!RotationAssumption
  /\ AUP!BoundsAssumption
BY AuditorAssumption DEF AUP!CapacityAssumption, AUP!MaxSizeAssumption,
   AUP!RotationAssumption, AUP!BoundsAssumption

\* What a step of the server does to the manager is a step of its own or nothing.
LEMMA ManagerStep == [Next]_vars => [TMP!Next]_TMP!vars
<1> SUFFICES ASSUME [Next]_vars PROVE [TMP!Next]_TMP!vars
  OBVIOUS
<1> USE DEF TM!vars, TM!taskVars, TM!handleVars, TM!execVars, TM!cleanVars,
            TMP!vars, TMP!taskVars, TMP!handleVars, TMP!execVars, TMP!cleanVars, taskVars
<1>1. ASSUME NEW t \in Tasks, Accept(t) PROVE TMP!HandlerStep(t)
  BY <1>1 DEF Accept, TM!RejectRequest, TM!RefuseTask, TM!CreateTask, TM!NewTask,
       TM!NoTime,
     TM!Refusals, TM!RefusalCode, TM!SubmitError,
     TMP!HandlerStep, TMP!RejectRequest, TMP!RefuseTask, TMP!CreateTask, TMP!NewTask,
     TMP!NoTime, TMP!Refusals, TMP!RefusalCode, TMP!SubmitError
<1>2. ASSUME NEW t \in Tasks, HandlerStep(t) PROVE TMP!HandlerStep(t)
  BY <1>2 DEF HandlerStep, TM!SaveTask, TM!Launch, TM!ReadPointer, TM!ReadLength,
       TM!StatusLen,
     TMP!HandlerStep, TMP!SaveTask, TMP!Launch, TMP!ReadPointer, TMP!ReadLength, TMP!StatusLen
<1>3. ASSUME NEW t \in Tasks, Execute(t) PROVE TMP!ExecStep(t)
  <2>1. CASE TM!FetchTask(t)
    BY <2>1 DEF TM!FetchTask, TM!Return, TMP!ExecStep, TMP!FetchTask, TMP!Return
  <2>2. CASE TM!MarkRunning(t)
    BY <2>2 DEF TM!MarkRunning, TM!Started, TM!Return,
       TMP!ExecStep, TMP!MarkRunning, TMP!Started, TMP!Return
  <2>3. CASE TM!RunCommand(t)
    BY <2>3 DEF TM!RunCommand, TM!Outcomes, TMP!ExecStep, TMP!RunCommand, TMP!Outcomes
  <2>4. CASE TM!FinishTask(t)
    BY <2>4 DEF TM!FinishTask, TM!Finished, TM!StatusOf, TM!HasResult, TM!Return,
       TMP!ExecStep, TMP!FinishTask, TMP!Finished, TMP!StatusOf, TMP!HasResult, TMP!Return
  <2> QED
    BY <1>3, <2>1, <2>2, <2>3, <2>4 DEF Execute
<1>4. ASSUME NEW t \in Tasks, AuditTask(t) PROVE TMP!ExecStep(t)
  BY <1>4 DEF AuditTask, TM!AuditTask, TM!HasResult, TM!Return,
     TMP!ExecStep, TMP!AuditTask, TMP!HasResult, TMP!Return
<1>5. CASE CleanUp
  BY <1>5 DEF CleanUp, TM!CleanerStep, TM!ComputeCutoff, TM!Sweep, TM!Expired,
       TM!NoTime,
     TMP!Next, TMP!CleanerStep, TMP!ComputeCutoff, TMP!Sweep, TMP!Expired, TMP!NoTime
<1>6. CASE TimePasses
  BY <1>6 DEF TimePasses, TM!Tick, TMP!Next, TMP!Tick
<1>7. CASE Unwind
  BY <1>7 DEF Unwind, TM!Close, TMP!Next, TMP!Close
<1>8. CASE AuditRequest \/ WriterStep \/ Shutdown \/ ListenFails \/ Kill \/ UNCHANGED vars
  BY <1>8 DEF AuditRequest, WriterStep, Shutdown, ListenFails, Kill, vars
<1> QED
  BY <1>1, <1>2, <1>3, <1>4, <1>5, <1>6, <1>7, <1>8 DEF Next, TMP!Next

\* So with the auditor.
LEMMA AuditorStep == [Next]_vars => [AUP!Next]_AUP!vars
<1> SUFFICES ASSUME [Next]_vars PROVE [AUP!Next]_AUP!vars
  OBVIOUS
<1> USE DEF AU!queueVars, AU!writerVars, AU!closeVars,
            AUP!vars, AUP!queueVars, AUP!writerVars, AUP!closeVars, auditorVars
<1>1. AU!Log => AUP!Log
  BY DEF AU!Log, AU!Room, AUP!Log, AUP!Room
<1>2. AU!WriterStep => AUP!WriterStep
  <2> SUFFICES ASSUME AU!WriterStep PROVE AUP!WriterStep
    OBVIOUS
  <2> USE DEF AU!AfterCancel, AUP!AfterCancel, AU!BackToLoop, AUP!BackToLoop
  <2>1. CASE AU!Receive \/ AU!SeeCancel \/ AU!DrainEnds
    BY <2>1 DEF AU!Receive, AU!SeeCancel, AU!DrainEnds,
       AUP!WriterStep, AUP!Receive, AUP!SeeCancel, AUP!DrainEnds
  <2>2. CASE AU!OpenLog \/ AU!Reopen
    BY <2>2 DEF AU!OpenLog, AU!Reopen, AU!Created,
       AUP!WriterStep, AUP!OpenLog, AUP!Reopen, AUP!Created
  <2>3. CASE AU!Shift \/ AU!MoveCurrent
    BY <2>3 DEF AU!Shift, AU!MoveCurrent, AU!Rename,
       AUP!WriterStep, AUP!Shift, AUP!MoveCurrent, AUP!Rename
  <2>4. CASE AU!WriteLine
    BY <2>4 DEF AU!WriteLine, AU!Written, AU!AfterFragment,
       AUP!WriterStep, AUP!WriteLine, AUP!Written, AUP!AfterFragment
  <2> QED
    BY <2>1, <2>2, <2>3, <2>4 DEF AU!WriterStep
<1>3. AU!Close => AUP!Close
  BY DEF AU!Close, AUP!Close
<1>4. ASSUME NEW t \in Tasks, AuditTask(t) PROVE AUP!Log \/ UNCHANGED auditorVars
  BY <1>1, <1>4 DEF AuditTask
<1>5. CASE AuditRequest \/ WriterStep
  BY <1>1, <1>2, <1>5 DEF AuditRequest, WriterStep, AUP!Next
<1>6. CASE Unwind
  BY <1>3, <1>6 DEF Unwind, AUP!Next
<1>7. ASSUME NEW t \in Tasks, Accept(t) \/ HandlerStep(t) \/ Execute(t)
      PROVE  UNCHANGED auditorVars
  BY <1>7 DEF Accept, HandlerStep, Execute
<1>8. CASE CleanUp \/ TimePasses \/ Shutdown \/ ListenFails \/ Kill \/ UNCHANGED vars
  BY <1>8 DEF CleanUp, TimePasses, Shutdown, ListenFails, Kill, vars
<1> QED
  BY <1>4, <1>5, <1>6, <1>7, <1>8 DEF Next, AUP!Next

-----------------------------------------------------------------------------
(* The invariant is kept. *)

\* run() has started the cleanup loop before it serves.
LEMMA InitSInv == Init => SInv
<1> SUFFICES ASSUME Init PROVE SInv
  OBVIOUS
<1> USE DEF Init
<1>1. TMP!Types
  BY ManagerAssumption DEF TMP!Types, TMP!TaskRecord, TMP!Statuses, TMP!Final,
       TMP!Outcomes,
     TMP!Refusals, TM!NoTask, TM!NoTime
<1>2. TMP!WaitGroupExact
  <2>1. {t \in Tasks : TMP!Running(t)} = {}
    BY DEF TMP!Running
  <2>2. Cardinality({}) = 0
    BY FS_EmptySet
  <2>3. TMP!Cardinality({t \in Tasks : TMP!Running(t)}) = 0
    BY <2>1, <2>2 DEF TMP!Cardinality, Cardinality
  <2> QED
    BY <2>3 DEF TMP!WaitGroupExact
<1>3. TMP!CutoffInv
  BY DEF TMP!CutoffInv
<1>4. ASSUME NEW t \in Tasks PROVE TMP!TaskInv(t)
  BY DEF TMP!TaskInv, TMP!HandlerInv, TMP!ObjectInv, TMP!AuditInv, TMP!ToldInv,
     TMP!Unsubmitted, TMP!Refusals, TMP!NoTime, TM!NoTask, TM!NoTime
<1>5. RunInv
  BY DEF RunInv, AU!Init, DeferredCalls, BuildOrder
<1>6. EntriesInv /\ logged = 0
  BY DEF EntriesInv, AU!Init
<1>7. RoomInv
  <2>1. Unaudited = Tasks
    BY DEF Unaudited
  <2>2. Cardinality(Tasks) \in Nat
    BY ManagerAssumption, FS_CardinalityType
  <2> QED
    BY <1>6, <2>1, <2>2, RoomAssumption DEF RoomInv
<1> QED
  BY <1>1, <1>2, <1>3, <1>4, <1>5, <1>6, <1>7 DEF SInv, TMP!PInv

\* While the cleanup loop is there the WaitGroup does not become empty.
LEMMA LoopIsCounted == TMP!PInv /\ cleaner # "off" => wg # 0
<1> SUFFICES ASSUME TMP!PInv, cleaner # "off" PROVE wg # 0
  OBVIOUS
<1> DEFINE c == TMP!Cardinality({t \in Tasks : TMP!Running(t)})
<1>1. wg = c + 1
  BY DEF TMP!PInv, TMP!WaitGroupExact
<1>2. c \in Nat
  <2>1. TMP!Cardinality(TMP!Alive) \in Nat
    BY ManagerAssumptions, TMP!AliveFinite
  <2> QED
    BY <2>1 DEF TMP!Alive
<1> QED
  BY <1>1, <1>2

\* run() gets no further than its first deferred call.
LEMMA RunStep == SInv /\ [Next]_vars => RunInv'
<1> SUFFICES ASSUME SInv, [Next]_vars PROVE RunInv'
  OBVIOUS
<1> USE DEF SInv, RunInv, runVars, taskVars, auditorVars, Alive,
            TM!taskVars, TM!handleVars, TM!execVars, TM!cleanVars,
            AU!queueVars, AU!writerVars, AU!closeVars
<1>1. ASSUME NEW t \in Tasks, Accept(t) PROVE RunInv'
  BY <1>1 DEF Accept, TM!RejectRequest, TM!RefuseTask, TM!CreateTask
<1>2. ASSUME NEW t \in Tasks, HandlerStep(t) PROVE RunInv'
  BY <1>2 DEF HandlerStep, TM!SaveTask, TM!Launch, TM!ReadPointer, TM!ReadLength
<1>3. ASSUME NEW t \in Tasks, Execute(t) PROVE RunInv'
  BY <1>3 DEF Execute, TM!FetchTask, TM!MarkRunning, TM!RunCommand, TM!FinishTask
<1>4. ASSUME NEW t \in Tasks, AuditTask(t) PROVE RunInv'
  <2>1. UNCHANGED <<run, deferred, cleaner, closer>>
    BY <1>4 DEF AuditTask, TM!AuditTask
  <2>2. UNCHANGED auditorCloser
    BY <1>4 DEF AuditTask, AU!Log
  <2> QED
    BY <2>1, <2>2
<1>5. CASE AuditRequest
  BY <1>5 DEF AuditRequest, AU!Log
<1>6. CASE CleanUp
  BY <1>6 DEF CleanUp, TM!CleanerStep, TM!ComputeCutoff, TM!Sweep
<1>7. CASE WriterStep
  BY <1>7 DEF WriterStep, AU!WriterStep, AU!Receive, AU!SeeCancel, AU!DrainEnds,
       AU!OpenLog,
     AU!Shift, AU!MoveCurrent, AU!Reopen, AU!WriteLine
<1>8. CASE TimePasses
  BY <1>8 DEF TimePasses, TM!Tick
<1>9. CASE Shutdown \/ ListenFails \/ Kill
  BY <1>9 DEF Shutdown, ListenFails, Kill
<1>10. CASE Unwind
  <2>1. closer = "open"
    BY <1>10, LoopIsCounted DEF Unwind, Returned
  <2>2. deferred # <<>> /\ Head(deferred) = "manager" /\ Tail(deferred) = <<"auditor">>
    BY <2>1
  <2>3. TM!Close /\ UNCHANGED <<auditorVars, run>> /\ deferred' = <<"auditor">>
    BY <1>10, <2>2 DEF Unwind
  <2> QED
    BY <1>10, <2>3 DEF TM!Close, Unwind
<1>11. CASE UNCHANGED vars
  BY <1>11 DEF vars
<1> QED
  BY <1>1, <1>2, <1>3, <1>4, <1>5, <1>6, <1>7, <1>8, <1>9, <1>10, <1>11 DEF Next

\* Of the auditor, only Log numbers entries; of the manager, only the audit of
\* a task touches the set of audited ones.
LEMMA EntriesKept ==
  ASSUME SInv, [Next]_vars, ~AuditRequest, \A t \in Tasks : ~AuditTask(t)
  PROVE  UNCHANGED <<entryOf, logged, auditLog>>
<1> USE DEF runVars, taskVars, auditorVars, TM!taskVars, TM!handleVars, TM!execVars,
            AU!queueVars
<1>1. ASSUME NEW t \in Tasks, Accept(t) \/ HandlerStep(t)
      PROVE  UNCHANGED <<entryOf, logged, auditLog>>
  BY <1>1 DEF Accept, TM!RejectRequest, TM!RefuseTask, TM!CreateTask,
     HandlerStep, TM!SaveTask, TM!Launch, TM!ReadPointer, TM!ReadLength
<1>2. ASSUME NEW t \in Tasks, Execute(t)
      PROVE  UNCHANGED <<entryOf, logged, auditLog>>
  BY <1>2 DEF Execute, TM!FetchTask, TM!MarkRunning, TM!RunCommand, TM!FinishTask
<1>3. CASE CleanUp \/ TimePasses
  BY <1>3 DEF CleanUp, TM!CleanerStep, TM!ComputeCutoff, TM!Sweep, TimePasses, TM!Tick
<1>4. CASE WriterStep
  BY <1>4 DEF WriterStep, AU!WriterStep, AU!Receive, AU!SeeCancel, AU!DrainEnds,
       AU!OpenLog,
     AU!Shift, AU!MoveCurrent, AU!Reopen, AU!WriteLine
<1>5. CASE Shutdown \/ ListenFails \/ Kill \/ UNCHANGED vars
  BY <1>5 DEF Shutdown, ListenFails, Kill, vars
<1>6. CASE Unwind
  BY <1>6 DEF Unwind, TM!Close, AU!Close
<1> QED
  BY <1>1, <1>2, <1>3, <1>4, <1>5, <1>6 DEF Next

\* What a new number is for: a task that is audited for the first time.
LEMMA TaskNumbered ==
  ASSUME SInv, NEW t \in Tasks, AuditTask(t)
  PROVE  /\ entryOf[t] = 0 /\ t \notin auditLog
         /\ \/ auditLog' = auditLog /\ UNCHANGED <<entryOf, logged>>
            \/ /\ auditLog' = auditLog \cup {t} /\ logged' = logged + 1
               /\ entryOf' = [entryOf EXCEPT ![t] = logged + 1]
<1>1. t \notin auditLog
  BY DEF SInv, TMP!PInv, TMP!TaskInv, TMP!AuditInv, AuditTask, TM!AuditTask
<1>2. entryOf[t] = 0
  BY <1>1 DEF SInv, EntriesInv
<1>3. auditLog' = auditLog \/ auditLog' = auditLog \cup {t}
  BY DEF AuditTask, TM!AuditTask
<1>4. CASE t \in auditLog'
  <2>1. auditLog' = auditLog \cup {t}
    BY <1>1, <1>3, <1>4
  <2>2. AU!Log /\ entryOf' = [entryOf EXCEPT ![t] = logged']
    BY <1>4 DEF AuditTask
  <2>3. logged' = logged + 1
    BY <2>2 DEF AU!Log
  <2> QED
    BY <1>1, <1>2, <2>1, <2>2, <2>3
<1>5. CASE t \notin auditLog'
  <2>1. auditLog' = auditLog
    BY <1>3, <1>5
  <2>2. UNCHANGED <<entryOf, logged>>
    BY <1>5 DEF AuditTask, auditorVars
  <2> QED
    BY <1>1, <1>2, <2>1, <2>2
<1> QED
  BY <1>4, <1>5

\* Numbers go up, so that a new one is nobody's.
LEMMA EntriesStep == SInv /\ AUP!TypeOK /\ [Next]_vars => EntriesInv'
<1> SUFFICES ASSUME SInv, AUP!TypeOK, [Next]_vars PROVE EntriesInv'
  OBVIOUS
<1>1. /\ logged \in Nat /\ entryOf \in [Tasks -> 0..logged]
      /\ \A t \in Tasks : entryOf[t] # 0 <=> t \in auditLog
      /\ \A t, u \in Tasks : entryOf[t] = entryOf[u] /\ entryOf[t] # 0 => t = u
  BY AuditorAssumption DEF SInv, EntriesInv, AUP!TypeOK
<1>2. ASSUME NEW t \in Tasks, AuditTask(t) PROVE EntriesInv'
  <2>1. CASE auditLog' = auditLog /\ UNCHANGED <<entryOf, logged>>
    BY <1>1, <2>1 DEF EntriesInv
  <2>2. CASE /\ auditLog' = auditLog \cup {t} /\ logged' = logged + 1
             /\ entryOf' = [entryOf EXCEPT ![t] = logged + 1]
    BY <1>1, <2>2 DEF EntriesInv
  <2> QED
    BY <1>2, <2>1, <2>2, TaskNumbered
<1>3. CASE AuditRequest
  <2>1. logged' = logged + 1 /\ UNCHANGED <<entryOf, auditLog>>
    BY <1>3 DEF AuditRequest, AU!Log, runVars, taskVars
  <2> QED
    BY <1>1, <2>1 DEF EntriesInv
<1>4. CASE UNCHANGED <<entryOf, logged, auditLog>>
  BY <1>1, <1>4 DEF EntriesInv
<1> QED
  BY <1>2, <1>3, <1>4, EntriesKept

\* A request's entry leaves room for the tasks', a task's takes its own.
LEMMA RoomStep == SInv /\ AUP!TypeOK /\ [Next]_vars => RoomInv'
<1> SUFFICES ASSUME SInv, AUP!TypeOK, [Next]_vars PROVE RoomInv'
  OBVIOUS
<1>1. /\ logged \in Nat /\ MaxLogs \in Nat
      /\ IsFiniteSet(Unaudited) /\ Cardinality(Unaudited) \in Nat
      /\ logged + Cardinality(Unaudited) <= MaxLogs
  <2>1. IsFiniteSet(Unaudited)
    BY ManagerAssumption, FS_Subset DEF Unaudited
  <2> QED
    BY <2>1, AuditorAssumption, FS_CardinalityType DEF SInv, RoomInv, AUP!TypeOK
<1>2. ASSUME NEW t \in Tasks, AuditTask(t) PROVE RoomInv'
  <2>1. CASE UNCHANGED <<entryOf, logged>>
    BY <1>1, <2>1 DEF RoomInv, Unaudited
  <2>2. CASE logged' = logged + 1 /\ entryOf' = [entryOf EXCEPT ![t] = logged + 1]
    <3>1. entryOf[t] = 0 /\ entryOf \in [Tasks -> 0..logged]
      BY <1>2, TaskNumbered DEF SInv, EntriesInv
    <3>2. Unaudited' = Unaudited \ {t} /\ t \in Unaudited
      BY <1>1, <2>2, <3>1 DEF Unaudited
    <3>3. Cardinality(Unaudited') = Cardinality(Unaudited) - 1
      BY <1>1, <3>2, FS_RemoveElement
    <3> QED
      BY <1>1, <2>2, <3>3 DEF RoomInv
  <2> QED
    BY <1>2, <2>1, <2>2, TaskNumbered
<1>3. CASE AuditRequest
  <2>1. logged' = logged + 1 /\ UNCHANGED entryOf /\ logged < MaxLogs - Cardinality(Unaudited)
    BY <1>3 DEF AuditRequest, AU!Log, runVars, Unaudited
  <2>2. Unaudited' = Unaudited
    BY <2>1 DEF Unaudited
  <2> QED
    BY <1>1, <2>1, <2>2 DEF RoomInv
<1>4. CASE UNCHANGED <<entryOf, logged, auditLog>>
  BY <1>1, <1>4 DEF RoomInv, Unaudited
<1> QED
  BY <1>2, <1>3, <1>4, EntriesKept

\* Every step keeps the server's invariant, beside the auditor's.
LEMMA SInvStep == SInv /\ AUP!TypeOK /\ [Next]_vars => SInv'
<1> SUFFICES ASSUME SInv, AUP!TypeOK, [Next]_vars PROVE SInv'
  OBVIOUS
<1>1. TMP!PInv'
  BY ManagerStep, ManagerAssumptions, TMP!PInvStep DEF SInv
<1> QED
  BY <1>1, RunStep, EntriesStep, RoomStep DEF SInv

-----------------------------------------------------------------------------
(* Theorems. *)

\* The server's auditor is an auditor: what main.go does with it, the order of
\* the deferred calls included, is a use that Auditor describes.
THEOREM ServerImplementsAuditor == Spec => AUP!Spec
<1>1. Init => AUP!Init
  BY DEF Init, AU!Init, AUP!Init
<1> QED
  BY <1>1, AuditorStep, PTL DEF Spec, AUP!Spec

\* So its invariant holds in the server.
LEMMA AuditorInServer == Spec => []AUP!AInv
<1>1. AUP!Spec => []AUP!AInv
  BY AuditorAssumptions, AUP!AuditorInvariant
<1> QED
  BY <1>1, ServerImplementsAuditor, PTL

\* The manager's invariant holds in the server, which starts the cleanup loop
\* first, with the invariants of run() and of the tasks' audit entries.
THEOREM ServerInvariant == Spec => []SInv
<1>1. AUP!AInv => AUP!TypeOK
  BY DEF AUP!AInv
<1> QED
  BY <1>1, InitSInv, SInvStep, AuditorInServer, PTL DEF Spec

\* What TaskManager promises of every task holds in the server, through signals
\* and a failed listen.
TasksSafe == TMP!DurationDefined /\ TMP!NoOrphan /\ TMP!AuditMatchesStore

\* So for every set of tasks and however the process is asked to end.
THEOREM ServerKeepsTasksSafe == Spec => []TasksSafe
<1>1. SInv => TasksSafe
  BY ManagerAssumptions, TMP!PInvImpliesIInv, TMP!IInvSafety DEF SInv, TasksSafe
<1> QED
  BY <1>1, ServerInvariant, PTL

\* run() never returns and never closes the auditor, whatever the tasks do: its
\* first deferred call, Manager.Close, waits for a cleanup loop that nothing
\* ends (main.go run, Manager.StartCleanupLoop).
NeverUnwinds == run # "exited" /\ auditorCloser = "open"

\* So for every set of tasks and every TTL, not only where TLC met it.
THEOREM RunNeverReturns == Spec => []NeverUnwinds
<1>1. SInv => NeverUnwinds
  BY DEF SInv, RunInv, NeverUnwinds
<1> QED
  BY <1>1, ServerInvariant, PTL

\* A task in the manager's audit set has an audit entry of its own, and that
\* entry is queued, being written, written, or was dropped by a full channel.
AuditsAccounted ==
  \A t \in auditLog :
    /\ entryOf[t] \in written \cup lost \cup AUP!Queued \cup {entry}
    /\ \A u \in Tasks \ {t} : entryOf[u] # entryOf[t]

\* executeTask's audit entry is never missing without a full channel's drop.
THEOREM TaskAuditsAccounted == Spec => []AuditsAccounted
<1>1. SInv /\ AUP!AInv => AuditsAccounted
  <2> SUFFICES ASSUME SInv, AUP!AInv, NEW t \in auditLog
               PROVE  /\ entryOf[t] \in written \cup lost \cup AUP!Queued \cup {entry}
                      /\ \A u \in Tasks \ {t} : entryOf[u] # entryOf[t]
    BY DEF AuditsAccounted
  <2>1. t \in Tasks
    BY DEF SInv, TMP!PInv, TMP!Types
  <2>2. logged \in Nat /\ entryOf[t] \in 0..logged /\ entryOf[t] # 0
    BY <2>1, AuditorAssumption DEF SInv, EntriesInv, AUP!AInv, AUP!TypeOK
  <2>3. entryOf[t] \in 1..logged
    BY <2>2
  <2>4. entryOf[t] \in written \cup lost \cup AUP!Queued \cup {entry}
    BY <2>3 DEF AUP!AInv, AUP!AccountInv
  <2>5. \A u \in Tasks \ {t} : entryOf[u] # entryOf[t]
    BY <2>1, <2>2 DEF SInv, EntriesInv
  <2> QED
    BY <2>4, <2>5
<1> QED
  BY <1>1, ServerInvariant, AuditorInServer, PTL

\* The bound on Log calls never keeps a task from its audit.
AuditHasRoom == \A t \in Tasks : exec[t] = "audit" => logged < MaxLogs

\* The assumption on MaxLogs is enough: MaxLogs bounds requests' entries only.
THEOREM BoundLeavesRoom == Spec => []AuditHasRoom
<1>1. SInv /\ AUP!AInv => AuditHasRoom
  <2> SUFFICES ASSUME SInv, AUP!AInv, NEW t \in Tasks, exec[t] = "audit"
               PROVE  logged < MaxLogs
    BY DEF AuditHasRoom
  <2>1. t \notin auditLog
    BY DEF SInv, TMP!PInv, TMP!TaskInv, TMP!AuditInv
  <2>2. t \in Unaudited
    BY <2>1 DEF SInv, EntriesInv, Unaudited
  <2>3. IsFiniteSet(Unaudited)
    BY ManagerAssumption, FS_Subset DEF Unaudited
  <2>4. Cardinality(Unaudited) \in Nat /\ Cardinality(Unaudited) # 0
    BY <2>2, <2>3, FS_CardinalityType, FS_EmptySet
  <2>5. logged \in Nat /\ MaxLogs \in Nat /\ logged + Cardinality(Unaudited) <= MaxLogs
    BY AuditorAssumption DEF SInv, RoomInv, AUP!AInv, AUP!TypeOK
  <2> QED
    BY <2>4, <2>5
<1> QED
  BY <1>1, ServerInvariant, AuditorInServer, PTL
===============================================================================
