----------------------------- MODULE ExecHandler -----------------------------
(***************************************************************************)
(* The synchronous endpoint: handlers.ExecHandler with its concurrency     *)
(* limiter, executor.Execute, and the operating-system processes Execute   *)
(* starts and waits for.                                                   *)
(*                                                                         *)
(* A command is its leader process and at most one child of the same       *)
(* process group, which may hold the output pipes open.  Output is counted *)
(* in chunks; stdout and stderr are one stream.  The deadline of the       *)
(* context is a timer that may fire at any time after it was set.          *)
(***************************************************************************)
EXTENDS Integers, FiniteSets

CONSTANTS
  Requests,        \* requests to /ooc-exec
  MaxConcurrent,   \* capacity of Limiter.sem
  MaxOutput,       \* maxOutputBytes, in chunks
  MaxEmitted       \* bound: chunks a command writes

ASSUME RequestsAssumption == IsFiniteSet(Requests)
ASSUME MaxConcurrentAssumption == MaxConcurrent \in Nat
ASSUME MaxOutputAssumption == MaxOutput \in Nat
ASSUME MaxEmittedAssumption == MaxEmitted \in Nat

VARIABLES
  pc,         \* pc[r]: where the request's goroutine is
  reply,      \* reply[r]: the HTTP status it wrote (0: none yet)
  sem,        \* tokens in Limiter.sem
  deadline,   \* deadline[r]: Execute's context is past its deadline
  leader,     \* leader[r]: the command's process
  child,      \* child[r]: another process of its group
  emitted,    \* emitted[r]: chunks the group wrote to the pipes
  captured,   \* captured[r]: the LimitedBuffers
  auditLog    \* requests whose entry was handed to Auditor.Log

procVars == <<leader, child, emitted>>
vars == <<pc, reply, sem, deadline, procVars, captured, auditLog>>

\* What a LimitedBuffer holds, and what it says of it.
EmptyBuffer == [length |-> 0, bytesWritten |-> 0, truncated |-> FALSE]

\* The answers of handle before Execute starts anything: method, body, fields,
\* whitelist, a failed match; and those of Execute's validator.
EarlyReplies   == {405, 400, 403, 500}
\* Inside the limiter, until the deferred release.
HoldsSlot(r) == pc[r] \in {"admitted", "wait", "returned", "kill", "audit", "release"}
Slots == {r \in Requests : HoldsSlot(r)}

Goto(r, l) == pc' = [pc EXCEPT ![r] = l]
Answer(r, code) == reply' = [reply EXCEPT ![r] = code]

-----------------------------------------------------------------------------
Init ==
  /\ pc = [r \in Requests |-> "idle"]
  /\ reply = [r \in Requests |-> 0]
  /\ sem = 0
  /\ deadline = [r \in Requests |-> FALSE]
  /\ leader = [r \in Requests |-> "none"]
  /\ child = [r \in Requests |-> "none"]
  /\ emitted = [r \in Requests |-> 0]
  /\ captured = [r \in Requests |-> EmptyBuffer]
  /\ auditLog = {}

\* auth.Middleware comes before the limiter.
Unauthorized(r) ==
  /\ pc[r] = "idle"
  /\ Answer(r, 401) /\ Goto(r, "done")
  /\ UNCHANGED <<sem, deadline, procVars, captured, auditLog>>

\* Limiter.Middleware: the send to sem, or its default branch.
Acquire(r) ==
  /\ pc[r] = "idle"
  /\ IF sem < MaxConcurrent
       THEN sem' = sem + 1 /\ Goto(r, "admitted") /\ UNCHANGED reply
       ELSE Answer(r, 503) /\ Goto(r, "done") /\ UNCHANGED sem
  /\ UNCHANGED <<deadline, procVars, captured, auditLog>>

\* handle returns before anything is executed, or Execute's validator refuses.
Refuse(r) ==
  /\ pc[r] = "admitted"
  /\ \E code \in EarlyReplies : Answer(r, code)
  /\ Goto(r, "release")
  /\ UNCHANGED <<sem, deadline, procVars, captured, auditLog>>

-----------------------------------------------------------------------------
(* Execute *)

\* A command that does not start is answered with 500; it is not audited.
StartFails(r) ==
  /\ pc[r] = "admitted"
  /\ Answer(r, 500) /\ Goto(r, "release")
  /\ UNCHANGED <<sem, deadline, procVars, captured, auditLog>>

\* The context is set up just before: its deadline may be over already.
Start(r) ==
  /\ pc[r] = "admitted"
  /\ leader' = [leader EXCEPT ![r] = "alive"]
  /\ Goto(r, "wait")
  /\ UNCHANGED <<reply, sem, deadline, child, emitted, captured, auditLog>>

\* The context's timer; nobody looks at it after CheckTimeout.
DeadlineFires(r) ==
  /\ pc[r] \in {"wait", "returned"} /\ ~deadline[r]
  /\ deadline' = [deadline EXCEPT ![r] = TRUE]
  /\ UNCHANGED <<pc, reply, sem, procVars, captured, auditLog>>

WaitLeaderOnly(r) ==    \* mutant: gives up on the pipes once the leader is gone
  /\ pc[r] = "wait" /\ leader[r] = "gone"
  /\ Goto(r, "returned")
  /\ UNCHANGED <<reply, sem, deadline, procVars, captured, auditLog>>

\* Cmd.Wait: the leader is reaped and the copying goroutines have seen the end
\* of the pipes, that is, no process holds them and nothing is left in them.
WaitReturns(r) ==
  /\ pc[r] = "wait"
  /\ leader[r] = "gone" /\ child[r] # "holding"
  /\ captured[r].length = emitted[r]
  /\ Goto(r, "returned")
  /\ UNCHANGED <<reply, sem, deadline, procVars, captured, auditLog>>

CheckTimeoutInverted(r) ==    \* mutant: the two branches are swapped
  /\ pc[r] = "returned"
  /\ Goto(r, IF deadline[r] THEN "audit" ELSE "kill")
  /\ UNCHANGED <<reply, sem, deadline, procVars, captured, auditLog>>

\* ctx.Err() is looked at after Wait, whatever made the command end.
CheckTimeout(r) ==
  /\ pc[r] = "returned"
  /\ Goto(r, IF deadline[r] THEN "kill" ELSE "audit")
  /\ UNCHANGED <<reply, sem, deadline, procVars, captured, auditLog>>

KillLeaderAgain(r) ==    \* mutant: kills the process instead of its group
  /\ pc[r] = "kill"
  /\ Answer(r, 408) /\ Goto(r, "release")
  /\ UNCHANGED <<sem, deadline, procVars, captured, auditLog>>

\* Kill of the negated pid; handle answers 408 and returns before the audit.
KillGroup(r) ==
  /\ pc[r] = "kill"
  /\ child' = [child EXCEPT ![r] = IF @ = "none" THEN "none" ELSE "gone"]
  /\ Answer(r, 408) /\ Goto(r, "release")
  /\ UNCHANGED <<sem, deadline, leader, emitted, captured, auditLog>>

\* Auditor.Log, then the response; also for an exit code other than 0.
AuditAndRespond(r) ==
  /\ pc[r] = "audit"
  /\ auditLog' = auditLog \cup {r}
  /\ Answer(r, 200) /\ Goto(r, "release")
  /\ UNCHANGED <<sem, deadline, procVars, captured>>

ReleaseNothing(r) ==    \* mutant: the deferred receive is missing
  /\ pc[r] = "release"
  /\ Goto(r, "done")
  /\ UNCHANGED <<reply, sem, deadline, procVars, captured, auditLog>>

\* The deferred receive of the limiter runs after the response was written.
Release(r) ==
  /\ pc[r] = "release"
  /\ sem' = sem - 1
  /\ Goto(r, "done")
  /\ UNCHANGED <<reply, deadline, procVars, captured, auditLog>>

-----------------------------------------------------------------------------
(* os/exec and the processes: external. *)

KillNothing(r) == FALSE    \* mutant: exec.Command instead of exec.CommandContext

\* exec.CommandContext: a goroutine kills the process, not its group.
KillLeader(r) ==
  /\ pc[r] = "wait" /\ deadline[r] /\ leader[r] = "alive"
  /\ leader' = [leader EXCEPT ![r] = "gone"]
  /\ UNCHANGED <<pc, reply, sem, deadline, child, emitted, captured, auditLog>>

LeaderExits(r) ==
  /\ leader[r] = "alive"
  /\ leader' = [leader EXCEPT ![r] = "gone"]
  /\ UNCHANGED <<pc, reply, sem, deadline, child, emitted, captured, auditLog>>

\* The child inherits the pipes or has its output redirected elsewhere.
Fork(r) ==
  /\ leader[r] = "alive" /\ child[r] = "none"
  /\ \E k \in {"holding", "redirected"} : child' = [child EXCEPT ![r] = k]
  /\ UNCHANGED <<pc, reply, sem, deadline, leader, emitted, captured, auditLog>>

ChildExits(r) ==
  /\ child[r] \in {"holding", "redirected"}
  /\ child' = [child EXCEPT ![r] = "gone"]
  /\ UNCHANGED <<pc, reply, sem, deadline, leader, emitted, captured, auditLog>>

Emit(r) ==
  /\ emitted[r] < MaxEmitted
  /\ leader[r] = "alive" \/ child[r] = "holding"
  /\ emitted' = [emitted EXCEPT ![r] = @ + 1]
  /\ UNCHANGED <<pc, reply, sem, deadline, leader, child, captured, auditLog>>

\* os/exec copies with io.Copy, which calls ReadFrom of a writer that has one.
\* LimitedBuffer has the one of the bytes.Buffer it embeds: its own Write, the
\* only place that counts and truncates, is not called.
Copy(r) ==
  /\ captured[r].length < emitted[r]
  /\ captured' = [captured EXCEPT ![r].length = @ + 1]
  /\ UNCHANGED <<pc, reply, sem, deadline, procVars, auditLog>>

-----------------------------------------------------------------------------
HandlerStep(r) == \/ Refuse(r) \/ StartFails(r) \/ Start(r) \/ WaitReturns(r)
                  \/ CheckTimeout(r) \/ KillGroup(r) \/ AuditAndRespond(r) \/ Release(r)
RuntimeStep(r) == DeadlineFires(r) \/ KillLeader(r) \/ Copy(r)
ProcessStep(r) == LeaderExits(r) \/ Fork(r) \/ ChildExits(r) \/ Emit(r)

Next == \E r \in Requests :
          \/ Unauthorized(r) \/ Acquire(r)
          \/ HandlerStep(r) \/ RuntimeStep(r) \/ ProcessStep(r)

Spec == Init /\ [][Next]_vars

\* Goroutines run and time passes; a process need not ever do anything.
FairSpec ==
  Spec /\ \A r \in Requests : /\ WF_vars(HandlerStep(r))
                              /\ WF_vars(DeadlineFires(r))
                              /\ WF_vars(KillLeader(r))
                              /\ WF_vars(Copy(r))

-----------------------------------------------------------------------------
(* Properties. *)

\* Every variable holds a value of its kind; the channel never holds more
\* tokens than its capacity.
TypeOK ==
  /\ pc \in [Requests -> {"idle", "admitted", "wait", "returned", "kill", "audit",
                          "release", "done"}]
  /\ reply \in [Requests -> {0, 200, 401, 408, 503} \cup EarlyReplies]
  /\ sem \in 0..MaxConcurrent
  /\ deadline \in [Requests -> BOOLEAN]
  /\ leader \in [Requests -> {"none", "alive", "gone"}]
  /\ child \in [Requests -> {"none", "holding", "redirected", "gone"}]
  /\ emitted \in [Requests -> Nat]
  /\ captured \in [Requests -> [length : Nat, bytesWritten : Nat, truncated : BOOLEAN]]
  /\ auditLog \subseteq Requests

\* The limiter counts exactly the requests inside it, and so no more commands
\* run at once than MaxConcurrent, whatever way each of them ends.
CommandsBounded ==
  /\ sem = Cardinality(Slots)
  /\ Cardinality({r \in Requests : leader[r] = "alive"}) <= MaxConcurrent

\* A client that is told how its command ended is given everything the command
\* and its group wrote to the pipes, also after a timeout.
NothingLost ==
  \A r \in Requests : reply[r] \in {200, 408} => captured[r].length = emitted[r]

\* The answer 408 comes with the whole group gone, and only after the deadline.
TimeoutKillsGroup ==
  \A r \in Requests : reply[r] = 408 =>
    deadline[r] /\ leader[r] = "gone" /\ child[r] \in {"none", "gone"}

\* An audited command ran, ended and was not timed out; and a client is told
\* 200 of exactly the audited ones.
AuditedAreCompleted ==
  \A r \in Requests :
    /\ r \in auditLog => leader[r] = "gone" /\ ~deadline[r]
    /\ r \in auditLog <=> reply[r] = 200

\* The limiter keeps its promise (Admission): slots are neither leaked nor
\* given out twice, and 503 is answered only while MaxConcurrent requests are
\* inside.
Place(r) == CASE pc[r] = "idle"                       -> "outside"
              [] HoldsSlot(r)                         -> "inside"
              [] pc[r] = "done" /\ reply[r] = 503     -> "refused"
              [] pc[r] = "done" /\ reply[r] = 401     -> "unauthorized"
              [] OTHER                                -> "left"
Limiter == INSTANCE Admission WITH place <- [r \in Requests |-> Place(r)],
                                   N <- MaxConcurrent
ImplementsAdmission == Limiter!Spec

\* The strengthening the proofs use: the slots, and for each request that the
\* processes, the buffers and the audit agree with where its goroutine is.
SlotsExact == sem = Cardinality(Slots)
RequestInv(r) ==
  /\ pc[r] \in {"idle", "admitted"} => leader[r] = "none"
  /\ leader[r] = "none" => child[r] = "none" /\ emitted[r] = 0
  /\ leader[r] = "alive" => pc[r] = "wait"
  /\ pc[r] = "wait" => leader[r] # "none"
  /\ child[r] = "holding" => pc[r] = "wait"
  /\ captured[r].length <= emitted[r]
  /\ pc[r] \in {"returned", "kill", "audit"} \/ reply[r] \in {200, 408} =>
       leader[r] = "gone" /\ captured[r].length = emitted[r]
  /\ pc[r] = "kill" \/ reply[r] = 408 => deadline[r]
  /\ pc[r] = "audit" \/ reply[r] = 200 => ~deadline[r]
  /\ reply[r] = 408 => child[r] \in {"none", "gone"}
  /\ reply[r] # 0 <=> pc[r] \in {"release", "done"}
  /\ pc[r] = "release" => reply[r] \notin {401, 503}
  /\ r \in auditLog <=> reply[r] = 200
IInv == TypeOK /\ SlotsExact /\ \A r \in Requests : RequestInv(r)

-----------------------------------------------------------------------------
(* What the repository says and the code does not do. *)

\* The output kept of a command is limited (README.md: "输出大小限制").
OutputLimited == \A r \in Requests : captured[r].length <= MaxOutput

\* A command that runs into the timeout is ended and answered (README.md:
\* "超时控制", "超时后 kill 整个进程组").
TimeoutAnswers == \A r \in Requests : deadline[r] ~> reply[r] # 0
=============================================================================
