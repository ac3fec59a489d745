-------------------------- MODULE ExecHandlerProofs --------------------------
(***************************************************************************)
(* Proofs about ExecHandler for any finite set of requests, any capacity   *)
(* of the limiter and any output.                                          *)
(***************************************************************************)
EXTENDS ExecHandler, FiniteSetTheorems, TLAPS

Pcs == {"idle", "admitted", "wait", "returned", "kill", "audit", "release", "done"}

Buffer == [length : Nat, bytesWritten : Nat, truncated : BOOLEAN]

\* Copying one chunk makes the buffer one longer and touches nothing else.
LEMMA CopyOne ==
  ASSUME NEW b \in Buffer
  PROVE  /\ b.length \in Nat
         /\ [b EXCEPT !.length = b.length + 1] \in Buffer
         /\ [b EXCEPT !.length = b.length + 1].length = b.length + 1
BY DEF Buffer

\* The types that need no invariant.
Types == /\ pc \in [Requests -> Pcs]
         /\ reply \in [Requests -> {0, 200, 401, 408, 503} \cup EarlyReplies]
         /\ sem \in Int /\ sem <= MaxConcurrent
         /\ deadline \in [Requests -> BOOLEAN]
         /\ leader \in [Requests -> {"none", "alive", "gone"}]
         /\ child \in [Requests -> {"none", "holding", "redirected", "gone"}]
         /\ emitted \in [Requests -> Nat]
         /\ captured \in [Requests -> Buffer]
         /\ auditLog \subseteq Requests

\* Every step of one request.
RequestStep(r) == \/ Unauthorized(r) \/ Acquire(r)
                  \/ HandlerStep(r) \/ RuntimeStep(r) \/ ProcessStep(r)

\* Every step keeps the types.
LEMMA TypesStep == Types /\ [Next]_vars => Types'
<1> SUFFICES ASSUME Types, [Next]_vars PROVE Types'
  OBVIOUS
<1> USE MaxConcurrentAssumption DEF Types, Pcs, EarlyReplies, procVars, Goto, Answer
<1>1. ASSUME NEW r \in Requests, Unauthorized(r) PROVE Types'
  BY <1>1 DEF Unauthorized
<1>2. ASSUME NEW r \in Requests, Acquire(r) PROVE Types'
  BY <1>2 DEF Acquire
<1>3. ASSUME NEW r \in Requests, Refuse(r) PROVE Types'
  BY <1>3 DEF Refuse
<1>4. ASSUME NEW r \in Requests, StartFails(r) PROVE Types'
  BY <1>4 DEF StartFails
<1>5. ASSUME NEW r \in Requests, Start(r) PROVE Types'
  BY <1>5 DEF Start
<1>6. ASSUME NEW r \in Requests, WaitReturns(r) PROVE Types'
  BY <1>6 DEF WaitReturns
<1>7. ASSUME NEW r \in Requests, CheckTimeout(r) PROVE Types'
  BY <1>7 DEF CheckTimeout
<1>8. ASSUME NEW r \in Requests, KillGroup(r) PROVE Types'
  BY <1>8 DEF KillGroup
<1>9. ASSUME NEW r \in Requests, AuditAndRespond(r) PROVE Types'
  BY <1>9 DEF AuditAndRespond
<1>10. ASSUME NEW r \in Requests, Release(r) PROVE Types'
  BY <1>10 DEF Release
<1>11. ASSUME NEW r \in Requests, DeadlineFires(r) PROVE Types'
  BY <1>11 DEF DeadlineFires
<1>12. ASSUME NEW r \in Requests, KillLeader(r) PROVE Types'
  BY <1>12 DEF KillLeader
<1>13. ASSUME NEW r \in Requests, Copy(r) PROVE Types'
  <2>1. [captured[r] EXCEPT !.length = captured[r].length + 1] \in Buffer
    BY CopyOne
  <2>2. captured' \in [Requests -> Buffer]
    BY <1>13, <2>1 DEF Copy
  <2> QED
    BY <1>13, <2>2 DEF Copy
<1>14. ASSUME NEW r \in Requests, LeaderExits(r) PROVE Types'
  BY <1>14 DEF LeaderExits
<1>15. ASSUME NEW r \in Requests, Fork(r) PROVE Types'
  BY <1>15 DEF Fork
<1>16. ASSUME NEW r \in Requests, ChildExits(r) PROVE Types'
  BY <1>16 DEF ChildExits
<1>17. ASSUME NEW r \in Requests, Emit(r) PROVE Types'
  BY <1>17 DEF Emit
<1>18. CASE UNCHANGED vars
  BY <1>18 DEF vars
<1> QED
  BY <1>1, <1>2, <1>3, <1>4, <1>5, <1>6, <1>7, <1>8, <1>9,
     <1>10, <1>11, <1>12, <1>13, <1>14, <1>15, <1>16, <1>17, <1>18
     DEF Next, HandlerStep, RuntimeStep, ProcessStep

-----------------------------------------------------------------------------
(* One request: its own steps, and those of the others. *)

Same(u) == /\ pc'[u] = pc[u] /\ reply'[u] = reply[u] /\ deadline'[u] = deadline[u]
           /\ leader'[u] = leader[u] /\ child'[u] = child[u]
           /\ emitted'[u] = emitted[u] /\ captured'[u] = captured[u]
           /\ u \in auditLog' <=> u \in auditLog

\* A request that nothing happened to keeps its invariant.
LEMMA SameKeeps ==
  ASSUME NEW u \in Requests, RequestInv(u), Same(u)
  PROVE  RequestInv(u)'
BY DEF RequestInv, Same

\* A request's step touches no other request.
LEMMA Frame ==
  ASSUME Types, NEW r \in Requests, NEW u \in Requests, u # r, RequestStep(r)
  PROVE  Same(u)
<1> USE DEF Types, Same, procVars, Goto, Answer
<1>1. CASE Unauthorized(r) \/ Acquire(r)
  BY <1>1 DEF Unauthorized, Acquire
<1>2. CASE HandlerStep(r)
  BY <1>2 DEF HandlerStep, Refuse, StartFails, Start, WaitReturns, CheckTimeout, KillGroup,
              AuditAndRespond, Release
<1>3. CASE RuntimeStep(r)
  BY <1>3 DEF RuntimeStep, DeadlineFires, KillLeader, Copy
<1>4. CASE ProcessStep(r)
  BY <1>4 DEF ProcessStep, LeaderExits, Fork, ChildExits, Emit
<1> QED
  BY <1>1, <1>2, <1>3, <1>4 DEF RequestStep

\* A request's step keeps its own invariant.
LEMMA OwnStep ==
  ASSUME Types, NEW r \in Requests, RequestInv(r), RequestStep(r)
  PROVE  RequestInv(r)'
<1> USE DEF Types, Pcs, EarlyReplies, RequestInv, procVars, Goto, Answer
<1>1. CASE Unauthorized(r)
  BY <1>1 DEF Unauthorized
<1>2. CASE Acquire(r)
  BY <1>2 DEF Acquire
<1>3. CASE Refuse(r)
  BY <1>3 DEF Refuse
<1>4. CASE StartFails(r)
  BY <1>4 DEF StartFails
<1>5. CASE Start(r)
  BY <1>5 DEF Start
<1>6. CASE WaitReturns(r)
  BY <1>6 DEF WaitReturns
<1>7. CASE CheckTimeout(r)
  BY <1>7 DEF CheckTimeout
<1>8. CASE KillGroup(r)
  BY <1>8 DEF KillGroup
<1>9. CASE AuditAndRespond(r)
  BY <1>9 DEF AuditAndRespond
<1>10. CASE Release(r)
  BY <1>10 DEF Release
<1>11. CASE DeadlineFires(r)
  BY <1>11 DEF DeadlineFires
<1>12. CASE KillLeader(r)
  BY <1>12 DEF KillLeader
<1>13. CASE Copy(r)
  <2>1. captured'[r].length = captured[r].length + 1 /\ captured[r].length \in Nat
    BY <1>13, CopyOne DEF Copy
  <2>2. captured[r].length < emitted[r] /\ emitted[r] \in Nat
    BY <1>13 DEF Copy
  <2>3. captured'[r].length <= emitted[r] /\ captured[r].length # emitted[r]
    BY <2>1, <2>2
  <2> QED
    BY <1>13, <2>3 DEF Copy
<1>14. CASE LeaderExits(r)
  BY <1>14 DEF LeaderExits
<1>15. CASE Fork(r)
  BY <1>15 DEF Fork
<1>16. CASE ChildExits(r)
  BY <1>16 DEF ChildExits
<1>17. CASE Emit(r)
  <2>1. captured[r].length \in Nat /\ emitted[r] \in Nat
    BY CopyOne
  <2>2. emitted'[r] = emitted[r] + 1 /\ leader[r] # "none" /\ pc[r] = "wait"
    BY <1>17 DEF Emit
  <2>3. captured[r].length <= emitted'[r]
    BY <2>1, <2>2
  <2> QED
    BY <1>17, <2>2, <2>3 DEF Emit
<1> QED
  BY <1>1, <1>2, <1>3, <1>4, <1>5, <1>6, <1>7, <1>8, <1>9,
     <1>10, <1>11, <1>12, <1>13, <1>14, <1>15, <1>16, <1>17
     DEF RequestStep, HandlerStep, RuntimeStep, ProcessStep

\* So every step keeps that of every request.
LEMMA RequestInvStep ==
  ASSUME Types, \A r \in Requests : RequestInv(r), [Next]_vars, NEW u \in Requests
  PROVE  RequestInv(u)'
<1>1. ASSUME NEW r \in Requests, RequestStep(r) PROVE RequestInv(u)'
  BY <1>1, OwnStep, Frame, SameKeeps
<1>2. CASE UNCHANGED vars
  <2>1. Same(u)
    BY <1>2 DEF vars, procVars, Same
  <2> QED
    BY <2>1, SameKeeps
<1> QED
  BY <1>1, <1>2 DEF Next, RequestStep

-----------------------------------------------------------------------------
(* The slots. *)

\* The requests inside can be counted.
LEMMA SlotsFinite == IsFiniteSet(Slots) /\ Cardinality(Slots) \in Nat
BY RequestsAssumption, FS_Subset, FS_CardinalityType DEF Slots

\* A request that is admitted takes a slot.
LEMMA TakeSlot ==
  ASSUME Types, SlotsExact, NEW r \in Requests, Acquire(r), sem < MaxConcurrent
  PROVE  SlotsExact'
<1>1. Slots' = Slots \cup {r} /\ r \notin Slots
  BY DEF Types, Acquire, Goto, Slots, HoldsSlot
<1>2. Cardinality(Slots') = Cardinality(Slots) + 1
  BY <1>1, SlotsFinite, FS_AddElement
<1> QED
  BY <1>2 DEF SlotsExact, Acquire

\* The deferred receive gives it back.
LEMMA GiveSlotBack ==
  ASSUME Types, SlotsExact, NEW r \in Requests, Release(r)
  PROVE  SlotsExact'
<1>1. Slots' = Slots \ {r} /\ r \in Slots
  BY DEF Types, Release, Goto, Slots, HoldsSlot
<1>2. Cardinality(Slots') = Cardinality(Slots) - 1
  BY <1>1, SlotsFinite, FS_RemoveElement
<1> QED
  BY <1>2 DEF SlotsExact, Release

\* No other step moves a request across the limiter's borders.
LEMMA OtherSteps ==
  ASSUME Types, NEW r \in Requests,
         \/ Unauthorized(r)
         \/ Acquire(r) /\ ~(sem < MaxConcurrent)
         \/ HandlerStep(r) /\ ~Release(r)
         \/ RuntimeStep(r)
         \/ ProcessStep(r)
  PROVE  Slots' = Slots /\ sem' = sem
<1> USE DEF Types, Slots, HoldsSlot, Goto, procVars
<1>1. CASE Unauthorized(r) \/ (Acquire(r) /\ ~(sem < MaxConcurrent))
  BY <1>1 DEF Unauthorized, Acquire
<1>2. CASE HandlerStep(r) /\ ~Release(r)
  BY <1>2 DEF HandlerStep, Refuse, StartFails, Start, WaitReturns, CheckTimeout, KillGroup,
              AuditAndRespond
<1>3. CASE RuntimeStep(r)
  BY <1>3 DEF RuntimeStep, DeadlineFires, KillLeader, Copy
<1>4. CASE ProcessStep(r)
  BY <1>4 DEF ProcessStep, LeaderExits, Fork, ChildExits, Emit
<1> QED
  BY <1>1, <1>2, <1>3, <1>4

\* The semaphore and the requests inside change together.
LEMMA SlotsStep == ASSUME Types, SlotsExact, [Next]_vars PROVE SlotsExact'
<1>1. ASSUME NEW r \in Requests, RequestStep(r) PROVE SlotsExact'
  <2>1. CASE Acquire(r) /\ sem < MaxConcurrent
    BY <2>1, TakeSlot
  <2>2. CASE Release(r)
    BY <2>2, GiveSlotBack
  <2>3. CASE ~(Acquire(r) /\ sem < MaxConcurrent) /\ ~Release(r)
    <3>1. \/ Unauthorized(r)
          \/ Acquire(r) /\ ~(sem < MaxConcurrent)
          \/ HandlerStep(r) /\ ~Release(r)
          \/ RuntimeStep(r)
          \/ ProcessStep(r)
      BY <1>1, <2>3, Zenon DEF RequestStep
    <3>2. Slots' = Slots /\ sem' = sem
      BY <3>1, OtherSteps
    <3> QED
      BY <3>2 DEF SlotsExact
  <2> QED
    BY <2>1, <2>2, <2>3
<1>2. CASE UNCHANGED vars
  BY <1>2 DEF vars, SlotsExact, Slots, HoldsSlot
<1> QED
  BY <1>1, <1>2 DEF Next, RequestStep

-----------------------------------------------------------------------------
(* The inductive invariant. *)

PInv == Types /\ SlotsExact /\ \A r \in Requests : RequestInv(r)

\* At first nobody is inside.
LEMMA InitPInv == Init => PInv
<1> SUFFICES ASSUME Init PROVE PInv
  OBVIOUS
<1>1. Types /\ \A r \in Requests : RequestInv(r)
  BY MaxConcurrentAssumption DEF Init, Types, Pcs, EarlyReplies, EmptyBuffer, RequestInv, Buffer
<1>2. Slots = {}
  BY DEF Init, Slots, HoldsSlot
<1>3. SlotsExact
  BY <1>2, FS_EmptySet DEF Init, SlotsExact
<1> QED
  BY <1>1, <1>3 DEF PInv

\* Every step keeps the invariant,
LEMMA PInvStep == PInv /\ [Next]_vars => PInv'
BY TypesStep, SlotsStep, RequestInvStep DEF PInv

\* which is the one that was model-checked, in the form the provers take.
LEMMA PInvImpliesIInv == PInv => IInv
<1> SUFFICES ASSUME PInv PROVE IInv
  OBVIOUS
<1>1. sem \in 0..MaxConcurrent
  BY SlotsFinite, MaxConcurrentAssumption DEF PInv, SlotsExact, Types
<1> QED
  BY <1>1 DEF PInv, IInv, TypeOK, Types, Pcs, Buffer

-----------------------------------------------------------------------------
(* The theorems. *)

\* In every run the slots are counted exactly, and the processes, the output
\* and the audit of each request agree with where its handler is.
THEOREM ExecInvariant == Spec => []IInv
BY InitPInv, PInvStep, PInvImpliesIInv, PTL DEF Spec

\* Every variable keeps its type; the semaphore stays within its capacity.
THEOREM ExecTypes == Spec => []TypeOK
<1>1. IInv => TypeOK
  BY DEF IInv
<1> QED
  BY <1>1, ExecInvariant, PTL

\* No more commands of the endpoint run at once than MaxConcurrent, whatever
\* way each request leaves the handler (limiter.go, Middleware).
THEOREM CommandsAreBounded == Spec => []CommandsBounded
<1>1. IInv => CommandsBounded
  <2> SUFFICES ASSUME IInv PROVE CommandsBounded
    OBVIOUS
  <2> DEFINE Alive == {r \in Requests : leader[r] = "alive"}
  <2>1. Alive \subseteq Slots
    BY DEF IInv, RequestInv, Slots, HoldsSlot
  <2>2. Cardinality(Alive) \in Nat /\ Cardinality(Alive) <= Cardinality(Slots)
    BY <2>1, SlotsFinite, FS_Subset, FS_CardinalityType
  <2>3. Cardinality(Alive) <= MaxConcurrent
    BY <2>2, SlotsFinite, MaxConcurrentAssumption DEF IInv, SlotsExact, TypeOK
  <2> QED
    BY <2>3 DEF IInv, SlotsExact, CommandsBounded
<1> QED
  BY <1>1, ExecInvariant, PTL

\* An answer about an ended or timed-out command carries all its output.
THEOREM OutputComplete == Spec => []NothingLost
<1>1. IInv => NothingLost
  BY DEF IInv, RequestInv, NothingLost
<1> QED
  BY <1>1, ExecInvariant, PTL

\* 408 is answered after the deadline with no process of the group left.
THEOREM TimeoutIsClean == Spec => []TimeoutKillsGroup
<1>1. IInv => TimeoutKillsGroup
  BY DEF IInv, RequestInv, TimeoutKillsGroup
<1> QED
  BY <1>1, ExecInvariant, PTL

\* The audit log names exactly the commands answered with 200.
THEOREM AuditIsOfCompleted == Spec => []AuditedAreCompleted
<1>1. IInv => AuditedAreCompleted
  BY DEF IInv, RequestInv, AuditedAreCompleted
<1> QED
  BY <1>1, ExecInvariant, PTL

-----------------------------------------------------------------------------
(* The refinement: requests come in and leave as Admission says. *)

\* Admission's requests inside are those that hold a slot.
LEMMA InsideIsSlots ==
  ASSUME Types
  PROVE  {r \in Requests : [q \in Requests |-> Place(q)][r] = "inside"} = Slots
BY DEF Slots, Place, HoldsSlot

\* A request that nothing happened to stays where it is.
LEMMA PlaceFrame ==
  ASSUME NEW u \in Requests, Same(u)
  PROVE  Place(u)' = Place(u)
BY DEF Same, Place, HoldsSlot

\* How a step moves its own request.
Moves(r, from, to) == Place(r) = from /\ Place(r)' = to

\* A request's step moves it as Admission allows, or not at all.
LEMMA OwnMove ==
  ASSUME Types, NEW r \in Requests, RequestInv(r), RequestStep(r)
  PROVE  \/ Moves(r, "outside", "inside") /\ Acquire(r) /\ sem < MaxConcurrent
         \/ Moves(r, "outside", "refused") /\ sem = MaxConcurrent
         \/ Moves(r, "outside", "unauthorized")
         \/ Moves(r, "inside", "left")
         \/ Place(r)' = Place(r)
<1> USE MaxConcurrentAssumption
        DEF Types, Pcs, EarlyReplies, procVars, Goto, Answer, Place, HoldsSlot, Moves
<1>1. CASE Unauthorized(r)
  BY <1>1 DEF Unauthorized
<1>2. CASE Acquire(r)
  BY <1>2 DEF Acquire
<1>3. CASE Refuse(r) \/ StartFails(r) \/ Start(r)
  BY <1>3 DEF Refuse, StartFails, Start
<1>4. CASE WaitReturns(r) \/ CheckTimeout(r)
  BY <1>4 DEF WaitReturns, CheckTimeout
<1>5. CASE KillGroup(r) \/ AuditAndRespond(r)
  BY <1>5 DEF KillGroup, AuditAndRespond
<1>6. CASE Release(r)
  BY <1>6 DEF Release, RequestInv
<1>7. CASE RuntimeStep(r)
  BY <1>7 DEF RuntimeStep, DeadlineFires, KillLeader, Copy
<1>8. CASE ProcessStep(r)
  BY <1>8 DEF ProcessStep, LeaderExits, Fork, ChildExits, Emit
<1> QED
  BY <1>1, <1>2, <1>3, <1>4, <1>5, <1>6, <1>7, <1>8 DEF RequestStep, HandlerStep

\* Every step of the endpoint is one of Admission or a stutter.
LEMMA StepRefines == PInv /\ [Next]_vars => [Limiter!Next]_([r \in Requests |-> Place(r)])
<1> SUFFICES ASSUME PInv, [Next]_vars
             PROVE  [Limiter!Next]_([r \in Requests |-> Place(r)])
  OBVIOUS
<1> DEFINE place == [r \in Requests |-> Place(r)]
<1>1. ASSUME NEW r \in Requests, RequestStep(r)
      PROVE  Limiter!Next \/ UNCHANGED place
  <2>1. \A u \in Requests \ {r} : Place(u)' = Place(u)
    BY <1>1, Frame, PlaceFrame DEF PInv
  <2>2. ASSUME NEW from, NEW to, Moves(r, from, to) PROVE Limiter!Move(r, from, to)
    <3>1. place[r] = from
      BY <2>2 DEF Moves
    <3>2. place' = [place EXCEPT ![r] = to]
      BY <2>1, <2>2 DEF Moves
    <3> QED
      BY <3>1, <3>2 DEF Limiter!Move
  <2>3. Limiter!Cardinality(Limiter!Inside) = sem
    <3>1. Limiter!Inside = Slots
      BY InsideIsSlots DEF PInv, Limiter!Inside
    <3>2. Limiter!Cardinality(Slots) = Cardinality(Slots)
      BY DEF Cardinality, Limiter!Cardinality
    <3> QED
      BY <3>1, <3>2 DEF PInv, SlotsExact
  <2>4. CASE Moves(r, "outside", "inside") /\ sem < MaxConcurrent
    BY <2>2, <2>3, <2>4 DEF Limiter!Next, Limiter!Enter
  <2>5. CASE Moves(r, "outside", "refused") /\ sem = MaxConcurrent
    BY <2>2, <2>3, <2>5 DEF Limiter!Next, Limiter!Refuse
  <2>6. CASE Moves(r, "outside", "unauthorized")
    BY <2>2, <2>6 DEF Limiter!Next, Limiter!Disallow
  <2>7. CASE Moves(r, "inside", "left")
    BY <2>2, <2>7 DEF Limiter!Next, Limiter!Leave
  <2>8. CASE Place(r)' = Place(r)
    BY <2>1, <2>8
  <2> QED
    BY <1>1, <2>4, <2>5, <2>6, <2>7, <2>8, OwnMove DEF PInv
<1>2. CASE UNCHANGED vars
  <2>1. \A u \in Requests : Place(u)' = Place(u)
    BY <1>2 DEF vars, Place, HoldsSlot
  <2> QED
    BY <2>1
<1> QED
  BY <1>1, <1>2 DEF Next, RequestStep

\* The endpoint implements Admission: never more than MaxConcurrent requests
\* inside the limiter, and 503 only while that many are.
THEOREM LimiterKeepsPromise == Spec => ImplementsAdmission
<1>1. Init => Limiter!Init
  <2> SUFFICES ASSUME Init PROVE Limiter!Init
    OBVIOUS
  <2>1. \A r \in Requests : Place(r) = "outside"
    BY DEF Init, Place, HoldsSlot
  <2> QED
    BY <2>1 DEF Limiter!Init
<1>2. PInv /\ [Next]_vars => [Limiter!Next]_([r \in Requests |-> Place(r)])
  BY StepRefines
<1>3. Spec => []PInv
  BY InitPInv, PInvStep, PTL DEF Spec
<1> QED
  BY <1>1, <1>2, <1>3, PTL DEF Spec, ImplementsAdmission, Limiter!Spec
=============================================================================
