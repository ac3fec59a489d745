---------------------------- MODULE ClientProofs ----------------------------
(***************************************************************************)
(* The client and the endpoint together are still the endpoint: what is    *)
(* proved of ExecHandler holds in Client, and what the client's exit       *)
(* status says follows from it.                                            *)
(***************************************************************************)
EXTENDS Client, ExecHandlerProofs

-----------------------------------------------------------------------------
(* The client adds no behaviour to the endpoint. *)

\* A step of a client is a step of the endpoint or leaves it alone.
LEMMA ClientStepIsStep == [ClientNext]_allVars => [Next]_vars
<1> SUFFICES ASSUME [ClientNext]_allVars PROVE [Next]_vars
  OBVIOUS
<1>1. ASSUME NEW r \in Requests,
             LeaveEarly(r) \/ Discover(r) \/ Send(r) \/ LoseConnection(r) \/ ReadAnswer(r)
      PROVE  UNCHANGED vars
  BY <1>1 DEF LeaveEarly, Discover, Send, LoseConnection, ReadAnswer, Exit
<1>2. ASSUME NEW r \in Requests,
             Arrive(r) \/ Serve(r) \/ Kill(r) \/ EndCommand(r) \/ Work(r)
      PROVE  Next
  BY <1>2 DEF Arrive, Serve, Kill, EndCommand, Work, Next, RuntimeStep, ProcessStep
<1>3. ASSUME UNCHANGED allVars PROVE UNCHANGED vars
  BY <1>3 DEF allVars
<1> QED
  BY <1>1, <1>2, <1>3 DEF ClientNext

\* Every behaviour of the clients and the endpoint is one of the endpoint
\* (handlers.ExecHandler, Executor.Execute), whatever the clients do: none of
\* its promises depends on a client that waits for its answer.
THEOREM ClientImplementsHandler == ClientSpec => Spec
<1>1. ClientInit => Init
  BY DEF ClientInit
<1> QED
  BY <1>1, ClientStepIsStep, PTL DEF ClientSpec, Spec

-----------------------------------------------------------------------------
(* The exit status. *)

\* No code of a command that failed becomes a status of 0.
LEMMA ByteOfCode ==
  ASSUME NEW c \in Codes
  PROVE  ExitByte(c) \in 0..255 /\ (ExitByte(c) = 0 => c = 0)
  BY DEF Codes, ExitByte

\* An answer that was written stays as it is.
LEMMA AnswerStays ==
  ASSUME IInv, [Next]_vars, NEW r \in Requests, reply[r] # 0
  PROVE  reply'[r] = reply[r]
<1>1. /\ pc[r] \in {"release", "done"}
      /\ reply \in [Requests -> {0, 200, 401, 408, 503} \cup EarlyReplies]
  BY DEF IInv, RequestInv, TypeOK
<1>2. ASSUME NEW q \in Requests, RequestStep(q) PROVE reply'[r] = reply[r]
  <2>1. CASE Unauthorized(q) \/ Acquire(q)
    BY <1>1, <2>1 DEF Unauthorized, Acquire, Answer
  <2>2. CASE HandlerStep(q)
    BY <1>1, <2>2 DEF HandlerStep, Refuse, StartFails, Start, WaitReturns, CheckTimeout,
                      KillGroup, AuditAndRespond, Release, Answer
  <2>3. CASE RuntimeStep(q) \/ ProcessStep(q)
    BY <2>3 DEF RuntimeStep, ProcessStep, DeadlineFires, KillLeader, Copy, LeaderExits,
                Fork, ChildExits, Emit
  <2> QED
    BY <1>2, <2>1, <2>2, <2>3 DEF RequestStep
<1>3. CASE UNCHANGED vars
  BY <1>3 DEF vars
<1> QED
  BY <1>2, <1>3 DEF Next, RequestStep

\* What a client that has ended reports: 1 if it has no answer, and what the
\* answer says if it has one.
StatusInv(r) ==
  /\ client[r] = "failed" => status[r] = 1
  /\ client[r] = "answered" => reply[r] # 0 /\ status[r] = StatusOfAnswer(r)

ClientTypes ==
  /\ client \in [Requests -> {"idle", "sent"} \cup Exited]
  /\ status \in [Requests -> {NoStatus} \cup 0..255]
  /\ \A r \in Requests : status[r] = NoStatus <=> client[r] \notin Exited
  /\ code \in [Requests -> Codes]

ClientInv == ClientTypes /\ \A r \in Requests : StatusInv(r)

\* Whatever was answered, the client exits with a byte.
LEMMA StatusInByte ==
  ASSUME ClientTypes, NEW r \in Requests
  PROVE  StatusOfAnswer(r) \in 0..255
BY ByteOfCode DEF ClientTypes, StatusOfAnswer

\* Client steps keep the client's types.
LEMMA ClientTypesStep == ClientTypes /\ [ClientNext]_allVars => ClientTypes'
<1> SUFFICES ASSUME ClientTypes, [ClientNext]_allVars PROVE ClientTypes'
  OBVIOUS
<1> USE DEF ClientTypes, Exited, NoStatus
<1>1. ASSUME NEW r \in Requests, NEW how \in Exited, NEW s \in 0..255, Exit(r, how, s)
      PROVE  ClientTypes'
  BY <1>1 DEF Exit
<1>2. ASSUME NEW r \in Requests, LeaveEarly(r) \/ Discover(r) \/ LoseConnection(r)
      PROVE  ClientTypes'
  <2>1. 0 \in 0..255 /\ 1 \in 0..255
    OBVIOUS
  <2>2. PICK how \in Exited, s \in {0, 1} : Exit(r, how, s)
    BY <1>2 DEF LeaveEarly, Discover, LoseConnection
  <2> QED
    BY <1>1, <2>1, <2>2
<1>3. ASSUME NEW r \in Requests, ReadAnswer(r) PROVE ClientTypes'
  BY <1>1, <1>3, StatusInByte DEF ReadAnswer
<1>4. ASSUME NEW r \in Requests, Send(r) PROVE ClientTypes'
  BY <1>4 DEF Send
<1>5. ASSUME NEW r \in Requests, Arrive(r) \/ Serve(r) \/ Work(r) PROVE ClientTypes'
  BY <1>5 DEF Arrive, Serve, Work, clientVars
<1>6. ASSUME NEW r \in Requests, Kill(r) \/ EndCommand(r) PROVE ClientTypes'
  BY <1>6 DEF Kill, EndCommand, clientVars, Codes
<1>7. CASE UNCHANGED allVars
  BY <1>7 DEF allVars, clientVars
<1> QED
  BY <1>2, <1>3, <1>4, <1>5, <1>6, <1>7 DEF ClientNext

\* The code of a command whose answer is 200 does not change any more.
LEMMA CodeStays ==
  ASSUME IInv, ClientTypes, [ClientNext]_allVars, NEW r \in Requests, reply[r] = 200
  PROVE  code'[r] = code[r]
<1>1. leader[r] = "gone"
  BY DEF IInv, RequestInv
<1>2. ASSUME NEW q \in Requests, Kill(q) \/ EndCommand(q) PROVE code'[r] = code[r]
  BY <1>1, <1>2 DEF Kill, EndCommand, KillLeader, LeaderExits, ClientTypes
<1>3. ASSUME NEW q \in Requests,
             \/ LeaveEarly(q) \/ Discover(q) \/ Send(q) \/ LoseConnection(q) \/ ReadAnswer(q)
             \/ Arrive(q) \/ Serve(q) \/ Work(q)
      PROVE  code'[r] = code[r]
  BY <1>3 DEF LeaveEarly, Discover, Send, LoseConnection, ReadAnswer, Exit, Arrive, Serve, Work
<1>4. CASE UNCHANGED allVars
  BY <1>4 DEF allVars
<1> QED
  BY <1>2, <1>3, <1>4 DEF ClientNext

\* A client that has ended, and what it was told, stay as they are.
LEMMA EndedStays ==
  ASSUME IInv, ClientInv, [ClientNext]_allVars, NEW r \in Requests,
         client[r] \in {"failed", "answered"}, client'[r] = client[r],
         status'[r] = status[r]
  PROVE  StatusInv(r)'
<1>1. CASE client[r] = "failed"
  BY <1>1 DEF ClientInv, StatusInv
<1>2. CASE client[r] = "answered"
  <2>1. reply[r] # 0 /\ status[r] = StatusOfAnswer(r)
    BY <1>2 DEF ClientInv, StatusInv
  <2>2. reply'[r] = reply[r]
    BY <2>1, AnswerStays, ClientStepIsStep
  <2>3. reply[r] = 200 => code'[r] = code[r]
    BY CodeStays DEF ClientInv
  <2> QED
    BY <1>2, <2>1, <2>2, <2>3 DEF StatusInv, StatusOfAnswer, ExitByte
<1> QED
  BY <1>1, <1>2

\* A status that was taken from an answer goes on agreeing with it.
LEMMA StatusInvStep ==
  ASSUME IInv, ClientInv, [ClientNext]_allVars, NEW u \in Requests
  PROVE  StatusInv(u)'
<1>1. ASSUME NEW r \in Requests, LeaveEarly(r) \/ Discover(r) \/ LoseConnection(r) \/ ReadAnswer(r)
      PROVE  StatusInv(u)'
  <2>1. CASE r = u
    BY <1>1, <2>1 DEF LeaveEarly, Discover, LoseConnection, ReadAnswer, Exit, StatusInv,
                      ClientInv, ClientTypes, vars, StatusOfAnswer
  <2>2. CASE r # u
    <3>1. client'[u] = client[u] /\ status'[u] = status[u]
      BY <1>1, <2>2 DEF LeaveEarly, Discover, LoseConnection, ReadAnswer, Exit,
                        ClientInv, ClientTypes
    <3> QED
      BY <3>1, EndedStays DEF StatusInv
  <2> QED
    BY <2>1, <2>2
<1>2. ASSUME NEW r \in Requests,
             \/ Send(r) \/ Arrive(r) \/ Serve(r) \/ Kill(r) \/ EndCommand(r) \/ Work(r)
      PROVE  StatusInv(u)'
  <2>1. status'[u] = status[u] /\ (client'[u] = client[u] \/ client'[u] = "sent")
    BY <1>2 DEF Send, Arrive, Serve, Kill, EndCommand, Work, clientVars, ClientInv, ClientTypes
  <2> QED
    BY <2>1, EndedStays DEF StatusInv
<1>3. CASE UNCHANGED allVars
  <2>1. client'[u] = client[u] /\ status'[u] = status[u]
    BY <1>3 DEF allVars, clientVars
  <2> QED
    BY <2>1, EndedStays DEF StatusInv
<1> QED
  BY <1>1, <1>2, <1>3 DEF ClientNext

\* At first no client has ended.
LEMMA InitClientInv == ClientInit => ClientInv
BY DEF ClientInit, ClientInv, ClientTypes, StatusInv, Exited, NoStatus, Codes

\* The client's status agrees with the endpoint's answer, for any requests and
\* any capacity, and everything the endpoint's invariant says holds beside it.
THEOREM ClientInvariant == ClientSpec => [](IInv /\ ClientInv)
<1>1. ClientSpec => []IInv
  BY ClientImplementsHandler, ExecInvariant, PTL
<1>2. IInv /\ ClientInv /\ [ClientNext]_allVars => ClientInv'
  BY ClientTypesStep, StatusInvStep DEF ClientInv
<1> QED
  BY <1>1, <1>2, InitClientInv, PTL DEF ClientSpec

\* Every variable of the client and the endpoint keeps its type; a status is
\* one byte, and a client has one exactly when it has ended.
THEOREM ClientIsTyped == ClientSpec => []ClientTypeOK
<1>1. IInv /\ ClientInv => ClientTypeOK
  BY DEF IInv, ClientInv, ClientTypes, ClientTypeOK
<1> QED
  BY <1>1, ClientInvariant, PTL

\* Status 0 of a client that was to execute a command means that the command
\* ended with 0 before its deadline and is audited (main.go of ooc-client).
THEOREM ZeroIsDone == ClientSpec => []ZeroMeansDone
<1>1. IInv /\ ClientInv => ZeroMeansDone
  <2> SUFFICES ASSUME IInv, ClientInv, NEW r \in Requests,
                      client[r] \in {"failed", "answered"}, status[r] = 0
               PROVE  /\ leader[r] = "gone" /\ code[r] = 0
                      /\ ~deadline[r] /\ r \in auditLog
    BY DEF ZeroMeansDone
  <2>1. client[r] = "answered" /\ StatusOfAnswer(r) = 0
    BY DEF ClientInv, StatusInv
  <2>2. reply[r] = 200 /\ code[r] = 0
    BY <2>1, ByteOfCode DEF StatusOfAnswer, ClientInv, ClientTypes
  <2> QED
    BY <2>2 DEF IInv, RequestInv
<1> QED
  BY <1>1, ClientInvariant, PTL
=============================================================================
