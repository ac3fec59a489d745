-------------------------------- MODULE Client --------------------------------
(***************************************************************************)
(* cmd/ooc-client/main.go together with the endpoint it talks to: one run  *)
(* of the client per request of ExecHandler.                               *)
(*                                                                         *)
(* The client sends one request without a timeout of its own (the          *)
(* timeout_seconds it reads is not used) and turns the answer into its     *)
(* exit status.  The connection may break at any moment before the answer  *)
(* has arrived, or somebody end the client: the handler looks at neither   *)
(* and goes on.  /whitelist-info and what is printed are left out but for  *)
(* the status.                                                             *)
(***************************************************************************)
EXTENDS ExecHandler

VARIABLES
  client,    \* client[r]: where the client of request r is
  status,    \* status[r]: its exit status (NoStatus: it runs)
  code       \* code[r]: the command's exit code, as Execute takes it from Wait

clientVars == <<client, status>>
allVars == <<vars, clientVars, code>>

NoStatus == -1
Exited == {"misused", "listed", "failed", "answered"}

\* ProcessState's code; -1 for a command ended by a signal, and for a Wait
\* that failed otherwise.
Codes == {-1, 0, 1}

Clamped(c) == IF c < 0 THEN -1 ELSE c                               \* mutant: the code as it is

\* os.Exit hands the last eight bits of the code to the system.
ExitByte(c) == IF c < 0 THEN 256 + c ELSE c

UncheckedStatus(r) == IF reply[r] = 200 THEN ExitByte(code[r]) ELSE 0   \* mutant

\* Only a 200 carries an exit code.  An error answer, or one that does not
\* parse, is status 1.
StatusOfAnswer(r) == IF reply[r] = 200 THEN ExitByte(code[r]) ELSE 1

-----------------------------------------------------------------------------
ClientInit ==
  /\ Init
  /\ client = [r \in Requests |-> "idle"]
  /\ status = [r \in Requests |-> NoStatus]
  /\ code = [r \in Requests |-> 0]

Exit(r, how, s) ==
  /\ client' = [client EXCEPT ![r] = how]
  /\ status' = [status EXCEPT ![r] = s]
  /\ UNCHANGED <<vars, code>>

\* -version; or no server, no token or no command, in the config and the flags
LeaveEarly(r) ==
  /\ client[r] = "idle"
  /\ \E s \in {0, 1} : Exit(r, "misused", s)

\* handleDiscovery: GET /whitelist-info, and 1 for any answer but 200.
Discover(r) ==
  /\ client[r] = "idle"
  /\ \E s \in {0, 1} : Exit(r, "listed", s)

Send(r) ==
  /\ client[r] = "idle"
  /\ client' = [client EXCEPT ![r] = "sent"]
  /\ UNCHANGED <<vars, status, code>>

\* No connection, or one that breaks before the whole answer is read.
LoseConnection(r) ==
  /\ client[r] = "sent"
  /\ Exit(r, "failed", 1)

\* The whole answer is read and parsed.
ReadAnswer(r) ==
  /\ client[r] = "sent" /\ reply[r] # 0
  /\ Exit(r, "answered", StatusOfAnswer(r))

-----------------------------------------------------------------------------
(* The server's side.  A request that was sent arrives once or not at all.  *)

Arrive(r) ==
  /\ client[r] \in {"sent", "failed"}
  /\ Unauthorized(r) \/ Acquire(r)
  /\ UNCHANGED <<clientVars, code>>

Serve(r) == /\ HandlerStep(r) \/ DeadlineFires(r) \/ Copy(r)
            /\ UNCHANGED <<clientVars, code>>

\* The context's kill, seen by Wait as an end by a signal
Kill(r) == /\ KillLeader(r)
           /\ code' = [code EXCEPT ![r] = -1]
           /\ UNCHANGED clientVars

\* The command ends by itself or by a signal of somebody else.
EndCommand(r) == /\ LeaderExits(r)
                 /\ \E c \in Codes : code' = [code EXCEPT ![r] = c]
                 /\ UNCHANGED clientVars

Work(r) == /\ Fork(r) \/ ChildExits(r) \/ Emit(r)
           /\ UNCHANGED <<clientVars, code>>

ClientNext == \E r \in Requests :
  \/ LeaveEarly(r) \/ Discover(r) \/ Send(r) \/ LoseConnection(r) \/ ReadAnswer(r)
  \/ Arrive(r) \/ Serve(r) \/ Kill(r) \/ EndCommand(r) \/ Work(r)

ClientSpec == ClientInit /\ [][ClientNext]_allVars

\* A request that was sent arrives unless the connection broke, goroutines run
\* and time passes; no process ever has to exit, write or close its pipes.
ClientFairSpec ==
  ClientSpec /\ \A r \in Requests : /\ WF_allVars(client[r] = "sent" /\ Arrive(r))
                                    /\ WF_allVars(HandlerStep(r) /\ UNCHANGED <<clientVars, code>>)
                                    /\ WF_allVars(DeadlineFires(r) /\ UNCHANGED <<clientVars, code>>)
                                    /\ WF_allVars(Kill(r))
                                    /\ WF_allVars(Copy(r) /\ UNCHANGED <<clientVars, code>>)
                                    /\ WF_allVars(ReadAnswer(r))

-----------------------------------------------------------------------------
(* Properties. *)

ClientTypeOK ==
  /\ TypeOK
  /\ client \in [Requests -> {"idle", "sent"} \cup Exited]
  /\ status \in [Requests -> {NoStatus} \cup 0..255]
  /\ \A r \in Requests : status[r] = NoStatus <=> client[r] \notin Exited
  /\ code \in [Requests -> Codes]

\* A client that was to execute a command and exits with 0 says that the
\* command ran, ended by itself with 0, before the deadline was tested, and is
\* in the audit log: no refusal, timeout, signal or broken connection looks
\* like success.
ZeroMeansDone ==
  \A r \in Requests : client[r] \in {"failed", "answered"} /\ status[r] = 0 =>
    /\ leader[r] = "gone" /\ code[r] = 0
    /\ ~deadline[r] /\ r \in auditLog

\* A client without a timeout ends nevertheless, by the server's, although the
\* command never has to end, unless a child of it keeps the pipes open.
ClientEnds ==
  \A r \in Requests : client[r] = "sent" ~> (client[r] # "sent" \/ child[r] = "holding")
=============================================================================
