---------------------------- MODULE TaskLifecycle ----------------------------
(***************************************************************************)
(* What the asynchronous task service promises to the client that polls    *)
(* one task: the task is stored once, starts once, ends once with a final  *)
(* status that never changes again, and may be forgotten at any time after *)
(* it was stored, but never comes back.                                    *)
(*                                                                         *)
(* The module says nothing of goroutines, clocks or locks; TaskManager is  *)
(* shown to implement it.                                                  *)
(***************************************************************************)
CONSTANT Tasks          \* the tasks that may ever be submitted

VARIABLE status         \* status[t], as a poll of task t would report it

Final == {"completed", "failed", "timeout"}
Live  == {"pending", "running"}

LifecycleTypeOK ==
  status \in [Tasks -> {"absent", "removed"} \cup Live \cup Final]

Init == status = [t \in Tasks |-> "absent"]

Store(t) == /\ status[t] = "absent"
            /\ status' = [status EXCEPT ![t] = "pending"]

Start(t) == /\ status[t] = "pending"
            /\ status' = [status EXCEPT ![t] = "running"]

Finish(t) == /\ status[t] = "running"
             /\ \E s \in Final : status' = [status EXCEPT ![t] = s]

\* Several tasks may be forgotten in one step: one sweep of the cleanup loop.
Forget == \E gone \in SUBSET {t \in Tasks : status[t] \in Live \cup Final} :
            status' = [t \in Tasks |-> IF t \in gone THEN "removed" ELSE status[t]]

Next == \/ \E t \in Tasks : Store(t) \/ Start(t) \/ Finish(t)
        \/ Forget

Spec == Init /\ [][Next]_status
=============================================================================
