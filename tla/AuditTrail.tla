----------------------------- MODULE AuditTrail -----------------------------
(***************************************************************************)
(* What a reader of the audit log, oldest rotated file first, may rely on: *)
(* entries only ever appear at the end, in the order they were logged and  *)
(* never twice, and only a prefix of the trail is ever forgotten, never    *)
(* one that leaves fewer than Kept lines.                                  *)
(***************************************************************************)
EXTENDS Integers, Sequences

CONSTANT Kept

VARIABLES trail,   \* the lines a reader finds; an unreadable one is not positive
          last     \* the number of the newest entry ever written

Init == trail = <<>> /\ last = 0

\* Some readable entry newer than all before, or a spoiled line.
Write == \/ \E e \in {last'} : e > last /\ trail' \in {Append(trail, e), Append(trail, -e)}
         \/ trail' = Append(trail, 0) /\ UNCHANGED last

Forget == /\ \E n \in 1..Len(trail) - Kept : trail' = SubSeq(trail, n + 1, Len(trail))
          /\ UNCHANGED last

Next == Write \/ Forget

Spec == Init /\ [][Next]_<<trail, last>>
=============================================================================
