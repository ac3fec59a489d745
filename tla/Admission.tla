------------------------------ MODULE Admission ------------------------------
(* What the limiter promises: at most N requests are inside at once, and one *)
(* is refused only while N are.                                              *)
EXTENDS Integers, FiniteSets

CONSTANTS Requests, N

VARIABLE place    \* place[r]: where request r is

Inside == {r \in Requests : place[r] = "inside"}
Move(r, from, to) == place[r] = from /\ place' = [place EXCEPT ![r] = to]

Init == place = [r \in Requests |-> "outside"]

Enter(r)    == Move(r, "outside", "inside") /\ Cardinality(Inside) < N
Refuse(r)   == Move(r, "outside", "refused") /\ Cardinality(Inside) = N
Disallow(r) == Move(r, "outside", "unauthorized")
Leave(r)    == Move(r, "inside", "left")

Next == \E r \in Requests : Enter(r) \/ Refuse(r) \/ Disallow(r) \/ Leave(r)

Spec == Init /\ [][Next]_place
=============================================================================
