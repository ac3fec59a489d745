---------------------------- MODULE MCPersistence ----------------------------
(* Persistence on a small instance: a change may make the encoding longer  *)
(* or shorter.                                                             *)
EXTENDS Persistence

Lengths == [v \in Versions |-> IF v = 0 THEN 1 ELSE IF v % 2 = 1 THEN 3 ELSE 2]
=============================================================================
