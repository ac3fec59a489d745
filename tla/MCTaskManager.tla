--------------------------- MODULE MCTaskManager ---------------------------
(* TaskManager on a small instance. *)
EXTENDS TaskManager
=============================================================================
