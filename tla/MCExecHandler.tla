--------------------------- MODULE MCExecHandler ---------------------------
(* ExecHandler on a small instance. *)
EXTENDS ExecHandler
=============================================================================
