------------------------------- MODULE MCClient -------------------------------
(* Client, and with it ExecHandler, on a small instance. *)
EXTENDS Client
=============================================================================
