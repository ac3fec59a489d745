-------------------------- MODULE MCLimitedBuffer --------------------------
(* LimitedBuffer on a small instance. *)
EXTENDS LimitedBuffer
=============================================================================
