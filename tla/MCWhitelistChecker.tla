------------------------- MODULE MCWhitelistChecker -------------------------
(* WhitelistChecker on a small instance. *)
EXTENDS WhitelistChecker
=============================================================================
