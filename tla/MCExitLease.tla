---------------------------- MODULE MCExitLease ----------------------------
(* ExitLease with the bounds of the cfg files. *)
EXTENDS ExitLease
=============================================================================
