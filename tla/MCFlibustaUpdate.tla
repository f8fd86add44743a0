-------------------------- MODULE MCFlibustaUpdate --------------------------
(* A small instance of FlibustaUpdate: an update of the scheduler beside one  *)
(* of the command line.                                                       *)
EXTENDS FlibustaUpdate, TLC

CONSTANTS server, shell, scheduled, manual

MCProcOf == (scheduled :> server) @@ (manual :> shell)
=============================================================================
