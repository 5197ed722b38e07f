------------------------------- MODULE MCGate -------------------------------
(***************************************************************************)
(* CmdSession.tla with hook posts for TLC: r1 needs a decision, r2 asks.   *)
(***************************************************************************)
EXTENDS CmdProps

CONSTANTS r1, r2
=============================================================================
