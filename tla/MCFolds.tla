------------------------------ MODULE MCFolds ------------------------------
(***************************************************************************)
(* Small instances of TwoFolds.tla for TLC.                                *)
(***************************************************************************)
EXTENDS TwoFolds
=============================================================================
