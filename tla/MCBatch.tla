------------------------------ MODULE MCBatch ------------------------------
(***************************************************************************)
(* Small instances of XpdkBatch for TLC.                                   *)
(***************************************************************************)
EXTENDS XpdkBatch

=============================================================================
