---------------------------- MODULE MCLifecycle ----------------------------
(***************************************************************************)
(* Small instances of XpdkLifecycle for TLC.                               *)
(***************************************************************************)
EXTENDS XpdkLifecycle

=============================================================================
