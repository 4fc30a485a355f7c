---------------------------- MODULE MCHeldInputs ----------------------------
(* Small instances of HeldInputs for TLC. *)
EXTENDS HeldInputs
=============================================================================
