--------------------------- MODULE MCValueUpdates ---------------------------
(* Small instances of ValueUpdates for TLC. *)
EXTENDS ValueUpdates, TLC

\* Connections are interchangeable.
Symmetry == Permutations(Client)
=============================================================================
