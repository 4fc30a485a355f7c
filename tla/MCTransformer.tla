--------------------------- MODULE MCTransformer ---------------------------
(* Small instances of Transformer for TLC. *)
EXTENDS Transformer, TLC

\* Connections are interchangeable.
Symmetry == Permutations(Client)
=============================================================================
