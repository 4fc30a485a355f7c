-------------------------- MODULE MCSubscriptions --------------------------
(* Small instances of Subscriptions for TLC. *)
EXTENDS Subscriptions, TLC

\* Connections, and objects, are interchangeable.
Symmetry == Permutations(Client) \cup Permutations(Obj)
=============================================================================
