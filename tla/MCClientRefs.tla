---------------------------- MODULE MCClientRefs ----------------------------
(* Small instances of ClientRefs for TLC. *)
EXTENDS ClientRefs, TLC

\* Elements, callers, names and pieces of memory are interchangeable.
Symmetry == Permutations(Elem) \cup Permutations(Caller) \cup Permutations(Name) \cup Permutations(Obj)
=============================================================================
