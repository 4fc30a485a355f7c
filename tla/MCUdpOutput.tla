----------------------------- MODULE MCUdpOutput -----------------------------
(* Small instances of UdpOutput for TLC. *)
EXTENDS UdpOutput, TLC

\* Client programs are interchangeable.
Symmetry == Permutations(Client)
=============================================================================
