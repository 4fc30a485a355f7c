---------------------------- MODULE MCCustomData ----------------------------
(* Small instances of CustomData for TLC. *)
EXTENDS CustomData

\* Aids on both sides of zero, three in one sector, two at sector borders, one alone.
MCAids == <<[lat |-> 4, lon |-> 4, size |-> 1], [lat |-> 3, lon |-> 3, size |-> 1],
            [lat |-> 2, lon |-> 3, size |-> 2], [lat |-> 3, lon |-> 2, size |-> 1],
            [lat |-> 4, lon |-> 3, size |-> 1], [lat |-> 1, lon |-> 1, size |-> 1],
            [lat |-> -1, lon |-> 1, size |-> 1], [lat |-> -3, lon |-> -2, size |-> 1],
            [lat |-> -4, lon |-> 2, size |-> 1], [lat |-> 6, lon |-> 8, size |-> 1]>>

MCPlaces == ({-3, -1, 1, 2, 3} \X {-2, 1, 2, 3}) \cup {<<6, 7>>}

MCGarbage == {<<0, 0>>, <<5, 5>>}
=============================================================================
