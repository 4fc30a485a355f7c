--------------------------- MODULE MCClientValues ---------------------------
(* Small instances of ClientValues for TLC. *)
EXTENDS ClientValues, TLC

CONSTANTS abc, abcd \* texts

\* 1, 2 and 3 are fractions with six, seven and eleven digits, 4 and 5 are 2^24 and 2^24 + 1.
MCNumbers ==
  [k \in Kinds |-> CASE k = "int"    -> {4, 5}
                     [] k = "double" -> {1, 2, 3}
                     [] k = "text"   -> {1}
                     [] OTHER        -> {1, 2}]

Names == 0..6
MCWhole  == [x \in Names |-> IF x < 4 THEN 0 ELSE x]
MCSingle == [x \in Names |-> CASE x = 3 -> 2 [] x = 5 -> 4 [] OTHER -> x]
MCSix    == [x \in Names |-> CASE x \in {2, 3} -> 1 [] x = 5 -> 4 [] OTHER -> x]
MCTen    == [x \in Names |-> IF x = 3 THEN 2 ELSE x]

\* The simulator has three bytes for a text; 1 is a shorter one.
MCWords == [k \in Kinds |-> CASE k = "text"  -> {abc, abcd}
                              [] k = "array" -> {}
                              [] OTHER       -> {abc}]
MCKept == (abc :> abc) @@ (abcd :> abc)
=============================================================================
