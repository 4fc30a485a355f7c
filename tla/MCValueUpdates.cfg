SPECIFICATION Spec
CONSTANTS
  Client = {c1, c2}
  Kinds = {"scalar", "floatArray", "intArray", "string", "data"}
  Value = {0, 1, 2, 3, 4, 5}
  MaxBytes = 2
  Accuracy = {0, 2}
  Empty = Empty
  Nothing = Nothing
SYMMETRY Symmetry
INVARIANTS
  TypeOK
  ServedWhenValid
  ObjectMirrorsSimulator
  DataIsSent
  DriftBounded
