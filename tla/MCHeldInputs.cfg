SPECIFICATION HeldSpec
CONSTANTS
  Client = {c1, c2, r1}
  Button = {b1}
  Program = {p1}
  Raw = {r1}
  Command = {k1}
  None = None
  MaxWire = 2
\* All connections of the plugin's life have ended.
CHECK_DEADLOCK FALSE
INVARIANTS
  HeldTypeOK
  NoStuckButton
  OwnPressHolds
  InputsAreWanted
PROPERTIES
  LetGoComesUp
