SPECIFICATION Spec
CONSTANTS
  Client = {c1, c2}
  Ref = {scalar, array}
  ArrayRef = {array}
  NoRef = NoRef
  MaxId = 2
  MaxLines = 2
  MaxDatagrams = 1
SYMMETRY Symmetry
INVARIANTS
  TypeOK
  ListIsExact
  OneRefPerNumber
  EveryNumberAnnounced
