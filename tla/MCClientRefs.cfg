SPECIFICATION Spec
CONSTANTS
  Elem = {e1, e2}
  Caller = {k1, k2}
  Name = {n1, n2}
  Obj = {o1, o2, o3}
  NoName = NoName
  NoObj = NoObj
  Dangling = Dangling
  MaxSubscribers = 3
SYMMETRY Symmetry
\* A program that used freed memory or failed an assertion has stopped.
CHECK_DEADLOCK FALSE
INVARIANTS
  TypeOK
  UsedIsLive
  CountCoversUsers
PROPERTIES
  RefIsKept
