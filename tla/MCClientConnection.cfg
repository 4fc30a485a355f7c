SPECIFICATION Spec
CONSTANTS
  Host = {h1, h2}
  NoHost = NoHost
  Name = {n1, n2}
  Accuracy = {0, 2}
  Protocol = Protocol
  MaxSubscribers = 2
  MaxFaults = 2
  MaxChanges = 3
\* A client that crashed does nothing more.
CHECK_DEADLOCK FALSE
INVARIANTS
  TypeOK
  ServedIsUsed
PROPERTIES
  Recovers
