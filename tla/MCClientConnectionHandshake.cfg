SPECIFICATION Spec
CONSTANTS
  Host = {h1}
  NoHost = NoHost
  Name = {n1}
  Accuracy = {0}
  Protocol = Protocol
  MaxSubscribers = 1
  MaxFaults = 1
  MaxChanges = 3
CHECK_DEADLOCK FALSE
INVARIANT HandshakeSubscribesAll
