SPECIFICATION Spec
CONSTANTS
  Client = {c1, c2, c3}
  Getter = {c1, c2, c3}
  Name = {plain, udp}
  Available = {plain, udp}
  UdpName = {udp}
  WritableName = {plain, udp}
  Obj = {o1, o2, o3}
  NoName = NoName
SYMMETRY Symmetry
CHECK_DEADLOCK FALSE
INVARIANTS
  TypeOK
  CountExact
  RegisteredIsHeld
  OneObjectPerName
  ConnectedIffSubscribed
  LoopVisitsRegistered
PROPERTIES
  OnlyOwnUnsub
  ServiceSpec
