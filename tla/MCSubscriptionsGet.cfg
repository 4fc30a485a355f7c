SPECIFICATION Spec
CONSTANTS
  Client = {c1, c2}
  Getter = {c1}
  Name = {plain, udp}
  Available = {plain, udp}
  UdpName = {udp}
  WritableName = {plain, udp}
  Obj = {o1, o2, o3}
  NoName = NoName
CHECK_DEADLOCK FALSE
PROPERTIES
  GetEndsOnlyItsOwn
