SPECIFICATION CustomSpec
CONSTANTS
  Aids <- MCAids
  Places <- MCPlaces
  Garbage <- MCGarbage
  Radius = 3
  PacketSize = 5
  Comm = {m1, m2}
  NoComm = NoComm
  NoLine = NoLine
  MaxLog = 4
\* The system may stop: the log is full and could not be opened.
CHECK_DEADLOCK FALSE
INVARIANTS
  NearbyIsListed
  ReplyIsSound
  CommIsLatest
