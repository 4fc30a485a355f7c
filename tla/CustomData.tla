----------------------------- MODULE CustomData -----------------------------
(***************************************************************************)
(* The datarefs the plugin itself provides: extplane/navdata/..., the      *)
(* navigation aids around the aircraft, and extplane/atc/124thatc/latest,  *)
(* the last communication that another plugin wrote to X-Plane's log.      *)
(*                                                                         *)
(* Coordinates are integers, in half degrees: sectors of the database are  *)
(* one degree wide.  A line of the reply is its aid, with a length; the    *)
(* distance is that of the coordinates.  A line of the log is the          *)
(* communication in it, if it has one.                                     *)
(*                                                                         *)
(* Sources: customdata/navcustomdata.cpp, customdata/atccustomdata.cpp.    *)
(***************************************************************************)
EXTENDS Integers, Sequences, SequencesExt

CONSTANTS Aids,       \* X-Plane's aids in its order: [lat, lon, length of the line]
          Places,     \* where the aircraft may be, pairs of latitude and longitude
          Radius,     \* of the dataref
          PacketSize, \* of its reply
          Comm,       \* communications
          NoComm,     \* a line without, and no communication yet
          NoLine,     \* no line is being written
          Garbage,    \* sectors that uninitialized memory may make
          MaxLog      \* bound: lines of the log

ASSUME SomeAids == Aids \in Seq([lat : Int, lon : Int, size : Nat]) /\ Aids # <<>>
ASSUME PlacesAreCoordinates == Places \subseteq Int \X Int
ASSUME PacketHolds == PacketSize \in Nat \ {0}
ASSUME CommsAreOwn == {NoComm, NoLine} \cap Comm = {}

\* The end of X-Plane's list, registered like an aid.
NotFound == 0

VARIABLES
  built,    \* the database was created
  _data,    \* QMultiMap of NavCustomData: entries in the order of insertion
  reply,    \* aids of the last reply, in order
  askedAt,  \* where the aircraft was then
  log,      \* whole lines of the log
  partial,  \* the line being written
  follows,  \* the log is followed: "not yet", "failed", "yes"
  _gPos,    \* lines of the log read, or skipped when it was opened
  cut,      \* _gPos is inside the line being written
  comm,     \* _data of ATCCustomData
  from      \* history: first whole line since the log was opened

navVars == <<built, _data, reply, askedAt>>
atcVars == <<log, partial, follows, _gPos, cut, comm, from>>
customVars == <<built, _data, reply, askedAt, log, partial, follows, _gPos, cut, comm,
                from>>

Numbers == DOMAIN Aids

CustomInit ==
  /\ built = FALSE /\ _data = <<>> /\ reply = <<>> /\ askedAt \in Places
  /\ log = <<>> /\ partial = NoLine
  /\ follows = "not yet" /\ _gPos = 0 /\ cut = FALSE /\ comm = NoComm /\ from = 1

-----------------------------------------------------------------------------
(* NavCustomData *)

\* qFloor, for the sectors of the aids, and the conversion of double to int, for those
\* that are looked up.
Floor(h) == h \div 2
Trunc(h) == IF h >= 0 THEN h \div 2 ELSE -((-h) \div 2)

\* XPLMGetNavAidInfo in a lookup, which leaves the zeros for what is no aid.
Lat(a)  == IF a = NotFound THEN 0 ELSE Aids[a].lat
Lon(a)  == IF a = NotFound THEN 0 ELSE Aids[a].lon
Size(a) == IF a = NotFound THEN 1 ELSE Aids[a].size

Sector(a) == <<Floor(Lat(a)), Floor(Lon(a))>>
Length(r) == LET n[k \in 0..Len(r)] == IF k = 0 THEN 0 ELSE n[k - 1] + Size(r[k])
             IN  n[Len(r)]

\* dist < radius
Near(a, at) == LET x == Lat(a) - at[1]
                   z == Lon(a) - at[2]
               IN  x * x + z * z < Radius * Radius

\* The constructor's loop takes the next aid before it registers one: the first is left
\* out, and the end of the list is registered in a sector made of uninitialized memory.
Database(junk) ==
  [i \in 1..(Len(Aids) - 1) |-> [aid |-> i + 1, sector |-> Sector(i + 1)]]
    \o <<[aid |-> NotFound, sector |-> junk]>>

\* There is room for a's line, and for the zero that ends the text.
Fits(r, a) == Length(r) + Size(a) < PacketSize

\* Mutation of Under: the rest of the map is read, too.
Under_ToTheEnd(data, i, s) == \E j \in i..Len(data) : data[j].sector = s

\* The i-th entry is one of the sector s.
Under(data, i, s) == data[i].sector = s

\* The body of the loop over a sector: it adds a near aid if there is room for its line.
Look(data, r, i, s, at) ==
  LET a == data[i].aid
  IN  IF Under(data, i, s) /\ Near(a, at) /\ Fits(r, a) THEN Append(r, a) ELSE r

\* getNavDataForSector; a QMultiMap has the latest entry of a sector first.
Scan(data, r, s, at) ==
  LET q[k \in 0..Len(data)] ==
        IF k = 0 THEN r ELSE Look(data, q[k - 1], Len(data) + 1 - k, s, at)
  IN  q[Len(data)]

\* The sector of a lookup, x degrees north and y degrees east of the aircraft.
Cell(at, x, y) == <<Trunc(at[1] + 2 * x), Trunc(at[2] + 2 * y)>>

\* Mutation of Row: the grid ends before the aircraft's eastern neighbours.
Row_Short(data, r, at, x) ==
  Scan(data, Scan(data, r, Cell(at, x, -1), at), Cell(at, x, 0), at)

\* The inner loop of the grid.
Row(data, r, at, x) ==
  Scan(data, Scan(data, Scan(data, r, Cell(at, x, -1), at), Cell(at, x, 0), at), Cell(at, x, 1), at)

\* DataCallback_Common: a grid of sectors around the aircraft.
AidsAround(data, at) == Row(data, Row(data, Row(data, <<>>, at, -1), at, 0), at, 1)

\* Bound: the two datarefs, which share no state, are not combined.
LogUnused == log = <<>> /\ partial = NoLine /\ follows = "not yet"
NavUnused == ~built

\* updateDataRef asks for the length and then for the data, wherever the aircraft is now.
\* The first call builds the database.
NavCallback ==
  /\ LogUnused
  /\ built' = TRUE
  /\ IF built THEN UNCHANGED _data
              ELSE \E junk \in Garbage : _data' = Database(junk)
  /\ askedAt' \in Places
  /\ reply' = AidsAround(_data', askedAt')
  /\ UNCHANGED atcVars

-----------------------------------------------------------------------------
(* ATCCustomData *)

LineBegun ==
  /\ NavUnused /\ partial = NoLine /\ Len(log) < MaxLog
  /\ partial' \in Comm \cup {NoComm}
  /\ UNCHANGED <<navVars, log, follows, _gPos, cut, comm, from>>

LineEnded ==
  /\ partial # NoLine
  /\ log' = Append(log, partial) /\ partial' = NoLine
  /\ UNCHANGED <<navVars, follows, _gPos, cut, comm, from>>

\* The log is opened at its end, wherever in a line that is.
OpenLog ==
  /\ NavUnused /\ follows = "not yet"
  /\ follows' \in {"yes", "failed"}
  /\ _gPos' = Len(log) /\ cut' = (partial # NoLine)
  /\ from' = Len(log) + (IF cut' THEN 2 ELSE 1)
  /\ UNCHANGED <<navVars, log, partial, comm>>

\* Mutation of NewLines: a line is read before it is whole.
NewLines_Partial ==
  SubSeq(log, _gPos + 1, Len(log)) \o (IF partial = NoLine THEN <<>> ELSE <<partial>>)

\* getline, until the end of the file ends a line: that one is read again next time.
NewLines == SubSeq(log, _gPos + 1, Len(log))

\* updateData: the last communication of the new lines; what is left of a line that was
\* cut does not begin with the prefix of the plugin.
UpdateData ==
  LET lines == NewLines
      new   == {i \in DOMAIN lines : lines[i] # NoComm /\ (cut => i > 1)}
  IN  /\ follows = "yes"
      /\ _gPos' = _gPos + Len(lines)
      /\ cut' = (cut /\ lines = <<>>)
      /\ comm' = IF new = {} THEN comm
                 ELSE lines[CHOOSE i \in new : \A j \in new : j <= i]
      /\ UNCHANGED <<navVars, log, partial, follows, from>>

CustomNext ==
  \/ NavCallback
  \/ LineBegun \/ LineEnded \/ OpenLog \/ UpdateData

CustomSpec == CustomInit /\ [][CustomNext]_customVars

-----------------------------------------------------------------------------
(* Properties *)

\* Every variable has its type.
CustomTypeOK ==
  /\ askedAt \in Places
  /\ {built, cut} \subseteq BOOLEAN
  /\ built => Len(_data) = Len(Aids)
  /\ \A i \in DOMAIN reply : reply[i] \in Numbers \cup {NotFound}
  /\ log \in Seq(Comm \cup {NoComm}) /\ partial \in Comm \cup {NoComm, NoLine}
  /\ follows \in {"not yet", "failed", "yes"}
  /\ comm \in Comm \cup {NoComm}
  /\ _gPos \in 0..Len(log) /\ from \in 1..(Len(log) + 2)

Listed == {reply[i] : i \in DOMAIN reply}

\* Every aid within the radius is in the reply if it is in the aircraft's own sector, or
\* if it is at most a degree away each way and the aircraft is a degree or more north of
\* the equator and east of the meridian - but for X-Plane's first, and those there was no
\* room for ("add all nav aids using a 3x3 grid around our plane coordinates",
\* DataCallback_Common).  Elsewhere the conversion to int moves the grid towards zero, and
\* a radius of more than a degree reaches beyond it.
NearbyIsListed ==
  \A a \in Numbers \ {1} :
    LET own     == Sector(a) = <<Floor(askedAt[1]), Floor(askedAt[2])>>
        aDegree == Lat(a) - askedAt[1] \in -2..2 /\ Lon(a) - askedAt[2] \in -2..2
    IN  /\ built /\ Near(a, askedAt)
        /\ own \/ (aDegree /\ askedAt[1] >= 2 /\ askedAt[2] >= 2)
        => a \in Listed \/ ~Fits(reply, a)

\* A reply leaves room for the zero that ends its text, lists only what is within the
\* radius, and nothing twice - unless the aircraft is within a degree of the equator or of
\* the meridian, where two steps of the grid lead to the same sector (DataCallback_Common,
\* getNavDataForSector).  And every variable has its type.
ReplyIsSound ==
  /\ CustomTypeOK
  /\ Length(reply) < PacketSize /\ \A a \in Listed : Near(a, askedAt)
  /\ (\A i \in 1..2 : askedAt[i] \notin {-1, 1}) => IsInjective(reply)

\* The communication shown is the last in the lines read since the log was opened, however
\* the lines come in pieces (updateData) - the line that was being written then is lost.
CommIsLatest ==
  LET seen == {i \in DOMAIN log : i \in from.._gPos /\ log[i] # NoComm}
  IN  comm = IF seen = {} THEN NoComm ELSE log[CHOOSE i \in seen : \A j \in seen : j <= i]
=============================================================================
