------------------------------ MODULE UdpOutput ------------------------------
(***************************************************************************)
(* Datarefs with the udp modifier.  A subscription is made over TCP; the   *)
(* server answers with a line that gives the dataref a number, and then    *)
(* sends changed values in datagrams that carry only numbers.  TCP lines   *)
(* arrive in order, datagrams get lost, duplicated and overtake anything.  *)
(*                                                                         *)
(* The server side is UdpSender with the part of TcpServer and TcpClient   *)
(* that feeds it, the client side ExtPlaneUdpClient with the part of       *)
(* ExtPlaneConnection that feeds it.  Of values the model keeps only if    *)
(* there is one and if it has changed since a client was sent the last.    *)
(*                                                                         *)
(* A client's line and the server's handling of it are one step: only what *)
(* the server sends takes time.  Delaying the client's line as well shows  *)
(* nobody another order of events.                                         *)
(*                                                                         *)
(* Sources: udpsender.cpp, tcpserver.cpp, tcpclient.cpp;                   *)
(* extplaneudpclient.cpp and extplaneconnection.cpp of extplane-client-qt. *)
(***************************************************************************)
EXTENDS FiniteSets, Integers, Sequences

CONSTANTS Client,       \* client programs with one ExtPlaneConnection each
          Ref,          \* names of datarefs, all with the udp modifier
          ArrayRef,     \* those whose type UDP cannot carry
          NoRef,        \* a map entry without a dataref
          MaxId,        \* bound: numbers the server hands out (65534 in the code)
          MaxLines,     \* bound: lines on the way to one client
          MaxDatagrams  \* bound: different datagrams on the way to one client

ASSUME MaxIdIsPositive == MaxId \in Nat \ {0}
ASSUME ArraysAreRefs   == ArrayRef \subseteq Ref
ASSUME NoRefIsNone     == NoRef \notin Ref

VARIABLES
  \* server
  connected,    \* clients with a TcpClient in m_clientConnections
  subs,         \* m_subscribedRefs of each TcpClient
  m_nextFreeId, \* last number handed out
  udpId,        \* _udpId of the object of each name, 0 when there is none
  valid,        \* names whose object was updated before
  m_changedRefs,\* what each UdpSender will send next
  stale,        \* history: names whose value each client was not sent, by line or datagram
  \* network
  tcp,          \* lines on their way to each client
  dgrams,       \* datagrams on their way to each client: sets of numbers
  \* clients
  alive,        \* programs that did not crash
  toSub,        \* names the handshake has still to subscribe
  dataRefs,     \* dataRefs of each ExtPlaneConnection
  listening,    \* clients with an m_udpClient
  m_idRefMap    \* m_idRefMap of each m_udpClient

server  == <<connected, subs, m_nextFreeId, udpId, valid, m_changedRefs, stale>>
clients == <<alive, toSub, dataRefs, listening, m_idRefMap>>
vars == <<connected, subs, m_nextFreeId, udpId, valid, m_changedRefs, stale,
          tcp, dgrams, alive, toSub, dataRefs, listening, m_idRefMap>>

Id == 1..MaxId

\* An entry of std::map<quint16, ClientDataRef*>: none, a null pointer, a pointer to
\* the ClientDataRef in use for a name, or to one that was deleted.
Entry(r, s) == [ref |-> r, state |-> s]
Absent  == Entry(NoRef, "absent")
Null    == Entry(NoRef, "null")
Entries == {Absent, Null} \cup {Entry(r, s) : r \in Ref, s \in {"live", "deleted"}}

EmptyMap == [i \in Id |-> Absent]

Lines == [kind : {"udp"}, id : Id, ref : Ref] \cup [kind : {"u"}, id : {0}, ref : Ref]

Init ==
  /\ connected = {}
  /\ subs = [c \in Client |-> {}]
  /\ m_nextFreeId = 0
  /\ udpId = [r \in Ref |-> 0]
  /\ valid = {}
  /\ m_changedRefs = [c \in Client |-> {}]
  /\ stale = [c \in Client |-> {}]
  /\ tcp = [c \in Client |-> <<>>]
  /\ dgrams = [c \in Client |-> {}]
  /\ alive = Client
  /\ toSub = [c \in Client |-> {}]
  /\ dataRefs = [c \in Client |-> [r \in Ref |-> "absent"]]
  /\ listening = {}
  /\ m_idRefMap = [c \in Client |-> EmptyMap]

Holders(r) == {c \in Client : r \in subs[c]}

-----------------------------------------------------------------------------
(* The server *)

\* Mutation of ReserveUdpId: the smallest number no object has at the moment.
ReserveUdpId_Reuses ==
  CHOOSE i \in 1..(MaxId + 1) :
    /\ \A r \in Ref : udpId[r] # i
    /\ \A j \in 1..(i - 1) : \E r \in Ref : udpId[r] = j

ReserveUdpId == m_nextFreeId + 1

\* Mutation of Answer: the number is announced only when it is new.
Answer_AnnouncesNewOnly(r, i) ==
  LET value == IF r \in valid THEN <<[kind |-> "u", id |-> 0, ref |-> r]>> ELSE <<>>
  IN  IF udpId[r] = 0 THEN Append(value, [kind |-> "udp", id |-> i, ref |-> r]) ELSE value

\* The lines that answer a sub: the value, if the object has one, and the number.
Answer(r, i) ==
  LET value == IF r \in valid THEN <<[kind |-> "u", id |-> 0, ref |-> r]>> ELSE <<>>
  IN  Append(value, [kind |-> "udp", id |-> i, ref |-> r])

\* readClient handles sub: the object gets a number unless it has one.
ServerSub(c, r) ==
  LET fresh == udpId[r] = 0
      i == IF fresh THEN ReserveUdpId ELSE udpId[r]
  IN  /\ i <= MaxId
      /\ udpId' = [udpId EXCEPT ![r] = i]
      /\ m_nextFreeId' = IF fresh THEN m_nextFreeId + 1 ELSE m_nextFreeId
      /\ subs' = [subs EXCEPT ![c] = @ \cup {r}]
      /\ stale' = [stale EXCEPT ![c] = @ \ {r}]
      /\ tcp'  = [tcp EXCEPT ![c] = @ \o Answer(r, i)]
      /\ Len(tcp'[c]) <= MaxLines

\* The provider gives up the objects of names nobody holds any more.
GiveUp(names) ==
  /\ udpId' = [r \in Ref |-> IF r \in names THEN 0 ELSE udpId[r]]
  /\ valid' = valid \ names

\* readClient handles unsub.
ServerUnsub(c, r) ==
  /\ subs' = [subs EXCEPT ![c] = @ \ {r}]
  /\ GiveUp({r} \cap {q \in Ref : Holders(q) = {c}})
  /\ m_changedRefs' = [m_changedRefs EXCEPT ![c] = @ \ {r}]

\* Mutation of Without: the server keeps the TcpClient.
Without_Kept(c) == connected

\* The connections left without c (clientDisconnected).
Without(c) == connected \ {c}

\* disconnectClient; the sender is deleted with its TcpClient before it could be
\* asked to send again.
ServerDrop(c) ==
  /\ connected' = Without(c)
  /\ subs' = [subs EXCEPT ![c] = {}]
  /\ GiveUp({r \in Ref : Holders(r) = {c}})
  /\ m_changedRefs' = [m_changedRefs EXCEPT ![c] = {}]
  /\ stale' = [stale EXCEPT ![c] = {}]
  /\ tcp'  = [tcp EXCEPT ![c] = <<>>]
  /\ dgrams' = [dgrams EXCEPT ![c] = {}]
  /\ UNCHANGED m_nextFreeId

\* Numbers of the int, float and double datarefs among names.
Numbers(names) == {udpId[r] : r \in names \ ArrayRef}

\* Mutation of SenderList: the list is cleared before it is sent.
SenderList_ClearedFirst(c, moved) == subs[c] \cap moved

\* The sender's list when the objects of the names moved have emitted changed.
SenderList(c, moved) == m_changedRefs[c] \cup (subs[c] \cap moved)

\* A flight loop: every registered object is updated, which is news for those the
\* simulator has moved and those without a value, and every UdpSender sends what has
\* changed since the last time and forgets it.
FlightLoop ==
  LET held == {r \in Ref : Holders(r) # {}}
  IN  \E moved \in SUBSET held :
        LET datagram(c) == Numbers(SenderList(c, moved))
        IN  /\ held \ valid \subseteq moved
            /\ valid' = valid \cup moved
            /\ dgrams' = [c \in Client |->
                 IF datagram(c) = {} THEN dgrams[c] ELSE dgrams[c] \cup {datagram(c)}]
            /\ \A c \in Client : Cardinality(dgrams'[c]) <= MaxDatagrams
            /\ m_changedRefs' = [c \in Client |-> {}]
            /\ stale' = [c \in Client |-> stale[c] \ SenderList(c, moved)]
            /\ UNCHANGED <<connected, subs, m_nextFreeId, udpId, tcp, clients>>

\* set by a client that holds r: the object has changed for everybody.
SetValue(c, r) ==
  /\ r \in subs[c] \ ArrayRef /\ dataRefs[c][r] = "live"
  /\ valid' = valid \cup {r}
  /\ m_changedRefs' = [d \in Client |->
       IF r \in subs[d] THEN m_changedRefs[d] \cup {r} ELSE m_changedRefs[d]]
  /\ stale' = [d \in Client |-> IF r \in subs[d] THEN stale[d] \cup {r} ELSE stale[d]]
  /\ UNCHANGED <<connected, subs, m_nextFreeId, udpId, tcp, dgrams, clients>>

-----------------------------------------------------------------------------
(* The client programs *)

\* The program is gone, and the server notices.
Crash(c) ==
  /\ alive' = alive \ {c}
  /\ ServerDrop(c)
  /\ toSub' = [toSub EXCEPT ![c] = {}]
  /\ dataRefs' = [dataRefs EXCEPT ![c] = [r \in Ref |-> "absent"]]
  /\ listening' = listening \ {c}
  /\ m_idRefMap' = [m_idRefMap EXCEPT ![c] = EmptyMap]

\* The connection breaks: the UDP socket is closed with it, the datarefs stay.
Disconnect(c) ==
  /\ c \in connected
  /\ ServerDrop(c)
  /\ toSub' = [toSub EXCEPT ![c] = {}]
  /\ listening' = listening \ {c}
  /\ m_idRefMap' = [m_idRefMap EXCEPT ![c] = EmptyMap]
  /\ UNCHANGED <<alive, dataRefs>>

\* The handshake asks for every dataref in the map; a null pointer among them is
\* dereferenced.
Connect(c) ==
  /\ c \in alive \ connected
  /\ IF \E r \in Ref : dataRefs[c][r] = "null"
       THEN Crash(c)
       ELSE /\ connected' = connected \cup {c}
            /\ toSub' = [toSub EXCEPT ![c] = {r \in Ref : dataRefs[c][r] = "live"}]
            /\ UNCHANGED <<subs, m_nextFreeId, udpId, valid, m_changedRefs, stale,
                           tcp, dgrams, alive, dataRefs, listening, m_idRefMap>>

\* The server handles one of the handshake's subs.
Handshake(c) ==
  \E r \in toSub[c] :
    /\ ServerSub(c, r)
    /\ toSub' = [toSub EXCEPT ![c] = @ \ {r}]
    /\ UNCHANGED <<connected, valid, m_changedRefs, dgrams,
                   alive, dataRefs, listening, m_idRefMap>>

\* The program subscribes to a dataref, or again because it wants more accuracy.
Subscribe(c, r) ==
  /\ c \in alive /\ toSub[c] = {}
  /\ dataRefs' = [dataRefs EXCEPT ![c][r] = "live"]
  /\ IF c \in connected
       THEN ServerSub(c, r)
       ELSE /\ dataRefs[c][r] # "live"
            /\ UNCHANGED <<subs, m_nextFreeId, udpId, stale, tcp>>
  /\ UNCHANGED <<connected, valid, m_changedRefs, dgrams,
                 alive, toSub, listening, m_idRefMap>>

\* The program gives up a dataref.  unsubscribedRef zeroes the number before it uses
\* it, so the map keeps its pointer to what is now deleted.
Unsubscribe(c, r) ==
  /\ c \in alive /\ toSub[c] = {}
  /\ dataRefs[c][r] = "live"
  /\ dataRefs' = [dataRefs EXCEPT ![c][r] = "absent"]
  /\ m_idRefMap' = [m_idRefMap EXCEPT ![c] = [i \in Id |->
       IF @[i].ref = r THEN Entry(r, "deleted") ELSE @[i]]]
  /\ IF c \in connected THEN ServerUnsub(c, r)
                        ELSE UNCHANGED <<subs, udpId, valid, m_changedRefs>>
  /\ stale' = [stale EXCEPT ![c] = @ \ {r}]
  /\ UNCHANGED <<connected, m_nextFreeId, tcp, dgrams, alive, toSub, listening>>

\* std::map::insert: an entry that is there stays as it is.
Inserted(map, i, r) ==
  IF map[i] = Absent THEN [map EXCEPT ![i] = Entry(r, "live")] ELSE map

\* The client reads a line with a value: looking the name up leaves a null pointer
\* under a name that is not subscribed any more.
ReadValue(c) ==
  /\ tcp[c] # <<>> /\ Head(tcp[c]).kind = "u"
  /\ tcp' = [tcp EXCEPT ![c] = Tail(@)]
  /\ dataRefs' = [dataRefs EXCEPT ![c][Head(tcp[c]).ref] = IF @ = "absent" THEN "null" ELSE @]
  /\ UNCHANGED <<server, dgrams, alive, toSub, listening, m_idRefMap>>

\* The client reads a line with a number.  A name that is not in the map at all makes
\* std::map::at throw, and nobody catches it.
ReadNumber(c) ==
  LET line == Head(tcp[c])
  IN  /\ tcp[c] # <<>> /\ line.kind = "udp"
      /\ CASE dataRefs[c][line.ref] = "absent" -> Crash(c)
           [] dataRefs[c][line.ref] = "null" ->
                /\ tcp' = [tcp EXCEPT ![c] = Tail(@)]
                /\ UNCHANGED <<server, dgrams, clients>>
           [] dataRefs[c][line.ref] = "live" ->
                /\ tcp' = [tcp EXCEPT ![c] = Tail(@)]
                /\ listening' = listening \cup {c}
                /\ m_idRefMap' = [m_idRefMap EXCEPT ![c] = Inserted(@, line.id, line.ref)]
                /\ UNCHANGED <<server, dgrams, alive, toSub, dataRefs>>

\* The client reads a datagram: looking a number up leaves a null pointer under one
\* it does not know.
ReadDatagram(c, d) ==
  /\ c \in listening
  /\ m_idRefMap' = [m_idRefMap EXCEPT ![c] = [i \in Id |->
       IF i \in d /\ @[i] = Absent THEN Null ELSE @[i]]]
  /\ dgrams' \in {dgrams, [dgrams EXCEPT ![c] = @ \ {d}]}
  /\ UNCHANGED <<server, tcp, alive, toSub, dataRefs, listening>>

\* A value for a deleted dataref: what happens is undefined, a crash for example.
ReadDatagramForDeleted(c, d) ==
  /\ c \in listening
  /\ \E i \in d : m_idRefMap[c][i].state = "deleted"
  /\ Crash(c)

-----------------------------------------------------------------------------
(* The network *)

\* Lost, or nobody listens.
Lose(c, d) ==
  /\ dgrams' = [dgrams EXCEPT ![c] = @ \ {d}]
  /\ UNCHANGED <<server, tcp, clients>>

Next ==
  \/ FlightLoop
  \/ \E c \in Client :
       \/ Connect(c) \/ Disconnect(c) \/ Handshake(c)
       \/ ReadValue(c) \/ ReadNumber(c)
       \/ \E r \in Ref : Subscribe(c, r) \/ Unsubscribe(c, r) \/ SetValue(c, r)
       \/ \E d \in dgrams[c] : ReadDatagram(c, d) \/ ReadDatagramForDeleted(c, d) \/ Lose(c, d)

Spec == Init /\ [][Next]_vars

-----------------------------------------------------------------------------
(* Properties *)

\* Every variable has its type.
TypeOK ==
  /\ connected \subseteq alive /\ alive \subseteq Client /\ listening \subseteq connected
  /\ subs \in [Client -> SUBSET Ref]
  /\ m_nextFreeId \in 0..MaxId
  /\ udpId \in [Ref -> 0..MaxId]
  /\ valid \subseteq Ref
  /\ m_changedRefs \in [Client -> SUBSET Ref]
  /\ stale \in [Client -> SUBSET Ref]
  /\ tcp \in [Client -> Seq(Lines)]
  /\ dgrams \in [Client -> SUBSET SUBSET Id]
  /\ toSub \in [Client -> SUBSET Ref]
  /\ dataRefs \in [Client -> [Ref -> {"absent", "null", "live"}]]
  /\ m_idRefMap \in [Client -> [Id -> Entries]]

\* Who the server, a line on its way or a client's map says the number belongs to.
Bindings ==
  {<<udpId[r], r>> : r \in {q \in Ref : udpId[q] # 0}}
    \cup (UNION {{<<tcp[c][k].id, tcp[c][k].ref>> :
                    k \in {j \in 1..Len(tcp[c]) : tcp[c][j].kind = "udp"}} : c \in Client})
    \cup (UNION {{<<i, m_idRefMap[c][i].ref>> :
                    i \in {j \in Id : m_idRefMap[c][j].ref # NoRef}} : c \in Client})

\* A number never changes hands: wherever it still is, at the server, on the way or in
\* a client's map, it means the same dataref, and it is never 0.  A value can come
\* late, but never under another dataref's name (TcpServer::reserveUdpId).
OneRefPerNumber ==
  \A p, q \in Bindings : /\ p[1] # 0
                         /\ p[1] = q[1] => p[2] = q[2]

\* A sender's list has every value that the object has and the client was not sent, and
\* names only datarefs its client holds: between set, sub, unsub of others and the flight
\* loop no change is forgotten, and the loop never reads a DataRef that was deleted after
\* it was put on the list (UdpSender::refChanged, flightLoop, unsubscribedRef).
ListIsExact ==
  \A c \in Client : stale[c] \subseteq m_changedRefs[c] /\ m_changedRefs[c] \subseteq subs[c]

\* The lines on the way to c that announce r's present number.
Announcing(c, r) ==
  {k \in 1..Len(tcp[c]) : /\ tcp[c][k].kind = "udp"
                          /\ tcp[c][k].ref = r
                          /\ tcp[c][k].id = udpId[r]}

\* A client that holds r either has the line with r's present number before it, or
\* has some entry under that number: nobody waits for an announcement that was never
\* made, even if the object was made or shared by somebody else (sendUdpInfo).
EveryNumberAnnounced ==
  \A c \in Client : \A r \in subs[c] :
    Announcing(c, r) # {} \/ m_idRefMap[c][udpId[r]] # Absent
=============================================================================
