-------------------------- MODULE ClientConnection --------------------------
(***************************************************************************)
(* The Qt client's connection to the plugin: BasicTcpClient, which owns    *)
(* the socket and the reconnect timer, and ExtPlaneConnection on top of    *)
(* it, which waits for the handshake, asks for the datarefs its users      *)
(* subscribed to, and takes the updates.                                   *)
(*                                                                         *)
(* QTcpSocket, the network and the plugin are the environment.  The socket *)
(* is always used for m_host, so its peer is not a variable of its own.    *)
(* The plugin handles a line in the step that writes it; what the plugin   *)
(* sends takes time.  Values and UDP numbers are left out (modules         *)
(* ClientValues and UdpOutput).                                            *)
(*                                                                         *)
(* Sources: util/basictcpclient.cpp, extplane-client-qt/                   *)
(* extplaneconnection.cpp.                                                 *)
(***************************************************************************)
EXTENDS FiniteSets, Integers

CONSTANTS Host,          \* hosts the plugin may run on
          NoHost,        \* the host name is empty
          Name,          \* datarefs the users subscribe to
          Accuracy,      \* accuracies users ask for, naturals
          Protocol,      \* the second word of the handshake line "EXTPLANE 1"
          MaxSubscribers,\* bound: users of one dataref
          MaxFaults,     \* bound: breaks of the connection, and plugins that stop
          MaxChanges     \* bound: starts, stops and changes of the host by the user

ASSUME NoHostIsNone      == NoHost \notin Host
ASSUME ProtocolIsNoName  == Protocol \notin Name
ASSUME AccuraciesAreNat  == Accuracy \subseteq Nat /\ Accuracy # {}
ASSUME BoundsAreNat      == MaxSubscribers \in Nat \ {0} /\ MaxFaults \in Nat /\ MaxChanges \in Nat

\* The plugin does not serve the dataref.
Unserved == -1

VARIABLES
  \* BasicTcpClient
  sock,             \* state of the socket
  m_reconnectTimer, \* the timer runs
  m_host,
  \* ExtPlaneConnection
  server_ok,
  dataRefs,         \* what the map has under each name: absent, null or live
  subscribers,      \* m_subscribers of each live ClientDataRef
  accuracy,         \* m_accuracy of each ClientDataRef, as given to its constructor
  crashed,          \* a null pointer was dereferenced
  \* environment
  up,               \* hosts whose plugin accepts connections
  hello,            \* the handshake line is on its way
  updates,          \* names with a value on its way, behind the handshake line
  served,           \* accuracies of the datarefs the plugin has in m_subscribedRefs
  faults, changes,  \* counters for the bounds
  \* history
  handshaken,       \* the handshake line of this connection was taken as such
  halted            \* the connection was stopped since it was last started

refVars == <<dataRefs, subscribers, accuracy>>
wire    == <<hello, updates, served>>
bounds  == <<faults, changes>>
vars == <<sock, m_reconnectTimer, m_host, server_ok, dataRefs, subscribers, accuracy, crashed,
          up, hello, updates, served, faults, changes, handshaken, halted>>

Keys == Name \cup {Protocol}
NoneServed == [n \in Name |-> Unserved]
Live == {n \in Keys : dataRefs[n] = "live"}

Init ==
  /\ sock = "unconnected" /\ m_reconnectTimer = FALSE /\ m_host = NoHost
  /\ server_ok = FALSE /\ crashed = FALSE
  /\ dataRefs = [n \in Keys |-> "absent"]
  /\ subscribers = [n \in Keys |-> 0]
  /\ up \in SUBSET Host
  /\ accuracy = [n \in Keys |-> 0]
  /\ hello = FALSE /\ updates = {} /\ served = NoneServed
  /\ faults = 0 /\ changes = 0
  /\ handshaken = FALSE /\ halted = TRUE

\* Mutation of Hangup: what was on the wire is still delivered.
Hangup_KeepsWire ==
  /\ hello' = FALSE /\ handshaken' = FALSE
  /\ UNCHANGED <<updates, served>>

\* A connection is gone for both sides.
Hangup ==
  /\ hello' = FALSE /\ updates' = {} /\ served' = NoneServed
  /\ handshaken' = FALSE

-----------------------------------------------------------------------------
(* BasicTcpClient *)

\* startConnection with a host h: whatever the socket does is aborted.
StartWith(h) ==
  /\ sock' = "connecting" /\ m_reconnectTimer' = TRUE
  /\ halted' = FALSE
  /\ Hangup

\* stopConnection: the socket is disconnected; the timer and server_ok stay as they
\* are.
Stop ==
  /\ sock' = "unconnected"
  /\ halted' = TRUE
  /\ Hangup

\* The user calls startConnection, which does nothing without a host name.
UserStarts ==
  /\ ~crashed /\ changes < MaxChanges
  /\ m_host # NoHost
  /\ StartWith(m_host)
  /\ changes' = changes + 1
  /\ UNCHANGED <<m_host, server_ok, refVars, crashed, up, faults>>

\* An attempt to connect that is given up may still succeed for a moment, and then
\* socketStateChanged stops the timer.
GiveUpAttempt ==
  m_reconnectTimer' \in
    IF sock = "connecting" /\ m_host \in up THEN {m_reconnectTimer, FALSE}
                                            ELSE {m_reconnectTimer}

UserStops ==
  /\ ~crashed /\ changes < MaxChanges
  /\ Stop /\ GiveUpAttempt
  /\ changes' = changes + 1
  /\ UNCHANGED <<m_host, server_ok, refVars, crashed, up, faults>>

\* setHostName, and connectionChangedSlot, which stops a connection that is up and
\* starts one that is not.
SetHostName(h) ==
  /\ ~crashed /\ changes < MaxChanges
  /\ h # m_host
  /\ m_host' = h
  /\ IF sock = "connected" THEN Stop /\ UNCHANGED m_reconnectTimer
                           ELSE StartWith(h)
  /\ changes' = changes + 1
  /\ UNCHANGED <<server_ok, refVars, crashed, up, faults>>

\* The timer fires: another attempt to connect, also in place of one under way.
TryReconnect ==
  /\ ~crashed
  /\ m_reconnectTimer /\ m_host # NoHost
  /\ sock' = "connecting" /\ GiveUpAttempt
  /\ Hangup
  /\ UNCHANGED <<m_host, server_ok, refVars, crashed, up, bounds, halted>>

\* socketStateChanged: connected, and the plugin has written its handshake.
Connected ==
  /\ ~crashed
  /\ sock = "connecting" /\ m_host \in up
  /\ sock' = "connected" /\ m_reconnectTimer' = FALSE
  /\ hello' = TRUE
  /\ UNCHANGED <<m_host, server_ok, refVars, crashed, up, updates, served, bounds,
                 handshaken, halted>>

\* Mutation of StartTimer: the timer is not started again.
StartTimer_Not == UNCHANGED m_reconnectTimer

StartTimer == m_reconnectTimer' = TRUE

\* socketError of both classes.
SocketError ==
  /\ sock' = "unconnected" /\ server_ok' = FALSE
  /\ StartTimer
  /\ Hangup
  /\ UNCHANGED <<m_host, refVars, crashed, up, halted>>

Refused ==
  /\ ~crashed
  /\ sock = "connecting" /\ m_host \notin up
  /\ SocketError
  /\ UNCHANGED bounds

\* The connection breaks, by itself or because the plugin stopped.
ConnectionLost ==
  /\ ~crashed
  /\ sock = "connected"
  /\ m_host \in up => faults < MaxFaults
  /\ faults' = IF m_host \in up THEN faults + 1 ELSE faults
  /\ SocketError
  /\ UNCHANGED changes

-----------------------------------------------------------------------------
(* ExtPlaneConnection *)

\* subRef: what the plugin serves after the line "sub n a".
Sub(n, a) ==
  IF server_ok /\ sock = "connected" THEN [served EXCEPT ![n] = a] ELSE served

\* subscribeDataRef: the first user's accuracy a becomes the dataref's.
SubscribeFirst(n, a) ==
  /\ ~crashed
  /\ dataRefs[n] # "live"
  /\ dataRefs' = [dataRefs EXCEPT ![n] = "live"]
  /\ subscribers' = [subscribers EXCEPT ![n] = 1]
  /\ accuracy' = [accuracy EXCEPT ![n] = a]
  /\ served' = Sub(n, a)
  /\ UNCHANGED <<sock, m_reconnectTimer, m_host, server_ok, crashed, up, hello, updates,
                 bounds, handshaken, halted>>

\* subscribeDataRef: one more user, who wants accuracy a.  The line "Re-subscribe with
\* higher accuracy" still has the dataref's own.
SubscribeAgain(n, a) ==
  /\ ~crashed
  /\ dataRefs[n] = "live"
  /\ subscribers[n] < MaxSubscribers
  /\ subscribers' = [subscribers EXCEPT ![n] = @ + 1]
  /\ served' = IF a < accuracy[n] THEN Sub(n, accuracy[n]) ELSE served
  /\ UNCHANGED <<sock, m_reconnectTimer, m_host, server_ok, dataRefs, accuracy, crashed, up,
                 hello, updates, bounds, handshaken, halted>>

\* Mutation of LastLeft: any user's unsubscription goes to the plugin.
LastLeft_Any(n) == TRUE

LastLeft(n) == subscribers[n] = 1

\* unsubscribeDataRef: the last user's takes the dataref out of the map.
Unsubscribe(n) ==
  /\ ~crashed
  /\ subscribers[n] > 0
  /\ subscribers' = [subscribers EXCEPT ![n] = @ - 1]
  /\ dataRefs' = [dataRefs EXCEPT ![n] = IF subscribers[n] = 1 THEN "absent" ELSE @]
  /\ served' = IF LastLeft(n) /\ server_ok THEN [served EXCEPT ![n] = Unserved] ELSE served
  /\ UNCHANGED <<sock, m_reconnectTimer, m_host, server_ok, accuracy, crashed, up, hello,
                 updates, bounds, handshaken, halted>>

\* Looking a name up in std::map<QString, ClientDataRef*> with [].
LookedUp(n) == [dataRefs EXCEPT ![n] = IF @ = "absent" THEN "null" ELSE @]

\* The line "EXTPLANE 1" arrives and is waited for: every name of the map is
\* subscribed, and a null pointer among them is dereferenced.
TakeHandshake ==
  /\ ~crashed
  /\ hello /\ ~server_ok
  /\ IF \E n \in Keys : dataRefs[n] = "null"
       THEN /\ crashed' = TRUE /\ sock' = "unconnected"
            /\ Hangup
            /\ UNCHANGED server_ok
       ELSE /\ hello' = FALSE /\ server_ok' = TRUE /\ handshaken' = TRUE
            /\ served' = [n \in Name |-> IF n \in Live THEN accuracy[n] ELSE Unserved]
            /\ UNCHANGED <<crashed, sock, updates>>
  /\ UNCHANGED <<m_reconnectTimer, m_host, refVars, up, bounds, halted>>

\* The same line arrives while server_ok is still set: it passes for an update.
MistakeHandshake ==
  /\ ~crashed
  /\ hello /\ server_ok
  /\ hello' = FALSE
  /\ dataRefs' = LookedUp(Protocol)
  /\ UNCHANGED <<sock, m_reconnectTimer, m_host, server_ok, subscribers, accuracy, crashed,
                 up, updates, served, bounds, handshaken, halted>>

TakeUpdate(n) ==
  /\ ~crashed
  /\ n \in updates /\ ~hello
  /\ updates' = updates \ {n}
  /\ dataRefs' = IF server_ok THEN LookedUp(n) ELSE dataRefs
  /\ UNCHANGED <<sock, m_reconnectTimer, m_host, server_ok, subscribers, accuracy, crashed,
                 up, hello, served, bounds, handshaken, halted>>

-----------------------------------------------------------------------------
(* The plugins *)

SendUpdate(n) ==
  /\ served[n] # Unserved
  /\ updates' = updates \cup {n}
  /\ UNCHANGED <<sock, m_reconnectTimer, m_host, server_ok, refVars, crashed, up,
                 hello, served, bounds, handshaken, halted>>

PluginStarts(h) ==
  /\ h \notin up
  /\ up' = up \cup {h}
  /\ UNCHANGED <<sock, m_reconnectTimer, m_host, server_ok, refVars, crashed, wire,
                 bounds, handshaken, halted>>

PluginStops(h) ==
  /\ h \in up /\ faults < MaxFaults
  /\ up' = up \ {h}
  /\ faults' = faults + 1
  /\ UNCHANGED <<sock, m_reconnectTimer, m_host, server_ok, refVars, crashed, wire,
                 changes, handshaken, halted>>

Next ==
  \/ UserStarts \/ UserStops \/ TryReconnect \/ Connected \/ Refused \/ ConnectionLost
  \/ TakeHandshake \/ MistakeHandshake
  \/ \E n \in Name, a \in Accuracy : SubscribeFirst(n, a) \/ SubscribeAgain(n, a)
  \/ \E n \in Name : Unsubscribe(n) \/ TakeUpdate(n) \/ SendUpdate(n)
  \/ \E h \in Host : SetHostName(h) \/ PluginStarts(h) \/ PluginStops(h)

\* The timer keeps firing, an attempt to connect ends, a broken connection is
\* noticed, and the event loop reads what has arrived.
Fairness ==
  /\ WF_vars(TryReconnect)
  /\ WF_vars(Connected) /\ WF_vars(Refused)
  /\ WF_vars(ConnectionLost /\ m_host \notin up)
  /\ WF_vars(TakeHandshake) /\ WF_vars(MistakeHandshake)

Spec == Init /\ [][Next]_vars /\ Fairness

-----------------------------------------------------------------------------
(* Properties *)

\* Every variable has its type; what is on the wire needs a connection.
TypeOK ==
  /\ sock \in {"unconnected", "connecting", "connected"}
  /\ m_host \in Host \cup {NoHost}
  /\ m_reconnectTimer \in BOOLEAN /\ server_ok \in BOOLEAN /\ crashed \in BOOLEAN
  /\ hello \in BOOLEAN /\ handshaken \in BOOLEAN /\ halted \in BOOLEAN
  /\ dataRefs \in [Keys -> {"absent", "null", "live"}]
  /\ subscribers \in [Keys -> 0..MaxSubscribers]
  /\ up \subseteq Host
  /\ accuracy \in [Keys -> Accuracy \cup {0}]
  /\ updates \subseteq Name
  /\ served \in [Name -> Accuracy \cup {Unserved}]
  /\ faults \in 0..MaxFaults /\ changes \in 0..MaxChanges
  /\ sock # "connected" => ~hello /\ updates = {} /\ served = NoneServed

Used == {n \in Name : subscribers[n] > 0}

\* After the handshake the plugin serves exactly the datarefs somebody uses, however users
\* come and go and however often the connection broke before; and in every mode, stopped
\* and restarted included, it serves nothing that nobody uses (subscribeDataRef,
\* unsubscribeDataRef, receivedLineSlot).  With which accuracy is not said.
ServedIsUsed ==
  \A n \in Name : /\ handshaken /\ n \in Used => served[n] # Unserved
                  /\ served[n] # Unserved => n \in Used

\* A client that is not stopped, does not believe itself connected and whose plugin
\* stays up ends up served, unless it crashes at the handshake.
Recovers ==
  ~halted /\ ~server_ok
    ~> (handshaken \/ crashed \/ halted \/ m_host \notin up)

\* "Sub all refs" (receivedLineSlot): after a connection's handshake line is read,
\* the plugin serves every dataref in use.
HandshakeSubscribesAll ==
  sock = "connected" /\ ~hello => {n \in Name : served[n] # Unserved} = Used
=============================================================================
