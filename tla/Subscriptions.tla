--------------------------- MODULE Subscriptions ---------------------------
(***************************************************************************)
(* The subscription core of the X-Plane plugin: which connection holds     *)
(* which DataRef object, how many subscribers the provider counts for each *)
(* object, and when an object is created, polled and dropped.              *)
(*                                                                         *)
(* Everything runs on X-Plane's main thread.  One flight loop callback     *)
(* first updates every registered object ("update"), then lets Qt handle   *)
(* the events that have arrived ("events"); outside the callback the       *)
(* simulator may enable or disable the plugin ("xplane").                  *)
(*                                                                         *)
(* Sources: extplane-server/tcpclient.cpp, extplane-server/tcpserver.cpp,  *)
(* extplane-plugin/xplaneplugin.cpp, extplane-server/datarefs/dataref.cpp. *)
(***************************************************************************)
EXTENDS FiniteSets, Integers

CONSTANTS Client,      \* the connections of the plugin's life, one TcpClient each
          Name,        \* dataref names as clients spell them, modifiers included
          Obj,         \* heap identities of DataRef objects
          Available,   \* names the simulator knows with a supported type
          UdpName,     \* names that carry the udp modifier
          WritableName,\* names of datarefs the simulator lets plugins write
          Getter,      \* connections whose client sends get as well as sub
          NoName       \* the name of an object that does not exist

ASSUME ClientFinite == IsFiniteSet(Client)
ASSUME NamesKnown   == Available \subseteq Name
ASSUME NoNameFresh  == NoName \notin Name

VARIABLES pc,        \* where the main thread is: xplane, update, events or crashed
          todo,      \* objects the range-for of the flight loop has still to visit
          serverUp,  \* m_server # nullptr
          phase,     \* life of each TcpClient
          subs,      \* m_subscribedRefs of each TcpClient
          conns,     \* objects whose changed signal is connected to the TcpClient
          m_refs,    \* the provider's registered objects
          refName,   \* name of each object, NoName when it is not allocated
          count,     \* _subscriberCount of each object
          oneShot    \* _unsubscribeAfterChange of each object

clientVars == <<phase, subs, conns>>
refVars    == <<m_refs, refName, count, oneShot>>
vars == <<pc, todo, serverUp, phase, subs, conns, m_refs, refName, count, oneShot>>

(***************************************************************************)
(* A connection is not yet made ("none"), connected ("open"), still        *)
(* executing buffered lines after its own disconnect line ("leaving"),     *)
(* waiting for its deferred deletion ("closed"), or "deleted".             *)
(***************************************************************************)
Phases == {"none", "open", "leaving", "closed", "deleted"}

Init ==
  /\ pc = "xplane" /\ todo = {} /\ serverUp = FALSE
  /\ phase = [c \in Client |-> "none"]
  /\ subs  = [c \in Client |-> {}]
  /\ conns = [c \in Client |-> {}]
  /\ m_refs = {}
  /\ refName = [o \in Obj |-> NoName]
  /\ count   = [o \in Obj |-> 0]
  /\ oneShot = [o \in Obj |-> FALSE]

Allocated == {o \in Obj : refName[o] # NoName}

\* Connections that execute a line only run while no readClient is unfinished.
Quiet == pc = "events" /\ \A c \in Client : phase[c] # "leaving"

\* readClient takes its next line for c: an open connection, or the one that
\* has seen its disconnect line and still has lines in the socket's buffer.
CanRead(c) ==
  /\ pc = "events"
  /\ phase[c] = "leaving" \/ (phase[c] = "open" /\ Quiet)

-----------------------------------------------------------------------------
(* The provider *)

\* Mutation of ProviderUnsubscribe: erases one subscriber too early.
ProviderUnsubscribe_Early(o, k) ==
  /\ count' = [count EXCEPT ![o] = @ - k]
  /\ m_refs' = IF count[o] <= k + 1 THEN m_refs \ {o} ELSE m_refs

\* unsubscribeRef of the provider, called k times for object o.
ProviderUnsubscribe(o, k) ==
  /\ count' = [count EXCEPT ![o] = @ - k]
  /\ m_refs' = IF count[o] = k THEN m_refs \ {o} ELSE m_refs

\* subscribeRef of the provider finds the object under its name ...
ProviderShare(o) ==
  /\ count' = [count EXCEPT ![o] = @ + 1]
  /\ UNCHANGED <<m_refs, refName>>

\* Mutation of ProviderCreate: the search for a registered object is forgotten.
ProviderCreate_NoSearch(o, n) ==
  /\ n \in Available /\ o \notin Allocated
  /\ count' = [count EXCEPT ![o] = 1]
  /\ refName' = [refName EXCEPT ![o] = n]
  /\ m_refs' = m_refs \cup {o}

\* ... or creates it.
ProviderCreate(o, n) ==
  /\ n \in Available
  /\ o \notin Allocated
  /\ \A p \in m_refs : refName[p] # n
  /\ count' = [count EXCEPT ![o] = 1]
  /\ refName' = [refName EXCEPT ![o] = n]
  /\ m_refs' = m_refs \cup {o}

-----------------------------------------------------------------------------
(* What a connection does with one line *)

\* The connection's own object of that name (getSubscribedRef).
HeldAs(c, n) == {o \in subs[c] : refName[o] = n}

\* TcpClient starts to hold o, and marks it when the line was a get.
Attach(c, o, get) ==
  /\ subs'  = [subs  EXCEPT ![c] = @ \cup {o}]
  /\ conns' = [conns EXCEPT ![c] = @ \cup {o}]
  /\ oneShot' = [oneShot EXCEPT ![o] = @ \/ get]

\* Mutation of SubscribeHeld: a repeated sub counts again.
SubscribeHeld_Counts(c, n, get) ==
  \E o \in HeldAs(c, n) :
    /\ ProviderShare(o)
    /\ oneShot' = [oneShot EXCEPT ![o] = @ \/ get]
    /\ UNCHANGED clientVars

SubscribeHeld(c, n, get) ==
  \E o \in HeldAs(c, n) :
    /\ oneShot' = [oneShot EXCEPT ![o] = @ \/ get]
    /\ UNCHANGED <<clientVars, m_refs, refName, count>>

SubscribeShared(c, n, get) ==
  /\ HeldAs(c, n) = {}
  /\ \E o \in m_refs :
       /\ refName[o] = n
       /\ ProviderShare(o)
       /\ Attach(c, o, get)
  /\ UNCHANGED phase

SubscribeNew(c, n, get) ==
  /\ HeldAs(c, n) = {}
  /\ \E o \in Obj :
       /\ ProviderCreate(o, n)
       /\ Attach(c, o, get)
  /\ UNCHANGED phase

\* sub and get: a name the simulator does not know changes nothing here.
Subscribe(c, n, get) ==
  /\ CanRead(c)
  /\ \/ SubscribeHeld(c, n, get)
     \/ SubscribeShared(c, n, get)
     \/ SubscribeNew(c, n, get)
  /\ UNCHANGED <<pc, todo, serverUp>>

\* Mutation of Detach: the changed signal stays connected.
Detach_KeepsSignal(D, o) ==
  /\ subs'  = [c \in Client |-> IF c \in D THEN subs[c] \ {o} ELSE subs[c]]
  /\ conns' = conns
  /\ ProviderUnsubscribe(o, Cardinality(D))

\* Connections D give up o: signal disconnected, count taken down, set element erased.
Detach(D, o) ==
  /\ subs'  = [c \in Client |-> IF c \in D THEN subs[c] \ {o} ELSE subs[c]]
  /\ conns' = [c \in Client |-> IF c \in D THEN conns[c] \ {o} ELSE conns[c]]
  /\ ProviderUnsubscribe(o, Cardinality(D))

Unsubscribe(c, n) ==
  /\ CanRead(c)
  /\ \E o \in HeldAs(c, n) : Detach({c}, o)
  /\ UNCHANGED <<pc, todo, serverUp, phase, refName, oneShot>>

(***************************************************************************)
(* One emission of DataRef::changed(o).  "heard" are the connections whose *)
(* refChanged gets past the UDP return and the accuracy test (module       *)
(* ValueUpdates has the test itself); each of them unsubscribes itself     *)
(* when the object is marked.                                              *)
(***************************************************************************)
Listeners(o) ==
  IF refName[o] \in UdpName THEN {} ELSE {c \in Client : o \in conns[c]}

\* Mutation of EmitChanged: every emission unsubscribes, marked or not.
EmitChanged_Always(o, heard) ==
  IF heard # {} THEN Detach(heard, o) ELSE UNCHANGED <<subs, conns, count, m_refs>>

EmitChanged(o, heard) ==
  IF oneShot[o] /\ heard # {}
    THEN Detach(heard, o)
    ELSE UNCHANGED <<subs, conns, count, m_refs>>

\* set: the object emits changed before the value goes to the simulator.
SetValue(c, n) ==
  /\ CanRead(c)
  /\ n \in WritableName
  /\ \E o \in HeldAs(c, n) : \E heard \in SUBSET Listeners(o) : EmitChanged(o, heard)
  /\ UNCHANGED <<pc, todo, serverUp, phase, refName, oneShot>>

-----------------------------------------------------------------------------
(* Connections come and go *)

ClientConnected(c) ==
  /\ Quiet /\ serverUp
  /\ phase[c] = "none"
  /\ phase' = [phase EXCEPT ![c] = "open"]
  /\ UNCHANGED <<pc, todo, serverUp, subs, conns, refVars>>

\* Mutation of Drain: the held set is not emptied, so a second disconnect drains again.
Drain_KeepsSet(D) ==
  LET left(o) == Cardinality({c \in D : o \in subs[c]})
  IN  /\ subs' = subs
      /\ count' = [o \in Obj |-> count[o] - left(o)]
      /\ m_refs' = {o \in m_refs : left(o) = 0 \/ count[o] # left(o)}

\* Mutation of Drain: the sets are emptied without telling the provider.
Drain_Silent(D) ==
  /\ subs' = [c \in Client |-> IF c \in D THEN {} ELSE subs[c]]
  /\ UNCHANGED <<count, m_refs>>

\* The loop of disconnectClient over the held objects, for all connections of D.
Drain(D) ==
  LET left(o) == Cardinality({c \in D : o \in subs[c]})
  IN  /\ subs'  = [c \in Client |-> IF c \in D THEN {} ELSE subs[c]]
      /\ count' = [o \in Obj |-> count[o] - left(o)]
      /\ m_refs' = {o \in m_refs : left(o) = 0 \/ count[o] # left(o)}

\* The disconnect line: readClient goes on with the lines that follow it.
DisconnectLine(c) ==
  /\ CanRead(c)
  /\ Drain({c})
  /\ conns' = [conns EXCEPT ![c] = @ \ subs[c]]
  /\ phase' = [phase EXCEPT ![c] = "leaving"]
  /\ UNCHANGED <<pc, todo, serverUp, refName, oneShot>>

EndOfLines(c) ==
  /\ pc = "events"
  /\ phase[c] = "leaving"
  /\ phase' = [phase EXCEPT ![c] = "closed"]
  /\ UNCHANGED <<pc, todo, serverUp, subs, conns, refVars>>

\* The socket reports disconnected, also after a disconnect line of the peer.
SocketDisconnected(c) ==
  /\ Quiet
  /\ phase[c] \in {"open", "closed"}
  /\ Drain({c})
  /\ conns' = [conns EXCEPT ![c] = @ \ subs[c]]
  /\ phase' = [phase EXCEPT ![c] = "closed"]
  /\ UNCHANGED <<pc, todo, serverUp, refName, oneShot>>

\* Deferred deletion of a TcpClient: Qt drops its connections, the destructor
\* unsubscribes nothing, so what it still holds (subs) stays counted.
DeleteClient(c) ==
  /\ Quiet
  /\ phase[c] = "closed"
  /\ phase' = [phase EXCEPT ![c] = "deleted"]
  /\ conns' = [conns EXCEPT ![c] = {}]
  /\ UNCHANGED <<pc, todo, serverUp, subs, refVars>>

\* Deferred deletion of a DataRef the provider has dropped.
DeleteRef(o) ==
  /\ Quiet
  /\ o \in Allocated \ m_refs
  /\ refName' = [refName EXCEPT ![o] = NoName]
  /\ count'   = [count EXCEPT ![o] = 0]
  /\ oneShot' = [oneShot EXCEPT ![o] = FALSE]
  /\ conns'   = [c \in Client |-> conns[c] \ {o}]
  /\ UNCHANGED <<pc, todo, serverUp, phase, subs, m_refs>>

-----------------------------------------------------------------------------
(* The flight loop and the plugin's life *)

FlightLoop ==
  /\ pc = "xplane"
  /\ pc' = "update"
  /\ todo' = m_refs
  /\ UNCHANGED <<serverUp, clientVars, refVars>>

(***************************************************************************)
(* updateDataRef(o) for the next object of the range-for over m_refs.      *)
(* When the emission erases o itself, the loop's iterator is invalid: its  *)
(* next step is undefined behaviour, and may crash or skip objects.        *)
(***************************************************************************)
UpdateRef(o) ==
  /\ pc = "update"
  /\ o \in todo
  /\ \E heard \in SUBSET Listeners(o) : EmitChanged(o, heard)
  /\ IF o \in m_refs'
       THEN pc' = pc /\ todo' = todo \ {o}
       ELSE \/ pc' = pc /\ todo' \in SUBSET (todo \ {o})
            \/ pc' = "crashed" /\ todo' = {}
  /\ UNCHANGED <<serverUp, phase, refName, oneShot>>

\* Mutation of ProcessEvents: events are handled while the loop over m_refs is running.
ProcessEvents_InLoop ==
  /\ pc = "update"
  /\ pc' = "events"
  /\ UNCHANGED <<todo, serverUp, clientVars, refVars>>

ProcessEvents ==
  /\ pc = "update" /\ todo = {}
  /\ pc' = "events"
  /\ UNCHANGED <<todo, serverUp, clientVars, refVars>>

FlightLoopReturns ==
  /\ Quiet
  /\ pc' = "xplane"
  /\ UNCHANGED <<todo, serverUp, clientVars, refVars>>

PluginEnable ==
  /\ pc = "xplane" /\ ~serverUp
  /\ serverUp' = TRUE
  /\ UNCHANGED <<pc, todo, clientVars, refVars>>

\* disconnectClients, then the server is deleted with its child TcpClients.
PluginDisable ==
  /\ pc = "xplane" /\ serverUp
  /\ serverUp' = FALSE
  /\ LET open == {c \in Client : phase[c] = "open"}
         kids == open \cup {c \in Client : phase[c] = "closed"}
     IN  /\ Drain(open)
         /\ phase' = [c \in Client |-> IF c \in kids THEN "deleted" ELSE phase[c]]
         /\ conns' = [c \in Client |-> IF c \in kids THEN {} ELSE conns[c]]
  /\ UNCHANGED <<pc, todo, refName, oneShot>>

ClientStep(c) ==
  \/ \E n \in Name, get \in BOOLEAN : (get => c \in Getter) /\ Subscribe(c, n, get)
  \/ \E n \in Name : Unsubscribe(c, n)
  \/ \E n \in Name : SetValue(c, n)
  \/ ClientConnected(c)
  \/ DisconnectLine(c)
  \/ EndOfLines(c)
  \/ SocketDisconnected(c)
  \/ DeleteClient(c)

Next ==
  \/ \E c \in Client : ClientStep(c)
  \/ \E o \in Obj : DeleteRef(o)
  \/ FlightLoop
  \/ \E o \in Obj : UpdateRef(o)
  \/ ProcessEvents
  \/ FlightLoopReturns
  \/ PluginEnable
  \/ PluginDisable

Spec == Init /\ [][Next]_vars
-----------------------------------------------------------------------------
(* Properties *)

\* Every variable has its type; a subscriber count is never negative, as
\* DataRef::setSubscriberCount asserts.
TypeOK ==
  /\ pc \in {"xplane", "update", "events", "crashed"}
  /\ todo \in SUBSET Obj
  /\ serverUp \in BOOLEAN
  /\ phase \in [Client -> Phases]
  /\ subs  \in [Client -> SUBSET Obj]
  /\ conns \in [Client -> SUBSET Obj]
  /\ m_refs \in SUBSET Obj
  /\ refName \in [Obj -> Name \cup {NoName}]
  /\ count \in [Obj -> Nat]
  /\ oneShot \in [Obj -> BOOLEAN]

Holders(o) == {c \in Client : o \in subs[c]}

\* The provider's count of a DataRef (XPlanePlugin::subscribeRef, unsubscribeRef)
\* is the number of TcpClients that hold it, dead ones included: through gets,
\* disconnects and emissions no subscription is counted twice or forgotten.
CountExact == \A o \in m_refs : count[o] = Cardinality(Holders(o))

\* A registered object has a subscriber: the erase at count zero in
\* XPlanePlugin::unsubscribeRef is never missed, so nothing is polled for nobody.
NothingPolledForNobody == \A o \in m_refs : Holders(o) # {}

\* An object somebody holds is registered with the provider, so it is polled and
\* the assertion of XPlanePlugin::unsubscribeRef that it knows the ref holds.
NoDanglingSubscription == \A c \in Client : subs[c] \subseteq m_refs

\* The two together: the provider polls exactly the objects somebody holds.
RegisteredIsHeld == m_refs = UNION {subs[c] : c \in Client}

\* XPlanePlugin::subscribeRef finds a registered object by its name, so everybody
\* subscribed to a name holds the same object, and getSubscribedRef is unambiguous.
OneObjectPerName ==
  \A c, d \in Client : \A o \in subs[c], p \in subs[d] :
    refName[o] = refName[p] => o = p

\* TcpClient::refChanged asserts that the ref it is called for is subscribed: the
\* signal of an object is connected to exactly the living connections that hold it.
ConnectedIffSubscribed ==
  \A c \in Client : conns[c] = IF phase[c] = "deleted" THEN {} ELSE subs[c]

\* The objects the flight loop has still to visit are registered: no object is
\* updated after its removal from the provider, and events never find a half-done loop.
LoopVisitsRegistered == todo \subseteq (IF pc = "update" THEN m_refs ELSE {})

\* A connection that stays open loses an unmarked object only by its own unsub: the
\* step takes it from nobody else and takes nothing else (TcpClient::unsubscribeRef;
\* the emission of TcpClient::refChanged unsubscribes from marked objects only).
OnlyOwnUnsub ==
  [][\A c \in Client : \A o \in subs[c] \ subs'[c] :
       phase'[c] = "open" /\ ~oneShot[o]
         => subs' = [subs EXCEPT ![c] = @ \ {o}] /\ pc = "events"]_vars

\* What the module promises the rest of the program (module SubscriptionService).
SubscribedNames == {cn \in Client \X Name : \E o \in subs[cn[1]] : refName[o] = cn[2]}

Service == INSTANCE SubscriptionService
             WITH subscribed <- SubscribedNames, polled <- {refName[o] : o \in m_refs}
ServiceSpec == Service!Spec

\* README: "get: Get dataref value once, then unsubscribe" is about the client that
\* sends it: a connection that sends no get keeps its subscriptions in a flight loop.
GetEndsOnlyItsOwn ==
  [][\A c \in Client \ Getter :
       pc = "update" /\ phase[c] = "open" => subs[c] \subseteq subs'[c]]_vars
=============================================================================
