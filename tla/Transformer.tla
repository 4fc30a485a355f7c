---------------------------- MODULE Transformer ----------------------------
(***************************************************************************)
(* The transformer: the plugin's TcpServer over the data of another        *)
(* simulator.  Its user chooses a data source, FlightGear or Condor; a     *)
(* switch disconnects the clients of the old source, deletes it with all   *)
(* its datarefs and listens again for the new one.  A source makes one     *)
(* FloatDataRef for each subscription of each client.  FlightGear must be  *)
(* asked for each property over TCP; Condor sends everything it has in     *)
(* UDP datagrams.                                                          *)
(*                                                                         *)
(* Everything runs on one thread; each action is one event handler, a line *)
(* of a client included.  What is asked of FlightGear is a number of       *)
(* subscriptions for each property, which end with its connection.         *)
(*                                                                         *)
(* Sources: extplane-transformer/extplanetransformer.cpp, extplane-        *)
(* transformer/datasources/, extplane-server/tcpserver.cpp and             *)
(* extplane-server/tcpclient.cpp.                                          *)
(***************************************************************************)
EXTENDS Integers, FiniteSets

CONSTANTS Client,     \* connections of the transformer's life, one TcpClient each
          Name,       \* datarefs some source supports
          FgNames,    \* those FlightGear supports
          CondorNames \* those Condor supports

ASSUME SupportAssumption == FgNames \subseteq Name /\ CondorNames \subseteq Name

VARIABLES m_dataSourceName,  \* "None", "FlightGear" or "Condor"
          listening,         \* the server listens
          phase,             \* life of each TcpClient, as in module Subscriptions
          gone,              \* TcpClients whose m_refProvider was deleted
          m_subscribedRefs,  \* names each TcpClient holds a ref of
          m_heldButtons,     \* TcpClients that have pressed a button
          floatRefs,         \* datarefs of the source: pairs of a TcpClient and a name
          fresh,             \* of them, those with a value of the simulator
          link,              \* "down" or "up": to FlightGear, or bound to Condor's port
          feed,              \* subscriptions FlightGear has for each name
          late,              \* history: pairs subscribed after the client's own end
          older,             \* history: names with a ref when the connection came up
          crashed            \* a deleted source or dataref was used

vars == <<m_dataSourceName, listening, phase, gone, m_subscribedRefs, m_heldButtons, floatRefs,
          fresh, link, feed, late, older, crashed>>
server == <<m_dataSourceName, listening>>
clients == <<phase, gone, m_subscribedRefs, m_heldButtons>>
fg == <<link, feed, older>>

Phases == {"none", "open", "leaving", "closed", "deleted"}
Sources == {"None", "FlightGear", "Condor"}

Supported == CASE m_dataSourceName = "FlightGear" -> FgNames
               [] m_dataSourceName = "Condor" -> CondorNames
               [] OTHER -> {}

RefsOf(n) == {r \in floatRefs : r[2] = n}
Held(c) == {r \in floatRefs : r[1] = c /\ r[2] \in m_subscribedRefs[c]}

Init ==
  /\ m_dataSourceName = "None"
  /\ listening = FALSE
  /\ phase = [c \in Client |-> "none"]
  /\ gone = {}
  /\ m_subscribedRefs = [c \in Client |-> {}]
  /\ m_heldButtons = {}
  /\ floatRefs = {} /\ fresh = {} /\ late = {} /\ older = {}
  /\ link = "down"
  /\ feed = [n \in Name |-> 0]
  /\ crashed = FALSE

\* No TcpClient is in the middle of its lines, which no other handler interrupts.
Quiet == ~crashed /\ \A c \in Client : phase[c] # "leaving"
CanRead(c) == ~crashed /\ (phase[c] = "leaving" \/ (phase[c] = "open" /\ Quiet))

-----------------------------------------------------------------------------
(* Clients *)

ClientConnected(c) ==
  /\ Quiet /\ listening
  /\ phase[c] = "none"
  /\ phase' = [phase EXCEPT ![c] = "open"]
  /\ UNCHANGED <<server, gone, m_subscribedRefs, m_heldButtons, floatRefs, fresh, fg, late, crashed>>

\* Mutation of FgAsked: the line that asks for a property is not written when another
\* client has asked for it before.
FgAsked_Once(n) ==
  feed' = IF m_dataSourceName = "FlightGear" /\ link = "up" /\ feed[n] = 0
            THEN [feed EXCEPT ![n] = @ + 1] ELSE feed

\* What FlightGear is asked for when n is subscribed: a line that is written without a
\* connection is lost.
FgAsked(n) ==
  feed' = IF m_dataSourceName = "FlightGear" /\ link = "up"
            THEN [feed EXCEPT ![n] = @ + 1] ELSE feed

\* sub: the source makes a new ref, unless it does not know the name.
Sub(c, n) ==
  /\ CanRead(c)
  /\ n \notin m_subscribedRefs[c]
  /\ n \in Supported
  /\ m_subscribedRefs' = [m_subscribedRefs EXCEPT ![c] = @ \cup {n}]
  /\ floatRefs' = floatRefs \cup {<<c, n>>}
  /\ late' = IF phase[c] = "leaving" THEN late \cup {<<c, n>>} ELSE late
  /\ FgAsked(n)
  /\ UNCHANGED <<server, phase, gone, m_heldButtons, fresh, link, older, crashed>>

\* Subscriptions FlightGear is left with after an unsubscribe line for each ref of R.
FgLeft(R) ==
  IF m_dataSourceName = "FlightGear" /\ link = "up"
    THEN [n \in Name |-> LET left == feed[n] - Cardinality({r \in R : r[2] = n})
                         IN  IF left < 0 THEN 0 ELSE left]
    ELSE feed

\* unsubscribeRef of the source for the refs R.
Released(R) ==
  /\ floatRefs' = floatRefs \ R
  /\ fresh' = fresh \ R
  /\ feed' = FgLeft(R)

Unsub(c, n) ==
  /\ CanRead(c)
  /\ n \in m_subscribedRefs[c]
  /\ m_subscribedRefs' = [m_subscribedRefs EXCEPT ![c] = @ \ {n}]
  /\ Released({<<c, n>>})
  /\ UNCHANGED <<server, phase, gone, m_heldButtons, link, older, late, crashed>>

Button(c) ==
  /\ CanRead(c)
  /\ m_heldButtons' = m_heldButtons \cup {c}
  /\ UNCHANGED <<server, phase, gone, m_subscribedRefs, floatRefs, fresh, fg, late, crashed>>

\* disconnectClient of one TcpClient whose source is there.
Disconnect(c, p) ==
  /\ m_subscribedRefs' = [m_subscribedRefs EXCEPT ![c] = {}]
  /\ Released(Held(c))
  /\ phase' = [phase EXCEPT ![c] = p]
  /\ UNCHANGED <<server, gone, m_heldButtons, link, older, late, crashed>>

DisconnectLine(c) == CanRead(c) /\ Disconnect(c, "leaving")

EndOfLines(c) ==
  /\ ~crashed
  /\ phase[c] = "leaving"
  /\ phase' = [phase EXCEPT ![c] = "closed"]
  /\ UNCHANGED <<server, gone, m_subscribedRefs, m_heldButtons, floatRefs, fresh, fg, late, crashed>>

\* Something the end of c's connection would ask of its source.
NeedsSource(c) == m_subscribedRefs[c] # {} \/ c \in m_heldButtons

SocketDisconnected(c) ==
  /\ Quiet
  /\ phase[c] \in {"open", "closed"}
  /\ c \in gone => ~NeedsSource(c)
  /\ Disconnect(c, "closed")

\* The end of the socket is reported to a TcpClient that waits for its deletion, after
\* its source was deleted.
SocketDisconnectedFails(c) ==
  /\ Quiet
  /\ phase[c] = "closed"
  /\ c \in gone /\ NeedsSource(c)
  /\ crashed' = TRUE
  /\ UNCHANGED <<server, clients, floatRefs, fresh, fg, late>>

\* Deferred deletion; refs of late lines stay with the source.
DeleteClient(c) ==
  /\ Quiet
  /\ phase[c] = "closed"
  /\ phase' = [phase EXCEPT ![c] = "deleted"]
  /\ m_subscribedRefs' = [m_subscribedRefs EXCEPT ![c] = {}]
  /\ m_heldButtons' = m_heldButtons \ {c}
  /\ UNCHANGED <<server, gone, floatRefs, fresh, fg, late, crashed>>

-----------------------------------------------------------------------------
(* The user *)

\* setDataRefProvider: the server listens while there is a source, unless it cannot.
Listens(s) == {FALSE, s # "None"}

\* connectToSource: Condor's port can be bound at once; FlightGear answers later.
LinkAfter(s) == {"down"} \cup (IF s = "Condor" THEN {"up"} ELSE {})

\* Mutation of Open: the clients are not disconnected from the old source.
Open_None == {}

\* Connections that disconnectClients ends.
Open == {c \in Client : phase[c] = "open"}

\* setDataSourceName: disconnectClients, the source is deleted, the server listens for
\* the new one if it can, and the source connects to its simulator.
SetDataSourceName(s) ==
  /\ Quiet
  /\ s # m_dataSourceName
  /\ m_dataSourceName' = s
  /\ listening' \in Listens(s)
  /\ phase' = [c \in Client |-> IF c \in Open THEN "closed" ELSE phase[c]]
  /\ m_subscribedRefs' = [c \in Client |-> IF c \in Open THEN {} ELSE m_subscribedRefs[c]]
  /\ gone' = gone \cup {c \in Client : phase[c] \in {"open", "closed"}}
  /\ floatRefs' = {} /\ fresh' = {} /\ older' = {}
  /\ link' \in LinkAfter(s)
  /\ feed' = [n \in Name |-> 0]
  /\ UNCHANGED <<m_heldButtons, late, crashed>>

-----------------------------------------------------------------------------
(* The simulator *)

\* connectedChanged: nothing is asked for again but "data", the format of the answers.
FgConnected ==
  /\ Quiet
  /\ m_dataSourceName = "FlightGear" /\ link = "down"
  /\ link' = "up"
  /\ feed' = [n \in Name |-> 0]
  /\ older' = {n \in Name : RefsOf(n) # {}}
  /\ UNCHANGED <<server, clients, floatRefs, fresh, late, crashed>>

\* The connection is lost; BasicTcpClient tries again.
FgLost ==
  /\ Quiet
  /\ m_dataSourceName = "FlightGear" /\ link = "up"
  /\ link' = "down"
  /\ feed' = [n \in Name |-> 0]
  /\ UNCHANGED <<server, clients, floatRefs, fresh, older, late, crashed>>

\* readLine: every ref of the property gets the value.
FgLine(n) ==
  /\ Quiet
  /\ m_dataSourceName = "FlightGear" /\ feed[n] > 0
  /\ fresh' = fresh \cup RefsOf(n)
  /\ UNCHANGED <<server, clients, floatRefs, fg, late, crashed>>

\* readPendingDatagrams, rxValue: a datagram that has a number for the parameter.
CondorDatagram(n) ==
  /\ Quiet
  /\ m_dataSourceName = "Condor" /\ link = "up"
  /\ n \in CondorNames
  /\ fresh' = fresh \cup RefsOf(n)
  /\ UNCHANGED <<server, clients, floatRefs, fg, late, crashed>>

Next ==
  \/ \E s \in Sources : SetDataSourceName(s)
  \/ FgConnected \/ FgLost
  \/ \E n \in Name : FgLine(n) \/ CondorDatagram(n)
  \/ \E c \in Client :
       \/ ClientConnected(c) \/ Button(c) \/ DisconnectLine(c) \/ EndOfLines(c)
       \/ SocketDisconnected(c) \/ SocketDisconnectedFails(c) \/ DeleteClient(c)
       \/ \E n \in Name : Sub(c, n) \/ Unsub(c, n)

Spec == Init /\ [][Next]_vars

-----------------------------------------------------------------------------
(* Properties *)

\* Every variable has its type; without a source there is nothing to listen for.
TypeOK ==
  /\ m_dataSourceName \in Sources
  /\ listening \in BOOLEAN /\ (listening => m_dataSourceName # "None")
  /\ phase \in [Client -> Phases]
  /\ gone \subseteq Client /\ m_heldButtons \subseteq Client
  /\ m_subscribedRefs \in [Client -> SUBSET Name]
  /\ floatRefs \subseteq Client \X Supported /\ fresh \subseteq floatRefs
  /\ late \subseteq Client \X Name /\ older \subseteq Name
  /\ link \in {"down", "up"}
  /\ feed \in [Name -> Nat]
  /\ crashed \in BOOLEAN

\* A source outlives whoever is served from it: no open connection has a deleted source,
\* each holds refs the source still has, and a source keeps no ref nobody holds but those
\* of lines that followed their connection's own disconnect line (setDataSourceName,
\* disconnectClient); and every variable has its type.
SourceOutlivesClients ==
  /\ TypeOK
  /\ \A c \in Client : phase[c] \in {"open", "leaving"} => c \notin gone
  /\ \A c \in Client \ gone : \A n \in m_subscribedRefs[c] : <<c, n>> \in floatRefs
  /\ \A c \in Client, n \in Name :
       <<c, n>> \in floatRefs => n \in m_subscribedRefs[c] \/ <<c, n>> \in late

\* FlightGear is asked for a property once for every ref there is of it, however clients
\* subscribe, unsubscribe and end - for names that had no ref when the connection came up.
AskedForEachRef ==
  m_dataSourceName = "FlightGear" /\ link = "up" =>
    \A n \in Name \ older : feed[n] = Cardinality(RefsOf(n))
=============================================================================
