------------------------- MODULE TransformerProofs -------------------------
(***************************************************************************)
(* Proofs about module Transformer, for any connections and datarefs.      *)
(*                                                                         *)
(* That a source outlives whom it serves is not inductive.  A switch of    *)
(* the source ends open connections only, so that one that has not begun   *)
(* or was deleted must hold nothing (IdleHoldNothing), and a dataref       *)
(* nobody holds must be a late one wherever its TcpClient is in its life   *)
(* (LateOnly).  That FlightGear is asked for each dataref needs to know    *)
(* that a TcpClient that can subscribe never has a dataref left from       *)
(* before (OrphansAreDeleted): a second one of the same name would be      *)
(* asked for, but not be a new one.                                        *)
(***************************************************************************)
EXTENDS Transformer, FiniteSetTheorems, TLAPS

\* TcpClients without their source wait for their deletion or are deleted.
GoneHaveEnded == \A c \in gone : phase[c] \in {"closed", "deleted"}

\* TcpClients that have not begun or are deleted hold nothing.
IdleHoldNothing == \A c \in Client : phase[c] \in {"none", "deleted"} => m_subscribedRefs[c] = {}

\* What a TcpClient holds after its disconnect line was subscribed late.
LateOnly ==
  \A c \in Client : phase[c] \in {"leaving", "closed"} =>
    \A n \in m_subscribedRefs[c] : <<c, n>> \in late

\* A ref whose TcpClient does not hold it has lost its TcpClient.
OrphansAreDeleted ==
  \A c \in Client, n \in Name :
    <<c, n>> \in floatRefs => n \in m_subscribedRefs[c] \/ phase[c] = "deleted"

\* The parts about clients and their source, and all of the inductive invariant.
ClientInv ==
  SourceOutlivesClients /\ GoneHaveEnded /\ IdleHoldNothing /\ LateOnly /\ OrphansAreDeleted

IInv == ClientInv /\ IsFiniteSet(floatRefs) /\ AskedForEachRef

-----------------------------------------------------------------------------
(* What FlightGear is asked for *)

\* A source supports only names there are.
LEMMA SupportedAreNames == Supported \subseteq Name
  BY SupportAssumption DEF Supported

\* The refs of a name are finitely many.
LEMMA RefsOfFinite ==
  ASSUME IsFiniteSet(floatRefs), NEW n
  PROVE  IsFiniteSet(RefsOf(n)) /\ Cardinality(RefsOf(n)) \in Nat
<1>1. RefsOf(n) \in SUBSET floatRefs
  BY DEF RefsOf
<1>2. IsFiniteSet(RefsOf(n))
  BY <1>1, FS_Subset
<1>3. QED
  BY <1>2, FS_CardinalityType

\* A new ref is one more to ask for.
LEMMA AskStep ==
  ASSUME TypeOK, IsFiniteSet(floatRefs), AskedForEachRef,
         NEW c \in Client, NEW n \in Name, <<c, n>> \notin floatRefs,
         floatRefs' = floatRefs \cup {<<c, n>>}, FgAsked(n),
         UNCHANGED <<m_dataSourceName, link, older>>
  PROVE  /\ IsFiniteSet(floatRefs') /\ AskedForEachRef'
         /\ feed' \in [Name -> Nat]
<1>1. IsFiniteSet(floatRefs')
  BY FS_AddElement
<1>2. feed' \in [Name -> Nat]
  BY DEF FgAsked, TypeOK
<1>3. ASSUME m_dataSourceName = "FlightGear", link = "up", NEW m \in Name \ older
      PROVE  feed'[m] = Cardinality(RefsOf(m)')
  <2>1. feed' = [feed EXCEPT ![n] = @ + 1] /\ feed[m] = Cardinality(RefsOf(m))
    BY <1>3 DEF FgAsked, AskedForEachRef
  <2>2. CASE m = n
    <3>1. RefsOf(m)' = RefsOf(m) \cup {<<c, n>>} /\ <<c, n>> \notin RefsOf(m)
      BY <2>2 DEF RefsOf
    <3>2. Cardinality(RefsOf(m)') = Cardinality(RefsOf(m)) + 1
      BY <3>1, RefsOfFinite, FS_AddElement
    <3>3. QED
      BY <2>1, <2>2, <3>2 DEF TypeOK
  <2>3. CASE m # n
    <3>1. RefsOf(m)' = RefsOf(m)
      BY <2>3 DEF RefsOf
    <3>2. QED
      BY <2>1, <2>3, <3>1 DEF TypeOK
  <2>4. QED
    BY <2>2, <2>3
<1>4. QED
  BY <1>1, <1>2, <1>3 DEF AskedForEachRef

\* Each ref that is released takes one subscription with it.
LEMMA ReleaseStep ==
  ASSUME TypeOK, IsFiniteSet(floatRefs), AskedForEachRef,
         NEW R \in SUBSET floatRefs, Released(R),
         UNCHANGED <<m_dataSourceName, link, older>>
  PROVE  /\ IsFiniteSet(floatRefs') /\ AskedForEachRef'
         /\ feed' \in [Name -> Nat]
<1> DEFINE Of(n) == {r \in R : r[2] = n}
<1>1. IsFiniteSet(R) /\ IsFiniteSet(floatRefs')
  BY FS_Subset, FS_Difference DEF Released
<1>2. ASSUME NEW n PROVE IsFiniteSet(Of(n)) /\ Cardinality(Of(n)) \in Nat
  <2>1. Of(n) \in SUBSET R
    OBVIOUS
  <2>2. IsFiniteSet(Of(n))
    BY <1>1, <2>1, FS_Subset
  <2>3. QED
    BY <2>2, FS_CardinalityType
<1>3. ASSUME NEW n
      PROVE  Cardinality(RefsOf(n)') = Cardinality(RefsOf(n)) - Cardinality(Of(n))
  <2>1. RefsOf(n)' = RefsOf(n) \ R /\ RefsOf(n) \cap R = Of(n)
    BY DEF Released, RefsOf
  <2>2. IsFiniteSet(RefsOf(n))
    BY RefsOfFinite
  <2> HIDE DEF Of
  <2>3. QED
    BY <2>1, <2>2, FS_Difference
<1>4. feed' = IF m_dataSourceName = "FlightGear" /\ link = "up"
                THEN [n \in Name |-> IF feed[n] - Cardinality(Of(n)) < 0 THEN 0
                                     ELSE feed[n] - Cardinality(Of(n))]
                ELSE feed
  BY DEF Released, FgLeft
<1> HIDE DEF Of
<1>5. feed' \in [Name -> Nat]
  <2>1. \A n \in Name : feed[n] \in Nat /\ Cardinality(Of(n)) \in Nat
    BY <1>2 DEF TypeOK
  <2>2. CASE m_dataSourceName = "FlightGear" /\ link = "up"
    BY <1>4, <2>1, <2>2
  <2>3. CASE ~(m_dataSourceName = "FlightGear" /\ link = "up")
    BY <1>4, <2>3 DEF TypeOK
  <2>4. QED
    BY <2>2, <2>3
<1>6. ASSUME m_dataSourceName = "FlightGear", link = "up", NEW n \in Name \ older
      PROVE  feed'[n] = Cardinality(RefsOf(n)')
  <2>1. feed[n] = Cardinality(RefsOf(n))
    BY <1>6 DEF AskedForEachRef
  <2>2. IsFiniteSet(RefsOf(n)') /\ Cardinality(RefsOf(n)') \in Nat
    <3>1. RefsOf(n)' \in SUBSET floatRefs'
      BY DEF RefsOf
    <3>2. QED
      BY <1>1, <3>1, FS_Subset, FS_CardinalityType
  <2>3. QED
    BY <1>2, <1>3, <1>4, <1>6, <2>1, <2>2
<1>7. QED
  BY <1>1, <1>5, <1>6 DEF AskedForEachRef

-----------------------------------------------------------------------------
(* Clients and their source *)

\* TcpClients come, read their lines and are deleted.
LEMMA ClientStep ==
  ASSUME IInv, NEW c \in Client,
         \/ ClientConnected(c) \/ Button(c) \/ EndOfLines(c)
         \/ SocketDisconnectedFails(c) \/ DeleteClient(c)
  PROVE  IInv'
<1> USE DEF IInv, ClientInv, SourceOutlivesClients, TypeOK, GoneHaveEnded, IdleHoldNothing,
            LateOnly, OrphansAreDeleted, Phases, fg, server, clients
<1>1. UNCHANGED <<floatRefs, m_dataSourceName, link, older, feed>>
  BY DEF ClientConnected, Button, EndOfLines, SocketDisconnectedFails, DeleteClient
<1>2. IsFiniteSet(floatRefs') /\ AskedForEachRef'
  BY <1>1 DEF AskedForEachRef, RefsOf
<1>3. Supported' = Supported
  BY <1>1 DEF Supported
<1>4. ClientInv'
  <2>1. CASE ClientConnected(c)
    BY <1>3, <2>1 DEF ClientConnected
  <2>2. CASE Button(c)
    BY <1>3, <2>2 DEF Button
  <2>3. CASE EndOfLines(c)
    BY <1>3, <2>3 DEF EndOfLines
  <2>4. CASE SocketDisconnectedFails(c)
    BY <1>3, <2>4 DEF SocketDisconnectedFails
  <2>5. CASE DeleteClient(c)
    BY <1>3, <2>5 DEF DeleteClient
  <2>6. QED
    BY <2>1, <2>2, <2>3, <2>4, <2>5
<1>5. QED
  BY <1>2, <1>4

\* sub
LEMMA SubStep ==
  ASSUME IInv, NEW c \in Client, NEW n \in Name, Sub(c, n)
  PROVE  IInv'
<1> USE DEF IInv, ClientInv, SourceOutlivesClients
<1>1. phase[c] \in {"open", "leaving"} /\ n \notin m_subscribedRefs[c]
  BY DEF Sub, CanRead
<1>2. <<c, n>> \notin floatRefs
  BY <1>1 DEF OrphansAreDeleted
<1>3. IsFiniteSet(floatRefs') /\ AskedForEachRef' /\ feed' \in [Name -> Nat]
  BY <1>2, AskStep DEF Sub, server
<1>4. TypeOK'
  <2>1. Supported' = Supported
    BY DEF Sub, Supported, server
  <2>2. QED
    BY <1>3, <2>1 DEF Sub, TypeOK, server
<1>5. ClientInv'
  BY <1>1, <1>4 DEF Sub, TypeOK, GoneHaveEnded, IdleHoldNothing, LateOnly, OrphansAreDeleted
<1>6. QED
  BY <1>3, <1>5

\* unsub: the ref is there to be released.
LEMMA UnsubStep ==
  ASSUME IInv, NEW c \in Client, NEW n \in Name, Unsub(c, n)
  PROVE  IInv'
<1> USE DEF IInv, ClientInv, SourceOutlivesClients
<1>1. phase[c] \in {"open", "leaving"} /\ n \in m_subscribedRefs[c]
  BY DEF Unsub, CanRead
<1>2. {<<c, n>>} \in SUBSET floatRefs
  BY <1>1
<1>3. IsFiniteSet(floatRefs') /\ AskedForEachRef' /\ feed' \in [Name -> Nat]
  BY <1>2, ReleaseStep DEF Unsub, server
<1>4. TypeOK'
  <2>1. Supported' = Supported
    BY DEF Unsub, Supported, server
  <2>2. QED
    BY <1>3, <2>1 DEF Unsub, Released, TypeOK, server
<1>5. ClientInv'
  BY <1>1, <1>4 DEF Unsub, Released, TypeOK, GoneHaveEnded, IdleHoldNothing, LateOnly,
                    OrphansAreDeleted
<1>6. QED
  BY <1>3, <1>5

\* disconnectClient: everything the TcpClient holds is released.
LEMMA DisconnectStep ==
  ASSUME IInv, NEW c \in Client, DisconnectLine(c) \/ SocketDisconnected(c)
  PROVE  IInv'
<1> USE DEF IInv, ClientInv, SourceOutlivesClients
<1>1. PICK p \in {"leaving", "closed"} :
        /\ Disconnect(c, p)
        /\ p = "leaving" => phase[c] \in {"open", "leaving"}
        /\ phase[c] \in {"open", "leaving", "closed"}
  BY DEF DisconnectLine, SocketDisconnected, CanRead
<1>2. Held(c) \in SUBSET floatRefs
  BY DEF Held
<1>3. IsFiniteSet(floatRefs') /\ AskedForEachRef' /\ feed' \in [Name -> Nat]
  BY <1>1, <1>2, ReleaseStep DEF Disconnect, server
<1>4. TypeOK'
  <2>1. Supported' = Supported
    BY <1>1 DEF Disconnect, Supported, server
  <2>2. QED
    BY <1>1, <1>3, <2>1 DEF Disconnect, Released, TypeOK, server, Phases
<1>5. ASSUME NEW d \in Client, NEW n \in Name
      PROVE  <<d, n>> \in floatRefs' <=> /\ <<d, n>> \in floatRefs
                                        /\ ~(d = c /\ n \in m_subscribedRefs[c])
  BY <1>1 DEF Disconnect, Released, Held
<1>6. /\ m_subscribedRefs' = [m_subscribedRefs EXCEPT ![c] = {}]
      /\ phase' = [phase EXCEPT ![c] = p]
      /\ late' = late /\ gone' = gone
  BY <1>1 DEF Disconnect
<1>7. ClientInv'
  BY <1>1, <1>4, <1>5, <1>6 DEF TypeOK, GoneHaveEnded, IdleHoldNothing, LateOnly,
     OrphansAreDeleted
<1>8. QED
  BY <1>3, <1>7

\* The user switches the source: nothing is left of the old one.
LEMMA SwitchStep ==
  ASSUME IInv, NEW s \in Sources, SetDataSourceName(s)
  PROVE  IInv'
<1> USE DEF IInv, ClientInv, SourceOutlivesClients
<1>1. floatRefs' = {} /\ feed' = [n \in Name |-> 0] /\ late' = late
  BY DEF SetDataSourceName
<1>2. IsFiniteSet(floatRefs') /\ AskedForEachRef'
  <2>1. \A n : RefsOf(n)' = {}
    BY <1>1 DEF RefsOf
  <2>2. QED
    BY <1>1, <2>1, FS_EmptySet DEF AskedForEachRef
<1>3. TypeOK'
  <2>1. listening' \in BOOLEAN /\ (listening' => m_dataSourceName' # "None")
    BY Zenon DEF SetDataSourceName, Listens
  <2>2. link' \in {"down", "up"}
    BY DEF SetDataSourceName, LinkAfter
  <2>3. /\ phase' \in [Client -> Phases] /\ m_subscribedRefs' \in [Client -> SUBSET Name]
        /\ gone' \subseteq Client /\ fresh' = {} /\ older' = {}
        /\ m_dataSourceName' \in Sources
        /\ UNCHANGED <<m_heldButtons, crashed>>
    BY DEF SetDataSourceName, TypeOK, Phases
  <2>4. QED
    BY <1>1, <2>1, <2>2, <2>3 DEF TypeOK
<1>4. \A c \in Client : phase[c] \in {"none", "open", "closed", "deleted"}
  BY DEF SetDataSourceName, Quiet, TypeOK, Phases
<1>5. /\ phase' = [c \in Client |-> IF phase[c] = "open" THEN "closed" ELSE phase[c]]
      /\ m_subscribedRefs' = [c \in Client |-> IF phase[c] = "open" THEN {} ELSE m_subscribedRefs[c]]
      /\ gone' = gone \cup {c \in Client : phase[c] \in {"open", "closed"}}
  BY DEF SetDataSourceName, Open
<1>6. ClientInv'
  BY <1>1, <1>3, <1>4, <1>5 DEF TypeOK, GoneHaveEnded, IdleHoldNothing, LateOnly, OrphansAreDeleted
<1>7. QED
  BY <1>2, <1>6

\* The simulator connects, is lost and sends values.
LEMMA SimulatorStep ==
  ASSUME IInv, FgConnected \/ FgLost \/ \E n \in Name : FgLine(n) \/ CondorDatagram(n)
  PROVE  IInv'
<1> USE DEF IInv, ClientInv, SourceOutlivesClients
<1>1. UNCHANGED <<m_dataSourceName, listening, phase, gone, m_subscribedRefs, m_heldButtons,
                  floatRefs, late, crashed>>
  BY DEF FgConnected, FgLost, FgLine, CondorDatagram, server, clients
<1>2. Supported' = Supported
  BY <1>1 DEF Supported
<1>3. fresh' \subseteq floatRefs
  BY DEF FgConnected, FgLost, FgLine, CondorDatagram, RefsOf, TypeOK
<1>4. link' \in {"down", "up"} /\ feed' \in [Name -> Nat] /\ older' \subseteq Name
  BY DEF FgConnected, FgLost, FgLine, CondorDatagram, fg, TypeOK
<1>5. TypeOK'
  BY <1>1, <1>2, <1>3, <1>4 DEF TypeOK
<1>6. ClientInv'
  BY <1>1, <1>5 DEF GoneHaveEnded, IdleHoldNothing, LateOnly, OrphansAreDeleted
<1>7. AskedForEachRef'
  <2>1. CASE FgConnected
    <3>1. feed' = [n \in Name |-> 0] /\ older' = {n \in Name : RefsOf(n) # {}}
      BY <2>1 DEF FgConnected
    <3>2. \A n \in Name \ older' : RefsOf(n)' = {}
      BY <1>1, <3>1 DEF RefsOf
    <3>3. QED
      BY <3>1, <3>2, FS_EmptySet DEF AskedForEachRef
  <2>2. CASE FgLost
    BY <2>2 DEF FgLost, AskedForEachRef
  <2>3. CASE \E n \in Name : FgLine(n) \/ CondorDatagram(n)
    BY <1>1, <2>3 DEF FgLine, CondorDatagram, fg, AskedForEachRef, RefsOf
  <2>4. QED
    BY <2>1, <2>2, <2>3
<1>8. QED
  BY <1>1, <1>6, <1>7

-----------------------------------------------------------------------------
(* The theorems *)

\* The initial state: there is no source and nobody is connected.
LEMMA InitIInv == Init => IInv
<1> SUFFICES ASSUME Init PROVE IInv
  OBVIOUS
<1>1. ClientInv
  BY DEF Init, ClientInv, SourceOutlivesClients, TypeOK, GoneHaveEnded, IdleHoldNothing, LateOnly,
         OrphansAreDeleted, Sources, Phases
<1>2. AskedForEachRef
  BY DEF Init, AskedForEachRef
<1>3. IsFiniteSet(floatRefs)
  BY FS_EmptySet DEF Init
<1>4. QED
  BY <1>1, <1>2, <1>3 DEF IInv

\* The inductive invariant holds in every reachable state.
THEOREM TransformerInvariance == Spec => []IInv
<1>1. IInv /\ UNCHANGED vars => IInv'
  BY DEF vars, IInv, ClientInv, SourceOutlivesClients, TypeOK, Supported, GoneHaveEnded,
         IdleHoldNothing, LateOnly, OrphansAreDeleted, AskedForEachRef, RefsOf
<1>2. IInv /\ [Next]_vars => IInv'
  BY <1>1, ClientStep, SubStep, UnsubStep, DisconnectStep, SwitchStep, SimulatorStep DEF Next
<1>3. QED
  BY InitIInv, <1>2, PTL DEF Spec

\* No connection that is served has a deleted source, its refs are refs of the source,
\* and the source keeps no others but late ones.
THEOREM SourceOutlives == Spec => []SourceOutlivesClients
  BY TransformerInvariance, PTL DEF IInv, ClientInv

\* FlightGear has one subscription for every ref of a name that had none when the
\* connection came up.
THEOREM EachRefIsAskedFor == Spec => []AskedForEachRef
  BY TransformerInvariance, PTL DEF IInv
=============================================================================
