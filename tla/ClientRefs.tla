----------------------------- MODULE ClientRefs -----------------------------
(***************************************************************************)
(* Who uses which ClientDataRef inside a client program: the QML DataRef   *)
(* elements, C++ code that calls ExtPlaneClient, the set of refs           *)
(* ExtPlaneClient keeps, and the map of names of each of its two           *)
(* connections, the real and the simulated one.  A ClientDataRef is shared *)
(* by name and counted; a count of zero dooms it, and its deletion, which  *)
(* the destroyed signal tells to everybody who ever connected to it,       *)
(* follows when control returns to the event loop.                         *)
(*                                                                         *)
(* Every action is one call from QML or C++, or one deferred deletion, on  *)
(* the program's one thread.  The module follows the program to its first  *)
(* use of freed memory or failed Q_ASSERT.  What the real connection       *)
(* writes to the plugin is the subject of ClientConnection.                *)
(*                                                                         *)
(* Sources: clients/extplane-client-qt/ dataref.cpp, extplaneclient.cpp,   *)
(* extplaneconnection.cpp, simulatedextplaneconnection.cpp,                *)
(* clientdataref.cpp.                                                      *)
(***************************************************************************)
EXTENDS Integers, FiniteSets

CONSTANTS Elem,            \* QML DataRef elements
          Caller,          \* C++ code that holds a ref it subscribed
          Name,            \* names of datarefs
          Obj,             \* memory a ClientDataRef can be given
          NoName, NoObj, Dangling,
          MaxSubscribers   \* bound on the count of one ClientDataRef

ASSUME SubscribersAssumption == MaxSubscribers \in Nat \ {0}
ASSUME UsersAreFinite        == IsFiniteSet(Elem) /\ IsFiniteSet(Caller)
ASSUME NonesAreNone          == /\ NoName \notin Name
                                /\ NoObj \notin Obj /\ Dangling \notin Obj /\ Dangling # NoObj

VARIABLES alive,            \* elements that exist
          m_name,           \* of each element
          m_clientDataRef,  \* of each element
          listens,          \* of each element: whose destroyed signal it is connected to
          held,             \* the ClientDataRef each C++ caller holds
          m_simulated,      \* of ExtPlaneClient: which connection is in use
          lib,              \* ClientDataRefs, names of each connection, ExtPlaneClient's set
          broken            \* freed memory was used, or an assertion failed

vars == <<alive, m_name, m_clientDataRef, listens, held, m_simulated, lib, broken>>
elements == <<alive, m_name, m_clientDataRef, listens>>

Free == [life |-> "free", name |-> NoName, simulated |-> FALSE, subscribers |-> 0]

Init ==
  /\ alive = {}
  /\ m_name = [e \in Elem |-> NoName]
  /\ m_clientDataRef = [e \in Elem |-> NoObj]
  /\ listens = [e \in Elem |-> {}]
  /\ held = [c \in Caller |-> NoObj]
  /\ m_simulated \in BOOLEAN
  /\ lib = [ref |-> [o \in Obj |-> Free],
            dataRefs |-> [b \in BOOLEAN |-> [n \in Name |-> NoObj]],
            m_dataRefs |-> {}]
  /\ broken = FALSE

-----------------------------------------------------------------------------
(* The connections *)

\* Mutation of Unsubscribed: the entry of the name stays when nobody uses the ref.
Unsubscribed_KeepsEntry(s, o) ==
  LET r == s.ref[o]
      left == r.subscribers - 1
  IN  [s EXCEPT !.ref[o] = [r EXCEPT !.subscribers = left,
                                     !.life = IF left > 0 THEN r.life ELSE "doomed"]]

\* unsubscribeDataRef of the connection that made o: without subscribers o is doomed,
\* and whatever stands under its name is erased.
Unsubscribed(s, o) ==
  LET r == s.ref[o]
      left == r.subscribers - 1
  IN  [s EXCEPT !.ref[o] = [r EXCEPT !.subscribers = left,
                                     !.life = IF left > 0 THEN r.life ELSE "doomed"],
                !.dataRefs[r.simulated][r.name] = IF left > 0 THEN @ ELSE NoObj]

\* The refs the connection b would return for the names N: those it has, and new ones.
Places(s, b, N) ==
  {f \in [N -> Obj] :
     /\ \A m, n \in N : f[m] = f[n] => m = n
     /\ \A n \in N : LET entry == s.dataRefs[b][n]
                     IN  IF entry = NoObj THEN s.ref[f[n]].life = "free" ELSE f[n] = entry}

\* Mutation of Subscribed: the count of a shared ref starts again at 1.
Subscribed_CountReset(s, b, f, k) ==
  [s EXCEPT
     !.ref = [o \in Obj |-> IF \E n \in DOMAIN f : f[n] = o
                              THEN LET n == CHOOSE n \in DOMAIN f : f[n] = o
                                   IN  [life |-> "live", name |-> n, simulated |-> b,
                                        subscribers |-> k[n]]
                              ELSE s.ref[o]],
     !.dataRefs[b] = [n \in Name |-> IF n \in DOMAIN f THEN f[n] ELSE @[n]],
     !.m_dataRefs = @ \cup {f[n] : n \in DOMAIN f}]

\* subscribeDataRef of the connection b and of ExtPlaneClient, k[n] times for each
\* name n of f.
Subscribed(s, b, f, k) ==
  [s EXCEPT
     !.ref = [o \in Obj |-> IF \E n \in DOMAIN f : f[n] = o
                              THEN LET n == CHOOSE n \in DOMAIN f : f[n] = o
                                   IN  [life |-> "live", name |-> n, simulated |-> b,
                                        subscribers |-> s.ref[o].subscribers + k[n]]
                              ELSE s.ref[o]],
     !.dataRefs[b] = [n \in Name |-> IF n \in DOMAIN f THEN f[n] ELSE @[n]],
     !.m_dataRefs = @ \cup {f[n] : n \in DOMAIN f}]

\* stopConnection of the simulated connection frees its refs at once and leaves their
\* entries in the map of names.
SimulationStopped(s) ==
  LET freed == {o \in Obj : s.ref[o].life = "live" /\ s.ref[o].simulated}
  IN  [s EXCEPT !.ref = [o \in Obj |-> IF o \in freed THEN Free ELSE @[o]],
                !.dataRefs[TRUE] = [n \in Name |-> IF @[n] \in freed THEN Dangling ELSE @[n]],
                !.m_dataRefs = @ \ freed]

Room(s) == \A o \in Obj : s.ref[o].subscribers <= MaxSubscribers

-----------------------------------------------------------------------------
(* QML DataRef elements *)

CreateElement(e) ==
  /\ ~broken
  /\ e \notin alive
  /\ alive' = alive \cup {e}
  /\ UNCHANGED <<m_name, m_clientDataRef, listens, held, m_simulated, lib, broken>>

\* What is left when e has let go of its ref.
Released(e) ==
  IF m_clientDataRef[e] = NoObj THEN lib ELSE Unsubscribed(lib, m_clientDataRef[e])

DestroyElement(e) ==
  /\ ~broken
  /\ e \in alive
  /\ alive' = alive \ {e}
  /\ m_name' = [m_name EXCEPT ![e] = NoName]
  /\ m_clientDataRef' = [m_clientDataRef EXCEPT ![e] = NoObj]
  /\ listens' = [listens EXCEPT ![e] = {}]
  /\ lib' = Released(e)
  /\ UNCHANGED <<held, m_simulated, broken>>

\* setName with an empty name.
ClearName(e) ==
  /\ ~broken
  /\ e \in alive /\ m_name[e] # NoName
  /\ m_name' = [m_name EXCEPT ![e] = NoName]
  /\ m_clientDataRef' = [m_clientDataRef EXCEPT ![e] = NoObj]
  /\ lib' = Released(e)
  /\ UNCHANGED <<alive, listens, held, m_simulated, broken>>

\* setName: the old ref is let go, but its signals stay connected; the new one is
\* subscribed and connected.
SetName(e, n) ==
  /\ ~broken
  /\ e \in alive /\ n # m_name[e]
  /\ \E f \in Places(Released(e), m_simulated, {n}) :
       /\ lib' = Subscribed(Released(e), m_simulated, f, [x \in {n} |-> 1])
       /\ m_clientDataRef' = [m_clientDataRef EXCEPT ![e] = f[n]]
       /\ listens' = [listens EXCEPT ![e] = @ \cup {f[n]}]
  /\ Room(lib')
  /\ m_name' = [m_name EXCEPT ![e] = n]
  /\ UNCHANGED <<alive, held, m_simulated, broken>>

\* The name leads to a ref the simulated connection has freed.
SetNameFails(e, n) ==
  /\ ~broken
  /\ e \in alive /\ n # m_name[e]
  /\ lib.dataRefs[m_simulated][n] = Dangling
  /\ broken' = TRUE
  /\ UNCHANGED <<elements, held, m_simulated, lib>>

-----------------------------------------------------------------------------
(* C++ code over ExtPlaneClient *)

CppSubscribe(c, n) ==
  /\ ~broken
  /\ held[c] = NoObj
  /\ \E f \in Places(lib, m_simulated, {n}) :
       /\ lib' = Subscribed(lib, m_simulated, f, [x \in {n} |-> 1])
       /\ held' = [held EXCEPT ![c] = f[n]]
  /\ Room(lib')
  /\ UNCHANGED <<elements, m_simulated, broken>>

CppSubscribeFails(c, n) ==
  /\ ~broken
  /\ held[c] = NoObj
  /\ lib.dataRefs[m_simulated][n] = Dangling
  /\ broken' = TRUE
  /\ UNCHANGED <<elements, held, m_simulated, lib>>

\* The refs of ExtPlaneClient's set unsubscribeDataRef may meet first for the one c holds.
SameName(c) == {o \in lib.m_dataRefs : lib.ref[o].name = lib.ref[held[c]].name}

\* unsubscribeDataRef of ExtPlaneClient goes by name, not by the ref it is given.
CppUnsubscribe(c) ==
  /\ ~broken
  /\ held[c] # NoObj
  /\ \E o \in SameName(c) :
       /\ lib.ref[o].life = "live"
       /\ lib' = Unsubscribed([lib EXCEPT !.m_dataRefs = @ \ {o}], o)
  /\ held' = [held EXCEPT ![c] = NoObj]
  /\ UNCHANGED <<elements, m_simulated, broken>>

\* The set has no such ref, Q_ASSERT(false), or one that is doomed already, whose count
\* goes below zero, Q_ASSERT(sub >= 0).
CppUnsubscribeFails(c) ==
  /\ ~broken
  /\ held[c] # NoObj
  /\ SameName(c) = {} \/ \E o \in SameName(c) : lib.ref[o].life = "doomed"
  /\ broken' = TRUE
  /\ UNCHANGED <<elements, held, m_simulated, lib>>

-----------------------------------------------------------------------------
(* Switching the connection *)

\* Every ref of ExtPlaneClient's set is unsubscribed once.
AllUnsubscribed ==
  LET emptied == {o \in lib.m_dataRefs : lib.ref[o].subscribers <= 1}
  IN  [ref |-> [o \in Obj |-> IF o \in lib.m_dataRefs
                                THEN [lib.ref[o] EXCEPT !.subscribers = @ - 1,
                                        !.life = IF o \in emptied THEN "doomed" ELSE @]
                                ELSE lib.ref[o]],
       dataRefs |-> [lib.dataRefs EXCEPT ![m_simulated] =
                       [n \in Name |-> IF \E o \in emptied : lib.ref[o].name = n
                                         THEN NoObj ELSE @[n]]],
       m_dataRefs |-> {}]

\* Both connections after the switch, before the elements subscribe again.
Switched == IF m_simulated THEN SimulationStopped(AllUnsubscribed) ELSE AllUnsubscribed

\* Elements that subscribe again, by name.
Named(n) == {e \in alive : m_name[e] = n}

\* Names that are subscribed again after a switch.
NamesInUse == {n \in Name : Named(n) # {}}

\* setSimulated: every ref is unsubscribed, elements forget theirs and subscribe the
\* names again; C++ code that holds a ref forgets it, too.
SetSimulated ==
  /\ ~broken
  /\ \A o \in lib.m_dataRefs : lib.ref[o].life = "live"
  /\ m_simulated' = ~m_simulated
  /\ \E f \in Places(Switched, ~m_simulated, NamesInUse) :
       /\ lib' = Subscribed(Switched, ~m_simulated, f,
                            [n \in NamesInUse |-> Cardinality(Named(n))])
       /\ m_clientDataRef' = [e \in Elem |-> IF m_name[e] \in NamesInUse THEN f[m_name[e]]
                                                                       ELSE NoObj]
       /\ listens' = [e \in Elem |-> {o \in listens[e] : Switched.ref[o].life # "free"}
                                       \cup ({m_clientDataRef'[e]} \cap Obj)]
  /\ Room(lib')
  /\ held' = [c \in Caller |-> NoObj]
  /\ UNCHANGED <<alive, m_name, broken>>

\* The set still has a doomed ref, whose count goes below zero, or an element's name
\* leads to a ref that was freed at an earlier switch.
SetSimulatedFails ==
  /\ ~broken
  /\ \/ \E o \in lib.m_dataRefs : lib.ref[o].life = "doomed"
     \/ \E n \in NamesInUse : Switched.dataRefs[~m_simulated][n] = Dangling
  /\ broken' = TRUE
  /\ UNCHANGED <<elements, held, m_simulated, lib>>

-----------------------------------------------------------------------------
(* Deferred deletion *)

\* The destroyed signal of o: ExtPlaneClient forgets o, and every element that was ever
\* connected to o forgets the ref it has now, whichever that is.
DeleteRef(o) ==
  /\ ~broken
  /\ lib.ref[o].life = "doomed"
  /\ lib' = [lib EXCEPT !.ref[o] = Free, !.m_dataRefs = @ \ {o}]
  /\ m_clientDataRef' = [e \in Elem |-> IF o \in listens[e] THEN NoObj ELSE m_clientDataRef[e]]
  /\ listens' = [e \in Elem |-> listens[e] \ {o}]
  /\ UNCHANGED <<alive, m_name, held, m_simulated, broken>>

Next ==
  \/ SetSimulated \/ SetSimulatedFails
  \/ \E o \in Obj : DeleteRef(o)
  \/ \E c \in Caller : \/ CppUnsubscribe(c) \/ CppUnsubscribeFails(c)
                       \/ \E n \in Name : CppSubscribe(c, n) \/ CppSubscribeFails(c, n)
  \/ \E e \in Elem : \/ CreateElement(e) \/ DestroyElement(e) \/ ClearName(e)
                     \/ \E n \in Name : SetName(e, n) \/ SetNameFails(e, n)

Spec == Init /\ [][Next]_vars

-----------------------------------------------------------------------------
(* Properties *)

Users(o) == Cardinality({e \in Elem : m_clientDataRef[e] = o})
            + Cardinality({c \in Caller : held[c] = o})

Refs == [life : {"free", "live", "doomed"}, name : Name \cup {NoName},
         simulated : BOOLEAN, subscribers : Nat]
Libs == [ref : [Obj -> Refs],
         dataRefs : [BOOLEAN -> [Name -> Obj \cup {NoObj, Dangling}]],
         m_dataRefs : SUBSET Obj]

\* What stands under a name of the connection b: nothing, a live ref of that name and that
\* connection, or what the simulated connection has freed.
EntrySound(s, b, n) ==
  LET o == s.dataRefs[b][n]
  IN  \/ o = NoObj
      \/ o = Dangling /\ b
      \/ o \in Obj /\ s.ref[o].life = "live" /\ s.ref[o].name = n /\ s.ref[o].simulated = b

\* Every variable has its type, and the names of a connection lead to its own live refs.
TypeOK ==
  /\ alive \subseteq Elem
  /\ m_name \in [Elem -> Name \cup {NoName}]
  /\ m_clientDataRef \in [Elem -> Obj \cup {NoObj}]
  /\ listens \in [Elem -> SUBSET Obj]
  /\ held \in [Caller -> Obj \cup {NoObj}]
  /\ m_simulated \in BOOLEAN /\ broken \in BOOLEAN
  /\ lib \in Libs
  /\ \A b \in BOOLEAN, n \in Name : EntrySound(lib, b, n)

\* Whatever elements and C++ code do with shared refs, renames and switches in between,
\* nobody is left with a deleted or doomed ref, or one of another name or of the
\* connection that is not in use (DataRef::m_clientDataRef is a bare pointer); nor has
\* ExtPlaneClient's set, which setSimulated and unsubscribeDataRef walk through, a ref that
\* was deleted or is of the other connection.
UsedIsLive ==
  /\ \A o \in lib.m_dataRefs : lib.ref[o].life # "free" /\ lib.ref[o].simulated = m_simulated
  /\ \A e \in Elem : m_clientDataRef[e] # NoObj =>
       LET r == lib.ref[m_clientDataRef[e]]
       IN  r.life = "live" /\ r.name = m_name[e] /\ r.simulated = m_simulated
  /\ \A c \in Caller : held[c] # NoObj =>
       lib.ref[held[c]].life = "live" /\ lib.ref[held[c]].simulated = m_simulated

\* A live ref counts at least its users, so no user's unsubscribe takes it from another
\* (setSubscribers).
CountCoversUsers == \A o \in Obj : lib.ref[o].life = "live" => lib.ref[o].subscribers >= Users(o)

\* An element that shows a ref goes on showing one until its name is cleared or it is
\* destroyed, whatever other elements and C++ code do with that ref, or it does itself by
\* renaming, and over switches - but for one case: a ref it had before, to whose destroyed
\* signal it is still connected, is deleted late (DataRef::setName, clientRefDestroyed,
\* ExtPlaneClient::setSimulated).
RefIsKept ==
  [][\A e \in Elem : m_clientDataRef[e] # NoObj /\ m_clientDataRef'[e] = NoObj =>
       \/ m_name'[e] = NoName
       \/ \E o \in listens[e] \ {m_clientDataRef[e]} :
            lib.ref[o].life = "doomed" /\ lib'.ref[o].life = "free"]_vars
=============================================================================
