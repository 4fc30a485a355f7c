------------------------ MODULE SubscriptionsProofs ------------------------
(***************************************************************************)
(* Proofs about module Subscriptions, for every set of connections, names  *)
(* and objects.                                                            *)
(***************************************************************************)
EXTENDS Subscriptions, FiniteSetTheorems, TLAPS

\* A registered object carries a name of the simulator, and no other registered
\* object carries it.
Registered ==
  /\ \A o \in m_refs : refName[o] \in Available
  /\ \A o, p \in m_refs : refName[o] = refName[p] => o = p

\* What relates the holders of objects to the provider's books.
Books ==
  /\ CountExact
  /\ NothingPolledForNobody
  /\ NoDanglingSubscription

\* The inductive invariant.
IInv ==
  /\ TypeOK
  /\ Books
  /\ Registered
  /\ ConnectedIffSubscribed
  /\ LoopVisitsRegistered

-----------------------------------------------------------------------------
(* Finite sets *)

LEMMA CardinalityOfRest ==
  ASSUME NEW S, NEW T, IsFiniteSet(S), T \subseteq S
  PROVE  /\ IsFiniteSet(S \ T)
         /\ Cardinality(S) \in Nat /\ Cardinality(T) \in Nat
         /\ Cardinality(S \ T) = Cardinality(S) - Cardinality(T)
         /\ Cardinality(S) = Cardinality(T) <=> S \ T = {}
         /\ Cardinality(T) = 0 <=> T = {}
<1>1. IsFiniteSet(T) /\ (Cardinality(S) = Cardinality(T) => S = T)
  BY FS_Subset
<1>2. Cardinality(S) \in Nat /\ Cardinality(T) \in Nat
  BY <1>1, FS_CardinalityType
<1>3. IsFiniteSet(S \ T) /\ Cardinality(S \ T) = Cardinality(S) - Cardinality(S \cap T)
  BY <1>1, FS_Difference
<1>4. S \cap T = T
  OBVIOUS
<1>5. Cardinality(T) = 0 <=> T = {}
  BY <1>1, FS_EmptySet
<1>6. S \ T = {} => S = T
  OBVIOUS
<1> QED
  BY <1>1, <1>2, <1>3, <1>4, <1>5, <1>6

LEMMA HoldersFinite ==
  ASSUME NEW o
  PROVE  IsFiniteSet(Holders(o)) /\ Cardinality(Holders(o)) \in Nat
<1>1. Holders(o) \in SUBSET Client
  BY DEF Holders
<1> QED
  BY <1>1, FS_Subset, FS_CardinalityType, ClientFinite

-----------------------------------------------------------------------------
(* Leaving: the connections L[o] give up object o, for all objects at once.  *)
(* unsub, an answered get, disconnect and shutdown are all of this form.     *)

LEMMA LeavingKeepsBooks ==
  ASSUME TypeOK, Books,
         NEW L \in [Obj -> SUBSET Client],
         \A o \in Obj : L[o] \subseteq Holders(o),
         subs' \in [Client -> SUBSET Obj],
         \A c \in Client : subs'[c] = {o \in subs[c] : c \notin L[o]},
         count' \in [Obj -> Int],
         \A o \in Obj : count'[o] = count[o] - Cardinality(L[o]),
         m_refs' = {o \in m_refs : L[o] = {} \/ count[o] # Cardinality(L[o])}
  PROVE  Books' /\ m_refs' \subseteq m_refs /\ count' \in [Obj -> Nat]
<1>1. ASSUME NEW o \in m_refs
      PROVE  /\ Holders(o)' = Holders(o) \ L[o]
             /\ count'[o] = Cardinality(Holders(o)')
             /\ o \in m_refs' <=> Holders(o)' # {}
  <2>1. o \in Obj
    BY DEF TypeOK
  <2>2. Holders(o)' = Holders(o) \ L[o]
    BY <2>1 DEF Holders, TypeOK
  <2>3. IsFiniteSet(Holders(o)) /\ L[o] \subseteq Holders(o)
    BY <2>1, HoldersFinite
  <2> DEFINE H == Holders(o)
             K == L[o]
  <2>4. /\ Cardinality(H) \in Nat /\ Cardinality(K) \in Nat
        /\ Cardinality(H \ K) = Cardinality(H) - Cardinality(K)
        /\ Cardinality(H) = Cardinality(K) <=> H \ K = {}
        /\ Cardinality(K) = 0 <=> K = {}
    <3>1. IsFiniteSet(H) /\ K \subseteq H
      BY <2>3
    <3> HIDE DEF H, K
    <3> QED
      BY <3>1, CardinalityOfRest
  <2>5. count[o] = Cardinality(Holders(o)) /\ Holders(o) # {}
    BY DEF Books, CountExact, NothingPolledForNobody
  <2>6. count'[o] = Cardinality(Holders(o)')
    BY <2>1, <2>2, <2>4, <2>5
  <2>7. o \in m_refs' <=> Holders(o)' # {}
    BY <2>2, <2>4, <2>5
  <2> QED
    BY <2>2, <2>6, <2>7
<1>2. m_refs' \subseteq m_refs
  OBVIOUS
<1>3. CountExact'
  BY <1>1, <1>2 DEF CountExact, Holders
<1>4. NothingPolledForNobody'
  BY <1>1, <1>2 DEF NothingPolledForNobody, Holders
<1>5. NoDanglingSubscription'
  <2> SUFFICES ASSUME NEW c \in Client, NEW o \in subs'[c]
               PROVE  o \in m_refs'
    BY DEF NoDanglingSubscription
  <2>1. o \in subs[c] /\ o \in m_refs
    BY DEF Books, NoDanglingSubscription
  <2>2. c \in Holders(o)'
    BY DEF Holders
  <2> QED
    BY <1>1, <2>1, <2>2
<1>6. ASSUME NEW o \in Obj PROVE count'[o] \in Nat
  <2>1. CASE o \in m_refs
    <3>1. count'[o] = Cardinality(Holders(o)') /\ Holders(o)' \in SUBSET Client
      BY <1>1, <2>1 DEF Holders
    <3> QED
      BY <3>1, FS_Subset, FS_CardinalityType, ClientFinite
  <2>2. CASE o \notin m_refs
    <3>1. Holders(o) = {}
      BY <2>2 DEF Books, NoDanglingSubscription, Holders
    <3>2. L[o] = {}
      BY <3>1
    <3>3. Cardinality(L[o]) = 0 /\ count[o] \in Nat
      BY <3>2, FS_EmptySet DEF TypeOK
    <3> QED
      BY <3>3
  <2> QED
    BY <2>1, <2>2
<1>7. count' \in [Obj -> Nat]
  BY <1>6
<1> QED
  BY <1>2, <1>3, <1>4, <1>5, <1>7 DEF Books

LEMMA DetachKeeps ==
  ASSUME IInv, NEW o \in m_refs, NEW D, D \subseteq Holders(o), Detach(D, o),
         refName' = refName, phase' = phase
  PROVE  /\ Books' /\ m_refs' \subseteq m_refs
         /\ subs' \in [Client -> SUBSET Obj] /\ conns' \in [Client -> SUBSET Obj]
         /\ count' \in [Obj -> Nat]
         /\ ConnectedIffSubscribed'
<1> DEFINE L == [p \in Obj |-> IF p = o THEN D ELSE {}]
<1>1. o \in Obj /\ D \subseteq Client
  BY DEF IInv, TypeOK, Holders
<1>2. subs' \in [Client -> SUBSET Obj] /\ conns' \in [Client -> SUBSET Obj]
  BY DEF Detach, IInv, TypeOK
<1>3. IsFiniteSet(D) /\ Cardinality(D) \in Nat /\ (Cardinality(D) = 0 <=> D = {})
  BY <1>1, ClientFinite, FS_Subset, FS_CardinalityType, FS_EmptySet
<1>4. count' \in [Obj -> Int]
  BY <1>3 DEF Detach, ProviderUnsubscribe, IInv, TypeOK
<1>5. L \in [Obj -> SUBSET Client] /\ \A p \in Obj : L[p] \subseteq Holders(p)
  BY <1>1
<1>6. \A c \in Client : subs'[c] = {p \in subs[c] : c \notin L[p]}
  <2> SUFFICES ASSUME NEW c \in Client
               PROVE  subs'[c] = {p \in subs[c] : c \notin L[p]}
    OBVIOUS
  <2>1. subs[c] \subseteq Obj
    BY DEF IInv, TypeOK
  <2>2. subs'[c] = IF c \in D THEN subs[c] \ {o} ELSE subs[c]
    BY DEF Detach
  <2> QED
    BY <2>1, <2>2
<1>7. Cardinality({}) = 0
  BY FS_EmptySet
<1>8. \A p \in Obj : count'[p] = count[p] - Cardinality(L[p])
  <2> SUFFICES ASSUME NEW p \in Obj
               PROVE  count'[p] = count[p] - Cardinality(L[p])
    OBVIOUS
  <2>1. count \in [Obj -> Nat]
    BY DEF IInv, TypeOK
  <2>2. CASE p = o
    BY <2>1, <2>2, <1>3 DEF Detach, ProviderUnsubscribe
  <2>3. CASE p # o
    BY <2>1, <2>3, <1>7 DEF Detach, ProviderUnsubscribe
  <2> QED
    BY <2>2, <2>3
<1>9. m_refs' = {p \in m_refs : L[p] = {} \/ count[p] # Cardinality(L[p])}
  <2>1. m_refs \subseteq Obj
    BY DEF IInv, TypeOK
  <2>2. count[o] # 0
    <3>1. count[o] = Cardinality(Holders(o)) /\ Holders(o) # {}
      BY DEF IInv, Books, CountExact, NothingPolledForNobody
    <3>2. Cardinality(Holders(o)) # 0
      BY <3>1, HoldersFinite, FS_EmptySet
    <3> QED
      BY <3>1, <3>2
  <2>3. m_refs' = IF count[o] = Cardinality(D) THEN m_refs \ {o} ELSE m_refs
    BY DEF Detach, ProviderUnsubscribe
  <2> QED
    BY <2>1, <2>2, <2>3, <1>3
<1>10. Books' /\ m_refs' \subseteq m_refs /\ count' \in [Obj -> Nat]
  <2> HIDE DEF L
  <2> QED
    BY <1>2, <1>4, <1>5, <1>6, <1>8, <1>9, LeavingKeepsBooks DEF IInv
<1>11. ConnectedIffSubscribed'
  <2> SUFFICES ASSUME NEW c \in Client
               PROVE  conns'[c] = IF phase[c] = "deleted" THEN {} ELSE subs'[c]
    BY DEF ConnectedIffSubscribed
  <2>1. conns[c] = IF phase[c] = "deleted" THEN {} ELSE subs[c]
    BY DEF IInv, ConnectedIffSubscribed
  <2> QED
    BY <2>1 DEF Detach
<1> QED
  BY <1>2, <1>10, <1>11

LEMMA DrainKeeps ==
  ASSUME IInv, NEW D, D \subseteq Client, Drain(D)
  PROVE  /\ Books' /\ m_refs' \subseteq m_refs
         /\ subs' \in [Client -> SUBSET Obj]
         /\ count' \in [Obj -> Nat]
<1> DEFINE L == [o \in Obj |-> {c \in D : o \in subs[c]}]
<1>1. subs' \in [Client -> SUBSET Obj]
  BY DEF Drain, IInv, TypeOK
<1>2. L \in [Obj -> SUBSET Client] /\ \A p \in Obj : L[p] \subseteq Holders(p)
  BY DEF Holders
<1>3. \A o \in Obj : Cardinality(L[o]) \in Nat /\ (Cardinality(L[o]) = 0 <=> L[o] = {})
  <2> SUFFICES ASSUME NEW o \in Obj
               PROVE  Cardinality(L[o]) \in Nat /\ (Cardinality(L[o]) = 0 <=> L[o] = {})
    OBVIOUS
  <2>1. L[o] \in SUBSET Client
    BY <1>2
  <2> HIDE DEF L
  <2> QED
    BY <2>1, ClientFinite, FS_Subset, FS_CardinalityType, FS_EmptySet
<1>4. \A o \in Obj : count'[o] = count[o] - Cardinality(L[o])
  BY DEF Drain
<1>5. m_refs' = {o \in m_refs : L[o] = {} \/ count[o] # Cardinality(L[o])}
  <2>1. m_refs' = {o \in m_refs : \/ Cardinality({c \in D : o \in subs[c]}) = 0
                                  \/ count[o] # Cardinality({c \in D : o \in subs[c]})}
    BY DEF Drain
  <2>2. \A o \in m_refs : L[o] = {c \in D : o \in subs[c]}
    BY DEF IInv, TypeOK
  <2>3. \A o \in m_refs : Cardinality(L[o]) = 0 <=> L[o] = {}
    BY <1>3 DEF IInv, TypeOK
  <2> QED
    BY <2>1, <2>2, <2>3
<1>6. count' \in [Obj -> Int]
  <2>1. \A o \in Obj : Cardinality({c \in D : o \in subs[c]}) \in Nat
    BY <1>3
  <2> QED
    BY <2>1 DEF Drain, IInv, TypeOK
<1>7. \A c \in Client : subs'[c] = {o \in subs[c] : c \notin L[o]}
  <2> SUFFICES ASSUME NEW c \in Client
               PROVE  subs'[c] = {o \in subs[c] : c \notin L[o]}
    OBVIOUS
  <2>1. subs[c] \subseteq Obj
    BY DEF IInv, TypeOK
  <2>2. subs'[c] = IF c \in D THEN {} ELSE subs[c]
    BY DEF Drain
  <2> QED
    BY <2>1, <2>2
<1>8. Books' /\ m_refs' \subseteq m_refs /\ count' \in [Obj -> Nat]
  <2> HIDE DEF L
  <2> QED
    BY <1>1, <1>2, <1>4, <1>5, <1>6, <1>7, LeavingKeepsBooks DEF IInv
<1> QED
  BY <1>1, <1>8

-----------------------------------------------------------------------------
(* Joining: connection c starts to hold object o. *)

LEMMA JoiningKeepsBooks ==
  ASSUME IInv, NEW c \in Client, NEW o \in Obj, c \notin Holders(o),
         subs' = [subs EXCEPT ![c] = @ \cup {o}],
         m_refs' = m_refs \cup {o},
         count'[o] = Cardinality(Holders(o)) + 1,
         \A p \in m_refs \ {o} : count'[p] = count[p]
  PROVE  Books' /\ subs' \in [Client -> SUBSET Obj]
<1>1. \A d \in Client : subs'[d] = IF d = c THEN subs[d] \cup {o} ELSE subs[d]
  BY DEF IInv, TypeOK
<1>2. Holders(o)' = Holders(o) \cup {c}
  BY <1>1 DEF Holders
<1>3. \A p : p # o => Holders(p)' = Holders(p)
  BY <1>1 DEF Holders
<1>4. count'[o] = Cardinality(Holders(o)')
  BY <1>2, HoldersFinite, FS_AddElement
<1>5. CountExact'
  <2> SUFFICES ASSUME NEW p \in m_refs'
               PROVE  count'[p] = Cardinality(Holders(p)')
    BY DEF CountExact, Holders
  <2>1. CASE p = o
    BY <2>1, <1>4
  <2>2. CASE p # o
    BY <2>2, <1>3 DEF IInv, Books, CountExact
  <2> QED
    BY <2>1, <2>2
<1>6. NothingPolledForNobody'
  <2> SUFFICES ASSUME NEW p \in m_refs'
               PROVE  Holders(p)' # {}
    BY DEF NothingPolledForNobody, Holders
  <2>1. CASE p = o
    BY <2>1, <1>2
  <2>2. CASE p # o
    BY <2>2, <1>3 DEF IInv, Books, NothingPolledForNobody
  <2> QED
    BY <2>1, <2>2
<1>7. NoDanglingSubscription'
  BY <1>1 DEF IInv, Books, NoDanglingSubscription
<1> QED
  BY <1>5, <1>6, <1>7 DEF IInv, TypeOK, Books

-----------------------------------------------------------------------------
(* One lemma per group of actions *)

\* A registered object is allocated: NoName is no name of the simulator.
LEMMA RegisteredAllocated ==
  ASSUME IInv
  PROVE  m_refs \subseteq Allocated
BY NamesKnown, NoNameFresh DEF IInv, TypeOK, Registered, Allocated

LEMMA SubscribeKeepsIInv ==
  ASSUME IInv, NEW c \in Client, NEW n \in Name, NEW get \in BOOLEAN, Subscribe(c, n, get)
  PROVE  IInv'
<1> USE DEF Subscribe
<1>1. phase[c] # "deleted"
  BY DEF CanRead
<1>2. ASSUME phase' = phase,
             subs' \in [Client -> SUBSET Obj], conns' \in [Client -> SUBSET Obj],
             m_refs' \in SUBSET Obj, refName' \in [Obj -> Name \cup {NoName}],
             count' \in [Obj -> Nat], oneShot' \in [Obj -> BOOLEAN]
      PROVE  TypeOK'
  BY <1>2 DEF IInv, TypeOK
<1>3. CASE SubscribeHeld(c, n, get)
  <2>1. oneShot' \in [Obj -> BOOLEAN]
    BY <1>3 DEF SubscribeHeld, IInv, TypeOK
  <2>2. UNCHANGED <<pc, todo, phase, subs, conns, m_refs, refName, count>>
    BY <1>3 DEF SubscribeHeld, clientVars
  <2> QED
    BY <1>2, <2>1, <2>2 DEF IInv, TypeOK, Books, CountExact, NothingPolledForNobody,
         NoDanglingSubscription, Registered, ConnectedIffSubscribed,
         LoopVisitsRegistered, Holders
<1>4. ASSUME NEW o \in Obj, HeldAs(c, n) = {}, Attach(c, o, get), phase' = phase,
             c \notin Holders(o), m_refs' = m_refs \cup {o},
             count'[o] = Cardinality(Holders(o)) + 1,
             \A p \in m_refs \ {o} : count'[p] = count[p],
             count' \in [Obj -> Nat],
             refName' \in [Obj -> Name \cup {NoName}],
             Registered'
      PROVE  IInv'
  <2>1. subs' = [subs EXCEPT ![c] = @ \cup {o}]
    BY <1>4 DEF Attach
  <2>2. Books' /\ subs' \in [Client -> SUBSET Obj]
    BY <1>4, <2>1, JoiningKeepsBooks
  <2>3. oneShot' \in [Obj -> BOOLEAN] /\ conns' \in [Client -> SUBSET Obj]
    BY <1>4 DEF Attach, IInv, TypeOK
  <2>4. TypeOK'
    BY <1>2, <1>4, <2>2, <2>3 DEF IInv, TypeOK
  <2>5. ConnectedIffSubscribed'
    BY <1>1, <1>4 DEF Attach, IInv, TypeOK, ConnectedIffSubscribed
  <2>6. LoopVisitsRegistered'
    BY <1>4 DEF IInv, LoopVisitsRegistered
  <2> QED
    BY <1>4, <2>2, <2>4, <2>5, <2>6 DEF IInv
<1>5. CASE SubscribeShared(c, n, get)
  <2>1. PICK o \in m_refs : refName[o] = n /\ ProviderShare(o) /\ Attach(c, o, get)
    BY <1>5 DEF SubscribeShared
  <2>2. HeldAs(c, n) = {} /\ phase' = phase
    BY <1>5 DEF SubscribeShared
  <2>3. o \in Obj /\ c \notin Holders(o) /\ m_refs' = m_refs \cup {o}
    BY <2>1, <2>2 DEF IInv, TypeOK, Holders, HeldAs, ProviderShare
  <2>4. count' = [count EXCEPT ![o] = @ + 1] /\ refName' = refName /\ m_refs' = m_refs
    BY <2>1 DEF ProviderShare
  <2>5. count[o] = Cardinality(Holders(o))
    BY DEF IInv, Books, CountExact
  <2>6. /\ count'[o] = Cardinality(Holders(o)) + 1
        /\ \A p \in m_refs \ {o} : count'[p] = count[p]
        /\ count' \in [Obj -> Nat]
    BY <2>3, <2>4, <2>5 DEF IInv, TypeOK
  <2>7. Registered' /\ refName' \in [Obj -> Name \cup {NoName}]
    BY <2>4 DEF IInv, TypeOK, Registered
  <2> QED
    BY <1>4, <2>1, <2>2, <2>3, <2>6, <2>7
<1>6. CASE SubscribeNew(c, n, get)
  <2>1. PICK o \in Obj : ProviderCreate(o, n) /\ Attach(c, o, get)
    BY <1>6 DEF SubscribeNew
  <2>2. HeldAs(c, n) = {} /\ phase' = phase
    BY <1>6 DEF SubscribeNew
  <2>3. o \notin m_refs
    BY <2>1, RegisteredAllocated DEF ProviderCreate
  <2>4. Holders(o) = {}
    BY <2>3 DEF IInv, Books, NoDanglingSubscription, Holders
  <2>5. /\ count'[o] = Cardinality(Holders(o)) + 1
        /\ \A p \in m_refs \ {o} : count'[p] = count[p]
        /\ count' \in [Obj -> Nat]
    BY <2>1, <2>4, FS_EmptySet DEF ProviderCreate, IInv, TypeOK
  <2>6. refName' \in [Obj -> Name \cup {NoName}] /\ m_refs' = m_refs \cup {o}
    BY <2>1 DEF ProviderCreate, IInv, TypeOK
  <2>7. Registered'
    BY <2>1, <2>3 DEF ProviderCreate, IInv, TypeOK, Registered
  <2> QED
    BY <1>4, <2>1, <2>2, <2>4, <2>5, <2>6, <2>7
<1> QED
  BY <1>3, <1>5, <1>6

LEMMA UnsubscribeKeepsIInv ==
  ASSUME IInv, NEW c \in Client, NEW n \in Name, Unsubscribe(c, n)
  PROVE  IInv'
<1>1. PICK o \in HeldAs(c, n) : Detach({c}, o)
  BY DEF Unsubscribe
<1>2. o \in m_refs /\ {c} \subseteq Holders(o)
  BY <1>1 DEF HeldAs, Holders, IInv, Books, NoDanglingSubscription
<1>3. refName' = refName /\ phase' = phase /\ UNCHANGED <<pc, todo, serverUp, oneShot>>
  BY DEF Unsubscribe
<1>4. /\ Books' /\ m_refs' \subseteq m_refs
      /\ subs' \in [Client -> SUBSET Obj] /\ conns' \in [Client -> SUBSET Obj]
      /\ count' \in [Obj -> Nat] /\ ConnectedIffSubscribed'
  BY <1>1, <1>2, <1>3, DetachKeeps
<1>5. TypeOK'
  BY <1>3, <1>4 DEF IInv, TypeOK
<1>6. Registered'
  BY <1>3, <1>4 DEF IInv, Registered
<1>7. LoopVisitsRegistered'
  BY <1>3 DEF Unsubscribe, CanRead, IInv, LoopVisitsRegistered
<1> QED
  BY <1>4, <1>5, <1>6, <1>7 DEF IInv

\* One emission keeps everything but the loop's own bookkeeping.
LEMMA EmissionKeeps ==
  ASSUME IInv, NEW o \in m_refs, NEW heard \in SUBSET Listeners(o),
         EmitChanged(o, heard), UNCHANGED <<phase, refName, oneShot>>
  PROVE  /\ Books' /\ Registered' /\ ConnectedIffSubscribed' /\ m_refs' \subseteq m_refs
         /\ subs' \in [Client -> SUBSET Obj] /\ conns' \in [Client -> SUBSET Obj]
         /\ m_refs' \in SUBSET Obj /\ refName' \in [Obj -> Name \cup {NoName}]
         /\ count' \in [Obj -> Nat] /\ phase' \in [Client -> Phases]
         /\ oneShot' \in [Obj -> BOOLEAN]
<1>1. heard \subseteq Holders(o)
  BY DEF Listeners, Holders, IInv, ConnectedIffSubscribed
<1>2. /\ Books' /\ ConnectedIffSubscribed' /\ m_refs' \subseteq m_refs
      /\ subs' \in [Client -> SUBSET Obj] /\ conns' \in [Client -> SUBSET Obj]
      /\ count' \in [Obj -> Nat]
  <2>1. CASE Detach(heard, o)
    BY <1>1, <2>1, DetachKeeps
  <2>2. CASE UNCHANGED <<subs, conns, count, m_refs>>
    BY <2>2 DEF IInv, TypeOK, Books, CountExact, NothingPolledForNobody,
         NoDanglingSubscription, ConnectedIffSubscribed, Holders
  <2> QED
    BY <2>1, <2>2 DEF EmitChanged
<1>3. Registered'
  BY <1>2 DEF IInv, Registered
<1> QED
  BY <1>2, <1>3 DEF IInv, TypeOK

LEMMA SetValueKeepsIInv ==
  ASSUME IInv, NEW c \in Client, NEW n \in Name, SetValue(c, n)
  PROVE  IInv'
<1>1. PICK o \in HeldAs(c, n) : \E heard \in SUBSET Listeners(o) : EmitChanged(o, heard)
  BY DEF SetValue
<1>2. o \in m_refs
  BY <1>1 DEF HeldAs, IInv, Books, NoDanglingSubscription
<1>3. UNCHANGED <<pc, todo, serverUp, phase, refName, oneShot>> /\ pc = "events"
  BY DEF SetValue, CanRead
<1>4. LoopVisitsRegistered'
  BY <1>3 DEF IInv, LoopVisitsRegistered
<1>5. TypeOK' /\ Books' /\ Registered' /\ ConnectedIffSubscribed'
  BY <1>1, <1>2, <1>3, EmissionKeeps DEF IInv, TypeOK
<1> QED
  BY <1>4, <1>5 DEF IInv

LEMMA UpdateRefKeepsIInv ==
  ASSUME IInv, NEW o \in Obj, UpdateRef(o)
  PROVE  IInv'
<1>1. PICK heard \in SUBSET Listeners(o) : EmitChanged(o, heard)
  BY DEF UpdateRef
<1>2. o \in m_refs /\ o \in todo /\ todo \subseteq m_refs /\ pc = "update"
  BY DEF UpdateRef, IInv, LoopVisitsRegistered
<1>3. UNCHANGED <<serverUp, phase, refName, oneShot>>
  BY DEF UpdateRef
<1>4. /\ Books' /\ Registered' /\ ConnectedIffSubscribed' /\ m_refs' \subseteq m_refs
      /\ subs' \in [Client -> SUBSET Obj] /\ conns' \in [Client -> SUBSET Obj]
      /\ m_refs' \in SUBSET Obj /\ refName' \in [Obj -> Name \cup {NoName}]
      /\ count' \in [Obj -> Nat] /\ phase' \in [Client -> Phases]
      /\ oneShot' \in [Obj -> BOOLEAN]
  BY <1>1, <1>2, <1>3, EmissionKeeps
<1>5. \A p \in m_refs : p # o => p \in m_refs'
  BY <1>1 DEF EmitChanged, Detach, ProviderUnsubscribe
<1>6. pc' \in {"update", "crashed"} /\ todo' \subseteq todo \ {o}
      /\ (pc' = "crashed" => todo' = {})
  BY <1>2 DEF UpdateRef
<1>7. LoopVisitsRegistered'
  BY <1>2, <1>5, <1>6 DEF LoopVisitsRegistered
<1>8. TypeOK'
  BY <1>3, <1>4, <1>6 DEF IInv, TypeOK
<1> QED
  BY <1>4, <1>7, <1>8 DEF IInv

\* A connection ends: its loop over the held refs, then a new phase.
LEMMA EndKeepsIInv ==
  ASSUME IInv, NEW c \in Client, NEW p \in Phases \ {"deleted"},
         phase[c] # "deleted", Drain({c}),
         conns' = [conns EXCEPT ![c] = @ \ subs[c]],
         phase' = [phase EXCEPT ![c] = p], pc = "events",
         UNCHANGED <<pc, todo, serverUp, refName, oneShot>>
  PROVE  IInv'
<1>1. /\ Books' /\ m_refs' \subseteq m_refs
      /\ subs' \in [Client -> SUBSET Obj] /\ count' \in [Obj -> Nat]
  BY DrainKeeps
<1>2. TypeOK'
  BY <1>1 DEF IInv, TypeOK
<1>3. Registered'
  BY <1>1 DEF IInv, Registered
<1>4. ConnectedIffSubscribed'
  <2> SUFFICES ASSUME NEW d \in Client
               PROVE  conns'[d] = IF phase'[d] = "deleted" THEN {} ELSE subs'[d]
    BY DEF ConnectedIffSubscribed
  <2>1. conns[d] = IF phase[d] = "deleted" THEN {} ELSE subs[d]
    BY DEF IInv, ConnectedIffSubscribed
  <2>2. subs'[d] = IF d = c THEN {} ELSE subs[d]
    BY DEF Drain
  <2>3. conns'[d] = IF d = c THEN conns[d] \ subs[d] ELSE conns[d]
    BY DEF IInv, TypeOK
  <2>4. phase'[d] = IF d = c THEN p ELSE phase[d]
    BY DEF IInv, TypeOK
  <2> QED
    BY <2>1, <2>2, <2>3, <2>4
<1>5. LoopVisitsRegistered'
  BY DEF IInv, LoopVisitsRegistered
<1> QED
  BY <1>1, <1>2, <1>3, <1>4, <1>5 DEF IInv

LEMMA PluginDisableKeepsIInv ==
  ASSUME IInv, PluginDisable
  PROVE  IInv'
<1> DEFINE open == {c \in Client : phase[c] = "open"}
           kids == open \cup {c \in Client : phase[c] = "closed"}
<1>1. /\ Drain(open)
      /\ phase' = [c \in Client |-> IF c \in kids THEN "deleted" ELSE phase[c]]
      /\ conns' = [c \in Client |-> IF c \in kids THEN {} ELSE conns[c]]
      /\ serverUp' = FALSE /\ pc = "xplane"
      /\ UNCHANGED <<pc, todo, refName, oneShot>>
  BY DEF PluginDisable
<1>2. /\ Books' /\ m_refs' \subseteq m_refs
      /\ subs' \in [Client -> SUBSET Obj] /\ count' \in [Obj -> Nat]
  <2>1. open \subseteq Client
    OBVIOUS
  <2> HIDE DEF open
  <2> QED
    BY <1>1, <2>1, DrainKeeps
<1>3. TypeOK'
  BY <1>1, <1>2 DEF IInv, TypeOK, Phases
<1>4. Registered'
  BY <1>1, <1>2 DEF IInv, Registered
<1>5. ConnectedIffSubscribed'
  <2> SUFFICES ASSUME NEW d \in Client
               PROVE  conns'[d] = IF phase'[d] = "deleted" THEN {} ELSE subs'[d]
    BY DEF ConnectedIffSubscribed
  <2>1. conns[d] = IF phase[d] = "deleted" THEN {} ELSE subs[d]
    BY DEF IInv, ConnectedIffSubscribed
  <2>2. subs'[d] = IF d \in open THEN {} ELSE subs[d]
    BY <1>1 DEF Drain
  <2> QED
    BY <1>1, <2>1, <2>2
<1>6. LoopVisitsRegistered'
  BY <1>1 DEF IInv, LoopVisitsRegistered
<1> QED
  BY <1>2, <1>3, <1>4, <1>5, <1>6 DEF IInv

LEMMA DeleteRefKeepsIInv ==
  ASSUME IInv, NEW o \in Obj, DeleteRef(o)
  PROVE  IInv'
<1>1. /\ o \notin m_refs /\ pc = "events"
      /\ refName' = [refName EXCEPT ![o] = NoName]
      /\ count'   = [count EXCEPT ![o] = 0]
      /\ oneShot' = [oneShot EXCEPT ![o] = FALSE]
      /\ conns'   = [c \in Client |-> conns[c] \ {o}]
      /\ UNCHANGED <<pc, todo, serverUp, phase, subs, m_refs>>
  BY DEF DeleteRef, Quiet
<1>2. TypeOK'
  BY <1>1 DEF IInv, TypeOK
<1>3. \A p \in m_refs : p # o /\ refName'[p] = refName[p] /\ count'[p] = count[p]
  BY <1>1 DEF IInv, TypeOK
<1>4. Registered'
  BY <1>1, <1>3 DEF IInv, Registered
<1>5. Books'
  BY <1>1, <1>3 DEF IInv, Books, CountExact, NothingPolledForNobody,
       NoDanglingSubscription, Holders
<1>6. ConnectedIffSubscribed'
  <2> SUFFICES ASSUME NEW d \in Client
               PROVE  conns'[d] = IF phase[d] = "deleted" THEN {} ELSE subs[d]
    BY <1>1 DEF ConnectedIffSubscribed
  <2>1. o \notin subs[d]
    BY <1>1 DEF IInv, Books, NoDanglingSubscription
  <2> QED
    BY <1>1, <2>1 DEF IInv, ConnectedIffSubscribed
<1>7. LoopVisitsRegistered'
  BY <1>1 DEF IInv, LoopVisitsRegistered
<1> QED
  BY <1>2, <1>4, <1>5, <1>6, <1>7 DEF IInv

LEMMA ClientStepKeepsIInv ==
  ASSUME IInv, NEW c \in Client, ClientStep(c)
  PROVE  IInv'
<1>1. CASE \E n \in Name, get \in BOOLEAN : (get => c \in Getter) /\ Subscribe(c, n, get)
  BY <1>1, SubscribeKeepsIInv
<1>2. CASE \E n \in Name : Unsubscribe(c, n)
  BY <1>2, UnsubscribeKeepsIInv
<1>3. CASE \E n \in Name : SetValue(c, n)
  BY <1>3, SetValueKeepsIInv
<1>4. CASE ClientConnected(c)
  <2>1. phase[c] = "none" /\ phase' = [phase EXCEPT ![c] = "open"]
    BY <1>4 DEF ClientConnected
  <2>2. UNCHANGED <<pc, todo, serverUp, subs, conns, m_refs, refName, count, oneShot>>
    BY <1>4 DEF ClientConnected, refVars
  <2>3. TypeOK'
    BY <2>1, <2>2 DEF IInv, TypeOK, Phases
  <2>4. ConnectedIffSubscribed'
    BY <2>1, <2>2 DEF IInv, TypeOK, ConnectedIffSubscribed
  <2> QED
    BY <2>2, <2>3, <2>4 DEF IInv, Books, CountExact, NothingPolledForNobody,
         NoDanglingSubscription, Registered, LoopVisitsRegistered, Holders
<1>5. CASE DisconnectLine(c)
  <2>1. phase[c] # "deleted" /\ pc = "events"
    BY <1>5 DEF DisconnectLine, CanRead
  <2> QED
    BY <1>5, <2>1, EndKeepsIInv DEF DisconnectLine, Phases
<1>6. CASE EndOfLines(c)
  <2>1. phase[c] = "leaving" /\ phase' = [phase EXCEPT ![c] = "closed"]
    BY <1>6 DEF EndOfLines
  <2>2. UNCHANGED <<pc, todo, serverUp, subs, conns, m_refs, refName, count, oneShot>>
    BY <1>6 DEF EndOfLines, refVars
  <2>3. TypeOK'
    BY <2>1, <2>2 DEF IInv, TypeOK, Phases
  <2>4. ConnectedIffSubscribed'
    BY <2>1, <2>2 DEF IInv, TypeOK, ConnectedIffSubscribed
  <2> QED
    BY <2>2, <2>3, <2>4 DEF IInv, Books, CountExact, NothingPolledForNobody,
         NoDanglingSubscription, Registered, LoopVisitsRegistered, Holders
<1>7. CASE SocketDisconnected(c)
  <2>1. phase[c] # "deleted" /\ pc = "events"
    BY <1>7 DEF SocketDisconnected, Quiet
  <2> QED
    BY <1>7, <2>1, EndKeepsIInv DEF SocketDisconnected, Phases
<1>8. CASE DeleteClient(c)
  <2>1. phase' = [phase EXCEPT ![c] = "deleted"] /\ conns' = [conns EXCEPT ![c] = {}]
    BY <1>8 DEF DeleteClient
  <2>2. UNCHANGED <<pc, todo, serverUp, subs, m_refs, refName, count, oneShot>>
    BY <1>8 DEF DeleteClient, refVars
  <2>3. TypeOK'
    BY <2>1, <2>2 DEF IInv, TypeOK, Phases
  <2>4. ConnectedIffSubscribed'
    BY <2>1, <2>2 DEF IInv, TypeOK, ConnectedIffSubscribed
  <2> QED
    BY <2>2, <2>3, <2>4 DEF IInv, Books, CountExact, NothingPolledForNobody,
         NoDanglingSubscription, Registered, LoopVisitsRegistered, Holders
<1> QED
  BY <1>1, <1>2, <1>3, <1>4, <1>5, <1>6, <1>7, <1>8 DEF ClientStep

LEMMA InitIInv == Init => IInv
<1> SUFFICES ASSUME Init PROVE IInv
  OBVIOUS
<1>1. TypeOK
  <2>1. pc \in {"xplane", "update", "events", "crashed"} /\ phase \in [Client -> Phases]
    BY DEF Init, Phases
  <2>2. subs \in [Client -> SUBSET Obj] /\ conns \in [Client -> SUBSET Obj]
    BY DEF Init
  <2>3. refName \in [Obj -> Name \cup {NoName}]
    BY DEF Init
  <2>4. count \in [Obj -> Nat] /\ oneShot \in [Obj -> BOOLEAN]
    BY DEF Init
  <2>5. todo \in SUBSET Obj /\ m_refs \in SUBSET Obj /\ serverUp \in BOOLEAN
    BY DEF Init
  <2> QED
    BY <2>1, <2>2, <2>3, <2>4, <2>5 DEF TypeOK
<1>2. Books /\ Registered
  BY DEF Init, Books, Registered, CountExact, NothingPolledForNobody, NoDanglingSubscription
<1>3. ConnectedIffSubscribed /\ LoopVisitsRegistered
  BY DEF Init, ConnectedIffSubscribed, LoopVisitsRegistered
<1> QED
  BY <1>1, <1>2, <1>3 DEF IInv

LEMMA NextKeepsIInv == IInv /\ [Next]_vars => IInv'
<1> SUFFICES ASSUME IInv, [Next]_vars PROVE IInv'
  OBVIOUS
<1> DEFINE Unmoved == UNCHANGED <<phase, subs, conns, m_refs, refName, count, oneShot>>
<1>1. ASSUME Unmoved, TypeOK', LoopVisitsRegistered'
      PROVE  IInv'
  BY <1>1 DEF IInv, Books, CountExact, NothingPolledForNobody, NoDanglingSubscription,
       Registered, ConnectedIffSubscribed, Holders
<1>2. CASE \E c \in Client : ClientStep(c)
  BY <1>2, ClientStepKeepsIInv
<1>3. CASE \E o \in Obj : DeleteRef(o)
  BY <1>3, DeleteRefKeepsIInv
<1>4. CASE FlightLoop
  <2>1. Unmoved /\ pc' = "update" /\ todo' = m_refs /\ serverUp' = serverUp
    BY <1>4 DEF FlightLoop, clientVars, refVars
  <2> QED
    BY <1>1, <2>1 DEF IInv, TypeOK, LoopVisitsRegistered
<1>5. CASE \E o \in Obj : UpdateRef(o)
  BY <1>5, UpdateRefKeepsIInv
<1>6. CASE ProcessEvents
  <2>1. Unmoved /\ pc' = "events" /\ todo = {} /\ UNCHANGED <<todo, serverUp>>
    BY <1>6 DEF ProcessEvents, clientVars, refVars
  <2> QED
    BY <1>1, <2>1 DEF IInv, TypeOK, LoopVisitsRegistered
<1>7. CASE FlightLoopReturns
  <2>1. Unmoved /\ pc = "events" /\ pc' = "xplane" /\ UNCHANGED <<todo, serverUp>>
    BY <1>7 DEF FlightLoopReturns, Quiet, clientVars, refVars
  <2> QED
    BY <1>1, <2>1 DEF IInv, TypeOK, LoopVisitsRegistered
<1>8. CASE PluginEnable
  <2>1. Unmoved /\ serverUp' = TRUE /\ UNCHANGED <<pc, todo>>
    BY <1>8 DEF PluginEnable, clientVars, refVars
  <2> QED
    BY <1>1, <2>1 DEF IInv, TypeOK, LoopVisitsRegistered
<1>9. CASE PluginDisable
  BY <1>9, PluginDisableKeepsIInv
<1>10. CASE UNCHANGED vars
  BY <1>1, <1>10 DEF vars, IInv, TypeOK, LoopVisitsRegistered
<1> QED
  BY <1>2, <1>3, <1>4, <1>5, <1>6, <1>7, <1>8, <1>9, <1>10 DEF Next

-----------------------------------------------------------------------------
(* Theorems *)

\* The inductive invariant holds in every reachable state.
THEOREM Invariance == Spec => []IInv
<1>1. Init => IInv
  BY InitIInv
<1>2. IInv /\ [Next]_vars => IInv'
  BY NextKeepsIInv
<1> QED
  BY <1>1, <1>2, PTL DEF Spec

\* Type correctness of every variable of the subscription core.
THEOREM TypeCorrect == Spec => []TypeOK
<1>1. IInv => TypeOK
  BY DEF IInv
<1> QED
  BY <1>1, Invariance, PTL

\* The provider's subscriber count is exact for any number of connections, names
\* and objects: XPlanePlugin::subscribeRef and unsubscribeRef never drift.
THEOREM CountCorrect == Spec => []CountExact
<1>1. IInv => CountExact
  BY DEF IInv, Books
<1> QED
  BY <1>1, Invariance, PTL

\* No connection ever holds an object the provider has dropped.
THEOREM NoDangling == Spec => []NoDanglingSubscription
<1>1. IInv => NoDanglingSubscription
  BY DEF IInv, Books
<1> QED
  BY <1>1, Invariance, PTL

\* The provider polls no object without a subscriber.
THEOREM NoIdlePolling == Spec => []NothingPolledForNobody
<1>1. IInv => NothingPolledForNobody
  BY DEF IInv, Books
<1> QED
  BY <1>1, Invariance, PTL

\* The provider polls exactly the objects that somebody holds.
THEOREM RegisteredExactly == Spec => []RegisteredIsHeld
<1>1. ASSUME IInv PROVE RegisteredIsHeld
  <2>1. \A o \in m_refs : \E c \in Client : o \in subs[c]
    BY <1>1 DEF IInv, Books, NothingPolledForNobody, Holders
  <2>2. \A c \in Client : subs[c] \subseteq m_refs
    BY <1>1 DEF IInv, Books, NoDanglingSubscription
  <2> QED
    BY <2>1, <2>2 DEF RegisteredIsHeld
<1>2. IInv => RegisteredIsHeld
  BY <1>1
<1> QED
  BY <1>2, Invariance, PTL

\* Everybody subscribed to one name shares one object.
THEOREM SharedByName == Spec => []OneObjectPerName
<1>1. IInv => OneObjectPerName
  BY DEF IInv, Books, Registered, NoDanglingSubscription, OneObjectPerName
<1> QED
  BY <1>1, Invariance, PTL

\* TcpClient::refChanged is only ever called for a ref its connection holds.
THEOREM SignalsMatchSubscriptions == Spec => []ConnectedIffSubscribed
<1>1. IInv => ConnectedIffSubscribed
  BY DEF IInv
<1> QED
  BY <1>1, Invariance, PTL

\* The flight loop visits registered objects only.
THEOREM LoopSafe == Spec => []LoopVisitsRegistered
<1>1. IInv => LoopVisitsRegistered
  BY DEF IInv
<1> QED
  BY <1>1, Invariance, PTL

-----------------------------------------------------------------------------
(* Who loses an object, step by step *)

\* The step of OnlyOwnUnsub.
OwnUnsubOnly ==
  \A c \in Client : \A o \in subs[c] \ subs'[c] :
    phase'[c] = "open" /\ ~oneShot[o]
      => subs' = [subs EXCEPT ![c] = @ \ {o}] /\ pc = "events"

LEMMA EmissionTakesMarkedOnly ==
  ASSUME NEW o \in Obj, NEW heard \in SUBSET Client, EmitChanged(o, heard)
  PROVE  OwnUnsubOnly
BY DEF EmitChanged, Detach, OwnUnsubOnly

LEMMA StepTakesOwnUnsubOnly ==
  ASSUME IInv, Next
  PROVE  OwnUnsubOnly
<1>1. ASSUME NEW c \in Client, NEW n \in Name, NEW get \in BOOLEAN, Subscribe(c, n, get)
      PROVE  OwnUnsubOnly
  <2>1. \A d \in Client : subs[d] \subseteq subs'[d]
    BY <1>1 DEF Subscribe, SubscribeHeld, SubscribeShared, SubscribeNew, Attach,
         clientVars, IInv, TypeOK
  <2> QED
    BY <2>1 DEF OwnUnsubOnly
<1>2. ASSUME NEW c \in Client, NEW n \in Name, Unsubscribe(c, n)
      PROVE  OwnUnsubOnly
  <2>1. PICK o \in HeldAs(c, n) : Detach({c}, o)
    BY <1>2 DEF Unsubscribe
  <2>2. subs' = [d \in Client |-> IF d \in {c} THEN subs[d] \ {o} ELSE subs[d]]
    BY <2>1 DEF Detach
  <2>3. subs' = [subs EXCEPT ![c] = @ \ {o}]
    BY <2>2 DEF IInv, TypeOK
  <2>4. pc = "events"
    BY <1>2 DEF Unsubscribe, CanRead
  <2> QED
    BY <2>2, <2>3, <2>4 DEF OwnUnsubOnly
<1>3. ASSUME NEW c \in Client, NEW n \in Name, SetValue(c, n)
      PROVE  OwnUnsubOnly
  <2>1. PICK o \in HeldAs(c, n) : \E heard \in SUBSET Listeners(o) : EmitChanged(o, heard)
    BY <1>3 DEF SetValue
  <2>2. o \in Obj /\ Listeners(o) \subseteq Client
    BY DEF HeldAs, Listeners, IInv, TypeOK
  <2> QED
    BY <2>1, <2>2, EmissionTakesMarkedOnly
<1>4. ASSUME NEW o \in Obj, UpdateRef(o)
      PROVE  OwnUnsubOnly
  <2>1. Listeners(o) \subseteq Client
    BY DEF Listeners
  <2> QED
    BY <1>4, <2>1, EmissionTakesMarkedOnly DEF UpdateRef
<1>5. ASSUME NEW c \in Client, NEW p \in Phases \ {"open"}, Drain({c}),
             phase' = [phase EXCEPT ![c] = p]
      PROVE  OwnUnsubOnly
  BY <1>5 DEF Drain, OwnUnsubOnly, IInv, TypeOK
<1>6. ASSUME PluginDisable PROVE OwnUnsubOnly
  <2> DEFINE open == {c \in Client : phase[c] = "open"}
  <2>1. Drain(open)
    BY <1>6 DEF PluginDisable
  <2>2. \A c \in open : phase'[c] = "deleted"
    BY <1>6 DEF PluginDisable
  <2>3. \A c \in Client \ open : subs'[c] = subs[c]
    BY <2>1 DEF Drain
  <2> QED
    BY <2>2, <2>3 DEF OwnUnsubOnly
<1>7. ASSUME subs' = subs PROVE OwnUnsubOnly
  BY <1>7 DEF OwnUnsubOnly
<1>8. ASSUME NEW c \in Client, ClientStep(c) PROVE OwnUnsubOnly
  <2>1. CASE DisconnectLine(c)
    BY <1>5, <2>1 DEF DisconnectLine, Phases
  <2>2. CASE SocketDisconnected(c)
    BY <1>5, <2>2 DEF SocketDisconnected, Phases
  <2>3. CASE ClientConnected(c) \/ EndOfLines(c) \/ DeleteClient(c)
    BY <1>7, <2>3 DEF ClientConnected, EndOfLines, DeleteClient
  <2> QED
    BY <1>1, <1>2, <1>3, <1>8, <2>1, <2>2, <2>3 DEF ClientStep
<1>9. CASE (\E o \in Obj : DeleteRef(o)) \/ FlightLoop \/ ProcessEvents
             \/ FlightLoopReturns \/ PluginEnable
  BY <1>7, <1>9 DEF DeleteRef, FlightLoop, ProcessEvents, FlightLoopReturns, PluginEnable,
       clientVars
<1> QED
  BY <1>4, <1>6, <1>8, <1>9 DEF Next

\* A connection that stays open loses an unmarked object by its own unsub only.
THEOREM NobodyElseUnsubscribes == Spec => OnlyOwnUnsub
<1>1. IInv /\ [Next]_vars => [OwnUnsubOnly]_vars
  BY StepTakesOwnUnsubOnly
<1> QED
  BY <1>1, Invariance, PTL DEF Spec, OnlyOwnUnsub, OwnUnsubOnly

-----------------------------------------------------------------------------
(* The core implements SubscriptionService *)

Polled == {refName[o] : o \in m_refs}
PolledExactly ==
  Polled = {n \in Available : \E c \in Client : <<c, n>> \in SubscribedNames}

\* What is polled is what somebody is subscribed to, by name.
LEMMA PolledIsSubscribed ==
  IInv => PolledExactly
<1> SUFFICES ASSUME IInv PROVE PolledExactly
  OBVIOUS
<1>1. \A c \in Client : subs[c] \subseteq m_refs
  BY DEF IInv, Books, NoDanglingSubscription
<1>2. \A o \in m_refs : \E c \in Client : o \in subs[c]
  BY DEF IInv, Books, NothingPolledForNobody, Holders
<1>3. \A o \in m_refs : refName[o] \in Available /\ refName[o] \in Name
  BY NamesKnown DEF IInv, Registered
<1>4. \A n \in Available : n \in Polled <=> \E c \in Client : \E o \in subs[c] : refName[o] = n
  BY <1>1, <1>2 DEF Polled
<1>5. \A n \in Available, c \in Client :
        <<c, n>> \in SubscribedNames <=> \E o \in subs[c] : refName[o] = n
  BY NamesKnown DEF SubscribedNames
<1>6. Polled \subseteq Available
  BY <1>3 DEF Polled
<1> QED
  BY <1>4, <1>5, <1>6 DEF PolledExactly

LEMMA PolledFollows ==
  ASSUME IInv'
  PROVE  Service!PollWhatIsSubscribed
<1>1. PolledExactly'
  BY PolledIsSubscribed, PTL
<1> QED
  BY <1>1 DEF Service!PollWhatIsSubscribed, PolledExactly, Polled

\* What is subscribed, pair by pair.
LEMMA SubscribedPairs ==
  /\ SubscribedNames \subseteq Client \X Name
  /\ \A c \in Client, n \in Name :
       <<c, n>> \in SubscribedNames <=> \E o \in subs[c] : refName[o] = n
BY DEF SubscribedNames

LEMMA SubscribedPairsNext ==
  /\ SubscribedNames' \subseteq Client \X Name
  /\ \A c \in Client, n \in Name :
       <<c, n>> \in SubscribedNames' <=> \E o \in subs'[c] : refName'[o] = n
BY DEF SubscribedNames

LEMMA AttachIsJoin ==
  ASSUME IInv, IInv', NEW c \in Client, NEW n \in Available, NEW o \in Obj,
         subs' = [subs EXCEPT ![c] = @ \cup {o}], refName'[o] = n,
         \A p \in m_refs : refName'[p] = refName[p]
  PROVE  Service!Join(c, n)
<1>1. \A d \in Client : subs[d] \subseteq m_refs
  BY DEF IInv, Books, NoDanglingSubscription
<1>2. \A d \in Client : subs'[d] = IF d = c THEN subs[d] \cup {o} ELSE subs[d]
  BY DEF IInv, TypeOK
<1>3. \A d \in Client, k \in Name :
        <<d, k>> \in SubscribedNames'
          <=> <<d, k>> \in SubscribedNames \/ (d = c /\ k = n)
  <2> SUFFICES ASSUME NEW d \in Client, NEW k \in Name
               PROVE  <<d, k>> \in SubscribedNames'
                        <=> <<d, k>> \in SubscribedNames \/ (d = c /\ k = n)
    OBVIOUS
  <2>1. <<d, k>> \in SubscribedNames <=> \E p \in subs[d] : refName[p] = k
    BY SubscribedPairs
  <2>2. <<d, k>> \in SubscribedNames' <=> \E p \in subs'[d] : refName'[p] = k
    BY SubscribedPairsNext
  <2> QED
    BY <2>1, <2>2, <1>1, <1>2
<1>4. SubscribedNames' = SubscribedNames \cup {<<c, n>>}
  BY <1>3, SubscribedPairs, SubscribedPairsNext, NamesKnown
<1> QED
  BY <1>4, PolledFollows DEF Service!Join

LEMMA DetachIsLeaveName ==
  ASSUME IInv, IInv', NEW o \in m_refs, NEW D \in SUBSET Client, Detach(D, o),
         refName' = refName
  PROVE  Service!LeaveName(D, refName[o])
<1>1. \A d \in Client : subs[d] \subseteq m_refs
  BY DEF IInv, Books, NoDanglingSubscription
<1>2. \A d \in Client : subs'[d] = IF d \in D THEN subs[d] \ {o} ELSE subs[d]
  BY DEF Detach
<1>3. \A p \in m_refs : refName[p] = refName[o] => p = o
  BY DEF IInv, Registered
<1>4. \A d \in Client, k \in Name :
        <<d, k>> \in SubscribedNames'
          <=> <<d, k>> \in SubscribedNames /\ ~(d \in D /\ k = refName[o])
  <2> SUFFICES ASSUME NEW d \in Client, NEW k \in Name
               PROVE  <<d, k>> \in SubscribedNames'
                        <=> <<d, k>> \in SubscribedNames /\ ~(d \in D /\ k = refName[o])
    OBVIOUS
  <2>1. <<d, k>> \in SubscribedNames <=> \E p \in subs[d] : refName[p] = k
    BY SubscribedPairs
  <2>2. <<d, k>> \in SubscribedNames' <=> \E p \in subs'[d] : refName'[p] = k
    BY SubscribedPairsNext
  <2> QED
    BY <2>1, <2>2, <1>1, <1>2, <1>3
<1>5. SubscribedNames' = SubscribedNames \ (D \X {refName[o]})
  BY <1>4, SubscribedPairs, SubscribedPairsNext
<1> QED
  BY <1>5, PolledFollows DEF Service!LeaveName

LEMMA DrainIsLeaveAll ==
  ASSUME IInv, IInv', NEW D \in SUBSET Client, Drain(D), refName' = refName
  PROVE  Service!LeaveAll(D)
<1>1. \A d \in Client : subs'[d] = IF d \in D THEN {} ELSE subs[d]
  BY DEF Drain
<1>2. \A d \in Client : \A o \in subs[d] : refName[o] \in Available
  BY DEF IInv, Books, NoDanglingSubscription, Registered
<1>3. \A d \in Client, k \in Name :
        <<d, k>> \in SubscribedNames'
          <=> <<d, k>> \in SubscribedNames /\ ~(d \in D /\ k \in Available)
  <2> SUFFICES ASSUME NEW d \in Client, NEW k \in Name
               PROVE  <<d, k>> \in SubscribedNames'
                        <=> <<d, k>> \in SubscribedNames /\ ~(d \in D /\ k \in Available)
    OBVIOUS
  <2>1. <<d, k>> \in SubscribedNames <=> \E p \in subs[d] : refName[p] = k
    BY SubscribedPairs
  <2>2. <<d, k>> \in SubscribedNames' <=> \E p \in subs'[d] : refName'[p] = k
    BY SubscribedPairsNext
  <2> QED
    BY <2>1, <2>2, <1>1, <1>2
<1>4. SubscribedNames' = SubscribedNames \ (D \X Available)
  BY <1>3, SubscribedPairs, SubscribedPairsNext
<1> QED
  BY <1>4, PolledFollows DEF Service!LeaveAll

ServiceStep == [Service!Next]_<<SubscribedNames, Polled>>

LEMMA HeldAlikeIsStutter ==
  ASSUME IInv, subs' = subs, m_refs' = m_refs, \A o \in m_refs : refName'[o] = refName[o]
  PROVE  ServiceStep
<1>1. \A d \in Client : subs[d] \subseteq m_refs
  BY DEF IInv, Books, NoDanglingSubscription
<1>2. SubscribedNames' = SubscribedNames
  BY <1>1, SubscribedPairs, SubscribedPairsNext
<1>3. Polled' = Polled
  BY DEF Polled
<1> QED
  BY <1>2, <1>3 DEF ServiceStep

LEMMA EmissionIsServiceStep ==
  ASSUME IInv, IInv', NEW o \in m_refs, NEW heard \in SUBSET Client,
         EmitChanged(o, heard), refName' = refName
  PROVE  ServiceStep
<1>1. CASE Detach(heard, o)
  <2>1. Service!LeaveName(heard, refName[o]) /\ refName[o] \in Available
    BY <1>1, DetachIsLeaveName DEF IInv, Registered
  <2> QED
    BY <2>1 DEF ServiceStep, Service!Next
<1>2. CASE UNCHANGED <<subs, conns, count, m_refs>>
  BY <1>2, HeldAlikeIsStutter
<1> QED
  BY <1>1, <1>2 DEF EmitChanged

LEMMA SubscribeIsServiceStep ==
  ASSUME IInv, IInv', NEW c \in Client, NEW n \in Name, NEW get \in BOOLEAN,
         Subscribe(c, n, get)
  PROVE  ServiceStep
<1>1. CASE SubscribeHeld(c, n, get)
  BY <1>1, HeldAlikeIsStutter DEF SubscribeHeld, clientVars
<1>2. ASSUME NEW o \in Obj, Attach(c, o, get), refName'[o] = n, n \in Available,
             \A p \in m_refs : refName'[p] = refName[p]
      PROVE  ServiceStep
  <2>1. Service!Join(c, n)
    BY <1>2, AttachIsJoin DEF Attach
  <2> QED
    BY <1>2, <2>1 DEF ServiceStep, Service!Next
<1>3. CASE SubscribeShared(c, n, get)
  <2>1. PICK o \in m_refs : refName[o] = n /\ ProviderShare(o) /\ Attach(c, o, get)
    BY <1>3 DEF SubscribeShared
  <2>2. o \in Obj /\ n \in Available /\ refName' = refName
    BY <2>1 DEF ProviderShare, IInv, TypeOK, Registered
  <2> QED
    BY <1>2, <2>1, <2>2
<1>4. CASE SubscribeNew(c, n, get)
  <2>1. PICK o \in Obj : ProviderCreate(o, n) /\ Attach(c, o, get)
    BY <1>4 DEF SubscribeNew
  <2>2. o \notin m_refs
    BY <2>1, RegisteredAllocated DEF ProviderCreate
  <2>3. n \in Available /\ refName' = [refName EXCEPT ![o] = n]
    BY <2>1 DEF ProviderCreate
  <2>4. refName'[o] = n /\ \A p \in m_refs : refName'[p] = refName[p]
    BY <2>2, <2>3 DEF IInv, TypeOK
  <2> QED
    BY <1>2, <2>1, <2>3, <2>4
<1> QED
  BY <1>1, <1>3, <1>4 DEF Subscribe

LEMMA StepIsServiceStep ==
  ASSUME IInv, IInv', [Next]_vars
  PROVE  ServiceStep
<1>1. ASSUME NEW D \in SUBSET Client, Drain(D), refName' = refName
      PROVE  ServiceStep
  <2>1. Service!LeaveAll(D)
    BY <1>1, DrainIsLeaveAll
  <2> QED
    BY <2>1 DEF ServiceStep, Service!Next
<1>2. ASSUME NEW c \in Client, ClientStep(c) PROVE ServiceStep
  <2>1. ASSUME NEW n \in Name, Unsubscribe(c, n) PROVE ServiceStep
    <3>1. PICK o \in HeldAs(c, n) : Detach({c}, o)
      BY <2>1 DEF Unsubscribe
    <3>2. o \in m_refs /\ refName[o] \in Available /\ refName' = refName
      BY <2>1 DEF HeldAs, Unsubscribe, IInv, Books, NoDanglingSubscription, Registered
    <3>3. Service!LeaveName({c}, refName[o])
      BY <3>1, <3>2, DetachIsLeaveName
    <3> QED
      BY <3>2, <3>3 DEF ServiceStep, Service!Next
  <2>2. ASSUME NEW n \in Name, SetValue(c, n) PROVE ServiceStep
    <3>1. PICK o \in HeldAs(c, n) : \E heard \in SUBSET Listeners(o) : EmitChanged(o, heard)
      BY <2>2 DEF SetValue
    <3>2. o \in m_refs /\ Listeners(o) \subseteq Client /\ refName' = refName
      BY <2>2 DEF HeldAs, Listeners, SetValue, IInv, Books, NoDanglingSubscription
    <3> QED
      BY <3>1, <3>2, EmissionIsServiceStep
  <2>3. CASE DisconnectLine(c) \/ SocketDisconnected(c)
    BY <1>1, <2>3 DEF DisconnectLine, SocketDisconnected
  <2>4. CASE ClientConnected(c) \/ EndOfLines(c) \/ DeleteClient(c)
    BY <2>4, HeldAlikeIsStutter DEF ClientConnected, EndOfLines, DeleteClient, refVars
  <2> QED
    BY <1>2, <2>1, <2>2, <2>3, <2>4, SubscribeIsServiceStep DEF ClientStep
<1>3. ASSUME NEW o \in Obj, UpdateRef(o) PROVE ServiceStep
  <2>1. o \in m_refs /\ Listeners(o) \subseteq Client /\ refName' = refName
    BY <1>3 DEF UpdateRef, Listeners, IInv, LoopVisitsRegistered
  <2> QED
    BY <1>3, <2>1, EmissionIsServiceStep DEF UpdateRef
<1>4. ASSUME NEW o \in Obj, DeleteRef(o) PROVE ServiceStep
  <2>1. \A p \in m_refs : refName'[p] = refName[p]
    BY <1>4 DEF DeleteRef, IInv, TypeOK
  <2> QED
    BY <1>4, <2>1, HeldAlikeIsStutter DEF DeleteRef
<1>5. CASE PluginDisable
  BY <1>1, <1>5 DEF PluginDisable
<1>6. CASE FlightLoop \/ ProcessEvents \/ FlightLoopReturns \/ PluginEnable
             \/ UNCHANGED vars
  BY <1>6, HeldAlikeIsStutter DEF FlightLoop, ProcessEvents, FlightLoopReturns,
       PluginEnable, clientVars, refVars, vars
<1> QED
  BY <1>2, <1>3, <1>4, <1>5, <1>6 DEF Next

LEMMA InitIsServiceInit == Init => Service!Init
BY DEF Init, Service!Init, SubscribedNames

\* The core implements the service: whatever connections, gets, emissions, crashes of
\* the loop and restarts of the plugin do, every step subscribes one connection to one
\* name, or ends subscriptions as the service allows, and leaves polled what is
\* subscribed to.
THEOREM CoreImplementsService == Spec => ServiceSpec
<1>1. Init => Service!Init
  BY InitIsServiceInit
<1>2. IInv /\ IInv' /\ [Next]_vars => [Service!Next]_<<SubscribedNames, Polled>>
  BY StepIsServiceStep DEF ServiceStep
<1> QED
  BY <1>1, <1>2, Invariance, PTL DEF Spec, ServiceSpec, Service!Spec, Polled
=============================================================================
