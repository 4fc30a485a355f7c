-------------------------- MODULE UdpOutputProofs --------------------------
(***************************************************************************)
(* Proofs about module UdpOutput, for any clients and datarefs and any     *)
(* bounds.                                                                 *)
(*                                                                         *)
(* That a number belongs to one dataref is not inductive: a fresh number   *)
(* must not be in use anywhere, so that all numbers in use are among those *)
(* handed out (Handed).  That every number is announced needs to know that *)
(* an object keeps its number as long as it is held (NumberedIsHeld), and  *)
(* that the client has a ClientDataRef for whatever it holds (HeldIsLive), *)
(* since the line with a number is passed over otherwise.                  *)
(***************************************************************************)
EXTENDS UdpOutput, SequenceTheorems, TLAPS

\* Who says that i is r's number: the server, a line on its way to c, c's map.
AtServer(i, r)  == r \in Ref /\ i # 0 /\ udpId[r] = i
OnWire(c, i, r) ==
  \E k \in 1..Len(tcp[c]) : tcp[c][k].kind = "udp" /\ tcp[c][k].id = i /\ tcp[c][k].ref = r
InMap(c, i, r)  == i \in Id /\ r # NoRef /\ m_idRefMap[c][i].ref = r
Means(i, r)     == AtServer(i, r) \/ \E c \in Client : OnWire(c, i, r) \/ InMap(c, i, r)

\* Numbers in use were handed out, and belong to one dataref.
Handed == \A i, r : Means(i, r) => i \in 1..m_nextFreeId
Unique == \A i, r, s : Means(i, r) /\ Means(i, s) => r = s

\* An object, which has a number, exists as long as somebody holds it.
NumberedIsHeld == \A r \in Ref : udpId[r] # 0 <=> Holders(r) # {}

\* What the server or the handshake has of a client is in the client's map, and without a
\* connection there is none of it, and no line.
HeldIsLive ==
  \A c \in Client :
    /\ \A r \in subs[c] \cup toSub[c] : dataRefs[c][r] = "live"
    /\ c \notin connected => subs[c] = {} /\ toSub[c] = {} /\ tcp[c] = <<>>

\* The inductive invariant.
IInv ==
  /\ TypeOK
  /\ ListIsExact
  /\ NumberedIsHeld
  /\ HeldIsLive
  /\ Handed
  /\ Unique
  /\ EveryNumberAnnounced

-----------------------------------------------------------------------------
(* Lines *)

\* The first line is read.
LEMMA TailOfLines ==
  ASSUME NEW s \in Seq(Lines), s # <<>>
  PROVE  /\ Len(s) \in Nat \ {0}
         /\ Head(s) = s[1] /\ Head(s) \in Lines
         /\ Tail(s) \in Seq(Lines)
         /\ Len(Tail(s)) = Len(s) - 1
         /\ \A k \in 1..Len(Tail(s)) : Tail(s)[k] = s[k + 1]
<1>1. Len(s) \in Nat \ {0} /\ Head(s) = s[1]
  BY EmptySeq
<1>2. QED
  BY <1>1, HeadTailProperties

\* The answer to a sub follows the lines there are, and announces r's number i.
LEMMA AnswerFollows ==
  ASSUME NEW s \in Seq(Lines), NEW r \in Ref, NEW i \in Id
  PROVE  LET t == s \o Answer(r, i)
         IN  /\ t \in Seq(Lines)
             /\ Len(s) \in Nat /\ Len(t) \in Nat /\ Len(s) <= Len(t)
             /\ \A k \in 1..Len(s) : t[k] = s[k]
             /\ \A k \in 1..Len(t) :
                  k > Len(s) /\ t[k].kind = "udp" => t[k].id = i /\ t[k].ref = r
             /\ \E k \in 1..Len(t) : t[k].kind = "udp" /\ t[k].id = i /\ t[k].ref = r
<1> DEFINE u == [kind |-> "u", id |-> 0, ref |-> r]
           n == [kind |-> "udp", id |-> i, ref |-> r]
           v == IF r \in valid THEN <<u>> ELSE <<>>
           a == Append(v, n)
           t == s \o a
<1>1. u \in Lines /\ n \in Lines
  BY DEF Lines
<1>2. v \in Seq(Lines) /\ Len(v) \in Nat /\ \A k \in 1..Len(v) : v[k] = u
  <2>1. CASE r \in valid
    BY <1>1, <2>1
  <2>2. CASE r \notin valid
    BY <1>1, <2>2
  <2>3. QED
    BY <2>1, <2>2
<1> HIDE DEF u, n, v
<1>3. /\ a \in Seq(Lines) /\ Len(a) = Len(v) + 1 /\ a[Len(a)] = n
      /\ \A k \in 1..Len(a) : a[k] = n \/ a[k] = u
  <2>1. /\ a \in Seq(Lines) /\ Len(a) = Len(v) + 1 /\ a[Len(v) + 1] = n
        /\ \A k \in 1..Len(v) : a[k] = v[k]
    BY <1>1, <1>2, AppendProperties
  <2> HIDE DEF a
  <2>2. QED
    BY <1>2, <2>1
<1> HIDE DEF a
<1>4. /\ t \in Seq(Lines) /\ Len(t) = Len(s) + Len(a) /\ Len(s) \in Nat
      /\ \A k \in 1..Len(s) + Len(a) : t[k] = IF k <= Len(s) THEN s[k] ELSE a[k - Len(s)]
  <2>1. Len(s) \in Nat
    BY LenProperties
  <2>2. QED
    BY <1>3, <2>1, ConcatProperties
<1> HIDE DEF t
<1>5. \A k \in 1..Len(s) : t[k] = s[k]
  BY <1>2, <1>3, <1>4
<1>6. ASSUME NEW k \in 1..Len(t), k > Len(s), t[k].kind = "udp"
      PROVE  t[k].id = i /\ t[k].ref = r
  <2>1. t[k] = a[k - Len(s)] /\ k - Len(s) \in 1..Len(a)
    BY <1>2, <1>3, <1>4, <1>6
  <2>2. t[k] = n \/ t[k] = u
    BY <1>3, <2>1
  <2>3. QED
    BY <1>6, <2>2 DEF u, n
<1>7. Len(t) \in 1..Len(t) /\ t[Len(t)] = n
  <2>1. /\ Len(t) \in 1..Len(t) /\ Len(t) \in 1..Len(s) + Len(a)
        /\ ~(Len(t) <= Len(s)) /\ Len(t) - Len(s) = Len(a)
    BY <1>2, <1>3, <1>4
  <2>2. t[Len(t)] = a[Len(a)]
    BY <1>4, <2>1
  <2>3. QED
    BY <1>3, <2>1, <2>2
<1>8. \E k \in 1..Len(t) : t[k].kind = "udp" /\ t[k].id = i /\ t[k].ref = r
  BY <1>7 DEF n
<1>9. t = s \o Answer(r, i)
  BY DEF t, a, v, u, n, Answer
<1>10. Len(t) \in Nat /\ Len(s) <= Len(t)
  BY <1>2, <1>3, <1>4
<1>11. QED
  BY <1>4, <1>5, <1>6, <1>8, <1>9, <1>10
-----------------------------------------------------------------------------
(* The kinds of steps *)

\* What a sub does when r has the number i afterwards, a fresh one if it had none.
Subbed(c, r, i) ==
  /\ IF udpId[r] = 0 THEN i = m_nextFreeId + 1 /\ m_nextFreeId' = i
                     ELSE i = udpId[r] /\ m_nextFreeId' = m_nextFreeId
  /\ udpId' = [udpId EXCEPT ![r] = i]
  /\ subs' = [subs EXCEPT ![c] = @ \cup {r}]
  /\ stale' = [stale EXCEPT ![c] = @ \ {r}]
  /\ tcp' = [tcp EXCEPT ![c] = @ \o Answer(r, i)]

\* A sub of the handshake, or of a connected program.
Asks(c, r) ==
  /\ c \in connected /\ \E i \in Id : Subbed(c, r, i)
  /\ dataRefs' = [dataRefs EXCEPT ![c][r] = "live"]
  /\ toSub' = [toSub EXCEPT ![c] = @ \ {r}]
  /\ UNCHANGED <<connected, valid, m_changedRefs, dgrams, alive, listening, m_idRefMap>>

\* A program that is not connected subscribes.
Notes(c, r) ==
  /\ c \notin connected /\ dataRefs' = [dataRefs EXCEPT ![c][r] = "live"]
  /\ UNCHANGED <<server, tcp, dgrams, alive, toSub, listening, m_idRefMap>>

\* A connection ends, for the program, too, or with it.
Ends(c) ==
  /\ ServerDrop(c)
  /\ alive' \in {alive, alive \ {c}}
  /\ toSub' = [toSub EXCEPT ![c] = {}]
  /\ dataRefs' \in {dataRefs, [dataRefs EXCEPT ![c] = [r \in Ref |-> "absent"]]}
  /\ listening' = listening \ {c}
  /\ m_idRefMap' = [m_idRefMap EXCEPT ![c] = EmptyMap]

\* A connection comes up.
Opens(c) ==
  /\ c \in alive \ connected /\ connected' = connected \cup {c}
  /\ toSub' = [toSub EXCEPT ![c] = {r \in Ref : dataRefs[c][r] = "live"}]
  /\ UNCHANGED <<subs, m_nextFreeId, udpId, valid, m_changedRefs, stale, tcp, dgrams, alive,
                 dataRefs, listening, m_idRefMap>>

\* A program takes its next line.
Reads(c) ==
  LET line == Head(tcp[c])
      read == [dataRefs EXCEPT ![c][line.ref] = IF @ = "absent" THEN "null" ELSE @]
  IN  /\ tcp[c] # <<>> /\ tcp' = [tcp EXCEPT ![c] = Tail(@)]
      /\ dataRefs' \in {dataRefs, read}
      /\ listening' \in {listening, listening \cup {c}}
      /\ m_idRefMap' = IF line.kind = "udp" /\ dataRefs[c][line.ref] = "live"
                         THEN [m_idRefMap EXCEPT ![c] = Inserted(@, line.id, line.ref)]
                         ELSE m_idRefMap
      /\ UNCHANGED <<server, dgrams, alive, toSub>>

\* The number that a sub leaves r with can be counted.
LEMMA SubEffect ==
  ASSUME TypeOK, NEW c \in Client, NEW r \in Ref, ServerSub(c, r)
  PROVE  \E i \in Id : Subbed(c, r, i)
<1> DEFINE i == IF udpId[r] = 0 THEN ReserveUdpId ELSE udpId[r]
<1>1. i \in Id /\ (udpId[r] = 0 => i = m_nextFreeId + 1)
  BY MaxIdIsPositive DEF ServerSub, TypeOK, ReserveUdpId, Id
<1>2. QED
  BY <1>1 DEF ServerSub, Subbed

\* Every step is one of these kinds.
LEMMA Kinds ==
  ASSUME TypeOK, HeldIsLive, [Next]_vars
  PROVE  \/ UNCHANGED vars
         \/ FlightLoop
         \/ \E c \in Client :
              \/ Ends(c) \/ Opens(c) \/ Reads(c)
              \/ \E r \in Ref : Asks(c, r) \/ Notes(c, r) \/ Unsubscribe(c, r) \/ SetValue(c, r)
              \/ \E d \in dgrams[c] : ReadDatagram(c, d) \/ Lose(c, d)
<1>1. ASSUME NEW c \in Client, Crash(c) \/ Disconnect(c) PROVE Ends(c)
  BY <1>1 DEF Crash, Disconnect, Ends
<1>2. ASSUME NEW c \in Client, Connect(c) PROVE Ends(c) \/ Opens(c)
  BY <1>1, <1>2 DEF Connect, Opens
<1>3. ASSUME NEW c \in Client, Handshake(c) PROVE \E r \in Ref : Asks(c, r)
  <2>1. PICK r \in toSub[c] :
          /\ ServerSub(c, r)
          /\ toSub' = [toSub EXCEPT ![c] = @ \ {r}]
          /\ UNCHANGED <<connected, valid, m_changedRefs, dgrams, alive, dataRefs, listening,
                         m_idRefMap>>
    BY <1>3 DEF Handshake
  <2>2. r \in Ref /\ c \in connected /\ dataRefs = [dataRefs EXCEPT ![c][r] = "live"]
    BY DEF TypeOK, HeldIsLive
  <2>3. \E i \in Id : Subbed(c, r, i)
    BY <2>1, <2>2, SubEffect
  <2>4. QED
    BY <2>1, <2>2, <2>3 DEF Asks
<1>4. ASSUME NEW c \in Client, NEW r \in Ref, Subscribe(c, r) PROVE Asks(c, r) \/ Notes(c, r)
  <2>1. CASE c \in connected
    <3>1. \E i \in Id : Subbed(c, r, i)
      BY <1>4, <2>1, SubEffect DEF Subscribe
    <3>2. toSub = [toSub EXCEPT ![c] = @ \ {r}]
      BY <1>4 DEF Subscribe, TypeOK
    <3>3. QED
      BY <1>4, <2>1, <3>1, <3>2 DEF Subscribe, Asks
  <2>2. CASE c \notin connected
    BY <1>4, <2>2 DEF Subscribe, Notes, server
  <2>3. QED
    BY <2>1, <2>2
<1>5. ASSUME NEW c \in Client, ReadValue(c) PROVE Reads(c)
  BY <1>5 DEF ReadValue, Reads
<1>6. ASSUME NEW c \in Client, ReadNumber(c) PROVE Ends(c) \/ Reads(c)
  <2>1. tcp[c] # <<>> /\ Head(tcp[c]) \in Lines
    BY <1>6, TailOfLines DEF ReadNumber, TypeOK
  <2>2. dataRefs[c][Head(tcp[c]).ref] \in {"absent", "null", "live"}
    BY <2>1 DEF TypeOK, Lines
  <2>3. CASE dataRefs[c][Head(tcp[c]).ref] = "absent"
    BY <1>1, <1>6, <2>3 DEF ReadNumber
  <2>4. CASE dataRefs[c][Head(tcp[c]).ref] = "null"
    BY <1>6, <2>4 DEF ReadNumber, Reads, clients
  <2>5. CASE dataRefs[c][Head(tcp[c]).ref] = "live"
    BY <1>6, <2>5 DEF ReadNumber, Reads
  <2>6. QED
    BY <2>2, <2>3, <2>4, <2>5
<1>7. ASSUME NEW c \in Client, NEW d \in dgrams[c], ReadDatagramForDeleted(c, d) PROVE Ends(c)
  BY <1>1, <1>7 DEF ReadDatagramForDeleted
<1>8. QED
  BY <1>1, <1>2, <1>3, <1>4, <1>5, <1>6, <1>7 DEF Next

-----------------------------------------------------------------------------
(* Types, lists and holders *)

\* Every step keeps the types.
LEMMA TypeStep ==
  ASSUME TypeOK, ListIsExact, NumberedIsHeld, HeldIsLive, [Next]_vars
  PROVE  TypeOK'
<1>1. CASE UNCHANGED vars
  BY <1>1 DEF vars, TypeOK
<1>2. CASE FlightLoop
  <2>1. PICK moved \in SUBSET {r \in Ref : Holders(r) # {}} :
          /\ valid' = valid \cup moved
          /\ dgrams' = [c \in Client |->
               IF Numbers(SenderList(c, moved)) = {} THEN dgrams[c]
               ELSE dgrams[c] \cup {Numbers(SenderList(c, moved))}]
          /\ m_changedRefs' = [c \in Client |-> {}]
          /\ stale' = [c \in Client |-> stale[c] \ SenderList(c, moved)]
          /\ UNCHANGED <<connected, subs, m_nextFreeId, udpId, tcp, clients>>
    BY <1>2 DEF FlightLoop
  <2>2. ASSUME NEW c \in Client PROVE Numbers(SenderList(c, moved)) \in SUBSET Id
    <3>1. SenderList(c, moved) \subseteq subs[c]
      BY DEF SenderList, ListIsExact
    <3>2. \A r \in subs[c] : r \in Ref /\ udpId[r] \in Id
      BY MaxIdIsPositive DEF NumberedIsHeld, Holders, TypeOK, Id
    <3>3. QED
      BY <3>1, <3>2 DEF Numbers
  <2>3. dgrams' \in [Client -> SUBSET SUBSET Id]
    BY <2>1, <2>2 DEF TypeOK
  <2>4. valid' \subseteq Ref /\ m_changedRefs' \in [Client -> SUBSET Ref]
        /\ stale' \in [Client -> SUBSET Ref]
    BY <2>1 DEF TypeOK
  <2>5. QED
    BY <2>1, <2>3, <2>4 DEF TypeOK, clients
<1>3. ASSUME NEW c \in Client, Ends(c) PROVE TypeOK'
  <2>1. EmptyMap \in [Id -> Entries] /\ <<>> \in Seq(Lines)
    BY DEF EmptyMap, Entries
  <2>2. connected' \subseteq alive' /\ alive' \subseteq Client /\ listening' \subseteq connected'
    BY <1>3 DEF Ends, ServerDrop, Without, TypeOK
  <2>3. /\ udpId' \in [Ref -> 0..MaxId] /\ valid' \subseteq Ref
        /\ m_nextFreeId' \in 0..MaxId
    BY <1>3, MaxIdIsPositive DEF Ends, ServerDrop, GiveUp, TypeOK
  <2>4. /\ subs' \in [Client -> SUBSET Ref]
        /\ m_changedRefs' \in [Client -> SUBSET Ref]
        /\ stale' \in [Client -> SUBSET Ref]
        /\ tcp' \in [Client -> Seq(Lines)]
        /\ dgrams' \in [Client -> SUBSET SUBSET Id]
    BY <1>3, <2>1 DEF Ends, ServerDrop, TypeOK
  <2>5. /\ toSub' \in [Client -> SUBSET Ref]
        /\ dataRefs' \in [Client -> [Ref -> {"absent", "null", "live"}]]
        /\ m_idRefMap' \in [Client -> [Id -> Entries]]
    <3>1. [q \in Ref |-> "absent"] \in [Ref -> {"absent", "null", "live"}]
      OBVIOUS
    <3>2. dataRefs' \in [Client -> [Ref -> {"absent", "null", "live"}]]
      BY <1>3, <3>1 DEF Ends, TypeOK
    <3>3. QED
      BY <1>3, <2>1, <3>2 DEF Ends, TypeOK
  <2>6. QED
    BY <2>2, <2>3, <2>4, <2>5 DEF TypeOK
<1>4. ASSUME NEW c \in Client, Opens(c) PROVE TypeOK'
  BY <1>4 DEF Opens, TypeOK
<1>5. ASSUME NEW c \in Client, Reads(c) PROVE TypeOK'
  <2>1. Head(tcp[c]) \in Lines /\ Tail(tcp[c]) \in Seq(Lines)
    BY <1>5, TailOfLines DEF Reads, TypeOK
  <2>2. Head(tcp[c]).ref \in Ref /\ (Head(tcp[c]).kind = "udp" => Head(tcp[c]).id \in Id)
    BY <2>1 DEF Lines
  <2>3. Entry(Head(tcp[c]).ref, "live") \in Entries
    BY <2>2 DEF Entries
  <2>4. Inserted(m_idRefMap[c], Head(tcp[c]).id, Head(tcp[c]).ref) \in [Id -> Entries]
    BY <2>3 DEF Inserted, TypeOK
  <2>5. m_idRefMap' \in [Client -> [Id -> Entries]]
    BY <1>5, <2>4 DEF Reads, TypeOK
  <2>6. dataRefs' \in [Client -> [Ref -> {"absent", "null", "live"}]]
    <3> DEFINE n == Head(tcp[c]).ref
               read == [dataRefs[c] EXCEPT ![n] = IF @ = "absent" THEN "null" ELSE @]
    <3>1. read \in [Ref -> {"absent", "null", "live"}]
      <4>1. dataRefs[c] \in [Ref -> {"absent", "null", "live"}]
        BY DEF TypeOK
      <4>2. QED
        BY <4>1
    <3>2. dataRefs' \in {dataRefs, [dataRefs EXCEPT ![c] = read]}
      BY <1>5 DEF Reads
    <3> HIDE DEF read
    <3>3. QED
      BY <3>1, <3>2 DEF TypeOK
  <2>7. c \in connected
    BY <1>5 DEF Reads, HeldIsLive
  <2>8. QED
    BY <1>5, <2>1, <2>5, <2>6, <2>7 DEF Reads, server, TypeOK
<1>6. ASSUME NEW c \in Client, NEW r \in Ref, Asks(c, r) PROVE TypeOK'
  <2>1. PICK i \in Id : Subbed(c, r, i)
    BY <1>6 DEF Asks
  <2>2. tcp[c] \o Answer(r, i) \in Seq(Lines)
    BY AnswerFollows DEF TypeOK
  <2>3. QED
    BY <1>6, <2>1, <2>2, MaxIdIsPositive DEF Asks, Subbed, TypeOK, Id
<1>7. ASSUME NEW c \in Client, NEW r \in Ref, Notes(c, r) PROVE TypeOK'
  BY <1>7 DEF Notes, server, TypeOK
<1>8. ASSUME NEW c \in Client, NEW r \in Ref, Unsubscribe(c, r) PROVE TypeOK'
  <2>1. Entry(r, "deleted") \in Entries
    BY DEF Entries
  <2>2. m_idRefMap' \in [Client -> [Id -> Entries]]
    BY <1>8, <2>1 DEF Unsubscribe, TypeOK
  <2>3. /\ subs' \in [Client -> SUBSET Ref] /\ m_changedRefs' \in [Client -> SUBSET Ref]
        /\ udpId' \in [Ref -> 0..MaxId] /\ valid' \subseteq Ref
    <3>1. CASE c \in connected
      <4>1. subs' = [subs EXCEPT ![c] = @ \ {r}] /\ m_changedRefs' = [m_changedRefs EXCEPT ![c] = @ \ {r}]
        BY <1>8, <3>1 DEF Unsubscribe, ServerUnsub
      <4>2. udpId' \in [Ref -> 0..MaxId] /\ valid' \subseteq Ref
        <5> DEFINE names == {r} \cap {q \in Ref : Holders(q) = {c}}
        <5>1. GiveUp(names)
          BY <1>8, <3>1 DEF Unsubscribe, ServerUnsub
        <5> HIDE DEF names
        <5>2. QED
          BY <5>1, MaxIdIsPositive DEF GiveUp, TypeOK
      <4>3. QED
        BY <4>1, <4>2 DEF TypeOK
    <3>2. CASE c \notin connected
      BY <1>8, <3>2 DEF Unsubscribe, TypeOK
    <3>3. QED
      BY <3>1, <3>2
  <2>4. QED
    BY <1>8, <2>2, <2>3 DEF Unsubscribe, TypeOK
<1>9. ASSUME NEW c \in Client, NEW r \in Ref, SetValue(c, r) PROVE TypeOK'
  BY <1>9 DEF SetValue, clients, TypeOK
<1>10. ASSUME NEW c \in Client, NEW d \in dgrams[c], ReadDatagram(c, d) PROVE TypeOK'
  <2>1. Null \in Entries
    BY DEF Entries
  <2>2. m_idRefMap' \in [Client -> [Id -> Entries]]
    BY <1>10, <2>1 DEF ReadDatagram, TypeOK
  <2>3. dgrams' \in [Client -> SUBSET SUBSET Id]
    BY <1>10 DEF ReadDatagram, TypeOK
  <2>4. QED
    BY <1>10, <2>2, <2>3 DEF ReadDatagram, server, TypeOK
<1>11. ASSUME NEW c \in Client, NEW d \in dgrams[c], Lose(c, d) PROVE TypeOK'
  BY <1>11 DEF Lose, server, clients, TypeOK
<1>12. QED
  BY Kinds, <1>1, <1>2, <1>3, <1>4, <1>5, <1>6, <1>7, <1>8, <1>9, <1>10, <1>11

\* Every step keeps the senders' lists exact.
LEMMA ListStep ==
  ASSUME TypeOK, HeldIsLive, ListIsExact, [Next]_vars
  PROVE  ListIsExact'
<1> USE DEF ListIsExact
<1>1. CASE UNCHANGED vars
  BY <1>1 DEF vars
<1>2. CASE FlightLoop
  BY <1>2 DEF FlightLoop, SenderList
<1>3. ASSUME NEW c \in Client, Ends(c) PROVE ListIsExact'
  BY <1>3 DEF Ends, ServerDrop, TypeOK
<1>4. ASSUME NEW c \in Client, Opens(c) \/ Reads(c) PROVE ListIsExact'
  BY <1>4 DEF Opens, Reads, server
<1>5. ASSUME NEW c \in Client, NEW r \in Ref, Asks(c, r) PROVE ListIsExact'
  BY <1>5 DEF Asks, Subbed, TypeOK
<1>6. ASSUME NEW c \in Client, NEW r \in Ref, Notes(c, r) PROVE ListIsExact'
  BY <1>6 DEF Notes, server
<1>7. ASSUME NEW c \in Client, NEW r \in Ref, Unsubscribe(c, r) PROVE ListIsExact'
  <2>1. c \notin connected => m_changedRefs[c] = {} /\ stale[c] = {}
    BY DEF HeldIsLive
  <2>2. QED
    BY <1>7, <2>1 DEF Unsubscribe, ServerUnsub, TypeOK
<1>8. ASSUME NEW c \in Client, NEW r \in Ref, SetValue(c, r) PROVE ListIsExact'
  BY <1>8 DEF SetValue, TypeOK
<1>9. ASSUME NEW c \in Client, NEW d \in dgrams[c], ReadDatagram(c, d) \/ Lose(c, d)
      PROVE  ListIsExact'
  BY <1>9 DEF ReadDatagram, Lose, server
<1>10. QED
  BY Kinds, <1>1, <1>2, <1>3, <1>4, <1>5, <1>6, <1>7, <1>8, <1>9

\* Every step keeps objects for exactly the names somebody holds.
LEMMA HeldStep ==
  ASSUME TypeOK, HeldIsLive, NumberedIsHeld, [Next]_vars
  PROVE  NumberedIsHeld'
<1> USE DEF NumberedIsHeld, Holders
<1>1. CASE UNCHANGED <<subs, udpId>>
  BY <1>1
<1>2. ASSUME NEW c \in Client, Ends(c) PROVE NumberedIsHeld'
  BY <1>2 DEF Ends, ServerDrop, GiveUp, TypeOK
<1>3. ASSUME NEW c \in Client, NEW r \in Ref, Asks(c, r) PROVE NumberedIsHeld'
  <2>1. PICK i \in Id : Subbed(c, r, i)
    BY <1>3 DEF Asks
  <2>2. i # 0
    BY MaxIdIsPositive DEF Id
  <2>3. QED
    BY <2>1, <2>2 DEF Subbed, TypeOK
<1>4. ASSUME NEW c \in Client, NEW r \in Ref, Unsubscribe(c, r) PROVE NumberedIsHeld'
  <2>1. CASE c \in connected
    <3>1. subs' = [subs EXCEPT ![c] = @ \ {r}]
      BY <1>4, <2>1 DEF Unsubscribe, ServerUnsub
    <3>2. udpId' = [q \in Ref |-> IF q = r /\ Holders(q) = {c} THEN 0 ELSE udpId[q]]
      BY <1>4, <2>1 DEF Unsubscribe, ServerUnsub, GiveUp
    <3>3. QED
      BY <3>1, <3>2 DEF TypeOK
  <2>2. CASE c \notin connected
    BY <1>1, <1>4, <2>2 DEF Unsubscribe
  <2>3. QED
    BY <2>1, <2>2
<1>5. QED
  BY Kinds, <1>1, <1>2, <1>3, <1>4
     DEF vars, FlightLoop, Opens, Reads, Notes, SetValue, ReadDatagram, Lose, server

\* Every step keeps what is held in the client's map.
LEMMA LiveStep ==
  ASSUME TypeOK, HeldIsLive, [Next]_vars
  PROVE  HeldIsLive'
<1> USE DEF HeldIsLive
<1>1. CASE UNCHANGED <<connected, subs, toSub, dataRefs, tcp>>
  BY <1>1
<1>2. ASSUME NEW c \in Client, Ends(c) PROVE HeldIsLive'
  BY <1>2 DEF Ends, ServerDrop, Without, TypeOK
<1>3. ASSUME NEW c \in Client, Opens(c) PROVE HeldIsLive'
  BY <1>3 DEF Opens, TypeOK
<1>4. ASSUME NEW c \in Client, Reads(c) PROVE HeldIsLive'
  <2>1. Head(tcp[c]).ref \in Ref
    BY <1>4, TailOfLines DEF Reads, TypeOK, Lines
  <2>2. \A d \in Client, r \in Ref : dataRefs[d][r] = "live" => dataRefs'[d][r] = "live"
    <3> DEFINE n == Head(tcp[c]).ref
               read == [dataRefs[c] EXCEPT ![n] = IF @ = "absent" THEN "null" ELSE @]
    <3>1. \A r \in Ref : dataRefs[c][r] = "live" => read[r] = "live"
      BY DEF TypeOK
    <3>2. dataRefs' \in {dataRefs, [dataRefs EXCEPT ![c] = read]}
      BY <1>4 DEF Reads
    <3> HIDE DEF read
    <3>3. QED
      BY <3>1, <3>2 DEF TypeOK
  <2>3. QED
    BY <1>4, <2>2 DEF Reads, server, TypeOK
<1>5. ASSUME NEW c \in Client, NEW r \in Ref, Asks(c, r) PROVE HeldIsLive'
  BY <1>5 DEF Asks, Subbed, TypeOK
<1>6. ASSUME NEW c \in Client, NEW r \in Ref, Notes(c, r) PROVE HeldIsLive'
  BY <1>6 DEF Notes, server, TypeOK
<1>7. ASSUME NEW c \in Client, NEW r \in Ref, Unsubscribe(c, r) PROVE HeldIsLive'
  BY <1>7 DEF Unsubscribe, ServerUnsub, TypeOK
<1>8. QED
  BY Kinds, <1>1, <1>2, <1>3, <1>4, <1>5, <1>6, <1>7
     DEF vars, FlightLoop, SetValue, ReadDatagram, Lose, server, clients

-----------------------------------------------------------------------------
(* Numbers *)

\* A step gives numbers a meaning they do not have already only by handing out a fresh one.
LEMMA Meanings ==
  ASSUME TypeOK, HeldIsLive, [Next]_vars
  PROVE  \/ /\ m_nextFreeId' = m_nextFreeId
            /\ \A i, r : Means(i, r)' => Means(i, r)
         \/ /\ m_nextFreeId' = m_nextFreeId + 1
            /\ \E q \in Ref : \A i, r :
                 Means(i, r)' => Means(i, r) \/ (i = m_nextFreeId + 1 /\ r = q)
<1> DEFINE Same == /\ m_nextFreeId' = m_nextFreeId
                   /\ \A i, r : Means(i, r)' => Means(i, r)
           Fresh(q) == /\ m_nextFreeId' = m_nextFreeId + 1
                       /\ \A i, r :
                            Means(i, r)' => Means(i, r) \/ (i = m_nextFreeId + 1 /\ r = q)
<1> SUFFICES Same \/ \E q \in Ref : Fresh(q)
  OBVIOUS
<1>1. CASE UNCHANGED <<m_nextFreeId, udpId, tcp, m_idRefMap>>
  BY <1>1 DEF Means, AtServer, OnWire, InMap
<1>2. ASSUME NEW c \in Client, Ends(c) PROVE Same
  <2>1. m_nextFreeId' = m_nextFreeId
    BY <1>2 DEF Ends, ServerDrop
  <2>2. ASSUME NEW i, NEW r, AtServer(i, r)' PROVE AtServer(i, r)
    BY <1>2, <2>2 DEF Ends, ServerDrop, GiveUp, AtServer
  <2>3. ASSUME NEW i, NEW r, NEW d \in Client, OnWire(d, i, r)' PROVE OnWire(d, i, r)
    BY <1>2, <2>3 DEF Ends, ServerDrop, OnWire, TypeOK
  <2>4. ASSUME NEW i, NEW r, NEW d \in Client, InMap(d, i, r)' PROVE InMap(d, i, r)
    BY <1>2, <2>4 DEF Ends, InMap, EmptyMap, Absent, Entry, TypeOK
  <2>5. QED
    BY <2>1, <2>2, <2>3, <2>4 DEF Means
<1>3. ASSUME NEW c \in Client, Reads(c) PROVE Same
  <2> DEFINE line == Head(tcp[c])
  <2>1. /\ m_nextFreeId' = m_nextFreeId /\ udpId' = udpId
        /\ tcp' = [tcp EXCEPT ![c] = Tail(@)]
        /\ m_idRefMap' = IF line.kind = "udp" /\ dataRefs[c][line.ref] = "live"
                           THEN [m_idRefMap EXCEPT ![c] = Inserted(@, line.id, line.ref)]
                           ELSE m_idRefMap
    BY <1>3 DEF Reads, server
  <2>2. /\ Len(tcp[c]) \in Nat \ {0} /\ line = tcp[c][1]
        /\ Len(Tail(tcp[c])) = Len(tcp[c]) - 1
        /\ \A k \in 1..Len(Tail(tcp[c])) : Tail(tcp[c])[k] = tcp[c][k + 1]
    BY <1>3, TailOfLines DEF Reads, TypeOK
  <2> HIDE DEF line
  <2>3. ASSUME NEW i, NEW r, NEW d \in Client, OnWire(d, i, r)' PROVE OnWire(d, i, r)
    <3>1. CASE d # c
      BY <2>1, <2>3, <3>1 DEF OnWire, TypeOK
    <3>2. CASE d = c
      <4>1. tcp'[c] = Tail(tcp[c])
        BY <2>1 DEF TypeOK
      <4>2. PICK k \in 1..Len(Tail(tcp[c])) :
              Tail(tcp[c])[k].kind = "udp" /\ Tail(tcp[c])[k].id = i /\ Tail(tcp[c])[k].ref = r
        BY <2>3, <3>2, <4>1 DEF OnWire
      <4>3. k + 1 \in 1..Len(tcp[c]) /\ Tail(tcp[c])[k] = tcp[c][k + 1]
        BY <2>2
      <4>4. QED
        BY <3>2, <4>2, <4>3 DEF OnWire
    <3>3. QED
      BY <3>1, <3>2
  <2>4. ASSUME NEW i, NEW r, NEW d \in Client, InMap(d, i, r)' PROVE InMap(d, i, r) \/ OnWire(d, i, r)
    <3>1. CASE m_idRefMap'[d][i] = m_idRefMap[d][i]
      BY <2>4, <3>1 DEF InMap
    <3>2. CASE m_idRefMap'[d][i] # m_idRefMap[d][i]
      <4>1. /\ d = c /\ line.kind = "udp"
            /\ m_idRefMap'[d] = Inserted(m_idRefMap[d], line.id, line.ref)
        BY <2>1, <3>2 DEF TypeOK
      <4>2. i = line.id /\ m_idRefMap'[d][i].ref = line.ref
        BY <2>4, <3>2, <4>1 DEF Inserted, Entry, InMap, TypeOK
      <4>3. r = line.ref
        BY <2>4, <4>2 DEF InMap
      <4>4. QED
        BY <2>2, <4>1, <4>2, <4>3 DEF OnWire
    <3>3. QED
      BY <3>1, <3>2
  <2>5. QED
    BY <2>1, <2>3, <2>4 DEF Means, AtServer
<1>4. ASSUME NEW c \in Client, NEW q \in Ref, Asks(c, q) PROVE Same \/ Fresh(q)
  <2>1. PICK j \in Id : Subbed(c, q, j)
    BY <1>4 DEF Asks
  <2>2. ASSUME NEW i, NEW r, AtServer(i, r)' PROVE AtServer(i, r) \/ (i = j /\ r = q)
    BY <2>1, <2>2 DEF Subbed, AtServer, TypeOK
  <2>3. ASSUME NEW i, NEW r, NEW d \in Client, OnWire(d, i, r)'
        PROVE  OnWire(d, i, r) \/ (i = j /\ r = q)
    <3>1. CASE d # c
      BY <2>1, <2>3, <3>1 DEF OnWire, Subbed, TypeOK
    <3>2. CASE d = c
      <4> DEFINE t == tcp[c] \o Answer(q, j)
      <4>1. /\ Len(tcp[c]) \in Nat
            /\ \A k \in 1..Len(tcp[c]) : t[k] = tcp[c][k]
            /\ \A k \in 1..Len(t) :
                 k > Len(tcp[c]) /\ t[k].kind = "udp" => t[k].id = j /\ t[k].ref = q
        BY AnswerFollows DEF TypeOK
      <4>2. tcp'[c] = t
        BY <2>1 DEF Subbed, TypeOK
      <4> HIDE DEF t
      <4>3. PICK k \in 1..Len(t) : t[k].kind = "udp" /\ t[k].id = i /\ t[k].ref = r
        BY <2>3, <3>2, <4>2 DEF OnWire
      <4>4. CASE k > Len(tcp[c])
        BY <4>1, <4>3, <4>4
      <4>5. CASE k <= Len(tcp[c])
        <5>1. k \in 1..Len(tcp[c]) /\ t[k] = tcp[c][k]
          BY <4>1, <4>5
        <5>2. QED
          BY <3>2, <4>3, <5>1 DEF OnWire
      <4>6. QED
        BY <4>1, <4>4, <4>5
    <3>3. QED
      BY <3>1, <3>2
  <2>4. \A i, r : \A d \in Client : InMap(d, i, r)' => InMap(d, i, r)
    BY <1>4 DEF Asks, InMap
  <2>5. \A i, r : Means(i, r)' => Means(i, r) \/ (i = j /\ r = q)
    BY <2>2, <2>3, <2>4 DEF Means
  <2>6. CASE udpId[q] = 0
    BY <2>1, <2>5, <2>6 DEF Subbed
  <2>7. CASE udpId[q] # 0
    BY <2>1, <2>5, <2>7 DEF Subbed, Means, AtServer
  <2>8. QED
    BY <2>6, <2>7
<1>5. ASSUME NEW c \in Client, NEW q \in Ref, Unsubscribe(c, q) PROVE Same
  <2>1. \A r \in Ref : udpId'[r] \in {0, udpId[r]}
    BY <1>5 DEF Unsubscribe, ServerUnsub, GiveUp
  <2>2. m_nextFreeId' = m_nextFreeId /\ tcp' = tcp
    BY <1>5 DEF Unsubscribe
  <2>3. \A d \in Client, i \in Id : m_idRefMap'[d][i].ref = m_idRefMap[d][i].ref
    BY <1>5 DEF Unsubscribe, Entry, TypeOK
  <2>4. QED
    BY <2>1, <2>2, <2>3 DEF Means, AtServer, OnWire, InMap
<1>6. ASSUME NEW c \in Client, NEW d \in dgrams[c], ReadDatagram(c, d) PROVE Same
  <2>1. UNCHANGED <<m_nextFreeId, udpId, tcp>>
    BY <1>6 DEF ReadDatagram, server
  <2>2. \A e \in Client, i \in Id :
          m_idRefMap'[e][i] = m_idRefMap[e][i] \/ m_idRefMap'[e][i].ref = NoRef
    BY <1>6 DEF ReadDatagram, Null, Entry, TypeOK
  <2>3. QED
    BY <2>1, <2>2 DEF Means, AtServer, OnWire, InMap
<1> HIDE DEF Same, Fresh
<1>7. QED
  BY Kinds, <1>1, <1>2, <1>3, <1>4, <1>5, <1>6
     DEF vars, FlightLoop, Opens, Notes, SetValue, Lose, server, clients

\* Every step keeps numbers among those handed out, each with one meaning.
LEMMA NumberStep ==
  ASSUME TypeOK, HeldIsLive, Handed, Unique, [Next]_vars
  PROVE  Handed' /\ Unique'
<1>1. m_nextFreeId \in Nat
  BY MaxIdIsPositive DEF TypeOK
<1>2. CASE m_nextFreeId' = m_nextFreeId /\ \A i, r : Means(i, r)' => Means(i, r)
  BY <1>2 DEF Handed, Unique
<1>3. ASSUME m_nextFreeId' = m_nextFreeId + 1, NEW q \in Ref,
             \A i, r : Means(i, r)' => Means(i, r) \/ (i = m_nextFreeId + 1 /\ r = q)
      PROVE  Handed' /\ Unique'
  <2>1. \A r : ~Means(m_nextFreeId + 1, r)
    BY <1>1 DEF Handed
  <2>2. QED
    BY <1>1, <1>3, <2>1 DEF Handed, Unique
<1>4. QED
  BY Meanings, <1>2, <1>3

-----------------------------------------------------------------------------
(* Announcements *)

\* A client knows its way from r's number: there is a line before it, or an entry.
Announced(c, r) == OnWire(c, udpId[r], r) \/ m_idRefMap[c][udpId[r]] # Absent

\* The invariant says that of whatever is held.
LEMMA AnnouncedDef == EveryNumberAnnounced <=> \A c \in Client : \A r \in subs[c] : Announced(c, r)
  BY DEF EveryNumberAnnounced, Announcing, Announced, OnWire

\* What is held has a number.
LEMMA HeldNumber ==
  ASSUME TypeOK, NumberedIsHeld, NEW c \in Client, NEW r \in subs[c]
  PROVE  r \in Ref /\ udpId[r] \in Id
  BY MaxIdIsPositive DEF TypeOK, NumberedIsHeld, Holders, Id

\* An announcement is made with the sub, and stays until it is taken.
LEMMA AnnouncedStep ==
  ASSUME TypeOK, NumberedIsHeld, HeldIsLive, EveryNumberAnnounced, [Next]_vars
  PROVE  EveryNumberAnnounced'
<1> SUFFICES ASSUME NEW d \in Client, NEW q \in subs'[d] PROVE Announced(d, q)'
  BY DEF EveryNumberAnnounced, Announcing, Announced, OnWire
<1> USE DEF Announced
<1>1. q \in subs[d] => q \in Ref /\ udpId[q] \in Id /\ Announced(d, q)
  BY AnnouncedDef, HeldNumber
<1>2. CASE UNCHANGED <<subs, udpId, tcp, m_idRefMap>>
  BY <1>1, <1>2 DEF OnWire
<1>3. ASSUME NEW c \in Client, Ends(c) PROVE Announced(d, q)'
  <2>1. d # c /\ q \in subs[d]
    BY <1>3 DEF Ends, ServerDrop, TypeOK
  <2>2. d \in Holders(q) /\ udpId'[q] = udpId[q]
    BY <1>1, <1>3, <2>1 DEF Ends, ServerDrop, GiveUp, Holders
  <2>3. tcp'[d] = tcp[d] /\ m_idRefMap'[d] = m_idRefMap[d]
    BY <1>3, <2>1 DEF Ends, ServerDrop, TypeOK
  <2>4. QED
    BY <1>1, <2>1, <2>2, <2>3 DEF OnWire
<1>4. ASSUME NEW c \in Client, Reads(c) PROVE Announced(d, q)'
  <2> DEFINE line == Head(tcp[c])
  <2>1. /\ subs' = subs /\ udpId' = udpId
        /\ tcp' = [tcp EXCEPT ![c] = Tail(@)]
        /\ m_idRefMap' = IF line.kind = "udp" /\ dataRefs[c][line.ref] = "live"
                           THEN [m_idRefMap EXCEPT ![c] = Inserted(@, line.id, line.ref)]
                           ELSE m_idRefMap
    BY <1>4 DEF Reads, server
  <2>2. /\ Len(tcp[c]) \in Nat \ {0} /\ line = tcp[c][1]
        /\ Len(Tail(tcp[c])) = Len(tcp[c]) - 1
        /\ \A k \in 1..Len(Tail(tcp[c])) : Tail(tcp[c])[k] = tcp[c][k + 1]
    BY <1>4, TailOfLines DEF Reads, TypeOK
  <2> HIDE DEF line
  <2>3. q \in Ref /\ udpId[q] \in Id /\ Announced(d, q)
    BY <1>1, <2>1
  <2>4. CASE m_idRefMap[d][udpId[q]] # Absent
    <3>1. m_idRefMap'[d][udpId[q]] = m_idRefMap[d][udpId[q]]
      BY <2>1, <2>3, <2>4 DEF Inserted, TypeOK
    <3>2. QED
      BY <2>1, <2>4, <3>1
  <2>5. ASSUME NEW k \in 1..Len(tcp[d]),
               tcp[d][k].kind = "udp" /\ tcp[d][k].id = udpId[q] /\ tcp[d][k].ref = q
        PROVE  Announced(d, q)'
    <3>1. CASE d # c
      BY <2>1, <2>5, <3>1 DEF OnWire, TypeOK
    <3>2. CASE d = c /\ k = 1
      <4>1. line.kind = "udp" /\ line.id = udpId[q] /\ line.ref = q /\ dataRefs[c][q] = "live"
        BY <2>1, <2>2, <2>5, <3>2 DEF HeldIsLive
      <4>2. m_idRefMap'[c] = Inserted(m_idRefMap[c], udpId[q], q)
        BY <2>1, <4>1 DEF TypeOK
      <4>3. m_idRefMap'[c][udpId[q]] # Absent
        BY <2>3, <4>2 DEF Inserted, Absent, Entry, TypeOK
      <4>4. QED
        BY <2>1, <3>2, <4>3
    <3>3. CASE d = c /\ k # 1
      <4>1. k - 1 \in 1..Len(Tail(tcp[c])) /\ Tail(tcp[c])[k - 1] = tcp[c][k]
        BY <2>2, <3>3
      <4>2. tcp'[c] = Tail(tcp[c])
        BY <2>1 DEF TypeOK
      <4>3. QED
        BY <2>1, <2>5, <3>3, <4>1, <4>2 DEF OnWire
    <3>4. QED
      BY <3>1, <3>2, <3>3
  <2>6. QED
    BY <2>3, <2>4, <2>5 DEF OnWire
<1>5. ASSUME NEW c \in Client, NEW r \in Ref, Asks(c, r) PROVE Announced(d, q)'
  <2>1. PICK i \in Id : Subbed(c, r, i)
    BY <1>5 DEF Asks
  <2> DEFINE t == tcp[c] \o Answer(r, i)
  <2>2. /\ Len(tcp[c]) \in Nat /\ Len(t) \in Nat /\ Len(tcp[c]) <= Len(t)
        /\ \A k \in 1..Len(tcp[c]) : t[k] = tcp[c][k]
        /\ \E k \in 1..Len(t) : t[k].kind = "udp" /\ t[k].id = i /\ t[k].ref = r
    BY AnswerFollows DEF TypeOK
  <2>3. tcp'[c] = t /\ (d # c => tcp'[d] = tcp[d])
    BY <2>1 DEF Subbed, TypeOK
  <2> HIDE DEF t
  <2>4. CASE d = c /\ q = r
    <3>1. udpId'[q] = i
      BY <2>1, <2>4 DEF Subbed, TypeOK
    <3>2. QED
      BY <2>2, <2>3, <2>4, <3>1 DEF OnWire
  <2>5. CASE ~(d = c /\ q = r)
    <3>1. q \in subs[d]
      BY <2>1, <2>5 DEF Subbed, TypeOK
    <3>2. udpId[q] # 0
      BY <1>1, <3>1 DEF NumberedIsHeld, Holders
    <3>3. udpId'[q] = udpId[q]
      BY <1>1, <2>1, <3>1, <3>2 DEF Subbed, TypeOK
    <3>4. \A k \in 1..Len(tcp[d]) : k \in 1..Len(tcp'[d]) /\ tcp'[d][k] = tcp[d][k]
      BY <2>2, <2>3
    <3>5. m_idRefMap' = m_idRefMap
      BY <1>5 DEF Asks
    <3>6. CASE OnWire(d, udpId[q], q)
      <4>1. PICK k \in 1..Len(tcp[d]) :
              tcp[d][k].kind = "udp" /\ tcp[d][k].id = udpId[q] /\ tcp[d][k].ref = q
        BY <3>6 DEF OnWire
      <4>2. QED
        BY <3>3, <3>4, <4>1 DEF OnWire
    <3>7. QED
      BY <1>1, <3>1, <3>3, <3>5, <3>6
  <2>6. QED
    BY <2>4, <2>5
<1>6. ASSUME NEW c \in Client, NEW r \in Ref, Unsubscribe(c, r) PROVE Announced(d, q)'
  <2>1. q \in subs[d]
    <3>1. subs' = [subs EXCEPT ![c] = @ \ {r}] \/ subs' = subs
      BY <1>6 DEF Unsubscribe, ServerUnsub
    <3>2. QED
      BY <3>1 DEF TypeOK
  <2>2. udpId'[q] = udpId[q]
    <3>1. CASE c \in connected
      <4>1. GiveUp({r} \cap {p \in Ref : Holders(p) = {c}})
        BY <1>6, <3>1 DEF Unsubscribe, ServerUnsub
      <4>2. d \in Holders(q) /\ ~(d = c /\ q = r)
        BY <1>6, <2>1, <3>1 DEF Unsubscribe, ServerUnsub, Holders, TypeOK
      <4>3. QED
        BY <1>1, <2>1, <4>1, <4>2 DEF GiveUp
    <3>2. CASE c \notin connected
      BY <1>6, <3>2 DEF Unsubscribe
    <3>3. QED
      BY <3>1, <3>2
  <2>3. \A i \in Id : m_idRefMap[d][i] # Absent => m_idRefMap'[d][i] # Absent
    BY <1>6 DEF Unsubscribe, Absent, Entry, TypeOK
  <2>4. tcp' = tcp
    BY <1>6 DEF Unsubscribe
  <2>5. QED
    BY <1>1, <2>1, <2>2, <2>3, <2>4 DEF OnWire
<1>7. ASSUME NEW c \in Client, NEW g \in dgrams[c], ReadDatagram(c, g) PROVE Announced(d, q)'
  <2>1. UNCHANGED <<subs, udpId, tcp>>
    BY <1>7 DEF ReadDatagram, server
  <2>2. \A i \in Id : m_idRefMap[d][i] # Absent => m_idRefMap'[d][i] # Absent
    BY <1>7 DEF ReadDatagram, TypeOK
  <2>3. QED
    BY <1>1, <2>1, <2>2 DEF OnWire
<1>8. QED
  BY Kinds, <1>2, <1>3, <1>4, <1>5, <1>6, <1>7
     DEF vars, FlightLoop, Opens, Notes, SetValue, Lose, server, clients

-----------------------------------------------------------------------------
(* The theorems *)

\* The initial state: nobody is connected, no number is in use.
LEMMA InitIInv == Init => IInv
<1> SUFFICES ASSUME Init PROVE IInv
  OBVIOUS
<1>1. EmptyMap \in [Id -> Entries] /\ <<>> \in Seq(Lines) /\ Len(<<>>) = 0
  BY DEF EmptyMap, Entries
<1>2. TypeOK
  BY <1>1, MaxIdIsPositive DEF Init, TypeOK
<1>3. ListIsExact /\ NumberedIsHeld /\ HeldIsLive /\ EveryNumberAnnounced
  BY DEF Init, ListIsExact, NumberedIsHeld, Holders, HeldIsLive, EveryNumberAnnounced
<1>4. \A i, r : ~Means(i, r)
  BY <1>1 DEF Init, Means, AtServer, OnWire, InMap, EmptyMap, Absent, Entry
<1>5. QED
  BY <1>2, <1>3, <1>4 DEF IInv, Handed, Unique

\* The inductive invariant holds in every reachable state.
THEOREM UdpInvariance == Spec => []IInv
<1>1. IInv /\ [Next]_vars => IInv'
  BY TypeStep, ListStep, HeldStep, LiveStep, NumberStep, AnnouncedStep DEF IInv
<1>2. QED
  BY InitIInv, <1>1, PTL DEF Spec

\* Every variable keeps its type; datagrams carry numbers of datarefs only.
THEOREM UdpTypeCorrect == Spec => []TypeOK
  BY UdpInvariance, PTL DEF IInv

\* A sender's list has all that its client was not sent, and only what its client holds,
\* so the flight loop never reads a deleted object from it.
THEOREM SenderListExact == Spec => []ListIsExact
  BY UdpInvariance, PTL DEF IInv

\* A number never changes hands, whichever line, datagram or map entry still has it.
THEOREM NumbersNeverChangeHands == Spec => []OneRefPerNumber
<1>1. ASSUME NEW b \in Bindings PROVE Means(b[1], b[2])
  <2>1. CASE b \in {<<udpId[r], r>> : r \in {q \in Ref : udpId[q] # 0}}
    BY <2>1 DEF Means, AtServer
  <2>2. ASSUME NEW c \in Client,
               b \in {<<tcp[c][k].id, tcp[c][k].ref>> :
                        k \in {j \in 1..Len(tcp[c]) : tcp[c][j].kind = "udp"}}
        PROVE  Means(b[1], b[2])
    BY <2>2 DEF Means, OnWire
  <2>3. ASSUME NEW c \in Client,
               b \in {<<i, m_idRefMap[c][i].ref>> :
                        i \in {j \in Id : m_idRefMap[c][j].ref # NoRef}}
        PROVE  Means(b[1], b[2])
    BY <2>3 DEF Means, InMap
  <2>4. QED
    BY <2>1, <2>2, <2>3, Zenon DEF Bindings
<1>2. IInv => OneRefPerNumber
  BY <1>1 DEF IInv, Handed, Unique, OneRefPerNumber
<1>3. QED
  BY UdpInvariance, <1>2, PTL

\* Whoever holds a dataref is told its number or has an entry under it.
THEOREM HoldersAreTold == Spec => []EveryNumberAnnounced
  BY UdpInvariance, PTL DEF IInv
=============================================================================
