-------------------------- MODULE ClientRefsProofs --------------------------
(***************************************************************************)
(* Proofs about module ClientRefs, for any elements, callers, names and    *)
(* memory.                                                                 *)
(*                                                                         *)
(* That users have live refs and counts cover users is not inductive: a    *)
(* ref that is shared must be found again under its name, and C++ code     *)
(* that gives a ref up by name must hit the one it holds.  Both hold       *)
(* because each live ref is the one entry under its name (LiveIsEntered).  *)
(*                                                                         *)
(* A call often lets go of one ref and takes another.  So the invariant is *)
(* stated of any library s that elements with the refs m and the names nm  *)
(* and callers with the refs h use over the connection b (Sound), and each *)
(* half of a call keeps that.                                              *)
(***************************************************************************)
EXTENDS ClientRefs, FiniteSetTheorems, TLAPS

\* A live ref has a subscriber, and is what its name leads to.
LiveIsEntered(s) ==
  \A o \in Obj : s.ref[o].life = "live" =>
    /\ s.ref[o].subscribers > 0
    /\ s.ref[o].name \in Name
    /\ s.dataRefs[s.ref[o].simulated][s.ref[o].name] = o

LibOK(s) ==
  /\ s \in Libs
  /\ \A b \in BOOLEAN, n \in Name : EntrySound(s, b, n)
  /\ LiveIsEntered(s)

Count(S, m, o) == Cardinality({e \in S : m[e] = o})

\* UsedIsLive and CountCoversUsers of any library and users.
Sound(s, m, nm, h, b) ==
  /\ LibOK(s)
  /\ m \in [Elem -> Obj \cup {NoObj}] /\ h \in [Caller -> Obj \cup {NoObj}]
  /\ \A o \in s.m_dataRefs : s.ref[o].life # "free" /\ s.ref[o].simulated = b
  /\ \A e \in Elem : m[e] # NoObj =>
       s.ref[m[e]].life = "live" /\ s.ref[m[e]].name = nm[e] /\ s.ref[m[e]].simulated = b
  /\ \A c \in Caller : h[c] # NoObj => s.ref[h[c]].life = "live" /\ s.ref[h[c]].simulated = b
  /\ \A o \in Obj : s.ref[o].life = "live" =>
       s.ref[o].subscribers >= Count(Elem, m, o) + Count(Caller, h, o)

\* The inductive invariant.
IInv ==
  /\ TypeOK
  /\ Sound(lib, m_clientDataRef, m_name, held, m_simulated)
  /\ \A e \in Elem \ alive : m_name[e] = NoName

-----------------------------------------------------------------------------
(* Counting users *)

\* Counts are numbers; nobody is counted when the count is zero.
LEMMA CountNat ==
  ASSUME NEW S, IsFiniteSet(S), NEW m, NEW o
  PROVE  /\ Count(S, m, o) \in Nat
         /\ Count(S, m, o) = 0 <=> \A e \in S : m[e] # o
<1> DEFINE T == {e \in S : m[e] = o}
<1>1. T \in SUBSET S
  OBVIOUS
<1>2. IsFiniteSet(T)
  BY <1>1, FS_Subset
<1>3. Cardinality(T) \in Nat /\ (Cardinality(T) = 0 <=> T = {})
  BY <1>2, FS_CardinalityType, FS_EmptySet
<1>4. QED
  BY <1>3 DEF Count

\* Fewer users count no more.
LEMMA CountLess ==
  ASSUME NEW S, IsFiniteSet(S), NEW m, NEW o, NEW p, NEW q,
         \A e \in S : q[e] = p => m[e] = o
  PROVE  Count(S, q, p) <= Count(S, m, o)
<1> DEFINE T == {e \in S : m[e] = o}
           U == {e \in S : q[e] = p}
<1>1. T \in SUBSET S /\ U \in SUBSET T
  OBVIOUS
<1>2. IsFiniteSet(T)
  BY <1>1, FS_Subset
<1>3. Cardinality(U) <= Cardinality(T)
  BY <1>1, <1>2, FS_Subset
<1>4. QED
  BY <1>3 DEF Count

\* One user who exchanges what it has, counts one less there and one more here.
LEMMA Recount ==
  ASSUME NEW S, IsFiniteSet(S), NEW e \in S, NEW m, NEW q,
         \A d \in S : d # e => q[d] = m[d]
  PROVE  \A o : Count(S, q, o)
                  = Count(S, m, o) + (IF q[e] = o THEN 1 ELSE 0) - (IF m[e] = o THEN 1 ELSE 0)
<1> TAKE o
<1> DEFINE B == {d \in S : m[d] = o}
           A == {d \in S : q[d] = o}
<1>1. B \in SUBSET S
  OBVIOUS
<1>2. IsFiniteSet(B)
  BY <1>1, FS_Subset
<1>3. Cardinality(B) \in Nat
  BY <1>2, FS_CardinalityType
<1>4. Cardinality(A)
        = Cardinality(B) + (IF q[e] = o THEN 1 ELSE 0) - (IF m[e] = o THEN 1 ELSE 0)
  <2>1. CASE m[e] = o /\ q[e] # o
    <3>1. A = B \ {e} /\ e \in B
      BY <2>1
    <3>2. Cardinality(A) = Cardinality(B) - 1
      BY <1>2, <3>1, FS_RemoveElement
    <3>3. QED
      BY <1>3, <2>1, <3>2
  <2>2. CASE m[e] # o /\ q[e] = o
    <3>1. A = B \cup {e} /\ e \notin B
      BY <2>2
    <3>2. Cardinality(A) = Cardinality(B) + 1
      BY <1>2, <3>1, FS_AddElement
    <3>3. QED
      BY <1>3, <2>2, <3>2
  <2>3. CASE m[e] = o <=> q[e] = o
    <3>1. A = B
      BY <2>3
    <3>2. QED
      BY <1>3, <2>3, <3>1
  <2>4. QED
    BY <2>1, <2>2, <2>3
<1>5. QED
  BY <1>4 DEF Count

-----------------------------------------------------------------------------
(* The operations on a library *)

\* One user less of a ref: without any it is doomed and its name leads nowhere.
LEMMA UnsubscribedRef ==
  ASSUME NEW s, LibOK(s), NEW o \in Obj, s.ref[o].life = "live"
  PROVE  LET t == Unsubscribed(s, o)
             last == s.ref[o].subscribers = 1
         IN  /\ LibOK(t)
             /\ t.m_dataRefs = s.m_dataRefs
             /\ \A p \in Obj : p # o => t.ref[p] = s.ref[p]
             /\ t.ref[o].subscribers = s.ref[o].subscribers - 1
             /\ t.ref[o].name = s.ref[o].name /\ t.ref[o].simulated = s.ref[o].simulated
             /\ t.ref[o].life = IF last THEN "doomed" ELSE "live"
<1> DEFINE n == s.ref[o].name
           b == s.ref[o].simulated
           left == s.ref[o].subscribers - 1
           r == [s.ref[o] EXCEPT !.subscribers = left, !.life = IF left > 0 THEN @ ELSE "doomed"]
           t == Unsubscribed(s, o)
<1>1. /\ n \in Name /\ b \in BOOLEAN /\ s.dataRefs[b][n] = o
      /\ s.ref[o].subscribers \in Nat \ {0} /\ left \in Nat
  BY DEF LibOK, LiveIsEntered, Libs, Refs
<1>2. /\ s.ref \in [Obj -> Refs] /\ s \in Libs
      /\ s.dataRefs \in [BOOLEAN -> [Name -> Obj \cup {NoObj, Dangling}]]
  BY DEF LibOK, Libs
<1>3. /\ r \in Refs /\ r.subscribers = left /\ r.name = n /\ r.simulated = b
      /\ r.life = IF left > 0 THEN "live" ELSE "doomed"
  BY <1>1, <1>2 DEF Refs
<1>4. t = [s EXCEPT !.ref[o] = r, !.dataRefs[b][n] = IF left > 0 THEN @ ELSE NoObj]
  BY DEF Unsubscribed
<1> HIDE DEF t, r
<1>5. /\ t.m_dataRefs = s.m_dataRefs
      /\ \A p \in Obj : t.ref[p] = IF p = o THEN r ELSE s.ref[p]
  BY <1>2, <1>4 DEF Libs
<1>6. t \in Libs
  BY <1>1, <1>2, <1>3, <1>4 DEF Libs
<1>7. \A c \in BOOLEAN, m \in Name :
        t.dataRefs[c][m] = IF c = b /\ m = n /\ ~(left > 0) THEN NoObj ELSE s.dataRefs[c][m]
  BY <1>1, <1>2, <1>4 DEF Libs
<1>8. ASSUME NEW c \in BOOLEAN, NEW m \in Name PROVE EntrySound(t, c, m)
  <2>1. EntrySound(s, c, m)
    BY DEF LibOK
  <2>2. CASE s.dataRefs[c][m] = o
    <3>1. c = b /\ m = n
      BY <2>1, <2>2, NonesAreNone DEF EntrySound
    <3>2. QED
      BY <1>1, <1>3, <1>5, <1>7, <2>2, <3>1 DEF EntrySound
  <2>3. CASE s.dataRefs[c][m] # o
    BY <1>1, <1>5, <1>7, <2>1, <2>3 DEF EntrySound
  <2>4. QED
    BY <2>2, <2>3
<1>9. LiveIsEntered(t)
  <2> SUFFICES ASSUME NEW p \in Obj, t.ref[p].life = "live"
               PROVE  /\ t.ref[p].subscribers > 0 /\ t.ref[p].name \in Name
                      /\ t.dataRefs[t.ref[p].simulated][t.ref[p].name] = p
    BY DEF LiveIsEntered
  <2>1. CASE p = o
    <3>1. t.ref[o] = r /\ r.life = "live"
      BY <1>5, <2>1
    <3>2. left > 0
      BY <1>3, <3>1
    <3>3. t.dataRefs[b][n] = o
      BY <1>1, <1>7, <3>2
    <3>4. r.subscribers > 0 /\ r.name = n /\ r.simulated = b
      BY <1>3, <3>2
    <3> HIDE DEF n, b, left
    <3>5. QED
      BY <1>1, <2>1, <3>1, <3>3, <3>4
  <2>2. CASE p # o
    <3>1. t.ref[p] = s.ref[p] /\ s.ref[p].simulated \in BOOLEAN
      BY <1>2, <1>5, <2>2 DEF Refs
    <3>2. /\ s.ref[p].subscribers > 0 /\ s.ref[p].name \in Name
          /\ s.dataRefs[s.ref[p].simulated][s.ref[p].name] = p
      BY <3>1 DEF LibOK, LiveIsEntered
    <3>3. QED
      BY <1>1, <1>7, <2>2, <3>1, <3>2
  <2>3. QED
    BY <2>1, <2>2
<1>10. LibOK(t)
  BY <1>6, <1>8, <1>9 DEF LibOK
<1>11. QED
  BY <1>1, <1>3, <1>5, <1>10 DEF t

\* Names that are subscribed lead to their refs, which are new or were their refs before.
LEMMA SubscribedRefs ==
  ASSUME NEW s, LibOK(s), NEW b \in BOOLEAN, NEW N \in SUBSET Name,
         NEW f \in Places(s, b, N), NEW k \in [N -> Nat \ {0}]
  PROVE  LET t == Subscribed(s, b, f, k)
         IN  /\ LibOK(t)
             /\ t.m_dataRefs = s.m_dataRefs \cup {f[n] : n \in N}
             /\ \A n \in N :
                  /\ f[n] \in Obj
                  /\ \/ s.ref[f[n]].life = "free"
                     \/ s.ref[f[n]].name = n /\ s.ref[f[n]].simulated = b
                  /\ t.ref[f[n]].life = "live"
                  /\ t.ref[f[n]].name = n /\ t.ref[f[n]].simulated = b
                  /\ t.ref[f[n]].subscribers = s.ref[f[n]].subscribers + k[n]
             /\ \A o \in Obj : (\A n \in N : f[n] # o) => t.ref[o] = s.ref[o]
             /\ \A n, m \in N : f[n] = f[m] => n = m
<1> DEFINE t == Subscribed(s, b, f, k)
           new(o, n) == [life |-> "live", name |-> n, simulated |-> b,
                         subscribers |-> s.ref[o].subscribers + k[n]]
           at(o) == CHOOSE n \in N : f[n] = o
<1>1. /\ s \in Libs /\ s.ref \in [Obj -> Refs] /\ s.m_dataRefs \subseteq Obj
      /\ s.dataRefs \in [BOOLEAN -> [Name -> Obj \cup {NoObj, Dangling}]]
  BY DEF LibOK, Libs
<1>2. /\ f \in [N -> Obj] /\ DOMAIN f = N
      /\ \A n, m \in N : f[n] = f[m] => n = m
      /\ \A n \in N : IF s.dataRefs[b][n] = NoObj THEN s.ref[f[n]].life = "free"
                                                  ELSE f[n] = s.dataRefs[b][n]
  BY DEF Places
<1>3. ASSUME NEW n \in N
      PROVE  \/ s.dataRefs[b][n] = NoObj /\ s.ref[f[n]].life = "free"
             \/ /\ f[n] = s.dataRefs[b][n] /\ s.ref[f[n]].life = "live"
                /\ s.ref[f[n]].name = n /\ s.ref[f[n]].simulated = b
  <2>1. EntrySound(s, b, n) /\ f[n] \in Obj
    BY <1>2 DEF LibOK
  <2>2. QED
    BY <1>2, <2>1, NonesAreNone DEF EntrySound
<1>4. /\ t.m_dataRefs = s.m_dataRefs \cup {f[n] : n \in N}
      /\ t.dataRefs = [s.dataRefs EXCEPT ![b] = [n \in Name |-> IF n \in N THEN f[n] ELSE @[n]]]
      /\ t.ref = [o \in Obj |-> IF \E n \in N : f[n] = o
                                  THEN new(o, at(o))
                                  ELSE s.ref[o]]
      /\ t = [s EXCEPT !.ref = t.ref, !.dataRefs = t.dataRefs, !.m_dataRefs = t.m_dataRefs]
  BY <1>1, <1>2 DEF Subscribed, Libs
<1> HIDE DEF t
<1>5. ASSUME NEW n \in N PROVE t.ref[f[n]] = new(f[n], n)
  <2>1. at(f[n]) = n /\ f[n] \in Obj
    BY <1>2
  <2> HIDE DEF new, at
  <2>2. QED
    BY <1>2, <1>4, <2>1
<1>6. \A o \in Obj : (\A n \in N : f[n] # o) => t.ref[o] = s.ref[o]
  BY <1>4
<1>7. \A c \in BOOLEAN, m \in Name :
        t.dataRefs[c][m] = IF c = b /\ m \in N THEN f[m] ELSE s.dataRefs[c][m]
  <2>1. \A c \in BOOLEAN : c # b => t.dataRefs[c] = s.dataRefs[c]
    BY <1>1, <1>4
  <2>2. t.dataRefs[b] = [n \in Name |-> IF n \in N THEN f[n] ELSE s.dataRefs[b][n]]
    BY <1>1, <1>4
  <2>3. QED
    BY <2>1, <2>2
<1>8. \A n \in N : /\ new(f[n], n) \in Refs
                   /\ new(f[n], n).subscribers \in Nat \ {0}
  <2>1. \A n \in N : s.ref[f[n]].subscribers \in Nat /\ k[n] \in Nat \ {0}
    BY <1>1, <1>2 DEF Refs
  <2>2. \A n \in N : s.ref[f[n]].subscribers + k[n] \in Nat \ {0}
    BY <2>1
  <2>3. QED
    BY <2>2 DEF Refs
<1> HIDE DEF new
<1>9. t \in Libs
  <2>1. \A o \in Obj : t.ref[o] \in Refs
    BY <1>1, <1>5, <1>6, <1>8
  <2>2. t.ref \in [Obj -> Refs]
    BY <1>4, <2>1
  <2>3. t.dataRefs \in [BOOLEAN -> [Name -> Obj \cup {NoObj, Dangling}]]
    BY <1>1, <1>2, <1>4
  <2>4. t.m_dataRefs \subseteq Obj
    BY <1>1, <1>2, <1>4
  <2>5. QED
    BY <1>1, <1>4, <2>2, <2>3, <2>4 DEF Libs
<1>10. ASSUME NEW n \in N
       PROVE  /\ t.ref[f[n]].life = "live" /\ t.ref[f[n]].name = n
              /\ t.ref[f[n]].simulated = b
              /\ t.ref[f[n]].subscribers = s.ref[f[n]].subscribers + k[n]
              /\ t.ref[f[n]].subscribers > 0
  <2>1. t.ref[f[n]] = new(f[n], n) /\ new(f[n], n).subscribers > 0
    BY <1>5, <1>8
  <2>2. QED
    BY <2>1 DEF new
<1>11. ASSUME NEW c \in BOOLEAN, NEW m \in Name PROVE EntrySound(t, c, m)
  <2>1. CASE c = b /\ m \in N
    BY <1>2, <1>7, <1>10, <2>1 DEF EntrySound
  <2>2. CASE ~(c = b /\ m \in N)
    <3>1. EntrySound(s, c, m) /\ t.dataRefs[c][m] = s.dataRefs[c][m]
      BY <1>7, <2>2 DEF LibOK
    <3>2. ASSUME NEW o \in Obj, o = s.dataRefs[c][m], s.ref[o].life = "live",
                 s.ref[o].name = m, s.ref[o].simulated = c
          PROVE  t.ref[o] = s.ref[o]
      <4>1. \A n \in N : f[n] # o
        BY <1>3, <2>2, <3>2
      <4>2. QED
        BY <1>6, <4>1
    <3>3. QED
      BY <3>1, <3>2 DEF EntrySound
  <2>3. QED
    BY <2>1, <2>2
<1>12. LiveIsEntered(t)
  <2> SUFFICES ASSUME NEW p \in Obj, t.ref[p].life = "live"
               PROVE  /\ t.ref[p].subscribers > 0 /\ t.ref[p].name \in Name
                      /\ t.dataRefs[t.ref[p].simulated][t.ref[p].name] = p
    BY DEF LiveIsEntered
  <2>1. ASSUME NEW n \in N, f[n] = p
        PROVE  /\ t.ref[p].subscribers > 0 /\ t.ref[p].name \in Name
               /\ t.dataRefs[t.ref[p].simulated][t.ref[p].name] = p
    BY <1>7, <1>10, <2>1
  <2>2. CASE \A n \in N : f[n] # p
    <3>1. t.ref[p] = s.ref[p] /\ s.ref[p].simulated \in BOOLEAN
      BY <1>1, <1>6, <2>2 DEF Refs
    <3>2. /\ s.ref[p].subscribers > 0 /\ s.ref[p].name \in Name
          /\ s.dataRefs[s.ref[p].simulated][s.ref[p].name] = p
      BY <3>1 DEF LibOK, LiveIsEntered
    <3>3. ~(s.ref[p].simulated = b /\ s.ref[p].name \in N)
      BY <1>2, <2>2, <3>2, NonesAreNone
    <3>4. QED
      BY <1>7, <3>1, <3>2, <3>3
  <2>3. QED
    BY <2>1, <2>2
<1>13. LibOK(t)
  BY <1>9, <1>11, <1>12 DEF LibOK
<1>14. QED
  BY <1>2, <1>3, <1>4, <1>6, <1>10, <1>13 DEF t

\* A ref less in ExtPlaneClient's set changes no ref.
LEMMA RemovedFromSet ==
  ASSUME NEW s, LibOK(s), NEW o
  PROVE  LET t == [s EXCEPT !.m_dataRefs = @ \ {o}]
         IN  /\ LibOK(t)
             /\ t.ref = s.ref /\ t.m_dataRefs = s.m_dataRefs \ {o}
<1> DEFINE t == [s EXCEPT !.m_dataRefs = @ \ {o}]
<1>1. /\ t \in Libs /\ t.ref = s.ref /\ t.dataRefs = s.dataRefs
      /\ t.m_dataRefs = s.m_dataRefs \ {o}
  BY DEF LibOK, Libs
<1> HIDE DEF t
<1>2. LibOK(t)
  BY <1>1 DEF LibOK, EntrySound, LiveIsEntered
<1>3. QED
  BY <1>1, <1>2 DEF t

\* A doomed ref that is deleted leaves the live ones as they are.
LEMMA DeletedRef ==
  ASSUME NEW s, LibOK(s), NEW o \in Obj, s.ref[o].life = "doomed"
  PROVE  LET t == [s EXCEPT !.ref[o] = Free, !.m_dataRefs = @ \ {o}]
         IN  /\ LibOK(t)
             /\ t.m_dataRefs = s.m_dataRefs \ {o}
             /\ \A p \in Obj : t.ref[p] = IF p = o THEN Free ELSE s.ref[p]
<1> DEFINE t == [s EXCEPT !.ref[o] = Free, !.m_dataRefs = @ \ {o}]
<1>1. Free \in Refs /\ Free.life = "free"
  BY DEF Free, Refs
<1>2. /\ t \in Libs /\ t.dataRefs = s.dataRefs /\ t.m_dataRefs = s.m_dataRefs \ {o}
      /\ \A p \in Obj : t.ref[p] = IF p = o THEN Free ELSE s.ref[p]
  BY <1>1 DEF LibOK, Libs
<1> HIDE DEF t
<1>3. \A c \in BOOLEAN, m \in Name : EntrySound(t, c, m)
  BY <1>2 DEF LibOK, EntrySound
<1>4. LiveIsEntered(t)
  BY <1>1, <1>2 DEF LibOK, LiveIsEntered
<1>5. QED
  BY <1>2, <1>3, <1>4 DEF LibOK, t

-----------------------------------------------------------------------------
(* Users come and go *)

\* An element lets go of its ref.
LEMMA ElementReleases ==
  ASSUME NEW s, NEW m, NEW nm, NEW h, NEW b \in BOOLEAN, Sound(s, m, nm, h, b),
         NEW e \in Elem, m[e] # NoObj
  PROVE  Sound(Unsubscribed(s, m[e]), [m EXCEPT ![e] = NoObj], nm, h, b)
<1> DEFINE o == m[e]
           t == Unsubscribed(s, o)
           q == [m EXCEPT ![e] = NoObj]
           users(p) == Count(Elem, m, p) + Count(Caller, h, p)
<1>1. /\ LibOK(s) /\ o \in Obj /\ s.ref[o].life = "live"
      /\ m \in [Elem -> Obj \cup {NoObj}]
  BY DEF Sound
<1>2. /\ LibOK(t) /\ t.m_dataRefs = s.m_dataRefs
      /\ \A p \in Obj : p # o => t.ref[p] = s.ref[p]
      /\ t.ref[o].subscribers = s.ref[o].subscribers - 1
      /\ t.ref[o].name = s.ref[o].name /\ t.ref[o].simulated = s.ref[o].simulated
      /\ t.ref[o].life = IF s.ref[o].subscribers = 1 THEN "doomed" ELSE "live"
  BY <1>1, UnsubscribedRef
<1>3. \A p \in Obj : s.ref[p].subscribers \in Nat
  BY <1>1 DEF LibOK, Libs, Refs
<1>4. \A p : /\ Count(Elem, m, p) \in Nat /\ Count(Caller, h, p) \in Nat
             /\ Count(Elem, q, p) \in Nat
  BY CountNat, UsersAreFinite
<1>5. \A p \in Obj : Count(Elem, q, p) = Count(Elem, m, p) - (IF p = o THEN 1 ELSE 0)
  <2>1. NoObj \notin Obj
    BY NonesAreNone
  <2>2. \A p : Count(Elem, q, p)
                 = Count(Elem, m, p) + (IF q[e] = p THEN 1 ELSE 0) - (IF o = p THEN 1 ELSE 0)
    <3>1. \A d \in Elem : d # e => q[d] = m[d]
      BY <1>1
    <3> HIDE DEF q
    <3>2. QED
      BY <3>1, Recount, UsersAreFinite
  <2>3. q[e] = NoObj
    BY <1>1
  <2> HIDE DEF q, o
  <2>4. QED
    BY <1>4, <2>1, <2>2, <2>3
<1>6. \A p \in Obj : s.ref[p].life = "live" => s.ref[p].subscribers >= users(p)
  BY DEF Sound
<1> HIDE DEF t, q, o
<1>7. \A p \in Obj : t.ref[p].life = "live" =>
        t.ref[p].subscribers >= Count(Elem, q, p) + Count(Caller, h, p)
  <2>1. ASSUME NEW p \in Obj, p # o, t.ref[p].life = "live"
        PROVE  t.ref[p].subscribers >= Count(Elem, q, p) + Count(Caller, h, p)
    BY <1>2, <1>4, <1>5, <1>6, <2>1
  <2>2. t.ref[o].subscribers >= Count(Elem, q, o) + Count(Caller, h, o)
    BY <1>1, <1>2, <1>3, <1>4, <1>5, <1>6
  <2>3. QED
    BY <2>1, <2>2
<1>8. t.ref[o].life # "live" => /\ \A d \in Elem : q[d] # o
                                /\ \A c \in Caller : h[c] # o
  <2>1. ASSUME t.ref[o].life # "live" PROVE Count(Elem, q, o) = 0 /\ Count(Caller, h, o) = 0
    BY <1>1, <1>2, <1>3, <1>4, <1>5, <1>6, <2>1
  <2>2. QED
    BY <2>1, CountNat, UsersAreFinite
<1>9. /\ q \in [Elem -> Obj \cup {NoObj}]
      /\ \A d \in Elem : q[d] # NoObj => q[d] = m[d]
  BY <1>1 DEF q
<1>10. \A d \in Elem : q[d] # NoObj =>
         t.ref[q[d]].life = "live" /\ t.ref[q[d]].name = nm[d] /\ t.ref[q[d]].simulated = b
  BY <1>1, <1>2, <1>8, <1>9 DEF Sound
<1>11. \A c \in Caller : h[c] # NoObj => t.ref[h[c]].life = "live" /\ t.ref[h[c]].simulated = b
  BY <1>1, <1>2, <1>8 DEF Sound
<1>12. \A p \in t.m_dataRefs : t.ref[p].life # "free" /\ t.ref[p].simulated = b
  BY <1>1, <1>2 DEF Sound, LibOK, Libs
<1>13. Sound(t, q, nm, h, b)
  BY <1>2, <1>7, <1>9, <1>10, <1>11, <1>12 DEF Sound
<1>14. QED
  BY <1>13 DEF t, q, o

\* A caller lets go of its ref.
LEMMA CallerReleases ==
  ASSUME NEW s, NEW m, NEW nm, NEW h, NEW b \in BOOLEAN, Sound(s, m, nm, h, b),
         NEW k \in Caller, h[k] # NoObj
  PROVE  Sound(Unsubscribed(s, h[k]), m, nm, [h EXCEPT ![k] = NoObj], b)
<1> DEFINE o == h[k]
           t == Unsubscribed(s, o)
           q == [h EXCEPT ![k] = NoObj]
           users(p) == Count(Elem, m, p) + Count(Caller, h, p)
<1>1. /\ LibOK(s) /\ o \in Obj /\ s.ref[o].life = "live"
      /\ h \in [Caller -> Obj \cup {NoObj}]
  BY DEF Sound
<1>2. /\ LibOK(t) /\ t.m_dataRefs = s.m_dataRefs
      /\ \A p \in Obj : p # o => t.ref[p] = s.ref[p]
      /\ t.ref[o].subscribers = s.ref[o].subscribers - 1
      /\ t.ref[o].name = s.ref[o].name /\ t.ref[o].simulated = s.ref[o].simulated
      /\ t.ref[o].life = IF s.ref[o].subscribers = 1 THEN "doomed" ELSE "live"
  BY <1>1, UnsubscribedRef
<1>3. \A p \in Obj : s.ref[p].subscribers \in Nat
  BY <1>1 DEF LibOK, Libs, Refs
<1>4. \A p : /\ Count(Elem, m, p) \in Nat /\ Count(Caller, h, p) \in Nat
             /\ Count(Caller, q, p) \in Nat
  BY CountNat, UsersAreFinite
<1>5. \A p \in Obj : Count(Caller, q, p) = Count(Caller, h, p) - (IF p = o THEN 1 ELSE 0)
  <2>1. NoObj \notin Obj
    BY NonesAreNone
  <2>2. \A p : Count(Caller, q, p)
                 = Count(Caller, h, p) + (IF q[k] = p THEN 1 ELSE 0) - (IF o = p THEN 1 ELSE 0)
    <3>1. \A d \in Caller : d # k => q[d] = h[d]
      BY <1>1
    <3> HIDE DEF q
    <3>2. QED
      BY <3>1, Recount, UsersAreFinite
  <2>3. q[k] = NoObj
    BY <1>1
  <2> HIDE DEF q, o
  <2>4. QED
    BY <1>4, <2>1, <2>2, <2>3
<1>6. \A p \in Obj : s.ref[p].life = "live" => s.ref[p].subscribers >= users(p)
  BY DEF Sound
<1> HIDE DEF t, q, o
<1>7. \A p \in Obj : t.ref[p].life = "live" =>
        t.ref[p].subscribers >= Count(Elem, m, p) + Count(Caller, q, p)
  <2>1. ASSUME NEW p \in Obj, p # o, t.ref[p].life = "live"
        PROVE  t.ref[p].subscribers >= Count(Elem, m, p) + Count(Caller, q, p)
    BY <1>2, <1>4, <1>5, <1>6, <2>1
  <2>2. t.ref[o].subscribers >= Count(Elem, m, o) + Count(Caller, q, o)
    BY <1>1, <1>2, <1>3, <1>4, <1>5, <1>6
  <2>3. QED
    BY <2>1, <2>2
<1>8. t.ref[o].life # "live" => /\ \A d \in Elem : m[d] # o
                                /\ \A c \in Caller : q[c] # o
  <2>1. ASSUME t.ref[o].life # "live" PROVE Count(Elem, m, o) = 0 /\ Count(Caller, q, o) = 0
    BY <1>1, <1>2, <1>3, <1>4, <1>5, <1>6, <2>1
  <2>2. QED
    BY <2>1, CountNat, UsersAreFinite
<1>9. /\ q \in [Caller -> Obj \cup {NoObj}]
      /\ \A c \in Caller : q[c] # NoObj => q[c] = h[c]
  BY <1>1 DEF q
<1>10. \A d \in Elem : m[d] # NoObj =>
         t.ref[m[d]].life = "live" /\ t.ref[m[d]].name = nm[d] /\ t.ref[m[d]].simulated = b
  BY <1>1, <1>2, <1>8 DEF Sound
<1>11. \A c \in Caller : q[c] # NoObj => t.ref[q[c]].life = "live" /\ t.ref[q[c]].simulated = b
  BY <1>1, <1>2, <1>8, <1>9 DEF Sound
<1>12. \A p \in t.m_dataRefs : t.ref[p].life # "free" /\ t.ref[p].simulated = b
  BY <1>1, <1>2 DEF Sound, LibOK, Libs
<1>13. m \in [Elem -> Obj \cup {NoObj}]
  BY DEF Sound
<1>14. Sound(t, m, nm, q, b)
  BY <1>2, <1>7, <1>9, <1>10, <1>11, <1>12, <1>13 DEF Sound
<1>15. QED
  BY <1>14 DEF t, q, o

\* A ref that is not live has no users.
LEMMA UnusedUnlessLive ==
  ASSUME NEW s, NEW m, NEW nm, NEW h, NEW b, Sound(s, m, nm, h, b),
         NEW o \in Obj, s.ref[o].life # "live"
  PROVE  Count(Elem, m, o) = 0 /\ Count(Caller, h, o) = 0
<1>1. /\ \A e \in Elem : m[e] # o
      /\ \A c \in Caller : h[c] # o
  BY NonesAreNone DEF Sound
<1>2. QED
  BY <1>1, CountNat, UsersAreFinite

\* Each name is subscribed once.
Once(n) == [x \in {n} |-> 1]

\* What one subscription of n over b does to the refs there are.
LEMMA Taken ==
  ASSUME NEW s, NEW m, NEW nm, NEW h, NEW b \in BOOLEAN, Sound(s, m, nm, h, b),
         NEW n \in Name, NEW f \in Places(s, b, {n})
  PROVE  LET t == Subscribed(s, b, f, Once(n))
             o == f[n]
         IN  /\ LibOK(t) /\ o \in Obj
             /\ t.ref[o].life = "live" /\ t.ref[o].name = n /\ t.ref[o].simulated = b
             /\ t.ref[o].subscribers >= Count(Elem, m, o) + Count(Caller, h, o) + 1
             /\ \A p \in Obj : p # o => t.ref[p] = s.ref[p]
             /\ \A p \in t.m_dataRefs : t.ref[p].life # "free" /\ t.ref[p].simulated = b
             /\ \A e \in Elem : m[e] # NoObj =>
                  t.ref[m[e]].life = "live" /\ t.ref[m[e]].name = nm[e] /\ t.ref[m[e]].simulated = b
             /\ \A c \in Caller : h[c] # NoObj =>
                  t.ref[h[c]].life = "live" /\ t.ref[h[c]].simulated = b
<1> DEFINE k == Once(n)
           t == Subscribed(s, b, f, k)
           o == f[n]
<1>1. LibOK(s) /\ {n} \in SUBSET Name /\ k \in [{n} -> Nat \ {0}] /\ k[n] = 1
  BY DEF Sound, Once
<1> HIDE DEF k
<1>2. /\ LibOK(t) /\ o \in Obj
      /\ t.m_dataRefs = s.m_dataRefs \cup {f[x] : x \in {n}}
      /\ s.ref[o].life = "free" \/ (s.ref[o].name = n /\ s.ref[o].simulated = b)
      /\ t.ref[o].life = "live" /\ t.ref[o].name = n /\ t.ref[o].simulated = b
      /\ t.ref[o].subscribers = s.ref[o].subscribers + k[n]
      /\ \A p \in Obj : (\A x \in {n} : f[x] # p) => t.ref[p] = s.ref[p]
  BY <1>1, SubscribedRefs
<1> HIDE DEF t, o
<1>3. \A p \in Obj : p # o => t.ref[p] = s.ref[p]
  BY <1>2 DEF o
<1>4. t.m_dataRefs = s.m_dataRefs \cup {o}
  BY <1>2 DEF o
<1>5. s.ref[o].subscribers \in Nat /\ s.m_dataRefs \subseteq Obj
  BY <1>1, <1>2 DEF LibOK, Libs, Refs
<1>6. Count(Elem, m, o) \in Nat /\ Count(Caller, h, o) \in Nat
  BY CountNat, UsersAreFinite
<1>7. s.ref[o].subscribers >= Count(Elem, m, o) + Count(Caller, h, o)
  <2>1. CASE s.ref[o].life = "live"
    BY <1>2, <2>1 DEF Sound
  <2>2. CASE s.ref[o].life # "live"
    BY <1>2, <1>5, <2>2, UnusedUnlessLive
  <2>3. QED
    BY <2>1, <2>2
<1>8. t.ref[o].subscribers >= Count(Elem, m, o) + Count(Caller, h, o) + 1
  BY <1>1, <1>2, <1>5, <1>6, <1>7
<1>9. \A e \in Elem : m[e] # NoObj =>
        t.ref[m[e]].life = "live" /\ t.ref[m[e]].name = nm[e] /\ t.ref[m[e]].simulated = b
  BY <1>2, <1>3 DEF Sound
<1>10. \A c \in Caller : h[c] # NoObj => t.ref[h[c]].life = "live" /\ t.ref[h[c]].simulated = b
  BY <1>2, <1>3 DEF Sound
<1>11. \A p \in t.m_dataRefs : t.ref[p].life # "free" /\ t.ref[p].simulated = b
  BY <1>2, <1>3, <1>4, <1>5 DEF Sound
<1>12. QED
  BY <1>2, <1>3, <1>8, <1>9, <1>10, <1>11 DEF t, o, k

\* An element without a ref subscribes n.
LEMMA ElementTakes ==
  ASSUME NEW s, NEW m, NEW nm \in [Elem -> Name \cup {NoName}], NEW h, NEW b \in BOOLEAN,
         Sound(s, m, nm, h, b), NEW e \in Elem, m[e] = NoObj,
         NEW n \in Name, NEW f \in Places(s, b, {n})
  PROVE  Sound(Subscribed(s, b, f, Once(n)),
               [m EXCEPT ![e] = f[n]], [nm EXCEPT ![e] = n], h, b)
<1> DEFINE t == Subscribed(s, b, f, Once(n))
           o == f[n]
           q == [m EXCEPT ![e] = o]
<1>1. /\ LibOK(t) /\ o \in Obj
      /\ t.ref[o].life = "live" /\ t.ref[o].name = n /\ t.ref[o].simulated = b
      /\ t.ref[o].subscribers >= Count(Elem, m, o) + Count(Caller, h, o) + 1
      /\ \A p \in Obj : p # o => t.ref[p] = s.ref[p]
      /\ \A p \in t.m_dataRefs : t.ref[p].life # "free" /\ t.ref[p].simulated = b
      /\ \A d \in Elem : m[d] # NoObj =>
           t.ref[m[d]].life = "live" /\ t.ref[m[d]].name = nm[d] /\ t.ref[m[d]].simulated = b
      /\ \A c \in Caller : h[c] # NoObj =>
           t.ref[h[c]].life = "live" /\ t.ref[h[c]].simulated = b
  BY Taken
<1>2. /\ m \in [Elem -> Obj \cup {NoObj}] /\ h \in [Caller -> Obj \cup {NoObj}]
      /\ \A p \in Obj : s.ref[p].life = "live" =>
           s.ref[p].subscribers >= Count(Elem, m, p) + Count(Caller, h, p)
  BY DEF Sound
<1> HIDE DEF t, o
<1>3. q \in [Elem -> Obj \cup {NoObj}] /\ q[e] = o /\ \A d \in Elem : d # e => q[d] = m[d]
  BY <1>1, <1>2
<1> HIDE DEF q
<1>4. \A p : Count(Elem, q, p)
               = Count(Elem, m, p) + (IF q[e] = p THEN 1 ELSE 0) - (IF m[e] = p THEN 1 ELSE 0)
  BY <1>3, Recount, UsersAreFinite
<1>5. \A p : Count(Elem, m, p) \in Nat /\ Count(Caller, h, p) \in Nat
  BY CountNat, UsersAreFinite
<1>6. \A p \in Obj : t.ref[p].life = "live" =>
        t.ref[p].subscribers >= Count(Elem, q, p) + Count(Caller, h, p)
  <2>1. t.ref[o].subscribers >= Count(Elem, q, o) + Count(Caller, h, o)
    <3>1. Count(Elem, q, o) = Count(Elem, m, o) + 1
      BY <1>1, <1>3, <1>4, <1>5, NonesAreNone
    <3>2. t.ref[o].subscribers \in Nat
      BY <1>1 DEF LibOK, Libs, Refs
    <3>3. QED
      BY <1>1, <1>5, <3>1, <3>2
  <2>2. ASSUME NEW p \in Obj, p # o, t.ref[p].life = "live"
        PROVE  t.ref[p].subscribers >= Count(Elem, q, p) + Count(Caller, h, p)
    <3>1. Count(Elem, q, p) = Count(Elem, m, p)
      BY <1>3, <1>4, <1>5, <2>2, NonesAreNone
    <3>2. QED
      BY <1>1, <1>2, <2>2, <3>1
  <2>3. QED
    BY <2>1, <2>2
<1>7. \A d \in Elem : q[d] # NoObj =>
        /\ t.ref[q[d]].life = "live" /\ t.ref[q[d]].simulated = b
        /\ t.ref[q[d]].name = [nm EXCEPT ![e] = n][d]
  BY <1>1, <1>3
<1>8. Sound(t, q, [nm EXCEPT ![e] = n], h, b)
  BY <1>1, <1>2, <1>3, <1>6, <1>7 DEF Sound
<1>9. QED
  BY <1>8 DEF t, q, o

\* A caller without a ref subscribes n.
LEMMA CallerTakes ==
  ASSUME NEW s, NEW m, NEW nm, NEW h, NEW b \in BOOLEAN,
         Sound(s, m, nm, h, b), NEW k \in Caller, h[k] = NoObj,
         NEW n \in Name, NEW f \in Places(s, b, {n})
  PROVE  Sound(Subscribed(s, b, f, Once(n)), m, nm, [h EXCEPT ![k] = f[n]], b)
<1> DEFINE t == Subscribed(s, b, f, Once(n))
           o == f[n]
           q == [h EXCEPT ![k] = o]
<1>1. /\ LibOK(t) /\ o \in Obj
      /\ t.ref[o].life = "live" /\ t.ref[o].name = n /\ t.ref[o].simulated = b
      /\ t.ref[o].subscribers >= Count(Elem, m, o) + Count(Caller, h, o) + 1
      /\ \A p \in Obj : p # o => t.ref[p] = s.ref[p]
      /\ \A p \in t.m_dataRefs : t.ref[p].life # "free" /\ t.ref[p].simulated = b
      /\ \A d \in Elem : m[d] # NoObj =>
           t.ref[m[d]].life = "live" /\ t.ref[m[d]].name = nm[d] /\ t.ref[m[d]].simulated = b
      /\ \A c \in Caller : h[c] # NoObj =>
           t.ref[h[c]].life = "live" /\ t.ref[h[c]].simulated = b
  BY Taken
<1>2. /\ m \in [Elem -> Obj \cup {NoObj}] /\ h \in [Caller -> Obj \cup {NoObj}]
      /\ \A p \in Obj : s.ref[p].life = "live" =>
           s.ref[p].subscribers >= Count(Elem, m, p) + Count(Caller, h, p)
  BY DEF Sound
<1> HIDE DEF t, o
<1>3. q \in [Caller -> Obj \cup {NoObj}] /\ q[k] = o /\ \A c \in Caller : c # k => q[c] = h[c]
  BY <1>1, <1>2
<1> HIDE DEF q
<1>4. \A p : Count(Caller, q, p)
               = Count(Caller, h, p) + (IF q[k] = p THEN 1 ELSE 0) - (IF h[k] = p THEN 1 ELSE 0)
  BY <1>3, Recount, UsersAreFinite
<1>5. \A p : Count(Elem, m, p) \in Nat /\ Count(Caller, h, p) \in Nat
  BY CountNat, UsersAreFinite
<1>6. \A p \in Obj : t.ref[p].life = "live" =>
        t.ref[p].subscribers >= Count(Elem, m, p) + Count(Caller, q, p)
  <2>1. t.ref[o].subscribers >= Count(Elem, m, o) + Count(Caller, q, o)
    <3>1. Count(Caller, q, o) = Count(Caller, h, o) + 1
      BY <1>1, <1>3, <1>4, <1>5, NonesAreNone
    <3>2. t.ref[o].subscribers \in Nat
      BY <1>1 DEF LibOK, Libs, Refs
    <3>3. QED
      BY <1>1, <1>5, <3>1, <3>2
  <2>2. ASSUME NEW p \in Obj, p # o, t.ref[p].life = "live"
        PROVE  t.ref[p].subscribers >= Count(Elem, m, p) + Count(Caller, q, p)
    <3>1. Count(Caller, q, p) = Count(Caller, h, p)
      BY <1>3, <1>4, <1>5, <2>2, NonesAreNone
    <3>2. QED
      BY <1>1, <1>2, <2>2, <3>1
  <2>3. QED
    BY <2>1, <2>2
<1>7. \A c \in Caller : q[c] # NoObj => t.ref[q[c]].life = "live" /\ t.ref[q[c]].simulated = b
  BY <1>1, <1>3
<1>8. Sound(t, m, nm, q, b)
  BY <1>1, <1>2, <1>3, <1>6, <1>7 DEF Sound
<1>9. QED
  BY <1>8 DEF t, q, o

-----------------------------------------------------------------------------
(* Switching the connection *)

\* Every ref of ExtPlaneClient's set loses a subscriber; those without any are doomed.
LEMMA AllAreUnsubscribed ==
  ASSUME LibOK(lib), m_simulated \in BOOLEAN,
         \A o \in lib.m_dataRefs : lib.ref[o].life = "live" /\ lib.ref[o].simulated = m_simulated
  PROVE  LibOK(AllUnsubscribed) /\ AllUnsubscribed.m_dataRefs = {}
<1> DEFINE t == AllUnsubscribed
           b == m_simulated
           emptied == {o \in lib.m_dataRefs : lib.ref[o].subscribers <= 1}
           less(o) == [lib.ref[o] EXCEPT !.subscribers = @ - 1,
                                         !.life = IF o \in emptied THEN "doomed" ELSE @]
           mapped == [n \in Name |-> IF \E o \in emptied : lib.ref[o].name = n
                                       THEN NoObj ELSE lib.dataRefs[b][n]]
<1>1. /\ lib \in Libs /\ lib.ref \in [Obj -> Refs] /\ lib.m_dataRefs \subseteq Obj
      /\ lib.dataRefs \in [BOOLEAN -> [Name -> Obj \cup {NoObj, Dangling}]]
      /\ b \in BOOLEAN
  BY DEF LibOK, Libs
<1>2. /\ t.ref = [o \in Obj |-> IF o \in lib.m_dataRefs THEN less(o) ELSE lib.ref[o]]
      /\ t.dataRefs = [lib.dataRefs EXCEPT ![b] = mapped]
      /\ t.m_dataRefs = {}
      /\ t = [ref |-> t.ref, dataRefs |-> t.dataRefs, m_dataRefs |-> {}]
  BY <1>1 DEF AllUnsubscribed
<1>3. ASSUME NEW o \in lib.m_dataRefs
      PROVE  /\ o \in Obj /\ lib.ref[o].life = "live" /\ lib.ref[o].simulated = b
             /\ lib.ref[o].subscribers \in Nat /\ lib.ref[o].subscribers > 0
             /\ lib.ref[o].name \in Name /\ lib.dataRefs[b][lib.ref[o].name] = o
             /\ o \in emptied <=> lib.ref[o].subscribers = 1
  BY <1>1 DEF LibOK, LiveIsEntered, Refs
<1>4. ASSUME NEW o \in lib.m_dataRefs
      PROVE  /\ less(o) \in Refs
             /\ less(o).name = lib.ref[o].name /\ less(o).simulated = b
             /\ less(o).life = IF o \in emptied THEN "doomed" ELSE "live"
             /\ o \notin emptied => less(o).subscribers > 0
  <2>1. lib.ref[o] \in Refs
    BY <1>1, <1>3
  <2> HIDE DEF emptied
  <2>2. /\ less(o).name = lib.ref[o].name /\ less(o).simulated = lib.ref[o].simulated
        /\ less(o).subscribers = lib.ref[o].subscribers - 1
        /\ less(o).life = IF o \in emptied THEN "doomed" ELSE lib.ref[o].life
    BY <2>1 DEF Refs
  <2>3. /\ lib.ref[o].subscribers - 1 \in Nat
        /\ o \notin emptied => lib.ref[o].subscribers - 1 > 0
    BY <1>3
  <2>4. (IF o \in emptied THEN "doomed" ELSE lib.ref[o].life) \in {"free", "live", "doomed"}
    BY <1>3
  <2>5. less(o) \in Refs
    BY <2>1, <2>3, <2>4 DEF Refs
  <2> HIDE DEF less
  <2>6. QED
    BY <1>3, <2>2, <2>3, <2>5
<1> HIDE DEF t, less, mapped
<1>5. \A o \in Obj : t.ref[o] = IF o \in lib.m_dataRefs THEN less(o) ELSE lib.ref[o]
  BY <1>2
<1>6. /\ mapped \in [Name -> Obj \cup {NoObj, Dangling}]
      /\ \A n \in Name : mapped[n] = IF \E o \in emptied : lib.ref[o].name = n
                                       THEN NoObj ELSE lib.dataRefs[b][n]
  BY <1>1 DEF mapped
<1>7. t \in Libs
  <2>1. t.ref \in [Obj -> Refs]
    BY <1>1, <1>2, <1>4
  <2>2. t.dataRefs \in [BOOLEAN -> [Name -> Obj \cup {NoObj, Dangling}]]
    BY <1>1, <1>2, <1>6
  <2>3. QED
    BY <1>2, <2>1, <2>2 DEF Libs
<1>8. \A c \in BOOLEAN, n \in Name :
        t.dataRefs[c][n] = IF c = b /\ \E o \in emptied : lib.ref[o].name = n
                             THEN NoObj ELSE lib.dataRefs[c][n]
  BY <1>1, <1>2, <1>6
<1>9. ASSUME NEW c \in BOOLEAN, NEW n \in Name PROVE EntrySound(t, c, n)
  <2>1. EntrySound(lib, c, n)
    BY DEF LibOK
  <2>2. CASE c = b /\ \E o \in emptied : lib.ref[o].name = n
    BY <1>8, <2>2 DEF EntrySound
  <2>3. CASE ~(c = b /\ \E o \in emptied : lib.ref[o].name = n)
    <3>1. t.dataRefs[c][n] = lib.dataRefs[c][n]
      BY <1>8, <2>3
    <3>2. ASSUME NEW o \in Obj, o = lib.dataRefs[c][n], lib.ref[o].life = "live",
                 lib.ref[o].name = n, lib.ref[o].simulated = c
          PROVE  t.ref[o].life = "live" /\ t.ref[o].name = n /\ t.ref[o].simulated = c
      <4>1. o \notin emptied
        BY <1>3, <2>3, <3>2
      <4> HIDE DEF emptied
      <4>2. QED
        BY <1>3, <1>4, <1>5, <3>2, <4>1
    <3>3. QED
      BY <2>1, <3>1, <3>2 DEF EntrySound
  <2>4. QED
    BY <2>2, <2>3
<1>10. LiveIsEntered(t)
  <2> SUFFICES ASSUME NEW p \in Obj, t.ref[p].life = "live"
               PROVE  /\ t.ref[p].subscribers > 0 /\ t.ref[p].name \in Name
                      /\ t.dataRefs[t.ref[p].simulated][t.ref[p].name] = p
    BY DEF LiveIsEntered
  <2>1. p \notin emptied
    BY <1>3, <1>4, <1>5
  <2>2. /\ lib.ref[p].life = "live" /\ t.ref[p].name = lib.ref[p].name
        /\ t.ref[p].simulated = lib.ref[p].simulated
        /\ t.ref[p].subscribers > 0 \/ t.ref[p] = lib.ref[p]
    <3> HIDE DEF emptied
    <3>1. QED
      BY <1>3, <1>4, <1>5, <2>1
  <2>3. /\ lib.ref[p].subscribers > 0 /\ lib.ref[p].name \in Name
        /\ lib.dataRefs[lib.ref[p].simulated][lib.ref[p].name] = p
        /\ lib.ref[p].simulated \in BOOLEAN
    BY <1>1, <2>2 DEF LibOK, LiveIsEntered, Refs
  <2>4. ~(lib.ref[p].simulated = b /\ \E o \in emptied : lib.ref[o].name = lib.ref[p].name)
    BY <1>3, <2>1, <2>3
  <2> HIDE DEF emptied
  <2>5. QED
    BY <1>8, <2>2, <2>3, <2>4
<1>11. QED
  BY <1>2, <1>7, <1>9, <1>10 DEF LibOK, t

\* Stopping the simulated connection frees its live refs; their entries dangle.
LEMMA SimulationIsStopped ==
  ASSUME NEW s, LibOK(s)
  PROVE  LET t == SimulationStopped(s)
         IN  LibOK(t) /\ t.m_dataRefs \subseteq s.m_dataRefs
<1> DEFINE t == SimulationStopped(s)
           freed == {o \in Obj : s.ref[o].life = "live" /\ s.ref[o].simulated}
           mapped == [n \in Name |-> IF s.dataRefs[TRUE][n] \in freed
                                       THEN Dangling ELSE s.dataRefs[TRUE][n]]
<1>1. /\ s \in Libs /\ s.ref \in [Obj -> Refs] /\ s.m_dataRefs \subseteq Obj
      /\ s.dataRefs \in [BOOLEAN -> [Name -> Obj \cup {NoObj, Dangling}]]
      /\ Free \in Refs /\ Free.life = "free"
  BY DEF LibOK, Libs, Free, Refs
<1>2. /\ t.ref = [o \in Obj |-> IF o \in freed THEN Free ELSE s.ref[o]]
      /\ t.dataRefs = [s.dataRefs EXCEPT ![TRUE] = mapped]
      /\ t.m_dataRefs = s.m_dataRefs \ freed
      /\ t = [s EXCEPT !.ref = t.ref, !.dataRefs = t.dataRefs, !.m_dataRefs = t.m_dataRefs]
  BY <1>1 DEF SimulationStopped, Libs
<1> HIDE DEF t
<1>3. /\ t \in Libs
      /\ \A o \in Obj : t.ref[o] = IF o \in freed THEN Free ELSE s.ref[o]
  <2>1. mapped \in [Name -> Obj \cup {NoObj, Dangling}]
    BY <1>1
  <2> HIDE DEF mapped, freed
  <2>2. \A o \in Obj : t.ref[o] = IF o \in freed THEN Free ELSE s.ref[o]
    BY <1>2
  <2>3. t.ref \in [Obj -> Refs]
    BY <1>1, <1>2
  <2>4. t.m_dataRefs \subseteq Obj
    BY <1>1, <1>2
  <2>5. t.dataRefs \in [BOOLEAN -> [Name -> Obj \cup {NoObj, Dangling}]]
    BY <1>1, <1>2, <2>1
  <2>6. QED
    BY <1>1, <1>2, <2>2, <2>3, <2>4, <2>5 DEF Libs
<1>4. \A c \in BOOLEAN, n \in Name :
        t.dataRefs[c][n] = IF c /\ s.dataRefs[c][n] \in freed THEN Dangling ELSE s.dataRefs[c][n]
  <2>1. \A n \in Name : t.dataRefs[FALSE][n] = s.dataRefs[FALSE][n]
    BY <1>1, <1>2
  <2>2. t.dataRefs[TRUE] = mapped
    <3> HIDE DEF mapped
    <3>1. QED
      BY <1>1, <1>2
  <2>3. QED
    BY <2>1, <2>2
<1>5. ASSUME NEW c \in BOOLEAN, NEW n \in Name PROVE EntrySound(t, c, n)
  <2>1. EntrySound(s, c, n)
    BY DEF LibOK
  <2>2. CASE s.dataRefs[c][n] \notin freed
    <3>1. t.dataRefs[c][n] = s.dataRefs[c][n]
      BY <1>4, <2>2
    <3>2. \A o \in Obj : o \notin freed => t.ref[o] = s.ref[o]
      BY <1>3
    <3> HIDE DEF freed
    <3>3. QED
      BY <2>1, <2>2, <3>1, <3>2 DEF EntrySound
  <2>3. CASE s.dataRefs[c][n] \in freed
    <3>1. c
      BY <2>1, <2>3, NonesAreNone DEF EntrySound
    <3>2. QED
      BY <1>4, <2>3, <3>1 DEF EntrySound
  <2>4. QED
    BY <2>2, <2>3
<1>6. LiveIsEntered(t)
  <2> SUFFICES ASSUME NEW p \in Obj, t.ref[p].life = "live"
               PROVE  /\ t.ref[p].subscribers > 0 /\ t.ref[p].name \in Name
                      /\ t.dataRefs[t.ref[p].simulated][t.ref[p].name] = p
    BY DEF LiveIsEntered
  <2>1. p \notin freed /\ t.ref[p] = s.ref[p]
    BY <1>1, <1>3
  <2>2. /\ s.ref[p].subscribers > 0 /\ s.ref[p].name \in Name
        /\ s.dataRefs[s.ref[p].simulated][s.ref[p].name] = p
        /\ s.ref[p].simulated \in BOOLEAN
    BY <1>1, <2>1 DEF LibOK, LiveIsEntered, Refs
  <2> HIDE DEF freed
  <2>3. QED
    BY <1>4, <2>1, <2>2
<1>7. QED
  BY <1>2, <1>3, <1>5, <1>6 DEF LibOK, t

\* What is left of the library when the elements and callers have let go of everything.
LEMMA SwitchedIsOK ==
  ASSUME IInv, \A o \in lib.m_dataRefs : lib.ref[o].life = "live"
  PROVE  LibOK(Switched) /\ Switched.m_dataRefs = {}
<1>1. LibOK(lib) /\ m_simulated \in BOOLEAN
  BY DEF IInv, TypeOK, Sound
<1>2. \A o \in lib.m_dataRefs : lib.ref[o].life = "live" /\ lib.ref[o].simulated = m_simulated
  BY DEF IInv, Sound
<1>3. LibOK(AllUnsubscribed) /\ AllUnsubscribed.m_dataRefs = {}
  BY <1>1, <1>2, AllAreUnsubscribed
<1>4. LibOK(SimulationStopped(AllUnsubscribed)) /\ SimulationStopped(AllUnsubscribed).m_dataRefs = {}
  BY <1>3, SimulationIsStopped
<1>5. QED
  BY <1>3, <1>4 DEF Switched

\* A switch gives each name in use a ref that counts the elements of that name.
LEMMA SwitchSound ==
  ASSUME IInv, SetSimulated
  PROVE  /\ Sound(lib', m_clientDataRef', m_name, held', m_simulated')
         /\ listens' \in [Elem -> SUBSET Obj]
<1> DEFINE s == Switched
           b == ~m_simulated
           N == NamesInUse
           k == [n \in N |-> Cardinality(Named(n))]
           m == m_clientDataRef'
<1>1. /\ LibOK(s) /\ s.m_dataRefs = {}
      /\ m_simulated' = b /\ held' = [c \in Caller |-> NoObj]
  BY SwitchedIsOK DEF SetSimulated
<1>2. b \in BOOLEAN /\ N \in SUBSET Name /\ NoName \notin N
  BY NonesAreNone DEF NamesInUse
<1>3. PICK f \in Places(s, b, N) :
        /\ lib' = Subscribed(s, b, f, k)
        /\ m = [e \in Elem |-> IF m_name[e] \in N THEN f[m_name[e]] ELSE NoObj]
        /\ listens' = [e \in Elem |-> {o \in listens[e] : s.ref[o].life # "free"}
                                        \cup ({m[e]} \cap Obj)]
  BY DEF SetSimulated
<1>4. ASSUME NEW n \in N PROVE Cardinality(Named(n)) \in Nat \ {0} /\ IsFiniteSet(Named(n))
  <2>1. Named(n) \in SUBSET Elem /\ Named(n) # {}
    BY DEF Named, NamesInUse, IInv, TypeOK
  <2>2. IsFiniteSet(Named(n))
    BY <2>1, FS_Subset, UsersAreFinite
  <2>3. QED
    BY <2>1, <2>2, FS_CardinalityType, FS_EmptySet
<1>5. k \in [N -> Nat \ {0}] /\ \A n \in N : k[n] = Cardinality(Named(n))
  BY <1>4
<1> HIDE DEF s, b, N, k, m
<1>6. /\ LibOK(lib') /\ lib'.m_dataRefs = s.m_dataRefs \cup {f[n] : n \in N}
      /\ \A n \in N : /\ f[n] \in Obj
                      /\ lib'.ref[f[n]].life = "live"
                      /\ lib'.ref[f[n]].name = n /\ lib'.ref[f[n]].simulated = b
                      /\ lib'.ref[f[n]].subscribers = s.ref[f[n]].subscribers + k[n]
      /\ \A o \in Obj : (\A n \in N : f[n] # o) => lib'.ref[o] = s.ref[o]
      /\ \A n, p \in N : f[n] = f[p] => n = p
  BY <1>1, <1>2, <1>3, <1>5, SubscribedRefs
<1>7. \A e \in Elem : m[e] = IF m_name[e] \in N THEN f[m_name[e]] ELSE NoObj
  BY <1>3
<1>8. m \in [Elem -> Obj \cup {NoObj}] /\ held' \in [Caller -> Obj \cup {NoObj}]
  BY <1>1, <1>3, <1>6
<1>9. \A o \in Obj : lib'.ref[o].subscribers \in Nat /\ s.ref[o].subscribers \in Nat
  BY <1>1, <1>6 DEF LibOK, Libs, Refs
<1>10. \A o : Count(Elem, m, o) \in Nat /\ (Count(Elem, m, o) = 0 <=> \A e \in Elem : m[e] # o)
  BY CountNat, UsersAreFinite
<1>11. \A o \in Obj : Count(Caller, held', o) = 0
  <2>1. \A o \in Obj : \A c \in Caller : held'[c] # o
    BY <1>1, NonesAreNone
  <2>2. QED
    BY <2>1, CountNat, UsersAreFinite
<1>12. ASSUME NEW n \in N PROVE Count(Elem, m, f[n]) <= Cardinality(Named(n))
  <2> DEFINE T == {e \in Elem : m[e] = f[n]}
  <2>1. \A e \in Elem : m[e] = f[n] => e \in Named(n)
    <3> SUFFICES ASSUME NEW e \in Elem, m[e] = f[n] PROVE e \in Named(n)
      OBVIOUS
    <3>1. m_name[e] \in N
      BY <1>6, <1>7, NonesAreNone
    <3>2. m_name[e] = n
      BY <1>6, <1>7, <3>1
    <3>3. e \in alive
      BY <1>2, <3>1 DEF IInv
    <3>4. QED
      BY <3>2, <3>3 DEF Named
  <2>2. T \in SUBSET Named(n)
    BY <2>1
  <2>3. Cardinality(T) <= Cardinality(Named(n))
    BY <1>4, <2>2, FS_Subset
  <2>4. QED
    BY <2>3 DEF Count
<1>13. ASSUME NEW o \in Obj, lib'.ref[o].life = "live"
       PROVE  lib'.ref[o].subscribers >= Count(Elem, m, o) + Count(Caller, held', o)
  <2>1. ASSUME NEW n \in N, f[n] = o
        PROVE  lib'.ref[o].subscribers >= Count(Elem, m, o) + Count(Caller, held', o)
    <3>1. Count(Elem, m, o) <= Cardinality(Named(n))
      BY <1>12, <2>1
    <3>2. lib'.ref[o].subscribers = s.ref[o].subscribers + Cardinality(Named(n))
      BY <1>5, <1>6, <2>1
    <3>3. QED
      BY <1>4, <1>9, <1>10, <1>11, <3>1, <3>2
  <2>2. ASSUME \A n \in N : f[n] # o
        PROVE  lib'.ref[o].subscribers >= Count(Elem, m, o) + Count(Caller, held', o)
    <3>1. \A e \in Elem : m[e] # o
      BY <1>7, <2>2, NonesAreNone
    <3>2. QED
      BY <1>9, <1>10, <1>11, <3>1
  <2>3. QED
    BY <2>1, <2>2
<1>14. \A o \in lib'.m_dataRefs : lib'.ref[o].life # "free" /\ lib'.ref[o].simulated = b
  BY <1>1, <1>6
<1>15. \A e \in Elem : m[e] # NoObj =>
         lib'.ref[m[e]].life = "live" /\ lib'.ref[m[e]].name = m_name[e] /\ lib'.ref[m[e]].simulated = b
  BY <1>6, <1>7
<1>16. \A c \in Caller : held'[c] = NoObj
  BY <1>1
<1>17. Sound(lib', m, m_name, held', b)
  BY <1>6, <1>8, <1>13, <1>14, <1>15, <1>16 DEF Sound
<1>18. listens' \in [Elem -> SUBSET Obj]
  <2>1. \A e \in Elem : listens[e] \subseteq Obj
    BY DEF IInv, TypeOK
  <2>2. QED
    BY <1>3, <2>1
<1>19. QED
  BY <1>1, <1>17, <1>18 DEF m, b

-----------------------------------------------------------------------------
(* The calls *)

\* An element that has no ref may take any name.
LEMMA Renamed ==
  ASSUME NEW s, NEW m, NEW nm \in [Elem -> Name \cup {NoName}], NEW h, NEW b, Sound(s, m, nm, h, b),
         NEW e \in Elem, m[e] = NoObj, NEW n
  PROVE  Sound(s, m, [nm EXCEPT ![e] = n], h, b)
<1>1. \A d \in Elem : m[d] # NoObj => [nm EXCEPT ![e] = n][d] = nm[d]
  OBVIOUS
<1>2. QED
  BY <1>1 DEF Sound

\* An element lets go of its ref, if it has one.
LEMMA ReleasedIsSound ==
  ASSUME IInv, NEW e \in Elem
  PROVE  Sound(Released(e), [m_clientDataRef EXCEPT ![e] = NoObj], m_name, held, m_simulated)
<1>1. /\ Sound(lib, m_clientDataRef, m_name, held, m_simulated)
      /\ m_simulated \in BOOLEAN /\ m_clientDataRef \in [Elem -> Obj \cup {NoObj}]
  BY DEF IInv, TypeOK
<1>2. CASE m_clientDataRef[e] = NoObj
  <2>1. [m_clientDataRef EXCEPT ![e] = NoObj] = m_clientDataRef
    BY <1>1, <1>2
  <2>2. QED
    BY <1>1, <1>2, <2>1 DEF Released
<1>3. CASE m_clientDataRef[e] # NoObj
  BY <1>1, <1>3, ElementReleases DEF Released
<1>4. QED
  BY <1>2, <1>3

\* Deletion of a doomed ref takes nothing from a user.
LEMMA DeletionSound ==
  ASSUME IInv, NEW o \in Obj, DeleteRef(o)
  PROVE  Sound(lib', m_clientDataRef', m_name, held, m_simulated)
<1> DEFINE m == m_clientDataRef
           q == m_clientDataRef'
<1>1. Sound(lib, m, m_name, held, m_simulated) /\ lib.ref[o].life = "doomed"
  BY DEF IInv, DeleteRef
<1>2. /\ LibOK(lib') /\ lib'.m_dataRefs = lib.m_dataRefs \ {o}
      /\ \A p \in Obj : lib'.ref[p] = IF p = o THEN Free ELSE lib.ref[p]
  <2> DEFINE t == [lib EXCEPT !.ref[o] = Free, !.m_dataRefs = @ \ {o}]
  <2>1. LibOK(lib) /\ lib' = t
    BY <1>1 DEF DeleteRef, Sound
  <2>2. /\ LibOK(t) /\ t.m_dataRefs = lib.m_dataRefs \ {o}
        /\ \A p \in Obj : t.ref[p] = IF p = o THEN Free ELSE lib.ref[p]
    BY <1>1, <2>1, DeletedRef
  <2> HIDE DEF t
  <2>3. QED
    BY <2>1, <2>2
<1>3. /\ q \in [Elem -> Obj \cup {NoObj}]
      /\ \A e \in Elem : q[e] = NoObj \/ q[e] = m[e]
  BY <1>1 DEF DeleteRef, Sound
<1>4. Free.life = "free"
  BY DEF Free
<1> HIDE DEF q, m
<1>5. ASSUME NEW p \in Obj, lib'.ref[p].life = "live"
      PROVE  lib'.ref[p].subscribers >= Count(Elem, q, p) + Count(Caller, held, p)
  <2>1. lib'.ref[p] = lib.ref[p] /\ lib.ref[p].life = "live"
    BY <1>2, <1>4, <1>5
  <2>2. lib.ref[p].subscribers >= Count(Elem, m, p) + Count(Caller, held, p)
    BY <1>1, <2>1 DEF Sound
  <2>3. Count(Elem, q, p) <= Count(Elem, m, p)
    <3>1. \A e \in Elem : q[e] = p => m[e] = p
      BY <1>3, NonesAreNone
    <3>2. QED
      BY <3>1, CountLess, UsersAreFinite
  <2>4. /\ Count(Elem, q, p) \in Nat /\ Count(Elem, m, p) \in Nat /\ Count(Caller, held, p) \in Nat
        /\ lib.ref[p].subscribers \in Nat
    BY <1>1, CountNat, UsersAreFinite DEF Sound, LibOK, Libs, Refs
  <2>5. QED
    BY <2>1, <2>2, <2>3, <2>4
<1>6. \A e \in Elem : q[e] # NoObj =>
        /\ lib'.ref[q[e]].life = "live" /\ lib'.ref[q[e]].name = m_name[e]
        /\ lib'.ref[q[e]].simulated = m_simulated
  BY <1>1, <1>2, <1>3 DEF Sound
<1>7. \A c \in Caller : held[c] # NoObj =>
        lib'.ref[held[c]].life = "live" /\ lib'.ref[held[c]].simulated = m_simulated
  BY <1>1, <1>2 DEF Sound
<1>8. \A p \in lib'.m_dataRefs : lib'.ref[p].life # "free" /\ lib'.ref[p].simulated = m_simulated
  BY <1>1, <1>2 DEF Sound, LibOK, Libs
<1>9. Sound(lib', q, m_name, held, m_simulated)
  BY <1>1, <1>2, <1>3, <1>5, <1>6, <1>7, <1>8 DEF Sound
<1>10. QED
  BY <1>9 DEF q

\* unsubscribeDataRef of ExtPlaneClient goes by name, and meets the ref the caller holds.
LEMMA UnsubscriptionSound ==
  ASSUME IInv, NEW c \in Caller, CppUnsubscribe(c)
  PROVE  Sound(lib', m_clientDataRef, m_name, held', m_simulated)
<1>1. /\ Sound(lib, m_clientDataRef, m_name, held, m_simulated)
      /\ LibOK(lib) /\ m_simulated \in BOOLEAN /\ held[c] \in Obj
  BY DEF IInv, TypeOK, Sound, CppUnsubscribe
<1>2. PICK o \in SameName(c) :
        /\ lib.ref[o].life = "live"
        /\ lib' = Unsubscribed([lib EXCEPT !.m_dataRefs = @ \ {o}], o)
  BY DEF CppUnsubscribe
<1>3. /\ o \in Obj /\ o \in lib.m_dataRefs /\ lib.ref[o].simulated = m_simulated
      /\ lib.ref[o].name = lib.ref[held[c]].name
  BY <1>1 DEF SameName, Sound, LibOK, Libs
<1>4. lib.ref[held[c]].life = "live" /\ lib.ref[held[c]].simulated = m_simulated
  BY <1>1 DEF Sound, CppUnsubscribe
<1>5. o = held[c]
  BY <1>1, <1>2, <1>3, <1>4 DEF LibOK, LiveIsEntered
<1> DEFINE t == [lib EXCEPT !.m_dataRefs = @ \ {o}]
<1>6. LibOK(t) /\ t.ref = lib.ref /\ t.m_dataRefs = lib.m_dataRefs \ {o}
  BY <1>1, RemovedFromSet
<1> HIDE DEF t
<1>7. Sound(t, m_clientDataRef, m_name, held, m_simulated)
  BY <1>1, <1>6 DEF Sound
<1>8. Sound(Unsubscribed(t, held[c]), m_clientDataRef, m_name, [held EXCEPT ![c] = NoObj], m_simulated)
  BY <1>1, <1>7, CallerReleases DEF CppUnsubscribe
<1>9. QED
  BY <1>2, <1>5, <1>8 DEF t, CppUnsubscribe

-----------------------------------------------------------------------------
(* The invariant *)

LEMMA InitIInv == Init => IInv
<1> SUFFICES ASSUME Init PROVE IInv
  OBVIOUS
<1>1. /\ lib.ref = [o \in Obj |-> Free]
      /\ lib.dataRefs = [b \in BOOLEAN |-> [n \in Name |-> NoObj]]
      /\ lib.m_dataRefs = {} /\ lib \in Libs
      /\ \A o \in Obj : lib.ref[o].life = "free"
  BY DEF Init, Libs, Refs, Free
<1>2. \A b \in BOOLEAN, n \in Name : EntrySound(lib, b, n)
  BY <1>1 DEF EntrySound
<1>3. LibOK(lib)
  BY <1>1, <1>2 DEF LibOK, LiveIsEntered
<1>4. TypeOK
  BY <1>1, <1>2 DEF Init, TypeOK
<1>5. Sound(lib, m_clientDataRef, m_name, held, m_simulated)
  BY <1>1, <1>3 DEF Init, Sound
<1>6. QED
  BY <1>4, <1>5 DEF Init, IInv

LEMMA NextIInv == IInv /\ [Next]_vars => IInv'
<1> SUFFICES ASSUME IInv, [Next]_vars PROVE IInv'
  OBVIOUS
<1>1. /\ alive \subseteq Elem
      /\ m_name \in [Elem -> Name \cup {NoName}]
      /\ m_clientDataRef \in [Elem -> Obj \cup {NoObj}]
      /\ listens \in [Elem -> SUBSET Obj]
      /\ held \in [Caller -> Obj \cup {NoObj}]
      /\ m_simulated \in BOOLEAN /\ broken \in BOOLEAN
      /\ Sound(lib, m_clientDataRef, m_name, held, m_simulated)
      /\ \A e \in Elem \ alive : m_name[e] = NoName
  BY DEF IInv, TypeOK
\* What is left to show of each action.
<1> DEFINE Rest == /\ alive' \subseteq Elem
                   /\ m_name' \in [Elem -> Name \cup {NoName}]
                   /\ listens' \in [Elem -> SUBSET Obj]
                   /\ m_simulated' \in BOOLEAN
                   /\ broken' \in BOOLEAN
                   /\ Sound(lib', m_clientDataRef', m_name', held', m_simulated')
                   /\ \A e \in Elem \ alive' : m_name'[e] = NoName
<1>2. Rest => IInv'
  BY DEF IInv, TypeOK, Sound, LibOK
<1>3. ASSUME UNCHANGED <<elements, held, m_simulated, lib>>, broken' \in BOOLEAN PROVE Rest
  BY <1>1, <1>3 DEF elements
<1>4. ASSUME NEW e \in Elem, CreateElement(e) PROVE Rest
  BY <1>1, <1>4 DEF CreateElement
<1>5. ASSUME NEW e \in Elem PROVE DestroyElement(e) \/ ClearName(e) => Rest
  <2> SUFFICES ASSUME DestroyElement(e) \/ ClearName(e) PROVE Rest
    OBVIOUS
  <2> DEFINE q == [m_clientDataRef EXCEPT ![e] = NoObj]
  <2>1. /\ lib' = Released(e) /\ m_clientDataRef' = q
        /\ m_name' = [m_name EXCEPT ![e] = NoName]
        /\ held' = held /\ m_simulated' = m_simulated /\ broken' = broken
        /\ alive' = alive \/ alive' = alive \ {e}
        /\ listens' = listens \/ listens' = [listens EXCEPT ![e] = {}]
    BY DEF DestroyElement, ClearName
  <2>2. q[e] = NoObj
    BY <1>1
  <2>3. Sound(Released(e), q, m_name, held, m_simulated)
    BY ReleasedIsSound
  <2> HIDE DEF q
  <2>4. Sound(Released(e), q, [m_name EXCEPT ![e] = NoName], held, m_simulated)
    BY <1>1, <2>2, <2>3, Renamed
  <2>5. Sound(lib', m_clientDataRef', m_name', held', m_simulated')
    BY <2>1, <2>4
  <2>6. QED
    BY <1>1, <2>1, <2>5
<1>6. ASSUME NEW e \in Elem, NEW n \in Name, SetName(e, n) PROVE Rest
  <2> DEFINE q == [m_clientDataRef EXCEPT ![e] = NoObj]
  <2>1. PICK f \in Places(Released(e), m_simulated, {n}) :
          /\ lib' = Subscribed(Released(e), m_simulated, f, Once(n))
          /\ m_clientDataRef' = [m_clientDataRef EXCEPT ![e] = f[n]]
          /\ listens' = [listens EXCEPT ![e] = @ \cup {f[n]}]
    BY <1>6 DEF SetName, Once
  <2>2. /\ m_name' = [m_name EXCEPT ![e] = n] /\ e \in alive
        /\ alive' = alive /\ held' = held /\ m_simulated' = m_simulated /\ broken' = broken
    BY <1>6 DEF SetName
  <2>3. f[n] \in Obj
    BY DEF Places
  <2>4. q[e] = NoObj /\ [q EXCEPT ![e] = f[n]] = [m_clientDataRef EXCEPT ![e] = f[n]]
    BY <1>1
  <2>5. Sound(Released(e), q, m_name, held, m_simulated)
    BY ReleasedIsSound
  <2> HIDE DEF q
  <2>6. \A g \in Places(Released(e), m_simulated, {n}) :
          Sound(Subscribed(Released(e), m_simulated, g, Once(n)),
                [q EXCEPT ![e] = g[n]], [m_name EXCEPT ![e] = n], held, m_simulated)
    <3>1. /\ m_name \in [Elem -> Name \cup {NoName}] /\ m_simulated \in BOOLEAN
          /\ q[e] = NoObj /\ Sound(Released(e), q, m_name, held, m_simulated)
      BY <1>1, <2>4, <2>5
    <3>2. QED
      BY <3>1, ElementTakes
  <2>7. Sound(lib', m_clientDataRef', m_name', held', m_simulated')
    BY <2>1, <2>2, <2>4, <2>6
  <2>8. listens' \in [Elem -> SUBSET Obj]
    BY <1>1, <2>1, <2>3
  <2>9. QED
    BY <1>1, <2>2, <2>7, <2>8
<1>7. ASSUME NEW c \in Caller, NEW n \in Name, CppSubscribe(c, n) PROVE Rest
  <2>1. PICK f \in Places(lib, m_simulated, {n}) :
          /\ lib' = Subscribed(lib, m_simulated, f, Once(n))
          /\ held' = [held EXCEPT ![c] = f[n]]
    BY <1>7 DEF CppSubscribe, Once
  <2>2. held[c] = NoObj /\ UNCHANGED <<elements, m_simulated, broken>>
    BY <1>7 DEF CppSubscribe
  <2>3. Sound(lib', m_clientDataRef, m_name, held', m_simulated)
    <3>1. held[c] = NoObj /\ m_simulated \in BOOLEAN
          /\ Sound(lib, m_clientDataRef, m_name, held, m_simulated)
      BY <1>1, <2>2
    <3>2. \A g \in Places(lib, m_simulated, {n}) :
            Sound(Subscribed(lib, m_simulated, g, Once(n)), m_clientDataRef, m_name,
                  [held EXCEPT ![c] = g[n]], m_simulated)
      BY <3>1, CallerTakes
    <3>3. QED
      BY <2>1, <3>2
  <2>4. QED
    BY <1>1, <2>2, <2>3 DEF elements
<1>8. ASSUME NEW c \in Caller, CppUnsubscribe(c) PROVE Rest
  <2>1. Sound(lib', m_clientDataRef, m_name, held', m_simulated)
    BY <1>8, UnsubscriptionSound
  <2>2. UNCHANGED <<elements, m_simulated, broken>>
    BY <1>8 DEF CppUnsubscribe
  <2>3. QED
    BY <1>1, <2>1, <2>2 DEF elements
<1>9. ASSUME SetSimulated PROVE Rest
  <2>1. /\ Sound(lib', m_clientDataRef', m_name, held', m_simulated')
        /\ listens' \in [Elem -> SUBSET Obj]
    BY <1>9, SwitchSound
  <2>2. m_simulated' = ~m_simulated /\ UNCHANGED <<alive, m_name, broken>>
    BY <1>9 DEF SetSimulated
  <2>3. m_simulated' \in BOOLEAN
    BY <2>2
  <2>4. QED
    BY <1>1, <2>1, <2>2, <2>3
<1>10. ASSUME NEW o \in Obj, DeleteRef(o) PROVE Rest
  <2>1. Sound(lib', m_clientDataRef', m_name, held, m_simulated)
    BY <1>10, DeletionSound
  <2>2. /\ UNCHANGED <<alive, m_name, held, m_simulated, broken>>
        /\ listens' = [e \in Elem |-> listens[e] \ {o}]
    BY <1>10 DEF DeleteRef
  <2>3. listens' \in [Elem -> SUBSET Obj]
    BY <1>1, <2>2
  <2>4. QED
    BY <1>1, <2>1, <2>2, <2>3
<1> HIDE DEF Rest
<1>11. ASSUME \/ SetSimulatedFails
              \/ \E e \in Elem, n \in Name : SetNameFails(e, n)
              \/ \E c \in Caller : CppUnsubscribeFails(c) \/ \E n \in Name : CppSubscribeFails(c, n)
       PROVE  Rest
  BY <1>3, <1>11 DEF SetSimulatedFails, SetNameFails, CppUnsubscribeFails, CppSubscribeFails
<1>12. CASE UNCHANGED vars
  <2>1. UNCHANGED <<elements, held, m_simulated, lib>> /\ broken' \in BOOLEAN
    BY <1>1, <1>12 DEF vars, elements
  <2>2. QED
    BY <1>2, <1>3, <2>1
<1>13. CASE Next
  BY <1>2, <1>4, <1>5, <1>6, <1>7, <1>8, <1>9, <1>10, <1>11, <1>13 DEF Next
<1>14. QED
  BY <1>12, <1>13

THEOREM RefsInvariance == Spec => []IInv
BY InitIInv, NextIInv, PTL DEF Spec

-----------------------------------------------------------------------------
(* What the runs check *)

\* Every variable has its type, and the names of a connection lead to its own live refs
\* (m_clientDataRefs, simulatedRefs).
THEOREM RefsTypeCorrect == Spec => []TypeOK
<1>1. IInv => TypeOK
  BY DEF IInv
<1>2. QED
  BY <1>1, RefsInvariance, PTL

\* Nobody is left with a ref that is deleted or doomed, or of another name or connection, and
\* ExtPlaneClient's set has none that is deleted (DataRef::m_clientDataRef, setSimulated).
THEOREM UsersHaveLiveRefs == Spec => []UsedIsLive
<1>1. IInv => UsedIsLive
  BY DEF IInv, Sound, UsedIsLive
<1>2. QED
  BY <1>1, RefsInvariance, PTL

\* A live ref counts at least its users (setSubscribers).
THEOREM CountsCoverUsers == Spec => []CountCoversUsers
<1>1. ASSUME IInv PROVE CountCoversUsers
  <2>1. \A o : Users(o) = Count(Elem, m_clientDataRef, o) + Count(Caller, held, o)
    BY DEF Users, Count
  <2>2. QED
    BY <1>1, <2>1 DEF IInv, Sound, CountCoversUsers
<1>2. QED
  BY <1>1, RefsInvariance, PTL

\* An element keeps showing a ref until its name is cleared or it is destroyed, unless a ref
\* it had before is deleted late (DataRef::setName, clientRefDestroyed, setSimulated).
THEOREM ElementsKeepRefs == Spec => RefIsKept
<1> DEFINE Late(e) == \E o \in listens[e] \ {m_clientDataRef[e]} :
                        lib.ref[o].life = "doomed" /\ lib'.ref[o].life = "free"
           Step == \A e \in Elem : m_clientDataRef[e] # NoObj /\ m_clientDataRef'[e] = NoObj =>
                     \/ m_name'[e] = NoName
                     \/ \E o \in listens[e] \ {m_clientDataRef[e]} :
                          lib.ref[o].life = "doomed" /\ lib'.ref[o].life = "free"
<1>1. ASSUME IInv, [Next]_vars PROVE [Step]_vars
  <2> SUFFICES ASSUME Next, NEW e \in Elem,
                      m_clientDataRef[e] # NoObj, m_clientDataRef'[e] = NoObj
               PROVE  m_name'[e] = NoName \/ Late(e)
    BY <1>1
  <2>1. TypeOK /\ (e \notin alive => m_name[e] = NoName)
    BY <1>1 DEF IInv
  <2>2. CASE SetSimulated
    <3> SUFFICES ASSUME m_name[e] # NoName PROVE FALSE
      BY <2>2 DEF SetSimulated
    <3>1. e \in alive /\ m_name[e] \in NamesInUse
      BY <2>1 DEF TypeOK, NamesInUse, Named
    <3>2. PICK f \in Places(Switched, ~m_simulated, NamesInUse) :
            m_clientDataRef' = [d \in Elem |-> IF m_name[d] \in NamesInUse THEN f[m_name[d]]
                                                                         ELSE NoObj]
      BY <2>2 DEF SetSimulated
    <3>3. f[m_name[e]] \in Obj
      BY <3>1 DEF Places
    <3>4. QED
      BY <3>1, <3>2, <3>3, NonesAreNone
  <2>3. ASSUME NEW o \in Obj, DeleteRef(o) PROVE Late(e)
    <3>1. /\ lib.ref[o].life = "doomed" /\ lib' = [lib EXCEPT !.ref[o] = Free, !.m_dataRefs = @ \ {o}]
          /\ o \in listens[e]
      BY <2>1, <2>3 DEF DeleteRef, TypeOK
    <3>2. lib.ref[m_clientDataRef[e]].life = "live"
      BY <1>1 DEF IInv, Sound
    <3>3. lib'.ref[o].life = "free"
      BY <2>1, <3>1 DEF TypeOK, Libs, Free
    <3>4. QED
      BY <3>1, <3>2, <3>3
  <2>4. ASSUME NEW d \in Elem, DestroyElement(d) \/ ClearName(d) PROVE m_name'[e] = NoName
    BY <2>1, <2>4 DEF DestroyElement, ClearName, TypeOK
  <2>5. ASSUME NEW d \in Elem, NEW n \in Name, SetName(d, n) PROVE FALSE
    <3>1. PICK f \in Places(Released(d), m_simulated, {n}) :
            m_clientDataRef' = [m_clientDataRef EXCEPT ![d] = f[n]]
      BY <2>5 DEF SetName
    <3>2. f[n] \in Obj
      BY DEF Places
    <3>3. QED
      BY <2>1, <3>1, <3>2, NonesAreNone DEF TypeOK
  <2>6. CASE m_clientDataRef' = m_clientDataRef
    BY <2>6
  <2>7. QED
    BY <2>2, <2>3, <2>4, <2>5, <2>6
       DEF Next, elements, SetSimulatedFails, CppUnsubscribe, CppUnsubscribeFails, CppSubscribe,
           CppSubscribeFails, CreateElement, SetNameFails
<1>2. QED
  BY <1>1, RefsInvariance, PTL DEF Spec, RefIsKept

=============================================================================
