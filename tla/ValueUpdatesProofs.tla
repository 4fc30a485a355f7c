------------------------- MODULE ValueUpdatesProofs -------------------------
(***************************************************************************)
(* Proofs about module ValueUpdates, for every set of connections, values, *)
(* accuracies and data lengths.                                            *)
(***************************************************************************)
EXTENDS ValueUpdates, FiniteSetTheorems, WellFoundedInduction, TLAPS

Number == Value \cup {Placeholder}

\* A scalar is a number, in the object as in every connection.
ScalarsAreNumbers ==
  kind = "scalar" =>
    /\ val \in Number
    /\ \A c \in Client : base[c] # Empty /\ got[c] # Empty

\* Who is not subscribed has nothing, who is has a baseline, and the object is fresh
\* when nobody is.
Books ==
  /\ \A c \in Client \ Subscribers : got[c] = Nothing /\ base[c] = Nothing
  /\ \A c \in Subscribers : base[c] # Nothing
  /\ Subscribers = {} => ~valid
  /\ kind = "scalar" /\ ~valid => val = Placeholder

\* Nothing of an object that is not valid has reached a client, but that an int array has
\* no elements.
InvalidIsSilent ==
  ~valid => \A c \in Client : got[c] = Nothing \/ (kind = "intArray" /\ got[c] = Empty)

\* An array gets its elements in the first update, from when on every subscriber has some;
\* and until then every baseline is empty, so that the first elements pass.
ArraysServed ==
  IsArray =>
    /\ ~valid => val = Empty
    /\ buffer = Empty <=> val = Empty
    /\ kind = "floatArray" => buffer = val
    /\ \A c \in Subscribers :
         IF val = Empty THEN base[c] = Empty /\ got[c] \in {Nothing, Empty}
                        ELSE got[c] \notin {Nothing, Empty}

\* A client of a scalar that has got nothing still compares with the placeholder, and no
\* value that passes has come since.
UnservedWaits ==
  kind = "scalar" =>
    \A c \in Subscribers : got[c] = Nothing =>
      /\ base[c] = Placeholder
      /\ valid => val = Placeholder \/ worst[c] > -Placeholder

\* The accuracy in force is in every subscriber's history.
WorstCovers == \A c \in Subscribers : acc <= worst[c]

\* The object and the client are each within the worst accuracy of the baseline, and a
\* float array has no elements in the object exactly when its baseline has none.
BaseIsNear ==
  kind \in {"scalar", "floatArray"} =>
    \A c \in Subscribers :
      /\ val = Empty <=> base[c] = Empty
      /\ base[c] = Empty => got[c] \in {Nothing, Empty}
      /\ val # Empty => Distance(val, base[c]) <= worst[c]
      /\ got[c] \notin {Nothing, Empty} => Distance(got[c], base[c]) <= worst[c]

\* The inductive invariant.
IInv ==
  /\ TypeOK
  /\ ScalarsAreNumbers
  /\ Books
  /\ InvalidIsSilent
  /\ ArraysServed
  /\ UnservedWaits
  /\ WorstCovers
  /\ BaseIsNear
  /\ ObjectMirrorsSimulator
  /\ DataIsSent

-----------------------------------------------------------------------------
(* Byte strings *)

LEMMA BytesAreSequences ==
  ASSUME NEW k \in Nat, NEW v \in [1..k -> {0, 1}]
  PROVE  v \in Seq({0, 1}) /\ Len(v) = k /\ DOMAIN v = 1..k
<1>1. v \in Seq({0, 1})
  OBVIOUS
<1> QED
  BY <1>1

LEMMA DataBytes ==
  ASSUME NEW v \in Data
  PROVE  Len(v) \in 0..MaxBytes /\ v \in [1..Len(v) -> {0, 1}] /\ DOMAIN v = 1..Len(v)
<1>1. PICK k \in 0..MaxBytes : v \in [1..k -> {0, 1}]
  BY DEF Data
<1>2. Len(v) = k
  BY <1>1, BytesBounded, BytesAreSequences
<1> QED
  BY <1>1, <1>2

LEMMA BytesAreData ==
  ASSUME NEW k \in 0..MaxBytes, NEW v \in [1..k -> {0, 1}]
  PROVE  v \in Data /\ Len(v) = k
<1>1. Len(v) = k
  BY BytesBounded, BytesAreSequences
<1> QED
  BY <1>1 DEF Data

LEMMA EmptyBytes == <<>> \in Data /\ Len(<<>>) = 0
<1>1. <<>> \in [1..0 -> {0, 1}]
  OBVIOUS
<1>2. 0 \in 0..MaxBytes
  BY BytesBounded
<1> QED
  BY <1>1, <1>2, BytesAreData

LEMMA ZerosAreData ==
  ASSUME NEW k \in 0..MaxBytes
  PROVE  Zeros(k) \in Data /\ Len(Zeros(k)) = k
<1>1. Zeros(k) \in [1..k -> {0, 1}]
  BY DEF Zeros
<1> QED
  BY <1>1, BytesAreData

LEMMA FitIsData ==
  ASSUME NEW n \in Nat, NEW v \in [1..n -> {0, 1}], NEW k \in 0..MaxBytes
  PROVE  /\ Fit(v, k) \in Data /\ Len(Fit(v, k)) = k
         /\ \A i \in 1..k : Fit(v, k)[i] = IF i <= n THEN v[i] ELSE 0
<1>1. Len(v) = n
  BY BytesAreSequences
<1>2. \A i \in 1..k : (IF i <= Len(v) THEN v[i] ELSE 0) \in {0, 1}
  BY <1>1
<1>3. Fit(v, k) \in [1..k -> {0, 1}]
  BY <1>2 DEF Fit
<1>4. \A i \in 1..k : Fit(v, k)[i] = IF i <= n THEN v[i] ELSE 0
  BY <1>1 DEF Fit
<1> QED
  BY <1>3, <1>4, BytesAreData

LEMMA Base64IsBytes ==
  ASSUME NEW v \in Data
  PROVE  \E n \in Nat : Base64(v) \in [1..n -> {0, 1}]
<1>1. Len(v) \in Nat
  BY DataBytes
<1>2. 4 * ((Len(v) + 2) \div 3) \in Nat
  BY <1>1
<1>3. Base64(v) \in [1..(4 * ((Len(v) + 2) \div 3)) -> {0, 1}]
  BY DEF Base64
<1> QED
  BY <1>2, <1>3

-----------------------------------------------------------------------------
(* Text: what valueString makes of a byte string *)

LEMMA LeastNatural ==
  ASSUME NEW S, S \subseteq Nat, S # {}
  PROVE  \E x \in S : \A y \in S : x <= y
<1>1. PICK R : /\ IsWellFoundedOn(R, Nat)
               /\ \A x, y \in Nat : <<x, y>> \in R <=> x < y
  <2>1. \A x, y \in Nat : <<x, y>> \in OpToRel(<, Nat) <=> x < y
    BY DEF OpToRel
  <2> QED
    BY <2>1, NatLessThanWellFounded
<1>2. PICK x \in S : \A y \in S : ~ (<<y, x>> \in R)
  <2>1. IsWellFoundedOn(R, Nat)
    BY <1>1
  <2> QED
    BY <2>1, WFMin, Zenon
<1>3. \A y \in S : x \in Nat /\ y \in Nat /\ ~ (y < x)
  BY <1>1, <1>2
<1>4. \A y \in S : x <= y
  BY <1>3
<1> QED
  BY <1>4

\* The text ends at the first zero byte, or where the bytes end.
LEMMA TextEnds ==
  ASSUME NEW v \in Data
  PROVE  /\ TextLength(v) \in 0..Len(v)
         /\ \A i \in 1..TextLength(v) : v[i] # 0
         /\ TextLength(v) < Len(v) => v[TextLength(v) + 1] = 0
<1>1. Len(v) \in Nat
  BY DataBytes
<1>2. \E n \in 0..Len(v) : /\ \A i \in 1..n : v[i] # 0
                           /\ n < Len(v) => v[n + 1] = 0
  <2> DEFINE Z == {i \in 1..Len(v) : v[i] = 0}
  <2>1. CASE Z = {}
    <3>1. \A i \in 1..Len(v) : v[i] # 0
      BY <2>1
    <3> QED
      BY <1>1, <3>1
  <2>2. CASE Z # {}
    <3>1. Z \subseteq Nat
      BY <1>1
    <3>2. \E x \in Z : \A y \in Z : x <= y
      <4> HIDE DEF Z
      <4> QED
        BY <2>2, <3>1, LeastNatural
    <3>3. PICK x \in Z : \A y \in Z : x <= y
      BY <3>2
    <3>4. x \in 1..Len(v) /\ v[x] = 0 /\ \A i \in 1..Len(v) : v[i] = 0 => x <= i
      BY <3>3
    <3>5. x - 1 \in 0..Len(v) /\ (x - 1) + 1 = x
      BY <1>1, <3>4
    <3>6. \A i \in 1..(x - 1) : v[i] # 0
      BY <1>1, <3>4
    <3> QED
      BY <3>4, <3>5, <3>6
  <2> QED
    BY <2>1, <2>2
<1> QED
  BY <1>2 DEF TextLength

LEMMA TextEndsOnce ==
  ASSUME NEW v \in Data, NEW n \in 0..Len(v),
         \A i \in 1..n : v[i] # 0,
         n < Len(v) => v[n + 1] = 0
  PROVE  TextLength(v) = n
<1>1. Len(v) \in Nat
  BY DataBytes
<1>2. /\ TextLength(v) \in 0..Len(v)
      /\ \A i \in 1..TextLength(v) : v[i] # 0
      /\ TextLength(v) < Len(v) => v[TextLength(v) + 1] = 0
  BY TextEnds
<1>3. ~ (TextLength(v) < n)
  BY <1>1, <1>2
<1>4. ~ (n < TextLength(v))
  BY <1>1, <1>2
<1> QED
  BY <1>1, <1>2, <1>3, <1>4

LEMMA TextIsData ==
  ASSUME NEW v \in Data
  PROVE  /\ Text(v) \in Data /\ Len(Text(v)) = TextLength(v)
         /\ Text(v) \in [1..TextLength(v) -> {0, 1}]
<1>1. TextLength(v) \in 0..Len(v) /\ Len(v) \in 0..MaxBytes /\ v \in [1..Len(v) -> {0, 1}]
  BY TextEnds, DataBytes
<1>2. TextLength(v) \in 0..MaxBytes
  BY <1>1, BytesBounded
<1>3. Text(v) \in [1..TextLength(v) -> {0, 1}]
  BY <1>1 DEF Text
<1> QED
  BY <1>2, <1>3, BytesAreData

\* Byte strings with the same bytes up to the same end have the same text.
LEMMA TextWithoutZeros ==
  ASSUME NEW v \in Data, 0 \notin {v[i] : i \in DOMAIN v}
  PROVE  Text(v) = v
<1>1. Len(v) \in Nat /\ v \in [1..Len(v) -> {0, 1}] /\ DOMAIN v = 1..Len(v)
  BY DataBytes
<1>2. TextLength(v) = Len(v)
  <2>1. Len(v) \in 0..Len(v) /\ \A i \in 1..Len(v) : v[i] # 0
    BY <1>1
  <2>2. ~ (Len(v) < Len(v))
    BY <1>1
  <2> QED
    BY <2>1, <2>2, TextEndsOnce
<1> QED
  BY <1>1, <1>2 DEF Text

\* Writing the text of a byte string over bytes of the same length keeps the text.
LEMMA TextSurvivesFit ==
  ASSUME NEW v \in Data
  PROVE  Text(Fit(Text(v), Len(v))) = Text(v)
<1> DEFINE k == TextLength(v)
           w == Fit(Text(v), Len(v))
<1>1. k \in 0..Len(v) /\ Len(v) \in 0..MaxBytes /\ Len(v) \in Nat
  BY TextEnds, DataBytes
<1>2. Text(v) \in [1..k -> {0, 1}] /\ k \in Nat
  BY <1>1, TextIsData
<1>3. /\ w \in Data /\ Len(w) = Len(v)
      /\ \A i \in 1..Len(v) : w[i] = IF i <= k THEN Text(v)[i] ELSE 0
  BY <1>1, <1>2, FitIsData
<1>4. \A i \in 1..k : Text(v)[i] = v[i] /\ v[i] # 0
  BY TextEnds DEF Text
<1> HIDE DEF w
<1>5. \A i \in 1..k : w[i] = v[i]
  BY <1>1, <1>3, <1>4
<1>6. k < Len(v) => w[k + 1] = 0
  BY <1>1, <1>3
<1>7. TextLength(w) = k
  BY <1>1, <1>3, <1>4, <1>5, <1>6, TextEndsOnce
<1>8. Text(w) = Text(v)
  BY <1>5, <1>7 DEF Text
<1> QED
  BY <1>8 DEF w

-----------------------------------------------------------------------------
(* Distances and emissions *)

LEMMA Distances ==
  ASSUME NEW a \in Int, NEW b \in Int, NEW c \in Int
  PROVE  /\ Distance(a, b) \in Nat
         /\ Distance(a, b) = Distance(b, a)
         /\ Distance(a, a) = 0
         /\ Distance(a, b) <= Distance(a, c) + Distance(c, b)
BY DEF Distance

LEMMA NumbersAreInt == Placeholder \in Int /\ Number \subseteq Int
BY ValuesAreNat DEF Placeholder, Number

\* A value of the simulator is as far from the placeholder as the placeholder from zero.
LEMMA FarFromPlaceholder ==
  ASSUME NEW v \in Value
  PROVE  Distance(v, Placeholder) >= -Placeholder
BY ValuesAreNat DEF Distance, Placeholder

LEMMA PassesByKind ==
  ASSUME NEW c, NEW v
  PROVE  /\ IsData => Passes(c, v)
         /\ kind = "scalar" => (Passes(c, v) <=> Distance(v, base[c]) >= acc)
         /\ kind \in {"floatArray", "intArray"} =>
              (Passes(c, v) <=> \/ acc = 0
                                \/ SizeDiffers(v, base[c])
                                \/ v # Empty /\ base[c] # Empty /\ Distance(v, base[c]) > acc)
BY DEF Passes, IsData

LEMMA Emission ==
  ASSUME NEW v, Emit(v)
  PROVE  \A c \in Client :
           /\ c \in Subscribers /\ Passes(c, v) =>
                got'[c] = Sent(v) /\ base'[c] = NewBase(c, v)
           /\ ~ (c \in Subscribers /\ Passes(c, v)) =>
                got'[c] = got[c] /\ base'[c] = base[c]
BY DEF Emit

LEMMA EmissionTypes ==
  ASSUME TypeOK, NEW v \in Readings, Sent(v) \in Readings, Emit(v)
  PROVE  /\ base' \in [Client -> Readings \cup {Nothing}]
         /\ got' \in [Client -> Readings \cup {Nothing}]
<1>1. \A c \in Client : NewBase(c, v) \in {base[c], v}
  BY DEF NewBase
<1>2. \A c \in Client : base[c] \in Readings \cup {Nothing} /\ got[c] \in Readings \cup {Nothing}
  BY DEF TypeOK
<1> HIDE DEF NewBase, Sent
<1> QED
  BY <1>1, <1>2 DEF Emit

\* The kinds are five, and three of them are not data.
LEMMA KindsApart ==
  ASSUME TypeOK
  PROVE  /\ kind \in {"scalar", "floatArray", "intArray", "string", "data"}
         /\ ~IsData <=> kind \in {"scalar", "floatArray", "intArray"}
         /\ IsArray <=> ~IsData /\ kind # "scalar"
         /\ ~IsData => Readings = Number \cup {Empty}
         /\ IsData => Readings = Data
BY KindsKnown DEF TypeOK, IsData, IsArray, Readings, Number

LEMMA SubscriberHistory ==
  ASSUME TypeOK, WorstCovers, NEW c \in Subscribers
  PROVE  c \in Client /\ acc \in Nat /\ worst[c] \in Nat /\ acc <= worst[c]
<1>1. c \in Client
  BY DEF Subscribers
<1>2. acc \in Nat /\ worst[c] \in Nat
  <2>1. acc \in Accuracy \cup {0} /\ worst[c] \in Accuracy \cup {0}
    BY <1>1 DEF TypeOK
  <2>2. Accuracy \cup {0} \subseteq Nat
    BY AccuraciesAreNat
  <2> QED
    BY <2>1, <2>2
<1>3. acc <= worst[c]
  BY DEF WorstCovers
<1> QED
  BY <1>1, <1>2, <1>3

\* All but the types and the relation to the simulator.
Rest ==
  /\ ScalarsAreNumbers
  /\ Books
  /\ InvalidIsSilent
  /\ ArraysServed
  /\ UnservedWaits
  /\ WorstCovers
  /\ BaseIsNear
  /\ DataIsSent

\* updateValue of a number or an array that takes v.
LEMMA NumberUpdate ==
  ASSUME IInv, ~IsData, Subscribers # {}, NEW v \in Number \cup {Empty},
         kind = "scalar" => v \in Number, val # Empty => v # Empty,
         UpdateValue(v), IsArray => buffer' = v, UNCHANGED <<kind, acc, asked, worst>>
  PROVE  /\ Rest' /\ val' = v /\ valid' = TRUE
         /\ base' \in [Client -> Readings \cup {Nothing}]
         /\ got' \in [Client -> Readings \cup {Nothing}]
<1> USE DEF IInv
<1>1. /\ kind \in {"scalar", "floatArray", "intArray"}
      /\ v \in Readings /\ Readings = Number \cup {Empty} /\ Sent(v) = v
      /\ v # Nothing
  BY KindsApart, NothingIsNoReading DEF Sent, Number, IsData
<1>2. Subscribers' = Subscribers
  BY DEF Subscribers
<1>3. val' = v /\ valid' = TRUE
  BY DEF UpdateValue, TypeOK
<1>4. /\ base' \in [Client -> Readings \cup {Nothing}]
      /\ got' \in [Client -> Readings \cup {Nothing}]
  BY <1>1, EmissionTypes DEF UpdateValue, Silent, TypeOK
<1>5. ASSUME NEW c \in Client
      PROVE  \/ Silent /\ val = v /\ valid
             \/ c \in Subscribers /\ Passes(c, v) /\ got'[c] = v /\ base'[c] = NewBase(c, v)
             \/ ~ (c \in Subscribers /\ Passes(c, v)) /\ got'[c] = got[c] /\ base'[c] = base[c]
  BY <1>1, Emission DEF UpdateValue
<1>6. \A c \in Client : NewBase(c, v) = v \/ (kind = "intArray" /\ NewBase(c, v) = base[c])
  BY DEF NewBase
<1>7. ScalarsAreNumbers'
  <2>1. ASSUME kind = "scalar", NEW c \in Client
        PROVE  base'[c] # Empty /\ got'[c] # Empty
    <3>1. v # Empty /\ base[c] # Empty /\ got[c] # Empty
      BY <2>1, EmptyIsNoValue DEF ScalarsAreNumbers, Number
    <3> QED
      BY <1>5, <1>6, <2>1, <3>1 DEF Silent
  <2> QED
    BY <1>3, <2>1 DEF ScalarsAreNumbers
<1>8. Books'
  <2>1. \A c \in Client \ Subscribers : got'[c] = Nothing /\ base'[c] = Nothing
    BY <1>5 DEF Books, Silent
  <2>2. \A c \in Subscribers : base'[c] # Nothing
    BY <1>1, <1>5, <1>6 DEF Books, Silent, Subscribers
  <2> QED
    BY <1>2, <1>3, <2>1, <2>2 DEF Books
<1>9. InvalidIsSilent'
  BY <1>3 DEF InvalidIsSilent
<1>10. UnservedWaits'
  <2> SUFFICES ASSUME kind = "scalar", NEW c \in Subscribers, got'[c] = Nothing
               PROVE  /\ base'[c] = Placeholder
                      /\ val' = Placeholder \/ worst[c] > -Placeholder
    BY <1>2 DEF UnservedWaits
  <2>1. c \in Client /\ acc \in Nat /\ worst[c] \in Nat /\ acc <= worst[c]
    BY SubscriberHistory
  <2>2. CASE Silent /\ val = v /\ valid
    BY <1>3, <2>2 DEF UnservedWaits, Silent
  <2>3. CASE ~ Passes(c, v) /\ got'[c] = got[c] /\ base'[c] = base[c]
    <3>1. base[c] = Placeholder /\ ~ (Distance(v, base[c]) >= acc)
      BY <2>1, <2>3, PassesByKind DEF UnservedWaits
    <3>2. CASE v = Placeholder
      BY <1>3, <2>3, <3>1, <3>2
    <3>3. CASE v \in Value
      <4>1. Distance(v, Placeholder) >= -Placeholder
        BY <3>3, FarFromPlaceholder
      <4>2. Distance(v, Placeholder) \in Int /\ -Placeholder \in Int
        BY <3>3, Distances, NumbersAreInt, ValuesAreNat
      <4>3. worst[c] > -Placeholder
        BY <2>1, <3>1, <4>1, <4>2
      <4> QED
        BY <2>3, <3>1, <4>3
    <3> QED
      BY <3>2, <3>3 DEF Number
  <2> QED
    BY <1>1, <1>5, <2>1, <2>2, <2>3
<1>11. WorstCovers'
  BY <1>2 DEF WorstCovers
<1>12. BaseIsNear'
  <2> SUFFICES ASSUME kind \in {"scalar", "floatArray"}, NEW c \in Subscribers
               PROVE  /\ v = Empty <=> base'[c] = Empty
                      /\ base'[c] = Empty => got'[c] \in {Nothing, Empty}
                      /\ v # Empty => Distance(v, base'[c]) <= worst[c]
                      /\ got'[c] \notin {Nothing, Empty} => Distance(got'[c], base'[c]) <= worst[c]
    BY <1>2, <1>3 DEF BaseIsNear
  <2>1. c \in Client /\ acc \in Nat /\ worst[c] \in Nat /\ acc <= worst[c]
    BY SubscriberHistory
  <2>2. /\ val = Empty <=> base[c] = Empty
        /\ base[c] = Empty => got[c] \in {Nothing, Empty}
        /\ val # Empty => Distance(val, base[c]) <= worst[c]
        /\ got[c] \notin {Nothing, Empty} => Distance(got[c], base[c]) <= worst[c]
    BY DEF BaseIsNear
  <2>3. CASE Silent /\ val = v /\ valid
    BY <2>2, <2>3 DEF Silent
  <2>4. CASE got'[c] = v /\ base'[c] = NewBase(c, v)
    <3>1. base'[c] = v
      BY <1>6, <2>1, <2>4
    <3>2. v # Empty => Distance(v, v) = 0
      BY NumbersAreInt, Distances
    <3> QED
      BY <2>1, <2>4, <3>1, <3>2
  <2>5. CASE ~ Passes(c, v) /\ got'[c] = got[c] /\ base'[c] = base[c]
    <3>1. kind = "scalar" => v # Empty /\ base[c] # Empty /\ ~ (Distance(v, base[c]) >= acc)
      BY <2>1, <2>5, PassesByKind, EmptyIsNoValue DEF ScalarsAreNumbers, Number
    <3>2. kind = "floatArray" => /\ v = Empty <=> base[c] = Empty
                                 /\ v # Empty => ~ (Distance(v, base[c]) > acc)
      BY <2>5, PassesByKind DEF SizeDiffers
    <3>3. v # Empty => base[c] \in Number
      BY <1>1, <2>1, <3>1, <3>2 DEF Books, TypeOK
    <3>4. v # Empty => Distance(v, base[c]) \in Nat
      BY <3>3, NumbersAreInt, Distances
    <3>5. v # Empty => Distance(v, base[c]) <= worst[c]
      BY <2>1, <3>1, <3>2, <3>4
    <3> QED
      BY <2>2, <2>5, <3>1, <3>2, <3>5
  <2> QED
    BY <1>5, <2>1, <2>3, <2>4, <2>5
<1>13. DataIsSent'
  BY DEF DataIsSent, IsData
<1>14. ArraysServed'
  <2> SUFFICES ASSUME IsArray
               PROVE  \A c \in Subscribers :
                        IF v = Empty THEN base'[c] = Empty /\ got'[c] \in {Nothing, Empty}
                                     ELSE got'[c] \notin {Nothing, Empty}
    BY <1>2, <1>3 DEF ArraysServed, IsArray
  <2> TAKE c \in Subscribers
  <2>1. /\ c \in Client
        /\ IF val = Empty THEN base[c] = Empty /\ got[c] \in {Nothing, Empty}
                          ELSE got[c] \notin {Nothing, Empty}
    BY DEF ArraysServed, Subscribers
  <2>2. CASE v = Empty
    BY <1>5, <1>6, <2>1, <2>2 DEF Silent
  <2>3. CASE v # Empty
    <3>1. val = Empty => Passes(c, v)
      BY <2>1, <2>3, PassesByKind DEF IsArray, SizeDiffers
    <3> QED
      BY <1>1, <1>5, <2>1, <2>3, <3>1 DEF Silent
  <2> QED
    BY <2>2, <2>3
<1> QED
  BY <1>3, <1>4, <1>7, <1>8, <1>9, <1>10, <1>11, <1>12, <1>13, <1>14 DEF Rest

\* A data object that emits v tells everybody.
LEMMA DataEmission ==
  ASSUME IInv, IsData, Subscribers # {}, NEW v \in Data, Emit(v),
         val' = v, valid' = TRUE, UNCHANGED <<kind, acc, asked, worst>>
  PROVE  /\ Rest'
         /\ base' \in [Client -> Readings \cup {Nothing}]
         /\ got' \in [Client -> Readings \cup {Nothing}]
<1> USE DEF IInv
<1>1. kind \in {"string", "data"} /\ Readings = Data /\ v \in Readings
  BY KindsApart DEF IsData
<1>2. Sent(v) \in Readings /\ v # Nothing
  BY <1>1, TextIsData, NothingIsNoReading DEF Sent
<1>3. Subscribers' = Subscribers
  BY DEF Subscribers
<1>4. /\ base' \in [Client -> Readings \cup {Nothing}]
      /\ got' \in [Client -> Readings \cup {Nothing}]
  BY <1>1, <1>2, EmissionTypes
<1>5. \A c \in Subscribers : got'[c] = Sent(v) /\ base'[c] = v
  BY <1>1, Emission, PassesByKind DEF NewBase, Subscribers
<1>6. \A c \in Client \ Subscribers : got'[c] = got[c] /\ base'[c] = base[c]
  BY Emission
<1>7. Books'
  BY <1>1, <1>2, <1>3, <1>5, <1>6 DEF Books
<1>8. WorstCovers'
  BY <1>3 DEF WorstCovers
<1>9. DataIsSent'
  BY <1>3, <1>5 DEF DataIsSent, Sent
<1>10. /\ ScalarsAreNumbers' /\ InvalidIsSilent' /\ ArraysServed'
       /\ UnservedWaits' /\ BaseIsNear'
  BY <1>1 DEF ScalarsAreNumbers, InvalidIsSilent, ArraysServed, IsArray, UnservedWaits, BaseIsNear
<1> QED
  BY <1>4, <1>7, <1>8, <1>9, <1>10 DEF Rest

\* What setLength and the copy of v make of the object's bytes and of the buffer.
LEMMA LengthTaken ==
  ASSUME TypeOK, IsData, NEW v \in Data
  PROVE  /\ NewLength(v).val \in Data /\ NewLength(v).buffer \in Data
         /\ NewLength(v).val \in {val, Zeros(Len(NewLength(v).val))}
         /\ Len(NewLength(v).buffer) = Len(v) => NewLength(v).buffer = v
<1>1. val \in Data /\ buffer \in Data
  BY KindsApart DEF TypeOK
<1>2. Len(v) \in 0..MaxBytes /\ v \in [1..Len(v) -> {0, 1}]
  BY DataBytes
<1>3. CASE Len(val) # Len(v)
  <2>1. NewLength(v).val = Zeros(Len(v)) /\ NewLength(v).buffer = v
    BY <1>3 DEF NewLength
  <2>2. Zeros(Len(v)) \in Data /\ Len(Zeros(Len(v))) = Len(v)
    BY <1>2, ZerosAreData
  <2> QED
    BY <2>1, <2>2
<1>4. CASE Len(val) = Len(v)
  <2> DEFINE b == [i \in DOMAIN buffer |-> IF i <= Len(v) THEN v[i] ELSE buffer[i]]
  <2>1. NewLength(v).val = val /\ NewLength(v).buffer = b
    BY <1>4 DEF NewLength
  <2>2. /\ Len(buffer) \in 0..MaxBytes /\ DOMAIN buffer = 1..Len(buffer)
        /\ buffer \in [1..Len(buffer) -> {0, 1}]
    BY <1>1, DataBytes
  <2>3. \A i \in 1..Len(buffer) : (IF i <= Len(v) THEN v[i] ELSE buffer[i]) \in {0, 1}
    BY <1>2, <2>2
  <2>4. b \in [1..Len(buffer) -> {0, 1}]
    BY <2>2, <2>3
  <2>5. b \in Data /\ Len(b) = Len(buffer)
    <3> HIDE DEF b
    <3> QED
      BY <2>2, <2>4, BytesAreData
  <2>6. ASSUME Len(buffer) = Len(v) PROVE b = v
    <3>1. \A i \in 1..Len(v) : b[i] = v[i]
      BY <2>2, <2>6
    <3> HIDE DEF b
    <3> QED
      BY <1>2, <2>4, <2>6, <3>1
  <2> HIDE DEF b
  <2> QED
    BY <1>1, <2>1, <2>5, <2>6
<1> QED
  BY <1>3, <1>4

LEMMA DataUpdateKeepsIInv ==
  ASSUME IInv, IsData, Subscribers # {}, UpdateData(sim),
         turn' = "events", UNCHANGED <<kind, sim, acc, asked, worst>>
  PROVE  IInv'
<1> DEFINE new == NewLength(sim)
<1> USE DEF IInv
<1>1. /\ kind \in {"string", "data"} /\ Readings = Data /\ sim \in Data
      /\ kind' = kind /\ Readings' = Readings /\ IsData' = IsData
  BY KindsApart DEF IsData, Readings, TypeOK
<1>2. /\ new.val \in Data /\ new.buffer \in Data
      /\ new.val \in {val, Zeros(Len(new.val))}
      /\ Len(new.buffer) = Len(sim) => new.buffer = sim
  BY <1>1, LengthTaken
<1>3. Subscribers' = Subscribers
  BY DEF Subscribers
<1>4. due' \in BOOLEAN /\ buffer' = new.buffer
  BY DEF UpdateData
<1>5. CASE /\ due' /\ (new.buffer # new.val \/ ~valid)
           /\ val' = new.buffer /\ valid' = TRUE /\ Emit(new.buffer)
  <2>1. /\ Rest'
        /\ base' \in [Client -> Readings \cup {Nothing}]
        /\ got' \in [Client -> Readings \cup {Nothing}]
    <3> HIDE DEF new
    <3> QED
      BY <1>2, <1>5, DataEmission
  <2>2. TypeOK'
    BY <1>1, <1>2, <1>4, <1>5, <2>1, EmptyIsNoValue DEF TypeOK
  <2>3. ObjectMirrorsSimulator'
    BY <1>1, <1>2, <1>5 DEF ObjectMirrorsSimulator, IsArray
  <2> QED
    BY <2>1, <2>2, <2>3 DEF Rest
<1>6. CASE /\ ~ (due' /\ (new.buffer # new.val \/ ~valid))
           /\ val' = new.val /\ Silent /\ valid' = valid
  <2>1. TypeOK'
    BY <1>1, <1>2, <1>4, <1>6, EmptyIsNoValue DEF TypeOK, Silent
  <2>2. ObjectMirrorsSimulator'
    BY <1>1, <1>2, <1>6 DEF ObjectMirrorsSimulator, IsArray
  <2>3. DataIsSent'
    <3> SUFFICES ASSUME valid, NEW c \in Subscribers
                 PROVE  got[c] = Sent(val)' \/ val' = Zeros(Len(val'))
      BY <1>3, <1>6 DEF DataIsSent, Silent
    <3>1. got[c] = Sent(val) \/ val = Zeros(Len(val))
      BY DEF DataIsSent
    <3>2. CASE val' = val
      BY <3>1, <3>2 DEF Sent
    <3>3. CASE val' = Zeros(Len(new.val))
      BY <1>6, <3>3
    <3> QED
      BY <1>2, <1>6, <3>2, <3>3
  <2>4. Books' /\ WorstCovers' /\ InvalidIsSilent' /\ ArraysServed'
    BY <1>1, <1>3, <1>6 DEF Books, WorstCovers, InvalidIsSilent, ArraysServed, IsArray, Silent
  <2>5. ScalarsAreNumbers' /\ UnservedWaits' /\ BaseIsNear'
    BY <1>1 DEF ScalarsAreNumbers, UnservedWaits, BaseIsNear
  <2> QED
    BY <2>1, <2>2, <2>3, <2>4, <2>5
<1> QED
  BY <1>5, <1>6 DEF UpdateData

-----------------------------------------------------------------------------
(* One lemma per action *)

\* Steps that touch neither the object nor a connection.
LEMMA ObjectAlone ==
  ASSUME IInv, UNCHANGED <<kind, val, valid, buffer, acc, perConn>>,
         TypeOK', ObjectMirrorsSimulator'
  PROVE  IInv'
<1>1. Subscribers' = Subscribers /\ UNCHANGED <<base, got, asked, worst>>
  BY DEF Subscribers, perConn
<1> QED
  BY <1>1 DEF IInv, ScalarsAreNumbers, Books, InvalidIsSilent, ArraysServed, UnservedWaits,
       WorstCovers, BaseIsNear, DataIsSent, IsData, IsArray, Sent

\* A new object's value and buffer are readings, and an array has no elements.
LEMMA FreshObject ==
  /\ Fresh \in Readings /\ FreshBuffer \in Readings
  /\ kind = "scalar" => Fresh = Placeholder
  /\ IsArray => Fresh = Empty /\ FreshBuffer = Empty
BY EmptyBytes DEF Fresh, FreshBuffer, Readings, IsData, IsArray

LEMMA ReadableIsReading == Readable \subseteq Readings \ {Empty}
BY EmptyIsNoValue DEF Readable, Readings

LEMMA SimulatorRunsKeepsIInv ==
  ASSUME IInv, SimulatorRuns
  PROVE  IInv'
<1>1. /\ turn = "simulator" /\ sim' \in Readings \ {Empty}
      /\ UNCHANGED <<turn, kind, val, valid, buffer, due, acc, base, got, asked, worst>>
  BY ReadableIsReading DEF SimulatorRuns, object, content, perConn
<1>2. TypeOK'
  BY <1>1 DEF IInv, TypeOK, Readings, IsData
<1>3. ObjectMirrorsSimulator'
  BY <1>1 DEF ObjectMirrorsSimulator
<1> QED
  BY <1>1, <1>2, <1>3, ObjectAlone DEF perConn

LEMMA CallbackReturnsKeepsIInv ==
  ASSUME IInv, CallbackReturns
  PROVE  IInv'
<1>1. /\ turn' = "simulator"
      /\ UNCHANGED <<kind, sim, val, valid, buffer, due, acc, base, got, asked, worst>>
  BY DEF CallbackReturns, object, content, perConn
<1>2. TypeOK'
  BY <1>1 DEF IInv, TypeOK, Readings, IsData
<1>3. ObjectMirrorsSimulator'
  BY <1>1 DEF ObjectMirrorsSimulator
<1> QED
  BY <1>1, <1>2, <1>3, ObjectAlone DEF perConn

LEMMA FlightLoopKeepsIInv ==
  ASSUME IInv, FlightLoop
  PROVE  IInv'
<1>1. turn' = "events" /\ UNCHANGED <<kind, sim, acc, asked, worst>>
  BY DEF FlightLoop
<1>2. CASE Subscribers = {}
  <2>1. UNCHANGED <<val, valid, buffer, due, base, got>>
    BY <1>2 DEF FlightLoop, content, Silent
  <2>2. ~valid
    BY <1>2 DEF IInv, Books
  <2>3. TypeOK'
    BY <1>1, <2>1 DEF IInv, TypeOK, Readings, IsData
  <2>4. ObjectMirrorsSimulator'
    BY <2>1, <2>2 DEF ObjectMirrorsSimulator
  <2> QED
    BY <1>1, <2>1, <2>3, <2>4, ObjectAlone DEF perConn
<1>3. CASE Subscribers # {} /\ IsData
  <2>1. UpdateData(sim)
    BY <1>3 DEF FlightLoop
  <2> QED
    BY <1>1, <1>3, <2>1, DataUpdateKeepsIInv
<1>4. CASE Subscribers # {} /\ ~IsData
  <2>1. UpdateValue(sim) /\ buffer' = (IF IsArray THEN sim ELSE buffer) /\ UNCHANGED due
    BY <1>4 DEF FlightLoop
  <2>2. /\ sim \in Number /\ sim # Empty
        /\ kind \in {"scalar", "floatArray", "intArray"} /\ Readings' = Readings
    BY <1>1, <1>4, KindsApart DEF IInv, TypeOK, Readings, IsData
  <2>3. /\ Rest' /\ val' = sim /\ valid' = TRUE
        /\ base' \in [Client -> Readings \cup {Nothing}]
        /\ got' \in [Client -> Readings \cup {Nothing}]
    BY <1>1, <1>4, <2>1, <2>2, NumberUpdate
  <2>4. TypeOK'
    BY <1>1, <2>1, <2>2, <2>3 DEF IInv, TypeOK
  <2>5. ObjectMirrorsSimulator'
    BY <1>1, <2>1, <2>2, <2>3 DEF ObjectMirrorsSimulator, IsArray
  <2> QED
    BY <2>3, <2>4, <2>5 DEF IInv, Rest
<1> QED
  BY <1>2, <1>3, <1>4

\* What the simulator is written by changeDataRef.
LEMMA WrittenIsReadable ==
  ASSUME TypeOK, NEW v \in Readings
  PROVE  Written(v) \in Readings \ {Empty}
<1>1. CASE ~IsData
  <2>1. Written(v) = IF v = Empty THEN sim ELSE v
    BY <1>1 DEF Written, IsData
  <2> QED
    BY <2>1 DEF TypeOK
<1>2. CASE IsData
  <2>1. v \in Data /\ sim \in Data /\ Readings = Data
    BY <1>2, KindsApart DEF TypeOK
  <2>2. Len(sim) \in 0..MaxBytes
    BY <2>1, DataBytes
  <2>3. Fit(Text(v), Len(sim)) \in Data
    <3>1. TextLength(v) \in Nat /\ Text(v) \in [1..TextLength(v) -> {0, 1}]
      BY <2>1, TextIsData, TextEnds, DataBytes
    <3> QED
      BY <2>2, <3>1, FitIsData
  <2>4. Fit(Base64(v), Len(sim)) \in Data
    <3>1. PICK n \in Nat : Base64(v) \in [1..n -> {0, 1}]
      BY <2>1, Base64IsBytes
    <3> QED
      BY <2>2, <3>1, FitIsData
  <2>5. Written(v) \in {Fit(Text(v), Len(sim)), Fit(Base64(v), Len(sim))}
    BY <1>2 DEF Written, IsData
  <2> QED
    BY <2>1, <2>3, <2>4, <2>5, EmptyIsNoValue
<1> QED
  BY <1>1, <1>2

LEMMA ArrayEchoKeepsRest ==
  ASSUME IInv, kind = "intArray", Subscribers # {}, Emit(val),
         buffer' = Empty <=> buffer = Empty,
         UNCHANGED <<kind, val, valid, acc, asked, worst>>
  PROVE  /\ Rest'
         /\ base' \in [Client -> Readings \cup {Nothing}]
         /\ got' \in [Client -> Readings \cup {Nothing}]
<1> USE DEF IInv
<1>1. /\ Readings = Number \cup {Empty} /\ val \in Readings /\ Sent(val) = val /\ val # Nothing
  BY KindsApart, NothingIsNoReading DEF TypeOK, IsData, Sent, Number
<1>2. /\ base' \in [Client -> Readings \cup {Nothing}]
      /\ got' \in [Client -> Readings \cup {Nothing}]
  BY <1>1, EmissionTypes
<1>3. Subscribers' = Subscribers
  BY DEF Subscribers
<1>4. \A c \in Client \ Subscribers : got'[c] = got[c] /\ base'[c] = base[c]
  BY Emission
<1>5. \A c \in Subscribers : base'[c] \in {base[c], val}
  BY Emission DEF NewBase, Subscribers
<1>6. Books'
  BY <1>1, <1>3, <1>4, <1>5 DEF Books
<1>7. WorstCovers'
  BY <1>3 DEF WorstCovers
<1>8. ScalarsAreNumbers' /\ UnservedWaits' /\ BaseIsNear' /\ DataIsSent'
  BY DEF ScalarsAreNumbers, UnservedWaits, BaseIsNear, DataIsSent, IsData
<1>9. \A c \in Subscribers : got'[c] \in {got[c], val}
  BY <1>1, Emission DEF Subscribers
<1>10. ~valid => val = Empty
  BY DEF ArraysServed, IsArray
<1>11. InvalidIsSilent'
  BY <1>4, <1>9, <1>10 DEF InvalidIsSilent, Subscribers
<1>12. ArraysServed'
  BY <1>1, <1>3, <1>5, <1>9 DEF ArraysServed, IsArray
<1> QED
  BY <1>2, <1>6, <1>7, <1>8, <1>11, <1>12 DEF Rest

\* A set of an array, with v for its element.
LEMMA ArrayTakes ==
  ASSUME IInv, IsArray, Subscribers # {}, NEW v \in Number \cup {Empty},
         buffer # Empty => v # Empty, ObjectTakes(v), UNCHANGED <<kind, acc, asked, worst>>
  PROVE  /\ Rest' /\ val' \in Readings /\ valid' \in BOOLEAN
         /\ base' \in [Client -> Readings \cup {Nothing}]
         /\ got' \in [Client -> Readings \cup {Nothing}]
         /\ buffer' = IF buffer = Empty THEN Empty ELSE v
         /\ kind = "floatArray" => val' = buffer'
<1> DEFINE u == IF buffer = Empty THEN Empty ELSE v
<1> USE DEF IInv
<1>1. /\ kind \in {"floatArray", "intArray"} /\ ~IsData /\ kind # "scalar"
      /\ Readings = Number \cup {Empty} /\ val \in Readings /\ valid \in BOOLEAN
      /\ buffer = Empty <=> val = Empty
  BY KindsApart DEF IsArray, TypeOK, ArraysServed
<1>2. /\ buffer' = u
      /\ kind = "floatArray" => UpdateValue(u)
      /\ kind = "intArray" => Emit(val) /\ UNCHANGED <<val, valid>>
  BY <1>1 DEF ObjectTakes
<1>3. u \in Number \cup {Empty} /\ (val # Empty => u # Empty) /\ (buffer = Empty <=> u = Empty)
  BY <1>1
<1> HIDE DEF u
<1>4. CASE kind = "floatArray"
  <2>1. /\ Rest' /\ val' = u /\ valid' = TRUE
        /\ base' \in [Client -> Readings \cup {Nothing}]
        /\ got' \in [Client -> Readings \cup {Nothing}]
    BY <1>1, <1>2, <1>3, <1>4, NumberUpdate
  <2> QED
    BY <1>1, <1>2, <1>3, <2>1 DEF u
<1>5. CASE kind = "intArray"
  <2>1. /\ Rest'
        /\ base' \in [Client -> Readings \cup {Nothing}]
        /\ got' \in [Client -> Readings \cup {Nothing}]
    BY <1>2, <1>3, <1>5, ArrayEchoKeepsRest
  <2> QED
    BY <1>1, <1>2, <1>5, <2>1 DEF u
<1> QED
  BY <1>1, <1>4, <1>5

LEMMA SetGarbageKeepsIInv ==
  ASSUME IInv, NEW c \in Client, SetGarbage(c)
  PROVE  IInv'
<1>1. /\ turn = "events" /\ sim' = Written(Given(buffer, val))
      /\ UNCHANGED <<turn, kind, due, acc, asked, worst>>
      /\ Subscribers # {}
  BY DEF SetGarbage, Subscribers
<1>2. /\ Given(buffer, val) \in Readings
      /\ IsArray => Given(buffer, val) = buffer
      /\ ~IsArray => Given(buffer, val) = val
  BY DEF Given, IInv, TypeOK
<1>3. sim' \in Readings \ {Empty} /\ Readings' = Readings
  BY <1>1, <1>2, WrittenIsReadable DEF IInv, TypeOK, Readings, IsData
<1>4. IsArray => sim' = IF buffer = Empty THEN sim ELSE buffer
  BY <1>1, <1>2 DEF Written, IsArray
<1>5. CASE Silent /\ UNCHANGED content
  <2>1. UNCHANGED <<val, valid, buffer, base, got>>
    BY <1>5 DEF Silent, content
  <2>2. TypeOK'
    BY <1>1, <1>3, <2>1 DEF IInv, TypeOK
  <2>3. ObjectMirrorsSimulator'
    <3>1. CASE kind = "scalar"
      BY <1>1, <1>2, <2>1, <3>1 DEF IInv, ObjectMirrorsSimulator, Written, IsArray
    <3>2. CASE IsArray
      BY <1>1, <1>4, <2>1, <3>2 DEF IInv, ObjectMirrorsSimulator, IsArray
    <3>3. CASE kind = "string"
      <4>1. sim' = Fit(Text(val), Len(sim)) /\ val \in Data /\ sim \in Data
        BY <1>1, <1>2, <3>3, KindsApart DEF Written, IInv, TypeOK, IsData, IsArray
      <4>2. Len(sim') = Len(sim)
        <5>1. TextLength(val) \in Nat /\ Text(val) \in [1..TextLength(val) -> {0, 1}]
          BY <4>1, TextIsData, TextEnds, DataBytes
        <5>2. Len(sim) \in 0..MaxBytes
          BY <4>1, DataBytes
        <5> QED
          BY <4>1, <5>1, <5>2, FitIsData
      <4>3. Len(val) = Len(sim) => Text(sim') = Text(val)
        BY <4>1, TextSurvivesFit
      <4>4. Text(sim)' = Text(sim') /\ Text(val)' = Text(val)
        BY <2>1 DEF Text, TextLength
      <4> QED
        BY <1>1, <2>1, <3>3, <4>2, <4>3, <4>4 DEF ObjectMirrorsSimulator, IsArray
    <3>4. CASE kind \notin {"scalar", "string"} /\ ~IsArray
      BY <1>1, <3>4 DEF ObjectMirrorsSimulator, IsArray
    <3> QED
      BY <3>1, <3>2, <3>3, <3>4
  <2> QED
    BY <1>1, <2>1, <2>2, <2>3, ObjectAlone DEF perConn
<1>6. CASE IsArray /\ ObjectTakes(buffer)
  <2>1. buffer \in Number \cup {Empty}
    BY <1>6, KindsApart DEF IInv, TypeOK
  <2>2. /\ Rest' /\ val' \in Readings /\ valid' \in BOOLEAN
        /\ base' \in [Client -> Readings \cup {Nothing}]
        /\ got' \in [Client -> Readings \cup {Nothing}]
        /\ buffer' = buffer
        /\ kind = "floatArray" => val' = buffer'
    BY <1>1, <1>6, <2>1, ArrayTakes
  <2>3. TypeOK'
    BY <1>1, <1>3, <2>2 DEF IInv, TypeOK
  <2>4. ObjectMirrorsSimulator'
    BY <1>1, <1>4, <1>6, <2>2 DEF ObjectMirrorsSimulator, IsArray
  <2> QED
    BY <2>2, <2>3, <2>4 DEF IInv, Rest
<1> QED
  BY <1>5, <1>6 DEF SetGarbage

LEMMA SetValueKeepsIInv ==
  ASSUME IInv, NEW c \in Client, NEW v \in Settable, SetValue(c, v)
  PROVE  IInv'
<1>1. /\ turn = "events" /\ ObjectTakes(v) /\ sim' = Written(Given(buffer', val'))
      /\ UNCHANGED <<turn, kind, due, acc, asked, worst>>
      /\ Subscribers # {}
  BY DEF SetValue, Subscribers
<1>2. kind = "scalar" \/ IsArray \/ kind = "string"
  BY KindsApart DEF IInv, Settable, IsData, IsArray
<1>3. /\ kind # "string" => v \in Value /\ Readings = Number \cup {Empty} /\ ~IsData
      /\ kind = "string" => v \in Data /\ 0 \notin {v[i] : i \in DOMAIN v}
                            /\ Readings = Data /\ IsData
  BY <1>2, KindsApart DEF IInv, Settable, IsData, IsArray
<1>4. v # Empty /\ v \in Readings /\ val \in Readings
  BY <1>2, <1>3, EmptyIsNoValue DEF IInv, TypeOK, Number
<1>5. /\ IsArray => sim' = IF buffer' = Empty THEN sim ELSE buffer'
      /\ kind = "scalar" /\ val' # Empty => sim' = val'
  BY <1>1 DEF Written, Given, IsArray
<1>6. ASSUME val' \in Readings, valid' \in BOOLEAN, buffer' \in Readings,
             Rest', ObjectMirrorsSimulator',
             base' \in [Client -> Readings \cup {Nothing}],
             got' \in [Client -> Readings \cup {Nothing}]
      PROVE  IInv'
  <2>1. Given(buffer', val') \in Readings
    BY <1>6 DEF Given
  <2>2. sim' \in Readings \ {Empty} /\ Readings' = Readings
    BY <1>1, <2>1, WrittenIsReadable DEF IInv, Readings, IsData
  <2>3. TypeOK'
    BY <1>1, <1>6, <2>2 DEF IInv, TypeOK
  <2> QED
    BY <1>6, <2>3 DEF IInv, Rest
<1>7. CASE kind = "scalar"
  <2>1. UpdateValue(v) /\ buffer' = buffer /\ v \in Number /\ ~IsArray
    BY <1>1, <1>3, <1>7 DEF ObjectTakes, Number, IsArray
  <2>2. /\ Rest' /\ val' = v /\ valid' = TRUE
        /\ base' \in [Client -> Readings \cup {Nothing}]
        /\ got' \in [Client -> Readings \cup {Nothing}]
    BY <1>1, <1>3, <1>4, <1>7, <2>1, NumberUpdate
  <2>3. ObjectMirrorsSimulator'
    BY <1>1, <1>4, <1>5, <1>7, <2>2 DEF ObjectMirrorsSimulator, IsArray
  <2> QED
    BY <1>4, <1>6, <2>1, <2>2, <2>3 DEF IInv, TypeOK
<1>8. CASE IsArray
  <2>1. v \in Number \cup {Empty} /\ buffer \in Readings
    BY <1>3, <1>8 DEF Number, IInv, TypeOK, IsArray
  <2>2. /\ Rest' /\ val' \in Readings /\ valid' \in BOOLEAN
        /\ base' \in [Client -> Readings \cup {Nothing}]
        /\ got' \in [Client -> Readings \cup {Nothing}]
        /\ buffer' = IF buffer = Empty THEN Empty ELSE v
        /\ kind = "floatArray" => val' = buffer'
    BY <1>1, <1>4, <1>8, <2>1, ArrayTakes
  <2>3. ObjectMirrorsSimulator'
    BY <1>1, <1>5, <1>8, <2>2 DEF ObjectMirrorsSimulator, IsArray
  <2>4. buffer' \in Readings
    BY <1>4, <2>1, <2>2
  <2> QED
    BY <1>6, <2>2, <2>3, <2>4
<1>9. CASE kind = "string"
  <2>1. val' = v /\ valid' = TRUE /\ Emit(v) /\ buffer' = buffer
    BY <1>1, <1>9 DEF ObjectTakes, IsArray
  <2>2. /\ Rest'
        /\ base' \in [Client -> Readings \cup {Nothing}]
        /\ got' \in [Client -> Readings \cup {Nothing}]
    BY <1>1, <1>3, <1>9, <2>1, DataEmission
  <2>3. sim \in Data /\ val # Empty
    BY <1>3, <1>4, <1>9, EmptyIsNoValue DEF IInv, TypeOK
  <2>4. sim' = Fit(v, Len(sim))
    BY <1>1, <1>3, <1>9, <2>1, <2>3, TextWithoutZeros DEF Written, Given, IsArray
  <2>5. v \in [1..Len(v) -> {0, 1}] /\ Len(v) \in Nat /\ Len(sim) \in 0..MaxBytes
    BY <1>3, <1>9, <2>3, DataBytes
  <2>6. /\ sim' \in Data /\ Len(sim') = Len(sim)
        /\ \A i \in 1..Len(sim) : sim'[i] = IF i <= Len(v) THEN v[i] ELSE 0
    BY <2>4, <2>5, FitIsData
  <2>7. Len(v) = Len(sim') => sim' = v
    <3> SUFFICES ASSUME Len(v) = Len(sim') PROVE sim' = v
      OBVIOUS
    <3>1. \A i \in 1..Len(v) : sim'[i] = v[i]
      BY <2>5, <2>6
    <3>2. sim' \in [1..Len(v) -> {0, 1}]
      BY <2>6, DataBytes
    <3> QED
      BY <2>5, <3>1, <3>2
  <2>8. ObjectMirrorsSimulator'
    <3>1. Len(val') = Len(sim') => val' = sim'
      BY <2>1, <2>7
    <3>2. kind' = "string"
      BY <1>1, <1>9
    <3> QED
      BY <3>1, <3>2 DEF ObjectMirrorsSimulator, IsArray
  <2> QED
    BY <1>4, <1>6, <2>1, <2>2, <2>8 DEF IInv, TypeOK
<1> QED
  BY <1>2, <1>7, <1>8, <1>9

\* sub: the accuracy in force becomes a, and nobody's worst accuracy shrinks.
LEMMA AccuracySet ==
  ASSUME TypeOK, NEW c \in Client, NEW a \in Accuracy, SetAccuracy(c, a)
  PROVE  /\ Subscribers' = Subscribers \cup {c}
         /\ acc' = a /\ a \in Nat
         /\ asked' \in [Client -> Accuracy \cup {Nothing}]
         /\ worst' \in [Client -> Accuracy \cup {0}]
         /\ \A d \in Subscribers' : worst'[d] \in Nat /\ a <= worst'[d]
         /\ \A d \in Subscribers : worst[d] \in Nat /\ worst[d] <= worst'[d]
<1>1. Accuracy \cup {0} \subseteq Nat /\ a \in Nat /\ a # Nothing
  BY AccuraciesAreNat, NothingIsNoAccuracy
<1>2. \A d \in Client : asked'[d] = IF d = c THEN a ELSE asked[d]
  BY DEF SetAccuracy, TypeOK
<1>3. Subscribers' = Subscribers \cup {c}
  BY <1>1, <1>2 DEF Subscribers
<1>4. \A d \in Client : worst[d] \in Accuracy \cup {0}
  BY DEF TypeOK
<1>5. \A d \in Client : worst[d] \in Nat
  BY <1>1, <1>4
<1>6. \A d \in Client : worst'[d] =
        IF d = c THEN (IF asked[c] = Nothing \/ worst[c] < a THEN a ELSE worst[c])
        ELSE IF asked[d] # Nothing /\ worst[d] < a THEN a ELSE worst[d]
  BY DEF SetAccuracy
<1>7. \A d \in Client : worst'[d] \in {a, worst[d]}
  BY <1>6
<1>8. worst' \in [Client -> Accuracy \cup {0}]
  BY <1>4, <1>7 DEF SetAccuracy
<1>9. \A d \in Subscribers : worst[d] \in Nat /\ worst[d] <= worst'[d] /\ a <= worst'[d]
  BY <1>1, <1>5, <1>6 DEF Subscribers
<1>10. c \notin Subscribers => worst'[c] = a
  BY <1>6 DEF Subscribers
<1>11. \A d \in Subscribers' : worst'[d] \in Nat /\ a <= worst'[d]
  <2> SUFFICES ASSUME NEW d \in Subscribers'
               PROVE  worst'[d] \in Nat /\ a <= worst'[d]
    OBVIOUS
  <2>1. CASE d \in Subscribers
    BY <1>1, <1>5, <1>7, <1>9, <2>1 DEF Subscribers
  <2>2. CASE d \notin Subscribers
    BY <1>1, <1>3, <1>10, <2>2
  <2> QED
    BY <2>1, <2>2
<1>12. acc' = a /\ asked' \in [Client -> Accuracy \cup {Nothing}]
  BY DEF SetAccuracy, TypeOK
<1> QED
  BY <1>1, <1>3, <1>8, <1>9, <1>11, <1>12

\* sub, of a name the connection holds or not: a new subscriber's baseline is the
\* object's value, an old one keeps its own.
LEMMA SubscriptionKeepsIInv ==
  ASSUME IInv, NEW c \in Client, NEW a \in Accuracy, NEW b, SetAccuracy(c, a),
         b = IF c \in Subscribers THEN base[c] ELSE val,
         base' = [base EXCEPT ![c] = b], got' = [got EXCEPT ![c] = Forced(c)],
         UNCHANGED <<turn, kind, sim, due, val, valid, buffer>>
  PROVE  IInv'
<1> USE DEF IInv
<1>1. /\ Subscribers' = Subscribers \cup {c}
      /\ acc' = a /\ a \in Nat
      /\ asked' \in [Client -> Accuracy \cup {Nothing}]
      /\ worst' \in [Client -> Accuracy \cup {0}]
      /\ \A d \in Subscribers' : worst'[d] \in Nat /\ a <= worst'[d]
      /\ \A d \in Subscribers : worst[d] \in Nat /\ worst[d] <= worst'[d]
  BY AccuracySet
<1>2. val \in Readings /\ val # Nothing /\ Sent(val) \in Readings /\ Sent(val) # Nothing
  <2>1. val \in Readings /\ val # Nothing
    BY NothingIsNoReading DEF TypeOK, Readings
  <2>2. kind = "string" => Text(val) \in Data /\ Readings = Data /\ Text(val) # Nothing
    BY <2>1, KindsApart, TextIsData, NothingIsNoReading DEF IsData
  <2> QED
    BY <2>1, <2>2 DEF Sent
<1>3. ~IsData => Sent(val) = val
  BY DEF Sent, IsData
<1>4. got'[c] = IF valid THEN Sent(val) ELSE got[c]
  BY DEF Forced, TypeOK
<1>5. base'[c] = b /\ \A d \in Client : d # c => base'[d] = base[d] /\ got'[d] = got[d]
  BY DEF TypeOK
<1>6. c \notin Subscribers => got[c] = Nothing
  BY DEF Books
<1>7. TypeOK'
  <2>1. b \in Readings \cup {Nothing} /\ Forced(c) \in Readings \cup {Nothing}
    BY <1>2 DEF TypeOK, Forced
  <2>2. Readings' = Readings
    BY DEF Readings, IsData
  <2>3. /\ base' \in [Client -> Readings \cup {Nothing}]
        /\ got' \in [Client -> Readings \cup {Nothing}]
    BY <2>1 DEF TypeOK
  <2> QED
    BY <1>1, <2>2, <2>3 DEF TypeOK
<1>8. ScalarsAreNumbers'
  <2>1. ASSUME kind = "scalar", NEW d \in Client
        PROVE  base'[d] # Empty /\ got'[d] # Empty
    <3>1. val # Empty /\ base[d] # Empty /\ got[d] # Empty /\ Sent(val) = val
      BY <1>3, <2>1, EmptyIsNoValue DEF ScalarsAreNumbers, Number, IsData
    <3> QED
      BY <1>4, <1>5, <3>1
  <2> QED
    BY <2>1 DEF ScalarsAreNumbers
<1>9. Books'
  <2>1. \A d \in Client \ Subscribers' : got'[d] = Nothing /\ base'[d] = Nothing
    BY <1>1, <1>5 DEF Books
  <2>2. \A d \in Subscribers' : base'[d] # Nothing
    BY <1>1, <1>2, <1>5 DEF Books, Subscribers
  <2> QED
    BY <1>1, <2>1, <2>2 DEF Books
<1>10. InvalidIsSilent' /\ ArraysServed'
  <2>1. InvalidIsSilent'
    BY <1>4, <1>5 DEF InvalidIsSilent
  <2>2. IsArray => Sent(val) = val
    BY DEF Sent, IsArray
  <2>3. ASSUME IsArray, NEW d \in Subscribers'
        PROVE  IF val = Empty THEN base'[d] = Empty /\ got'[d] \in {Nothing, Empty}
                              ELSE got'[d] \notin {Nothing, Empty}
    <3>1. d \in Client /\ (~valid => val = Empty)
      BY <2>3 DEF Subscribers, ArraysServed
    <3>2. CASE d = c
      BY <1>2, <1>4, <1>5, <1>6, <2>2, <2>3, <3>1, <3>2 DEF ArraysServed
    <3>3. CASE d # c
      BY <1>1, <1>5, <2>3, <3>1, <3>3 DEF ArraysServed
    <3> QED
      BY <3>2, <3>3
  <2> QED
    BY <2>1, <2>3 DEF ArraysServed, IsArray
<1>11. UnservedWaits'
  <2> SUFFICES ASSUME kind = "scalar", NEW d \in Subscribers', got'[d] = Nothing
               PROVE  /\ base'[d] = Placeholder
                      /\ valid => val = Placeholder \/ worst'[d] > -Placeholder
    BY DEF UnservedWaits
  <2>1. CASE d = c
    <3>1. ~valid /\ val = Placeholder
      BY <1>2, <1>4, <2>1 DEF Books
    <3>2. got[c] = Nothing
      BY <1>4, <2>1, <3>1
    <3>3. c \in Subscribers => base[c] = Placeholder
      BY <3>2 DEF UnservedWaits
    <3> QED
      BY <1>5, <2>1, <3>1, <3>3
  <2>2. CASE d # c
    <3>1. d \in Subscribers /\ d \in Client
      BY <1>1, <2>2 DEF Subscribers
    <3>2. /\ base[d] = Placeholder
          /\ valid => val = Placeholder \/ worst[d] > -Placeholder
      BY <1>5, <2>2, <3>1 DEF UnservedWaits
    <3>3. worst[d] \in Nat /\ worst'[d] \in Nat /\ worst[d] <= worst'[d] /\ -Placeholder \in Int
      BY <1>1, <3>1, NumbersAreInt
    <3>4. worst[d] > -Placeholder => worst'[d] > -Placeholder
      BY <3>3
    <3> QED
      BY <1>5, <2>2, <3>1, <3>2, <3>4
  <2> QED
    BY <2>1, <2>2
<1>12. WorstCovers'
  BY <1>1 DEF WorstCovers
<1>13. BaseIsNear'
  <2> SUFFICES ASSUME kind \in {"scalar", "floatArray"}, NEW d \in Subscribers'
               PROVE  /\ val = Empty <=> base'[d] = Empty
                      /\ base'[d] = Empty => got'[d] \in {Nothing, Empty}
                      /\ val # Empty => Distance(val, base'[d]) <= worst'[d]
                      /\ got'[d] \notin {Nothing, Empty} => Distance(got'[d], base'[d]) <= worst'[d]
    BY DEF BaseIsNear
  <2>1. d \in Client /\ worst'[d] \in Nat
    BY <1>1 DEF Subscribers
  <2>2. Sent(val) = val /\ Readings = Number \cup {Empty}
    BY <1>3, KindsApart DEF IsData
  <2>3. CASE d \in Subscribers
    <3>1. base'[d] = base[d] /\ got'[d] \in {got[d], val}
      BY <1>4, <1>5, <2>1, <2>2, <2>3
    <3>2. /\ val = Empty <=> base[d] = Empty
          /\ base[d] = Empty => got[d] \in {Nothing, Empty}
          /\ val # Empty => Distance(val, base[d]) <= worst[d]
          /\ got[d] \notin {Nothing, Empty} => Distance(got[d], base[d]) <= worst[d]
      BY <2>3 DEF BaseIsNear
    <3>3. worst[d] \in Nat /\ worst[d] <= worst'[d]
      BY <1>1, <2>3
    <3>4. \A x, y \in Number : Distance(x, y) \in Nat
      BY NumbersAreInt, Distances
    <3>5. base[d] \in Number \cup {Empty} /\ got[d] \in Number \cup {Empty, Nothing}
      BY <2>1, <2>2, <2>3 DEF TypeOK, Books
    <3>6. val # Empty => Distance(val, base[d]) <= worst'[d]
      BY <1>2, <2>1, <2>2, <3>2, <3>3, <3>4, <3>5
    <3>7. got[d] \notin {Nothing, Empty} => Distance(got[d], base[d]) <= worst'[d]
      <4> SUFFICES ASSUME got[d] \notin {Nothing, Empty}
                   PROVE  Distance(got[d], base[d]) <= worst'[d]
        OBVIOUS
      <4>1. Distance(got[d], base[d]) \in Nat
        BY <3>2, <3>4, <3>5
      <4>2. Distance(got[d], base[d]) <= worst[d]
        BY <3>2
      <4> QED
        BY <2>1, <3>3, <4>1, <4>2
    <3> QED
      BY <3>1, <3>2, <3>6, <3>7
  <2>4. CASE d \notin Subscribers
    <3>1. d = c /\ base'[d] = val /\ got'[d] \in {Nothing, val}
      BY <1>1, <1>4, <1>5, <1>6, <2>2, <2>4
    <3>2. val # Empty => Distance(val, val) = 0
      BY <1>2, <2>2, NumbersAreInt, Distances
    <3> QED
      BY <2>1, <3>1, <3>2
  <2> QED
    BY <2>3, <2>4
<1>14. ObjectMirrorsSimulator'
  BY DEF ObjectMirrorsSimulator, IsArray
<1>15. DataIsSent'
  <2> SUFFICES ASSUME IsData, valid, NEW d \in Subscribers'
               PROVE  got'[d] = Sent(val) \/ val = Zeros(Len(val))
    BY DEF DataIsSent, Sent, IsData
  <2>1. CASE d = c
    BY <1>4, <2>1
  <2>2. CASE d # c
    BY <1>1, <1>5, <2>2 DEF DataIsSent, Subscribers
  <2> QED
    BY <2>1, <2>2
<1> QED
  BY <1>7, <1>8, <1>9, <1>10, <1>11, <1>12, <1>13, <1>14, <1>15

LEMMA SubscribeKeepsIInv ==
  ASSUME IInv, NEW c \in Client, NEW a \in Accuracy, Subscribe(c, a) \/ SubscribeAgain(c, a)
  PROVE  IInv'
<1>1. CASE Subscribe(c, a)
  <2>1. c \notin Subscribers
    BY <1>1 DEF Subscribe, Subscribers
  <2> QED
    BY <1>1, <2>1, SubscriptionKeepsIInv DEF Subscribe, content
<1>2. CASE SubscribeAgain(c, a)
  <2>1. c \in Subscribers
    BY <1>2 DEF SubscribeAgain, Subscribers
  <2>2. base' = [base EXCEPT ![c] = base[c]]
    BY <1>2 DEF SubscribeAgain, IInv, TypeOK
  <2> QED
    BY <1>2, <2>1, <2>2, SubscriptionKeepsIInv DEF SubscribeAgain, content
<1> QED
  BY <1>1, <1>2

LEMMA UnsubscribeKeepsIInv ==
  ASSUME IInv, NEW c \in Client, Unsubscribe(c)
  PROVE  IInv'
<1> USE DEF IInv
<1>1. /\ c \in Subscribers
      /\ asked' = [asked EXCEPT ![c] = Nothing]
      /\ base'  = [base EXCEPT ![c] = Nothing]
      /\ got'   = [got EXCEPT ![c] = Nothing]
      /\ worst' = [worst EXCEPT ![c] = 0]
      /\ Release(c)
      /\ UNCHANGED <<turn, kind, sim, due>>
  BY DEF Unsubscribe, Subscribers
<1>2. Subscribers' = Subscribers \ {c}
  BY <1>1 DEF Subscribers, TypeOK
<1>3. /\ base'[c] = Nothing /\ got'[c] = Nothing
      /\ \A d \in Client : d # c => base'[d] = base[d] /\ got'[d] = got[d] /\ worst'[d] = worst[d]
  BY <1>1 DEF TypeOK
<1>4. /\ Fresh \in Readings /\ (kind = "scalar" => Fresh = Placeholder)
      /\ FreshBuffer \in Readings /\ (IsArray => Fresh = Empty /\ FreshBuffer = Empty)
  BY FreshObject, KindsApart
<1>5. \/ /\ Subscribers' = {} /\ val' = Fresh /\ ~valid' /\ valid' \in BOOLEAN
         /\ buffer' = FreshBuffer /\ acc' = 0
      \/ Subscribers' # {} /\ UNCHANGED <<val, valid, buffer, acc>>
  BY <1>1, <1>2 DEF Release, object, content
<1>6. TypeOK'
  <2>1. Readings' = Readings
    BY <1>1 DEF Readings, IsData
  <2>2. /\ asked' \in [Client -> Accuracy \cup {Nothing}]
        /\ worst' \in [Client -> Accuracy \cup {0}]
        /\ base' \in [Client -> Readings \cup {Nothing}]
        /\ got' \in [Client -> Readings \cup {Nothing}]
    BY <1>1 DEF TypeOK
  <2>3. /\ val' \in Readings /\ valid' \in BOOLEAN /\ buffer' \in Readings
        /\ acc' \in Accuracy \cup {0}
    BY <1>4, <1>5 DEF TypeOK
  <2> QED
    BY <1>1, <2>1, <2>2, <2>3 DEF TypeOK
<1>7. ScalarsAreNumbers'
  <2>1. ASSUME kind = "scalar", NEW d \in Client
        PROVE  base'[d] # Empty /\ got'[d] # Empty
    BY <1>3, <2>1, NothingIsNoReading DEF ScalarsAreNumbers
  <2>2. kind = "scalar" => val' \in Number
    BY <1>4, <1>5 DEF ScalarsAreNumbers, Number
  <2> QED
    BY <1>1, <2>1, <2>2 DEF ScalarsAreNumbers
<1>8. Books'
  <2>1. \A d \in Client \ Subscribers' : got'[d] = Nothing /\ base'[d] = Nothing
    BY <1>2, <1>3 DEF Books
  <2>2. \A d \in Subscribers' : base'[d] # Nothing
    BY <1>2, <1>3 DEF Books, Subscribers
  <2>3. kind = "scalar" /\ ~valid' => val' = Placeholder
    BY <1>4, <1>5 DEF Books
  <2> QED
    BY <1>1, <1>5, <2>1, <2>2, <2>3 DEF Books
<1>9. InvalidIsSilent'
  <2>1. CASE Subscribers' = {}
    BY <1>8, <2>1 DEF Books, InvalidIsSilent
  <2>2. CASE valid' = valid
    BY <1>1, <1>3, <2>2 DEF InvalidIsSilent
  <2> QED
    BY <1>5, <2>1, <2>2
<1>10. \A d \in Subscribers' :
         /\ d \in Subscribers /\ d \in Client
         /\ base'[d] = base[d] /\ got'[d] = got[d] /\ worst'[d] = worst[d]
         /\ UNCHANGED <<val, valid, buffer, acc>>
  BY <1>2, <1>3, <1>5 DEF Subscribers
<1>11. UnservedWaits' /\ WorstCovers' /\ ArraysServed'
  <2>1. UnservedWaits' /\ WorstCovers'
    BY <1>1, <1>10 DEF UnservedWaits, WorstCovers
  <2>2. ArraysServed'
    <3>1. CASE Subscribers' = {}
      BY <1>1, <1>4, <1>5, <3>1 DEF ArraysServed, IsArray
    <3>2. CASE Subscribers' # {}
      BY <1>1, <1>5, <1>10, <3>2 DEF ArraysServed, IsArray
    <3> QED
      BY <3>1, <3>2
  <2> QED
    BY <2>1, <2>2
<1>12. BaseIsNear'
  BY <1>1, <1>10 DEF BaseIsNear
<1>13. DataIsSent'
  BY <1>1, <1>10 DEF DataIsSent, IsData, Sent
<1>14. ObjectMirrorsSimulator'
  BY <1>1, <1>5 DEF ObjectMirrorsSimulator, IsArray
<1> QED
  BY <1>6, <1>7, <1>8, <1>9, <1>11, <1>12, <1>13, <1>14

\* The simulator that starts again is as new.
LEMMA CopyCrashesKeepsIInv ==
  ASSUME IInv, CopyCrashes
  PROVE  IInv'
<1>1. /\ turn = "simulator" /\ kind \in {"string", "data"} /\ sim' \in Readable
      /\ val' = Fresh /\ valid' = FALSE /\ buffer' = FreshBuffer /\ acc' = 0 /\ due' = FALSE
      /\ base' = [c \in Client |-> Nothing] /\ got' = [c \in Client |-> Nothing]
      /\ asked' = [c \in Client |-> Nothing] /\ worst' = [c \in Client |-> 0]
      /\ UNCHANGED <<turn, kind>>
  BY DEF CopyCrashes, IsData
<1>2. Fresh \in Readings /\ FreshBuffer \in Readings /\ Readings' = Readings
  BY <1>1, FreshObject DEF Readings, IsData
<1>3. TypeOK'
  <2>1. /\ base' \in [Client -> Readings \cup {Nothing}]
        /\ got' \in [Client -> Readings \cup {Nothing}]
        /\ asked' \in [Client -> Accuracy \cup {Nothing}]
        /\ worst' \in [Client -> Accuracy \cup {0}]
    BY <1>1
  <2> QED
    BY <1>1, <1>2, <2>1, ReadableIsReading DEF IInv, TypeOK
<1>4. Subscribers' = {}
  BY <1>1 DEF Subscribers
<1>5. Books' /\ InvalidIsSilent' /\ WorstCovers' /\ ObjectMirrorsSimulator' /\ DataIsSent'
  BY <1>1, <1>4 DEF Books, InvalidIsSilent, WorstCovers, ObjectMirrorsSimulator, DataIsSent
<1>6. ScalarsAreNumbers' /\ ArraysServed' /\ UnservedWaits' /\ BaseIsNear'
  BY <1>1 DEF ScalarsAreNumbers, ArraysServed, IsArray, UnservedWaits, BaseIsNear
<1> QED
  BY <1>3, <1>5, <1>6 DEF IInv

LEMMA InitIInv == Init => IInv
<1> SUFFICES ASSUME Init PROVE IInv
  OBVIOUS
<1>1. /\ kind \in Kinds /\ sim \in Readable /\ turn = "simulator"
      /\ val = Fresh /\ valid = FALSE /\ buffer = FreshBuffer /\ acc = 0 /\ due = FALSE
      /\ base  = [c \in Client |-> Nothing]
      /\ got   = [c \in Client |-> Nothing]
      /\ asked = [c \in Client |-> Nothing]
      /\ worst = [c \in Client |-> 0]
  BY DEF Init
<1>2. /\ Fresh \in Readings /\ (kind = "scalar" => Fresh = Placeholder)
      /\ FreshBuffer \in Readings /\ (IsArray => Fresh = Empty /\ FreshBuffer = Empty)
  BY FreshObject
<1>3. TypeOK
  <2>1. /\ base \in [Client -> Readings \cup {Nothing}]
        /\ got \in [Client -> Readings \cup {Nothing}]
        /\ asked \in [Client -> Accuracy \cup {Nothing}]
        /\ worst \in [Client -> Accuracy \cup {0}]
    BY <1>1
  <2>2. buffer \in Readings /\ sim \in Readings \ {Empty} /\ val \in Readings
    BY <1>1, <1>2, ReadableIsReading
  <2> QED
    BY <1>1, <2>1, <2>2 DEF TypeOK
<1>4. Subscribers = {}
  BY <1>1 DEF Subscribers
<1>5. ScalarsAreNumbers
  BY <1>1, <1>2, NothingIsNoReading DEF ScalarsAreNumbers, Number
<1>6. Books /\ InvalidIsSilent /\ ArraysServed /\ UnservedWaits /\ WorstCovers /\ BaseIsNear
  BY <1>1, <1>2, <1>4 DEF Books, InvalidIsSilent, ArraysServed, UnservedWaits, WorstCovers,
       BaseIsNear
<1>7. ObjectMirrorsSimulator /\ DataIsSent
  BY <1>1 DEF ObjectMirrorsSimulator, DataIsSent
<1> QED
  BY <1>3, <1>5, <1>6, <1>7 DEF IInv

LEMMA NextKeepsIInv == IInv /\ [Next]_vars => IInv'
<1> SUFFICES ASSUME IInv, [Next]_vars PROVE IInv'
  OBVIOUS
<1>1. CASE UNCHANGED vars
  <2>1. TypeOK' /\ ObjectMirrorsSimulator'
    BY <1>1 DEF vars, IInv, TypeOK, Readings, IsData, IsArray, ObjectMirrorsSimulator
  <2> QED
    BY <1>1, <2>1, ObjectAlone DEF vars, perConn
<1> QED
  BY <1>1, SimulatorRunsKeepsIInv, FlightLoopKeepsIInv, CallbackReturnsKeepsIInv,
     SubscribeKeepsIInv, UnsubscribeKeepsIInv, SetValueKeepsIInv, SetGarbageKeepsIInv,
     CopyCrashesKeepsIInv DEF Next

-----------------------------------------------------------------------------
(* Theorems *)

\* The inductive invariant holds in every reachable state.
THEOREM ValuesInvariance == Spec => []IInv
<1>1. Init => IInv
  BY InitIInv
<1>2. IInv /\ [Next]_vars => IInv'
  BY NextKeepsIInv
<1> QED
  BY <1>1, <1>2, PTL DEF Spec

\* Type correctness: data keeps its bound, and a client only ever gets a reading.
THEOREM ValuesTypeCorrect == Spec => []TypeOK
<1>1. IInv => TypeOK
  BY DEF IInv
<1> QED
  BY <1>1, ValuesInvariance, PTL

\* While events are handled, a valid scalar or float array object has what the simulator
\* has, and so has the buffer of an int array, for all values; a string object has its text
\* where the property says.
THEOREM ObjectIsCurrent == Spec => []ObjectMirrorsSimulator
<1>1. IInv => ObjectMirrorsSimulator
  BY DEF IInv
<1> QED
  BY <1>1, ValuesInvariance, PTL

\* Every subscriber of a data object has its bytes, or the bytes are all zero.
THEOREM BytesReachSubscribers == Spec => []DataIsSent
<1>1. IInv => DataIsSent
  BY DEF IInv
<1> QED
  BY <1>1, ValuesInvariance, PTL

\* While an object is not valid nobody has got anything of it, or of an int array that it
\* has no elements; every subscriber of a valid array with elements has got elements; and
\* every subscriber of a valid scalar a value, for every accuracy up to the placeholder's
\* distance from zero.
THEOREM ServedExactlyWhenValid == Spec => []ServedWhenValid
<1>1. ASSUME IInv PROVE ServedWhenValid
  <2>1. ~valid => \A c \in Client : got[c] = Nothing \/ (kind = "intArray" /\ got[c] = Empty)
    BY <1>1 DEF IInv, InvalidIsSilent
  <2>2. ASSUME valid, kind = "scalar", val # Placeholder,
               NEW c \in Subscribers, worst[c] <= -Placeholder
        PROVE  got[c] # Nothing
    <3>1. worst[c] \in Nat /\ -Placeholder \in Int
      BY <1>1, SubscriberHistory, NumbersAreInt DEF IInv
    <3>2. ~ (worst[c] > -Placeholder)
      BY <2>2, <3>1
    <3> QED
      BY <1>1, <2>2, <3>2 DEF IInv, UnservedWaits
  <2>3. IsArray /\ val # Empty => \A c \in Subscribers : got[c] \notin {Nothing, Empty}
    BY <1>1 DEF IInv, ArraysServed
  <2> QED
    BY <2>1, <2>2, <2>3 DEF ServedWhenValid
<1>2. IInv => ServedWhenValid
  BY <1>1
<1> QED
  BY <1>2, ValuesInvariance, PTL

\* Nobody is further from a scalar or a float array than twice the largest accuracy that
\* was in force: the baseline is within it of both the object and the client.
THEOREM DriftIsBounded == Spec => []DriftBounded
<1>1. ASSUME IInv PROVE DriftBounded
  <2> SUFFICES ASSUME kind \in {"scalar", "floatArray"}, val # Empty,
                      NEW c \in Subscribers, got[c] \notin {Nothing, Empty}
               PROVE  Distance(val, got[c]) <= 2 * worst[c]
    BY DEF DriftBounded
  <2>1. c \in Client /\ worst[c] \in Nat
    BY <1>1, SubscriberHistory DEF IInv
  <2>2. Readings = Number \cup {Empty}
    BY <1>1, KindsApart DEF IInv
  <2>3. base[c] # Empty /\ base[c] # Nothing
    BY <1>1 DEF IInv, BaseIsNear, Books
  <2>4. val \in Int /\ base[c] \in Int /\ got[c] \in Int
    BY <1>1, <2>1, <2>2, <2>3, NumbersAreInt DEF IInv, TypeOK
  <2>5. Distance(val, base[c]) <= worst[c] /\ Distance(got[c], base[c]) <= worst[c]
    BY <1>1 DEF IInv, BaseIsNear
  <2> QED
    BY <2>1, <2>4, <2>5 DEF Distance
<1>2. IInv => DriftBounded
  BY <1>1
<1> QED
  BY <1>2, ValuesInvariance, PTL
=============================================================================
