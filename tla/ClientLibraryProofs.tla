------------------------ MODULE ClientLibraryProofs ------------------------
(***************************************************************************)
(* Proofs about the two modules of extplane-client-qt that know lines:     *)
(* ClientConnection, for any hosts, datarefs and accuracies and any        *)
(* bounds, and ClientValues, for any kinds, numbers and words, any         *)
(* roundings and cuts that stay among them, and any bound on lines.  The   *)
(* modules share no variable; each theorem is about one of them.           *)
(*                                                                         *)
(* That the plugin serves what is used is not inductive.  A user who       *)
(* leaves while server_ok is not set writes no line, which is harmless     *)
(* only because the plugin serves nothing then (ServedIsBelieved); a user  *)
(* who comes after the handshake is served only because server_ok and the  *)
(* socket are as writeLine wants them (HandshakenIsUp); and the handshake  *)
(* goes by the map of names where users go by their counts (LiveIsUsed).   *)
(*                                                                         *)
(* What a ClientDataRef tells is a matter of what it remembers, number by  *)
(* number (Tells), where a read may add to it.  That the program ends up   *)
(* with the simulator's value is a matter of what is under way: the last   *)
(* line of either side makes up the difference (EchoesOK, SetsOK), as long *)
(* as sub is read before any set is (LinesOK), and an object of the        *)
(* simulator's length has read its value (ObjectOK).                       *)
(***************************************************************************)
EXTENDS ClientConnection, ClientValues, SequenceTheorems, TLAPS

-----------------------------------------------------------------------------
(* ClientConnection *)

\* The map has a ClientDataRef under a name as long as it has users, who gave it an
\* accuracy.
LiveIsUsed ==
  \A n \in Keys : /\ dataRefs[n] = "live" <=> subscribers[n] > 0
                  /\ subscribers[n] > 0 => accuracy[n] \in Accuracy

\* The plugin serves something only to a client that believes itself connected.
ServedIsBelieved == \A n \in Name : served[n] # Unserved => server_ok

\* After the handshake the client is connected, and knows it.
HandshakenIsUp == handshaken => server_ok /\ sock = "connected"

\* The inductive invariant.
IInv ==
  /\ TypeOK
  /\ LiveIsUsed
  /\ ServedIsBelieved
  /\ HandshakenIsUp
  /\ ServedIsUsed

\* The parts about who uses what: they survive whatever ends the connection.
Consistent == ServedIsBelieved /\ HandshakenIsUp /\ ServedIsUsed

\* A connection that is gone serves nothing, whatever else happens.
LEMMA HangupStep ==
  ASSUME Hangup, UNCHANGED refVars, LiveIsUsed
  PROVE  /\ hello' = FALSE /\ updates' = {} /\ served' = NoneServed /\ handshaken' = FALSE
         /\ Consistent' /\ LiveIsUsed'
  BY DEF Hangup, refVars, NoneServed, Consistent, ServedIsBelieved, HandshakenIsUp,
         ServedIsUsed, LiveIsUsed

\* BasicTcpClient: every end of a connection and every attempt to make one.
LEMMA TransportStep ==
  ASSUME IInv,
         \/ UserStarts \/ UserStops \/ TryReconnect \/ Refused \/ ConnectionLost
         \/ \E h \in Host : SetHostName(h)
  PROVE  IInv'
<1>1. Hangup /\ UNCHANGED <<refVars, crashed, up>>
  BY DEF UserStarts, StartWith, UserStops, Stop, TryReconnect, Refused, ConnectionLost,
         SocketError, SetHostName
<1>2. /\ hello' = FALSE /\ updates' = {} /\ served' = NoneServed /\ handshaken' = FALSE
      /\ Consistent' /\ LiveIsUsed'
  BY <1>1, HangupStep DEF IInv
<1>3. faults' \in 0..MaxFaults /\ changes' \in 0..MaxChanges
  <2>1. /\ changes' = changes \/ (changes' = changes + 1 /\ changes < MaxChanges)
        /\ faults' = faults \/ (faults' = faults + 1 /\ faults < MaxFaults)
    BY DEF UserStarts, UserStops, TryReconnect, Refused, ConnectionLost, SetHostName, bounds
  <2>2. QED
    BY <2>1, BoundsAreNat DEF IInv, TypeOK
<1>4. /\ sock' \in {"unconnected", "connecting"}
      /\ m_host' \in Host \cup {NoHost}
      /\ m_reconnectTimer' \in BOOLEAN /\ server_ok' \in BOOLEAN /\ halted' \in BOOLEAN
  <2>1. /\ m_reconnectTimer \in BOOLEAN /\ server_ok \in BOOLEAN /\ halted \in BOOLEAN
        /\ m_host \in Host \cup {NoHost}
    BY DEF IInv, TypeOK
  <2>2. CASE UserStarts
    BY <2>1, <2>2 DEF UserStarts, StartWith
  <2>3. CASE UserStops
    BY <2>1, <2>3 DEF UserStops, Stop, GiveUpAttempt
  <2>4. CASE TryReconnect
    BY <2>1, <2>4 DEF TryReconnect, GiveUpAttempt
  <2>5. CASE Refused \/ ConnectionLost
    BY <2>1, <2>5 DEF Refused, ConnectionLost, SocketError, StartTimer
  <2>6. CASE \E h \in Host : SetHostName(h)
    BY <2>1, <2>6 DEF SetHostName, StartWith, Stop
  <2>7. QED
    BY <2>2, <2>3, <2>4, <2>5, <2>6
<1>5. TypeOK'
  BY <1>1, <1>2, <1>3, <1>4 DEF IInv, TypeOK, refVars, NoneServed, Unserved
<1>6. QED
  BY <1>2, <1>5 DEF IInv, Consistent

\* ExtPlaneConnection: users come and go.
LEMMA UserStep ==
  ASSUME IInv, NEW n \in Name,
         (\E a \in Accuracy : SubscribeFirst(n, a) \/ SubscribeAgain(n, a)) \/ Unsubscribe(n)
  PROVE  IInv'
<1> USE BoundsAreNat, AccuraciesAreNat
    DEF IInv, TypeOK, LiveIsUsed, ServedIsBelieved, HandshakenIsUp, ServedIsUsed, Used,
        Keys, Sub, Unserved, NoneServed, bounds
<1>1. ASSUME NEW a \in Accuracy, SubscribeFirst(n, a) PROVE IInv'
  BY <1>1 DEF SubscribeFirst
<1>2. ASSUME NEW a \in Accuracy, SubscribeAgain(n, a) PROVE IInv'
  BY <1>2 DEF SubscribeAgain
<1>3. CASE Unsubscribe(n)
  <2>1. subscribers[n] \in 1..MaxSubscribers /\ dataRefs[n] = "live"
    BY <1>3 DEF Unsubscribe
  <2>2. subscribers' = [subscribers EXCEPT ![n] = @ - 1]
    BY <1>3 DEF Unsubscribe
  <2>3. \A m \in Keys : subscribers'[m] \in 0..MaxSubscribers
    BY <2>1, <2>2
  <2>4. CASE subscribers[n] = 1
    <3>1. /\ dataRefs' = [dataRefs EXCEPT ![n] = "absent"]
          /\ subscribers' = [subscribers EXCEPT ![n] = 0]
          /\ served' = IF server_ok THEN [served EXCEPT ![n] = -1] ELSE served
      BY <1>3, <2>2, <2>4 DEF Unsubscribe, LastLeft
    <3>2. TypeOK'
      <4>1. served' \in [Name -> Accuracy \cup {-1}]
        BY <3>1
      <4>2. served = NoneServed => served' = NoneServed
        BY <3>1
      <4>3. dataRefs' \in [Keys -> {"absent", "null", "live"}]
        BY <3>1
      <4>4. subscribers' \in [Keys -> 0..MaxSubscribers]
        BY <2>2, <2>3
      <4>5. QED
        BY <1>3, <4>1, <4>2, <4>3, <4>4 DEF Unsubscribe
    <3>3. (LiveIsUsed /\ ServedIsBelieved /\ HandshakenIsUp)'
      BY <1>3, <3>1 DEF Unsubscribe
    <3>4. ServedIsUsed'
      BY <1>3, <3>1 DEF Unsubscribe
    <3>5. QED
      BY <3>2, <3>3, <3>4
  <2>5. CASE subscribers[n] # 1
    BY <1>3, <2>1, <2>2, <2>3, <2>5 DEF Unsubscribe, LastLeft
  <2>6. QED
    BY <2>4, <2>5
<1>4. QED
  BY <1>1, <1>2, <1>3

\* ExtPlaneConnection: lines are taken.
LEMMA LineStep ==
  ASSUME IInv, TakeHandshake \/ MistakeHandshake \/ \E n \in Name : TakeUpdate(n)
  PROVE  IInv'
<1> USE BoundsAreNat, AccuraciesAreNat
    DEF IInv, TypeOK, LiveIsUsed, ServedIsBelieved, HandshakenIsUp, ServedIsUsed, Used,
        Keys, Unserved, NoneServed, bounds, refVars, LookedUp
<1>1. CASE TakeHandshake
  <2>1. CASE \E n \in Keys : dataRefs[n] = "null"
    BY <1>1, <2>1 DEF TakeHandshake, Hangup
  <2>2. CASE ~\E n \in Keys : dataRefs[n] = "null"
    <3>1. served' = [n \in Name |-> IF subscribers[n] > 0 THEN accuracy[n] ELSE Unserved]
      BY <1>1, <2>2 DEF TakeHandshake, Live
    <3>2. served' \in [Name -> Accuracy \cup {-1}]
      BY <3>1
    <3>3. \A n \in Name : accuracy[n] # -1 /\ (served'[n] # -1 <=> subscribers[n] > 0)
      <4>1. \A n \in Name : accuracy[n] \in Accuracy \cup {0}
        OBVIOUS
      <4>2. QED
        BY <3>1, <4>1
    <3>4. QED
      BY <1>1, <2>2, <3>2, <3>3 DEF TakeHandshake
  <2>3. QED
    BY <2>1, <2>2
<1>2. CASE MistakeHandshake
  BY <1>2 DEF MistakeHandshake
<1>3. ASSUME NEW n \in Name, TakeUpdate(n) PROVE IInv'
  BY <1>3 DEF TakeUpdate
<1>4. QED
  BY <1>1, <1>2, <1>3

\* The plugins, and the connection that is made.
LEMMA PluginStep ==
  ASSUME IInv,
         \/ Connected \/ \E n \in Name : SendUpdate(n)
         \/ \E h \in Host : PluginStarts(h) \/ PluginStops(h)
         \/ UNCHANGED vars
  PROVE  IInv'
<1> USE BoundsAreNat
    DEF IInv, TypeOK, LiveIsUsed, ServedIsBelieved, HandshakenIsUp, ServedIsUsed, Used,
        Unserved, NoneServed, bounds, refVars, wire
<1>1. CASE Connected
  BY <1>1 DEF Connected
<1>2. ASSUME NEW n \in Name, SendUpdate(n) PROVE IInv'
  BY <1>2 DEF SendUpdate
<1>3. ASSUME NEW h \in Host, PluginStarts(h) PROVE IInv'
  BY <1>3 DEF PluginStarts
<1>4. ASSUME NEW h \in Host, PluginStops(h) PROVE IInv'
  BY <1>4 DEF PluginStops
<1>5. CASE UNCHANGED vars
  BY <1>5 DEF vars
<1>6. QED
  BY <1>1, <1>2, <1>3, <1>4, <1>5

\* The initial state: nothing is connected, nobody uses anything.
LEMMA InitIInv == Init => IInv
<1> SUFFICES ASSUME Init PROVE IInv
  OBVIOUS
<1>1. 0 \in 0..MaxSubscribers /\ 0 \in 0..MaxFaults /\ 0 \in 0..MaxChanges
  BY BoundsAreNat
<1>2. TypeOK
  BY <1>1 DEF Init, TypeOK, Unserved, NoneServed
<1>3. LiveIsUsed /\ ServedIsBelieved /\ HandshakenIsUp /\ ServedIsUsed
  BY DEF Init, LiveIsUsed, ServedIsBelieved, HandshakenIsUp, ServedIsUsed, Used, Unserved,
     NoneServed
<1>4. QED
  BY <1>2, <1>3 DEF IInv

\* The inductive invariant holds in every reachable state.
THEOREM ConnectionInvariance == Spec => []IInv
<1>1. IInv /\ [Next]_vars => IInv'
  BY TransportStep, UserStep, LineStep, PluginStep DEF Next
<1>2. QED
  BY InitIInv, <1>1, PTL DEF Spec

\* Every variable keeps its type, and what is on the wire needs a connection.
THEOREM ConnectionTypeCorrect == Spec => []TypeOK
  BY ConnectionInvariance, PTL DEF IInv

\* After the handshake the plugin serves exactly the datarefs that are used, and at no time
\* one that nobody uses.
THEOREM ServedExactlyWhatIsUsed == Spec => []ServedIsUsed
  BY ConnectionInvariance, PTL DEF IInv

-----------------------------------------------------------------------------
(* ClientValues: what is proved inductive *)

\* h tells that the last update was a datagram, for a dataref of kind k.
By(h, k) == h = "datagram" /\ kind = k

\* Texts that show t, which came in the way h, and the numbers told with the text v.
Shown(t, h) ==
  {IF By(h, "float") \/ By(h, "double") THEN Six[t] ELSE t}
  \cup (IF direct /\ By(h, "float") THEN {Whole[t]} ELSE {})
FloatOf(t, h, v)  == IF By(h, "float") THEN t ELSE Single[ToNumber(v)]
DoubleOf(t, h, v) == IF By(h, "double") THEN t ELSE ToNumber(v)
IntOf(t, h, v)    == IF By(h, "int") THEN t ELSE Whole[FloatOf(t, h, v)]

\* The numbers c remembers are those of t; without a text there are no others than the
\* datagram's, and the int of its float.
NumbersOf(c, t, h) ==
  /\ c.float \in {FloatOf(t, h, Value(c))} \cup (IF By(h, "float") THEN {} ELSE {Nothing})
  /\ c.double \in {DoubleOf(t, h, Value(c))} \cup (IF By(h, "double") THEN {} ELSE {Nothing})
  /\ c.int \in {IntOf(t, h, Value(c))} \cup (IF By(h, "int") THEN {} ELSE {Nothing})
  /\ c.values = <<>> =>
       /\ c.float # Nothing => By(h, "float") /\ direct
       /\ c.double # Nothing => By(h, "double")
       /\ c.int # Nothing => By(h, "int") \/ By(h, "float")

\* c tells of l, the texts of the last update or set, or the number of a datagram.
Tells(c, l, h) ==
  /\ l # <<>>
  /\ Len(l) > 1 => c.values = l
  /\ c.values # <<>> => Len(c.values) = Len(l)
  /\ Value(c) \in Shown(l[1], h)
  /\ h # "set" \/ Len(l) = 1 => NumbersOf(c, l[1], h)
  /\ h = "datagram" => kind \in {"int", "float", "double"} /\ l[1] \in Number

\* Lines of the plugin have at most the texts of one value.
Size  == IF kind = "array" THEN 2 ELSE 1
Lines == {l \in Seq(Text) : l # <<>> /\ Len(l) <= Size}

\* Datagrams are of scalars with the modifier.
DatagramsOK ==
  /\ udp => kind \notin {"text", "array"}
  /\ air # {} \/ came = "datagram" => udp

\* Lines under way: sub before all others, and until it was read.
LinesOK ==
  /\ ~connected => toServer = <<>> /\ toClient = <<>> /\ ~subscribed
  /\ connected /\ ~subscribed => toServer # <<>> /\ toServer[1] = <<>>
  /\ \A k \in 1..Len(toServer) : toServer[k] = <<>> => k = 1 /\ ~subscribed
  /\ toClient \in Seq(Lines)

\* An object of the right length is valid, one of a number has no length.
ObjectOK ==
  /\ object.whole => object.valid
  /\ kind \notin {"text", "array"} => object \in {New, Served}

\* The last line of a set under way, if there is one.
SetUnderWay == toServer # <<>> /\ toServer[Len(toServer)] # <<>>

LastSet == toServer[Len(toServer)]

\* The last line of the plugin tells its value; when none is under way, the program has
\* the value, or has set another.
EchoesOK ==
  subscribed /\ ~udp /\ object.whole /\ ~hidden =>
    /\ toClient # <<>> => toClient[Len(toClient)] = Texts(sim)
    /\ toClient = <<>> /\ ~refused =>
         \/ Filled(cache).values = Texts(sim)
         \/ SetUnderWay /\ LastSet = Filled(cache).values

\* What was set is in the last line under way, or was read.
SetsOK ==
  \A i \in Elements : wanted[i] # Nothing =>
    /\ connected /\ writable /\ Takes(wanted[i])
    /\ ~SetUnderWay => sim[i] = Stored(wanted[i])
    /\ SetUnderWay => Len(LastSet) = Size /\ LastSet[i] = wanted[i]

ValuesInv ==
  /\ ValuesTypeOK
  /\ Len(cache.values) <= Size
  /\ Tells(cache, latest, came)
  /\ DatagramsOK
  /\ LinesOK
  /\ ObjectOK
  /\ EchoesOK
  /\ SetsOK

-----------------------------------------------------------------------------
(* Numbers and texts *)

Caches == [values : Seq(Text), int : Number \cup {Nothing},
           float : Number \cup {Nothing}, double : Number \cup {Nothing}]

\* The text c would be filled with is one.
Readable(c) == c.values = <<>> => ValueString(c) \in Text

\* Numbers of the dataref's kind are closed under the conversions; none of them is Blank or
\* Nothing.
LEMMA NumbersOfKind ==
  ASSUME kind \in Kinds
  PROVE  /\ \A x \in Number : /\ Whole[x] \in Number /\ Single[x] \in Number
                              /\ Six[x] \in Number /\ Ten[x] \in Number
         /\ 0 \in Number /\ Placeholder \in Number
         /\ Whole[Placeholder] = Placeholder /\ Single[Placeholder] = Placeholder
         /\ Blank \notin Number /\ Nothing \notin Text
         /\ Number \subseteq Text /\ Blank \in Text
         /\ \A t : ToNumber(t) \in Number
         /\ \A x \in Number : ToNumber(x) = x
<1>1. \A x \in Number : /\ Whole[x] \in Number /\ Single[x] \in Number
                        /\ Six[x] \in Number /\ Ten[x] \in Number
  BY NumbersKnown, OthersKept DEF Number
<1>2. /\ 0 \in Number /\ Placeholder \in Number /\ Blank \notin Number
      /\ Whole[Placeholder] = Placeholder /\ Single[Placeholder] = Placeholder
  BY OthersKept, NoNumbers DEF Number
<1>3. Nothing \notin Text /\ Number \subseteq Text /\ Blank \in Text
  BY NoNumbers DEF Number, Word, Text
<1>4. (\A t : ToNumber(t) \in Number) /\ \A x \in Number : ToNumber(x) = x
  BY <1>2 DEF ToNumber
<1>5. QED
  BY <1>1, <1>2, <1>3, <1>4

\* What the simulator can hold is a text, a number for all kinds but one; and so is what the
\* plugin writes of it.
LEMMA HoldableIsText ==
  ASSUME kind \in Kinds
  PROVE  /\ Holdable \subseteq Text /\ (kind # "text" => Holdable \subseteq Number)
         /\ \A t \in Text : Takes(t) => Stored(t) \in Holdable
         /\ kind # "text" => Placeholder \in Holdable /\ ~Takes(Blank)
         /\ \A v \in [Elements -> Holdable] : Texts(v) \in [Elements -> Text]
         /\ {Stored(t) : t \in {u \in Choice : Takes(u)}} \subseteq Holdable
<1>1. \A t \in Text : Takes(t) => Stored(t) \in Text
  <2> SUFFICES ASSUME NEW t \in Text, Takes(t) PROVE Stored(t) \in Text
    OBVIOUS
  <2>1. CASE kind = "text"
    BY <2>1, WordsKept DEF Stored, Text, Word
  <2>2. CASE kind # "text"
    BY <2>2, NumbersOfKind DEF Stored, Takes
  <2>3. QED
    BY <2>1, <2>2
<1>2. \A t \in Text : kind # "text" /\ Takes(t) => Stored(t) \in Number
  BY NumbersOfKind DEF Stored, Takes
<1>3. Holdable \subseteq Text /\ (kind # "text" => Holdable \subseteq Number)
      /\ \A t \in Text : Takes(t) => Stored(t) \in Holdable
  BY <1>1, <1>2 DEF Holdable
<1>4. kind # "text" => Placeholder \in Holdable /\ ~Takes(Blank)
  <2> SUFFICES ASSUME kind # "text" PROVE Placeholder \in Holdable /\ ~Takes(Blank)
    OBVIOUS
  <2>1. Placeholder \in Text /\ Takes(Placeholder) /\ Stored(Placeholder) = Placeholder
    BY NumbersOfKind DEF Takes, Stored
  <2>2. ~Takes(Blank)
    BY NumbersOfKind DEF Takes
  <2>3. QED
    BY <1>3, <2>1, <2>2
<1>5. ASSUME NEW v \in [Elements -> Holdable] PROVE Texts(v) \in [Elements -> Text]
  <2>1. \A i \in Elements : kind \in {"double", "array"} => v[i] \in Number
    BY <1>3
  <2>2. \A i \in Elements : kind \in {"double", "array"} => Ten[v[i]] \in Text /\ Six[v[i]] \in Text
    BY <2>1, NumbersOfKind
  <2>3. \A i \in Elements : v[i] \in Text
    BY <1>3
  <2>4. QED
    BY <2>2, <2>3 DEF Texts
<1>6. {Stored(t) : t \in {u \in Choice : Takes(u)}} \subseteq Holdable
  BY DEF Choice, Text, Number, Holdable
<1>7. QED
  BY <1>3, <1>4, <1>5, <1>6

-----------------------------------------------------------------------------
(* Reading *)

\* Filled changes the texts only, and those only if there are none.
LEMMA FilledFields ==
  ASSUME kind \in Kinds, NEW c \in Caches
  PROVE  /\ Filled(c).values = IF c.values = <<>> THEN <<ValueString(c)>> ELSE c.values
         /\ Filled(c).int = c.int /\ Filled(c).float = c.float /\ Filled(c).double = c.double
         /\ Value(c) = IF c.values = <<>> THEN ValueString(c) ELSE c.values[1]
         /\ Filled(c).values # <<>>
         /\ c.values # <<>> => Filled(c) = c
         /\ Readable(c) => Filled(c) \in Caches
<1>1. CASE c.values = <<>>
  <2>1. Filled(c) = [c EXCEPT !.values = <<ValueString(c)>>]
    BY <1>1 DEF Filled
  <2>2. /\ Filled(c).values = <<ValueString(c)>> /\ Filled(c).int = c.int
        /\ Filled(c).float = c.float /\ Filled(c).double = c.double
    BY <2>1 DEF Caches
  <2>3. ASSUME Readable(c) PROVE Filled(c) \in Caches
    <3>1. <<ValueString(c)>> \in Seq(Text)
      BY <1>1, <2>3 DEF Readable
    <3>2. QED
      BY <2>1, <3>1 DEF Caches
  <2>4. Value(c) = ValueString(c)
    BY <2>2 DEF Value
  <2>5. QED
    BY <1>1, <2>2, <2>3, <2>4
<1>2. CASE c.values # <<>>
  BY <1>2 DEF Filled, Value
<1>3. QED
  BY <1>1, <1>2

\* What the three ways to read a number leave behind.
LEMMA FloatFields ==
  ASSUME kind \in Kinds, NEW c \in Caches
  PROVE  /\ c.float # Nothing => AsFloat(c) = c
         /\ c.float = Nothing =>
              /\ AsFloat(c).values = Filled(c).values
              /\ AsFloat(c).int = c.int /\ AsFloat(c).double = c.double
              /\ AsFloat(c).float = Single[ToNumber(Value(c))]
         /\ Readable(c) => AsFloat(c) \in Caches
<1>1. CASE c.float # Nothing
  BY <1>1 DEF AsFloat
<1>2. CASE c.float = Nothing
  <2> DEFINE f == Filled(c)
             n == Single[ToNumber(Value(c))]
  <2>1. AsFloat(c) = [f EXCEPT !.float = n]
    BY <1>2 DEF AsFloat
  <2>2. n \in Number
    BY NumbersOfKind
  <2>3. f.int = c.int /\ f.double = c.double
    BY FilledFields
  <2>4. f \in [values : {f.values}, int : {f.int}, float : {f.float}, double : {f.double}]
    <3>1. c \in [values : {c.values}, int : {c.int}, float : {c.float}, double : {c.double}]
      BY DEF Caches
    <3>2. QED
      BY <3>1 DEF Filled
  <2> HIDE DEF f, n
  <2>5. /\ AsFloat(c).values = f.values /\ AsFloat(c).int = f.int
        /\ AsFloat(c).double = f.double /\ AsFloat(c).float = n
    BY <2>1, <2>4
  <2>6. ASSUME Readable(c) PROVE AsFloat(c) \in Caches
    <3>1. f \in Caches
      BY <2>6, FilledFields DEF f
    <3>2. QED
      BY <2>1, <2>2, <3>1 DEF Caches
  <2>7. QED
    BY <1>2, <2>3, <2>5, <2>6 DEF f, n
<1>3. QED
  BY <1>1, <1>2

LEMMA DoubleFields ==
  ASSUME kind \in Kinds, NEW c \in Caches
  PROVE  /\ c.double # Nothing => AsDouble(c) = c
         /\ c.double = Nothing =>
              /\ AsDouble(c).values = Filled(c).values
              /\ AsDouble(c).int = c.int /\ AsDouble(c).float = c.float
              /\ AsDouble(c).double = ToNumber(Value(c))
         /\ Readable(c) => AsDouble(c) \in Caches
<1>1. CASE c.double # Nothing
  BY <1>1 DEF AsDouble
<1>2. CASE c.double = Nothing
  <2> DEFINE f == Filled(c)
             n == ToNumber(Value(c))
  <2>1. AsDouble(c) = [f EXCEPT !.double = n]
    BY <1>2 DEF AsDouble
  <2>2. n \in Number
    BY NumbersOfKind
  <2>3. f.int = c.int /\ f.float = c.float
    BY FilledFields
  <2>4. f \in [values : {f.values}, int : {f.int}, float : {f.float}, double : {f.double}]
    <3>1. c \in [values : {c.values}, int : {c.int}, float : {c.float}, double : {c.double}]
      BY DEF Caches
    <3>2. QED
      BY <3>1 DEF Filled
  <2> HIDE DEF f, n
  <2>5. /\ AsDouble(c).values = f.values /\ AsDouble(c).int = f.int
        /\ AsDouble(c).float = f.float /\ AsDouble(c).double = n
    BY <2>1, <2>4
  <2>6. ASSUME Readable(c) PROVE AsDouble(c) \in Caches
    <3>1. f \in Caches
      BY <2>6, FilledFields DEF f
    <3>2. QED
      BY <2>1, <2>2, <3>1 DEF Caches
  <2>7. QED
    BY <1>2, <2>3, <2>5, <2>6 DEF f, n
<1>3. QED
  BY <1>1, <1>2

LEMMA IntFields ==
  ASSUME kind \in Kinds, NEW c \in Caches, Readable(c)
  PROVE  /\ c.int # Nothing => AsInt(c) = c
         /\ c.int = Nothing =>
              /\ AsInt(c).values = AsFloat(c).values
              /\ AsInt(c).float = AsFloat(c).float /\ AsInt(c).double = AsFloat(c).double
              /\ AsInt(c).int = Whole[AsFloat(c).float] /\ AsFloat(c).float \in Number
         /\ AsInt(c) \in Caches
<1>1. CASE c.int # Nothing
  BY <1>1 DEF AsInt
<1>2. CASE c.int = Nothing
  <2> DEFINE f == AsFloat(c)
             n == Whole[f.float]
  <2>1. f \in Caches
    BY FloatFields
  <2>2. f.float \in Number
    <3>1. f.float # Nothing
      BY FloatFields, NumbersOfKind
    <3>2. QED
      BY <2>1, <3>1 DEF Caches
  <2>3. n \in Number
    BY <2>2, NumbersOfKind
  <2>4. AsInt(c) = [f EXCEPT !.int = n]
    BY <1>2 DEF AsInt
  <2> HIDE DEF f, n
  <2>5. /\ AsInt(c).values = f.values /\ AsInt(c).float = f.float
        /\ AsInt(c).double = f.double /\ AsInt(c).int = n
    BY <2>1, <2>4 DEF Caches
  <2>6. AsInt(c) \in Caches
    BY <2>1, <2>3, <2>4 DEF Caches
  <2>7. QED
    BY <1>2, <2>2, <2>5, <2>6 DEF f, n
<1>3. QED
  BY <1>1, <1>2

\* A read changes nothing, or leaves a text and the numbers read of it; or else it leaves the
\* int of a float that came by datagram.
LEMMA ReadFields ==
  ASSUME kind \in Kinds, NEW c \in Caches, Readable(c),
         NEW d \in {Filled(c), AsFloat(c), AsDouble(c), AsInt(c)}
  PROVE  /\ d \in Caches
         /\ \/ d = c
            \/ /\ d.values = Filled(c).values
               /\ \/ d.float = c.float
                  \/ c.float = Nothing /\ d.float = Single[ToNumber(Value(c))]
               /\ \/ d.double = c.double
                  \/ c.double = Nothing /\ d.double = ToNumber(Value(c))
               /\ \/ d.int = c.int
                  \/ c.int = Nothing /\ d.float # Nothing /\ d.int = Whole[d.float]
            \/ /\ c.values = <<>> /\ c.int = Nothing /\ c.float # Nothing
               /\ d.values = <<>> /\ d.float = c.float /\ d.double = c.double
               /\ d.int = Whole[c.float] /\ d.int # Nothing
<1>1. /\ Filled(c).int = c.int /\ Filled(c).float = c.float /\ Filled(c).double = c.double
      /\ Filled(c) \in Caches /\ (c.values # <<>> => Filled(c) = c)
  BY FilledFields
<1>2. CASE d = Filled(c)
  BY <1>1, <1>2
<1>3. CASE d = AsFloat(c)
  BY <1>1, <1>3, FloatFields
<1>4. CASE d = AsDouble(c)
  BY <1>1, <1>4, DoubleFields
<1>5. CASE d = AsInt(c)
  <2>1. CASE c.int # Nothing
    BY <1>5, <2>1, IntFields
  <2>2. CASE c.int = Nothing
    <3>1. /\ d \in Caches /\ d.values = AsFloat(c).values /\ d.float = AsFloat(c).float
          /\ d.double = AsFloat(c).double /\ d.int = Whole[d.float]
          /\ d.float \in Number /\ d.int \in Number
      BY <1>5, <2>2, IntFields, NumbersOfKind
    <3>2. d.float # Nothing /\ d.int # Nothing
      BY <3>1, NumbersOfKind
    <3>3. CASE c.float = Nothing
      BY <1>1, <2>2, <3>1, <3>2, <3>3, FloatFields
    <3>4. CASE c.float # Nothing
      BY <1>1, <2>2, <3>1, <3>2, <3>4, FloatFields
    <3>5. QED
      BY <3>3, <3>4
  <2>3. QED
    BY <2>1, <2>2
<1>6. QED
  BY <1>2, <1>3, <1>4, <1>5

\* The number a datagram brought is remembered, and is one.
LEMMA DatagramsNumber ==
  ASSUME kind \in Kinds, NEW c \in Caches, NEW t, NEW h, NumbersOf(c, t, h),
         h = "datagram" => t \in Number
  PROVE  /\ By(h, "float") => c.float = t /\ t # Nothing
         /\ By(h, "double") => c.double = t /\ t # Nothing
         /\ By(h, "int") => c.int = t /\ t # Nothing
         /\ c.float # Nothing => c.float = FloatOf(t, h, Value(c))
<1>1. h = "datagram" => t # Nothing
  BY NumbersOfKind
<1>2. QED
  BY <1>1 DEF NumbersOf, By, FloatOf, DoubleOf, IntOf

\* What is shown is a text.
LEMMA ShownIsText ==
  ASSUME kind \in Kinds, NEW t \in Text, NEW h, h = "datagram" => t \in Number
  PROVE  Shown(t, h) \subseteq Text
  BY NumbersOfKind DEF Shown, By

\* What tells of l is readable, as a first text is shown.
LEMMA TellsReadable ==
  ASSUME kind \in Kinds, NEW c \in Caches, NEW l \in Seq(Text), NEW h, Tells(c, l, h)
  PROVE  /\ l # <<>> /\ l[1] \in Text /\ Len(l) \in Nat \ {0} /\ Readable(c)
         /\ c.values = <<>> => h # "set" \/ Len(l) = 1
<1>1. l # <<>>
  BY DEF Tells
<1>2. l[1] \in Text /\ Len(l) \in Nat \ {0}
  BY <1>1, EmptySeq, ElementOfSeq
<1>3. Value(c) \in Text
  BY <1>2, ShownIsText DEF Tells
<1>4. Readable(c)
  BY <1>3, FilledFields DEF Readable
<1>5. ASSUME c.values = <<>> PROVE Len(l) = 1
  <2> DEFINE k == Len(l)
  <2>1. k \in Nat \ {0} /\ ~(k > 1)
    BY <1>1, <1>2, <1>5 DEF Tells
  <2> HIDE DEF k
  <2>2. k = 1
    BY <2>1
  <2>3. QED
    BY <2>2 DEF k
<1>6. QED
  BY <1>1, <1>2, <1>4, <1>5

\* A read that leaves a text tells of the same.
LEMMA TextRead ==
  ASSUME kind \in Kinds, NEW c \in Caches, NEW d \in Caches, NEW t, NEW h,
         NumbersOf(c, t, h), h = "datagram" => t \in Number,
         Value(d) = Value(c), d.values # <<>>,
         \/ d.float = c.float
         \/ c.float = Nothing /\ d.float = Single[ToNumber(Value(c))],
         \/ d.double = c.double
         \/ c.double = Nothing /\ d.double = ToNumber(Value(c)),
         \/ d.int = c.int
         \/ c.int = Nothing /\ d.float # Nothing /\ d.int = Whole[d.float]
  PROVE  NumbersOf(d, t, h)
<1> DEFINE v == Value(c)
<1>1. /\ By(h, "float") => c.float # Nothing
      /\ By(h, "double") => c.double # Nothing
      /\ By(h, "int") => c.int # Nothing
  BY DatagramsNumber
<1>2. /\ c.float \in {FloatOf(t, h, v)} \cup (IF By(h, "float") THEN {} ELSE {Nothing})
      /\ c.double \in {DoubleOf(t, h, v)} \cup (IF By(h, "double") THEN {} ELSE {Nothing})
      /\ c.int \in {IntOf(t, h, v)} \cup (IF By(h, "int") THEN {} ELSE {Nothing})
  BY DEF NumbersOf
<1> HIDE DEF v
<1>3. d.float \in {FloatOf(t, h, v)} \cup (IF By(h, "float") THEN {} ELSE {Nothing})
  BY <1>1, <1>2 DEF FloatOf, v
<1>4. d.double \in {DoubleOf(t, h, v)} \cup (IF By(h, "double") THEN {} ELSE {Nothing})
  BY <1>1, <1>2 DEF DoubleOf, v
<1>5. d.int \in {IntOf(t, h, v)} \cup (IF By(h, "int") THEN {} ELSE {Nothing})
  <2>1. CASE d.int = c.int
    BY <1>2, <2>1
  <2>2. CASE c.int = Nothing /\ d.float # Nothing /\ d.int = Whole[d.float]
    <3>1. ~By(h, "int") /\ d.float = FloatOf(t, h, v)
      BY <1>1, <1>3, <2>2
    <3>2. QED
      BY <2>2, <3>1 DEF IntOf
  <2>3. QED
    BY <2>1, <2>2
<1>6. QED
  BY <1>3, <1>4, <1>5 DEF NumbersOf, v

\* A read tells of the same texts as before.
LEMMA Reads ==
  ASSUME kind \in Kinds, NEW c \in Caches, NEW l \in Seq(Text), NEW h, Tells(c, l, h),
         NEW d \in {Filled(c), AsFloat(c), AsDouble(c), AsInt(c)}
  PROVE  /\ d \in Caches /\ Tells(d, l, h)
         /\ Len(d.values) = Len(c.values) \/ Len(d.values) = 1
         /\ h # "datagram" => Filled(d).values = Filled(c).values
<1> DEFINE t == l[1]
           v == Value(c)
<1>1. /\ l # <<>> /\ t \in Text /\ Len(l) \in Nat \ {0} /\ Readable(c)
      /\ c.values = <<>> => h # "set" \/ Len(l) = 1
  BY TellsReadable
<1>2. /\ Len(l) > 1 => c.values = l
      /\ c.values # <<>> => Len(c.values) = Len(l)
      /\ v \in Shown(t, h)
      /\ h # "set" \/ Len(l) = 1 => NumbersOf(c, t, h)
      /\ h = "datagram" => kind \in {"int", "float", "double"} /\ t \in Number
  BY DEF Tells
<1>3. /\ Filled(c).values = IF c.values = <<>> THEN <<v>> ELSE c.values
      /\ v = IF c.values = <<>> THEN ValueString(c) ELSE c.values[1]
      /\ Filled(c).values # <<>> /\ (c.values # <<>> => Filled(c) = c)
  BY FilledFields
<1>4. d \in Caches
  BY <1>1, ReadFields
<1> HIDE DEF t, v
<1>5. CASE d = c
  BY <1>5
<1>6. CASE /\ d.values = Filled(c).values
           /\ \/ d.float = c.float
              \/ c.float = Nothing /\ d.float = Single[ToNumber(v)]
           /\ \/ d.double = c.double
              \/ c.double = Nothing /\ d.double = ToNumber(v)
           /\ \/ d.int = c.int
              \/ c.int = Nothing /\ d.float # Nothing /\ d.int = Whole[d.float]
  <2>1. d.values # <<>> /\ d.values[1] = v
    BY <1>3, <1>6
  <2>2. Value(d) = v /\ Filled(d).values = Filled(c).values
    BY <1>4, <1>6, <2>1, FilledFields
  <2>3. h # "set" \/ Len(l) = 1 => NumbersOf(d, t, h)
    BY <1>2, <1>4, <1>6, <2>1, <2>2, TextRead DEF v
  <2>4. c.values = <<>> => Len(d.values) = 1 /\ Len(l) = 1
    <3> SUFFICES ASSUME c.values = <<>> PROVE Len(d.values) = 1 /\ Len(l) = 1
      OBVIOUS
    <3>1. d.values = <<v>>
      BY <1>3, <1>6
    <3>2. ~(Len(l) > 1)
      BY <1>1, <1>2
    <3> DEFINE k == Len(l)
    <3>3. k \in Nat \ {0} /\ ~(k > 1)
      BY <1>1, <3>2
    <3> HIDE DEF k
    <3>4. k = 1
      BY <3>3
    <3>5. QED
      BY <3>1, <3>4 DEF k
  <2>5. c.values # <<>> => d.values = c.values
    BY <1>3, <1>6
  <2>6. /\ Len(l) > 1 => d.values = l
        /\ Len(d.values) = Len(l)
        /\ Len(d.values) = Len(c.values) \/ Len(d.values) = 1
    <3>1. CASE c.values = <<>>
      BY <1>1, <1>2, <2>4, <3>1
    <3>2. CASE c.values # <<>>
      BY <1>2, <2>5, <3>2
    <3>3. QED
      BY <3>1, <3>2
  <2>7. Tells(d, l, h)
    BY <1>1, <1>2, <2>2, <2>3, <2>6 DEF Tells, t
  <2>8. QED
    BY <1>4, <2>2, <2>6, <2>7
<1>7. CASE /\ c.values = <<>> /\ c.int = Nothing /\ c.float # Nothing
           /\ d.values = <<>> /\ d.float = c.float /\ d.double = c.double
           /\ d.int = Whole[c.float] /\ d.int # Nothing
  <2>1. NumbersOf(c, t, h) /\ By(h, "float") /\ direct /\ c.double = Nothing
    BY <1>1, <1>2, <1>7 DEF NumbersOf, By
  <2>2. d.float = t /\ d.int = Whole[t]
    BY <1>2, <1>7, <2>1, DatagramsNumber
  <2>3. Value(d) = Whole[t]
    BY <1>4, <1>7, <2>2, FilledFields DEF ValueString
  <2>4. Value(d) \in Shown(t, h)
    BY <2>1, <2>3 DEF Shown
  <2>5. NumbersOf(d, t, h)
    <3>1. ~By(h, "int") /\ ~By(h, "double")
      BY <2>1 DEF By
    <3>2. d.float = FloatOf(t, h, Value(d)) /\ d.int = IntOf(t, h, Value(d)) /\ d.double = Nothing
      BY <1>7, <2>1, <2>2, <3>1 DEF FloatOf, IntOf
    <3>3. QED
      BY <2>1, <3>1, <3>2 DEF NumbersOf
  <2>6. h = "datagram" /\ ~(Len(l) > 1) /\ d.values = c.values
    BY <1>1, <1>2, <1>7, <2>1 DEF By
  <2>7. Tells(d, l, h)
    BY <1>1, <1>2, <1>7, <2>4, <2>5, <2>6 DEF Tells, t
  <2>8. QED
    BY <1>4, <2>6, <2>7
<1>8. QED
  BY <1>1, <1>5, <1>6, <1>7, ReadFields DEF v

-----------------------------------------------------------------------------
(* Updates and sets *)

\* invalidateValue leaves nothing.
LEMMA InvalidatedFields ==
  ASSUME NEW c \in Caches
  PROVE  /\ Invalidated(c) \in
              [values : {<<>>}, int : {Nothing}, float : {Nothing}, double : {Nothing}]
         /\ Invalidated(c) \in Caches
<1>1. <<>> \in Seq(Text)
  OBVIOUS
<1>2. QED
  BY <1>1 DEF Invalidated, Caches

\* Texts that were stored after invalidateValue are told of as they are.
LEMMA StoredTexts ==
  ASSUME kind \in Kinds, NEW c \in Caches, NEW v \in Seq(Text), v # <<>>, NEW h \in {"line", "set"},
         NEW d, d = [Invalidated(c) EXCEPT !.values = v]
  PROVE  d \in Caches /\ d.values = v /\ Tells(d, v, h)
<1> DEFINE e == Invalidated(c)
<1>1. e \in [values : {<<>>}, int : {Nothing}, float : {Nothing}, double : {Nothing}]
      /\ e \in Caches
  BY InvalidatedFields
<1> HIDE DEF e
<1>2. d \in Caches /\ d.values = v /\ d.int = Nothing /\ d.float = Nothing /\ d.double = Nothing
  BY <1>1 DEF Caches, e
<1>3. Value(d) = v[1]
  BY <1>2, FilledFields DEF Readable
<1>4. \A k : ~By(h, k)
  BY DEF By
<1>5. Value(d) \in Shown(v[1], h) /\ NumbersOf(d, v[1], h)
  BY <1>2, <1>3, <1>4 DEF Shown, NumbersOf
<1>6. QED
  BY <1>2, <1>5 DEF Tells

\* Reading a first text of what tells of l.
LEMMA ToldTells ==
  ASSUME kind \in Kinds, direct \in BOOLEAN, NEW c \in Caches, NEW l \in Seq(Text),
         NEW h, Tells(c, l, h)
  PROVE  /\ Told(c) \in Caches /\ Tells(Told(c), l, h)
         /\ Len(Told(c).values) = Len(c.values) \/ Len(Told(c).values) = 1
         /\ h # "datagram" => Filled(Told(c)).values = Filled(c).values
<1>1. CASE direct
  BY <1>1 DEF Told
<1>2. CASE ~direct
  BY <1>2, Reads DEF Told
<1>3. QED
  BY <1>1, <1>2

\* Texts for all elements are a line of the plugin.
LEMMA TextsAreLine ==
  ASSUME kind \in Kinds, NEW f \in [Elements -> Text]
  PROVE  f \in Seq(Text) /\ Len(f) = Size /\ f # <<>> /\ f[1] \in Text /\ f \in Lines
<1>1. Elements = 1..Size /\ Size \in Nat \ {0} /\ 1 \in Elements
  <2>1. CASE kind = "array"
    <3>1. Elements = {1, 2} /\ Size = 2
      BY <2>1 DEF Elements, Size
    <3>2. QED
      BY <3>1
  <2>2. CASE kind # "array"
    <3>1. Elements = {1} /\ Size = 1
      BY <2>2 DEF Elements, Size
    <3>2. QED
      BY <3>1
  <2>3. QED
    BY <2>1, <2>2
<1>2. f \in [1..Size -> Text]
  BY <1>1
<1>3. f \in Seq(Text)
  BY <1>1, <1>2, SeqDef
<1>4. Len(f) \in Nat /\ DOMAIN f = 1..Len(f) /\ DOMAIN f = 1..Size
  BY <1>2, <1>3, LenProperties
<1>5. Len(f) = Size
  BY <1>1, <1>4
<1>6. f # <<>>
  BY <1>1, <1>3, <1>5, EmptySeq
<1>7. f \in Lines
  BY <1>1, <1>3, <1>5, <1>6 DEF Lines
<1>8. QED
  BY <1>1, <1>3, <1>5, <1>6, <1>7

\* setValue stores what it is told of, whatever it knew before.
LEMMA SetTells ==
  ASSUME kind \in Kinds, NEW c \in Caches, Len(c.values) <= Size,
         NEW t \in Text, NEW i \in Elements
  PROVE  LET w == WithElement(c, t, i)
         IN  /\ w \in Caches /\ w.values # <<>> /\ Len(w.values) <= Size
             /\ Tells(w, w.values, "set")
<1> DEFINE w == WithElement(c, t, i)
<1>1. /\ c.values \in Seq(Text) /\ Len(c.values) \in Nat /\ Size \in {1, 2} /\ i \in 1..Size
      /\ Blank \in Text
  BY LenProperties DEF Caches, Elements, Size, Text
<1>2. CASE Len(c.values) <= 1
  <2> DEFINE v == [j \in 1..i |-> IF j = i THEN t ELSE Blank]
  <2>1. v \in [1..i -> Text] /\ i \in Nat \ {0}
    BY <1>1
  <2>2. v \in Seq(Text)
    BY <2>1, SeqDef
  <2>3. Len(v) \in Nat /\ DOMAIN v = 1..Len(v) /\ DOMAIN v = 1..i
    BY <2>1, <2>2, LenProperties
  <2>4. Len(v) = i
    BY <2>1, <2>3
  <2>5. v # <<>>
    BY <2>1, <2>2, <2>4, EmptySeq
  <2>6. w = [Invalidated(c) EXCEPT !.values = v]
    BY <1>2 DEF WithElement
  <2> HIDE DEF v, w
  <2>7. w \in Caches /\ w.values = v /\ Tells(w, v, "set")
    BY <2>2, <2>5, <2>6, StoredTexts
  <2>8. Len(v) <= Size
    BY <1>1, <2>4
  <2>9. w.values # <<>> /\ Len(w.values) <= Size /\ Tells(w, w.values, "set")
    BY <2>5, <2>7, <2>8
  <2>10. QED
    BY <2>7, <2>9 DEF w
<1>3. CASE ~(Len(c.values) <= 1)
  <2> DEFINE v == [c.values EXCEPT ![i] = t]
  <2>1. i \in 1..Len(c.values)
    BY <1>1, <1>3
  <2>2. v \in Seq(Text) /\ Len(v) = Len(c.values)
    BY <1>1, <2>1, ExceptSeq
  <2>3. Len(v) > 1 /\ v # <<>> /\ Len(v) # 1
    <3>1. Len(v) > 1 /\ v # <<>>
      BY <1>1, <1>3, <2>2, EmptySeq
    <3>2. \A k : k > 1 => k # 1
      OBVIOUS
    <3>3. QED
      BY <3>1, <3>2, Zenon
  <2>4. w = [c EXCEPT !.values = v]
    BY <1>3 DEF WithElement
  <2> HIDE DEF v, w
  <2>5. w \in Caches /\ w.values = v
    BY <2>2, <2>4 DEF Caches
  <2>6. Value(w) = v[1]
    BY <2>3, <2>5, FilledFields DEF Readable
  <2>7. Value(w) \in Shown(v[1], "set")
    BY <2>6 DEF Shown, By
  <2>8. Tells(w, v, "set")
    BY <2>3, <2>5, <2>7 DEF Tells
  <2>9. QED
    BY <2>2, <2>3, <2>5, <2>8 DEF w
<1>4. QED
  BY <1>2, <1>3

\* A datagram's number is told of.
LEMMA DatagramTells ==
  ASSUME kind \in {"int", "float", "double"}, kind \in Kinds, direct \in BOOLEAN,
         NEW c \in Caches, NEW x \in Number,
         NEW d, d = CASE kind = "int"    -> [Invalidated(c) EXCEPT !.int = x]
                      [] kind = "float"  -> [Invalidated(c) EXCEPT !.float = x]
                      [] kind = "double" -> [Invalidated(c) EXCEPT !.double = x]
  PROVE  Told(d) \in Caches /\ Len(Told(d).values) <= 1 /\ Tells(Told(d), <<x>>, "datagram")
<1> DEFINE e == Invalidated(c)
<1>1. e \in [values : {<<>>}, int : {Nothing}, float : {Nothing}, double : {Nothing}]
      /\ e \in Caches
  BY InvalidatedFields
<1>2. x \in Text /\ x # Nothing /\ Six[x] \in Text
  BY NumbersOfKind
<1> HIDE DEF e
<1>3. d \in Caches /\ d.values = <<>> /\ Len(d.values) = 0
  BY <1>1, <1>2 DEF Caches, e
<1>4. <<x>> \in Seq(Text) /\ Len(<<x>>) = 1 /\ <<x>>[1] = x /\ <<x>> # <<>>
  BY <1>2
<1>5. /\ d.int = IF kind = "int" THEN x ELSE Nothing
      /\ d.float = IF kind = "float" THEN x ELSE Nothing
      /\ d.double = IF kind = "double" THEN x ELSE Nothing
  BY <1>1, <1>2 DEF Caches, e
<1>6. ValueString(d) = IF kind = "int" THEN x ELSE Six[x]
  BY <1>2, <1>5 DEF ValueString
<1>7. ValueString(d) \in Shown(x, "datagram")
  BY <1>6 DEF Shown, By
<1>8. Readable(d)
  BY <1>2, <1>6 DEF Readable
<1>9. CASE direct \/ kind # "float"
  <2>1. Value(d) \in Shown(x, "datagram")
    BY <1>3, <1>7, <1>8, FilledFields
  <2>2. NumbersOf(d, x, "datagram")
    BY <1>3, <1>5, <1>9 DEF NumbersOf, By, FloatOf, DoubleOf, IntOf
  <2>3. Tells(d, <<x>>, "datagram")
    <3>1. ~(Len(<<x>>) > 1)
      BY <1>4
    <3>2. QED
      BY <1>3, <1>4, <2>1, <2>2, <3>1 DEF Tells
  <2>4. Told(d) \in Caches /\ Tells(Told(d), <<x>>, "datagram")
        /\ (Len(Told(d).values) = Len(d.values) \/ Len(Told(d).values) = 1)
    BY <1>3, <1>4, <2>3, ToldTells
  <2>5. Len(Told(d).values) <= 1
    <3>1. Len(Told(d).values) \in {0, 1}
      BY <1>3, <2>4
    <3>2. \A k \in {0, 1} : k <= 1
      OBVIOUS
    <3>3. QED
      BY <3>1, <3>2, Zenon
  <2>6. QED
    BY <2>4, <2>5
<1>10. CASE ~direct /\ kind = "float"
  <2> DEFINE w == Told(d)
  <2>1. w = Filled(d)
    BY <1>10 DEF Told
  <2>2. /\ w \in Caches /\ w.values = <<ValueString(d)>> /\ w.int = Nothing /\ w.float = x
        /\ w.double = Nothing /\ Value(d) = ValueString(d)
    <3>1. /\ Filled(d) \in Caches /\ Filled(d).values = <<ValueString(d)>>
          /\ Filled(d).int = d.int /\ Filled(d).float = d.float
          /\ Filled(d).double = d.double /\ Value(d) = ValueString(d)
      BY <1>3, <1>8, FilledFields
    <3>2. d.int = Nothing /\ d.float = x /\ d.double = Nothing
      BY <1>5, <1>10
    <3>3. QED
      BY <2>1, <3>1, <3>2, Zenon
  <2> HIDE DEF w
  <2>3. w.values # <<>> /\ Len(w.values) = 1 /\ w.values[1] = ValueString(d)
    BY <2>2
  <2>4. Value(w) = ValueString(d)
    BY <2>2, <2>3, FilledFields DEF Readable
  <2>5. NumbersOf(w, x, "datagram")
    BY <1>10, <2>2, <2>3 DEF NumbersOf, By, FloatOf
  <2>6. Tells(w, <<x>>, "datagram")
    <3>1. ~(Len(<<x>>) > 1)
      BY <1>4
    <3>2. QED
      BY <1>4, <1>7, <2>3, <2>4, <2>5, <3>1 DEF Tells
  <2>7. Len(w.values) <= 1
    <3>1. 1 <= 1
      OBVIOUS
    <3>2. QED
      BY <2>3, <3>1, Zenon
  <2>8. QED
    BY <2>2, <2>6, <2>7 DEF w
<1>11. QED
  BY <1>9, <1>10

-----------------------------------------------------------------------------
(* Lines *)

\* The last element of a list one longer, and of one shorter.
LEMMA AppendLast ==
  ASSUME NEW S, NEW s \in Seq(S), NEW e \in S
  PROVE  /\ Append(s, e) \in Seq(S) /\ Append(s, e) # <<>>
         /\ Len(s) \in Nat /\ Len(Append(s, e)) = Len(s) + 1
         /\ Append(s, e)[Len(Append(s, e))] = e
         /\ \A k \in 1..Len(s) : Append(s, e)[k] = s[k]
         /\ s = <<>> => Len(s) = 0
<1>1. Append(s, e) \in Seq(S) /\ Len(s) \in Nat /\ Len(Append(s, e)) = Len(s) + 1
  BY LenProperties
<1>2. Append(s, e) # <<>>
  BY <1>1, EmptySeq
<1>3. s = <<>> => Len(s) = 0
  BY EmptySeq
<1>4. Append(s, e)[Len(Append(s, e))] = e /\ \A k \in 1..Len(s) : Append(s, e)[k] = s[k]
  BY <1>1
<1>5. QED
  BY <1>1, <1>2, <1>3, <1>4

LEMMA TailLast ==
  ASSUME NEW S, NEW s \in Seq(S), s # <<>>
  PROVE  /\ Head(s) \in S /\ Head(s) = s[1] /\ Len(s) \in Nat \ {0}
         /\ Tail(s) \in Seq(S) /\ Len(Tail(s)) \in Nat /\ Len(Tail(s)) = Len(s) - 1
         /\ \A k \in 1..Len(Tail(s)) : Tail(s)[k] = s[k + 1] /\ k + 1 \in 1..Len(s)
         /\ Tail(s) # <<>> => Tail(s)[Len(Tail(s))] = s[Len(s)] /\ Len(s) # 1
         /\ Tail(s) = <<>> => Head(s) = s[Len(s)]
<1>1. /\ Head(s) \in S /\ Tail(s) \in Seq(S) /\ Len(Tail(s)) = Len(s) - 1
      /\ \A k \in 1..Len(Tail(s)) : Tail(s)[k] = s[k + 1]
  BY HeadTailProperties
<1>2. Len(s) \in Nat \ {0} /\ Len(Tail(s)) \in Nat
  BY <1>1, EmptySeq, LenProperties
<1>3. Head(s) = s[1]
  OBVIOUS
<1>4. \A k \in 1..Len(Tail(s)) : k + 1 \in 1..Len(s)
  BY <1>1, <1>2
<1>5. ASSUME Tail(s) # <<>> PROVE Tail(s)[Len(Tail(s))] = s[Len(s)] /\ Len(s) # 1
  <2>1. Len(Tail(s)) \in Nat \ {0}
    BY <1>1, <1>5, EmptySeq
  <2>2. Len(Tail(s)) \in 1..Len(Tail(s)) /\ Len(Tail(s)) + 1 = Len(s)
    BY <1>1, <1>2, <2>1
  <2>3. Len(s) # 1
    BY <1>1, <2>1
  <2>4. QED
    BY <1>1, <2>2, <2>3
<1>6. ASSUME Tail(s) = <<>> PROVE Head(s) = s[Len(s)]
  <2>1. Len(Tail(s)) = 0
    BY <1>6, EmptySeq
  <2>2. Len(s) = 1
    <3>1. \A k \in Nat \ {0} : k - 1 = 0 => k = 1
      OBVIOUS
    <3>2. Len(s) - 1 = 0
      BY <1>1, <2>1
    <3>3. QED
      BY <1>2, <3>1, <3>2
  <2>3. QED
    BY <1>3, <2>2
<1>7. QED
  BY <1>1, <1>2, <1>3, <1>4, <1>5, <1>6

\* A line is written if there is a connection and something to write.
LEMMA Written ==
  ASSUME toServer \in Seq(Seq(Text)), NEW line \in Seq(Text), WriteLine(line)
  PROVE  /\ toServer' \in Seq(Seq(Text))
         /\ connected /\ line # <<>> => toServer' = Append(toServer, line)
         /\ ~(connected /\ line # <<>>) => toServer' = toServer
<1>1. Append(toServer, line) \in Seq(Seq(Text))
  BY AppendLast
<1>2. QED
  BY <1>1 DEF WriteLine

\* The line of a set has the texts of the object, or is none.
LEMMA LineTexts ==
  ASSUME kind \in Kinds, NEW c \in Caches, Readable(c)
  PROVE  LineOf(c) \in {<<>>, Filled(c).values} /\ LineOf(c) \in Seq(Text)
<1>1. Filled(c) \in Caches
  BY FilledFields
<1>2. Filled(c).values \in Seq(Text)
  BY <1>1 DEF Caches
<1>3. <<>> \in Seq(Text)
  OBVIOUS
<1>4. QED
  BY <1>2, <1>3 DEF LineOf

\* Lines are lists of texts.
LEMMA LinesAreTexts ==
  ASSUME NEW s \in Seq(Lines)
  PROVE  s \in Seq(Seq(Text)) /\ Len(s) \in Nat /\ \A k \in 1..Len(s) : s[k] \in Lines
<1>1. Lines \subseteq Seq(Text)
  BY DEF Lines
<1>2. Len(s) \in Nat /\ s \in [1..Len(s) -> Lines]
  BY LenProperties
<1>3. s \in [1..Len(s) -> Seq(Text)]
  BY <1>1, <1>2
<1>4. s \in Seq(Seq(Text))
  BY <1>2, <1>3, SeqDef
<1>5. QED
  BY <1>2, <1>4

\* What the object tells is told by line or datagram, if it is news.
LEMMA Emitted ==
  ASSUME udp \in BOOLEAN, air \subseteq Holdable, toClient \in Seq(Lines),
         NEW line \in Lines, NEW news \in BOOLEAN, sim'[1] \in Holdable, Emit(news, line)
  PROVE  /\ air' \subseteq Holdable /\ (air' # {} => air # {} \/ udp)
         /\ toClient' \in Seq(Lines)
         /\ toClient' = toClient \/ subscribed
         /\ toClient' = toClient \/ toClient' = Append(toClient, line)
         /\ subscribed /\ ~udp /\ news => toClient' = Append(toClient, line)
         /\ ~news => toClient' = toClient
         /\ Append(toClient, line) # <<>>
         /\ Append(toClient, line)[Len(Append(toClient, line))] = line
<1>1. /\ Append(toClient, line) \in Seq(Lines) /\ Append(toClient, line) # <<>>
      /\ Append(toClient, line)[Len(Append(toClient, line))] = line
  BY AppendLast
<1>2. CASE subscribed /\ news
  <2>1. CASE udp
    BY <1>1, <1>2, <2>1 DEF Emit
  <2>2. CASE ~udp
    BY <1>1, <1>2, <2>2 DEF Emit
  <2>3. QED
    BY <2>1, <2>2
<1>3. CASE ~(subscribed /\ news)
  BY <1>1, <1>3 DEF Emit
<1>4. QED
  BY <1>2, <1>3

-----------------------------------------------------------------------------
(* What the program has *)

\* What the invariant says of the object, with its size.
LEMMA ObjectFacts ==
  ASSUME ValuesInv
  PROVE  /\ kind \in Kinds /\ udp \in BOOLEAN /\ direct \in BOOLEAN
         /\ cache \in Caches /\ Len(cache.values) <= Size /\ latest \in Seq(Text)
         /\ Tells(cache, latest, came) /\ came \in {"line", "datagram", "set"}
         /\ Size \in {1, 2}
         /\ air \subseteq Holdable /\ (air # {} \/ came = "datagram" => udp)
         /\ udp => kind \in {"int", "float", "double"}
<1>1. kind \in Kinds /\ Size \in {1, 2}
  BY DEF ValuesInv, ValuesTypeOK, Size
<1>2. /\ udp \in BOOLEAN /\ direct \in BOOLEAN /\ cache \in Caches /\ latest \in Seq(Text)
      /\ came \in {"line", "datagram", "set"} /\ air \subseteq Holdable
  BY DEF ValuesInv, ValuesTypeOK, Caches
<1>3. Tells(cache, latest, came) /\ Len(cache.values) <= Size
  BY DEF ValuesInv
<1>4. /\ air # {} \/ came = "datagram" => udp
      /\ udp => kind \in {"int", "float", "double"}
  BY <1>1, KindsKnown DEF ValuesInv, DatagramsOK
<1>5. QED
  BY <1>1, <1>2, <1>3, <1>4

\* The object, the texts last told of and the way they came, after a step.
Object(c, l, h) ==
  /\ c \in Caches /\ Len(c.values) <= Size
  /\ l \in Seq(Text) /\ h \in {"line", "datagram", "set"} /\ (h = "datagram" => udp)
  /\ Tells(c, l, h)

LEMMA ReadObject ==
  ASSUME ValuesInv, Read
  PROVE  Object(cache', latest', came') /\ (~udp => Filled(cache').values = Filled(cache).values)
<1>1. /\ kind \in Kinds /\ latest \in Seq(Text) /\ Tells(cache, latest, came)
      /\ cache \in Caches /\ Len(cache.values) <= Size /\ Size \in {1, 2}
      /\ came \in {"line", "datagram", "set"} /\ (came = "datagram" => udp)
  BY ObjectFacts
<1>2. /\ cache' \in {Filled(cache), AsFloat(cache), AsDouble(cache), AsInt(cache)}
      /\ latest' = latest /\ came' = came
  BY DEF Read
<1>3. /\ cache' \in Caches /\ Tells(cache', latest, came)
      /\ Len(cache'.values) = Len(cache.values) \/ Len(cache'.values) = 1
      /\ came # "datagram" => Filled(cache').values = Filled(cache).values
  BY <1>1, <1>2, Reads
<1>4. Len(cache'.values) <= Size
  <2>1. CASE Len(cache'.values) = Len(cache.values)
    BY <1>1, <2>1
  <2>2. CASE Len(cache'.values) = 1
    BY <1>1, <2>2
  <2>3. QED
    BY <1>3, <2>1, <2>2
<1>5. QED
  BY <1>1, <1>2, <1>3, <1>4 DEF Object

LEMMA LineObject ==
  ASSUME ValuesInv, LineComes
  PROVE  Object(cache', latest', came') /\ Filled(cache').values = Head(toClient)
<1> DEFINE v == Head(toClient)
           d == [Invalidated(cache) EXCEPT !.values = v]
<1>1. /\ kind \in Kinds /\ direct \in BOOLEAN /\ cache \in Caches /\ Size \in {1, 2}
      /\ toClient \in Seq(Lines) /\ toClient # <<>>
  BY ObjectFacts DEF ValuesInv, LinesOK, LineComes
<1>2. v \in Lines
  BY <1>1, TailLast
<1>3. cache' = Told(d) /\ latest' = v /\ came' = "line"
  BY DEF LineComes, Take
<1> HIDE DEF v
<1>4. v \in Seq(Text) /\ Len(v) <= Size /\ v # <<>>
  BY <1>2 DEF Lines
<1>5. d \in Caches /\ d.values = v /\ Tells(d, v, "line")
  BY <1>1, <1>4, StoredTexts
<1> HIDE DEF d
<1>6. /\ cache' \in Caches /\ Tells(cache', v, "line")
      /\ Len(cache'.values) = Len(v) \/ Len(cache'.values) = 1
      /\ Filled(cache').values = Filled(d).values
  BY <1>1, <1>3, <1>4, <1>5, ToldTells
<1>7. Len(cache'.values) <= Size
  <2>1. CASE Len(cache'.values) = Len(v)
    BY <1>4, <2>1
  <2>2. CASE Len(cache'.values) = 1
    BY <1>1, <2>2
  <2>3. QED
    BY <1>6, <2>1, <2>2
<1>8. Filled(cache').values = v
  <2>1. Filled(d).values = v
    BY <1>1, <1>4, <1>5, FilledFields
  <2>2. QED
    BY <1>6, <2>1
<1>9. QED
  BY <1>3, <1>4, <1>6, <1>7, <1>8 DEF Object, v

LEMMA DatagramObject ==
  ASSUME ValuesInv, NEW x \in air, DatagramComes(x)
  PROVE  Object(cache', latest', came')
<1> DEFINE d == CASE kind = "int"    -> [Invalidated(cache) EXCEPT !.int = x]
                  [] kind = "float"  -> [Invalidated(cache) EXCEPT !.float = x]
                  [] kind = "double" -> [Invalidated(cache) EXCEPT !.double = x]
<1>1. /\ kind \in Kinds /\ direct \in BOOLEAN /\ cache \in Caches /\ Size \in {1, 2}
      /\ udp /\ kind \in {"int", "float", "double"} /\ x \in Holdable
  BY ObjectFacts
<1>2. cache' = Told(d) /\ latest' = <<x>> /\ came' = "datagram"
  BY DEF DatagramComes, Take
<1>3. x \in Number
  BY <1>1, HoldableIsText
<1>4. Told(d) \in Caches /\ Len(Told(d).values) <= 1 /\ Tells(Told(d), <<x>>, "datagram")
  BY <1>1, <1>3, DatagramTells
<1>5. <<x>> \in Seq(Text)
  BY <1>3, NumbersOfKind, <1>1
<1> HIDE DEF d
<1>6. Len(cache'.values) <= Size
  <2>1. Len(cache'.values) \in Nat
    BY <1>2, <1>4, LenProperties DEF Caches
  <2>2. QED
    BY <1>1, <1>2, <1>4, <2>1
<1>7. QED
  BY <1>1, <1>2, <1>4, <1>5, <1>6 DEF Object

LEMMA SetObject ==
  ASSUME ValuesInv, NEW t \in Text, NEW i \in Elements, SetValue(t, i)
  PROVE  /\ Object(cache', latest', came')
         /\ cache' = WithElement(cache, t, i) /\ cache'.values # <<>> /\ Filled(cache') = cache'
         /\ cache'.values \in Seq(Text) /\ LineOf(cache') \in Seq(Text)
<1>1. kind \in Kinds /\ cache \in Caches /\ Len(cache.values) <= Size
  BY ObjectFacts
<1>2. cache' = WithElement(cache, t, i) /\ latest' = cache'.values /\ came' = "set"
  BY DEF SetValue
<1>3. /\ cache' \in Caches /\ cache'.values # <<>> /\ Len(cache'.values) <= Size
      /\ Tells(cache', cache'.values, "set")
  BY <1>1, <1>2, SetTells
<1>4. cache'.values \in Seq(Text)
  BY <1>3 DEF Caches
<1>5. Filled(cache') = cache'
  BY <1>1, <1>3, FilledFields
<1>6. LineOf(cache') \in Seq(Text)
  BY <1>1, <1>3, LineTexts DEF Readable
<1>7. QED
  BY <1>2, <1>3, <1>4, <1>5, <1>6 DEF Object

LEMMA ListObject ==
  ASSUME ValuesInv, NEW list, SetValues(list)
  PROVE  Object(cache', latest', came') /\ LineOf(cache') = <<>>
<1> DEFINE e == Invalidated([cache EXCEPT !.values = list])
<1>1. kind \in Kinds /\ kind = "array" /\ cache \in Caches /\ Size \in {1, 2} /\ Blank \in Text
  BY ObjectFacts DEF SetValues, Text
<1>2. cache' = Filled(e) /\ latest' = <<Blank>> /\ came' = "set"
  BY DEF SetValues
<1>3. e \in [values : {<<>>}, int : {Nothing}, float : {Nothing}, double : {Nothing}]
  BY <1>1 DEF Invalidated, Caches
<1>4. e \in Caches
  <2>1. <<>> \in Seq(Text)
    OBVIOUS
  <2>2. QED
    BY <1>3, <2>1 DEF Caches
<1>5. e.values = <<>> /\ ValueString(e) = Blank
  BY <1>3 DEF ValueString
<1> HIDE DEF e
<1>6. /\ cache' \in Caches /\ cache'.values = <<Blank>>
      /\ cache'.int = Nothing /\ cache'.float = Nothing /\ cache'.double = Nothing
  BY <1>1, <1>2, <1>3, <1>4, <1>5, FilledFields DEF Readable
<1>7. <<Blank>> \in Seq(Text) /\ Len(<<Blank>>) = 1 /\ <<Blank>> # <<>> /\ <<Blank>>[1] = Blank
  BY <1>1
<1>8. Tells(cache', <<Blank>>, "set")
  <2>1. Value(cache') = Blank
    BY <1>1, <1>6, <1>7, FilledFields
  <2>2. Value(cache') \in Shown(Blank, "set") /\ NumbersOf(cache', Blank, "set")
    BY <1>6, <1>7, <2>1 DEF Shown, NumbersOf, By
  <2>3. QED
    BY <1>6, <1>7, <2>2 DEF Tells
<1>9. Len(cache'.values) <= Size
  <2>1. Len(cache'.values) = 1
    BY <1>6, <1>7
  <2>2. QED
    BY <1>1, <2>1
<1>10. LineOf(cache') = <<>>
  <2>1. Filled(cache').values = <<Blank>>
    BY <1>1, <1>6, <1>7, FilledFields
  <2>2. QED
    BY <1>1, <2>1 DEF LineOf
<1>11. QED
  BY <1>2, <1>6, <1>7, <1>8, <1>9, <1>10 DEF Object

-----------------------------------------------------------------------------
(* What is under way *)

\* The kind and modifiers never change, nor what depends on them.
LEMMA KindStays ==
  ASSUME UNCHANGED fixed
  PROVE  /\ kind' = kind /\ udp' = udp /\ writable' = writable /\ direct' = direct
         /\ Number' = Number /\ Word' = Word /\ Text' = Text /\ Elements' = Elements
         /\ Holdable' = Holdable /\ Caches' = Caches /\ Size' = Size /\ Lines' = Lines
<1>1. kind' = kind /\ udp' = udp /\ writable' = writable /\ direct' = direct
  BY DEF fixed
<1>2. Number' = Number /\ Word' = Word /\ Elements' = Elements /\ Size' = Size
  BY <1>1 DEF Number, Word, Elements, Size
<1>3. Text' = Text
  BY <1>2 DEF Text
<1>4. Caches' = Caches /\ Lines' = Lines
  BY <1>2, <1>3 DEF Caches, Lines
<1>5. Holdable' = Holdable
  BY <1>1, <1>2, <1>3 DEF Holdable, Stored, Takes
<1>6. QED
  BY <1>1, <1>2, <1>3, <1>4, <1>5

\* The parts of the invariant that are no more than the types and the object.
LEMMA PartsKept ==
  ASSUME ValuesInv, UNCHANGED fixed, Object(cache', latest', came'),
         connected' \in BOOLEAN, subscribed' \in BOOLEAN, refused' \in BOOLEAN,
         hidden' \in BOOLEAN, object' \in [valid : BOOLEAN, whole : BOOLEAN, ready : BOOLEAN],
         toServer' \in Seq(Seq(Text)), toClient' \in Seq(Lines),
         air' \subseteq Holdable, air' # {} => udp, sim' \in [Elements -> Holdable],
         wanted' \in [Elements -> Text \cup {Nothing}]
  PROVE  /\ ValuesTypeOK' /\ Tells(cache, latest, came)' /\ DatagramsOK'
         /\ (Len(cache.values) <= Size)'
<1>1. /\ kind' = kind /\ udp' = udp /\ writable' = writable /\ direct' = direct
      /\ Number' = Number /\ Text' = Text /\ Elements' = Elements
      /\ Holdable' = Holdable /\ Size' = Size
  BY KindStays
<1>2. kind \in Kinds /\ udp \in BOOLEAN /\ writable \in BOOLEAN /\ direct \in BOOLEAN
  BY DEF ValuesInv, ValuesTypeOK
<1>3. /\ cache' \in Caches /\ latest' \in Seq(Text) /\ came' \in {"line", "datagram", "set"}
      /\ Tells(cache', latest', came') /\ Len(cache'.values) <= Size
      /\ came' = "datagram" => udp
  BY DEF Object
<1>4. toClient' \in Seq(Seq(Text))
  BY LinesAreTexts
<1>5. ValuesTypeOK'
  BY <1>1, <1>2, <1>3, <1>4 DEF ValuesTypeOK, Caches
<1>6. Tells(cache, latest, came)'
  BY <1>1, <1>3
     DEF Tells, Shown, NumbersOf, By, FloatOf, DoubleOf, IntOf, Value, Filled, ValueString, ToNumber
<1>7. DatagramsOK'
  BY <1>1, <1>3 DEF ValuesInv, DatagramsOK
<1>8. QED
  BY <1>1, <1>3, <1>5, <1>6, <1>7

\* What remains to be shown of a step for the last two parts.
LEMMA EchoesThen ==
  ASSUME UNCHANGED fixed,
         subscribed' /\ ~udp /\ object'.whole /\ ~hidden' =>
           /\ toClient' # <<>> => toClient'[Len(toClient')] = Texts(sim')
           /\ toClient' = <<>> /\ ~refused' =>
                \/ Filled(cache').values = Texts(sim')
                \/ SetUnderWay' /\ LastSet' = Filled(cache').values
  PROVE  EchoesOK'
<1>1. Filled(cache)' = Filled(cache')
  BY DEF Filled, ValueString
<1>2. Texts(sim)' = Texts(sim')
  BY KindStays DEF Texts
<1>3. udp' = udp
  BY KindStays
<1>4. QED
  BY <1>1, <1>2, <1>3 DEF EchoesOK

LEMMA SetsThen ==
  ASSUME UNCHANGED fixed,
         \A i \in Elements : wanted'[i] # Nothing =>
           /\ connected' /\ writable /\ Takes(wanted'[i])
           /\ ~SetUnderWay' => sim'[i] = Stored(wanted'[i])
           /\ SetUnderWay' => Len(LastSet') = Size /\ LastSet'[i] = wanted'[i]
  PROVE  SetsOK'
<1>1. /\ kind' = kind /\ writable' = writable /\ Elements' = Elements /\ Size' = Size
      /\ Number' = Number /\ Word' = Word
  BY KindStays
<1>2. \A i : Takes(wanted[i])' = Takes(wanted'[i]) /\ Stored(wanted[i])' = Stored(wanted'[i])
  BY <1>1 DEF Takes, Stored
<1>3. QED
  BY <1>1, <1>2 DEF SetsOK

\* The program's end of the wire: a line of a set is the last.
LEMMA LineAppended ==
  ASSUME ValuesInv, NEW line \in Seq(Text), line # <<>>, connected,
         toServer' = Append(toServer, line), UNCHANGED <<fixed, connected, subscribed, toClient>>
  PROVE  LinesOK' /\ SetUnderWay' /\ LastSet' = line
<1>1. toServer \in Seq(Seq(Text)) /\ LinesOK
  BY DEF ValuesInv, ValuesTypeOK
<1>2. /\ toServer' \in Seq(Seq(Text)) /\ toServer' # <<>>
      /\ Len(toServer) \in Nat /\ Len(toServer') = Len(toServer) + 1
      /\ toServer'[Len(toServer')] = line
      /\ \A k \in 1..Len(toServer) : toServer'[k] = toServer[k]
      /\ toServer = <<>> => Len(toServer) = 0
  BY <1>1, AppendLast
<1>3. SetUnderWay' /\ LastSet' = line
  BY <1>2 DEF SetUnderWay, LastSet
<1>4. connected' /\ ~subscribed' => toServer' # <<>> /\ toServer'[1] = <<>>
  <2>1. ASSUME ~subscribed PROVE toServer'[1] = <<>>
    <3>1. toServer # <<>> /\ toServer[1] = <<>>
      BY <1>1, <2>1 DEF LinesOK
    <3>2. 1 \in 1..Len(toServer)
      BY <1>1, <1>2, <3>1, EmptySeq
    <3>3. QED
      BY <1>2, <3>1, <3>2
  <2>2. QED
    BY <1>2, <2>1
<1>5. \A k \in 1..Len(toServer') : toServer'[k] = <<>> => k = 1 /\ ~subscribed'
  <2> SUFFICES ASSUME NEW k \in 1..Len(toServer'), toServer'[k] = <<>>
               PROVE  k = 1 /\ ~subscribed'
    OBVIOUS
  <2>1. k # Len(toServer')
    BY <1>2
  <2>2. k \in 1..Len(toServer)
    BY <1>2, <2>1
  <2>3. QED
    BY <1>1, <1>2, <2>2 DEF LinesOK
<1>6. toClient' \in Seq(Lines)'
  BY <1>1, KindStays DEF LinesOK
<1>7. QED
  BY <1>3, <1>4, <1>5, <1>6 DEF LinesOK

\* The plugin's end of the wire: sub is first, and behind it there are only sets.
LEMMA LineTaken ==
  ASSUME ValuesInv, toServer # <<>>, toServer' = Tail(toServer), connected' = connected,
         Head(toServer) = <<>> => subscribed' = TRUE,
         Head(toServer) # <<>> => subscribed' = subscribed,
         toClient' \in Seq(Lines), UNCHANGED fixed
  PROVE  /\ LinesOK' /\ connected /\ subscribed' = TRUE /\ toServer' \in Seq(Seq(Text))
         /\ Head(toServer) # <<>> => subscribed
         /\ Tail(toServer) # <<>> => SetUnderWay /\ SetUnderWay' /\ LastSet' = LastSet
         /\ Tail(toServer) = <<>> => ~SetUnderWay' /\ LastSet = Head(toServer)
<1>1. toServer \in Seq(Seq(Text)) /\ LinesOK /\ subscribed \in BOOLEAN
  BY DEF ValuesInv, ValuesTypeOK
<1>2. /\ Head(toServer) = toServer[1] /\ Len(toServer) \in Nat \ {0}
      /\ Tail(toServer) \in Seq(Seq(Text)) /\ Len(Tail(toServer)) \in Nat
      /\ \A k \in 1..Len(Tail(toServer)) :
           Tail(toServer)[k] = toServer[k + 1] /\ k + 1 \in 1..Len(toServer)
      /\ Tail(toServer) # <<>> =>
           Tail(toServer)[Len(Tail(toServer))] = toServer[Len(toServer)] /\ Len(toServer) # 1
      /\ Tail(toServer) = <<>> => Head(toServer) = toServer[Len(toServer)]
  BY <1>1, TailLast
<1>3. connected
  BY <1>1 DEF LinesOK
<1>4. Head(toServer) # <<>> => subscribed
  BY <1>1, <1>2, <1>3 DEF LinesOK
<1>5. subscribed' = TRUE
  BY <1>1, <1>4
<1>6. ASSUME NEW k \in 1..Len(Tail(toServer)) PROVE Tail(toServer)[k] # <<>>
  <2>1. k + 1 # 1 /\ k + 1 \in 1..Len(toServer) /\ Tail(toServer)[k] = toServer[k + 1]
    BY <1>2
  <2>2. QED
    BY <1>1, <2>1 DEF LinesOK
<1>7. LinesOK'
  BY <1>3, <1>5, <1>6, KindStays DEF LinesOK
<1>8. ASSUME Tail(toServer) # <<>> PROVE SetUnderWay /\ SetUnderWay' /\ LastSet' = LastSet
  <2>1. toServer[Len(toServer)] # <<>>
    <3>1. Len(toServer) \in 1..Len(toServer) /\ Len(toServer) # 1
      BY <1>2, <1>8
    <3>2. QED
      BY <1>1, <3>1 DEF LinesOK
  <2>2. QED
    BY <1>2, <1>8, <2>1 DEF SetUnderWay, LastSet
<1>9. Tail(toServer) = <<>> => ~SetUnderWay' /\ LastSet = Head(toServer)
  BY <1>2 DEF SetUnderWay, LastSet
<1>10. QED
  BY <1>2, <1>3, <1>4, <1>5, <1>7, <1>8, <1>9

-----------------------------------------------------------------------------
(* The actions of the program *)

\* Reads, updates and lost datagrams leave the wire to the plugin and its value alone.
LEMMA UpdateStep ==
  ASSUME ValuesInv, UNCHANGED fixed, Object(cache', latest', came'),
         UNCHANGED <<connected, toServer, subscribed, object, sim, hidden, wanted>>,
         air' \subseteq air, refused' \in BOOLEAN, toClient' \in Seq(Lines),
         ~connected => toClient' = <<>>, EchoesOK'
  PROVE  ValuesInv'
<1>1. /\ connected \in BOOLEAN /\ subscribed \in BOOLEAN /\ toServer \in Seq(Seq(Text))
      /\ sim \in [Elements -> Holdable] /\ wanted \in [Elements -> Text \cup {Nothing}]
      /\ object \in [valid : BOOLEAN, whole : BOOLEAN, ready : BOOLEAN] /\ hidden \in BOOLEAN
      /\ air \subseteq Holdable
  BY DEF ValuesInv, ValuesTypeOK
<1>2. air' # {} => udp
  BY DEF ValuesInv, DatagramsOK
<1>3. /\ ValuesTypeOK' /\ Tells(cache, latest, came)' /\ DatagramsOK'
      /\ (Len(cache.values) <= Size)'
  BY <1>1, <1>2, PartsKept
<1>4. LinesOK'
  BY KindStays DEF ValuesInv, LinesOK
<1>5. ObjectOK'
  BY KindStays DEF ValuesInv, ObjectOK, New, Served
<1>6. SetsOK'
  BY SetsThen DEF ValuesInv, SetsOK, SetUnderWay, LastSet
<1>7. QED
  BY <1>3, <1>4, <1>5, <1>6 DEF ValuesInv

\* The program reads.
LEMMA ReadStep == ValuesInv /\ Read => ValuesInv'
<1> SUFFICES ASSUME ValuesInv, Read PROVE ValuesInv'
  OBVIOUS
<1>1. Object(cache', latest', came') /\ (~udp => Filled(cache').values = Filled(cache).values)
  BY ReadObject
<1>2. UNCHANGED <<fixed, connected, toServer, subscribed, object, sim, hidden, wanted, air,
                  toClient, refused>>
  BY DEF Read, server
<1>3. refused \in BOOLEAN /\ toClient \in Seq(Lines) /\ (~connected => toClient = <<>>)
  BY DEF ValuesInv, ValuesTypeOK, LinesOK
<1>4. EchoesOK'
  BY <1>1, <1>2, EchoesThen DEF ValuesInv, EchoesOK, SetUnderWay, LastSet
<1>5. QED
  BY <1>1, <1>2, <1>3, <1>4, UpdateStep

\* A line of the plugin has its value, if it is the last.
LEMMA UpdateLineStep == ValuesInv /\ LineComes => ValuesInv'
<1> SUFFICES ASSUME ValuesInv, LineComes PROVE ValuesInv'
  OBVIOUS
<1>1. Object(cache', latest', came') /\ Filled(cache').values = Head(toClient)
  BY LineObject
<1>2. /\ UNCHANGED <<fixed, connected, toServer, subscribed, object, sim, hidden, wanted, air>>
      /\ toClient # <<>> /\ toClient' = Tail(toClient) /\ refused' = FALSE
  BY DEF LineComes, Take
<1>3. toClient \in Seq(Lines) /\ connected
  BY <1>2 DEF ValuesInv, LinesOK
<1>4. /\ toClient' \in Seq(Lines)
      /\ toClient' # <<>> => toClient'[Len(toClient')] = toClient[Len(toClient)]
      /\ toClient' = <<>> => Head(toClient) = toClient[Len(toClient)]
  BY <1>2, <1>3, TailLast
<1>5. EchoesOK'
  <2>1. subscribed /\ ~udp /\ object.whole /\ ~hidden => toClient[Len(toClient)] = Texts(sim)
    BY <1>2 DEF ValuesInv, EchoesOK
  <2>2. QED
    BY <1>1, <1>2, <1>4, <2>1, EchoesThen
<1>6. QED
  BY <1>1, <1>2, <1>3, <1>4, <1>5, UpdateStep

\* A datagram comes, or is lost.
LEMMA DatagramStep ==
  ASSUME ValuesInv, NEW x \in air, DatagramComes(x) \/ DatagramIsLost(x)
  PROVE  ValuesInv'
<1>1. udp /\ refused \in BOOLEAN /\ toClient \in Seq(Lines) /\ (~connected => toClient = <<>>)
  BY DEF ValuesInv, ValuesTypeOK, LinesOK, DatagramsOK
<1>2. Object(cache', latest', came')
  <2>1. CASE DatagramComes(x)
    BY <2>1, DatagramObject
  <2>2. CASE DatagramIsLost(x)
    BY <2>2, ObjectFacts DEF DatagramIsLost, client, Object
  <2>3. QED
    BY <2>1, <2>2
<1>3. /\ UNCHANGED <<fixed, connected, toServer, subscribed, object, sim, hidden, wanted, toClient>>
      /\ air' \subseteq air /\ (refused' = FALSE \/ refused' = refused)
  BY DEF DatagramComes, DatagramIsLost, Take, client
<1>4. EchoesOK'
  BY <1>1, <1>3, EchoesThen
<1>5. QED
  BY <1>1, <1>2, <1>3, <1>4, UpdateStep

\* The program sets: its line is the last under way.
LEMMA SetStep ==
  ASSUME ValuesInv, NEW t \in Text, NEW i \in Elements, SetValue(t, i)
  PROVE  ValuesInv'
<1> DEFINE c == WithElement(cache, t, i)
           line == LineOf(c)
<1>1. /\ Object(cache', latest', came') /\ cache' = c /\ c.values # <<>> /\ Filled(c) = c
      /\ c.values \in Seq(Text) /\ line \in Seq(Text)
  BY SetObject
<1>2. /\ WriteLine(line) /\ wanted' = Expected(c, i) /\ refused' = (refused \/ line = <<>>)
      /\ UNCHANGED <<fixed, connected, subscribed, object, sim, hidden, toClient, air>>
  BY DEF SetValue, server
<1>3. /\ kind \in Kinds /\ connected \in BOOLEAN /\ subscribed \in BOOLEAN
      /\ refused \in BOOLEAN /\ toServer \in Seq(Seq(Text)) /\ air \subseteq Holdable
      /\ object \in [valid : BOOLEAN, whole : BOOLEAN, ready : BOOLEAN] /\ hidden \in BOOLEAN
      /\ toClient \in Seq(Lines) /\ sim \in [Elements -> Holdable]
      /\ (~connected => toClient = <<>>) /\ (air # {} => udp) /\ LinesOK
  BY DEF ValuesInv, ValuesTypeOK, LinesOK, DatagramsOK
<1>4. line = c.values \/ (line = <<>> /\ c.values = <<Blank>> /\ kind # "text")
  BY <1>1 DEF LineOf
<1> HIDE DEF c, line
<1>5. /\ toServer' \in Seq(Seq(Text))
      /\ connected /\ line # <<>> => toServer' = Append(toServer, line)
      /\ ~(connected /\ line # <<>>) => toServer' = toServer
  BY <1>1, <1>2, <1>3, Written
<1>6. Len(sim) = Size
  BY <1>3, HoldableIsText, TextsAreLine
<1>7. \A j \in Elements :
        /\ wanted'[j] # Nothing =>
             /\ connected /\ writable /\ Len(c.values) = Size
             /\ Takes(c.values[j]) /\ wanted'[j] = c.values[j]
  BY <1>2, <1>6 DEF Expected
<1>8. wanted' \in [Elements -> Text \cup {Nothing}]
  <2>1. \A j \in Elements : Len(c.values) = Size => c.values[j] \in Text
    <3>1. Elements \subseteq 1..Size
      BY DEF Elements, Size
    <3>2. QED
      BY <1>1, <3>1, ElementOfSeq
  <2>2. \A j \in Elements : wanted'[j] \in Text \cup {Nothing}
    BY <1>7, <2>1
  <2>3. QED
    BY <1>2, <2>2 DEF Expected
<1>9. /\ ValuesTypeOK' /\ Tells(cache, latest, came)' /\ DatagramsOK'
      /\ (Len(cache.values) <= Size)'
  <2>1. refused' \in BOOLEAN
    BY <1>2, <1>3
  <2>2. QED
    BY <1>1, <1>2, <1>3, <1>5, <1>8, <2>1, PartsKept
<1>10. /\ LinesOK'
       /\ connected /\ line # <<>> => SetUnderWay' /\ LastSet' = line
  <2>1. CASE connected /\ line # <<>>
    BY <1>1, <1>2, <1>5, <2>1, LineAppended
  <2>2. CASE ~(connected /\ line # <<>>)
    BY <1>2, <1>3, <1>5, <2>2, KindStays DEF LinesOK
  <2>3. QED
    BY <2>1, <2>2
<1>11. EchoesOK'
  <2> SUFFICES ASSUME subscribed, ~udp, object.whole, ~hidden
               PROVE  /\ toClient # <<>> => toClient[Len(toClient)] = Texts(sim)
                      /\ toClient = <<>> /\ ~refused' =>
                           SetUnderWay' /\ LastSet' = Filled(cache').values
    BY <1>2, EchoesThen
  <2>1. toClient # <<>> => toClient[Len(toClient)] = Texts(sim)
    BY DEF ValuesInv, EchoesOK
  <2>2. connected
    BY <1>3 DEF LinesOK
  <2>3. ~refused' => line # <<>> /\ line = Filled(cache').values
    BY <1>1, <1>2, <1>4
  <2>4. QED
    BY <1>10, <2>1, <2>2, <2>3
<1>12. SetsOK'
  <2> SUFFICES ASSUME NEW j \in Elements, wanted'[j] # Nothing
               PROVE  /\ connected' /\ writable /\ Takes(wanted'[j]) /\ SetUnderWay'
                      /\ Len(LastSet') = Size /\ LastSet'[j] = wanted'[j]
    BY <1>2, SetsThen
  <2>1. /\ connected /\ writable /\ Len(c.values) = Size
        /\ Takes(c.values[j]) /\ wanted'[j] = c.values[j]
    BY <1>7
  <2>2. line = c.values
    <3>1. ASSUME c.values = <<Blank>>, kind # "text" PROVE FALSE
      <4>1. Len(c.values) = 1
        BY <3>1
      <4>2. kind # "array"
        <5>1. Size = 1
          BY <2>1, <4>1
        <5>2. kind = "array" => Size = 2
          BY DEF Size
        <5>3. QED
          BY <5>1, <5>2
      <4>3. j = 1
        BY <4>2 DEF Elements
      <4>4. c.values[j] = Blank
        BY <3>1, <4>3
      <4>5. QED
        BY <1>3, <2>1, <3>1, <4>4, HoldableIsText
    <3>2. QED
      BY <1>4, <3>1
  <2>3. QED
    BY <1>1, <1>2, <1>10, <2>1, <2>2
<1>13. ObjectOK'
  BY <1>2, KindStays DEF ValuesInv, ObjectOK, New, Served
<1>14. QED
  BY <1>9, <1>10, <1>11, <1>12, <1>13 DEF ValuesInv

\* setValues leaves nothing to be sent.
LEMMA ListStep ==
  ASSUME ValuesInv, NEW list, SetValues(list)
  PROVE  ValuesInv'
<1>1. Object(cache', latest', came') /\ LineOf(cache') = <<>>
  BY ListObject
<1>2. /\ WriteLine(LineOf(cache')) /\ refused' = TRUE
      /\ UNCHANGED <<fixed, connected, subscribed, object, sim, hidden, toClient, air, wanted>>
  BY DEF SetValues, server
<1>3. toServer' = toServer
  BY <1>1, <1>2 DEF WriteLine
<1>4. toClient \in Seq(Lines) /\ (~connected => toClient = <<>>)
  BY DEF ValuesInv, LinesOK
<1>5. EchoesOK'
  BY <1>2, EchoesThen DEF ValuesInv, EchoesOK
<1>6. QED
  BY <1>1, <1>2, <1>3, <1>4, <1>5, UpdateStep

-----------------------------------------------------------------------------
(* The actions of the plugin and the connection *)

\* They leave the program's object alone.
LEMMA ServerStep ==
  ASSUME ValuesInv, UNCHANGED <<fixed, client>>,
         connected' \in BOOLEAN, subscribed' \in BOOLEAN, refused' \in BOOLEAN,
         hidden' \in BOOLEAN, object' \in [valid : BOOLEAN, whole : BOOLEAN, ready : BOOLEAN],
         toServer' \in Seq(Seq(Text)), toClient' \in Seq(Lines),
         air' \subseteq Holdable, air' # {} => air # {} \/ udp, sim' \in [Elements -> Holdable],
         wanted' \in [Elements -> Text \cup {Nothing}],
         LinesOK', ObjectOK', SetsOK',
         subscribed' /\ ~udp /\ object'.whole /\ ~hidden' =>
           /\ toClient' # <<>> => toClient'[Len(toClient')] = Texts(sim')
           /\ toClient' = <<>> /\ ~refused' =>
                \/ Filled(cache).values = Texts(sim')
                \/ SetUnderWay' /\ LastSet' = Filled(cache).values
  PROVE  ValuesInv'
<1>1. cache' = cache /\ latest' = latest /\ came' = came
  BY DEF client
<1>2. Object(cache', latest', came')
  BY <1>1, ObjectFacts DEF Object
<1>3. air' # {} => udp
  BY DEF ValuesInv, DatagramsOK
<1>4. /\ ValuesTypeOK' /\ Tells(cache, latest, came)' /\ DatagramsOK'
      /\ (Len(cache.values) <= Size)'
  BY <1>2, <1>3, PartsKept
<1>5. EchoesOK'
  BY <1>1, EchoesThen
<1>6. QED
  BY <1>4, <1>5 DEF ValuesInv

\* What the plugin writes of the simulator's value is a line.
LEMMA PluginsLines ==
  ASSUME kind \in Kinds
  PROVE  /\ \A v \in [Elements -> Holdable] :
              Texts(v) \in Lines /\ Len(v) = Size /\ v[1] \in Holdable
         /\ \A t \in Text : <<t>> \in Lines
<1>1. ASSUME NEW v \in [Elements -> Holdable]
      PROVE  Texts(v) \in Lines /\ Len(v) = Size /\ v[1] \in Holdable
  <2>1. Texts(v) \in Lines
    BY HoldableIsText, TextsAreLine
  <2>2. v \in [Elements -> Text] /\ 1 \in Elements
    BY HoldableIsText DEF Elements
  <2>3. QED
    BY <2>1, <2>2, TextsAreLine
<1>2. ASSUME NEW t \in Text PROVE <<t>> \in Lines
  <2>1. <<t>> \in Seq(Text) /\ <<t>> # <<>> /\ Len(<<t>>) = 1
    OBVIOUS
  <2>2. 1 <= Size
    BY DEF Size
  <2>3. QED
    BY <2>1, <2>2 DEF Lines
<1>3. QED
  BY <1>1, <1>2

\* A flight loop: what is new is told, and a change in the simulator ends what the program
\* could expect of a set.
LEMMA FlightLoopStep == ValuesInv /\ FlightLoop => ValuesInv'
<1> SUFFICES ASSUME ValuesInv, FlightLoop PROVE ValuesInv'
  OBVIOUS
<1> DEFINE news == ~object.valid \/ sim' # (IF object.whole THEN sim ELSE Blanked)
<1>1. /\ kind \in Kinds /\ udp \in BOOLEAN /\ connected \in BOOLEAN /\ subscribed \in BOOLEAN
      /\ refused \in BOOLEAN /\ hidden \in BOOLEAN /\ toServer \in Seq(Seq(Text))
      /\ air \subseteq Holdable /\ toClient \in Seq(Lines)
      /\ object \in [valid : BOOLEAN, whole : BOOLEAN, ready : BOOLEAN]
      /\ sim \in [Elements -> Holdable] /\ wanted \in [Elements -> Text \cup {Nothing}]
      /\ LinesOK /\ ObjectOK /\ EchoesOK /\ SetsOK
  BY DEF ValuesInv, ValuesTypeOK, LinesOK
<1>2. /\ wanted' = [i \in Elements |-> IF sim'[i] = sim[i] THEN wanted[i] ELSE Nothing]
      /\ UNCHANGED <<fixed, client, connected, toServer, subscribed, refused>>
      /\ sim' \in [Elements -> Holdable]
  <2>1. sim' \in [Elements -> Holdable]
    BY <1>1, HoldableIsText DEF FlightLoop
  <2>2. QED
    BY <2>1 DEF FlightLoop
<1>3. /\ Texts(sim') \in Lines /\ <<Blank>> \in Lines /\ sim'[1] \in Holdable
  BY <1>1, <1>2, NumbersOfKind, PluginsLines
<1>4. /\ New \in [valid : BOOLEAN, whole : BOOLEAN, ready : BOOLEAN]
      /\ Served \in [valid : BOOLEAN, whole : BOOLEAN, ready : BOOLEAN]
      /\ ~New.whole /\ Served.valid
  BY DEF New, Served
<1>5. /\ air' \subseteq Holdable /\ (air' # {} => air # {} \/ udp)
      /\ toClient' \in Seq(Lines) /\ (toClient' = toClient \/ subscribed)
      /\ hidden' \in BOOLEAN
      /\ object' \in [valid : BOOLEAN, whole : BOOLEAN, ready : BOOLEAN] /\ ObjectOK'
      /\ subscribed /\ ~udp /\ object'.whole /\ ~hidden' =>
           \/ toClient' # <<>> /\ toClient'[Len(toClient')] = Texts(sim')
           \/ toClient' = toClient /\ object.whole /\ ~hidden /\ sim' = sim
  <2>1. CASE Visit
    <3>1. news \in BOOLEAN
      OBVIOUS
    <3>2. /\ Emit(news, Texts(sim')) /\ object' = Served
          /\ hidden' = (~news /\ (hidden \/ ~object.whole))
      BY <2>1 DEF Visit
    <3> DEFINE line == Texts(sim')
    <3>3. ~news => (object.whole => sim' = sim)
      OBVIOUS
    <3> HIDE DEF news, line
    <3>4. /\ air' \subseteq Holdable /\ (air' # {} => air # {} \/ udp)
          /\ toClient' \in Seq(Lines) /\ (toClient' = toClient \/ subscribed)
          /\ subscribed /\ ~udp /\ news => toClient' = Append(toClient, line)
          /\ ~news => toClient' = toClient
          /\ Append(toClient, line) # <<>>
          /\ Append(toClient, line)[Len(Append(toClient, line))] = line
      BY <1>1, <1>3, <3>1, <3>2, Emitted DEF line
    <3>5. hidden' \in BOOLEAN /\ ObjectOK'
      BY <1>4, <3>1, <3>2, KindStays, <1>2 DEF ObjectOK, New, Served
    <3>6. QED
      BY <1>1, <1>4, <3>2, <3>3, <3>4, <3>5 DEF line
  <2>2. CASE VisitOverruns
    <3>1. /\ object.whole /\ Emit(TRUE, <<Blank>>) /\ hidden' = FALSE /\ ~object.ready
          /\ object' = [object EXCEPT !.whole = FALSE]
      BY <2>2 DEF VisitOverruns
    <3>2. /\ object' \in [valid : BOOLEAN, whole : BOOLEAN, ready : BOOLEAN] /\ ~object'.whole
      BY <1>1, <3>1
    <3>3. ObjectOK'
      <4>1. kind \in {"text", "array"}
        BY <1>1, <3>1 DEF ObjectOK, New, Served
      <4>2. QED
        BY <1>2, <3>2, <4>1, KindStays DEF ObjectOK
    <3>4. /\ air' \subseteq Holdable /\ (air' # {} => air # {} \/ udp)
          /\ toClient' \in Seq(Lines) /\ (toClient' = toClient \/ subscribed)
      BY <1>1, <1>3, <3>1, Emitted
    <3>5. QED
      BY <3>1, <3>2, <3>3, <3>4
  <2>3. CASE ~subscribed /\ object' = New /\ UNCHANGED <<toClient, air, hidden>>
    <3>1. ObjectOK'
      BY <2>3 DEF ObjectOK, New
    <3>2. QED
      BY <1>1, <1>4, <2>3, <3>1
  <2>4. QED
    BY <2>1, <2>2, <2>3 DEF FlightLoop
<1>6. wanted' \in [Elements -> Text \cup {Nothing}]
  BY <1>1, <1>2
<1>7. LinesOK'
  BY <1>1, <1>2, <1>5, KindStays DEF LinesOK
<1>8. SetsOK'
  <2> SUFFICES ASSUME NEW i \in Elements, wanted'[i] # Nothing
               PROVE  /\ connected /\ writable /\ Takes(wanted'[i])
                      /\ ~SetUnderWay => sim'[i] = Stored(wanted'[i])
                      /\ SetUnderWay => Len(LastSet) = Size /\ LastSet[i] = wanted'[i]
    BY <1>2, SetsThen DEF SetUnderWay, LastSet
  <2>1. sim'[i] = sim[i] /\ wanted'[i] = wanted[i] /\ wanted[i] # Nothing
    BY <1>2
  <2>2. QED
    BY <1>1, <2>1 DEF SetsOK
<1>9. subscribed' /\ ~udp /\ object'.whole /\ ~hidden' =>
        /\ toClient' # <<>> => toClient'[Len(toClient')] = Texts(sim')
        /\ toClient' = <<>> /\ ~refused' =>
             \/ Filled(cache).values = Texts(sim')
             \/ SetUnderWay' /\ LastSet' = Filled(cache).values
  <2> SUFFICES ASSUME subscribed, ~udp, object'.whole, ~hidden'
               PROVE  /\ toClient' # <<>> => toClient'[Len(toClient')] = Texts(sim')
                      /\ toClient' = <<>> /\ ~refused =>
                           \/ Filled(cache).values = Texts(sim')
                           \/ SetUnderWay /\ LastSet = Filled(cache).values
    BY <1>2 DEF SetUnderWay, LastSet
  <2>1. CASE toClient' # <<>> /\ toClient'[Len(toClient')] = Texts(sim')
    BY <2>1
  <2>2. CASE toClient' = toClient /\ object.whole /\ ~hidden /\ sim' = sim
    BY <1>1, <2>2 DEF EchoesOK
  <2>3. QED
    BY <1>5, <2>1, <2>2
<1>10. QED
  BY <1>1, <1>2, <1>5, <1>6, <1>7, <1>8, <1>9, ServerStep

\* The line sub is answered with the value of a valid object.
LEMMA SubStep == ValuesInv /\ SubIsRead => ValuesInv'
<1> SUFFICES ASSUME ValuesInv, SubIsRead PROVE ValuesInv'
  OBVIOUS
<1>1. /\ toServer # <<>> /\ Head(toServer) = <<>> /\ subscribed' = TRUE /\ hidden' = FALSE
      /\ toClient' = IF object.valid THEN Append(toClient, Texts(sim)) ELSE toClient
      /\ toServer' = Tail(toServer)
      /\ UNCHANGED <<fixed, client, connected, air, object, sim, refused, wanted>>
  BY DEF SubIsRead
<1>2. /\ kind \in Kinds /\ connected \in BOOLEAN /\ refused \in BOOLEAN
      /\ air \subseteq Holdable /\ toClient \in Seq(Lines)
      /\ object \in [valid : BOOLEAN, whole : BOOLEAN, ready : BOOLEAN]
      /\ sim \in [Elements -> Holdable] /\ wanted \in [Elements -> Text \cup {Nothing}]
      /\ ObjectOK /\ SetsOK
  BY DEF ValuesInv, ValuesTypeOK, LinesOK
<1>3. Texts(sim) \in Lines
  BY <1>2, PluginsLines
<1>4. /\ Append(toClient, Texts(sim)) \in Seq(Lines)
      /\ Append(toClient, Texts(sim)) # <<>>
      /\ Append(toClient, Texts(sim))[Len(Append(toClient, Texts(sim)))] = Texts(sim)
  BY <1>2, <1>3, AppendLast
<1>5. toClient' \in Seq(Lines)
  BY <1>1, <1>2, <1>4
<1>6. /\ LinesOK' /\ connected /\ toServer' \in Seq(Seq(Text))
      /\ Tail(toServer) # <<>> => SetUnderWay /\ SetUnderWay' /\ LastSet' = LastSet
      /\ Tail(toServer) = <<>> => ~SetUnderWay' /\ LastSet = Head(toServer)
  BY <1>1, <1>5, LineTaken
<1>7. SetsOK'
  <2> SUFFICES ASSUME NEW i \in Elements, wanted[i] # Nothing
               PROVE  /\ connected' /\ writable /\ Takes(wanted[i])
                      /\ ~SetUnderWay' => sim[i] = Stored(wanted[i])
                      /\ SetUnderWay' => Len(LastSet') = Size /\ LastSet'[i] = wanted[i]
    BY <1>1, SetsThen
  <2>1. CASE Tail(toServer) # <<>>
    BY <1>1, <1>2, <1>6, <2>1 DEF SetsOK
  <2>2. CASE Tail(toServer) = <<>>
    <3>1. ~SetUnderWay /\ ~SetUnderWay'
      BY <1>1, <1>6, <2>2 DEF SetUnderWay, LastSet
    <3>2. QED
      BY <1>1, <1>2, <3>1 DEF SetsOK
  <2>3. QED
    BY <2>1, <2>2
<1>8. ObjectOK'
  BY <1>1, <1>2, KindStays DEF ObjectOK, New, Served
<1>9. object'.whole => toClient' # <<>> /\ toClient'[Len(toClient')] = Texts(sim')
  BY <1>1, <1>2, <1>4 DEF ObjectOK
<1>10. QED
  BY <1>1, <1>2, <1>5, <1>6, <1>7, <1>8, <1>9, ServerStep

\* What a set that was read has done, whatever the kind of dataref.
Took(list) ==
  /\ sim' \in [Elements -> Holdable]
  /\ object' \in [valid : BOOLEAN, whole : BOOLEAN, ready : BOOLEAN] /\ ObjectOK'
  /\ hidden' \in BOOLEAN
  /\ air' \subseteq Holdable /\ (air' # {} => air # {} \/ udp)
  /\ toClient' \in Seq(Lines)
  /\ wanted' \in [Elements -> Text \cup {Nothing}]
  /\ \A i \in Elements : wanted'[i] # Nothing =>
       /\ wanted'[i] = wanted[i]
       /\ writable /\ Len(list) = Size /\ Takes(list[i]) => sim'[i] = Stored(list[i])
  /\ subscribed /\ ~udp /\ object'.whole /\ ~hidden' =>
       \/ toClient' # <<>> /\ toClient'[Len(toClient')] = Texts(sim')
       \/ toClient' = toClient /\ object.whole /\ ~hidden /\ sim' = sim

\* What the invariant says of the plugin, before a set is read.
PluginOK ==
  /\ kind \in Kinds /\ udp \in BOOLEAN /\ subscribed \in BOOLEAN /\ hidden \in BOOLEAN
  /\ air \subseteq Holdable /\ toClient \in Seq(Lines)
  /\ object \in [valid : BOOLEAN, whole : BOOLEAN, ready : BOOLEAN] /\ ObjectOK
  /\ sim \in [Elements -> Holdable] /\ wanted \in [Elements -> Text \cup {Nothing}]

\* One value is a list of one.
LEMMA OneValue ==
  ASSUME kind # "array", NEW x \in Holdable
  PROVE  /\ <<x>> \in [Elements -> Holdable] /\ <<x>>[1] = x /\ Elements = {1}
         /\ kind = "text" => Texts(<<x>>) = <<x>>
  BY DEF Elements, Texts

LEMMA NumberTaken ==
  ASSUME PluginOK, UNCHANGED fixed, kind \in {"int", "float", "double"},
         NEW list \in Seq(Text), list # <<>>, NumberIsSet(list[1])
  PROVE  Took(list)
<1> DEFINE t == list[1]
           news == Takes(t) /\ (~object.valid \/ sim' # sim)
           line == Texts(sim')
<1>1. /\ sim' = IF Takes(t) THEN <<Stored(t)>> ELSE IF object.valid THEN sim ELSE <<Placeholder>>
      /\ object' = IF Takes(t) THEN Served ELSE object
      /\ Emit(news, line) /\ hidden' = hidden /\ wanted' = wanted
  BY DEF NumberIsSet
<1>2. t \in Text
  BY EmptySeq, ElementOfSeq
<1>3. Placeholder \in Holdable /\ (Takes(t) => Stored(t) \in Holdable)
  BY <1>2, HoldableIsText DEF PluginOK
<1>4. Elements = {1} /\ sim' \in [Elements -> Holdable] /\ (Takes(t) => sim'[1] = Stored(t))
  BY <1>1, <1>3, OneValue DEF PluginOK
<1>5. line \in Lines /\ sim'[1] \in Holdable
  BY <1>4, PluginsLines DEF PluginOK
<1>6. news \in BOOLEAN /\ Takes(t) \in BOOLEAN
  BY DEF Takes
<1>7. ~news => (Takes(t) => object.valid /\ sim' = sim)
  OBVIOUS
<1> HIDE DEF t, news, line
<1>8. /\ air' \subseteq Holdable /\ (air' # {} => air # {} \/ udp)
      /\ toClient' \in Seq(Lines)
      /\ subscribed /\ ~udp /\ news => toClient' = Append(toClient, line)
      /\ ~news => toClient' = toClient
      /\ Append(toClient, line) # <<>>
      /\ Append(toClient, line)[Len(Append(toClient, line))] = line
  BY <1>1, <1>5, <1>6, Emitted DEF PluginOK
<1>9. object \in {New, Served} /\ object' \in {New, Served}
  BY <1>1 DEF PluginOK, ObjectOK
<1>10. object' \in [valid : BOOLEAN, whole : BOOLEAN, ready : BOOLEAN] /\ ObjectOK'
  <2>1. object' \in [valid : BOOLEAN, whole : BOOLEAN, ready : BOOLEAN]
    <3>1. /\ New \in [valid : BOOLEAN, whole : BOOLEAN, ready : BOOLEAN]
          /\ Served \in [valid : BOOLEAN, whole : BOOLEAN, ready : BOOLEAN]
      BY DEF New, Served
    <3>2. QED
      BY <1>9, <3>1
  <2>2. object'.whole => object'.valid
    BY <1>9 DEF New, Served
  <2>3. QED
    BY <1>9, <2>1, <2>2 DEF ObjectOK, New, Served
<1>11. subscribed /\ ~udp /\ object'.whole /\ ~hidden' =>
         \/ toClient' # <<>> /\ toClient'[Len(toClient')] = line
         \/ toClient' = toClient /\ object.whole /\ ~hidden /\ sim' = sim
  <2>1. CASE news
    BY <1>8, <2>1
  <2>2. CASE ~news
    <3>1. object'.whole => object.whole /\ sim' = sim
      BY <1>1, <1>7, <1>9, <2>2 DEF New, Served
    <3>2. QED
      BY <1>1, <1>8, <2>2, <3>1
  <2>3. QED
    BY <2>1, <2>2
<1>12. QED
  BY <1>1, <1>4, <1>8, <1>10, <1>11 DEF Took, PluginOK, t, line

LEMMA TextTaken ==
  ASSUME PluginOK, UNCHANGED fixed, kind = "text",
         NEW list \in Seq(Text), list # <<>>, TextIsSet(list[1])
  PROVE  Took(list)
<1> DEFINE t == list[1]
           line == <<t>>
<1>1. /\ sim' = <<Stored(t)>> /\ Emit(TRUE, line) /\ hidden' = FALSE /\ wanted' = wanted
      /\ object' = [object EXCEPT !.valid = TRUE, !.whole = (t \in FullLength)]
  BY DEF TextIsSet
<1>2. t \in Text
  BY EmptySeq, ElementOfSeq
<1>3. Stored(t) \in Holdable
  BY <1>2, HoldableIsText DEF PluginOK, Takes
<1>4. Elements = {1} /\ sim' \in [Elements -> Holdable] /\ sim'[1] = Stored(t)
      /\ Texts(sim') = <<Stored(t)>>
  BY <1>1, <1>3, OneValue
<1>5. line \in Lines /\ sim'[1] \in Holdable
  BY <1>2, <1>3, <1>4, PluginsLines DEF PluginOK
<1>6. t \in FullLength => Stored(t) = t
  BY WordsKept DEF PluginOK, Stored, Word
<1>7. (t \in FullLength) \in BOOLEAN
  OBVIOUS
<1> HIDE DEF t, line
<1>8. /\ air' \subseteq Holdable /\ (air' # {} => air # {} \/ udp)
      /\ toClient' \in Seq(Lines)
      /\ subscribed /\ ~udp => toClient' = Append(toClient, line)
      /\ Append(toClient, line) # <<>>
      /\ Append(toClient, line)[Len(Append(toClient, line))] = line
  BY <1>1, <1>5, Emitted DEF PluginOK
<1>9. /\ object' \in [valid : BOOLEAN, whole : BOOLEAN, ready : BOOLEAN]
      /\ object'.valid /\ object'.whole = (t \in FullLength)
  BY <1>1, <1>7 DEF PluginOK
<1>10. ObjectOK'
  BY <1>9, KindStays DEF ObjectOK
<1>11. subscribed /\ ~udp /\ object'.whole =>
         toClient' # <<>> /\ toClient'[Len(toClient')] = Texts(sim')
  BY <1>4, <1>6, <1>8, <1>9 DEF line
<1>12. QED
  BY <1>1, <1>4, <1>8, <1>9, <1>10, <1>11 DEF Took, PluginOK, t

LEMMA ListTaken ==
  ASSUME PluginOK, UNCHANGED fixed, kind = "array",
         NEW list \in Seq(Text), Len(list) = Size, ListIsSet(list)
  PROVE  Took(list)
<1>1. CASE object.whole
  <2> DEFINE news == sim' # sim
             line == Texts(sim')
  <2>1. /\ sim' = [i \in Elements |-> IF Takes(list[i]) THEN Stored(list[i]) ELSE sim[i]]
        /\ Emit(news, line) /\ hidden' = (hidden /\ sim' = sim)
        /\ object' = object /\ wanted' = wanted
    BY <1>1 DEF ListIsSet
  <2>2. \A i \in Elements : list[i] \in Text
    <3>1. Elements = 1..Size
      BY DEF Elements, Size
    <3>2. QED
      BY <3>1, ElementOfSeq
  <2>3. sim' \in [Elements -> Holdable]
    BY <2>1, <2>2, HoldableIsText DEF PluginOK
  <2>4. line \in Lines /\ sim'[1] \in Holdable /\ news \in BOOLEAN
    BY <2>3, PluginsLines DEF PluginOK
  <2>5. news \/ sim' = sim
    OBVIOUS
  <2> HIDE DEF news, line
  <2>6. /\ air' \subseteq Holdable /\ (air' # {} => air # {} \/ udp)
        /\ toClient' \in Seq(Lines)
        /\ subscribed /\ ~udp /\ news => toClient' = Append(toClient, line)
        /\ ~news => toClient' = toClient
        /\ Append(toClient, line) # <<>>
        /\ Append(toClient, line)[Len(Append(toClient, line))] = line
    BY <2>1, <2>4, Emitted DEF PluginOK
  <2>7. ObjectOK' /\ hidden' \in BOOLEAN
    BY <2>1, KindStays DEF PluginOK, ObjectOK
  <2>8. subscribed /\ ~udp /\ object'.whole /\ ~hidden' =>
          \/ toClient' # <<>> /\ toClient'[Len(toClient')] = line
          \/ toClient' = toClient /\ object.whole /\ ~hidden /\ sim' = sim
    <3>1. CASE news
      BY <2>6, <3>1
    <3>2. CASE ~news
      BY <1>1, <2>1, <2>5, <2>6, <3>2
    <3>3. QED
      BY <3>1, <3>2
  <2>9. QED
    BY <2>1, <2>3, <2>6, <2>7, <2>8 DEF Took, PluginOK, line
<1>2. CASE ~object.whole
  <2>1. /\ object' = [object EXCEPT !.valid = TRUE] /\ sim' = sim /\ hidden' = hidden
        /\ Emit(~object.valid, <<Blank>>) /\ wanted' = [i \in Elements |-> Nothing]
    BY <1>2 DEF ListIsSet
  <2>2. <<Blank>> \in Lines /\ sim'[1] \in Holdable /\ (~object.valid) \in BOOLEAN
    BY <2>1, NumbersOfKind, PluginsLines DEF PluginOK
  <2>3. /\ air' \subseteq Holdable /\ (air' # {} => air # {} \/ udp)
        /\ toClient' \in Seq(Lines)
    BY <2>1, <2>2, Emitted DEF PluginOK
  <2>4. /\ object' \in [valid : BOOLEAN, whole : BOOLEAN, ready : BOOLEAN]
        /\ ~object'.whole
    BY <1>2, <2>1 DEF PluginOK
  <2>5. ObjectOK'
    BY <2>4, KindStays DEF ObjectOK
  <2>6. QED
    BY <2>1, <2>3, <2>4, <2>5 DEF Took, PluginOK
<1>3. QED
  BY <1>1, <1>2

\* A set that is read, if it is the last under way, has its effect.
LEMMA SetReadStep == ValuesInv /\ SetIsRead => ValuesInv'
<1> SUFFICES ASSUME ValuesInv, SetIsRead PROVE ValuesInv'
  OBVIOUS
<1> DEFINE list == Head(toServer)
<1>1. /\ toServer # <<>> /\ list # <<>> /\ toServer' = Tail(toServer)
      /\ refused' = (refused \/ Texts(sim') # list)
      /\ UNCHANGED <<fixed, client, connected, subscribed>>
  BY DEF SetIsRead
<1>2. /\ PluginOK /\ connected \in BOOLEAN /\ refused \in BOOLEAN
      /\ toServer \in Seq(Seq(Text)) /\ EchoesOK /\ SetsOK
  BY DEF ValuesInv, ValuesTypeOK, LinesOK, PluginOK
<1>3. list \in Seq(Text)
  BY <1>1, <1>2, TailLast
<1>4. Len(sim) = Size
  BY <1>2, PluginsLines DEF PluginOK
<1>5. Took(list)
  <2>1. CASE writable /\ Len(list) = Size
    <3>1. kind \in {"int", "float", "double", "text", "array"}
      BY <1>2, KindsKnown DEF PluginOK
    <3>2. CASE kind = "text"
      BY <1>1, <1>2, <1>3, <1>4, <2>1, <3>2, TextTaken DEF SetIsRead
    <3>3. CASE kind = "array"
      BY <1>1, <1>2, <1>3, <1>4, <2>1, <3>3, ListTaken DEF SetIsRead
    <3>4. CASE kind \in {"int", "float", "double"}
      BY <1>1, <1>2, <1>3, <1>4, <2>1, <3>4, NumberTaken DEF SetIsRead
    <3>5. QED
      BY <3>1, <3>2, <3>3, <3>4
  <2>2. CASE ~(writable /\ Len(list) = Size)
    <3>1. UNCHANGED <<object, sim, hidden, toClient, air, wanted>>
      BY <1>4, <2>2 DEF SetIsRead
    <3>2. ObjectOK'
      BY <1>1, <1>2, <3>1, KindStays DEF PluginOK, ObjectOK, New, Served
    <3>3. QED
      BY <1>2, <2>2, <3>1, <3>2 DEF Took, PluginOK
  <2>3. QED
    BY <2>1, <2>2
<1> HIDE DEF list
<1>6. /\ sim' \in [Elements -> Holdable]
      /\ object' \in [valid : BOOLEAN, whole : BOOLEAN, ready : BOOLEAN] /\ ObjectOK'
      /\ hidden' \in BOOLEAN /\ air' \subseteq Holdable /\ (air' # {} => air # {} \/ udp)
      /\ toClient' \in Seq(Lines) /\ wanted' \in [Elements -> Text \cup {Nothing}]
  BY <1>5 DEF Took
<1>7. /\ LinesOK' /\ connected /\ subscribed /\ toServer' \in Seq(Seq(Text))
      /\ Tail(toServer) # <<>> => SetUnderWay /\ SetUnderWay' /\ LastSet' = LastSet
      /\ Tail(toServer) = <<>> => ~SetUnderWay' /\ LastSet = list
  BY <1>1, <1>6, LineTaken DEF list
<1>8. SetUnderWay
  BY <1>1, <1>7 DEF SetUnderWay, LastSet
<1>9. SetsOK'
  <2> SUFFICES ASSUME NEW i \in Elements, wanted'[i] # Nothing
               PROVE  /\ connected' /\ writable /\ Takes(wanted'[i])
                      /\ ~SetUnderWay' => sim'[i] = Stored(wanted'[i])
                      /\ SetUnderWay' => Len(LastSet') = Size /\ LastSet'[i] = wanted'[i]
    BY <1>1, SetsThen
  <2>1. /\ wanted'[i] = wanted[i]
        /\ writable /\ Len(list) = Size /\ Takes(list[i]) => sim'[i] = Stored(list[i])
    BY <1>5 DEF Took
  <2>2. /\ connected /\ writable /\ Takes(wanted[i])
        /\ Len(LastSet) = Size /\ LastSet[i] = wanted[i]
    BY <1>2, <1>8, <2>1 DEF SetsOK
  <2>3. CASE Tail(toServer) # <<>>
    BY <1>1, <1>7, <2>1, <2>2, <2>3
  <2>4. CASE Tail(toServer) = <<>>
    BY <1>1, <1>7, <2>1, <2>2, <2>4
  <2>5. QED
    BY <2>3, <2>4
<1>10. subscribed' /\ ~udp /\ object'.whole /\ ~hidden' =>
         /\ toClient' # <<>> => toClient'[Len(toClient')] = Texts(sim')
         /\ toClient' = <<>> /\ ~refused' =>
              \/ Filled(cache).values = Texts(sim')
              \/ SetUnderWay' /\ LastSet' = Filled(cache).values
  <2> SUFFICES ASSUME subscribed, ~udp, object'.whole, ~hidden'
               PROVE  /\ toClient' # <<>> => toClient'[Len(toClient')] = Texts(sim')
                      /\ toClient' = <<>> /\ ~refused' =>
                           \/ Filled(cache).values = Texts(sim')
                           \/ SetUnderWay' /\ LastSet' = Filled(cache).values
    BY <1>1
  <2>1. CASE toClient' # <<>> /\ toClient'[Len(toClient')] = Texts(sim')
    BY <2>1
  <2>2. CASE toClient' = toClient /\ object.whole /\ ~hidden /\ sim' = sim
    <3>1. /\ toClient # <<>> => toClient[Len(toClient)] = Texts(sim)
          /\ toClient = <<>> /\ ~refused =>
               \/ Filled(cache).values = Texts(sim)
               \/ SetUnderWay /\ LastSet = Filled(cache).values
      BY <1>2, <2>2 DEF EchoesOK
    <3>2. ~refused' => ~refused /\ Texts(sim') = list
      BY <1>1
    <3>3. Texts(sim') = Texts(sim)
      BY <2>2
    <3>4. QED
      BY <1>7, <2>2, <3>1, <3>2, <3>3
  <2>3. QED
    BY <1>5, <2>1, <2>2 DEF Took
<1>11. refused' \in BOOLEAN
  BY <1>1, <1>2
<1>12. QED
  BY <1>1, <1>2, <1>6, <1>7, <1>9, <1>10, <1>11, ServerStep

\* A connection comes with sub alone, and goes with its lines.
LEMMA ConnectionStep == ValuesInv /\ (Handshake \/ ConnectionEnds) => ValuesInv'
<1> SUFFICES ASSUME ValuesInv, Handshake \/ ConnectionEnds PROVE ValuesInv'
  OBVIOUS
<1>1. /\ connected \in BOOLEAN /\ refused \in BOOLEAN /\ PluginOK /\ LinesOK /\ SetsOK
  BY DEF ValuesInv, ValuesTypeOK, PluginOK, LinesOK
<1>2. /\ <<>> \in Seq(Seq(Text)) /\ <<>> \in Seq(Lines) /\ Len(<<>>) = 0
      /\ <<<<>>>> \in Seq(Seq(Text)) /\ Len(<<<<>>>>) = 1 /\ <<<<>>>>[1] = <<>> /\ <<<<>>>> # <<>>
  <2>1. <<>> \in Seq(Text)
    OBVIOUS
  <2>2. QED
    BY <2>1
<1>3. CASE Handshake
  <2>1. /\ connected' = TRUE /\ toServer' = <<<<>>>> /\ ~connected
        /\ UNCHANGED <<fixed, client, subscribed, object, sim, hidden, toClient, air, refused,
                       wanted>>
    BY <1>3 DEF Handshake, server
  <2>2. ~subscribed'
    BY <1>1, <2>1 DEF LinesOK
  <2>3. LinesOK'
    <3>1. \A k \in 1..1 : k = 1
      OBVIOUS
    <3>2. QED
      BY <1>1, <1>2, <2>1, <2>2, <3>1, KindStays DEF LinesOK
  <2>4. SetsOK'
    <3>1. \A i \in Elements : wanted'[i] = Nothing
      BY <1>1, <2>1 DEF SetsOK
    <3>2. QED
      BY <2>1, <3>1, SetsThen
  <2>5. ObjectOK'
    BY <1>1, <2>1, KindStays DEF PluginOK, ObjectOK, New, Served
  <2>6. QED
    BY <1>1, <1>2, <2>1, <2>2, <2>3, <2>4, <2>5, ServerStep DEF PluginOK
<1>4. CASE ConnectionEnds
  <2>1. /\ connected' = FALSE /\ subscribed' = FALSE /\ toServer' = <<>> /\ toClient' = <<>>
        /\ wanted' = [i \in Elements |-> Nothing] /\ object' = New /\ hidden' = FALSE
        /\ UNCHANGED <<fixed, client, air, sim, refused>>
    BY <1>4 DEF ConnectionEnds
  <2>2. LinesOK'
    BY <1>2, <2>1, KindStays DEF LinesOK
  <2>3. SetsOK'
    BY <2>1, SetsThen
  <2>4. wanted' \in [Elements -> Text \cup {Nothing}]
    BY <2>1
  <2>5. ObjectOK' /\ object' \in [valid : BOOLEAN, whole : BOOLEAN, ready : BOOLEAN]
    BY <2>1 DEF ObjectOK, New
  <2>6. QED
    BY <1>1, <1>2, <2>1, <2>2, <2>3, <2>4, <2>5, ServerStep DEF PluginOK
<1>5. QED
  BY <1>3, <1>4

\* Every step keeps the invariant.
LEMMA NextValuesInv == ValuesInv /\ [ValuesNext]_valuesVars => ValuesInv'
<1> SUFFICES ASSUME ValuesInv, [ValuesNext]_valuesVars PROVE ValuesInv'
  OBVIOUS
<1>1. CASE ValuesNext
  <2>1. Choice \subseteq Text
    BY DEF Choice, Text, Number
  <2>2. QED
    BY <1>1, <2>1, ReadStep, UpdateLineStep, DatagramStep, SetStep, ListStep, FlightLoopStep,
       SubStep, SetReadStep, ConnectionStep DEF ValuesNext
<1>2. CASE UNCHANGED valuesVars
  <2>1. /\ UNCHANGED <<fixed, client, connected, toServer, toClient, air, subscribed, object,
                       sim, hidden, refused, wanted>>
        /\ cache' = cache /\ latest' = latest /\ came' = came
    BY <1>2 DEF valuesVars, fixed, client
  <2>2. /\ Object(cache, latest, came) /\ refused \in BOOLEAN
        /\ toClient \in Seq(Lines) /\ (~connected => toClient = <<>>)
    BY ObjectFacts DEF Object, ValuesInv, ValuesTypeOK, LinesOK
  <2>3. Object(cache', latest', came')
    BY <2>1, <2>2
  <2>4. EchoesOK'
    BY <2>1, EchoesThen DEF ValuesInv, EchoesOK, SetUnderWay, LastSet
  <2>5. QED
    BY <2>1, <2>2, <2>3, <2>4, UpdateStep
<1>3. QED
  BY <1>1, <1>2

\* Nothing was read, set or sent yet.
LEMMA InitValuesInv == ValuesInit => ValuesInv
<1> SUFFICES ASSUME ValuesInit PROVE ValuesInv
  OBVIOUS
<1>1. /\ kind \in Kinds /\ udp \in {FALSE, kind \notin {"text", "array"}}
      /\ writable \in BOOLEAN /\ direct \in {FALSE, kind # "array"}
      /\ connected = FALSE /\ subscribed = FALSE /\ toServer = <<>> /\ toClient = <<>> /\ air = {}
      /\ object = New /\ hidden = FALSE
      /\ latest = <<Blank>> /\ came = "line" /\ refused = FALSE
      /\ wanted = [i \in Elements |-> Nothing]
  BY DEF ValuesInit
<1>2. sim \in [Elements -> Holdable]
  BY <1>1, HoldableIsText DEF ValuesInit
<1>3. cache = [values |-> <<>>, int |-> Nothing, float |-> Nothing, double |-> Nothing]
  BY DEF ValuesInit
<1>4. /\ cache.values = <<>> /\ cache.int = Nothing /\ cache.float = Nothing
      /\ cache.double = Nothing
  BY <1>3
<1>5. /\ <<>> \in Seq(Text) /\ <<>> \in Seq(Seq(Text)) /\ <<>> \in Seq(Lines)
      /\ Len(<<>>) = 0
  OBVIOUS
<1>6. cache \in Caches
  BY <1>3, <1>5 DEF Caches
<1>7. Blank \in Text /\ latest \in Seq(Text) /\ Len(latest) = 1 /\ latest[1] = Blank /\ latest # <<>>
  BY <1>1 DEF Text
<1>8. Len(cache.values) <= Size
  <2>1. Size \in {1, 2}
    BY DEF Size
  <2>2. QED
    BY <1>4, <1>5, <2>1
<1>9. ValuesTypeOK
  BY <1>1, <1>2, <1>5, <1>6, <1>7 DEF ValuesTypeOK, Caches, New
<1>10. Tells(cache, latest, came)
  <2>1. Value(cache) = Blank
    BY <1>1, <1>4, <1>6, FilledFields DEF ValueString
  <2>2. Value(cache) \in Shown(Blank, "line") /\ NumbersOf(cache, Blank, "line")
    BY <1>4, <2>1 DEF Shown, NumbersOf, By
  <2>3. QED
    BY <1>1, <1>4, <1>7, <2>2 DEF Tells
<1>11. DatagramsOK /\ LinesOK /\ ObjectOK /\ EchoesOK
  <2>1. DatagramsOK
    BY <1>1 DEF DatagramsOK
  <2>2. LinesOK
    <3>1. \A k \in 1..0 : FALSE
      OBVIOUS
    <3>2. QED
      BY <1>1, <1>5, <3>1 DEF LinesOK
  <2>3. ObjectOK /\ EchoesOK
    BY <1>1 DEF ObjectOK, EchoesOK, New
  <2>4. QED
    BY <2>1, <2>2, <2>3
<1>12. SetsOK
  BY <1>1 DEF SetsOK
<1>13. QED
  BY <1>8, <1>9, <1>10, <1>11, <1>12 DEF ValuesInv

-----------------------------------------------------------------------------
(* What is proved *)

\* Every variable has its type, the object tells of the latest texts or number, and what is
\* under way makes up the difference between the program's value and the plugin's.
THEOREM ClientValuesInvariance == ValuesSpec => []ValuesInv
<1>1. QED
  BY InitValuesInv, NextValuesInv, PTL DEF ValuesSpec

\* However reads, sets and updates follow each other, value() tells of the latest text, or
\* shows the latest datagram with six digits, and valueInt(), valueFloat() and valueDouble()
\* tell of the numbers read of that, or of the datagram's; but for the numbers of an array
\* whose element was set, and the text of a float by datagram to an object that is not
\* ExtPlaneClient's (invalidateValue, valueString, setValue).
THEOREM ReadsOfOneValue == ValuesSpec => []ReadsAgree
<1>1. ASSUME ValuesInv PROVE ReadsAgree
  <2> DEFINE t == latest[1]
             v == Value(cache)
  <2>1. kind \in Kinds /\ cache \in Caches /\ latest \in Seq(Text) /\ Tells(cache, latest, came)
        /\ came \in {"line", "datagram", "set"}
    BY <1>1, ObjectFacts
  <2>2. ValuesTypeOK
    BY <1>1 DEF ValuesInv
  <2>3. /\ t \in Text /\ Readable(cache)
        /\ Len(latest) > 1 => cache.values = latest
        /\ v \in Shown(t, came)
        /\ came # "set" \/ Len(latest) = 1 => NumbersOf(cache, t, came)
        /\ came = "datagram" => t \in Number
    BY <2>1, TellsReadable DEF Tells
  <2>4. \A k : By(came, k) = ByDatagram(k)
    BY DEF By, ByDatagram
  <2> HIDE DEF t, v
  <2>5. \/ v = IF ByDatagram("float") \/ ByDatagram("double") THEN Six[t] ELSE t
        \/ direct /\ ByDatagram("float") /\ v = Whole[t]
    BY <2>3, <2>4 DEF Shown
  <2>6. ASSUME came # "set" \/ Len(latest) = 1
        PROVE  /\ AsFloat(cache).float = FloatOf(t, came, v)
               /\ AsDouble(cache).double = DoubleOf(t, came, v)
               /\ AsInt(cache).int = IntOf(t, came, v)
    <3>1. NumbersOf(cache, t, came)
      BY <2>3, <2>6
    <3>2. /\ By(came, "float") => cache.float = t /\ t # Nothing
          /\ By(came, "double") => cache.double = t /\ t # Nothing
          /\ By(came, "int") => cache.int = t /\ t # Nothing
          /\ cache.float # Nothing => cache.float = FloatOf(t, came, v)
      BY <2>1, <2>3, <3>1, DatagramsNumber DEF v
    <3>3. AsFloat(cache).float = FloatOf(t, came, v)
      <4>1. CASE cache.float # Nothing
        BY <2>1, <3>2, <4>1, FloatFields
      <4>2. CASE cache.float = Nothing
        BY <2>1, <3>2, <4>2, FloatFields DEF FloatOf, v
      <4>3. QED
        BY <4>1, <4>2
    <3>4. AsDouble(cache).double = DoubleOf(t, came, v)
      <4>1. CASE cache.double # Nothing
        BY <2>1, <3>1, <4>1, DoubleFields DEF NumbersOf, v
      <4>2. CASE cache.double = Nothing
        BY <2>1, <3>2, <4>2, DoubleFields DEF DoubleOf, v
      <4>3. QED
        BY <4>1, <4>2
    <3>5. AsInt(cache).int = IntOf(t, came, v)
      <4>1. CASE cache.int # Nothing
        BY <2>1, <2>3, <3>1, <4>1, IntFields DEF NumbersOf, v
      <4>2. CASE cache.int = Nothing
        BY <2>1, <2>3, <3>2, <3>3, <4>2, IntFields DEF IntOf
      <4>3. QED
        BY <4>1, <4>2
    <3>6. QED
      BY <3>3, <3>4, <3>5
  <2>7. QED
    BY <2>2, <2>3, <2>4, <2>5, <2>6 DEF ReadsAgree, FloatOf, DoubleOf, IntOf, t, v
<1>2. QED
  BY <1>1, ClientValuesInvariance, PTL

\* When no line is under way, the program has the simulator's value as the plugin writes it,
\* if no set since the last update was refused or changed, and the plugin's object has told
\* what it took (updateValue, setValueFromRef, TcpClient set, DataDataRef::updateValue).
THEOREM QuietMeansInSync == ValuesSpec => []InSyncWhenQuiet
<1>1. ASSUME ValuesInv PROVE InSyncWhenQuiet
  <2>1. connected /\ toServer = <<>> => subscribed
    BY <1>1 DEF ValuesInv, LinesOK
  <2>2. toServer = <<>> => ~SetUnderWay
    BY DEF SetUnderWay
  <2>3. QED
    BY <1>1, <2>1, <2>2 DEF ValuesInv, EchoesOK, InSyncWhenQuiet
<1>2. QED
  BY <1>1, ClientValuesInvariance, PTL

\* What the program set and the plugin read is in the simulator, as far as it holds it, until
\* that changes it, but for an array's set read before the first flight loop (setValue,
\* setValueFromRef, writeLine, changeDataRef).
THEOREM SetsTakeEffect == ValuesSpec => []SetTakesEffect
<1>1. ASSUME ValuesInv PROVE SetTakesEffect
  BY <1>1 DEF ValuesInv, SetsOK, SetTakesEffect, SetUnderWay
<1>2. QED
  BY <1>1, ClientValuesInvariance, PTL
=============================================================================
