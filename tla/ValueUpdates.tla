---------------------------- MODULE ValueUpdates ----------------------------
(***************************************************************************)
(* How the value of one dataref travels: the flight loop copies it from    *)
(* the simulator into the shared DataRef object, the object emits changed, *)
(* and each TcpClient decides with its own baseline and the object's       *)
(* accuracy whether its client is told.  A client may also set the value.  *)
(*                                                                         *)
(* Scalar datarefs (int, float, double), arrays, and data (bytes, sent as  *)
(* base64, or as text with the modifier string) differ in the test and in  *)
(* what a set does; the kind is chosen once, in the initial state.  Arrays *)
(* have one element here, or none before their first update.  The build is *)
(* a release build: failed assertions are ignored.                         *)
(* One-shot gets and UDP are in modules Subscriptions and UdpOutput.       *)
(*                                                                         *)
(* Sources: tcpclient.cpp (sub, set, refChanged), datarefs/*.cpp,          *)
(* xplaneplugin.cpp (flightLoop, updateDataRef, changeDataRef).            *)
(***************************************************************************)
EXTENDS Integers, Sequences

CONSTANTS Client,    \* connections, all open
          Kinds,     \* the kinds of dataref considered
          Value,     \* values the simulator can give a number or array, integers
          MaxBytes,  \* bound: length of a data dataref
          Accuracy,  \* accuracies clients ask for, naturals
          Empty,     \* an array without elements
          Nothing    \* no value: not subscribed, or nothing received yet

ASSUME KindsKnown      == Kinds \subseteq {"scalar", "floatArray", "intArray", "string", "data"}
ASSUME BytesBounded    == MaxBytes \in Nat
ASSUME ValuesAreNat    == Value \subseteq Nat
ASSUME AccuraciesAreNat == Accuracy \subseteq Nat

\* What a scalar object holds before its first update; no simulator value.
Placeholder == -999999

\* Byte strings: 0 is the zero byte, 1 any other.
Data == UNION {[1..n -> {0, 1}] : n \in 0..MaxBytes}
Zeros(n)  == [i \in 1..n |-> 0]

ASSUME EmptyIsNoValue ==
  Empty \notin Value /\ Empty # Placeholder /\ Empty \notin Data
ASSUME NothingIsNoReading ==
  Nothing \notin Value /\ Nothing # Placeholder /\ Nothing \notin Data /\ Nothing # Empty
ASSUME NothingIsNoAccuracy == Nothing \notin Accuracy

\* v cut, or filled up with zeros, to n bytes.
Fit(v, n) == [i \in 1..n |-> IF i <= Len(v) THEN v[i] ELSE 0]

VARIABLES turn,   \* whose turn it is: the simulator's, or the plugin's event handlers'
          kind,   \* kind of the dataref
          sim,    \* value of the dataref in the simulator
          val,    \* value in the DataRef object
          valid,  \* _valueValid of the object
          buffer,  \* m_newValue of a data object, _valueArray of an array: what the
                   \* simulator's bytes or elements are copied to, and a set's elements
          due,    \* the last flight loop found a data object's time up
          acc,    \* _accuracy of the object
          base,   \* m_refValue...[ref] of each connection
          got,    \* the value each client received last
          asked,  \* the accuracy each client asked for last
          worst   \* history: largest accuracy in force since the client subscribed

content == <<val, valid, buffer>>
object  == <<content, acc>>
perConn == <<base, got, asked, worst>>
vars == <<turn, kind, sim, val, valid, buffer, due, acc, base, got, asked, worst>>

Subscribers == {c \in Client : asked[c] # Nothing}
Distance(a, b) == IF a >= b THEN a - b ELSE b - a

IsData == kind \in {"string", "data"}
IsArray == kind \in {"floatArray", "intArray"}
\* What the simulator can hold, and what a set line can ask for.
Readable == IF IsData THEN Data ELSE Value
Settable == CASE kind = "string" -> {v \in Data : 0 \notin {v[i] : i \in DOMAIN v}}
              [] kind = "data"   -> {}
              [] OTHER           -> Value

\* The value and the buffer a new object starts with.
Fresh == CASE kind = "scalar" -> Placeholder [] IsData -> <<>> [] OTHER -> Empty
FreshBuffer == IF IsData THEN <<>> ELSE Empty

Init ==
  /\ turn = "simulator"
  /\ kind \in Kinds
  /\ sim \in Readable
  /\ val = Fresh /\ valid = FALSE /\ buffer = FreshBuffer /\ acc = 0
  /\ due = FALSE
  /\ base  = [c \in Client |-> Nothing]
  /\ got   = [c \in Client |-> Nothing]
  /\ asked = [c \in Client |-> Nothing]
  /\ worst = [c \in Client |-> 0]

-----------------------------------------------------------------------------
(* refChanged: one connection's reaction to changed, the object holding v *)

\* Text of a byte string: it ends before the first zero byte.
TextLength(v) == CHOOSE n \in 0..Len(v) : /\ \A i \in 1..n : v[i] # 0
                                          /\ n < Len(v) => v[n + 1] = 0
Text(v) == [i \in 1..TextLength(v) |-> v[i]]

\* valueString of the value v, as the client understands it.
Sent(v) == IF kind = "string" THEN Text(v) ELSE v

\* Exactly one of the two arrays is still without elements.
SizeDiffers(a, b) == (a = Empty) # (b = Empty)

\* The value has moved far enough from the baseline to be sent.
Passes(c, v) ==
  CASE IsData          -> TRUE
    [] kind = "scalar" -> Distance(v, base[c]) >= acc
    [] OTHER           -> \/ acc = 0
                          \/ SizeDiffers(v, base[c])
                          \/ v # Empty /\ base[c] # Empty /\ Distance(v, base[c]) > acc

\* Mutation of NewBase: a sent value does not become the baseline.
NewBase_Kept(c, v) == base[c]

\* Baseline after sending v: std::map::insert leaves an int array's entry as it is.
NewBase(c, v) ==
  IF kind = "intArray" /\ (acc = 0 \/ SizeDiffers(v, base[c])) THEN base[c] ELSE v

\* changed is emitted with the object holding v.
Emit(v) ==
  LET told == {c \in Subscribers : Passes(c, v)}
  IN  /\ got'  = [c \in Client |-> IF c \in told THEN Sent(v) ELSE got[c]]
      /\ base' = [c \in Client |-> IF c \in told THEN NewBase(c, v) ELSE base[c]]

Silent == UNCHANGED <<got, base>>

\* updateValue: the object takes v, and tells if that is news.
UpdateValue(v) ==
  IF val # v \/ ~valid THEN val' = v /\ valid' = TRUE /\ Emit(v)
                       ELSE Silent /\ UNCHANGED <<val, valid>>

\* Mutation of NewLength: the bytes are copied to the value itself.
NewLength_InPlace(v) == [val |-> v, buffer |-> v]

\* setLength: a data object whose length is not that of v forgets its bytes.  The buffer
\* gets the new length only then: otherwise the copy of v fills what there is of it.
NewLength(v) ==
  IF Len(val) # Len(v)
    THEN [val |-> Zeros(Len(v)), buffer |-> v]
    ELSE [val |-> val,
          buffer |-> [i \in DOMAIN buffer |-> IF i <= Len(v) THEN v[i] ELSE buffer[i]]]

\* updateDataRef of a data object: a new length is taken at once, the bytes in time.
UpdateData(v) ==
  LET new  == NewLength(v)
      news == new.buffer # new.val \/ ~valid
  IN  /\ due' \in {TRUE, acc = 0}
      /\ buffer' = new.buffer
      /\ IF due' /\ news
           THEN val' = new.buffer /\ valid' = TRUE /\ Emit(new.buffer)
           ELSE val' = new.val /\ Silent /\ UNCHANGED valid

-----------------------------------------------------------------------------
(* The simulator and the flight loop *)

SimulatorRuns ==
  /\ turn = "simulator"
  /\ sim' \in Readable
  /\ UNCHANGED <<turn, kind, object, due, perConn>>

\* The callback: the object, if anybody subscribes to it, is updated, then Qt's
\* events are handled.
FlightLoop ==
  /\ turn = "simulator"
  /\ turn' = "events"
  /\ CASE Subscribers = {} -> Silent /\ UNCHANGED <<content, due>>
       [] Subscribers # {} /\ IsData  -> UpdateData(sim)
       [] Subscribers # {} /\ ~IsData ->
            UpdateValue(sim) /\ buffer' = (IF IsArray THEN sim ELSE buffer) /\ UNCHANGED due
  /\ UNCHANGED <<kind, sim, acc, asked, worst>>

\* The simulator copies more bytes than the buffer has room for: undefined behaviour.
\* Either those behind it do no harm (FlightLoop), or the process ends, and the simulator
\* starts again without connections.
CopyCrashes ==
  /\ turn = "simulator" /\ Subscribers # {} /\ IsData
  /\ Len(val) = Len(sim) /\ Len(buffer) < Len(sim)
  /\ sim' \in Readable
  /\ val' = Fresh /\ valid' = FALSE /\ buffer' = FreshBuffer /\ acc' = 0 /\ due' = FALSE
  /\ base' = [c \in Client |-> Nothing] /\ got' = [c \in Client |-> Nothing]
  /\ asked' = [c \in Client |-> Nothing] /\ worst' = [c \in Client |-> 0]
  /\ UNCHANGED <<turn, kind>>

CallbackReturns ==
  /\ turn = "events"
  /\ turn' = "simulator"
  /\ UNCHANGED <<kind, sim, object, due, perConn>>

-----------------------------------------------------------------------------
(* What clients do *)

\* The object's accuracy is a; everybody who shares the object has to live with it.
SetAccuracy(c, a) ==
  /\ acc' = a
  /\ asked' = [asked EXCEPT ![c] = a]
  /\ worst' = [d \in Client |->
                 IF d = c THEN (IF asked[c] = Nothing \/ worst[c] < a THEN a ELSE worst[c])
                 ELSE IF asked[d] # Nothing /\ worst[d] < a THEN a ELSE worst[d]]

\* Mutations of Forced: the value is sent although it is not valid yet; it is not sent.
Forced_Always(c) == Sent(val)
Forced_Never(c)  == got[c]

\* "Force update": what c has got once its sub is handled.
Forced(c) == IF valid THEN Sent(val) ELSE got[c]

\* sub of a name the connection does not hold: an object shared with others, or a new one.
Subscribe(c, a) ==
  /\ turn = "events"
  /\ asked[c] = Nothing
  /\ SetAccuracy(c, a)
  /\ base' = [base EXCEPT ![c] = val]
  /\ got'  = [got EXCEPT ![c] = Forced(c)]
  /\ UNCHANGED <<turn, kind, sim, due, content>>

\* sub of a name it holds: new accuracy and the value once more, the baseline stays.
SubscribeAgain(c, a) ==
  /\ turn = "events"
  /\ asked[c] # Nothing
  /\ SetAccuracy(c, a)
  /\ got' = [got EXCEPT ![c] = Forced(c)]
  /\ UNCHANGED <<turn, kind, sim, due, content, base>>

\* Mutation of Release: the object outlives its last subscriber.
Release_Keeps(c) == UNCHANGED object

\* The last subscriber takes the object with it.
Release(c) ==
  IF Subscribers = {c}
    THEN val' = Fresh /\ valid' = FALSE /\ buffer' = FreshBuffer /\ acc' = 0
    ELSE UNCHANGED object

\* unsub
Unsubscribe(c) ==
  /\ turn = "events"
  /\ asked[c] # Nothing
  /\ asked' = [asked EXCEPT ![c] = Nothing]
  /\ base'  = [base EXCEPT ![c] = Nothing]
  /\ got'   = [got EXCEPT ![c] = Nothing]
  /\ worst' = [worst EXCEPT ![c] = 0]
  /\ Release(c)
  /\ UNCHANGED <<turn, kind, sim, due>>

\* setValue with a value the object can parse, for an array the present element included.
\* An array writes into its buffer, if it has elements yet; then a float array compares and
\* emits, an int array emits with its old elements.  A string takes what it is given.
ObjectTakes(v) ==
  CASE kind = "scalar" -> UpdateValue(v) /\ UNCHANGED buffer
    [] IsArray         -> /\ buffer' = IF buffer = Empty THEN Empty ELSE v
                          /\ IF kind = "floatArray" THEN UpdateValue(buffer')
                             ELSE Emit(val) /\ UNCHANGED <<val, valid>>
    [] kind = "string" -> val' = v /\ valid' = TRUE /\ Emit(v) /\ UNCHANGED buffer

\* Base64 of a byte string; none of its characters is a zero byte.
Base64(v) == [i \in 1..(4 * ((Len(v) + 2) \div 3)) |-> 1]

\* Mutation of Written: an array without elements is written, too.
Written_Empty(v) ==
  CASE kind = "string" -> Fit(Text(v), Len(sim))
    [] kind = "data"   -> Fit(Base64(v), Len(sim))
    [] OTHER           -> v

\* changeDataRef: what the simulator holds after v was written.  Data goes through
\* valueString and keeps the simulator's length.
Written(v) ==
  CASE kind = "string" -> Fit(Text(v), Len(sim))
    [] kind = "data"   -> Fit(Base64(v), Len(sim))
    [] OTHER           -> IF v = Empty THEN sim ELSE v

\* What an object with this buffer and this value gives changeDataRef.
Given(b, v) == IF IsArray THEN b ELSE v

\* set: the object, then the simulator through changeDataRef.
SetValue(c, v) ==
  /\ turn = "events"
  /\ asked[c] # Nothing
  /\ ObjectTakes(v)
  /\ sim' = Written(Given(buffer', val'))
  /\ UNCHANGED <<turn, kind, due, acc, asked, worst>>

\* set with a value the object cannot take (garbage for a number, an array without brackets,
\* a string without quotes, anything for data): the log says so and the object keeps its
\* own - an array with brackets around the garbage takes its present elements - but
\* changeDataRef still writes what the object holds.
SetGarbage(c) ==
  /\ turn = "events"
  /\ asked[c] # Nothing
  /\ \/ Silent /\ UNCHANGED content
     \/ IsArray /\ ObjectTakes(buffer)
  /\ sim' = Written(Given(buffer, val))
  /\ UNCHANGED <<turn, kind, due, acc, asked, worst>>

Next ==
  \/ SimulatorRuns
  \/ FlightLoop
  \/ CopyCrashes
  \/ CallbackReturns
  \/ \E c \in Client, a \in Accuracy : Subscribe(c, a)
  \/ \E c \in Client, a \in Accuracy : SubscribeAgain(c, a)
  \/ \E c \in Client : Unsubscribe(c)
  \/ \E c \in Client, v \in Settable : SetValue(c, v)
  \/ \E c \in Client : SetGarbage(c)

Spec == Init /\ [][Next]_vars

-----------------------------------------------------------------------------
(* Properties *)

Readings == IF IsData THEN Data ELSE Value \cup {Placeholder, Empty}

\* Every variable has its type.
TypeOK ==
  /\ turn \in {"simulator", "events"}
  /\ kind \in Kinds
  /\ sim \in Readings \ {Empty}
  /\ val \in Readings
  /\ valid \in BOOLEAN /\ due \in BOOLEAN
  /\ buffer \in Readings
  /\ acc \in Accuracy \cup {0}
  /\ base \in [Client -> Readings \cup {Nothing}]
  /\ got \in [Client -> Readings \cup {Nothing}]
  /\ asked \in [Client -> Accuracy \cup {Nothing}]
  /\ worst \in [Client -> Accuracy \cup {0}]

\* While events are handled, a valid scalar or float array object holds what the
\* simulator holds: sub and an echo of set never send an outdated value.  So do the
\* elements an int array's next set writes, though not those it shows; so that a set that
\* was rejected writes back nothing new (updateDataRef, setValue, changeDataRef).
\* A string object has the simulator's text, too, once its time was up and its length is
\* the simulator's.  (A set of another length, or one just before the simulator changes
\* the length to that of the set, leaves the object with a length of its own until the
\* next flight loop; a set without quotes cuts the simulator's bytes after the text.)
\* Nothing is said of base64 data: a set of it overwrites the simulator's bytes.
ObjectMirrorsSimulator ==
  turn = "events" /\ valid =>
    /\ kind = "scalar" => val = sim
    /\ IsArray => buffer \in {Empty, sim} /\ (kind = "floatArray" => val = buffer)
    /\ kind = "string" /\ due /\ Len(val) = Len(sim) => Text(val) = Text(sim)

\* Whatever the accuracy, a client has the bytes of the data object it shares, or the
\* object holds zeros only: bytes of a new length that are all zero (or none) pass for
\* those setLength has just made, and nobody is told (setLength, updateValue).
DataIsSent ==
  IsData /\ valid => \A c \in Subscribers : got[c] = Sent(val) \/ val = Zeros(Len(val))

\* A client is never further from the object than twice the largest accuracy that
\* was in force while it was subscribed; with accuracy zero it has the very value.
\* (Twice: sub of a held name sends without moving the baseline.  Int arrays keep
\* outdated baselines and do not have this bound.)
DriftBounded ==
  kind \in {"scalar", "floatArray"} /\ valid /\ val # Empty =>
    \A c \in Subscribers :
      got[c] \notin {Nothing, Empty} => Distance(val, got[c]) <= 2 * worst[c]

\* Values reach clients exactly when there is one.  What an object holds before its first
\* update reaches nobody, whatever is set, shared or subscribed again ("Never send invalid
\* values", TcpClient::refChanged) - except that a set makes a new int array send that it
\* has no elements, although it is not valid.  And nobody who subscribes goes without: a
\* valid array with elements has sent them; a valid scalar its value, unless an accuracy
\* larger than the placeholder's distance from zero has been in force, as the first value
\* of the simulator passes the test of refChanged, or sub sends it.  (A rejected set can
\* write the placeholder to the simulator, from where it comes back as a value that does
\* not pass.)
ServedWhenValid ==
  /\ ~valid => \A c \in Client :
       got[c] = Nothing \/ (kind = "intArray" /\ got[c] = Empty)
  /\ valid /\ IsArray /\ val # Empty =>
       \A c \in Subscribers : got[c] \notin {Nothing, Empty}
  /\ valid /\ kind = "scalar" /\ val # Placeholder =>
       \A c \in Subscribers : worst[c] <= -Placeholder => got[c] # Nothing
=============================================================================
