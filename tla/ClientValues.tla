---------------------------- MODULE ClientValues ----------------------------
(***************************************************************************)
(* The value of one ClientDataRef: the texts it holds, the numbers it      *)
(* remembers of them, and what becomes of a set, which changes both the    *)
(* object and, a line later, the plugin's.  Updates come back by line, or  *)
(* by datagram for scalars with the modifier udp; they may cross a set.    *)
(*                                                                         *)
(* A number is a name; what the conversions make of it is given by         *)
(* functions, and the text that shows it, from which it is read again, is  *)
(* not told apart from it.  Other texts are Blank or words.  The accuracy  *)
(* is zero, other connections only read the dataref, arrays are float      *)
(* arrays of two elements, the length of a text in the simulator stays     *)
(* (that it changes is in ValueUpdates), and the plugin passes a flight    *)
(* loop between two connections of the program.                            *)
(*                                                                         *)
(* Sources: clients/extplane-client-qt/ clientdataref.cpp, dataref.cpp,    *)
(* extplaneconnection.cpp, extplaneclient.cpp; tcpclient.cpp,              *)
(* xplaneplugin.cpp, datarefs/*.cpp.                                       *)
(***************************************************************************)
EXTENDS Integers, Sequences

CONSTANTS Numbers,     \* of each kind: numbers the simulator and the program choose from
          Whole,       \* a number without its fraction
          Single,      \* the float nearest to a number
          Six, Ten,    \* the number that is shown with six, with ten digits
          Placeholder, \* the number an object holds before it has read one
          Words,       \* of each kind: other texts
          Kept,        \* what the simulator keeps of a word, which it may cut
          FullLength,  \* words that have the simulator's length
          Blank,       \* the empty text
          Nothing,     \* no number is remembered
          Kinds,       \* the kinds of dataref considered
          MaxWire      \* bound: lines under way in each direction

ASSUME KindsKnown   == Kinds \subseteq {"int", "float", "double", "text", "array"}
ASSUME NumbersKnown ==
  \A k \in Kinds : \A x \in Numbers[k] : {Whole[x], Single[x], Six[x], Ten[x]} \subseteq Numbers[k] \cup {0}
ASSUME OthersKept ==
  \A x \in {0, Placeholder} : Whole[x] = x /\ Single[x] = x /\ Six[x] = x /\ Ten[x] = x
ASSUME WordsKept ==
  "text" \in Kinds =>
    /\ FullLength \subseteq Words["text"] /\ \A w \in FullLength : Kept[w] = w
    /\ \A w \in Words["text"] : Kept[w] \in Words["text"]
ASSUME NoNumbers ==
  \A k \in Kinds :
    /\ Nothing \notin Numbers[k] \cup Words[k] \cup {0, Placeholder, Blank}
    /\ (Words[k] \cup {Blank}) \cap (Numbers[k] \cup {0, Placeholder}) = {}

VARIABLES
  kind,        \* of the dataref
  udp,         \* it has the modifier udp
  writable,    \* the simulator lets it be set
  direct,      \* it was got from the connection itself, not from ExtPlaneClient
  cache,       \* m_values, m_valueInt, m_valueFloat, m_valueDouble
  connected,   \* the connection exists and has had its handshake
  toServer,    \* lines the program wrote, texts of a set or none of them for sub
  toClient,    \* lines the plugin wrote
  air,         \* values in datagrams
  subscribed,  \* the plugin knows the subscription
  object,      \* the plugin's: valid; has the simulator's length; m_newValue, too
  sim,         \* value in the simulator, a tuple
  hidden,      \* history: the object has changed since it last emitted changed
  latest,      \* history: the texts of the last update or set, the number of a datagram
  came,        \* history: by which of them it came
  refused,     \* history: a set since the last update was not carried out as it stood
  wanted       \* history: elements the program set and the simulator has not changed

fixed == <<kind, udp, writable, direct>>
client == <<cache, latest, came>>
server == <<subscribed, object, sim, hidden, toClient, air>>
valuesVars == <<kind, udp, writable, direct, cache, connected, toServer, toClient, air,
                subscribed, object, sim, hidden, latest, came, refused, wanted>>

Number == Numbers[kind] \cup {0, Placeholder}
Word == Words[kind]
Text == Number \cup Word \cup {Blank}
Elements == IF kind = "array" THEN {1, 2} ELSE {1}

\* setValue of the plugin's object can read the text; what the simulator has then.
Takes(t) ==
  \/ kind = "text"
  \/ t \in Number /\ (kind = "int" => Whole[t] = t)
Stored(t) ==
  CASE kind = "text"               -> IF t \in Word THEN Kept[t] ELSE t
    [] kind \in {"float", "array"} -> Single[t]
    [] OTHER                       -> t

\* What the simulator can hold, what it and the program choose from, and the texts of the plugin's line for it (valueString).
Holdable == {Stored(t) : t \in {u \in Text : Takes(u)}}
Choice   == Numbers[kind] \cup Word \cup {Blank}
Texts(v) == [i \in Elements |-> CASE kind = "double" -> Ten[v[i]]
                                  [] kind = "array"  -> Six[v[i]]
                                  [] OTHER           -> v[i]]

\* An object that is new, or is not there; one that a flight loop has visited.
New    == [valid |-> FALSE, whole |-> FALSE, ready |-> FALSE]
Served == [valid |-> TRUE, whole |-> TRUE, ready |-> TRUE]

ValuesInit ==
  /\ kind \in Kinds
  /\ udp \in {FALSE, kind \notin {"text", "array"}}
  /\ writable \in BOOLEAN
  /\ direct \in {FALSE, kind # "array"}
  /\ sim \in [Elements -> {Stored(t) : t \in {u \in Choice : Takes(u)}}]
  /\ object = New /\ hidden = FALSE
  /\ cache = [values |-> <<>>, int |-> Nothing, float |-> Nothing, double |-> Nothing]
  /\ connected = FALSE /\ subscribed = FALSE
  /\ toServer = <<>> /\ toClient = <<>> /\ air = {}
  /\ latest = <<Blank>> /\ came = "line" /\ refused = FALSE
  /\ wanted = [i \in Elements |-> Nothing]

-----------------------------------------------------------------------------
(* Reading a ClientDataRef *)

\* QString::toDouble.
ToNumber(t) == IF t \in Number THEN t ELSE 0

\* valueString: the text of a remembered number, an int before all others.
ValueString(c) ==
  CASE c.int # Nothing -> c.int
    [] c.int = Nothing /\ c.float # Nothing -> Six[c.float]
    [] OTHER -> IF c.double # Nothing THEN Six[c.double] ELSE Blank

\* value: makes a first text if there is none.
Filled(c) == IF c.values = <<>> THEN [c EXCEPT !.values = <<ValueString(c)>>] ELSE c
Value(c)  == Filled(c).values[1]

\* valueFloat, valueDouble, valueInt: what the object remembers after it was asked.
AsFloat(c)  == IF c.float # Nothing THEN c
               ELSE [Filled(c) EXCEPT !.float = Single[ToNumber(Value(c))]]
AsDouble(c) == IF c.double # Nothing THEN c ELSE [Filled(c) EXCEPT !.double = ToNumber(Value(c))]
AsInt(c)    == IF c.int # Nothing THEN c
               ELSE [AsFloat(c) EXCEPT !.int = Whole[AsFloat(c).float]]

\* The program reads the object.
Read ==
  /\ cache' \in {Filled(cache), AsFloat(cache), AsDouble(cache), AsInt(cache)}
  /\ UNCHANGED <<fixed, connected, toServer, server, latest, came, refused, wanted>>

-----------------------------------------------------------------------------
(* Updates *)

\* Mutation of Invalidated: the float is remembered.
Invalidated_NotFloat(c) == [c EXCEPT !.values = <<>>, !.int = Nothing, !.double = Nothing]

\* invalidateValue
Invalidated(c) ==
  [c EXCEPT !.values = <<>>, !.int = Nothing, !.float = Nothing, !.double = Nothing]

\* The signal changed: ExtPlaneClient, if the object is its own, reads a single value.
Told(c) == IF direct THEN c ELSE Filled(c)

\* updateValue has changed the object to c, for v, which came in a line or a datagram.
Take(c, v, how) ==
  /\ cache' = Told(c)
  /\ latest' = v /\ came' = how /\ refused' = FALSE

\* A line of the plugin: texts for a single value or an array.
LineComes ==
  /\ toClient # <<>>
  /\ Take([Invalidated(cache) EXCEPT !.values = Head(toClient)], Head(toClient), "line")
  /\ toClient' = Tail(toClient)
  /\ UNCHANGED <<fixed, connected, toServer, air, subscribed, object, sim, hidden, wanted>>

\* A datagram: a number of the type of the dataref.
DatagramComes(x) ==
  LET c == Invalidated(cache)
  IN  /\ x \in air
      /\ air' = air \ {x}
      /\ Take(CASE kind = "int"    -> [c EXCEPT !.int = x]
                [] kind = "float"  -> [c EXCEPT !.float = x]
                [] kind = "double" -> [c EXCEPT !.double = x], <<x>>, "datagram")
      /\ UNCHANGED <<fixed, connected, toServer, toClient, subscribed, object, sim, hidden,
                     wanted>>

DatagramIsLost(x) ==
  /\ x \in air
  /\ air' = air \ {x}
  /\ UNCHANGED <<fixed, client, connected, toServer, toClient, subscribed, object, sim,
                 hidden, refused, wanted>>

-----------------------------------------------------------------------------
(* Setting a ClientDataRef *)

\* setValue: a single value is replaced by t, with blank texts before the index; an array
\* keeps its other texts, and the numbers remembered of the old ones.
WithElement(c, t, i) ==
  IF Len(c.values) <= 1
    THEN [Invalidated(c) EXCEPT !.values = [j \in 1..i |-> IF j = i THEN t ELSE Blank]]
    ELSE [c EXCEPT !.values[i] = t]

\* Mutation of LineOf: an array is sent by its first element.
LineOf_First(c) == <<Value(c)>>

\* setValueFromRef: texts of the line for c; a blank one, unless quoted, is not sent.
LineOf(c) == IF Filled(c).values = <<Blank>> /\ kind # "text" THEN <<>> ELSE Filled(c).values

\* writeLine of the texts, if there is a connection and there are texts.
WriteLine(line) ==
  /\ Len(toServer) < MaxWire
  /\ toServer' = IF connected /\ line # <<>> THEN Append(toServer, line) ELSE toServer

\* Elements the program can expect to have set, when the list c.values is sent for its
\* i-th: not those it has known otherwise since an update crossed an earlier set.
Expected(c, i) ==
  [j \in Elements |->
     IF /\ connected /\ writable /\ Len(c.values) = Len(sim)
        /\ Takes(c.values[j]) /\ (j = i \/ c.values[j] = wanted[j])
       THEN c.values[j] ELSE Nothing]

\* setValue(t, i - 1), and the connection's part of the signal valueSet.
SetValue(t, i) ==
  LET c == WithElement(cache, t, i)
  IN  /\ cache' = c
      /\ latest' = c.values /\ came' = "set"
      /\ WriteLine(LineOf(c))
      /\ refused' = (refused \/ LineOf(c) = <<>>)
      /\ wanted' = Expected(c, i)
      /\ UNCHANGED <<fixed, connected, server>>

\* setValues: the list is stored and invalidated before the signal, so that nothing is
\* left to be sent.
SetValues(list) ==
  /\ kind = "array" /\ list # cache.values
  /\ cache' = Filled(Invalidated([cache EXCEPT !.values = list]))
  /\ latest' = <<Blank>> /\ came' = "set" /\ refused' = TRUE
  /\ WriteLine(LineOf(cache'))
  /\ UNCHANGED <<fixed, connected, server, wanted>>

-----------------------------------------------------------------------------
(* The plugin and the connection *)

\* Mutation of Emit: not while a set is under way.
Emit_OwnOnly(news, line) ==
  IF subscribed /\ news /\ toServer = <<>> THEN
    IF udp THEN air' = air \cup {sim'[1]} /\ UNCHANGED toClient
           ELSE Len(toClient) < MaxWire /\ toClient' = Append(toClient, line) /\ UNCHANGED air
  ELSE UNCHANGED <<toClient, air>>

\* If there is news, the object emits changed, with this line or what the simulator has
\* for a datagram (which the next flight loop sends; here it is under way at once).
Emit(news, line) ==
  IF subscribed /\ news THEN
    IF udp THEN air' = air \cup {sim'[1]} /\ UNCHANGED toClient
           ELSE Len(toClient) < MaxWire /\ toClient' = Append(toClient, line) /\ UNCHANGED air
  ELSE UNCHANGED <<toClient, air>>

\* The elements or bytes that setLength fills in, with which an object of another length
\* compares what it reads.
Blanked == [i \in Elements |-> IF kind = "text" THEN Blank ELSE Placeholder]

\* updateValue of the object.
Visit ==
  LET news == ~object.valid \/ sim' # (IF object.whole THEN sim ELSE Blanked)
  IN  /\ object.whole => object.ready
      /\ object' = Served
      /\ Emit(news, Texts(sim'))
      /\ hidden' = (~news /\ (hidden \/ ~object.whole))

\* The same for a text that was set, to its full length, before the object's buffer was
\* made: the simulator's bytes are written behind an empty one, and if that does not end
\* the plugin, and the connection, the object takes the empty buffer.
VisitOverruns ==
  /\ object.whole /\ ~object.ready
  /\ object' = [object EXCEPT !.whole = FALSE]
  /\ Emit(TRUE, <<Blank>>)
  /\ hidden' = FALSE

\* The simulator may have changed; the object is visited, or nobody has subscribed to it.
FlightLoop ==
  /\ sim' \in {sim} \cup [Elements -> {Stored(t) : t \in {u \in Choice : Takes(u)}}]
  /\ \/ Visit
     \/ VisitOverruns
     \/ ~subscribed /\ object' = New /\ UNCHANGED <<toClient, air, hidden>>
  /\ wanted' = [i \in Elements |-> IF sim'[i] = sim[i] THEN wanted[i] ELSE Nothing]
  /\ UNCHANGED <<fixed, client, connected, toServer, subscribed, refused>>

\* The line sub: a valid object's value is sent once by line, whatever the modifiers.
SubIsRead ==
  /\ toServer # <<>> /\ Head(toServer) = <<>>
  /\ subscribed' = TRUE
  /\ IF object.valid THEN Len(toClient) < MaxWire /\ toClient' = Append(toClient, Texts(sim))
                     ELSE UNCHANGED toClient
  /\ hidden' = FALSE
  /\ toServer' = Tail(toServer)
  /\ UNCHANGED <<fixed, client, connected, air, object, sim, refused, wanted>>

\* setValue and changeDataRef of a number: one that is not understood writes the object's
\* value, which is none before the first flight loop.
NumberIsSet(t) ==
  /\ sim' = IF Takes(t) THEN <<Stored(t)>> ELSE IF object.valid THEN sim ELSE <<Placeholder>>
  /\ object' = IF Takes(t) THEN Served ELSE object
  /\ Emit(Takes(t) /\ (~object.valid \/ sim' # sim), Texts(sim'))
  /\ UNCHANGED <<hidden, wanted>>

\* Of a text: the object takes all of it and tells of it, the simulator has its length.
TextIsSet(t) ==
  /\ sim' = <<Stored(t)>>
  /\ object' = [object EXCEPT !.valid = TRUE, !.whole = (t \in FullLength)]
  /\ Emit(TRUE, <<t>>)
  /\ hidden' = FALSE /\ UNCHANGED wanted

\* Of a list: the elements it understands, if it has elements yet.  One that has none, and
\* is new, becomes valid and sends an empty list, and what was set is lost.
ListIsSet(list) ==
  IF object.whole
    THEN /\ sim' = [i \in Elements |-> IF Takes(list[i]) THEN Stored(list[i]) ELSE sim[i]]
         /\ Emit(sim' # sim, Texts(sim'))
         /\ hidden' = (hidden /\ sim' = sim)
         /\ UNCHANGED <<object, wanted>>
    ELSE /\ object' = [object EXCEPT !.valid = TRUE]
         /\ UNCHANGED sim
         /\ Emit(~object.valid, <<Blank>>)
         /\ wanted' = [i \in Elements |-> Nothing]
         /\ UNCHANGED hidden

\* The line set, which an array takes for a list only.
SetIsRead ==
  LET list == Head(toServer)
  IN  /\ toServer # <<>> /\ list # <<>>
      /\ toServer' = Tail(toServer)
      /\ IF writable /\ Len(list) = Len(sim)
           THEN CASE kind = "text"  -> TextIsSet(list[1])
                  [] kind = "array" -> ListIsSet(list)
                  [] OTHER          -> NumberIsSet(list[1])
           ELSE UNCHANGED <<object, sim, hidden, toClient, air, wanted>>
      /\ refused' = (refused \/ Texts(sim') # list)
      /\ UNCHANGED <<fixed, client, connected, subscribed>>

\* The connection comes up, and sub is the first line for this dataref.
Handshake ==
  /\ ~connected
  /\ connected' = TRUE /\ toServer' = <<<<>>>>
  /\ UNCHANGED <<fixed, client, server, refused, wanted>>

\* It ends, with the lines under way; the client's datagram socket stays.  Of an object that
\* others hold, see FlightLoop.
ConnectionEnds ==
  /\ connected
  /\ connected' = FALSE /\ subscribed' = FALSE
  /\ object' = New /\ hidden' = FALSE
  /\ toServer' = <<>> /\ toClient' = <<>>
  /\ wanted' = [i \in Elements |-> Nothing]
  /\ UNCHANGED <<fixed, client, air, sim, refused>>

ValuesNext ==
  \/ Read
  \/ LineComes
  \/ \E x \in air : DatagramComes(x) \/ DatagramIsLost(x)
  \/ \E t \in Choice, i \in Elements : SetValue(t, i)
  \/ \E list \in [{1, 2} -> Numbers[kind]] : SetValues(list)
  \/ FlightLoop
  \/ SubIsRead \/ SetIsRead
  \/ Handshake \/ ConnectionEnds

ValuesSpec == ValuesInit /\ [][ValuesNext]_valuesVars

-----------------------------------------------------------------------------
(* Properties *)

\* Every variable has its type.
ValuesTypeOK ==
  /\ kind \in Kinds
  /\ udp \in BOOLEAN /\ writable \in BOOLEAN /\ direct \in BOOLEAN
  /\ connected \in BOOLEAN /\ subscribed \in BOOLEAN
  /\ hidden \in BOOLEAN /\ refused \in BOOLEAN
  /\ came \in {"line", "datagram", "set"}
  /\ object \in [valid : BOOLEAN, whole : BOOLEAN, ready : BOOLEAN]
  /\ cache \in [values : Seq(Text), int : Number \cup {Nothing},
                float : Number \cup {Nothing}, double : Number \cup {Nothing}]
  /\ toServer \in Seq(Seq(Text)) /\ toClient \in Seq(Seq(Text))
  /\ air \subseteq Holdable
  /\ sim \in [Elements -> Holdable]
  /\ latest \in Seq(Text)
  /\ wanted \in [Elements -> Text \cup {Nothing}]

\* The last update was a datagram, for a dataref of kind k.
ByDatagram(k) == came = "datagram" /\ kind = k

\* Whatever was read, set and received before, and in which order, value(), valueInt(),
\* valueFloat() and valueDouble() tell of the latest value (invalidateValue, valueString):
\* the text as it came, with six digits for a float or double that came by datagram, the
\* numbers that are read of that text, the int of the float, and a number that came by
\* datagram itself.  Two cases excepted: the numbers of an array whose element was set are
\* those of the update before (setValue), and the text of a float that came by datagram to
\* an object that is not ExtPlaneClient's, and was read as an int first, shows the int.
\* And every variable has its type.
ReadsAgree ==
  LET t == latest[1]
      v == Value(cache)
      f == AsFloat(cache).float
  IN  /\ ValuesTypeOK
      /\ Len(latest) > 1 => cache.values = latest
      /\ \/ v = IF ByDatagram("float") \/ ByDatagram("double") THEN Six[t] ELSE t
         \/ direct /\ ByDatagram("float") /\ v = Whole[t]
      /\ came # "set" \/ Len(latest) = 1 =>
           /\ f = IF ByDatagram("float") THEN t ELSE Single[ToNumber(v)]
           /\ AsDouble(cache).double = IF ByDatagram("double") THEN t ELSE ToNumber(v)
           /\ AsInt(cache).int = IF ByDatagram("int") THEN t ELSE Whole[f]

\* When no line is under way, the program has the value of the simulator, as the plugin
\* writes it, however sets and updates have crossed, unless a set was not carried out as
\* it stood since the last update: refused by the plugin, partly refused, rounded, cut,
\* empty, or a whole list (setValueFromRef, TcpClient set).  An object the plugin has not
\* read since it is new, or has another length than the simulator's, has told nothing yet;
\* and one that then reads just what setLength has filled in does not tell it
\* (DataDataRef::updateValue).  For datarefs with the modifier udp a lost datagram is not
\* made up.
InSyncWhenQuiet ==
  connected /\ toServer = <<>> /\ toClient = <<>> /\ ~udp /\ ~refused /\ object.whole /\ ~hidden
    => subscribed /\ Filled(cache).values = Texts(sim)

\* A value that the program has set, and the plugin has read, is in the simulator, as far as
\* that can hold it, until the simulator changes it: sets are neither lost nor overtaken by
\* older ones, and the elements an array's line repeats undo no earlier set - but where an
\* update came in between, the line repeats that, with its six digits (setValue,
\* setValueFromRef).  An array's set that is read before the first flight loop has given the
\* object its elements is lost (FloatArrayDataRef::setValue).
SetTakesEffect ==
  toServer = <<>> => \A i \in Elements : wanted[i] # Nothing => sim[i] = Stored(wanted[i])
=============================================================================
