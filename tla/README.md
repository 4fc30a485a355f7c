# ExtPlane in TLA+

ExtPlane is a plugin for X-Plane (and a stand-alone server for other simulators) that lets
external programs read and write simulator data, "datarefs", over TCP, UDP and MQTT. This
directory holds TLA+ modules of its core logic, the TLC configurations that check them on
small instances, and proofs, checked by TLAPS, of what matters most for every instance.

Paths below are relative to `src/`. `PROJECT.json` maps every definition to the lines it
models, and lists the runs, the mutants each property is known to catch, and the hazards
the properties are aimed at.

* [Running](#running)
* [The system](#the-system): components, state, interactions, what is hard, what is correct
* [The modules](#the-modules): which module models what, what its run checks and shows
* [Where code and documentation disagree](#where-code-and-documentation-disagree)
* [Proofs](#proofs)
* [Conventions and abstractions](#conventions-and-abstractions)
* [Not modelled](#not-modelled)
* [Plan](#plan)

## Running

    tlc -workers 2 -config MCSubscriptions.cfg MCSubscriptions.tla     # likewise the others
    tlapm SubscriptionsProofs.tla                                      # likewise the other *Proofs

`MC<Module>.tla` extends `<Module>` and adds the symmetry set, if any; constants
are given in the `.cfg`. Sizes on a laptop with two workers:

| run | cfg | distinct states | depth | time |
|---|---|---:|---:|---:|
| subscriptions | MCSubscriptions.cfg | 67 406 | 26 | 6 s |
| value_updates | MCValueUpdates.cfg | 521 246 | 25 | 10 s |
| udp_output | MCUdpOutput.cfg | 1 773 689 | 42 | 87 s |
| client_connection | MCClientConnection.cfg | 124 800 | 22 | 8 s |
| held_inputs | MCHeldInputs.cfg | 106 420 | 21 | 22 s |
| client_refs | MCClientRefs.cfg | 579 034 | 32 | 33 s |
| client_values | MCClientValues.cfg | 1 777 594 | 25 | 70 s |
| mqtt_publisher | MCMqttPublisher.cfg | 387 328 | 17 | 24 s |
| transformer | MCTransformer.cfg | 484 068 | 29 | 12 s |
| custom_data | MCCustomData.cfg | 114 891 | 11 | 2 s |

Two more configurations, `MCSubscriptionsGet` and `MCClientConnectionHandshake`, end in a
counterexample, on purpose: each states something the documentation or a comment says and
the code does not do.

## The system

### How the parts fit together

    simulator ── XPlanePlugin (a DataRefProvider) ── TcpServer ── TcpClient ─┬─ TCP ──┐
                     │    one DataRef object per name     │         UdpSender ┴─ UDP ─┤
                     └── MqttPublisher ── broker                                      │
                                                                                      │
    FlightGear/Condor ── ExtPlaneTransformer + DataSource (a DataRefProvider) ── TcpServer
                                                                                      │
      QML DataRef, C++ code ── ExtPlaneClient ── ExtPlaneConnection (BasicTcpClient) ─┤
                                            └──  SimulatedExtPlaneConnection   ExtPlaneUdpClient

**Scheduling.** The plugin runs entirely on X-Plane's main thread. One flight loop callback
(`extplane-plugin/xplaneplugin.cpp:24`) first walks over all registered DataRefs and copies
their values from the simulator, then lets the `UdpSender`s send, then calls
`processEvents`, in which Qt delivers socket events and deferred deletions, and last polls
MQTT. Clients and the
transformer are ordinary single-threaded Qt programs. So there are no data races; what
interleaves are *handlers*, and what makes it hard is that

* a `DataRef` is **shared** by all subscribers of a name: its count, accuracy and
  "unsubscribe after change" mark are one state with several owners;
* signals are **synchronous calls**: `changed` emitted inside a loop may run code that
  changes what the loop runs over;
* objects die by **deferred deletion** (`deleteLater`), so between a last `unsub` and the
  event loop there are objects that are doomed but not gone;
* a connection can end in **three ways** (disconnect line, socket, plugin disabled), some of
  which run the same handler twice or run further lines after it;
* a **set** changes the client's object at once and the plugin's a line later, while updates
  come the other way;
* UDP datagrams refer to numbers that a TCP line announces, and **the two are not ordered**;
* connections are **lost and retried**, by a timer that several handlers start and stop.

### Components

| component | state it keeps | operations | correct when | module |
|---|---|---|---|---|
| `TcpServer` (extplane-server/tcpserver.cpp) | connections, next UDP number | accept, drop, disconnect all, reserve a number, switch provider | numbers never change hands; a dropped connection leaves nothing behind | Subscriptions, UdpOutput, Buttons, Transformer |
| `TcpClient` (extplane-server/tcpclient.cpp) | subscribed refs, a baseline for each, held buttons, a `UdpSender` | lines sub, get, unsub, set, but, rel, cmd, disconnect; `refChanged`; `disconnectClient` | it is counted once for each ref it holds; its client is told of what it asked for | Subscriptions, ValueUpdates, UdpOutput, Buttons, HeldInputs, ClientValues |
| `DataRefProvider` | - (interface) | subscribeRef, unsubscribeRef, changeDataRef, ... | | through its implementations |
| `XPlanePlugin` (extplane-plugin/xplaneplugin.cpp) | registered DataRefs, the server, the publisher | flight loop, subscribe, unsubscribe, update, change, enable, disable | a name is polled exactly while it is used; a set writes what was asked for | Subscriptions, ValueUpdates, Buttons, HeldInputs |
| `DataRef` and its types, `DataDataRef` included (extplane-server/datarefs) | value, validity, accuracy, count, one-shot mark, UDP number | updateValue, setValue, setLength | invalid values stay inside, news is told | Subscriptions, ValueUpdates, MqttPublisher |
| `UdpSender` (extplane-server/udpsender.cpp) | list of changed refs | refChanged, flightLoop, un/subscribed | nothing deleted is on the list, no change is missing | UdpOutput |
| `BasicTcpClient` (util/basictcpclient.cpp) | socket, reconnect timer, host | start, disconnect, timer, socket signals | a lost connection is tried again | ClientConnection |
| `ExtPlaneConnection` (clients/extplane-client-qt) | `server_ok`, map of ClientDataRefs | start, stop, host change, handshake, un/subscribe, update lines | the plugin serves what is used | ClientConnection, UdpOutput, ClientRefs, HeldInputs, ClientValues |
| `ExtPlaneUdpClient` | map from number to ClientDataRef | datagram, un/subscribed | the number leads to its ref | UdpOutput |
| `ClientDataRef` | subscriber count, accuracy, texts and remembered numbers, UDP number | setSubscribers, updateValue, setValue, valueInt, ... | the count covers the users; every way to read tells of the latest value; sets take effect | ClientValues, ClientRefs, ClientConnection, UdpOutput |
| `ExtPlaneClient` | set of refs, which connection is in use, held buttons, running commands | un/subscribe, setSimulated, press, release, begin, end | a switch loses and keeps nothing it should not; the simulator holds what the program holds | ClientRefs, HeldInputs |
| `DataRef` (QML) | name, pointer to a ClientDataRef | create, name, rename, delete, provider switch, destroyed | a named element has a live ref of its name | ClientRefs |
| `SimulatedExtPlaneConnection` | map of simulated refs | subscribe, unsubscribe | nothing in the map is freed | ClientRefs |
| `MqttPublisher` (mqttpublisher) | refs, connected flag, client library | start, stop, poll, subscribe and set messages, publish | one subscriber of each ref; the broker ends with the simulator's values | MqttPublisher |
| `ExtPlaneTransformer`, `FlightGearDataSource`, `CondorDataSource` (extplane-transformer) | source, its refs, its link | choose a source, un/subscribe, read lines and datagrams | a source outlives its clients and is asked for what they need | Transformer |
| `NavCustomData` (extplane-plugin/customdata) | aids by sector | data callback | the reply lists what is near, fits its packet | CustomData |
| `ATCCustomData` (extplane-plugin/customdata) | position in the log, last communication | data callback | the last whole communication is shown | CustomData |
| plugin entry points (extplane-plugin/main.cpp) | - | start, enable, disable, stop | | enable and disable, in Subscriptions |
| programs, QML views, scripts | | | | not modelled, see below |

## The modules

Each module starts with a comment that names its sources, keeps the source's names for
variables and operators where it can, and has one action per handler. Operators called
`X_Something`, commented "Mutation of X", are plausible bugs: substituted for `X` they make
a property fail. They are not part of any specification.

### Subscriptions, SubscriptionService

The core of the plugin: which `TcpClient` holds which `DataRef` object, how many subscribers
the provider counts, when an object is made, polled and dropped.

| state | code |
|---|---|
| `pc`, `todo` | where the flight loop is; what its range-for has still to visit |
| `serverUp` | `XPlanePlugin::m_server` |
| `phase[c]` | life of a TcpClient: none, open, leaving (executing lines behind its disconnect line), closed (waiting for deletion), deleted |
| `subs[c]`, `conns[c]` | `m_subscribedRefs`; objects whose `changed` is connected to it |
| `m_refs`, `refName`, `count`, `oneShot` | the registry and each object's name, `_subscriberCount`, `_unsubscribeAfterChange` |

Actions: `Subscribe` (sub and get, held, shared or new), `Unsubscribe`, `SetValue` (which
emits `changed`), `DisconnectLine`, `EndOfLines`, `SocketDisconnected`, `DeleteClient`,
`DeleteRef`, `FlightLoop`/`UpdateRef`/`ProcessEvents`/`FlightLoopReturns`, `PluginEnable`,
`PluginDisable`. An object with the same name can be registered while its predecessor waits
for deletion. When an emission in the flight loop erases the visited object (a `get` that
was answered) the range-for's iterator is invalid: the next step may skip objects or crash.

`SubscriptionService` is what this amounts to for the rest of the program: a set of pairs
(connection, name), and the simulator polls exactly the names in it. The run checks
`ServiceSpec`, the refinement that maps objects to their names.

The run `subscriptions` has three connections, one plain and one UDP name, and three
objects - enough for two connections to share a name while a third ends, and for an old, a
new and a doomed object at once. It shows that counts equal holders (`CountExact`),
exactly what somebody holds is polled (`RegisteredIsHeld`), a name means one object,
signals are connected exactly where `refChanged` asserts it (`ConnectedIffSubscribed`), the
loop visits registered objects only, and a connection that stays open loses an unmarked
object by its own unsub only (`OnlyOwnUnsub`). No deadlock check: a crash of the loop stops
everything.

### ValueUpdates

One dataref's value on its way: simulator, shared object, and through each connection's
baseline and the shared accuracy to each client, with sets in the other direction. The kind
(scalar, float array, int array, data sent as base64, data sent as text) is chosen in `Init`;
`turn` alternates between the simulator and the plugin's event handlers.

Arrays and data objects have a second `buffer`. Into that of an array (`_valueArray`) the flight
loop copies the simulator's elements and a set its own, from there `changeDataRef` writes, and
`updateValue` takes them over to the value; an int array's set emits `changed` without doing
so. To that of a data object (`m_newValue`) the simulator's bytes are copied. It tells of news
only when its time is up; which flight loops find it up is a choice (`due`), as elapsed time is
unbounded between any two. The buffer is made anew when the length of the value differs from the simulator's
(`NewLength`); a set that gives the value that length leaves the buffer as it is, and if it is
shorter the simulator copies bytes behind its end (`xplaneplugin.cpp:172`). What that does is
undefined: either no harm comes of it, and the object takes what fits, or the process ends
(`CopyCrashes`). `Written` is what `changeDataRef` makes of the
object: bytes are written with the simulator's length, cut or filled up with zeros, and data
without the modifier string, or a set without quotes, writes the text the object holds.

The run `value_updates` has two clients (all sharing is pairwise), accuracies 0 and 2,
values 0..5, so that a value can creep past an accuracy in several steps each below it, and
byte strings of up to two bytes, zero or not. It
shows that the scalar or float array handlers see is what the simulator has, and so are the elements
that the next set of any array writes and the text of a string (`ObjectMirrorsSimulator`), that
values reach clients exactly when there are valid ones (`ServedWhenValid`), that a client is never
further from the value than twice the largest accuracy in force while it was subscribed
(`DriftBounded`; twice because a repeated sub sends without moving the baseline), and that
clients have the very bytes of a data object (`DataIsSent`).

The exceptions, each in its property's comment: a set of an int array emits `changed` before its
elements have the new values, and if it is new before it is valid, so that its clients are sent an empty
array; int arrays keep outdated baselines; bytes of a new length that are all
zero equal those `setLength` has just made, and nobody is told of them; a text set with another
length leaves the object with a length of its own until the next flight loop, one set to the
simulator's length may be cut by the buffer then, and a set without quotes cuts the simulator's bytes after the
text; of base64 data, which a set overwrites, `ObjectMirrorsSimulator` says nothing.

### UdpOutput

Datarefs with the `udp` modifier, from the server's number to the client's map. A
subscription is a TCP line; the server answers with a line that gives the dataref's number;
values come in datagrams of numbers. TCP queues are sequences, datagrams a set of messages
that may be read several times, in any order, or lost. `stale` is a history: who was not
sent the present value.

The run `udp_output` has two clients, a scalar and an array dataref (subscribed and
numbered but never sent, `udpsender.cpp`), two numbers (`MaxId`), two lines and one kind of
datagram on the way per client. Two numbers are as many as needed for a name to be given up
and come back under another number while a datagram with the old one is around. Numbers
never change hands (`OneRefPerNumber`), whoever holds a ref is told its number
(`EveryNumberAnnounced`), and the sender's list is exact
(`ListIsExact`): it names only held refs, so no deleted object is read, and forgets no change.
Deadlock is checked. That numbers wrap after 65535 objects in release builds is outside the
bound. A datagram that overtakes the announcement of its number leaves a null pointer under it
(`m_idRefMap[id]`), which `insert` does not replace, and every later value of that dataref is
dropped: an outcome of the model, no property rules it out.

### ClientConnection

`BasicTcpClient` and `ExtPlaneConnection`: socket, reconnect timer, `server_ok`, the map of
refs (absent, null pointer, live) and what the plugin serves. The environment refuses,
accepts and breaks connections and starts and stops plugins on two hosts.

Fairness, and what in the code justifies it: the timer fires again while it is active
(`WF TryReconnect`); an attempt to connect succeeds or fails (`WF Connected`, `WF Refused`);
a connection to a plugin that is gone is eventually reported broken
(`WF ConnectionLost /\ m_host \notin up`); the event loop reads what arrived
(`WF TakeHandshake`, `WF MistakeHandshake`). Nothing is assumed of users and plugins.

The run `client_connection` has two hosts, two datarefs with up to two users each and two
accuracies, at most two faults and three user changes (`MaxFaults`, `MaxChanges`: start, stop,
host change). After a handshake the plugin serves exactly what is used,
and in no mode anything nobody uses (`ServedIsUsed`). With which accuracy is not stated: that of
the first user stays in force, against the comment in `extplaneconnection.cpp:77`. A connection that was not
stopped is tried again until the client is served (`Recovers`, which exempts a client that
believes it is still connected, see `HandshakeSubscribesAll`, and a null pointer at the
handshake). A host change of a connected client only disconnects it
(`extplaneconnection.cpp:41`) and counts as a stop. No deadlock check: a crashed client stops.

### Buttons, HeldInputs

Buttons are the simulator's, one per number; each `TcpClient` remembers which it pressed
and releases them when its connection ends. `Buttons` is that, the plugin's side, and knows
nothing of programs: any connection may send any line at any time. `late` and `sole` are
histories: buttons pressed behind the connection's own disconnect line, and buttons only this
client has to do with.

`HeldInputs` extends it with programs that use the client library. `ExtPlaneClient` remembers
what its program holds and runs (`held`, `running`); a change is a line on the `wire` of the
present connection, or lost without one; either side can learn first that a connection has
ended. Some connections stay `Raw`: of programs that write lines of their own, which may say
disconnect. The plugin does not remember who began which command.

Fairness: the plugin reads the lines that have arrived (`WF LineRead`, `WF` of a raw
connection's end of lines: its event loop runs in every flight loop), and TCP tells it of a
connection that its program has ended (`WF ServerSideEnds`). Nothing is assumed of programs.

The run `held_inputs` has a program with two connections, a raw connection, a button, a command and
two lines on the way: enough for a press and its release on one wire, for a reconnect while the
old connection still counts, and for a second connection that presses the same button. The two
`Used` operators keep commands and raw connections apart, which share nothing.
No button is left down without an open connection that will release it, except a late one
(`NoStuckButton`); nobody lifts a button only one client has to do with (`OwnPressHolds`); when
the lines about it are read, a button is down exactly if the program pressed it on the present
connection and holds it, and a command that runs has a program that will end it
(`InputsAreWanted`) - after a reconnect nothing is pressed again, and nobody ends the command of
a connection that has ended; and a button that was let go comes up, whatever breaks
(`LetGoComesUp`). No deadlock check: in the end all connections
have ended.

### ClientRefs

Inside a client program: QML `DataRef` elements and C++ callers share `ClientDataRef`s by
name through `ExtPlaneClient` and its two connections. `lib` holds the ClientDataRefs (free,
live or doomed), the name map of the real and the simulated connection (in which an entry
may be `Dangling`) and `ExtPlaneClient::m_dataRefs`. `listens` says whose `destroyed` signal
an element is connected to; it is connected to every ref it ever had.

Deferred deletion (`DeleteRef`) is what is interesting here: between an unsubscribe and the
event loop the set still contains doomed refs, and the destroyed signal of an old ref comes
when the element has a new one. The simulated connection deletes at once instead. The model
ends (`broken`) where the program fails an assertion or uses freed memory; which steps can
do so is written out in the actions `...Fails`.

The run `client_refs` has two elements, two C++ callers, two names, three refs and at most
three subscribers of one: two of each are needed for sharing, a third ref for a doomed one
beside two live ones. Nobody who has a ref has a deleted, doomed, misnamed or foreign one, nor is one
in the client's set (`UsedIsLive`), counts cover users (`CountCoversUsers`), and an element that
shows a ref goes on showing one until its own name is cleared or it is destroyed, through renames, switches and
whatever others give up (`RefIsKept`). The one exception the property names: a renamed element loses its new ref when
the old one, to whose destroyed signal it is still connected, is deleted late (`dataref.cpp:154`).
C++ callers are taken to forget their refs at a
switch, as they must. One more outcome of the model: a switch leaves a map entry that points to freed
memory if its ref had more subscribers than the one the switch takes
(`extplaneclient.cpp:185`).

### ClientValues

The value of one `ClientDataRef`. It is kept as texts, an int, a float and a double (`cache`),
each made from the others when it is first asked for; a line brings texts, a datagram a number,
a set a text for one element. A set changes the object and sends a line, of all elements for an
array; the plugin takes what it can of it and tells of what is news. `toServer`, `toClient` and
`air` hold what is on its way.

Numbers are names, and what a conversion makes of one is a function, a constant: `Whole` (without the fraction),
`Single` (the nearest float), `Six` and `Ten` (the number shown with so many digits:
`QString::number` of a client's number or of an array's element, and of a plugin's double or float). So
`valueInt` goes through the float, a number of seven digits that comes by datagram reads as one of
six in `value()`, and the plugin's line for an array loses digits. The proofs ask of these functions
no more than that they give numbers and keep zero and the placeholder.

The plugin's `object` is `valid`, has the simulator's length (`whole`), has its buffer
(`ready`), or not. A new one is none of these: `sub` is answered with a value only if
somebody else's has been read, a set of a number that cannot be read writes the placeholder, and a
set of an array that comes before the first flight loop is lost and answered with an empty list. A text
is kept by the simulator up to its length (`Kept`); one of another length leaves
the object with zeros at the next flight loop, which compares with those and tells nobody if it reads nothing
else (`Blanked`, `hidden`); one of the full length that comes before the buffer is made
has the simulator copy behind its end (`VisitOverruns`).

Restrictions: the accuracy is zero, arrays are float arrays, the length of a text in the simulator
stays (ValueUpdates has it change), other connections only read the dataref, the plugin passes a
flight loop between two connections of the program, and a datagram is under way as soon as the
value has changed.

The run `client_values` has one dataref of each kind (int, float, double, text, an array of two
elements), writable or not, by line or by datagram, got from the connection or through
`ExtPlaneClient`; fractions of six, seven and eleven digits, 2^24 and 2^24 + 1, so that every conversion shows;
texts of, above and below the simulator's length; and two lines on the way in
each direction, so that two sets, an update between them and their echoes can cross. Datagrams
are a set: reordered and lost. It shows what every way to read makes of the latest value, whatever was read
before (`ReadsAgree`); that when nothing is on its way, program and simulator agree
(`InSyncWhenQuiet`); and that a
set is neither lost nor undone by a later one (`SetTakesEffect`). The comments name what the
code does not give: a float that came by datagram and was read as an int is shown truncated;
the numbers of an array whose element was set are the old ones; nobody tells a program that its
set was refused, rounded or cut; an object the plugin has not read since it is new or since its text
was set to another length has told nothing, and what then equals the zeros of `setLength` is
not told; the line of an array repeats an update that came after an earlier set, with six
digits; an array without elements takes no set; and
`setValues` sends nothing, because it clears the list before it signals.

### MqttPublisher

The plugin's MQTT output: subscribing at the provider on request, publishing retained
messages. Each answer of the broker that `poll` reads is an action. Messages of one topic
stay in order, so only the last one under way is kept (`pending`), and what the broker
retains.

Fairness: `poll` runs in every flight loop, and so does `updateDataRef`
(`WF PollAccepted`, `WF UpdateDataRef`); a broker that can be reached again and again is
eventually reached (`SF` of a reconnect that gets through) and takes what is sent
(`WF BrokerTakes`). Everything from outside - values that change, messages, losses, refusals,
TCP clients, enable and disable - is bounded together by `MaxDisturbance` = 7, and then stops.

The run `mqtt_publisher` has a writable float, a read-only int and a double. The
publisher is exactly one subscriber of each of its refs (`HeldOnce`), the last message of a
topic is the dataref's value while the publisher counts as connected (`LatestIsCurrent`), and
when the disturbances end the broker keeps the simulator's value of everything that was
published (`Settles`). Two things the model shows on the way: a set message of the wrong size
makes `setRef` subscribe again and call itself until the stack is full (`PollSetMisfit`), and
doubles have `dataSize` 0, so they are never published and no set of them fits. No deadlock
check: after `MaxDisturbance` nothing comes from outside.

### Transformer

`ExtPlaneTransformer` with its two sources. Unlike the plugin, a source makes a ref for each
client and name. A switch of the source disconnects the clients, deletes the source with its
refs and listens again; TcpClients that wait for their deletion keep a pointer to the deleted
one (`gone`). FlightGear has a count of subscriptions per property (`feed`) which ends with its
connection.

The run `transformer` has three connections and two names, one of which only Condor has. No
open connection has a deleted source, nobody holds a ref the source has not, and a source keeps
no ref for nobody but those of late lines (`SourceOutlivesClients`). FlightGear is asked for a
property once for each of its refs (`AskedForEachRef`) - except refs that are older than the
connection: after a reconnect only `data` is written and nothing is asked for again
(`flightgeardatasource.cpp:95`). A TcpClient that waits for its deletion with held buttons or
late refs when its source is deleted uses the deleted source (`SocketDisconnectedFails`); the
model stops there, hence no deadlock check.

### CustomData

The datarefs the plugin provides itself. `NavCallback` answers for `extplane/navdata/...`: the
first call builds the database (`Database`), each call collects the aids of nine sectors that
are within the radius, as long as they fit the packet: `AidsAround` is the three `Row`s of the
grid, `Scan` the lookup of one sector (a QMultiMap has the latest entry of a key first), `Look` the
body of its loop. `Scan` and `Length` are recursive functions, for the provers. The
coordinates of the sectors to look up are truncated to int, those of stored aids rounded down
(`Trunc`, `Floor`); the loop that builds the database skips the first aid and registers the end
of the list, under a sector made of uninitialized memory (`Garbage`).
`LineBegun` and `LineEnded` are another plugin that writes X-Plane's log, `OpenLog` and
`UpdateData` are the reader behind `extplane/atc/124thatc/latest`; `_gPos` and `cut` say where
in the log, and in its last line, it is.

The run `custom_data` puts the aircraft at 21 places, twenty on a grid around the equator and the
meridian and one away from both, with aids in its own sector and in neighbouring ones, a packet
that some replies fill, a radius of a degree and a half, and a log of up to four lines with two
communications. What is near is listed if it is in the aircraft's own sector, and if it is at most
a degree away each way where the grid is the aircraft's own, that is a degree or more north and east
of zero (`NearbyIsListed`); replies leave room for their zero, list only what is near, and nothing
twice but within a degree of zero (`ReplyIsSound`); the communication shown is the last whole one since the log was opened
(`CommIsLatest`). The two datarefs share no state and are not combined (`LogUnused`,
`NavUnused`). No deadlock check: a log that is full and could not be opened is an end.
Aids are near by the distance of coordinates, where the code has metres: meridians that converge
make the sectors of high latitudes narrower than the radius. There the grid does not reach all that
is near, as with the radius of the run; `NearbyIsListed` claims nothing of what is more than a degree away.

## Where code and documentation disagree

| run | what is said | what happens |
|---|---|---|
| `get_takes_from_others`, `GetEndsOnlyItsOwn` | `README.md:216`: "Get dataref value once, then unsubscribe." | The mark is on the shared object: the next change also unsubscribes every connection that sent `sub`. |
| `handshake_mistaken`, `HandshakeSubscribesAll` | `extplaneconnection.cpp:121`: "// Sub all refs" | After stop and start, `server_ok` is still set; the handshake line passes for an update and nothing is subscribed. |

Other disagreements met while modelling are part of the models, described with their hazards
in `PROJECT.json`, and have no run of their own: a `sub` behind a disconnect line leaves a
ref registered when the plugin is disabled, where `xplaneplugin.cpp:427` asserts there are
none; the accuracy of the last `sub` holds for all (`tcpclient.cpp:118`); a rejected `set`
writes what the object holds, the placeholder included (`tcpclient.cpp:186`);
`tcpclient.cpp:280` says and asserts "Never send invalid values", but a set of an int array that
no flight loop has visited emits `changed` for it all the same (`intarraydataref.cpp:69`), and a
release build sends `[]` (`ServedWhenValid` names it); `extplaneconnection.cpp:77` says
"// Re-subscribe with higher accuracy", but the line it writes repeats the accuracy of the first
user, as the ref's own is not changed; a changed host
name only disconnects (`extplaneconnection.cpp:41`); `UDP.md:45` promises that the values of
subscribed datarefs are sent in every flight loop, but after a datagram that overtakes the
announcement of its number every later value is dropped, too (`extplaneudpclient.cpp:57`); `dataref.h:14` says an element connects when its name is set, but a
renamed one loses its ref (`dataref.cpp:154`).

## Proofs

TLC shows the properties above for the instances above. TLAPS shows all of them but liveness for
every value of the constants, in eight modules of proofs. `HeldInputsProofs` has those of Buttons, too,
`ClientLibraryProofs` those of ClientConnection and ClientValues, `PluginExtrasProofs` those of
MqttPublisher and CustomData; so that a module of proofs can extend both, some have definitions
like `ValuesInit` or `CustomNext` for `Init` and `Next`. All have the same plan. The safety property is seldom inductive; the module
defines the parts it needs besides, joins them with `TypeOK` to the invariant `IInv` (`HeldInv`, `ValuesInv`, `CustomInv`),
shows `Init => IInv`, then action by action `IInv /\ [Next]_vars => IInv'`, and gets the
properties as corollaries. TLC has checked each `IInv` on the instance of the run before.

What is assumed of the constants is in the modules, named, and evaluated by TLC in the runs:
that bounds are natural numbers, that coordinates are integers, that values for "none" are none of the
others, that sets who are counted are finite. Everything else may be infinite: names, objects, connections, values, buttons.

| module | theorem | property |
|---|---|---|
| Subscriptions | `TypeCorrect` | `TypeOK`, with `count \in [Obj -> Nat]`: no count is ever negative |
| | `CountCorrect`, `NoIdlePolling`, `NoDangling` | the three parts of `Books` |
| | `RegisteredExactly`, `SharedByName` | `RegisteredIsHeld`, `OneObjectPerName` |
| | `SignalsMatchSubscriptions`, `LoopSafe` | `ConnectedIffSubscribed`, `LoopVisitsRegistered` |
| | `NobodyElseUnsubscribes` | the action property `OnlyOwnUnsub` |
| | `CoreImplementsService` | the refinement `ServiceSpec` |
| ValueUpdates | `ValuesTypeCorrect`, `ObjectIsCurrent` | `TypeOK`, `ObjectMirrorsSimulator` |
| | `BytesReachSubscribers`, `ServedExactlyWhenValid`, `DriftIsBounded` | `DataIsSent`, `ServedWhenValid`, `DriftBounded` |
| UdpOutput | `UdpTypeCorrect`, `SenderListExact` | `TypeOK`, `ListIsExact` |
| | `NumbersNeverChangeHands`, `HoldersAreTold` | `OneRefPerNumber`, `EveryNumberAnnounced` |
| ClientConnection | `ConnectionTypeCorrect`, `ServedExactlyWhatIsUsed` | `TypeOK`, `ServedIsUsed` |
| ClientRefs | `RefsTypeCorrect`, `UsersHaveLiveRefs`, `CountsCoverUsers` | `TypeOK`, `UsedIsLive`, `CountCoversUsers` |
| | `ElementsKeepRefs` | the action property `RefIsKept` |
| ClientValues | `ReadsOfOneValue` | `ReadsAgree` (with `ValuesTypeOK`), for any rounding functions |
| | `QuietMeansInSync`, `SetsTakeEffect` | `InSyncWhenQuiet`, `SetTakesEffect` |
| Buttons | `NoButtonLeftDown`, `OwnPressHeld` | `NoStuckButton`, `OwnPressHolds` |
| HeldInputs | `HeldImplementsButtons` | `HeldSpec => Spec` of Buttons; with it the two above |
| | `HeldTypeCorrect`, `SimulatorHasWhatIsWanted` | `HeldTypeOK`, `InputsAreWanted` (of commands: none runs that nobody will end, not that the wanted ones run) |
| MqttPublisher | `RefsAreHeldOnce`, `LastMessageIsCurrent` | `HeldOnce` (with `TypeOK`), `LatestIsCurrent` |
| CustomData | `LatestCommIsShown` | `CommIsLatest` |
| | `RepliesAreSound`, `NearbyAidsAreListed` | `ReplyIsSound` (with `CustomTypeOK`), `NearbyIsListed` |
| Transformer | `SourceOutlives`, `EachRefIsAskedFor` | `SourceOutlivesClients` (with `TypeOK`), `AskedForEachRef` |

**`SubscriptionsProofs`** assumes finitely many connections (`ClientFinite`: counts are
cardinalities), that the simulator's names are names (`NamesKnown`) and that `NoName` is none
(`NoNameFresh`).

    IInv == TypeOK /\ Books /\ Registered /\ ConnectedIffSubscribed /\ LoopVisitsRegistered

`Books` joins the three facts that only hold together: the count of a registered object is the
number of its holders, it has one, and what is held is registered. (The erase at count zero
removes an object nobody holds only if the count is exact; the count stays exact only if
nobody is missing from it.) `Registered` adds that registered objects have different names,
without which `SubscribeShared` could find the wrong one. The argument has one lemma for each way
subscriptions change. `LeavingKeepsBooks` says that if of every object some set of holders leaves
and the count goes down by its cardinality, the books stay exact; `DetachKeeps` (several
connections give up one object: unsub, an answered get) and `DrainKeeps` (some connections give
up everything: disconnects, shutdown) instantiate it. `JoiningKeepsBooks` is the converse.
For the refinement, `SubscribeNew` and `SubscribeShared` are a `Join`, `Detach` is a `LeaveName`, `Drain` a
`LeaveAll`, and every other action stutters; that exactly the subscribed names are polled follows from
`Books` and `Registered`.

**`ValueUpdatesProofs`**: `DriftBounded` speaks of two values that never meet, the object's and the client's.
Its invariant speaks of the baseline between them: each of the two is within the worst accuracy
of it (`BaseIsNear`), and that is at least the accuracy in force (`WorstCovers`); the sum is twice
the worst. `Books`, `InvalidIsSilent`, `ArraysServed` and `UnservedWaits` say what an object holds that is fresh or
not valid, and of a client that was sent nothing yet. The byte strings need lemmas of their own
(`BytesAreSequences` and those after it). The attempt to prove `ServedWhenValid`
corrected it: an object's placeholder is -999999, and with an accuracy above 999999 a first value
near zero does not differ enough from it to be sent (`tcpclient.cpp:288`). The property has
that condition now.

**`UdpOutputProofs`**: that a number belongs to one dataref is not inductive, as a fresh number must
be one that is in use nowhere. `Handed` says of every place that can have a number (server, line
on the way, client's map) that it was given out before, `Unique` that all of them mean the same
dataref; datagrams need not be considered, they carry values by number. `EveryNumberAnnounced`
needs `NumberedIsHeld` and `HeldIsLive`: the line that announces a number is passed over by a client
that has no object for it.

**`ClientLibraryProofs`**, ClientConnection: that what is used is served needs to know that nothing is served without
`server_ok` (`ServedIsBelieved`: a user who leaves without it writes no line), that after the handshake
`server_ok` and the socket are as `writeLine` wants them (`HandshakenIsUp`), and that the map of names, which
the handshake goes by, has the refs with users (`LiveIsUsed`).

ClientValues assumes that the conversions lead from numbers to numbers and keep zero and the placeholder, that
words that fill the simulator's length are kept, that texts are no
numbers, and that `Nothing` is neither. What a read returns depends on what was read before, so `Tells` says of each
thing an object can remember that it is made of the latest text or datagram (`Shown`, `NumbersOf`, which
names the numbers that can be there without a text); `ReadFields` and `Reads` say that a read
keeps that, whichever number it fills in, and needed the order in which `valueString` asks for the numbers. The two
properties about quiet moments follow from what is said of all of them: the last line of an object that has told
its value tells it, and if it has none under way, the program has the value or its own last line
is a set with what it shows (`EchoesOK`); what the program can expect to have set is in its last line, or
in the simulator (`SetsOK`). Both need that sub comes first and is followed by sets only (`LinesOK`), and
that an object of the right length is valid (`ObjectOK`).

**`ClientRefsProofs`** assumes finitely many elements and callers. A live ref must be the one entry
under its name (`LiveIsEntered`), or a shared one would not be found again, and C++ code that gives
a ref up by name would hit another. A call often lets go of one ref and takes another, so
the invariant is stated of any library and users (`Sound`), and each half of a call is a lemma. At a
switch everybody lets go, the simulation may end, and then each name in use gets a ref that counts
its elements (`AllAreUnsubscribed`, `SimulationIsStopped`, `SwitchSound`). `ElementsKeepRefs` goes by the
steps of `Next`: an element's pointer is cleared only by its own clearing and destruction and by a
deletion it listens to, and the invariant says that the deleted ref was doomed and so not the one it shows.

**`HeldInputsProofs`** assumes that raw connections are connections and that `None` is none.
In Buttons `NoStuckButton` is inductive with `TypeOK`; `OwnPressHolds` needs
`SoleIsAlone`: nobody else has the button in its set. `HeldImplementsButtons` has one step per action: whatever programs and
wires do is a step of Buttons or leaves its variables alone. `InputsAreWanted` speaks of moments when
nothing is under way; its invariant speaks of all of them. Of a button, the last line on the
wire tells what the program wants (`ButtonsOK`); of a command, every begin line is followed by its
end, unless the program still runs it (`CommandsOK`); and the wire of a program is its own (`ConnOK`).

**`PluginExtrasProofs`**, MqttPublisher: that a topic's last message is the dataref's value needs that the publisher
holds what it has announced, as a value ends with its object (`HeldOnce`), and that what was
announced would be published again when the broker is back (`AnnouncedIsPublishable`).

CustomData, the log: the last communication in the new lines is the last of all because each line is read once,
from where the log was opened on, less the line it was opened in (`ReadingOK`). That some line is
the last is a small induction: `Greatest` takes the least of the distances to the end of the log, by `WFMin`.

CustomData, the aids: the invariant only says that the reply is `AidsAround` the aircraft in some
`Database` (`NavInv`); the work is in the lemmas about what that is. A recursive function exists
(`Recursion`) and what its steps preserve holds at its end (`UpTo`), both by `WFMin` for sets of
numbers, as no operator can be a parameter. What `Look` preserves is `Found`: of the entries gone
through so far, each near one is in the reply or does not fit, now or any more, as a reply only grows
(`LengthOfMore`); what is in the reply is near, fits the packet and comes from one of them.
From there it goes entry by entry through a sector (`ScanFinds`), sector by sector through the grid
(`RowFinds`, `GridFinds`). Nothing is listed twice as long as no sector comes twice: the nine are
distinct but within a degree of zero (`CellsAreDistinct`), and the aids of the database are
(`DatabaseHolds`). `GridIsAround` is the arithmetic of rounding down and truncating: the own sector is always among the nine. Nothing
is assumed of radius and distance, nor of the sector made of garbage.

**`TransformerProofs`**: a switch ends open connections only, so the others must hold nothing of the
source, or only late refs, wherever they are in their lives (`IdleHoldNothing`, `LateOnly`,
`GoneHaveEnded`); and a connection that can subscribe has no ref of an earlier life (`OrphansAreDeleted`),
which a second ref of the same name would join without being asked for.

Only model-checked: liveness (`Recovers`, `Settles`, `LetGoComesUp`), as TLAPS has no ENABLED and so
no fairness. No module has a recursive operator.

## Conventions and abstractions

* **One action is one handler**, with every call it makes: a handler is not interrupted
  except where it hands control on, and there the model splits it (the flight loop, a
  buffer of lines behind a disconnect line).
* **Values** are kept only where a property depends on them: numbers and short byte strings in ValueUpdates, texts and
  numbers in ClientValues, two values in MqttPublisher, changed or not in UdpOutput, not at all elsewhere. An array has
  one element in ValueUpdates, or none before its first update, and two in ClientValues.
* **Assertions.** `Q_ASSERT` is compiled out of release builds. The modules follow the release
  build and state the assertions as properties where they are about the state
  (`ConnectedIffSubscribed`, `TypeOK` for counts, `NoDanglingSubscription`). ClientRefs alone
  stops at a failed assertion, because what follows is use of freed memory.
* **Undefined behaviour** is a choice of outcomes: the flight loop's invalid iterator (go on,
  skip, crash), a datagram for a deleted ref (nothing, or a crash). Uses of a null pointer and
  stack overflow end the program.
* **A client's line** is handled by the server in the step that writes it (UdpOutput,
  ClientConnection); only what the server sends takes time. HeldInputs and ClientValues have
  wires in both directions. The server's handler is atomic, so
  delaying the line as well orders nothing differently for anyone who can see it.
* **Histories** are variables no guard reads: `worst` (ValueUpdates; of `asked`, guards read
  only if the client is subscribed), `stale` (UdpOutput), `handshaken`, `halted` (ClientConnection), `late`, `sole` (Buttons), `sent`, `contested`,
  `abandoned` (HeldInputs), `latest`, `came`, `hidden`, `refused`, `wanted` (ClientValues; of `wanted`, only its own next value), `from` (CustomData), `late`,
  `older` (Transformer), `announced` (MqttPublisher).
* **Bounds** are constants: `MaxId`, `MaxLines`, `MaxDatagrams`, `MaxSubscribers`,
  `MaxFaults`, `MaxChanges`, `MaxDisturbance`, `MaxBytes`, `MaxWire`, `MaxLog`, and the sizes of the sets. A `TcpClient` is
  used for one connection, so `Client` bounds the connections of the plugin's life; objects and
  `ClientDataRef`s are used again after their deletion, as a heap does.
* **Transformer** leaves `get` out: with one ref per client it is a sub and an unsub. Lines that
  are read after the socket has closed are not modelled there.

## Not modelled

| part | why |
|---|---|
| keys, single commands, situations, FMS lines | sent straight to the simulator, no state |
| `extplane-set update_interval` | stores a number for X-Plane, which decides when the flight loop runs: no step here depends on it, except that 0 stops the loop for good |
| scale factor of the QML `DataRef`, binary format of data | conversion for display |
| formats, units, warnings, menus, QML views, demo client, main functions, build scripts | no state of the system's own |
| wrap of UDP numbers and connection numbers | needs 65535 objects or 255 connections |

## Plan

Done: the modules above, in that order; each is checked by its run before the next builds on
its understanding of shared parts (`phase` in Subscriptions, Buttons and Transformer, the
handshake in ClientConnection and UdpOutput).

Nothing that keeps state is left to model but the update interval and the numbers of connections;
what could grow are instances: arrays of more elements in ValueUpdates, two programs in
HeldInputs.

Nothing is left to prove but liveness. A new property of data kept in lists would be proved as
those of CustomData are: with the fold a recursive function, `Recursion`, and an invariant of its steps.
