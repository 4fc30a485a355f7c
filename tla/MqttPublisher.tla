--------------------------- MODULE MqttPublisher ---------------------------
(***************************************************************************)
(* The MQTT output of the plugin: datarefs that messages to                *)
(* ExtPlane/subscribe and ExtPlane/set/<name> ask for are subscribed at    *)
(* the plugin, like a TcpClient's, and their values published as retained  *)
(* messages under ExtPlane/<name>.                                         *)
(*                                                                         *)
(* Everything runs on X-Plane's main thread; the broker's answers are read *)
(* by poll, at most one of them in each flight loop, and each is one       *)
(* action.  The broker and the messages on their way to it are outside the *)
(* code: of the messages of a topic, which stay in order, only the last    *)
(* one is kept.                                                            *)
(*                                                                         *)
(* Sources: mqttpublisher/mqttpublisher.cpp, mqttpublisher/mqttclient.cpp, *)
(* extplane-plugin/xplaneplugin.cpp, extplane-server/datarefs/.            *)
(***************************************************************************)
EXTENDS Integers

CONSTANTS Name,            \* datarefs of the simulator
          Sized,           \* of them, those with raw data: ints and floats
          Writable,        \* of them, those the simulator lets plugins write
          Value,           \* what a dataref can hold in the simulator
          Placeholder,     \* what an object holds before its first update
          None,            \* no value
          MaxDisturbance   \* bound on what happens from outside

ASSUME NamesAssumption == Sized \subseteq Name /\ Writable \subseteq Name
ASSUME ValuesAssumption == Placeholder \in Value /\ None \notin Value
ASSUME DisturbanceAssumption == MaxDisturbance \in Nat

VARIABLES m_mqttClient,  \* the publisher is started
          m_connected,
          m_refs,        \* names of the datarefs the publisher subscribed
          others,        \* names TCP clients are subscribed to
          count,         \* subscriberCount of the plugin's object of each name
          val,           \* its value, None while it is not valid or not there
          sim,           \* the simulator's value
          link,          \* to the broker: "down", "opening" or "up"
          pending,       \* last message of each topic that the broker does not have yet
          retained,      \* what the broker keeps of each topic
          announced,     \* history: names published since they were subscribed
          disturbance,   \* what happened from outside
          crashed        \* the stack overflowed

vars == <<m_mqttClient, m_connected, m_refs, others, count, val, sim, link, pending, retained,
          announced, disturbance, crashed>>
broker == <<link, retained>>

Init ==
  /\ m_mqttClient = FALSE /\ m_connected = FALSE
  /\ m_refs = {} /\ others = {} /\ announced = {}
  /\ count = [n \in Name |-> 0]
  /\ val = [n \in Name |-> None]
  /\ sim \in [Name -> Value]
  /\ link = "down"
  /\ pending = [n \in Name |-> None]
  /\ retained = [n \in Name |-> None]
  /\ disturbance = 0
  /\ crashed = FALSE

Disturb == disturbance < MaxDisturbance /\ disturbance' = disturbance + 1

-----------------------------------------------------------------------------
(* Outside: the simulator, TCP clients and the broker *)

SimChanges(n, v) ==
  /\ Disturb
  /\ sim[n] # v
  /\ sim' = [sim EXCEPT ![n] = v]
  /\ UNCHANGED <<m_mqttClient, m_connected, m_refs, others, count, val, broker, pending,
                 announced, crashed>>

\* The object of a name is shared with TCP clients and goes with its last subscriber.
TcpSubscribe(n) ==
  /\ Disturb /\ ~crashed
  /\ n \notin others
  /\ others' = others \cup {n}
  /\ count' = [count EXCEPT ![n] = @ + 1]
  /\ UNCHANGED <<m_mqttClient, m_connected, m_refs, val, sim, broker, pending, announced, crashed>>

TcpUnsubscribe(n) ==
  /\ Disturb /\ ~crashed
  /\ n \in others
  /\ others' = others \ {n}
  /\ count' = [count EXCEPT ![n] = @ - 1]
  /\ val' = [val EXCEPT ![n] = IF count[n] = 1 THEN None ELSE @]
  /\ UNCHANGED <<m_mqttClient, m_connected, m_refs, sim, broker, pending, announced, crashed>>

\* Messages that were published stay with the client library, which repeats them.
LinkLost ==
  /\ Disturb
  /\ link # "down"
  /\ link' = "down"
  /\ UNCHANGED <<m_mqttClient, m_connected, m_refs, others, count, val, sim, pending, retained,
                 announced, crashed>>

BrokerTakes(n) ==
  /\ link = "up"
  /\ pending[n] # None
  /\ retained' = [retained EXCEPT ![n] = pending[n]]
  /\ pending' = [pending EXCEPT ![n] = None]
  /\ UNCHANGED <<m_mqttClient, m_connected, m_refs, others, count, val, sim, link, announced,
                 disturbance, crashed>>

-----------------------------------------------------------------------------
(* The plugin *)

\* refChanged of the publisher for the refs N, whose values are now as in value.
RefChanged(N, value) ==
  LET P == {n \in N : m_connected /\ n \in Sized}
  IN  /\ pending' = [n \in Name |-> IF n \in P THEN value[n] ELSE pending[n]]
      /\ announced' = announced \cup P

\* updateDataRef of the flight loop; who is connected to changed is told.
UpdateDataRef(n) ==
  /\ ~crashed
  /\ count[n] > 0
  /\ val[n] # sim[n]
  /\ val' = [val EXCEPT ![n] = sim[n]]
  /\ RefChanged({n} \cap m_refs, val')
  /\ UNCHANGED <<m_mqttClient, m_connected, m_refs, others, count, sim, broker, disturbance, crashed>>

\* pluginEnable: the constructor of the client connects.
Start ==
  /\ Disturb /\ ~crashed
  /\ ~m_mqttClient
  /\ m_mqttClient' = TRUE
  /\ m_connected' = FALSE
  /\ link' \in {"down", "opening"}
  /\ UNCHANGED <<m_refs, others, count, val, sim, pending, retained, announced, crashed>>

\* pluginDisable stops the publisher first and then disconnects the TCP clients.
Stop ==
  /\ Disturb /\ ~crashed
  /\ m_mqttClient
  /\ m_mqttClient' = FALSE /\ m_connected' = FALSE
  /\ m_refs' = {} /\ announced' = {} /\ others' = {}
  /\ count' = [n \in Name |-> count[n] - (IF n \in m_refs THEN 1 ELSE 0)
                                       - (IF n \in others THEN 1 ELSE 0)]
  /\ val' = [n \in Name |-> IF count'[n] = 0 THEN None ELSE val[n]]
  /\ link' = "down"
  /\ pending' = [n \in Name |-> None]
  /\ UNCHANGED <<sim, retained, crashed>>

-----------------------------------------------------------------------------
(* poll *)

\* Mutation of Reconnect: the loss is noticed, but nothing connects again.
Reconnect_Not == {"down"}

\* Where a reconnect leads: it may reach the broker.
Reconnect == {"down", "opening"}

\* loop reports an error: reconnect.
PollDown ==
  /\ ~crashed /\ m_mqttClient
  /\ link = "down"
  /\ m_connected' = FALSE
  /\ link' \in Reconnect
  /\ UNCHANGED <<m_mqttClient, m_refs, others, count, val, sim, pending, retained, announced,
                 disturbance, crashed>>

\* Mutation of Publishable: nothing is published again.
Publishable_None == {}

\* Refs publishRef publishes: valid ones, of a type with a size.
Publishable == {n \in m_refs \cap Sized : val[n] # None}

\* on_connect, the broker accepts: every valid ref is published.
PollAccepted ==
  /\ ~crashed /\ m_mqttClient
  /\ link = "opening"
  /\ link' = "up" /\ m_connected' = TRUE
  /\ pending' = [n \in Name |-> IF n \in Publishable THEN val[n] ELSE pending[n]]
  /\ announced' = announced \cup Publishable
  /\ UNCHANGED <<m_mqttClient, m_refs, others, count, val, sim, retained, disturbance, crashed>>

\* on_connect, the broker refuses.
PollRefused ==
  /\ Disturb /\ ~crashed /\ m_mqttClient
  /\ link = "opening"
  /\ link' = "down" /\ m_connected' = FALSE
  /\ UNCHANGED <<m_mqttClient, m_refs, others, count, val, sim, pending, retained, announced, crashed>>

\* A message can arrive.
CanReceive == ~crashed /\ m_mqttClient /\ link = "up"

\* Mutation of PollSubscribe: a name that is subscribed already is subscribed again.
PollSubscribe_Again(n) ==
  /\ Disturb /\ CanReceive
  /\ m_refs' = m_refs \cup {n}
  /\ count' = [count EXCEPT ![n] = @ + 1]
  /\ UNCHANGED <<m_mqttClient, m_connected, others, val, sim, broker, pending, announced, crashed>>

\* A message on ExtPlane/subscribe for a name that is not subscribed yet.
PollSubscribe(n) ==
  /\ Disturb /\ CanReceive
  /\ n \notin m_refs
  /\ m_refs' = m_refs \cup {n}
  /\ count' = [count EXCEPT ![n] = @ + 1]
  /\ UNCHANGED <<m_mqttClient, m_connected, others, val, sim, broker, pending, announced, crashed>>

\* A message on ExtPlane/set/<n> whose payload has the size of the dataref, which is 0
\* for one without raw data: then the object's own value is written.
PollSet(n, v) ==
  /\ Disturb /\ CanReceive
  /\ n \notin Sized => v = (IF val[n] = None THEN Placeholder ELSE val[n])
  /\ m_refs' = m_refs \cup {n}
  /\ count' = [count EXCEPT ![n] = IF n \in m_refs THEN @ ELSE @ + 1]
  /\ IF n \in Sized
       THEN val' = [val EXCEPT ![n] = v] /\ RefChanged(IF val[n] = v THEN {} ELSE {n}, val')
       ELSE UNCHANGED <<val, pending, announced>>
  /\ sim' = IF n \in Writable THEN [sim EXCEPT ![n] = v] ELSE sim
  /\ UNCHANGED <<m_mqttClient, m_connected, others, broker, crashed>>

\* A payload of another size: setRef subscribes the name again and calls itself, until
\* the stack is full.
PollSetMisfit(n) ==
  /\ Disturb /\ CanReceive
  /\ crashed' = TRUE
  /\ UNCHANGED <<m_mqttClient, m_connected, m_refs, others, count, val, sim, broker, pending,
                 announced>>

-----------------------------------------------------------------------------
Next ==
  \/ LinkLost \/ Start \/ Stop \/ PollDown \/ PollAccepted \/ PollRefused
  \/ \E n \in Name :
       \/ TcpSubscribe(n) \/ TcpUnsubscribe(n) \/ BrokerTakes(n) \/ UpdateDataRef(n)
       \/ PollSubscribe(n) \/ PollSetMisfit(n)
       \/ \E v \in Value : SimChanges(n, v) \/ PollSet(n, v)

\* The flight loop goes on updating and polling, a reconnect is not refused for ever, and
\* the broker takes what is sent to it.
Fairness ==
  /\ WF_vars(PollAccepted)
  /\ SF_vars(PollDown /\ link' = "opening")
  /\ \A n \in Name : WF_vars(UpdateDataRef(n)) /\ WF_vars(BrokerTakes(n))

Spec == Init /\ [][Next]_vars /\ Fairness

-----------------------------------------------------------------------------
(* Properties *)

\* Every variable has its type; a publisher that is not started holds nothing, and
\* only one the broker has accepted counts as connected.
TypeOK ==
  /\ m_mqttClient \in BOOLEAN /\ m_connected \in BOOLEAN /\ crashed \in BOOLEAN
  /\ m_refs \subseteq Name /\ others \subseteq Name /\ announced \subseteq m_refs
  /\ count \in [Name -> Nat]
  /\ val \in [Name -> Value \cup {None}] /\ sim \in [Name -> Value]
  /\ link \in {"down", "opening", "up"}
  /\ pending \in [Name -> Value \cup {None}] /\ retained \in [Name -> Value \cup {None}]
  /\ disturbance \in 0 .. MaxDisturbance
  /\ ~m_mqttClient => m_refs = {} /\ ~m_connected /\ link = "down"
  /\ link = "up" => m_connected

\* Whatever is asked for twice, set before it is subscribed, or shared with TCP clients:
\* the publisher is one subscriber of each of its refs, and none after a stop (setRef,
\* subscribeRef); and every variable has its type.
HeldOnce ==
  /\ TypeOK
  /\ \A n \in Name : count[n] = (IF n \in m_refs THEN 1 ELSE 0) + (IF n \in others THEN 1 ELSE 0)

\* Through lost and refused connections, a topic's last message is the dataref's value
\* as long as the publisher counts as connected, once anything was published of it.
LatestIsCurrent ==
  m_connected => \A n \in announced :
    val[n] = (IF pending[n] = None THEN retained[n] ELSE pending[n])

\* When nothing happens from outside any more, the broker keeps the simulator's value of
\* every dataref that was published - one the simulator refused to change included.
Settles ==
  <>[](crashed \/ \A n \in announced : retained[n] = sim[n])
=============================================================================
