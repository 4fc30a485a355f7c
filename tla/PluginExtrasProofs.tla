------------------------- MODULE PluginExtrasProofs -------------------------
(***************************************************************************)
(* Proofs about what the plugin does beside its TCP and UDP service:       *)
(* MqttPublisher, for any datarefs, values and bounds, and CustomData, for *)
(* any communications, log, aids, places, radius and packet. The modules   *)
(* share no variable; each theorem is about one of them.                   *)
(*                                                                         *)
(* That a topic's last message is the dataref's value is not inductive.    *)
(* A value disappears with its object, so that the publisher must hold     *)
(* what it has announced (HeldOnce), and when the broker is back only refs *)
(* with a size and a value are published again, so that those announced    *)
(* must be among them (AnnouncedIsPublishable).                            *)
(*                                                                         *)
(* That the last communication of the new lines is the last of all needs   *)
(* that reading goes on where it ended, or where the log was opened        *)
(* (ReadingOK).                                                            *)
(*                                                                         *)
(* A reply with navigation aids is what two nested recursions make of the  *)
(* database. That such a function exists, and what its steps preserve, is  *)
(* shown by induction on sets of numbers (UpTo, Recursion); what they      *)
(* preserve is Found: of the entries gone through so far, each near one is *)
(* in the reply or does not fit any more.                                  *)
(***************************************************************************)
EXTENDS MqttPublisher, CustomData, SequenceTheorems, WellFoundedInduction, TLAPS

-----------------------------------------------------------------------------
(* MqttPublisher *)

\* A name that was published is one that would be published again.
AnnouncedIsPublishable == announced \subseteq Publishable

\* The inductive invariant.
IInv == HeldOnce /\ AnnouncedIsPublishable /\ LatestIsCurrent

\* The number of subscribers of n the publisher and the TCP clients make.
Holding(n) == (IF n \in m_refs THEN 1 ELSE 0) + (IF n \in others THEN 1 ELSE 0)

\* Counts: each subscription and each end of one changes a count and a set together.
LEMMA CountStep ==
  ASSUME HeldOnce, [Next]_vars
  PROVE  \A n \in Name : count'[n] = Holding(n)'
<1> USE DEF HeldOnce, TypeOK, Holding
<1>1. CASE UNCHANGED <<m_refs, others, count>>
  BY <1>1
<1>2. ASSUME NEW n \in Name, TcpSubscribe(n) \/ TcpUnsubscribe(n)
      PROVE  \A m \in Name : count'[m] = Holding(m)'
  BY <1>2 DEF TcpSubscribe, TcpUnsubscribe
<1>3. ASSUME NEW n \in Name, PollSubscribe(n) \/ \E v \in Value : PollSet(n, v)
      PROVE  \A m \in Name : count'[m] = Holding(m)'
  BY <1>3 DEF PollSubscribe, PollSet
<1>4. CASE Stop
  BY <1>4 DEF Stop
<1>5. QED
  BY <1>1, <1>2, <1>3, <1>4
     DEF Next, vars, LinkLost, Start, PollDown, PollAccepted, PollRefused, BrokerTakes,
         UpdateDataRef, PollSetMisfit, SimChanges

\* Types.
LEMMA TypeStep ==
  ASSUME HeldOnce, AnnouncedIsPublishable, [Next]_vars
  PROVE  TypeOK'
<1> USE NamesAssumption, ValuesAssumption DEF HeldOnce, TypeOK, broker
<1>1. disturbance' \in 0..MaxDisturbance
  <2>1. \/ disturbance' = disturbance
        \/ disturbance < MaxDisturbance /\ disturbance' = disturbance + 1
    BY DEF Next, vars, LinkLost, Start, Stop, PollDown, PollAccepted, PollRefused, BrokerTakes,
           UpdateDataRef, PollSubscribe, PollSet, PollSetMisfit, SimChanges, TcpSubscribe,
           TcpUnsubscribe, Disturb
  <2>2. QED
    BY <2>1, DisturbanceAssumption
<1>2. count' \in [Name -> Nat]
  <2>1. \/ count' = count
        \/ \E n \in Name : \/ count' = [count EXCEPT ![n] = @ + 1]
                           \/ count' = [count EXCEPT ![n] = @ - 1]
                           \/ count' = [count EXCEPT ![n] = IF n \in m_refs THEN @ ELSE @ + 1]
        \/ count' = [n \in Name |-> count[n] - (IF n \in m_refs THEN 1 ELSE 0)
                                             - (IF n \in others THEN 1 ELSE 0)]
    BY DEF Next, vars, LinkLost, Start, Stop, PollDown, PollAccepted, PollRefused, BrokerTakes,
           UpdateDataRef, PollSubscribe, PollSet, PollSetMisfit, SimChanges, TcpSubscribe,
           TcpUnsubscribe
  <2>2. count' \in [Name -> Int]
    BY <2>1
  <2>3. \A n \in Name : Holding(n)' \in Nat
    BY DEF Holding
  <2>4. QED
    BY <2>2, <2>3, CountStep
<1> DEFINE Rest ==
      /\ m_mqttClient' \in BOOLEAN /\ m_connected' \in BOOLEAN /\ crashed' \in BOOLEAN
      /\ m_refs' \subseteq Name /\ others' \subseteq Name /\ announced' \subseteq m_refs'
      /\ val' \in [Name -> Value \cup {None}] /\ sim' \in [Name -> Value]
      /\ link' \in {"down", "opening", "up"}
      /\ pending' \in [Name -> Value \cup {None}] /\ retained' \in [Name -> Value \cup {None}]
      /\ ~m_mqttClient' => m_refs' = {} /\ ~m_connected' /\ link' = "down"
      /\ link' = "up" => m_connected'
<1>3. ASSUME UNCHANGED vars PROVE Rest
  BY <1>3 DEF vars
<1>4. ASSUME NEW n \in Name, NEW v \in Value, SimChanges(n, v) PROVE Rest
  BY <1>4 DEF SimChanges
<1>5. ASSUME NEW n \in Name, TcpSubscribe(n) PROVE Rest
  BY <1>5 DEF TcpSubscribe
<1>6. ASSUME NEW n \in Name, TcpUnsubscribe(n) PROVE Rest
  BY <1>6 DEF TcpUnsubscribe
<1>7. ASSUME LinkLost PROVE Rest
  BY <1>7 DEF LinkLost
<1>8. ASSUME NEW n \in Name, BrokerTakes(n) PROVE Rest
  BY <1>8 DEF BrokerTakes
<1>9. ASSUME NEW n \in Name, UpdateDataRef(n) PROVE Rest
  BY <1>9 DEF UpdateDataRef, RefChanged
<1>10. ASSUME Start PROVE Rest
  BY <1>10 DEF Start
<1>11. ASSUME Stop PROVE Rest
  BY <1>11 DEF Stop
<1>12. ASSUME PollDown PROVE Rest
  BY <1>12 DEF PollDown, Reconnect
<1>13. ASSUME PollAccepted PROVE Rest
  BY <1>13 DEF PollAccepted, Publishable
<1>14. ASSUME PollRefused PROVE Rest
  BY <1>14 DEF PollRefused
<1>15. ASSUME NEW n \in Name, PollSubscribe(n) PROVE Rest
  BY <1>15 DEF PollSubscribe, CanReceive
<1>16. ASSUME NEW n \in Name, PollSetMisfit(n) PROVE Rest
  BY <1>16 DEF PollSetMisfit
<1>17. ASSUME NEW n \in Name, NEW v \in Value, PollSet(n, v) PROVE Rest
  BY <1>17 DEF PollSet, CanReceive, RefChanged
<1>18. Rest
  BY <1>3, <1>4, <1>5, <1>6, <1>7, <1>8, <1>9, <1>10, <1>11, <1>12, <1>13, <1>14, <1>15,
     <1>16, <1>17 DEF Next
<1>19. QED
  BY <1>1, <1>2, <1>18

\* Messages: what is published is the value, and stays the last message of its topic.
LEMMA MessageStep ==
  ASSUME IInv, [Next]_vars
  PROVE  AnnouncedIsPublishable' /\ LatestIsCurrent'
<1> USE NamesAssumption, ValuesAssumption
    DEF IInv, HeldOnce, TypeOK, AnnouncedIsPublishable, Publishable, LatestIsCurrent, broker
<1>1. CASE UNCHANGED <<m_connected, m_refs, val, pending, retained, announced>>
  BY <1>1
<1>2. ASSUME NEW n \in Name, TcpUnsubscribe(n)
      PROVE  AnnouncedIsPublishable' /\ LatestIsCurrent'
  <2>1. \A m \in announced : val'[m] = val[m]
    BY <1>2 DEF TcpUnsubscribe
  <2>2. QED
    BY <1>2, <2>1 DEF TcpUnsubscribe
<1>3. ASSUME NEW n \in Name, BrokerTakes(n)
      PROVE  AnnouncedIsPublishable' /\ LatestIsCurrent'
  BY <1>3 DEF BrokerTakes
<1>4. ASSUME NEW n \in Name, UpdateDataRef(n)
      PROVE  AnnouncedIsPublishable' /\ LatestIsCurrent'
  BY <1>4 DEF UpdateDataRef, RefChanged
<1>5. CASE Start \/ PollDown \/ PollRefused
  BY <1>5 DEF Start, PollDown, PollRefused
<1>6. CASE Stop
  BY <1>6 DEF Stop
<1>7. CASE PollAccepted
  BY <1>7 DEF PollAccepted
<1>8. ASSUME NEW n \in Name, PollSubscribe(n)
      PROVE  AnnouncedIsPublishable' /\ LatestIsCurrent'
  BY <1>8 DEF PollSubscribe
<1>9. ASSUME NEW n \in Name, NEW v \in Value, PollSet(n, v)
      PROVE  AnnouncedIsPublishable' /\ LatestIsCurrent'
  BY <1>9 DEF PollSet, CanReceive, RefChanged
<1>10. QED
  BY <1>1, <1>2, <1>3, <1>4, <1>5, <1>6, <1>7, <1>8, <1>9
     DEF Next, vars, SimChanges, TcpSubscribe, LinkLost, PollSetMisfit

\* The initial state: nothing is subscribed or published.
LEMMA InitIInv == Init => IInv
<1> SUFFICES ASSUME Init PROVE IInv
  OBVIOUS
<1>1. 0 \in 0..MaxDisturbance
  BY DisturbanceAssumption
<1>2. TypeOK
  BY <1>1 DEF Init, TypeOK
<1>3. QED
  BY <1>2 DEF Init, IInv, HeldOnce, AnnouncedIsPublishable, LatestIsCurrent

\* The inductive invariant holds in every reachable state.
THEOREM PublisherInvariance == Spec => []IInv
<1>1. IInv /\ [Next]_vars => IInv'
  BY CountStep, TypeStep, MessageStep DEF IInv, HeldOnce, Holding
<1>2. QED
  BY InitIInv, <1>1, PTL DEF Spec

\* The publisher is one subscriber of each of its refs, however it came to subscribe them;
\* and every variable keeps its type.
THEOREM RefsAreHeldOnce == Spec => []HeldOnce
  BY PublisherInvariance, PTL DEF IInv

\* While the publisher counts as connected, the last message of every topic it has
\* published is the dataref's value.
THEOREM LastMessageIsCurrent == Spec => []LatestIsCurrent
  BY PublisherInvariance, PTL DEF IInv

-----------------------------------------------------------------------------
(* CustomData *)

\* Where the log is read goes with the first line that counts: it is the next, or, when the
\* log was opened inside a line, the one after that.
ReadingOK ==
  /\ log \in Seq(Comm \cup {NoComm}) /\ partial \in Comm \cup {NoComm, NoLine}
  /\ _gPos \in 0..Len(log) /\ from \in Nat
  /\ cut \in BOOLEAN
  /\ cut => from = _gPos + 2
  /\ ~cut => from <= _gPos + 1

\* Nothing is shown before the log was opened.
UnopenedShowsNothing == follows = "not yet" => comm = NoComm

\* Lines that were read and have a communication; what is shown is the last of them.
Seen == {i \in DOMAIN log : i \in from.._gPos /\ log[i] # NoComm}
LastIsShown == IF Seen = {} THEN comm = NoComm
               ELSE \E m \in Seen : (\A j \in Seen : j <= m) /\ comm = log[m]

LogInv == ReadingOK /\ UnopenedShowsNothing /\ LastIsShown

\* A set of numbers has a greatest: the one that leaves least to the bound.
LEMMA Greatest ==
  ASSUME NEW n \in Nat, NEW S \in SUBSET (1..n), S # {}
  PROVE  \E m \in S : \A j \in S : j <= m
<1> DEFINE T == {n - i : i \in S}
<1>1. T \in SUBSET Nat /\ T # {}
  <2>1. \A i \in S : n - i \in Nat
    OBVIOUS
  <2>2. PICK i \in S : TRUE
    OBVIOUS
  <2>3. n - i \in T
    BY <2>2
  <2>4. QED
    BY <2>1, <2>3
<1> HIDE DEF T
<1>2. PICK k \in T : \A j \in T : k <= j
  <2> DEFINE R == {ss \in Nat \X Nat : ss[1] < ss[2]}
  <2>1. IsWellFoundedOn(R, Nat)
    BY NatLessThanWellFounded DEF OpToRel
  <2> HIDE DEF R
  <2>2. PICK k \in T : \A j \in T : <<j, k>> \notin R
    BY <1>1, <2>1, WFMin
  <2>3. \A j \in T : ~(j < k)
    BY <1>1, <2>2 DEF R
  <2>4. QED
    BY <1>1, <2>3
<1>3. PICK m \in S : k = n - m
  BY <1>2 DEF T
<1>4. ASSUME NEW j \in S PROVE j <= m
  <2>1. n - m <= n - j
    BY <1>2, <1>3 DEF T
  <2>2. QED
    BY <2>1
<1>5. QED
  BY <1>4

\* It is what is chosen.
LEMMA GreatestIsChosen ==
  ASSUME NEW S \in SUBSET Nat, NEW m \in S, \A j \in S : j <= m
  PROVE  (CHOOSE i \in S : \A j \in S : j <= i) = m
<1>1. \A i \in S : (\A j \in S : j <= i) => i = m
  OBVIOUS
<1>2. QED
  BY <1>1

\* The lines that were not read yet.
LEMMA LinesToRead ==
  ASSUME ReadingOK
  PROVE  /\ Len(NewLines) \in Nat /\ DOMAIN NewLines = 1..Len(NewLines)
         /\ Len(NewLines) = Len(log) - _gPos /\ Len(log) \in Nat /\ _gPos \in Nat
         /\ \A i \in 1..Len(NewLines) : NewLines[i] = log[_gPos + i] /\ _gPos + i \in 1..Len(log)
<1> DEFINE S == Comm \cup {NoComm}
<1>1. log \in Seq(S) /\ Len(log) \in Nat /\ _gPos \in 0..Len(log)
  BY DEF ReadingOK
<1> HIDE DEF S
<1>2. \A i \in (_gPos + 1)..Len(log) : log[i] \in S
  BY <1>1
<1>3. /\ NewLines \in Seq(S)
      /\ Len(NewLines) = IF _gPos + 1 <= Len(log) THEN Len(log) - (_gPos + 1) + 1 ELSE 0
      /\ \A i \in 1..(Len(log) - (_gPos + 1) + 1) : NewLines[i] = log[_gPos + 1 + i - 1]
  BY <1>1, <1>2, SubSeqProperties DEF NewLines
<1>4. Len(NewLines) = Len(log) - _gPos
  BY <1>1, <1>3
<1>5. ASSUME NEW i \in 1..Len(NewLines)
      PROVE  NewLines[i] = log[_gPos + i] /\ _gPos + i \in 1..Len(log)
  <2>1. i \in 1..(Len(log) - (_gPos + 1) + 1) /\ _gPos + 1 + i - 1 = _gPos + i
    BY <1>1, <1>4
  <2>2. _gPos + i \in 1..Len(log)
    BY <1>1, <1>4
  <2>3. QED
    BY <1>3, <2>1, <2>2
<1>6. DOMAIN NewLines = 1..Len(NewLines) /\ Len(NewLines) \in Nat
  BY <1>3
<1>7. QED
  BY <1>1, <1>4, <1>5, <1>6

\* What was read stays what it was.
LEMMA LogSteps ==
  ASSUME LogInv, NavCallback \/ LineBegun \/ LineEnded \/ OpenLog \/ UNCHANGED customVars
  PROVE  LogInv'
<1>1. ReadingOK /\ UnopenedShowsNothing /\ LastIsShown
  BY DEF LogInv
<1>2. CASE NavCallback \/ UNCHANGED customVars \/ LineBegun
  <2>1. /\ UNCHANGED <<log, follows, _gPos, cut, comm, from>>
        /\ partial' \in {partial} \cup Comm \cup {NoComm}
    BY <1>2 DEF NavCallback, LineBegun, customVars, atcVars
  <2>2. QED
    BY <1>1, <2>1 DEF LogInv, ReadingOK, UnopenedShowsNothing, LastIsShown, Seen
<1>3. CASE LineEnded
  <2>1. /\ log' = Append(log, partial) /\ partial \in Comm \cup {NoComm} /\ partial' = NoLine
        /\ UNCHANGED <<follows, _gPos, cut, comm, from>>
    BY <1>1, <1>3 DEF LineEnded, ReadingOK
  <2>2. /\ log' \in Seq(Comm \cup {NoComm}) /\ Len(log') = Len(log) + 1 /\ Len(log) \in Nat
        /\ \A i \in 1..Len(log) : log'[i] = log[i]
    BY <1>1, <2>1, AppendProperties DEF ReadingOK
  <2>3. ReadingOK'
    BY <1>1, <2>1, <2>2 DEF ReadingOK
  <2>4. Seen' = Seen
    <3>1. DOMAIN log = 1..Len(log) /\ DOMAIN log' = 1..(Len(log) + 1)
      BY <1>1, <2>2 DEF ReadingOK
    <3>2. \A i \in from.._gPos : i \in DOMAIN log' => i \in 1..Len(log)
      BY <1>1, <2>2, <3>1 DEF ReadingOK
    <3>3. QED
      BY <2>1, <2>2, <3>1, <3>2 DEF Seen
  <2>5. \A i \in Seen : log'[i] = log[i]
    BY <1>1, <2>2 DEF Seen, ReadingOK
  <2>6. LastIsShown'
    BY <1>1, <2>1, <2>4, <2>5 DEF LastIsShown
  <2>7. QED
    BY <1>1, <2>1, <2>3, <2>6 DEF LogInv, UnopenedShowsNothing
<1>4. CASE OpenLog
  <2>1. /\ _gPos' = Len(log) /\ cut' \in BOOLEAN
        /\ from' = Len(log) + (IF cut' THEN 2 ELSE 1) /\ UNCHANGED <<log, partial, comm>>
    BY <1>4 DEF OpenLog
  <2>2. comm = NoComm /\ UnopenedShowsNothing'
    BY <1>1, <1>4, Zenon DEF OpenLog, UnopenedShowsNothing
  <2>3. Len(log) \in Nat
    BY <1>1 DEF ReadingOK
  <2>4. ReadingOK'
    BY <1>1, <2>1, <2>3 DEF ReadingOK
  <2>5. Seen' = {}
    BY <2>1, <2>3 DEF Seen
  <2>6. QED
    BY <2>1, <2>2, <2>4, <2>5 DEF LogInv, LastIsShown
<1>5. QED
  BY <1>2, <1>3, <1>4

\* updateData reads on: the last communication in what is new is the last of all.
LEMMA ReadOn ==
  ASSUME LogInv, UpdateData
  PROVE  LogInv'
<1> DEFINE lines == NewLines
           new == {i \in DOMAIN lines : lines[i] # NoComm /\ (cut => i > 1)}
<1>1. ReadingOK /\ UnopenedShowsNothing /\ LastIsShown
  BY DEF LogInv
<1>2. /\ follows = "yes" /\ _gPos' = _gPos + Len(lines) /\ cut' = (cut /\ lines = <<>>)
      /\ comm' = IF new = {} THEN comm ELSE lines[CHOOSE i \in new : \A j \in new : j <= i]
      /\ UNCHANGED <<log, partial, follows, from>>
  BY DEF UpdateData
<1>3. /\ Len(lines) \in Nat /\ DOMAIN lines = 1..Len(lines)
      /\ Len(lines) = Len(log) - _gPos /\ Len(log) \in Nat /\ _gPos \in Nat
      /\ \A i \in 1..Len(lines) : lines[i] = log[_gPos + i] /\ _gPos + i \in 1..Len(log)
  BY <1>1, LinesToRead
<1>4. new \in SUBSET (1..Len(lines)) /\ \A i \in new : lines[i] # NoComm /\ (cut => i > 1)
  BY <1>3
<1>5. \A i \in 1..Len(lines) : lines[i] # NoComm /\ (cut => i > 1) => i \in new
  BY <1>3
<1>6. lines = <<>> => Len(lines) = 0
  BY EmptySeq
<1>7. Len(lines) = 0 => lines = <<>>
  BY <1>3
<1> HIDE DEF lines, new
<1>8. _gPos' = Len(log) /\ from \in Nat /\ DOMAIN log = 1..Len(log) /\ _gPos <= Len(log)
  BY <1>1, <1>2, <1>3 DEF ReadingOK
<1>9. ReadingOK'
  <2>1. /\ log' \in Seq(Comm \cup {NoComm}) /\ partial' \in Comm \cup {NoComm, NoLine}
        /\ _gPos' \in 0..Len(log') /\ from' \in Nat
    BY <1>1, <1>2, <1>3, <1>8 DEF ReadingOK
  <2>2. CASE lines = <<>>
    <3>1. _gPos' = _gPos /\ cut' = cut
      BY <1>1, <1>2, <1>3, <1>6, <2>2 DEF ReadingOK
    <3>2. QED
      BY <1>1, <1>2, <2>1, <3>1 DEF ReadingOK
  <2>3. CASE lines # <<>>
    <3>1. Len(lines) \in Nat \ {0}
      BY <1>3, <1>7, <2>3
    <3>2. from <= _gPos' + 1
      BY <1>1, <1>2, <1>3, <3>1 DEF ReadingOK
    <3>3. ~cut'
      BY <1>2, <2>3
    <3>4. QED
      BY <1>2, <2>1, <3>2, <3>3 DEF ReadingOK
  <2>4. QED
    BY <2>2, <2>3
<1>10. \A i \in Seen' : i \in 1..Len(log) /\ log[i] # NoComm /\ i >= from
  BY <1>2, <1>8 DEF Seen
<1>11. \A i \in 1..Len(log) : log[i] # NoComm /\ i >= from => i \in Seen'
  BY <1>2, <1>8 DEF Seen
<1>12. ASSUME NEW j \in Seen', j > _gPos PROVE j - _gPos \in new
  <2>1. j - _gPos \in 1..Len(lines) /\ _gPos + (j - _gPos) = j
    BY <1>3, <1>10, <1>12
  <2>2. cut => j - _gPos > 1
    BY <1>1, <1>3, <1>10 DEF ReadingOK
  <2>3. lines[j - _gPos] # NoComm
    BY <1>3, <1>10, <2>1
  <2>4. QED
    BY <1>5, <2>1, <2>2, <2>3
<1>13. CASE new = {}
  <2>1. Seen' \subseteq Seen
    BY <1>3, <1>10, <1>12, <1>13, <1>8 DEF Seen
  <2>2. Seen \subseteq Seen'
    BY <1>2, <1>3, <1>8 DEF Seen
  <2>3. Seen' = Seen /\ comm' = comm /\ log' = log
    BY <1>2, <1>13, <2>1, <2>2
  <2>4. LastIsShown'
    BY <1>1, <2>3 DEF LastIsShown
  <2>5. QED
    BY <1>2, <1>9, <2>4 DEF LogInv, UnopenedShowsNothing
<1>14. CASE new # {}
  <2>1. PICK m \in new : \A j \in new : j <= m
    BY <1>3, <1>4, <1>14, Greatest
  <2>2. (CHOOSE i \in new : \A j \in new : j <= i) = m
    BY <1>3, <1>4, <2>1, GreatestIsChosen
  <2>3. comm' = log[_gPos + m] /\ _gPos + m \in 1..Len(log) /\ log[_gPos + m] # NoComm
    BY <1>2, <1>3, <1>4, <1>14, <2>1, <2>2
  <2>4. _gPos + m >= from
    <3>1. m \in Nat /\ m >= 1 /\ (cut => m > 1)
      BY <1>3, <1>4, <2>1
    <3>2. QED
      BY <1>1, <1>3, <3>1 DEF ReadingOK
  <2>5. _gPos + m \in Seen'
    BY <1>11, <2>3, <2>4
  <2>6. ASSUME NEW j \in Seen' PROVE j <= _gPos + m
    <3>1. j \in Nat /\ m \in Nat
      BY <1>3, <1>4, <1>10, <2>1
    <3>2. CASE j > _gPos
      <4>1. j - _gPos <= m
        BY <1>12, <2>1, <3>2
      <4>2. QED
        BY <1>3, <3>1, <4>1
    <3>3. CASE ~(j > _gPos)
      BY <1>3, <3>1, <3>3
    <3>4. QED
      BY <3>2, <3>3
  <2>7. LastIsShown'
    BY <1>2, <2>3, <2>5, <2>6 DEF LastIsShown
  <2>8. QED
    BY <1>2, <1>9, <2>7 DEF LogInv, UnopenedShowsNothing
<1>15. QED
  BY <1>13, <1>14

\* The log was not opened yet.
LEMMA InitLogInv == CustomInit => LogInv
<1> SUFFICES ASSUME CustomInit PROVE LogInv
  OBVIOUS
<1>1. /\ log = <<>> /\ partial = NoLine /\ _gPos = 0 /\ cut = FALSE /\ comm = NoComm /\ from = 1
  BY DEF CustomInit
<1>2. log \in Seq(Comm \cup {NoComm}) /\ Len(log) = 0
  BY <1>1
<1>3. ReadingOK
  <2>1. _gPos \in 0..Len(log) /\ from \in Nat /\ from <= _gPos + 1
    BY <1>1, <1>2
  <2>2. QED
    BY <1>1, <1>2, <2>1 DEF ReadingOK
<1>4. Seen = {}
  BY <1>1, <1>2 DEF Seen
<1>5. QED
  BY <1>1, <1>3, <1>4 DEF LogInv, UnopenedShowsNothing, LastIsShown

\* The communication shown is the last in the lines read since the log was opened, however
\* the lines come in pieces (updateData).
THEOREM LatestCommIsShown == CustomSpec => []CommIsLatest
<1>1. LogInv /\ [CustomNext]_customVars => LogInv'
  BY LogSteps, ReadOn DEF CustomNext
<1>2. LogInv => CommIsLatest
  <2> SUFFICES ASSUME LogInv PROVE CommIsLatest
    OBVIOUS
  <2>1. CASE Seen = {}
    BY <2>1 DEF LogInv, LastIsShown, CommIsLatest, Seen
  <2>2. CASE Seen # {}
    <3>1. PICK m \in Seen : (\A j \in Seen : j <= m) /\ comm = log[m]
      BY <2>2 DEF LogInv, LastIsShown
    <3>2. Seen \in SUBSET Nat
      BY DEF LogInv, ReadingOK, Seen
    <3>3. (CHOOSE i \in Seen : \A j \in Seen : j <= i) = m
      BY <3>1, <3>2, GreatestIsChosen
    <3>4. QED
      BY <2>2, <3>1, <3>3 DEF CommIsLatest, Seen
  <2>3. QED
    BY <2>1, <2>2
<1>3. QED
  BY InitLogInv, <1>1, <1>2, PTL DEF CustomSpec

-----------------------------------------------------------------------------
(* CustomData: the navigation aids *)

\* Induction on a range of numbers, for a set.
LEMMA UpTo ==
  ASSUME NEW n \in Nat, NEW S, 0 \in S, \A k \in 0..(n - 1) : k \in S => k + 1 \in S
  PROVE  0..n \subseteq S
<1> DEFINE T == (0..n) \ S
<1> SUFFICES ASSUME T # {} PROVE FALSE
  OBVIOUS
<1> DEFINE R == {ss \in Nat \X Nat : ss[1] < ss[2]}
<1>1. IsWellFoundedOn(R, Nat)
  BY NatLessThanWellFounded DEF OpToRel
<1>2. T \subseteq Nat
  OBVIOUS
<1> HIDE DEF R
<1>3. PICK k \in T : \A j \in T : <<j, k>> \notin R
  BY <1>1, <1>2, WFMin
<1>4. \A j \in T : ~(j < k)
  BY <1>2, <1>3 DEF R
<1>5. k \in 1..n /\ k \notin S
  OBVIOUS
<1>6. k - 1 \in 0..(n - 1) /\ k - 1 \notin S
  BY <1>5
<1>7. k - 1 \in T /\ k - 1 < k
  BY <1>5, <1>6
<1>8. QED
  BY <1>4, <1>7

\* f is defined by recursion on 0..n, from base and by step.
Follows(f, n, base, step) == f[0] = base /\ \A k \in 1..n : f[k] = step[k][f[k - 1]]

\* What is defined by recursion over a range of numbers exists.
LEMMA Recursion ==
  ASSUME NEW n \in Nat, NEW X, NEW base \in X, NEW step \in [1..n -> [X -> X]]
  PROVE  \E f \in [0..n -> X] : Follows(f, n, base, step)
<1> DEFINE Has(m) == \E f \in [0..m -> X] : Follows(f, m, base, step)
           S == {m \in 0..n : Has(m)}
<1>1. Has(0)
  <2> DEFINE g == [k \in 0..0 |-> base]
  <2>1. g \in [0..0 -> X] /\ Follows(g, 0, base, step)
    BY DEF Follows
  <2> HIDE DEF g
  <2>2. QED
    BY <2>1
<1>2. ASSUME NEW m \in 0..(n - 1), Has(m) PROVE Has(m + 1)
  <2>1. PICK f \in [0..m -> X] : Follows(f, m, base, step)
    BY <1>2
  <2> DEFINE g == [k \in 0..(m + 1) |-> IF k = m + 1 THEN step[m + 1][f[m]] ELSE f[k]]
  <2>2. step[m + 1][f[m]] \in X
    OBVIOUS
  <2>3. g \in [0..(m + 1) -> X]
    BY <2>2
  <2>4. g[0] = base
    BY <2>1 DEF Follows
  <2>5. ASSUME NEW k \in 1..(m + 1) PROVE g[k] = step[k][g[k - 1]]
    BY <2>1 DEF Follows
  <2>6. Follows(g, m + 1, base, step)
    BY <2>4, <2>5 DEF Follows
  <2> HIDE DEF g
  <2>7. QED
    BY <2>3, <2>6
<1> HIDE DEF Has
<1>3. 0 \in S /\ \A m \in 0..(n - 1) : m \in S => m + 1 \in S
  BY <1>1, <1>2
<1> HIDE DEF S
<1>4. 0..n \subseteq S
  BY <1>3, UpTo
<1>5. n \in S
  BY <1>4
<1>6. QED
  BY <1>5 DEF S, Has

\* What an entry of the database may stand for.
AnyAid == Numbers \cup {NotFound}

\* What X-Plane says of an aid is a number.
LEMMA AidTypes ==
  ASSUME NEW a \in AnyAid
  PROVE  Lat(a) \in Int /\ Lon(a) \in Int /\ Size(a) \in Nat
<1>1. CASE a = NotFound
  BY <1>1 DEF Lat, Lon, Size
<1>2. CASE a # NotFound
  <2> DEFINE R == [lat : Int, lon : Int, size : Nat]
  <2>1. Aids \in Seq(R) /\ a \in DOMAIN Aids
    BY <1>2, SomeAids DEF AnyAid, Numbers
  <2> HIDE DEF R
  <2>2. Aids[a] \in R
    BY <2>1
  <2>3. QED
    BY <1>2, <2>2 DEF R, Lat, Lon, Size
<1>3. QED
  BY <1>1, <1>2

\* The sums that Length goes through.
Sums(r) == CHOOSE n : n = [k \in 0..Len(r) |-> IF k = 0 THEN 0 ELSE n[k - 1] + Size(r[k])]

\* They are sums.
LEMMA SumsGoOn ==
  ASSUME NEW r \in Seq(AnyAid)
  PROVE  /\ Length(r) = Sums(r)[Len(r)]
         /\ Sums(r)[0] = 0
         /\ \A k \in 0..Len(r) : Sums(r)[k] \in Nat
         /\ \A k \in 1..Len(r) : Sums(r)[k] = Sums(r)[k - 1] + Size(r[k])
<1> DEFINE n == Len(r)
           step == [k \in 1..n |-> [v \in Nat |-> v + Size(r[k])]]
<1>1. n \in Nat /\ \A k \in 1..n : Size(r[k]) \in Nat
  BY AidTypes
<1>2. \A k \in 1..n : [v \in Nat |-> v + Size(r[k])] \in [Nat -> Nat]
  BY <1>1
<1>3. step \in [1..n -> [Nat -> Nat]]
  BY <1>2
<1>4. \A k \in 1..n : step[k] = [v \in Nat |-> v + Size(r[k])]
  OBVIOUS
<1> HIDE DEF n, step
<1>5. PICK f \in [0..n -> Nat] : Follows(f, n, 0, step)
  BY <1>1, <1>3, Recursion
<1>6. ASSUME NEW k \in 1..n PROVE f[k] = f[k - 1] + Size(r[k])
  <2>1. k - 1 \in 0..n
    BY <1>1
  <2>2. f[k - 1] \in Nat /\ f[k] = step[k][f[k - 1]]
    BY <1>5, <2>1 DEF Follows
  <2>3. QED
    BY <1>4, <2>2
<1>7. f = [k \in 0..n |-> IF k = 0 THEN 0 ELSE f[k - 1] + Size(r[k])]
  BY <1>1, <1>5, <1>6 DEF Follows
<1>8. Sums(r) = [k \in 0..n |-> IF k = 0 THEN 0 ELSE Sums(r)[k - 1] + Size(r[k])]
  BY <1>7, Zenon DEF Sums, n
<1>9. Sums(r)[0] = 0 /\ \A k \in 1..n : Sums(r)[k] = Sums(r)[k - 1] + Size(r[k])
  BY <1>1, <1>8
<1>10. \A k \in 0..n : Sums(r)[k] \in Nat
  <2> DEFINE S == {k \in 0..n : Sums(r)[k] \in Nat}
  <2>1. 0 \in S /\ \A k \in 0..(n - 1) : k \in S => k + 1 \in S
    <3>1. ASSUME NEW k \in 0..(n - 1), k \in S PROVE k + 1 \in S
      <4>1. k + 1 \in 1..n /\ (k + 1) - 1 = k
        BY <1>1
      <4>2. Sums(r)[k + 1] = Sums(r)[k] + Size(r[k + 1])
        BY <1>9, <4>1
      <4>3. QED
        BY <1>1, <3>1, <4>1, <4>2
    <3>2. QED
      BY <1>1, <1>9, <3>1
  <2> HIDE DEF S
  <2>2. 0..n \subseteq S
    BY <1>1, <2>1, UpTo
  <2>3. QED
    BY <2>2 DEF S
<1>11. Length(r) = Sums(r)[Len(r)]
  BY DEF Length, Sums
<1>12. QED
  BY <1>9, <1>10, <1>11 DEF n

\* A line adds its length.
LEMMA LengthOfMore ==
  ASSUME NEW r \in Seq(AnyAid), NEW a \in AnyAid
  PROVE  Length(r) \in Nat /\ Length(Append(r, a)) = Length(r) + Size(a)
<1> DEFINE n == Len(r)
           t == Append(r, a)
           S == {k \in 0..n : Sums(r)[k] = Sums(t)[k]}
<1>1. /\ n \in Nat /\ t \in Seq(AnyAid) /\ Len(t) = n + 1 /\ t[n + 1] = a
      /\ \A k \in 1..n : t[k] = r[k]
  BY AppendProperties
<1> HIDE DEF t
<1>2. /\ Length(r) = Sums(r)[n] /\ Sums(r)[0] = 0 /\ Sums(r)[n] \in Nat
      /\ \A k \in 1..n : Sums(r)[k] = Sums(r)[k - 1] + Size(r[k])
  BY <1>1, SumsGoOn
<1>3. /\ Length(t) = Sums(t)[n + 1] /\ Sums(t)[0] = 0
      /\ \A k \in 1..(n + 1) : Sums(t)[k] = Sums(t)[k - 1] + Size(t[k])
  BY <1>1, SumsGoOn
<1>4. 0 \in S
  BY <1>1, <1>2, <1>3
<1>5. ASSUME NEW k \in 0..(n - 1), k \in S PROVE k + 1 \in S
  <2>1. k + 1 \in 1..n /\ k + 1 \in 1..(n + 1) /\ (k + 1) - 1 = k
    BY <1>1
  <2>2. Sums(r)[k + 1] = Sums(r)[k] + Size(r[k + 1]) /\ Sums(t)[k + 1] = Sums(t)[k] + Size(t[k + 1])
    BY <1>2, <1>3, <2>1
  <2>3. QED
    BY <1>1, <1>5, <2>1, <2>2
<1> HIDE DEF S
<1>6. 0..n \subseteq S
  BY <1>1, <1>4, <1>5, UpTo
<1>7. Sums(r)[n] = Sums(t)[n]
  BY <1>1, <1>6 DEF S
<1>8. Sums(t)[n + 1] = Sums(t)[n] + Size(a)
  <2>1. n + 1 \in 1..(n + 1) /\ (n + 1) - 1 = n
    BY <1>1
  <2>2. QED
    BY <1>1, <1>3, <2>1
<1>9. QED
  BY <1>2, <1>3, <1>7, <1>8 DEF t

\* An empty reply has no length.
LEMMA LengthOfNone == Length(<<>>) = 0
<1>1. <<>> \in Seq(AnyAid) /\ Len(<<>>) = 0
  OBVIOUS
<1>2. QED
  BY <1>1, SumsGoOn

\* The database: entries of aids, none of them twice.
IsDatabase(data) ==
  /\ Len(data) \in Nat /\ DOMAIN data = 1..Len(data)
  /\ \A i \in DOMAIN data : data[i].aid \in AnyAid
  /\ \A i, j \in DOMAIN data : data[i].aid = data[j].aid => i = j

\* r is what a lookup that went through the entries V has found at the place at.
Found(data, r, V, at) ==
  /\ r \in Seq(AnyAid) /\ Length(r) < PacketSize
  /\ \A j \in DOMAIN r : Near(r[j], at) /\ \E i \in V : data[i].aid = r[j]
  /\ \A i \in V : Near(data[i].aid, at) =>
       (\E j \in DOMAIN r : r[j] = data[i].aid) \/ ~Fits(r, data[i].aid)

\* The body of the loop over a sector.
LEMMA LookFinds ==
  ASSUME NEW data, IsDatabase(data), NEW V \in SUBSET DOMAIN data, NEW r, NEW at, NEW s,
         Found(data, r, V, at), NEW i \in DOMAIN data
  PROVE  /\ ~Under(data, i, s) => Look(data, r, i, s, at) = r
         /\ Under(data, i, s) => Found(data, Look(data, r, i, s, at), V \cup {i}, at)
         /\ i \notin V /\ IsInjective(r) => IsInjective(Look(data, r, i, s, at))
         /\ Look(data, r, i, s, at) \in Seq(AnyAid)
<1> DEFINE a == data[i].aid
           q == Look(data, r, i, s, at)
           added == Under(data, i, s) /\ Near(a, at) /\ Fits(r, a)
<1>1. a \in AnyAid /\ r \in Seq(AnyAid)
  BY DEF IsDatabase, Found
<1>2. q = IF added THEN Append(r, a) ELSE r
  BY DEF Look
<1> HIDE DEF q
<1>3. CASE ~added
  <2>1. q = r
    BY <1>2, <1>3
  <2>2. Under(data, i, s) => Found(data, q, V \cup {i}, at)
    <3>1. SUFFICES ASSUME Under(data, i, s) PROVE Found(data, q, V \cup {i}, at)
      OBVIOUS
    <3>2. Near(a, at) => ~Fits(r, a)
      BY <1>3, <3>1
    <3>3. QED
      BY <2>1, <3>2 DEF Found
  <2>3. QED
    BY <1>1, <2>1, <2>2 DEF q
<1>4. CASE added
  <2>1. /\ q \in Seq(AnyAid) /\ Len(q) = Len(r) + 1 /\ q[Len(r) + 1] = a /\ Len(r) \in Nat
        /\ \A j \in 1..Len(r) : q[j] = r[j]
    BY <1>1, <1>2, <1>4, AppendProperties
  <2>2. Length(r) \in Nat /\ Length(q) = Length(r) + Size(a) /\ Size(a) \in Nat
    BY <1>1, <1>2, <1>4, LengthOfMore, AidTypes
  <2>3. Length(q) < PacketSize
    BY <1>4, <2>2 DEF Fits
  <2>4. DOMAIN r = 1..Len(r) /\ DOMAIN q = 1..(Len(r) + 1)
    BY <1>1, <2>1
  <2>5. ASSUME NEW j \in DOMAIN q
        PROVE  Near(q[j], at) /\ \E k \in V \cup {i} : data[k].aid = q[j]
    <3>1. CASE j \in DOMAIN r
      BY <2>1, <2>4, <3>1 DEF Found
    <3>2. CASE j = Len(r) + 1
      BY <1>4, <2>1, <3>2
    <3>3. QED
      BY <2>1, <2>4, <3>1, <3>2
  <2>6. ASSUME NEW k \in V \cup {i}, Near(data[k].aid, at)
        PROVE  (\E j \in DOMAIN q : q[j] = data[k].aid) \/ ~Fits(q, data[k].aid)
    <3>1. CASE k = i
      BY <2>1, <2>4, <3>1
    <3>2. CASE k \in V
      <4>1. CASE \E j \in DOMAIN r : r[j] = data[k].aid
        BY <2>1, <2>4, <4>1
      <4>2. CASE ~Fits(r, data[k].aid)
        <5>1. Size(data[k].aid) \in Nat
          BY <3>2, AidTypes DEF IsDatabase
        <5>2. QED
          BY <2>2, <4>2, <5>1, PacketHolds DEF Fits
      <4>3. QED
        BY <2>6, <3>2, <4>1, <4>2 DEF Found
    <3>3. QED
      BY <3>1, <3>2
  <2>7. Found(data, q, V \cup {i}, at)
    BY <2>1, <2>3, <2>5, <2>6 DEF Found
  <2>8. ASSUME i \notin V, IsInjective(r) PROVE IsInjective(q)
    <3>1. \A j \in DOMAIN r : q[j] = r[j] /\ r[j] # a
      BY <2>1, <2>4, <2>8 DEF Found, IsDatabase
    <3>2. \A j \in DOMAIN q : j \in DOMAIN r \/ (j = Len(r) + 1 /\ q[j] = a)
      BY <2>1, <2>4
    <3>3. \A j, k \in DOMAIN r : r[j] = r[k] => j = k
      BY <2>8 DEF IsInjective
    <3>4. QED
      BY <3>1, <3>2, <3>3 DEF IsInjective
  <2>9. QED
    BY <1>4, <2>1, <2>7, <2>8 DEF q
<1>5. QED
  BY <1>3, <1>4

\* What a lookup of the sector s goes through.
Scans(data, r, s, at) ==
  CHOOSE q : q = [k \in 0..Len(data) |->
                   IF k = 0 THEN r ELSE Look(data, q[k - 1], Len(data) + 1 - k, s, at)]

\* It goes through all entries, the last one first.
LEMMA ScansGoOn ==
  ASSUME NEW data, IsDatabase(data), NEW r \in Seq(AnyAid), NEW at, NEW s
  PROVE  /\ Scan(data, r, s, at) = Scans(data, r, s, at)[Len(data)]
         /\ Scans(data, r, s, at)[0] = r
         /\ \A k \in 1..Len(data) :
              Scans(data, r, s, at)[k]
                = Look(data, Scans(data, r, s, at)[k - 1], Len(data) + 1 - k, s, at)
<1> DEFINE n == Len(data)
           X == Seq(AnyAid)
           step == [k \in 1..n |-> [x \in X |-> Look(data, x, n + 1 - k, s, at)]]
<1>1. n \in Nat /\ r \in X
  BY DEF IsDatabase
<1>2. ASSUME NEW k \in 1..n, NEW x \in X PROVE Look(data, x, n + 1 - k, s, at) \in X
  <2>1. data[n + 1 - k].aid \in AnyAid
    BY <1>1 DEF IsDatabase
  <2>2. QED
    BY <2>1, AppendProperties DEF Look
<1> HIDE DEF X
<1>3. \A k \in 1..n : [x \in X |-> Look(data, x, n + 1 - k, s, at)] \in [X -> X]
  BY <1>2
<1>4. step \in [1..n -> [X -> X]]
  BY <1>3
<1>5. \A k \in 1..n : \A x \in X : step[k][x] = Look(data, x, n + 1 - k, s, at)
  OBVIOUS
<1> HIDE DEF n, step
<1>6. PICK f \in [0..n -> X] : Follows(f, n, r, step)
  BY <1>1, <1>4, Recursion
<1>7. ASSUME NEW k \in 1..n PROVE f[k] = Look(data, f[k - 1], n + 1 - k, s, at)
  <2>1. k - 1 \in 0..n
    BY <1>1
  <2>2. f[k - 1] \in X /\ f[k] = step[k][f[k - 1]]
    BY <1>6, <2>1 DEF Follows
  <2>3. QED
    BY <1>5, <2>2
<1>8. f = [k \in 0..n |-> IF k = 0 THEN r ELSE Look(data, f[k - 1], n + 1 - k, s, at)]
  BY <1>1, <1>6, <1>7 DEF Follows
<1> DEFINE q == Scans(data, r, s, at)
<1>9. q = [k \in 0..n |-> IF k = 0 THEN r ELSE Look(data, q[k - 1], n + 1 - k, s, at)]
  BY <1>8, Zenon DEF Scans, n
<1> HIDE DEF q
<1>10. q[0] = r /\ \A k \in 1..n : q[k] = Look(data, q[k - 1], n + 1 - k, s, at)
  BY <1>1, <1>9
<1>11. Scan(data, r, s, at) = q[Len(data)]
  BY DEF Scan, Scans, q
<1>12. QED
  BY <1>10, <1>11 DEF n, q

\* The entries of the sectors C.
Entries(data, C) == {i \in DOMAIN data : data[i].sector \in C}

\* A lookup of one more sector.
LEMMA ScanFinds ==
  ASSUME NEW data, IsDatabase(data), NEW C, NEW r, NEW at, NEW s,
         Found(data, r, Entries(data, C), at)
  PROVE  /\ Found(data, Scan(data, r, s, at), Entries(data, C \cup {s}), at)
         /\ s \notin C /\ IsInjective(r) => IsInjective(Scan(data, r, s, at))
<1> DEFINE n == Len(data)
           q == Scans(data, r, s, at)
           V(k) == Entries(data, C) \cup {i \in DOMAIN data : Under(data, i, s) /\ i > n - k}
           Good(k) == /\ Found(data, q[k], V(k), at)
                      /\ s \notin C /\ IsInjective(r) => IsInjective(q[k])
           S == {k \in 0..n : Good(k)}
<1>1. n \in Nat /\ DOMAIN data = 1..n /\ r \in Seq(AnyAid)
  BY DEF IsDatabase, Found
<1>2. /\ Scan(data, r, s, at) = q[n] /\ q[0] = r
      /\ \A k \in 1..n : q[k] = Look(data, q[k - 1], n + 1 - k, s, at)
  BY <1>1, ScansGoOn
<1> HIDE DEF n, q
<1>3. V(0) = Entries(data, C)
  BY <1>1
<1>4. Good(0)
  BY <1>2, <1>3
<1>5. ASSUME NEW k \in 0..(n - 1), Good(k) PROVE Good(k + 1)
  <2> DEFINE i == n - k
  <2>1. i \in DOMAIN data /\ q[k + 1] = Look(data, q[k], i, s, at)
    <3>1. k + 1 \in 1..n /\ (k + 1) - 1 = k /\ n + 1 - (k + 1) = n - k /\ n - k \in 1..n
      BY <1>1
    <3>2. QED
      BY <1>1, <1>2, <3>1
  <2>2. V(k) \in SUBSET DOMAIN data
    BY DEF Entries
  <2>3. V(k + 1) = IF Under(data, i, s) THEN V(k) \cup {i} ELSE V(k)
    BY <1>1
  <2>4. s \notin C /\ Under(data, i, s) => i \notin V(k)
    BY <1>1 DEF Entries, Under
  <2>5. Found(data, q[k], V(k), at) /\ (s \notin C /\ IsInjective(r) => IsInjective(q[k]))
    BY <1>5
  <2>6. IsDatabase(data)
    OBVIOUS
  <2> HIDE DEF i, V
  <2>7. /\ ~Under(data, i, s) => q[k + 1] = q[k]
        /\ Under(data, i, s) => Found(data, q[k + 1], V(k) \cup {i}, at)
        /\ i \notin V(k) /\ IsInjective(q[k]) => IsInjective(q[k + 1])
    BY <2>1, <2>2, <2>5, <2>6, LookFinds
  <2>8. Found(data, q[k + 1], V(k + 1), at)
    BY <2>3, <2>5, <2>7
  <2>9. s \notin C /\ IsInjective(r) => IsInjective(q[k + 1])
    BY <2>4, <2>5, <2>7
  <2>10. QED
    BY <2>8, <2>9
<1>6. V(n) = Entries(data, C \cup {s})
  BY <1>1 DEF Entries, Under
<1> HIDE DEF Good
<1>7. 0 \in S /\ \A k \in 0..(n - 1) : k \in S => k + 1 \in S
  BY <1>1, <1>4, <1>5
<1> HIDE DEF S
<1>8. 0..n \subseteq S
  BY <1>1, <1>7, UpTo
<1>9. Good(n)
  BY <1>1, <1>8 DEF S
<1>10. QED
  BY <1>2, <1>6, <1>9 DEF Good

\* The inner loop of the grid.
LEMMA RowFinds ==
  ASSUME NEW data, IsDatabase(data), NEW C, NEW r, NEW at, NEW x,
         Found(data, r, Entries(data, C), at)
  PROVE  LET west == Cell(at, x, -1)
             here == Cell(at, x, 0)
             east == Cell(at, x, 1)
         IN  /\ Found(data, Row(data, r, at, x), Entries(data, C \cup {west, here, east}), at)
             /\ /\ west \notin C /\ here \notin C /\ east \notin C
                /\ west # here /\ west # east /\ here # east
                /\ IsInjective(r)
                => IsInjective(Row(data, r, at, x))
<1> DEFINE west == Cell(at, x, -1)
           here == Cell(at, x, 0)
           east == Cell(at, x, 1)
           p == Scan(data, r, west, at)
           q == Scan(data, p, here, at)
           t == Scan(data, q, east, at)
<1> HIDE DEF west, here, east, p, q, t
<1>1. /\ Found(data, p, Entries(data, C \cup {west}), at)
      /\ west \notin C /\ IsInjective(r) => IsInjective(p)
  BY ScanFinds DEF p
<1>2. /\ Found(data, q, Entries(data, (C \cup {west}) \cup {here}), at)
      /\ here \notin C \cup {west} /\ IsInjective(p) => IsInjective(q)
  BY <1>1, ScanFinds DEF q
<1>3. /\ Found(data, t, Entries(data, ((C \cup {west}) \cup {here}) \cup {east}), at)
      /\ east \notin (C \cup {west}) \cup {here} /\ IsInjective(q) => IsInjective(t)
  BY <1>2, ScanFinds DEF t
<1>4. ((C \cup {west}) \cup {here}) \cup {east} = C \cup {west, here, east}
  OBVIOUS
<1>5. Row(data, r, at, x) = t
  BY DEF Row, p, q, t, west, here, east
<1>6. /\ west \notin C /\ here \notin C /\ east \notin C
      /\ west # here /\ west # east /\ here # east /\ IsInjective(r)
      => IsInjective(t)
  BY <1>1, <1>2, <1>3
<1>7. QED
  BY <1>3, <1>4, <1>5, <1>6 DEF west, here, east

\* The sectors that are looked up.
Grid(at) == {Cell(at, x, y) : x \in -1..1, y \in -1..1}

\* Away from the equator and the meridian they are nine.
LEMMA CellsAreDistinct ==
  ASSUME NEW at \in Int \X Int, \A i \in 1..2 : at[i] \notin {-1, 1},
         NEW x \in -1..1, NEW y \in -1..1, NEW v \in -1..1, NEW w \in -1..1,
         Cell(at, x, y) = Cell(at, v, w)
  PROVE  x = v /\ y = w
<1>1. ASSUME NEW h \in Int, h \notin {-1, 1}, NEW k \in -1..1, NEW l \in -1..1,
             Trunc(h + 2 * k) = Trunc(h + 2 * l)
      PROVE  k = l
  BY <1>1 DEF Trunc
<1>2. at[1] \in Int /\ at[2] \in Int /\ at[1] \notin {-1, 1} /\ at[2] \notin {-1, 1}
  OBVIOUS
<1>3. Trunc(at[1] + 2 * x) = Trunc(at[1] + 2 * v) /\ Trunc(at[2] + 2 * y) = Trunc(at[2] + 2 * w)
  BY DEF Cell
<1>4. QED
  BY <1>1, <1>2, <1>3

\* They hold the aircraft's own sector, and a degree or more north of the equator and
\* east of the meridian all that is at most a degree away.
LEMMA GridIsAround ==
  ASSUME NEW at \in Int \X Int, NEW lat \in Int, NEW lon \in Int,
         \/ Floor(lat) = Floor(at[1]) /\ Floor(lon) = Floor(at[2])
         \/ /\ lat - at[1] \in -2..2 /\ lon - at[2] \in -2..2
            /\ at[1] >= 2 /\ at[2] >= 2
  PROVE  <<Floor(lat), Floor(lon)>> \in Grid(at)
<1>1. ASSUME NEW h \in Int, NEW l \in Int,
             Floor(l) = Floor(h) \/ (l - h \in -2..2 /\ h >= 2)
      PROVE  \E k \in -1..1 : Floor(l) = Trunc(h + 2 * k)
  <2>1. \/ Floor(l) = Trunc(h + 2 * (-1)) \/ Floor(l) = Trunc(h + 2 * 0)
        \/ Floor(l) = Trunc(h + 2 * 1)
    BY <1>1 DEF Floor, Trunc
  <2>2. QED
    BY <2>1
<1>2. at[1] \in Int /\ at[2] \in Int
  OBVIOUS
<1>3. PICK x \in -1..1 : Floor(lat) = Trunc(at[1] + 2 * x)
  BY <1>1, <1>2
<1>4. PICK y \in -1..1 : Floor(lon) = Trunc(at[2] + 2 * y)
  BY <1>1, <1>2
<1>5. QED
  BY <1>3, <1>4 DEF Grid, Cell

\* The reply: what the lookups of the grid find.
LEMMA GridFinds ==
  ASSUME NEW data, IsDatabase(data), NEW at \in Int \X Int
  PROVE  /\ Found(data, AidsAround(data, at), Entries(data, Grid(at)), at)
         /\ (\A i \in 1..2 : at[i] \notin {-1, 1}) => IsInjective(AidsAround(data, at))
<1> DEFINE South == {Cell(at, -1, -1), Cell(at, -1, 0), Cell(at, -1, 1)}
           Middle == {Cell(at, 0, -1), Cell(at, 0, 0), Cell(at, 0, 1)}
           North == {Cell(at, 1, -1), Cell(at, 1, 0), Cell(at, 1, 1)}
           p == Row(data, <<>>, at, -1)
           q == Row(data, p, at, 0)
           t == Row(data, q, at, 1)
           free == \A i \in 1..2 : at[i] \notin {-1, 1}
           none == <<>>
<1>1. Found(data, none, Entries(data, {}), at)
  <2>1. none \in Seq(AnyAid) /\ DOMAIN none = {} /\ Length(none) < PacketSize
    BY LengthOfNone, PacketHolds
  <2>2. Entries(data, {}) = {}
    BY DEF Entries
  <2>3. QED
    BY <2>1, <2>2 DEF Found
<1>2. IsInjective(none)
  BY DEF IsInjective
<1>3. ASSUME free
      PROVE  /\ Cell(at, -1, -1) # Cell(at, -1, 0) /\ Cell(at, -1, -1) # Cell(at, -1, 1)
             /\ Cell(at, -1, 0) # Cell(at, -1, 1)
             /\ Cell(at, 0, -1) # Cell(at, 0, 0) /\ Cell(at, 0, -1) # Cell(at, 0, 1)
             /\ Cell(at, 0, 0) # Cell(at, 0, 1)
             /\ Cell(at, 1, -1) # Cell(at, 1, 0) /\ Cell(at, 1, -1) # Cell(at, 1, 1)
             /\ Cell(at, 1, 0) # Cell(at, 1, 1)
             /\ South \cap Middle = {} /\ South \cap North = {} /\ Middle \cap North = {}
  <2>1. \A x, y, v, w \in -1..1 : Cell(at, x, y) = Cell(at, v, w) => x = v /\ y = w
    BY <1>3, CellsAreDistinct
  <2>2. -1 \in -1..1 /\ 0 \in -1..1 /\ 1 \in -1..1 /\ -1 # 0 /\ -1 # 1
    OBVIOUS
  <2>3. QED
    BY <2>1, <2>2
<1> HIDE DEF free, none, p, q, t
<1>4. /\ Found(data, p, Entries(data, {} \cup South), at)
      /\ free => IsInjective(p)
  <2>1. p = Row(data, none, at, -1)
    BY DEF p, none
  <2>2. QED
    BY <1>1, <1>2, <1>3, <2>1, RowFinds
<1>5. /\ Found(data, q, Entries(data, ({} \cup South) \cup Middle), at)
      /\ free => IsInjective(q)
  <2>1. q = Row(data, p, at, 0)
    BY DEF q
  <2>2. QED
    BY <1>3, <1>4, <2>1, RowFinds
<1>6. /\ Found(data, t, Entries(data, (({} \cup South) \cup Middle) \cup North), at)
      /\ free => IsInjective(t)
  <2>1. t = Row(data, q, at, 1)
    BY DEF t
  <2>2. QED
    BY <1>3, <1>5, <2>1, RowFinds
<1>7. (({} \cup South) \cup Middle) \cup North = Grid(at)
  <2>1. -1..1 = {-1, 0, 1}
    OBVIOUS
  <2>2. QED
    BY <2>1 DEF Grid
<1>8. AidsAround(data, at) = t
  BY DEF AidsAround, p, q, t, none
<1>9. QED
  BY <1>6, <1>7, <1>8 DEF free

\* The database holds every aid but the first, and the end of X-Plane's list.
LEMMA DatabaseHolds ==
  ASSUME NEW junk
  PROVE  /\ IsDatabase(Database(junk)) /\ Len(Database(junk)) = Len(Aids)
         /\ \A a \in Numbers \ {1} :
              /\ a - 1 \in DOMAIN Database(junk)
              /\ Database(junk)[a - 1].aid = a /\ Database(junk)[a - 1].sector = Sector(a)
<1> DEFINE n == Len(Aids)
           listed == [i \in 1..(n - 1) |-> [aid |-> i + 1, sector |-> Sector(i + 1)]]
           end == <<[aid |-> NotFound, sector |-> junk]>>
           d == Database(junk)
           E == {listed[i] : i \in 1..(n - 1)} \cup {end[1]}
<1>1. n \in Nat \ {0} /\ Numbers = 1..n
  <2> DEFINE R == [lat : Int, lon : Int, size : Nat]
  <2>1. Aids \in Seq(R) /\ Aids # <<>>
    BY SomeAids
  <2> HIDE DEF R
  <2>2. QED
    BY <2>1 DEF Numbers
<1>2. \A i \in 1..(n - 1) : listed[i].aid = i + 1 /\ listed[i].sector = Sector(i + 1)
  OBVIOUS
<1>3. end[1].aid = NotFound
  OBVIOUS
<1>4. listed \in Seq(E) /\ Len(listed) = n - 1
  <2>1. n - 1 \in Nat /\ DOMAIN listed = 1..(n - 1) /\ listed = [i \in 1..(n - 1) |-> listed[i]]
    BY <1>1
  <2>2. \A i \in 1..(n - 1) : listed[i] \in E
    OBVIOUS
  <2> HIDE DEF n, listed, E
  <2>3. listed \in [1..(n - 1) -> E]
    BY <2>1, <2>2
  <2>4. QED
    BY <2>1, <2>3
<1>5. end \in Seq(E) /\ Len(end) = 1
  OBVIOUS
<1>6. d = listed \o end
  BY DEF Database, n
<1> HIDE DEF n, listed, end, d, E
<1>7. /\ d \in Seq(E) /\ Len(d) = n
      /\ \A i \in 1..n : d[i] = IF i <= n - 1 THEN listed[i] ELSE end[i - (n - 1)]
  <2>1. /\ listed \o end \in Seq(E) /\ Len(listed \o end) = Len(listed) + Len(end)
        /\ \A i \in 1..(Len(listed) + Len(end)) :
             (listed \o end)[i] = IF i <= Len(listed) THEN listed[i] ELSE end[i - Len(listed)]
    BY <1>4, <1>5, ConcatProperties
  <2>2. Len(listed) + Len(end) = n
    BY <1>1, <1>4, <1>5
  <2>3. QED
    BY <1>4, <1>6, <2>1, <2>2
<1>8. DOMAIN d = 1..n
  BY <1>7
<1>9. \A i \in 1..(n - 1) : d[i].aid = i + 1 /\ d[i].sector = Sector(i + 1)
  BY <1>1, <1>2, <1>7
<1>10. d[n].aid = NotFound
  BY <1>1, <1>3, <1>7
<1>11. \A i \in 1..n : i \in 1..(n - 1) \/ i = n
  BY <1>1
<1>12. \A i \in 1..(n - 1) : i + 1 \in Numbers /\ i + 1 # NotFound
  BY <1>1 DEF NotFound
<1>13. IsDatabase(d)
  <2>1. \A i \in 1..n : d[i].aid \in AnyAid
    BY <1>9, <1>10, <1>11, <1>12 DEF AnyAid
  <2>2. ASSUME NEW i \in 1..n, NEW j \in 1..n, d[i].aid = d[j].aid PROVE i = j
    BY <1>9, <1>10, <1>11, <1>12, <2>2
  <2>3. QED
    BY <1>1, <1>7, <1>8, <2>1, <2>2 DEF IsDatabase
<1>14. ASSUME NEW a \in Numbers \ {1}
       PROVE  a - 1 \in DOMAIN d /\ d[a - 1].aid = a /\ d[a - 1].sector = Sector(a)
  <2>1. a - 1 \in 1..(n - 1) /\ a - 1 \in 1..n /\ (a - 1) + 1 = a
    BY <1>1
  <2>2. QED
    BY <1>8, <1>9, <2>1
<1>15. QED
  BY <1>7, <1>13, <1>14 DEF d, n

\* The inductive invariant: the reply is what a lookup in the database finds.
NavInv ==
  /\ askedAt \in Places /\ built \in BOOLEAN
  /\ ~built => reply = <<>>
  /\ built => /\ \E junk \in Garbage : _data = Database(junk)
              /\ reply = AidsAround(_data, askedAt)

\* The log is opened once, or could not be, and lines count from the first on.
OpenOK == follows \in {"not yet", "failed", "yes"} /\ from \in Nat \ {0}

CustomInv == LogInv /\ NavInv /\ OpenOK

\* A callback answers from the database; nothing else touches it.
LEMMA NavSteps == NavInv /\ [CustomNext]_customVars => NavInv'
<1> SUFFICES ASSUME NavInv, [CustomNext]_customVars PROVE NavInv'
  OBVIOUS
<1>1. CASE NavCallback
  <2>1. built' = TRUE /\ askedAt' \in Places /\ reply' = AidsAround(_data', askedAt')
    BY <1>1 DEF NavCallback
  <2>2. \E junk \in Garbage : _data' = Database(junk)
    BY <1>1 DEF NavCallback, NavInv
  <2>3. QED
    BY <2>1, <2>2 DEF NavInv
<1>2. CASE UNCHANGED navVars
  BY <1>2 DEF navVars, NavInv
<1>3. CASE LineBegun \/ LineEnded \/ OpenLog \/ UpdateData \/ UNCHANGED customVars
  <2>1. UNCHANGED navVars
    BY <1>3 DEF LineBegun, LineEnded, OpenLog, UpdateData, customVars, navVars
  <2>2. QED
    BY <1>2, <2>1
<1>4. QED
  BY <1>1, <1>3 DEF CustomNext

\* The log is opened where it ends.
LEMMA OpenSteps == LogInv /\ OpenOK /\ [CustomNext]_customVars => OpenOK'
<1> SUFFICES ASSUME LogInv, OpenOK, [CustomNext]_customVars PROVE OpenOK'
  OBVIOUS
<1>1. CASE OpenLog
  <2>1. follows' \in {"not yet", "failed", "yes"}
    BY <1>1, Zenon DEF OpenLog
  <2>2. from' = Len(log) + (IF cut' THEN 2 ELSE 1) /\ cut' \in BOOLEAN
    BY <1>1 DEF OpenLog
  <2>3. Len(log) \in Nat
    BY DEF LogInv, ReadingOK
  <2>4. from' \in Nat \ {0}
    BY <2>2, <2>3
  <2>5. QED
    BY <2>1, <2>4, Zenon DEF OpenOK
<1>2. CASE NavCallback \/ LineBegun \/ LineEnded \/ UpdateData \/ UNCHANGED customVars
  <2>1. UNCHANGED <<follows, from>>
    BY <1>2 DEF NavCallback, LineBegun, LineEnded, UpdateData, customVars, atcVars
  <2>2. QED
    BY <2>1, Zenon DEF OpenOK
<1>3. QED
  BY <1>1, <1>2 DEF CustomNext

\* Both datarefs keep their invariants.
THEOREM CustomInvariance == CustomSpec => []CustomInv
<1>1. CustomInit => CustomInv
  <2> SUFFICES ASSUME CustomInit PROVE CustomInv
    OBVIOUS
  <2>1. LogInv
    BY InitLogInv
  <2>2. NavInv
    BY DEF CustomInit, NavInv
  <2>3. follows \in {"not yet", "failed", "yes"}
    BY Zenon DEF CustomInit
  <2>4. from = 1
    BY Zenon DEF CustomInit
  <2>5. from \in Nat \ {0}
    BY <2>4
  <2>6. QED
    BY <2>1, <2>2, <2>3, <2>5, Zenon DEF CustomInv, OpenOK
<1>2. CustomInv /\ [CustomNext]_customVars => CustomInv'
  BY LogSteps, ReadOn, NavSteps, OpenSteps DEF CustomNext, CustomInv
<1>3. QED
  BY <1>1, <1>2, PTL DEF CustomSpec

\* What the lookup has found, in a state with a database.
LEMMA ReplyIsFound ==
  ASSUME NavInv
  PROVE  /\ Found(_data, reply, IF built THEN Entries(_data, Grid(askedAt)) ELSE {}, askedAt)
         /\ (\A i \in 1..2 : askedAt[i] \notin {-1, 1}) => IsInjective(reply)
         /\ askedAt \in Int \X Int
<1>1. askedAt \in Int \X Int
  BY PlacesAreCoordinates DEF NavInv
<1>2. CASE built
  <2>1. IsDatabase(_data) /\ reply = AidsAround(_data, askedAt)
    BY <1>2, DatabaseHolds DEF NavInv
  <2>2. QED
    BY <1>1, <1>2, <2>1, GridFinds
<1>3. CASE ~built
  <2>1. reply = <<>>
    BY <1>3 DEF NavInv
  <2>2. reply \in Seq(AnyAid) /\ DOMAIN reply = {} /\ Length(reply) < PacketSize
    BY <2>1, LengthOfNone, PacketHolds
  <2>3. QED
    BY <1>1, <1>3, <2>2 DEF Found, IsInjective
<1>4. QED
  BY <1>2, <1>3 DEF NavInv

\* For any aids, places, radius and packet: a reply leaves room for the zero that ends its
\* text and lists only what is near, and nothing twice away from the equator and the
\* meridian; and every variable has its type (getNavDataForSector, updateData).
THEOREM RepliesAreSound == CustomSpec => []ReplyIsSound
<1>1. CustomInv => ReplyIsSound
  <2> SUFFICES ASSUME CustomInv PROVE ReplyIsSound
    OBVIOUS
  <2>1. NavInv /\ ReadingOK /\ LastIsShown /\ OpenOK
    BY DEF CustomInv, LogInv
  <2>2. /\ reply \in Seq(AnyAid) /\ Length(reply) < PacketSize
        /\ \A j \in DOMAIN reply : Near(reply[j], askedAt)
        /\ (\A i \in 1..2 : askedAt[i] \notin {-1, 1}) => IsInjective(reply)
    BY <2>1, ReplyIsFound DEF Found
  <2>3. \A i \in DOMAIN reply : reply[i] \in Numbers \cup {NotFound}
    BY <2>2 DEF AnyAid
  <2>4. built => Len(_data) = Len(Aids)
    BY <2>1, DatabaseHolds DEF NavInv
  <2>5. comm \in Comm \cup {NoComm}
    <3>1. \A m \in Seen : log[m] \in Comm \cup {NoComm}
      BY <2>1 DEF ReadingOK, Seen
    <3>2. QED
      BY <2>1, <3>1 DEF LastIsShown
  <2>6. _gPos \in 0..Len(log) /\ from \in 1..(Len(log) + 2)
    <3>1. from \in Nat \ {0}
      BY <2>1, Zenon DEF OpenOK
    <3>2. ReadingOK
      BY <2>1, Zenon
    <3>3. QED
      BY <3>1, <3>2 DEF ReadingOK
  <2>7. askedAt \in Places /\ {built, cut} \subseteq BOOLEAN
    BY <2>1 DEF NavInv, ReadingOK
  <2>8. log \in Seq(Comm \cup {NoComm}) /\ partial \in Comm \cup {NoComm, NoLine}
    BY <2>1 DEF ReadingOK
  <2>9. CustomTypeOK
    BY <2>1, <2>3, <2>4, <2>5, <2>6, <2>7, <2>8, Zenon DEF CustomTypeOK, OpenOK
  <2>10. \A a \in Listed : Near(a, askedAt)
    BY <2>2 DEF Listed
  <2>11. QED
    BY <2>2, <2>9, <2>10 DEF ReplyIsSound
<1>2. QED
  BY CustomInvariance, <1>1, PTL

\* For any aids, places, radius and packet: every aid near the aircraft that the grid of
\* sectors around it must reach is in the reply, or there was no room for it
\* (DataCallback_Common).
THEOREM NearbyAidsAreListed == CustomSpec => []NearbyIsListed
<1>1. CustomInv => NearbyIsListed
  <2> DEFINE Own(a) == Sector(a) = <<Floor(askedAt[1]), Floor(askedAt[2])>>
             ADegree(a) == Lat(a) - askedAt[1] \in -2..2 /\ Lon(a) - askedAt[2] \in -2..2
  <2>1. ASSUME CustomInv, NEW a \in Numbers \ {1}, built, Near(a, askedAt),
               Own(a) \/ (ADegree(a) /\ askedAt[1] >= 2 /\ askedAt[2] >= 2)
        PROVE  a \in Listed \/ ~Fits(reply, a)
    <3>1. NavInv
      BY <2>1 DEF CustomInv
    <3>2. Found(_data, reply, Entries(_data, Grid(askedAt)), askedAt) /\ askedAt \in Int \X Int
      BY <2>1, <3>1, ReplyIsFound
    <3>3. /\ a - 1 \in DOMAIN _data
          /\ _data[a - 1].aid = a /\ _data[a - 1].sector = Sector(a)
      BY <2>1, <3>1, DatabaseHolds DEF NavInv
    <3>4. Lat(a) \in Int /\ Lon(a) \in Int
      BY AidTypes DEF AnyAid
    <3>5. \/ Floor(Lat(a)) = Floor(askedAt[1]) /\ Floor(Lon(a)) = Floor(askedAt[2])
          \/ ADegree(a) /\ askedAt[1] >= 2 /\ askedAt[2] >= 2
      BY <2>1 DEF Sector
    <3>6. Sector(a) \in Grid(askedAt)
      BY <3>2, <3>4, <3>5, GridIsAround DEF Sector
    <3>7. a - 1 \in Entries(_data, Grid(askedAt))
      BY <3>3, <3>6 DEF Entries
    <3>8. QED
      BY <2>1, <3>2, <3>3, <3>7 DEF Found, Listed
  <2>2. QED
    BY <2>1 DEF NearbyIsListed
<1>2. QED
  BY CustomInvariance, <1>1, PTL
=============================================================================
