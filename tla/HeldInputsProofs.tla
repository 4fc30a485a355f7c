-------------------------- MODULE HeldInputsProofs --------------------------
(***************************************************************************)
(* Proofs about modules Buttons and HeldInputs, for any programs,          *)
(* connections, buttons and commands.                                      *)
(*                                                                         *)
(* In Buttons, NoStuckButton is inductive as it stands.  OwnPressHolds is  *)
(* not: that a release or another connection's end leaves the button alone *)
(* needs to know that nobody else has it in m_heldButtons (SoleIsAlone).   *)
(*                                                                         *)
(* HeldInputs implements Buttons: whatever the programs, their wires and   *)
(* their broken connections do, the plugin's side takes steps of module    *)
(* Buttons, so that what is proved of Buttons holds of the composition.    *)
(*                                                                         *)
(* InputsAreWanted speaks of the moments when nothing is under way.  Its   *)
(* invariant speaks of every moment: the last line on the wire about a     *)
(* button tells whether the program holds it (Tells), and a begin line is  *)
(* followed by its end unless the program still runs the command           *)
(* (Answered).                                                             *)
(***************************************************************************)
EXTENDS HeldInputs, SequenceTheorems, TLAPS

-----------------------------------------------------------------------------
(* Module Buttons *)

\* A button that only c has to do with is held by the open connection c, is down, and
\* is in no other connection's set.
SoleIsAlone ==
  \A c \in Client : \A b \in sole[c] :
    /\ phase[c] = "open"
    /\ b \in m_heldButtons[c]
    /\ b \in down
    /\ \A d \in Client : d # c => b \notin m_heldButtons[d]

IInv == TypeOK /\ NoStuckButton /\ SoleIsAlone

\* The initial state: nothing is held, nobody is connected.
LEMMA InitIInv == Init => IInv
  BY DEF Init, IInv, TypeOK, NoStuckButton, SoleIsAlone, Phases

\* Types are kept by every step.
LEMMA TypeStep == TypeOK /\ [Next]_vars => TypeOK'
<1> SUFFICES ASSUME TypeOK, [Next]_vars PROVE TypeOK'
  OBVIOUS
<1> USE DEF TypeOK, Phases
<1>1. CASE PluginDisable
  BY <1>1 DEF PluginDisable, ReleaseAll
<1>2. ASSUME NEW c \in Client, ClientConnected(c) PROVE TypeOK'
  BY <1>2 DEF ClientConnected
<1>3. ASSUME NEW c \in Client, DisconnectLine(c) PROVE TypeOK'
  BY <1>3 DEF DisconnectLine, ReleaseAll, CanRead
<1>4. ASSUME NEW c \in Client, EndOfLines(c) PROVE TypeOK'
  BY <1>4 DEF EndOfLines
<1>5. ASSUME NEW c \in Client, SocketDisconnected(c) PROVE TypeOK'
  BY <1>5 DEF SocketDisconnected, ReleaseAll
<1>6. ASSUME NEW c \in Client, DeleteClient(c) PROVE TypeOK'
  BY <1>6 DEF DeleteClient
<1>7. ASSUME NEW c \in Client, NEW b \in Button, ButtonPress(c, b) PROVE TypeOK'
  BY <1>7 DEF ButtonPress, CanRead
<1>8. ASSUME NEW c \in Client, NEW b \in Button, ButtonRelease(c, b) PROVE TypeOK'
  BY <1>8 DEF ButtonRelease
<1>9. CASE UNCHANGED vars
  BY <1>9 DEF vars
<1>10. QED
  BY <1>1, <1>2, <1>3, <1>4, <1>5, <1>6, <1>7, <1>8, <1>9 DEF Next

\* The end of the connections D, of which none was open afterwards, leaves no button
\* of theirs down.
LEMMA ReleaseStep ==
  ASSUME TypeOK, NoStuckButton, NEW D \in SUBSET Client, ReleaseAll(D), late' = late,
         \A c \in Client \ D : phase[c] = "open" =>
           phase'[c] = "open" /\ m_heldButtons'[c] = m_heldButtons[c]
  PROVE  NoStuckButton'
<1> SUFFICES ASSUME NEW b \in down', b \notin late
             PROVE  \E c \in Client : phase'[c] = "open" /\ b \in m_heldButtons'[c]
  BY DEF NoStuckButton
<1>1. b \in down /\ \A c \in D : b \notin m_heldButtons[c]
  BY DEF ReleaseAll
<1>2. PICK c \in Client : phase[c] = "open" /\ b \in m_heldButtons[c]
  BY <1>1 DEF NoStuckButton
<1>3. c \notin D
  BY <1>1, <1>2
<1>4. QED
  BY <1>2, <1>3

\* Every step leaves each button that is down with somebody who will release it.
LEMMA NoStuckStep == TypeOK /\ NoStuckButton /\ [Next]_vars => NoStuckButton'
<1> SUFFICES ASSUME TypeOK, NoStuckButton, [Next]_vars PROVE NoStuckButton'
  OBVIOUS
<1>1. CASE PluginDisable
  <2> DEFINE open == {c \in Client : phase[c] = "open"}
  <2>1. open \in SUBSET Client /\ ReleaseAll(open) /\ late' = late
    BY <1>1 DEF PluginDisable
  <2>2. \A c \in Client \ open : phase[c] # "open"
    OBVIOUS
  <2> HIDE DEF open
  <2>3. QED
    BY <2>1, <2>2, ReleaseStep
<1>2. ASSUME NEW c \in Client, ClientConnected(c) PROVE NoStuckButton'
  BY <1>2 DEF ClientConnected, NoStuckButton, TypeOK
<1>3. ASSUME NEW c \in Client, DisconnectLine(c) \/ SocketDisconnected(c)
      PROVE  NoStuckButton'
  <2>1. {c} \in SUBSET Client /\ ReleaseAll({c}) /\ late' = late
    BY <1>3 DEF DisconnectLine, SocketDisconnected
  <2>2. \A d \in Client \ {c} : phase'[d] = phase[d] /\ m_heldButtons'[d] = m_heldButtons[d]
    BY <1>3 DEF DisconnectLine, SocketDisconnected, TypeOK
  <2>3. QED
    BY <2>1, <2>2, ReleaseStep
<1>4. ASSUME NEW c \in Client, EndOfLines(c) PROVE NoStuckButton'
  BY <1>4 DEF EndOfLines, NoStuckButton, TypeOK
<1>5. ASSUME NEW c \in Client, DeleteClient(c) PROVE NoStuckButton'
  BY <1>5 DEF DeleteClient, NoStuckButton, TypeOK
<1>6. ASSUME NEW c \in Client, NEW b \in Button, ButtonPress(c, b) PROVE NoStuckButton'
  BY <1>6 DEF ButtonPress, CanRead, NoStuckButton, TypeOK
<1>7. ASSUME NEW c \in Client, NEW b \in Button, ButtonRelease(c, b) PROVE NoStuckButton'
  BY <1>7 DEF ButtonRelease, NoStuckButton
<1>8. CASE UNCHANGED vars
  BY <1>8 DEF vars, NoStuckButton
<1>9. QED
  BY <1>1, <1>2, <1>3, <1>4, <1>5, <1>6, <1>7, <1>8 DEF Next

\* Every step keeps the buttons of one client out of everybody else's reach.
LEMMA SoleStep == TypeOK /\ SoleIsAlone /\ [Next]_vars => SoleIsAlone'
<1> SUFFICES ASSUME TypeOK, SoleIsAlone, [Next]_vars PROVE SoleIsAlone'
  OBVIOUS
<1> USE DEF TypeOK, SoleIsAlone
<1>1. CASE PluginDisable
  <2>1. \A c \in Client : sole'[c] = {}
    BY <1>1 DEF PluginDisable, ReleaseAll
  <2>2. QED
    BY <2>1
<1>2. ASSUME NEW c \in Client, ClientConnected(c) PROVE SoleIsAlone'
  BY <1>2 DEF ClientConnected
<1>3. ASSUME NEW c \in Client, DisconnectLine(c) \/ SocketDisconnected(c)
      PROVE  SoleIsAlone'
  <2>1. /\ sole' = [d \in Client |-> IF d = c THEN {} ELSE sole[d]]
        /\ down' = down \ m_heldButtons[c]
        /\ m_heldButtons' = m_heldButtons
    BY <1>3 DEF DisconnectLine, SocketDisconnected, ReleaseAll
  <2>2. \A d \in Client : d # c => phase'[d] = phase[d]
    BY <1>3 DEF DisconnectLine, SocketDisconnected
  <2>3. QED
    BY <2>1, <2>2
<1>4. ASSUME NEW c \in Client, EndOfLines(c) PROVE SoleIsAlone'
  BY <1>4 DEF EndOfLines
<1>5. ASSUME NEW c \in Client, DeleteClient(c) PROVE SoleIsAlone'
  BY <1>5 DEF DeleteClient
<1>6. ASSUME NEW c \in Client, NEW b \in Button, ButtonPress(c, b) PROVE SoleIsAlone'
  <2>1. Alone(c, b) => \A d \in Client : d # c => b \notin m_heldButtons[d]
    BY DEF Alone
  <2>2. QED
    BY <1>6, <2>1 DEF ButtonPress
<1>7. ASSUME NEW c \in Client, NEW b \in Button, ButtonRelease(c, b) PROVE SoleIsAlone'
  BY <1>7 DEF ButtonRelease
<1>8. CASE UNCHANGED vars
  BY <1>8 DEF vars
<1>9. QED
  BY <1>1, <1>2, <1>3, <1>4, <1>5, <1>6, <1>7, <1>8 DEF Next

\* The inductive invariant holds in every reachable state.
THEOREM ButtonsInvariance == Spec => []IInv
<1>1. IInv /\ [Next]_vars => IInv'
  BY TypeStep, NoStuckStep, SoleStep DEF IInv
<1>2. QED
  BY InitIInv, <1>1, PTL DEF Spec

\* Every variable keeps its type, and a deleted TcpClient holds nothing.
THEOREM ButtonsTypeCorrect == Spec => []TypeOK
  BY ButtonsInvariance, PTL DEF IInv

\* No button stays down once the connections that pressed it have ended, but for one
\* pressed after its connection's disconnect line.
THEOREM NoButtonLeftDown == Spec => []NoStuckButton
  BY ButtonsInvariance, PTL DEF IInv

\* Nobody lifts a button that only one client has to do with and holds.
THEOREM OwnPressHeld == Spec => []OwnPressHolds
<1>1. IInv => OwnPressHolds
  BY DEF IInv, SoleIsAlone, OwnPressHolds
<1>2. QED
  BY ButtonsInvariance, <1>1, PTL

-----------------------------------------------------------------------------
(* HeldInputs implements Buttons *)

\* A line of a raw connection is a step of Buttons.
LEMMA RawStep ==
  ASSUME NEW c \in Client, RawLine(c)
  PROVE  Next
<1>1. CASE \E b \in Button : PressedBy(c, b)
  BY <1>1 DEF PressedBy, Next
<1>2. CASE \E b \in Button : ButtonRelease(c, b)
  BY <1>2 DEF Next
<1>3. CASE DisconnectLine(c) \/ EndOfLines(c) \/ ClientConnected(c)
  BY <1>3 DEF Next
<1>4. QED
  BY <1>1, <1>2, <1>3 DEF RawLine

\* A line of a program is a step of Buttons, or leaves the buttons alone.
LEMMA LineStep ==
  ASSUME NEW c \in Client, LineRead(c)
  PROVE  Next \/ UNCHANGED vars
<1>1. CASE \E b \in Button : PressedBy(c, b)
  BY <1>1 DEF PressedBy, Next
<1>2. CASE \E b \in Button : ButtonRelease(c, b) \/ RefusedRelease(c, b)
  BY <1>2 DEF RefusedRelease, Next
<1>3. CASE UNCHANGED vars
  BY <1>3
<1>4. QED
  BY <1>1, <1>2, <1>3 DEF LineRead

\* A new connection is accepted as in Buttons.
LEMMA ConnectStep ==
  ASSUME NEW p \in Program, Connect(p)
  PROVE  Next
<1> DEFINE new == {c \in Client \ Raw : phase[c] = "none"}
           d   == CHOOSE c \in new : TRUE
<1>1. new # {} /\ ClientConnected(d)
  BY DEF Connect
<1>2. d \in new
  BY <1>1
<1>3. d \in Client
  BY <1>2
<1>4. QED
  BY <1>1, <1>3 DEF Next

\* Every step of HeldInputs is a step of Buttons or changes none of its variables.
LEMMA HeldStep == [HeldNext]_heldVars => [Next]_vars
<1> SUFFICES ASSUME [HeldNext]_heldVars PROVE Next \/ UNCHANGED vars
  OBVIOUS
<1>1. CASE PluginDisabled
  BY <1>1 DEF PluginDisabled, Next
<1>2. ASSUME NEW p \in Program, Connect(p) PROVE Next
  BY <1>2, ConnectStep
<1>3. ASSUME NEW p \in Program, Handshake(p) \/ ConnectionEnds(p) PROVE UNCHANGED vars
  BY <1>3 DEF Handshake, ConnectionEnds
<1>4. ASSUME NEW p \in Program, NEW b \in Button, Press(p, b) \/ LetGo(p, b)
      PROVE  UNCHANGED vars
  BY <1>4 DEF Press, LetGo
<1>5. ASSUME NEW p \in Program, NEW k \in Command, CommandBegin(p, k) \/ CommandEnd(p, k)
      PROVE  UNCHANGED vars
  BY <1>5 DEF CommandBegin, CommandEnd
<1>6. ASSUME NEW c \in Client, LineRead(c) PROVE Next \/ UNCHANGED vars
  BY <1>6, LineStep
<1>7. ASSUME NEW c \in Client, ServerSideEnds(c) PROVE Next
  BY <1>7 DEF ServerSideEnds, Next
<1>8. ASSUME NEW c \in Raw, RawLine(c) PROVE Next
  BY <1>8, RawAreClients, RawStep
<1>9. CASE UNCHANGED heldVars
  BY <1>9 DEF heldVars
<1>10. QED
  BY <1>1, <1>2, <1>3, <1>4, <1>5, <1>6, <1>7, <1>8, <1>9 DEF HeldNext

\* The composition implements the specification of the plugin's side.
THEOREM HeldImplementsButtons == HeldSpec => Spec
<1>1. HeldInit => Init
  BY DEF HeldInit
<1>2. QED
  BY <1>1, HeldStep, PTL DEF HeldSpec, Spec

\* In the composition, too, no button stays down once the connections that pressed it
\* have ended, but for one pressed after its connection's disconnect line.
THEOREM HeldNoButtonLeftDown == HeldSpec => []NoStuckButton
  BY HeldImplementsButtons, NoButtonLeftDown, PTL

\* In the composition, too, nobody lifts a button that only one connection has to do
\* with and holds.
THEOREM HeldOwnPressHeld == HeldSpec => []OwnPressHolds
  BY HeldImplementsButtons, OwnPressHeld, PTL

-----------------------------------------------------------------------------
(* Lines on a wire *)

\* The lines about a button; w has none; the last one on w tells whether b is in S.
Of(b) == {<<"but", b>>, <<"rel", b>>}
Silent(w, b) == \A i \in DOMAIN w : w[i] \notin Of(b)
Tells(w, b, S) ==
  \A i \in DOMAIN w :
    w[i] \in Of(b) /\ (\A j \in DOMAIN w : j > i => w[j] \notin Of(b))
      => (w[i] = <<"but", b>> <=> b \in S)

\* The command k does not begin on w; it ends on w; where it begins on w, k is in R or
\* ends later on w.
NoBegin(w, k) == \A i \in DOMAIN w : w[i] # <<"begin", k>>
Ends(w, k) == \E i \in DOMAIN w : w[i] = <<"end", k>>
Answered(w, k, R) ==
  \A i \in DOMAIN w : w[i] = <<"begin", k>> =>
    k \in R \/ \E j \in DOMAIN w : j > i /\ w[j] = <<"end", k>>

\* A line that is written is the last one.
LEMMA Appended ==
  ASSUME NEW w \in Seq(Lines), NEW x \in Lines
  PROVE  LET v == Append(w, x)
         IN  /\ v \in Seq(Lines) /\ Len(v) = Len(w) + 1
             /\ DOMAIN v = DOMAIN w \cup {Len(w) + 1} /\ DOMAIN w = 1..Len(w) /\ Len(w) \in Nat
             /\ v[Len(w) + 1] = x
             /\ \A i \in DOMAIN w : v[i] = w[i]
  BY AppendProperties, LenProperties

\* A line that is read leaves the rest.
LEMMA Shifted ==
  ASSUME NEW w \in Seq(Lines), w # <<>>
  PROVE  LET v == Tail(w)
         IN  /\ v \in Seq(Lines) /\ Len(v) = Len(w) - 1 /\ Head(w) \in Lines
             /\ DOMAIN v = 1..(Len(w) - 1) /\ DOMAIN w = 1..Len(w) /\ Len(w) \in Nat \ {0}
             /\ w[1] = Head(w)
             /\ \A i \in 1..(Len(w) - 1) : v[i] = w[i + 1]
  BY HeadTailProperties, LenProperties, EmptySeq

\* What the wire tells of a button, when a line is written.
LEMMA WrittenTells ==
  ASSUME NEW w \in Seq(Lines), NEW x \in Lines, NEW b, NEW S
  PROVE  LET v == Append(w, x)
         IN  /\ x \in Of(b) /\ (x = <<"but", b>> <=> b \in S) => Tells(v, b, S) /\ ~Silent(v, b)
             /\ x \notin Of(b) => (Silent(v, b) <=> Silent(w, b))
             /\ x \notin Of(b) /\ Tells(w, b, S) => Tells(v, b, S)
<1> DEFINE v == Append(w, x)
           n == Len(w) + 1
<1>1. /\ DOMAIN v = DOMAIN w \cup {n} /\ n \in DOMAIN v /\ v[n] = x
      /\ \A i \in DOMAIN w : v[i] = w[i] /\ n > i /\ i \in DOMAIN v
  BY Appended
<1> HIDE DEF v, n
<1>2. ASSUME x \in Of(b), x = <<"but", b>> <=> b \in S
      PROVE  Tells(v, b, S) /\ ~Silent(v, b)
  <2>1. ~Silent(v, b)
    BY <1>1, <1>2 DEF Silent
  <2>2. ASSUME NEW i \in DOMAIN v, \A j \in DOMAIN v : j > i => v[j] \notin Of(b)
        PROVE  i = n
    BY <1>1, <1>2, <2>2
  <2>3. Tells(v, b, S)
    BY <1>1, <1>2, <2>2 DEF Tells
  <2>4. QED
    BY <2>1, <2>3
<1>3. ASSUME x \notin Of(b) PROVE Silent(v, b) <=> Silent(w, b)
  BY <1>1, <1>3 DEF Silent
<1>4. ASSUME x \notin Of(b), Tells(w, b, S) PROVE Tells(v, b, S)
  <2> SUFFICES ASSUME NEW i \in DOMAIN v, v[i] \in Of(b),
                      \A j \in DOMAIN v : j > i => v[j] \notin Of(b)
               PROVE  v[i] = <<"but", b>> <=> b \in S
    BY DEF Tells
  <2>1. i \in DOMAIN w /\ v[i] = w[i]
    BY <1>1, <1>4
  <2>2. \A j \in DOMAIN w : j > i => w[j] \notin Of(b)
    BY <1>1
  <2>3. QED
    BY <1>4, <2>1, <2>2 DEF Tells
<1>5. QED
  BY <1>2, <1>3, <1>4 DEF v

\* What the wire tells of a button, when a line is read.
LEMMA ReadTells ==
  ASSUME NEW w \in Seq(Lines), w # <<>>, NEW b, NEW S, Tells(w, b, S)
  PROVE  LET v == Tail(w)
         IN  /\ Tells(v, b, S)
             /\ Silent(v, b) /\ Head(w) \in Of(b) => (Head(w) = <<"but", b>> <=> b \in S)
             /\ Silent(v, b) /\ Head(w) \notin Of(b) => Silent(w, b)
<1> DEFINE v == Tail(w)
           n == Len(w)
<1>1. /\ DOMAIN v = 1..(n - 1) /\ DOMAIN w = 1..n /\ n \in Nat \ {0}
      /\ w[1] = Head(w) /\ \A i \in 1..(n - 1) : v[i] = w[i + 1]
  BY Shifted
<1> HIDE DEF v, n
<1>2. \A j \in DOMAIN w : j > 1 => j - 1 \in DOMAIN v /\ w[j] = v[j - 1]
  BY <1>1
<1>3. Tells(v, b, S)
  <2> SUFFICES ASSUME NEW i \in DOMAIN v, v[i] \in Of(b),
                      \A j \in DOMAIN v : j > i => v[j] \notin Of(b)
               PROVE  v[i] = <<"but", b>> <=> b \in S
    BY DEF Tells
  <2>1. i + 1 \in DOMAIN w /\ w[i + 1] = v[i]
    BY <1>1
  <2>2. ASSUME NEW j \in DOMAIN w, j > i + 1 PROVE w[j] \notin Of(b)
    <3>1. j - 1 \in DOMAIN v /\ j - 1 > i /\ w[j] = v[j - 1]
      BY <1>1, <1>2, <2>2
    <3>2. QED
      BY <3>1
  <2>3. QED
    BY <2>1, <2>2 DEF Tells
<1>4. ASSUME Silent(v, b), Head(w) \in Of(b) PROVE Head(w) = <<"but", b>> <=> b \in S
  <2>1. 1 \in DOMAIN w /\ w[1] \in Of(b)
    BY <1>1, <1>4
  <2>2. \A j \in DOMAIN w : j > 1 => w[j] \notin Of(b)
    BY <1>2, <1>4 DEF Silent
  <2>3. QED
    BY <1>1, <2>1, <2>2 DEF Tells
<1>5. ASSUME Silent(v, b), Head(w) \notin Of(b) PROVE Silent(w, b)
  <2> SUFFICES ASSUME NEW j \in DOMAIN w PROVE w[j] \notin Of(b)
    BY DEF Silent
  <2>1. j = 1 \/ j > 1
    BY <1>1
  <2>2. QED
    BY <1>1, <1>2, <1>5, <2>1 DEF Silent
<1>6. QED
  BY <1>3, <1>4, <1>5 DEF v

\* What the wire says of a command, when a line is written.
LEMMA WrittenAnswers ==
  ASSUME NEW w \in Seq(Lines), NEW x \in Lines, NEW k
  PROVE  LET v == Append(w, x)
         IN  /\ Ends(w, k) \/ x = <<"end", k>> => Ends(v, k)
             /\ x # <<"begin", k>> /\ NoBegin(w, k) => NoBegin(v, k)
             /\ \A R : Answered(w, k, R) /\ (x = <<"begin", k>> => k \in R) => Answered(v, k, R)
             /\ \A R : x = <<"end", k>> => Answered(v, k, R)
<1> DEFINE v == Append(w, x)
           n == Len(w) + 1
<1>1. /\ DOMAIN v = DOMAIN w \cup {n} /\ n \in DOMAIN v /\ v[n] = x
      /\ \A i \in DOMAIN w : v[i] = w[i] /\ n > i /\ i \in DOMAIN v
  BY Appended
<1> HIDE DEF v, n
<1>2. Ends(w, k) \/ x = <<"end", k>> => Ends(v, k)
  BY <1>1 DEF Ends
<1>3. x # <<"begin", k>> /\ NoBegin(w, k) => NoBegin(v, k)
  BY <1>1 DEF NoBegin
<1>4. ASSUME NEW R, Answered(w, k, R), x = <<"begin", k>> => k \in R PROVE Answered(v, k, R)
  BY <1>1, <1>4 DEF Answered
<1>5. ASSUME NEW R, x = <<"end", k>> PROVE Answered(v, k, R)
  <2>1. <<"end", k>> # <<"begin", k>>
    OBVIOUS
  <2>2. \A i \in DOMAIN v : v[i] = <<"begin", k>> => i \in DOMAIN w
    BY <1>1, <1>5, <2>1
  <2>3. QED
    BY <1>1, <1>5, <2>2 DEF Answered
<1>6. QED
  BY <1>2, <1>3, <1>4, <1>5 DEF v

\* What the wire says of a command, when a line is read.
LEMMA ReadAnswers ==
  ASSUME NEW w \in Seq(Lines), w # <<>>, NEW k
  PROVE  LET v == Tail(w)
         IN  /\ Head(w) # <<"end", k>> /\ Ends(w, k) => Ends(v, k)
             /\ NoBegin(w, k) => NoBegin(v, k) /\ Head(w) # <<"begin", k>>
             /\ \A R : Answered(w, k, R) =>
                  /\ Answered(v, k, R)
                  /\ Head(w) = <<"begin", k>> => k \in R \/ Ends(v, k)
<1> DEFINE v == Tail(w)
           n == Len(w)
<1>1. /\ DOMAIN v = 1..(n - 1) /\ DOMAIN w = 1..n /\ n \in Nat \ {0}
      /\ w[1] = Head(w) /\ \A i \in 1..(n - 1) : v[i] = w[i + 1]
  BY Shifted
<1> HIDE DEF v, n
<1>2. /\ \A j \in DOMAIN w : j = 1 \/ (j > 1 /\ j - 1 \in DOMAIN v /\ w[j] = v[j - 1])
      /\ \A i \in DOMAIN v : i + 1 \in DOMAIN w /\ v[i] = w[i + 1]
      /\ 1 \in DOMAIN w
  BY <1>1
<1>3. Head(w) # <<"end", k>> /\ Ends(w, k) => Ends(v, k)
  BY <1>1, <1>2 DEF Ends
<1>4. NoBegin(w, k) => NoBegin(v, k) /\ Head(w) # <<"begin", k>>
  BY <1>1, <1>2 DEF NoBegin
<1>5. ASSUME NEW R, Answered(w, k, R) PROVE Answered(v, k, R)
  <2> SUFFICES ASSUME NEW i \in DOMAIN v, v[i] = <<"begin", k>>, k \notin R
               PROVE  \E j \in DOMAIN v : j > i /\ v[j] = <<"end", k>>
    BY DEF Answered
  <2>1. PICK j \in DOMAIN w : j > i + 1 /\ w[j] = <<"end", k>>
    BY <1>2, <1>5 DEF Answered
  <2>2. j - 1 \in DOMAIN v /\ j - 1 > i /\ v[j - 1] = <<"end", k>>
    BY <1>1, <1>2, <2>1
  <2>3. QED
    BY <2>2
<1>6. ASSUME NEW R, Answered(w, k, R), Head(w) = <<"begin", k>>, k \notin R PROVE Ends(v, k)
  <2>1. PICK j \in DOMAIN w : j > 1 /\ w[j] = <<"end", k>>
    BY <1>1, <1>2, <1>6 DEF Answered
  <2>2. j - 1 \in DOMAIN v /\ v[j - 1] = <<"end", k>>
    BY <1>1, <1>2, <2>1
  <2>3. QED
    BY <2>2 DEF Ends
<1>7. QED
  BY <1>3, <1>4, <1>5, <1>6 DEF v

-----------------------------------------------------------------------------
(* The invariant of HeldInputs *)

WiresOK == wire \in [Client -> Seq(Lines)] /\ \A c \in Client : Len(wire[c]) <= MaxWire

\* Connections are accepted, nobody's but one program's, and carry lines only after the
\* handshake; a press is on the present connection only if it was written.
ConnOK ==
  /\ \A p \in Program : conn[p] # None =>
       /\ phase[conn[p]] # "none"
       /\ \A q \in Program : conn[q] = conn[p] => q = p
       /\ wire[conn[p]] # <<>> => server_ok[p]
  /\ \A c \in Client : phase[c] = "none" => wire[c] = <<>>
  /\ \A p \in Program : sent[p] # {} => Writes(p)

\* A button that two connections hold is contested.
SharedIsContested ==
  \A b \in Button, c, d \in Client :
    c # d /\ b \in m_heldButtons[c] /\ b \in m_heldButtons[d] => b \in contested

\* The last line about a button that is under way tells what the program wants of it; when
\* there is none, the connection holds what the program pressed on it, and the simulator
\* has what the program wants if nobody else has to do with the button.
ButtonsOK ==
  \A p \in Program, b \in Button :
    conn[p] # None /\ phase[conn[p]] = "open" /\ b \notin contested \cup late =>
      /\ Tells(wire[conn[p]], b, sent[p])
      /\ Silent(wire[conn[p]], b) =>
           /\ b \in sent[p] => b \in m_heldButtons[conn[p]]
           /\ Alone(conn[p], b) => (b \in down <=> b \in sent[p])

\* A command begins on a wire only if its program still runs it or ends it later; one that
\* runs in the simulator has a program that still runs it and can end it, or has an end
\* under way.
CommandsOK ==
  \A k \in Command \ abandoned :
    /\ \A c \in Client : \/ NoBegin(wire[c], k)
                         \/ \E p \in Program : conn[p] = c /\ Answered(wire[c], k, running[p])
    /\ k \in commands => \E p \in Program : Writes(p) /\ (k \in running[p] \/ Ends(wire[conn[p]], k))

HeldInv == /\ IInv /\ HeldTypeOK /\ WiresOK
           /\ ConnOK /\ SharedIsContested /\ ButtonsOK /\ CommandsOK

LEMMA HeldInitInv == HeldInit => HeldInv
<1> SUFFICES ASSUME HeldInit PROVE HeldInv
  OBVIOUS
<1>1. IInv
  BY InitIInv DEF HeldInit
<1>2. \A c \in Client : wire[c] = <<>> /\ DOMAIN wire[c] = {} /\ Len(wire[c]) = 0
  <2>1. <<>> \in Seq(Lines) /\ Len(<<>>) = 0 /\ DOMAIN <<>> = 1..0
    BY EmptySeq, LenProperties
  <2>2. \A c \in Client : wire[c] = <<>>
    BY DEF HeldInit
  <2>3. \A c \in Client : DOMAIN wire[c] = {}
    <3> SUFFICES ASSUME NEW c \in Client PROVE DOMAIN wire[c] = {}
      OBVIOUS
    <3>1. wire[c] \in Seq(Lines) /\ Len(wire[c]) = 0
      BY <2>1, <2>2
    <3>2. DOMAIN wire[c] = 1..0
      BY <3>1, LenProperties
    <3>3. QED
      BY <3>2
  <2>4. QED
    BY <2>1, <2>2, <2>3
<1>3. WiresOK
  BY <1>2, WireHasRoom, EmptySeq DEF HeldInit, WiresOK
<1>4. HeldTypeOK
  BY <1>1, <1>3 DEF HeldInit, HeldTypeOK, WiresOK, IInv
<1>5. ConnOK /\ ButtonsOK
  BY <1>2 DEF HeldInit, ConnOK, ButtonsOK
<1>6. SharedIsContested
  BY DEF HeldInit, Init, SharedIsContested
<1>7. CommandsOK
  BY <1>2 DEF HeldInit, CommandsOK, NoBegin
<1>8. QED
  BY <1>1, <1>3, <1>4, <1>5, <1>6, <1>7 DEF HeldInv

\* A line that is written goes to the wire of the present connection, if there is one.
LEMMA Written ==
  ASSUME HeldTypeOK, WiresOK, NEW p \in Program, NEW x \in Lines, Write(p, x)
  PROVE  /\ WiresOK'
         /\ \A c \in Client : wire'[c] = IF Writes(p) /\ c = conn[p] THEN Append(wire[c], x)
                                                                    ELSE wire[c]
<1>1. conn[p] \in Client \cup {None} /\ MaxWire \in Nat
  BY WireHasRoom DEF HeldTypeOK
<1>2. CASE Writes(p)
  <2> DEFINE w == wire[conn[p]]
  <2>1. conn[p] \in Client /\ w \in Seq(Lines) /\ Len(w) < MaxWire /\ Len(w) \in Nat
    BY <1>1, <1>2, LenProperties DEF Writes, Write, WiresOK
  <2>2. Append(w, x) \in Seq(Lines) /\ Len(Append(w, x)) <= MaxWire
    BY <1>1, <2>1, Appended
  <2>3. wire' = [wire EXCEPT ![conn[p]] = Append(w, x)]
    BY <1>2 DEF Write
  <2> HIDE DEF w
  <2>4. /\ wire' \in [Client -> Seq(Lines)]
        /\ \A c \in Client : wire'[c] = IF c = conn[p] THEN Append(w, x) ELSE wire[c]
    BY <2>1, <2>2, <2>3 DEF WiresOK
  <2>5. \A c \in Client : Len(wire'[c]) <= MaxWire
    BY <2>2, <2>4 DEF WiresOK
  <2>6. QED
    BY <1>2, <2>4, <2>5 DEF WiresOK, w
<1>3. CASE ~Writes(p)
  BY <1>3 DEF Write, WiresOK
<1>4. QED
  BY <1>2, <1>3

\* A line that is read leaves the other wires alone.
LEMMA Consumed ==
  ASSUME WiresOK, NEW c \in Client, wire[c] # <<>>, wire' = [wire EXCEPT ![c] = Tail(@)]
  PROVE  /\ WiresOK'
         /\ \A d \in Client : wire'[d] = IF d = c THEN Tail(wire[c]) ELSE wire[d]
<1>1. wire[c] \in Seq(Lines) /\ Tail(wire[c]) \in Seq(Lines) /\ Len(wire[c]) \in Nat
      /\ Len(Tail(wire[c])) = Len(wire[c]) - 1
  BY Shifted DEF WiresOK
<1>2. /\ wire' \in [Client -> Seq(Lines)]
      /\ \A d \in Client : wire'[d] = IF d = c THEN Tail(wire[c]) ELSE wire[d]
  BY <1>1 DEF WiresOK
<1>3. \A d \in Client : Len(wire'[d]) <= MaxWire
  BY <1>1, <1>2, WireHasRoom DEF WiresOK
<1>4. QED
  BY <1>2, <1>3 DEF WiresOK

\* Wires that are cut carry nothing.
LEMMA Cut ==
  ASSUME WiresOK, NEW D, wire' = [c \in Client |-> IF c \in D THEN <<>> ELSE wire[c]]
  PROVE  WiresOK' /\ \A c \in Client : wire'[c] = IF c \in D THEN <<>> ELSE wire[c]
<1>1. <<>> \in Seq(Lines) /\ Len(<<>>) = 0
  BY EmptySeq
<1>2. QED
  BY <1>1, WireHasRoom DEF WiresOK

-----------------------------------------------------------------------------
(* The programs' steps *)

\* The parts of the invariant other than that of Buttons.
HeldParts == HeldTypeOK /\ WiresOK /\ ConnOK /\ SharedIsContested /\ ButtonsOK /\ CommandsOK

\* Who has a connection that takes its lines.
LEMMA WriterHasWire ==
  ASSUME HeldTypeOK, NEW p \in Program
  PROVE  (conn[p] # None => conn[p] \in Client \ Raw) /\ (Writes(p) => conn[p] \in Client)
  BY DEF HeldTypeOK, Writes

\* A line about a button: Press or LetGo.
LEMMA ButtonLine ==
  ASSUME HeldInv, NEW p \in Program, NEW b \in Button, Press(p, b) \/ LetGo(p, b),
         TypeOK'
  PROVE  HeldParts'
<1>1. PICK x \in Lines :
        /\ x \in Of(b) /\ Write(p, x)
        /\ Writes(p) => (x = <<"but", b>> <=> b \in sent'[p])
        /\ \A k : x # <<"begin", k>> /\ x # <<"end", k>>
        /\ \A d \in Button : d # b => x \notin Of(d)
  <2>1. CASE Press(p, b)
    <3> DEFINE x == <<"but", b>>
    <3>1. Writes(p) => b \in sent'[p]
      BY <2>1 DEF Press, HeldInv, HeldTypeOK
    <3>2. x \in Lines /\ x \in Of(b) /\ Write(p, x)
      BY <2>1 DEF Lines, Of, Press
    <3>3. QED
      BY <3>1, <3>2 DEF Of
  <2>2. CASE LetGo(p, b)
    <3> DEFINE x == <<"rel", b>>
    <3>1. b \notin sent'[p] /\ x # <<"but", b>>
      BY <2>2 DEF LetGo, HeldInv, HeldTypeOK
    <3>2. x \in Lines /\ x \in Of(b) /\ Write(p, x)
      BY <2>2 DEF Lines, Of, LetGo
    <3>3. QED
      BY <3>1, <3>2 DEF Of
  <2>3. QED
    BY <2>1, <2>2
<1>2. /\ UNCHANGED vars /\ phase' = phase /\ m_heldButtons' = m_heldButtons /\ down' = down
      /\ late' = late /\ conn' = conn /\ server_ok' = server_ok /\ running' = running
      /\ commands' = commands /\ contested' = contested /\ abandoned' = abandoned
  BY DEF Press, LetGo, vars
<1>3. HeldTypeOK /\ WiresOK
  BY DEF HeldInv
<1>4. /\ held' \in [Program -> SUBSET Button] /\ sent' \in [Program -> SUBSET Button]
      /\ \A q \in Program : sent'[q] \subseteq held'[q] /\ (q # p => sent'[q] = sent[q])
      /\ \A d \in Button : d # b => (d \in sent'[p] <=> d \in sent[p])
      /\ sent'[p] # {} => Writes(p)
  <2>1. CASE Press(p, b)
    BY <2>1 DEF Press, HeldInv, HeldTypeOK, ConnOK
  <2>2. CASE LetGo(p, b)
    <3>1. \A q \in Program : sent'[q] = IF q = p THEN sent[q] \ {b} ELSE sent[q]
      BY <1>3, <2>2 DEF LetGo, HeldTypeOK
    <3>2. sent'[p] # {} => Writes(p)
      BY <3>1 DEF HeldInv, ConnOK
    <3>3. QED
      BY <1>3, <2>2, <3>1, <3>2 DEF LetGo, HeldTypeOK
  <2>3. QED
    BY <2>1, <2>2
<1>5. /\ WiresOK'
      /\ \A c \in Client : wire'[c] = IF Writes(p) /\ c = conn[p] THEN Append(wire[c], x)
                                                                 ELSE wire[c]
  BY <1>1, <1>3, Written
<1>6. HeldTypeOK'
  BY <1>2, <1>3, <1>4, <1>5 DEF HeldTypeOK, WiresOK
<1>7. ConnOK'
  BY <1>2, <1>3, <1>4, <1>5, WriterHasWire DEF HeldInv, ConnOK, Writes
<1>8. SharedIsContested'
  BY <1>2 DEF HeldInv, SharedIsContested
<1>9. ButtonsOK'
  <2> SUFFICES ASSUME NEW q \in Program, NEW d \in Button, conn[q] # None,
                      phase[conn[q]] = "open", d \notin contested \cup late
               PROVE  /\ Tells(wire'[conn[q]], d, sent'[q])
                      /\ Silent(wire'[conn[q]], d) =>
                           /\ d \in sent'[q] => d \in m_heldButtons[conn[q]]
                           /\ Alone(conn[q], d) => (d \in down <=> d \in sent'[q])
    BY <1>2 DEF ButtonsOK, Alone
  <2> DEFINE w == wire[conn[q]]
  <2>1. /\ Tells(w, d, sent[q])
        /\ Silent(w, d) => /\ d \in sent[q] => d \in m_heldButtons[conn[q]]
                           /\ Alone(conn[q], d) => (d \in down <=> d \in sent[q])
    BY DEF HeldInv, ButtonsOK
  <2>2. conn[q] \in Client /\ w \in Seq(Lines)
    BY <1>3, WriterHasWire DEF WiresOK
  <2>3. CASE q = p /\ Writes(p)
    <3>1. wire'[conn[q]] = Append(w, x)
      BY <1>5, <2>2, <2>3
    <3>2. CASE d = b
      BY <1>1, <2>2, <2>3, <3>1, <3>2, WrittenTells
    <3>3. CASE d # b
      <4>1. x \notin Of(d) /\ (d \in sent'[q] <=> d \in sent[q])
        BY <1>1, <1>4, <2>3, <3>3
      <4>2. /\ Tells(Append(w, x), d, sent[q])
            /\ Silent(Append(w, x), d) <=> Silent(w, d)
        BY <2>1, <2>2, <4>1, WrittenTells
      <4>3. Tells(Append(w, x), d, sent'[q])
        BY <4>1, <4>2 DEF Tells
      <4>4. QED
        BY <2>1, <3>1, <4>1, <4>2, <4>3
    <3>4. QED
      BY <3>2, <3>3
  <2>4. CASE q # p
    <3>1. conn[q] # conn[p]
      BY <2>4 DEF HeldInv, ConnOK
    <3>2. wire'[conn[q]] = w /\ sent'[q] = sent[q]
      BY <1>4, <1>5, <2>2, <2>4, <3>1
    <3>3. QED
      BY <2>1, <3>2
  <2>5. CASE q = p /\ ~Writes(p)
    <3>1. wire'[conn[q]] = w /\ sent'[q] = {} /\ sent[q] = {}
      BY <1>4, <1>5, <2>2, <2>5 DEF HeldInv, ConnOK
    <3>2. QED
      BY <2>1, <3>1
  <2>6. QED
    BY <2>3, <2>4, <2>5
<1>10. CommandsOK'
  <2>1. ASSUME NEW c \in Client, NEW k
        PROVE  /\ NoBegin(wire[c], k) => NoBegin(wire'[c], k)
               /\ Ends(wire[c], k) => Ends(wire'[c], k)
               /\ \A R : Answered(wire[c], k, R) => Answered(wire'[c], k, R)
    <3>1. wire[c] \in Seq(Lines)
      BY <1>3 DEF WiresOK
    <3>2. QED
      BY <1>1, <1>5, <3>1, WrittenAnswers
  <2>2. \A q \in Program : Writes(q)' = Writes(q) /\ (Writes(q) => conn[q] \in Client)
    BY <1>2, <1>3, WriterHasWire DEF Writes
  <2>3. CommandsOK
    BY DEF HeldInv
  <2>4. QED
    BY <1>2, <2>1, <2>2, <2>3 DEF CommandsOK
<1>11. QED
  BY <1>5, <1>6, <1>7, <1>8, <1>9, <1>10 DEF HeldParts

\* A line about a command: CommandBegin or CommandEnd.
LEMMA CommandLine ==
  ASSUME HeldInv, NEW p \in Program, NEW k \in Command, CommandBegin(p, k) \/ CommandEnd(p, k)
  PROVE  HeldParts'
<1>1. /\ UNCHANGED vars /\ phase' = phase /\ m_heldButtons' = m_heldButtons /\ down' = down
      /\ late' = late /\ conn' = conn /\ server_ok' = server_ok /\ held' = held /\ sent' = sent
      /\ commands' = commands /\ contested' = contested /\ abandoned' = abandoned
  BY DEF CommandBegin, CommandEnd, vars
<1>2. HeldTypeOK /\ WiresOK
  BY DEF HeldInv
<1>3. PICK x \in Lines :
        /\ x = <<"begin", k>> \/ x = <<"end", k>>
        /\ x = <<"begin", k>> => k \in running'[p]
        /\ Write(p, x)
  <2>1. CASE CommandBegin(p, k)
    <3> DEFINE x == <<"begin", k>>
    <3>1. x \in Lines /\ Write(p, x) /\ k \in running'[p]
      BY <1>2, <2>1 DEF Lines, CommandBegin, HeldTypeOK
    <3>2. QED
      BY <3>1
  <2>2. CASE CommandEnd(p, k)
    <3> DEFINE x == <<"end", k>>
    <3>1. x \in Lines /\ Write(p, x) /\ x # <<"begin", k>>
      BY <2>2 DEF Lines, CommandEnd
    <3>2. QED
      BY <3>1
  <2>3. QED
    BY <2>1, <2>2
<1>4. /\ running' \in [Program -> SUBSET Command]
      /\ \A q \in Program : q # p => running'[q] = running[q]
      /\ \A j \in Command : j # k => (j \in running'[p] <=> j \in running[p])
  BY <1>2 DEF CommandBegin, CommandEnd, HeldTypeOK
<1>5. /\ WiresOK'
      /\ \A c \in Client : wire'[c] = IF Writes(p) /\ c = conn[p] THEN Append(wire[c], x)
                                                                 ELSE wire[c]
  BY <1>2, <1>3, Written
<1>6. HeldTypeOK'
  <2>1. TypeOK'
    BY <1>1, <1>2 DEF HeldTypeOK, TypeOK, vars
  <2>2. QED
    BY <1>1, <1>2, <1>4, <1>5, <2>1 DEF HeldTypeOK, WiresOK
<1>7. ConnOK'
  BY <1>1, <1>2, <1>5, WriterHasWire DEF HeldInv, ConnOK, Writes
<1>8. SharedIsContested'
  BY <1>1 DEF HeldInv, SharedIsContested
<1>9. ButtonsOK'
  <2> SUFFICES ASSUME NEW q \in Program, NEW d \in Button, conn[q] # None,
                      phase[conn[q]] = "open", d \notin contested \cup late
               PROVE  /\ Tells(wire'[conn[q]], d, sent[q])
                      /\ Silent(wire'[conn[q]], d) =>
                           /\ d \in sent[q] => d \in m_heldButtons[conn[q]]
                           /\ Alone(conn[q], d) => (d \in down <=> d \in sent[q])
    BY <1>1 DEF ButtonsOK, Alone
  <2> DEFINE w == wire[conn[q]]
  <2>1. /\ Tells(w, d, sent[q])
        /\ Silent(w, d) => /\ d \in sent[q] => d \in m_heldButtons[conn[q]]
                           /\ Alone(conn[q], d) => (d \in down <=> d \in sent[q])
    BY DEF HeldInv, ButtonsOK
  <2>2. conn[q] \in Client /\ w \in Seq(Lines)
    BY <1>2, WriterHasWire DEF WiresOK
  <2>3. x \notin Of(d)
    BY <1>3 DEF Of
  <2>4. Tells(Append(w, x), d, sent[q]) /\ (Silent(Append(w, x), d) <=> Silent(w, d))
    BY <2>1, <2>2, <2>3, WrittenTells
  <2>5. wire'[conn[q]] = Append(w, x) \/ wire'[conn[q]] = w
    BY <1>5, <2>2
  <2>6. QED
    BY <2>1, <2>4, <2>5
<1>10. CommandsOK'
  <2>1. \A q \in Program : Writes(q)' = Writes(q) /\ (Writes(q) => conn[q] \in Client)
    BY <1>1, <1>2, WriterHasWire DEF Writes
  <2>2. ASSUME NEW c \in Client, NEW j
        PROVE  /\ Ends(wire[c], j) => Ends(wire'[c], j)
               /\ j # k /\ NoBegin(wire[c], j) => NoBegin(wire'[c], j)
               /\ \A R : Answered(wire[c], j, R) /\ j # k => Answered(wire'[c], j, R)
               /\ Writes(p) /\ c = conn[p] /\ x = <<"end", k>> =>
                    Ends(wire'[c], k) /\ \A R : Answered(wire'[c], k, R)
               /\ Writes(p) /\ c = conn[p] /\ x = <<"begin", k>> =>
                    \A R : Answered(wire[c], k, R) /\ k \in R => Answered(wire'[c], k, R)
    <3>1. wire[c] \in Seq(Lines)
      BY <1>2 DEF WiresOK
    <3>2. j # k => x # <<"begin", j>>
      BY <1>3
    <3>3. CASE ~(Writes(p) /\ c = conn[p])
      <4>1. wire'[c] = wire[c]
        BY <1>5, <3>3
      <4>2. QED
        BY <3>3, <4>1
    <3>4. CASE Writes(p) /\ c = conn[p]
      <4> DEFINE w == wire[c]
                 v == Append(w, x)
      <4>1. wire'[c] = v
        BY <1>5, <3>4
      <4>2. /\ Ends(w, j) => Ends(v, j)
            /\ j # k /\ NoBegin(w, j) => NoBegin(v, j)
            /\ \A R : Answered(w, j, R) /\ j # k => Answered(v, j, R)
        BY <3>1, <3>2, WrittenAnswers
      <4>3. x = <<"end", k>> => Ends(v, k) /\ \A R : Answered(v, k, R)
        BY <3>1, WrittenAnswers
      <4>4. \A R : Answered(w, k, R) /\ k \in R => Answered(v, k, R)
        BY <3>1, WrittenAnswers
      <4> HIDE DEF v, w
      <4>5. QED
        BY <4>1, <4>2, <4>3, <4>4 DEF w
    <3>5. QED
      BY <3>3, <3>4
  <2>3. CommandsOK
    BY DEF HeldInv
  <2>4. ASSUME NEW j \in Command \ abandoned, j # k
        PROVE  /\ \A c \in Client :
                    \/ NoBegin(wire'[c], j)
                    \/ \E q \in Program : conn[q] = c /\ Answered(wire'[c], j, running'[q])
               /\ j \in commands =>
                    \E q \in Program : Writes(q) /\ (j \in running'[q] \/ Ends(wire'[conn[q]], j))
    <3>1. \A q \in Program : j \in running'[q] <=> j \in running[q]
      BY <1>4, <2>4
    <3>2. \A q \in Program : \A w : Answered(w, j, running[q]) => Answered(w, j, running'[q])
      BY <3>1 DEF Answered
    <3>3. QED
      BY <2>1, <2>2, <2>3, <2>4, <3>1, <3>2 DEF CommandsOK
  <2>5. ASSUME k \notin abandoned
        PROVE  /\ \A c \in Client :
                    \/ NoBegin(wire'[c], k)
                    \/ \E q \in Program : conn[q] = c /\ Answered(wire'[c], k, running'[q])
               /\ k \in commands =>
                    \E q \in Program : Writes(q) /\ (k \in running'[q] \/ Ends(wire'[conn[q]], k))
    <3>1. ASSUME NEW c \in Client
          PROVE  \/ NoBegin(wire'[c], k)
                 \/ \E q \in Program : conn[q] = c /\ Answered(wire'[c], k, running'[q])
      <4>1. CASE Writes(p) /\ c = conn[p]
        <5>1. \A R : k \in R => Answered(wire[c], k, R)
          BY DEF Answered
        <5>2. Answered(wire'[c], k, running'[p])
          BY <1>3, <2>2, <4>1, <5>1
        <5>3. QED
          BY <4>1, <5>2
      <4>2. CASE ~(Writes(p) /\ c = conn[p])
        <5>1. wire'[c] = wire[c]
          BY <1>5, <4>2
        <5>2. CASE NoBegin(wire[c], k)
          BY <5>1, <5>2
        <5>3. ASSUME NEW q \in Program, conn[q] = c, Answered(wire[c], k, running[q]),
                     ~NoBegin(wire[c], k)
              PROVE  q # p
          <6>1. c # None
            BY NoneIsNone
          <6>2. wire[c] # <<>>
            <7>1. DOMAIN wire[c] # {} /\ wire[c] \in Seq(Lines)
              BY <1>2, <5>3 DEF NoBegin, WiresOK
            <7>2. Len(wire[c]) # 0
              BY <7>1, LenProperties
            <7>3. QED
              BY <7>2, EmptySeq
          <6>3. QED
            BY <4>2, <5>3, <6>1, <6>2 DEF HeldInv, ConnOK, Writes
        <5>4. QED
          BY <1>4, <2>3, <2>5, <5>1, <5>2, <5>3 DEF CommandsOK
      <4>3. QED
        BY <4>1, <4>2
    <3>2. ASSUME k \in commands
          PROVE  \E q \in Program : Writes(q) /\ (k \in running'[q] \/ Ends(wire'[conn[q]], k))
      <4>1. PICK q \in Program : Writes(q) /\ (k \in running[q] \/ Ends(wire[conn[q]], k))
        BY <2>3, <2>5, <3>2 DEF CommandsOK
      <4>2. conn[q] \in Client
        BY <2>1, <4>1
      <4>3. CASE Ends(wire[conn[q]], k)
        BY <2>2, <4>1, <4>2, <4>3
      <4>4. CASE q # p
        BY <1>4, <2>2, <4>1, <4>2, <4>4
      <4>5. CASE q = p
        BY <1>3, <2>2, <4>1, <4>2, <4>5
      <4>6. QED
        BY <4>3, <4>4, <4>5
    <3>3. QED
      BY <3>1, <3>2
  <2>6. QED
    BY <1>1, <2>1, <2>4, <2>5 DEF CommandsOK
<1>11. QED
  BY <1>5, <1>6, <1>7, <1>8, <1>9, <1>10 DEF HeldParts

\* The connection of a program ends on its side.
LEMMA EndOfConnection ==
  ASSUME HeldInv, NEW p \in Program, ConnectionEnds(p)
  PROVE  HeldParts'
<1> DEFINE c == conn[p]
<1>1. /\ UNCHANGED vars /\ phase' = phase /\ m_heldButtons' = m_heldButtons /\ down' = down
      /\ late' = late /\ held' = held /\ running' = running /\ commands' = commands
      /\ contested' = contested
      /\ abandoned' = abandoned \cup running[p] \cup {k \in Command : <<"end", k>> \in On(c)}
  BY DEF ConnectionEnds, vars
<1>2. HeldTypeOK /\ WiresOK
  BY DEF HeldInv
<1>3. c \in Client /\ c # None
  BY <1>2, WriterHasWire DEF ConnectionEnds
<1>4. /\ WiresOK'
      /\ \A d \in Client : wire'[d] = wire[d] \/ (d = c /\ wire'[d] = <<>>)
  <2>1. CASE wire' = wire
    BY <1>2, <2>1 DEF WiresOK
  <2>2. CASE wire' = [wire EXCEPT ![c] = <<>>]
    <3>1. wire' = [d \in Client |-> IF d \in {c} THEN <<>> ELSE wire[d]]
      BY <1>2, <1>3, <2>2 DEF WiresOK
    <3>2. QED
      BY <1>2, <3>1, Cut
  <2>3. QED
    BY <2>1, <2>2 DEF ConnectionEnds
<1>5. /\ conn' \in [Program -> (Client \ Raw) \cup {None}]
      /\ server_ok' \in [Program -> BOOLEAN] /\ sent' \in [Program -> SUBSET Button]
      /\ conn'[p] = None /\ sent'[p] = {}
      /\ \A q \in Program : q # p => /\ conn'[q] = conn[q] /\ sent'[q] = sent[q]
                                     /\ server_ok'[q] = server_ok[q]
  <2>1. /\ conn' = [conn EXCEPT ![p] = None] /\ sent' = [sent EXCEPT ![p] = {}]
        /\ \E ok \in {FALSE, server_ok[p]} : server_ok' = [server_ok EXCEPT ![p] = ok]
    BY DEF ConnectionEnds
  <2>2. server_ok[p] \in BOOLEAN /\ server_ok \in [Program -> BOOLEAN]
    BY <1>2 DEF HeldTypeOK
  <2>3. /\ server_ok' \in [Program -> BOOLEAN]
        /\ \A q \in Program : q # p => server_ok'[q] = server_ok[q]
    BY <2>1, <2>2
  <2>4. QED
    BY <1>2, <2>1, <2>3 DEF HeldTypeOK
<1>6. HeldTypeOK'
  <2>1. TypeOK'
    BY <1>1, <1>2 DEF HeldTypeOK, TypeOK, vars
  <2>2. \A q \in Program : sent'[q] \subseteq held'[q]
    BY <1>1, <1>2, <1>5 DEF HeldTypeOK
  <2>3. abandoned' \subseteq Command
    BY <1>1, <1>2 DEF HeldTypeOK
  <2>4. QED
    BY <1>1, <1>2, <1>4, <1>5, <2>1, <2>2, <2>3 DEF HeldTypeOK, WiresOK
<1> HIDE DEF c
<1>7. ConnOK'
  <2>1. ASSUME NEW q \in Program, conn'[q] # None
        PROVE  /\ q # p /\ conn'[q] = conn[q] /\ phase'[conn'[q]] # "none"
               /\ \A r \in Program : conn'[r] = conn'[q] => r = q
               /\ wire'[conn'[q]] # <<>> => server_ok'[q]
    <3>1. q # p /\ conn'[q] = conn[q] /\ conn[q] # c /\ conn[q] \in Client
      BY <1>2, <1>5, <2>1, WriterHasWire DEF HeldInv, ConnOK, c
    <3>2. wire'[conn[q]] = wire[conn[q]] /\ server_ok'[q] = server_ok[q]
      BY <1>4, <1>5, <3>1
    <3>3. QED
      BY <1>1, <1>5, <2>1, <3>1, <3>2 DEF HeldInv, ConnOK
  <2>2. \A d \in Client : phase'[d] = "none" => wire'[d] = <<>>
    BY <1>1, <1>4 DEF HeldInv, ConnOK
  <2>3. \A q \in Program : sent'[q] # {} => Writes(q)'
    BY <1>5 DEF HeldInv, ConnOK, Writes
  <2>4. QED
    BY <2>1, <2>2, <2>3 DEF ConnOK
<1>8. SharedIsContested'
  BY <1>1 DEF HeldInv, SharedIsContested
<1>9. \A q \in Program : conn'[q] # None =>
        /\ conn'[q] = conn[q] /\ sent'[q] = sent[q] /\ server_ok'[q] = server_ok[q]
        /\ wire'[conn[q]] = wire[conn[q]] /\ conn[q] \in Client /\ q # p
  <2> SUFFICES ASSUME NEW q \in Program, conn'[q] # None
               PROVE  /\ conn'[q] = conn[q] /\ sent'[q] = sent[q] /\ server_ok'[q] = server_ok[q]
                      /\ wire'[conn[q]] = wire[conn[q]] /\ conn[q] \in Client /\ q # p
    OBVIOUS
  <2>1. q # p /\ conn'[q] = conn[q] /\ conn[q] # c /\ conn[q] \in Client
    BY <1>2, <1>5, WriterHasWire DEF HeldInv, ConnOK, c
  <2>2. QED
    BY <1>4, <1>5, <2>1
<1>10. ButtonsOK'
  BY <1>1, <1>9 DEF HeldInv, ButtonsOK, Alone
<1>11. CommandsOK'
  <2> SUFFICES ASSUME NEW k \in Command \ abandoned'
               PROVE  /\ \A d \in Client :
                           \/ NoBegin(wire'[d], k)
                           \/ \E q \in Program : conn'[q] = d /\ Answered(wire'[d], k, running[q])
                      /\ k \in commands =>
                           \E q \in Program : /\ Writes(q)'
                                              /\ k \in running[q] \/ Ends(wire'[conn'[q]], k)
    BY <1>1 DEF CommandsOK
  <2>1. k \in Command \ abandoned /\ k \notin running[p] /\ ~Ends(wire[c], k)
    BY <1>1 DEF On, Ends, c
  <2>2. CommandsOK
    BY DEF HeldInv
  <2>3. DOMAIN <<>> = {}
    <3>1. DOMAIN <<>> = 1..0
      BY EmptySeq, LenProperties
    <3>2. QED
      BY <3>1
  <2>4. ASSUME NEW d \in Client
        PROVE  \/ NoBegin(wire'[d], k)
               \/ \E q \in Program : conn'[q] = d /\ Answered(wire'[d], k, running[q])
    <3>1. CASE wire'[d] = <<>>
      BY <2>3, <3>1 DEF NoBegin
    <3>2. CASE NoBegin(wire[d], k) /\ wire'[d] = wire[d]
      BY <3>2
    <3>3. ASSUME NEW q \in Program, conn[q] = d, Answered(wire[d], k, running[q]),
                 wire'[d] = wire[d]
          PROVE  \/ NoBegin(wire'[d], k)
                 \/ conn'[q] = d /\ Answered(wire'[d], k, running[q])
      <4>1. CASE q = p
        BY <2>1, <3>3, <4>1 DEF Answered, Ends, NoBegin, c
      <4>2. CASE q # p
        BY <1>5, <3>3, <4>2
      <4>3. QED
        BY <4>1, <4>2
    <3>4. QED
      BY <1>4, <2>1, <2>2, <3>1, <3>2, <3>3 DEF CommandsOK
  <2>5. ASSUME k \in commands
        PROVE  \E q \in Program : Writes(q)' /\ (k \in running[q] \/ Ends(wire'[conn'[q]], k))
    <3>1. PICK q \in Program : Writes(q) /\ (k \in running[q] \/ Ends(wire[conn[q]], k))
      BY <2>1, <2>2, <2>5 DEF CommandsOK
    <3>2. q # p
      BY <2>1, <3>1 DEF c
    <3>3. conn'[q] # None /\ Writes(q)'
      BY <1>5, <3>1, <3>2 DEF Writes
    <3>4. QED
      BY <1>9, <3>1, <3>3
  <2>6. QED
    BY <2>4, <2>5
<1>12. QED
  BY <1>4, <1>6, <1>7, <1>8, <1>10, <1>11 DEF HeldParts

\* The handshake line arrives.
LEMMA HandshakeStep ==
  ASSUME HeldInv, NEW p \in Program, Handshake(p)
  PROVE  HeldParts'
<1>1. /\ UNCHANGED vars /\ phase' = phase /\ m_heldButtons' = m_heldButtons /\ down' = down
      /\ late' = late /\ conn' = conn /\ held' = held /\ running' = running /\ wire' = wire
      /\ commands' = commands /\ sent' = sent /\ contested' = contested /\ abandoned' = abandoned
      /\ server_ok' = [server_ok EXCEPT ![p] = TRUE]
  BY DEF Handshake, vars
<1>2. HeldTypeOK /\ WiresOK
  BY DEF HeldInv
<1>3. /\ server_ok' \in [Program -> BOOLEAN]
      /\ \A q \in Program : server_ok[q] => server_ok'[q]
  BY <1>1, <1>2 DEF HeldTypeOK
<1>4. HeldTypeOK' /\ WiresOK'
  BY <1>1, <1>2, <1>3 DEF HeldTypeOK, TypeOK, WiresOK, vars
<1>5. \A q \in Program : Writes(q) => Writes(q)'
  BY <1>1, <1>3 DEF Writes
<1>6. ConnOK'
  BY <1>1, <1>3, <1>5 DEF HeldInv, ConnOK
<1>7. SharedIsContested' /\ ButtonsOK'
  BY <1>1 DEF HeldInv, SharedIsContested, ButtonsOK, Alone
<1>8. CommandsOK'
  BY <1>1, <1>5 DEF HeldInv, CommandsOK
<1>9. QED
  BY <1>4, <1>6, <1>7, <1>8 DEF HeldParts

-----------------------------------------------------------------------------
(* The plugin's steps *)

\* What a step may do to the button b as the connection e sees it: nothing, or it leaves e
\* alone with a button it does not hold and that is up.
Kept(e, b) ==
  /\ b \in m_heldButtons'[e] <=> b \in m_heldButtons[e]
  /\ Alone(e, b)' => \/ Alone(e, b) /\ (b \in down' <=> b \in down)
                     \/ b \notin m_heldButtons[e] /\ b \notin down'

\* What holds of a button holds after a step that keeps it and writes nothing.
LEMMA KeptIsEnough ==
  ASSUME HeldInv, NEW p \in Program, NEW b \in Button, NEW e, e = conn[p], e # None,
         phase[e] = "open", b \notin contested \cup late, Kept(e, b)
  PROVE  Silent(wire[e], b) =>
           /\ b \in sent[p] => b \in m_heldButtons'[e]
           /\ Alone(e, b)' => (b \in down' <=> b \in sent[p])
<1>1. Silent(wire[e], b) =>
        /\ b \in sent[p] => b \in m_heldButtons[e]
        /\ Alone(e, b) => (b \in down <=> b \in sent[p])
  BY DEF HeldInv, ButtonsOK
<1>2. QED
  BY <1>1 DEF Kept

\* A button of which nobody else has anything to do with, that e does not hold, is up.
LEMMA AloneIsUp ==
  ASSUME NoStuckButton, NEW e \in Client, NEW b \in Button \ late, Alone(e, b),
         b \notin m_heldButtons[e]
  PROVE  b \notin down
  BY DEF NoStuckButton, Alone

\* A press or release of c does not change what another connection sees.
LEMMA LineKeeps ==
  ASSUME TypeOK, NEW c \in Client, NEW d \in Button,
         ButtonPress(c, d) \/ ButtonRelease(c, d),
         NEW e \in Client, NEW b \in Button, c # e \/ d # b
  PROVE  Kept(e, b)
<1>1. CASE ButtonPress(c, d)
  <2>1. /\ down' = down \cup {d} /\ phase' = phase
        /\ \A x \in Client : m_heldButtons'[x] = IF x = c THEN m_heldButtons[x] \cup {d}
                                                        ELSE m_heldButtons[x]
    BY <1>1 DEF ButtonPress, TypeOK
  <2>2. CASE d # b
    BY <2>1, <2>2 DEF Kept, Alone
  <2>3. CASE d = b /\ c # e
    <3>1. phase[c] # "deleted"
      BY <1>1 DEF ButtonPress, CanRead
    <3>2. ~Alone(e, b)'
      BY <2>1, <2>3, <3>1 DEF Alone
    <3>3. QED
      BY <2>1, <2>3, <3>2 DEF Kept
  <2>4. QED
    BY <2>2, <2>3
<1>2. CASE ButtonRelease(c, d)
  <2>1. /\ down' = down \ {d} /\ phase' = phase /\ m_heldButtons' = m_heldButtons
        /\ d \in m_heldButtons[c] /\ phase[c] # "deleted"
    BY <1>2 DEF ButtonRelease, CanRead
  <2>2. Alone(e, b)' <=> Alone(e, b)
    BY <2>1 DEF Alone
  <2>3. d = b /\ c # e => ~Alone(e, b)
    BY <2>1 DEF Alone
  <2>4. QED
    BY <2>1, <2>2, <2>3 DEF Kept
<1>3. QED
  BY <1>1, <1>2

\* Nor does the beginning or the end of another connection.
LEMMA EndKeeps ==
  ASSUME TypeOK, SharedIsContested, NoStuckButton', NEW c \in Client,
         \/ ClientConnected(c) \/ DisconnectLine(c) \/ EndOfLines(c)
         \/ SocketDisconnected(c) \/ DeleteClient(c),
         NEW e \in Client, e # c, NEW b \in Button, b \notin contested \cup late,
         phase[e] = "open"
  PROVE  Kept(e, b) /\ phase'[e] = "open"
<1>1. CASE ClientConnected(c) \/ EndOfLines(c)
  <2>1. /\ m_heldButtons' = m_heldButtons /\ down' = down
        /\ \A x \in Client : /\ phase'[x] = "deleted" <=> phase[x] = "deleted"
                             /\ x # c => phase'[x] = phase[x]
    BY <1>1 DEF ClientConnected, EndOfLines, TypeOK
  <2>2. QED
    BY <2>1 DEF Kept, Alone
<1>2. CASE DisconnectLine(c) \/ SocketDisconnected(c)
  <2>1. /\ m_heldButtons' = m_heldButtons /\ down' = down \ m_heldButtons[c]
        /\ phase[c] # "deleted"
        /\ \A x \in Client : /\ phase'[x] = "deleted" <=> phase[x] = "deleted"
                             /\ x # c => phase'[x] = phase[x]
    BY <1>2 DEF DisconnectLine, SocketDisconnected, ReleaseAll, CanRead, TypeOK
  <2>2. Alone(e, b)' <=> Alone(e, b)
    BY <2>1 DEF Alone
  <2>3. Alone(e, b) => b \notin m_heldButtons[c]
    BY <2>1 DEF Alone
  <2>4. QED
    BY <2>1, <2>2, <2>3 DEF Kept
<1>3. CASE DeleteClient(c)
  <2>1. /\ m_heldButtons' = [m_heldButtons EXCEPT ![c] = {}] /\ down' = down /\ late' = late
        /\ phase' = [phase EXCEPT ![c] = "deleted"] /\ phase[c] = "closed"
    BY <1>3 DEF DeleteClient
  <2>2. /\ m_heldButtons'[e] = m_heldButtons[e] /\ phase'[e] = "open"
        /\ \A x \in Client : x # c => phase'[x] = phase[x] /\ m_heldButtons'[x] = m_heldButtons[x]
    BY <2>1 DEF TypeOK
  <2>3. ASSUME Alone(e, b)', ~Alone(e, b) PROVE b \notin m_heldButtons[e] /\ b \notin down'
    <3>1. b \in m_heldButtons[c]
      BY <2>2, <2>3 DEF Alone
    <3>2. b \notin m_heldButtons[e]
      BY <3>1 DEF SharedIsContested
    <3>3. \A x \in Client : phase'[x] = "open" => b \notin m_heldButtons'[x]
      BY <2>2, <2>3, <3>2 DEF Alone
    <3>4. QED
      BY <2>1, <3>2, <3>3 DEF NoStuckButton
  <2>4. QED
    BY <2>1, <2>2, <2>3 DEF Kept
<1>4. QED
  BY <1>1, <1>2, <1>3

\* The first press by a second connection makes a button contested; no other step gives
\* a connection a button.
LEMMA PressIsNoted ==
  ASSUME TypeOK, SharedIsContested, NEW c \in Client, NEW b \in Button, PressedBy(c, b)
  PROVE  SharedIsContested'
<1>1. /\ \A x \in Client : m_heldButtons'[x] = IF x = c THEN m_heldButtons[x] \cup {b}
                                                      ELSE m_heldButtons[x]
      /\ contested' = IF Alone(c, b) THEN contested ELSE contested \cup {b}
  BY DEF PressedBy, ButtonPress, TypeOK
<1>2. \A d \in Client : d # c /\ b \in m_heldButtons[d] => ~Alone(c, b)
  BY DEF Alone, TypeOK
<1>3. QED
  BY <1>1, <1>2 DEF SharedIsContested

LEMMA SharedKept ==
  ASSUME SharedIsContested, contested' = contested,
         \A c \in Client : m_heldButtons'[c] \subseteq m_heldButtons[c]
  PROVE  SharedIsContested'
  BY DEF SharedIsContested

\* The plugin's steps keep phases that are not "none" so, and accept nobody but in
\* ClientConnected.
LEMMA PhasesGoOn ==
  ASSUME TypeOK, [Next]_vars, NEW c \in Client
  PROVE  /\ phase[c] # "none" => phase'[c] # "none"
         /\ phase[c] \notin {"none", "open"} => phase'[c] # "open"
<1>1. CASE PluginDisable
  BY <1>1 DEF PluginDisable, TypeOK
<1>2. ASSUME NEW d \in Client,
             \/ ClientConnected(d) \/ DisconnectLine(d) \/ EndOfLines(d)
             \/ SocketDisconnected(d) \/ DeleteClient(d)
      PROVE  /\ phase[c] # "none" => phase'[c] # "none"
             /\ phase[c] \notin {"none", "open"} => phase'[c] # "open"
  BY <1>2 DEF ClientConnected, DisconnectLine, EndOfLines, SocketDisconnected, DeleteClient, TypeOK
<1>3. ASSUME NEW d \in Client, NEW b \in Button, ButtonPress(d, b) \/ ButtonRelease(d, b)
      PROVE  phase' = phase
  BY <1>3 DEF ButtonPress, ButtonRelease
<1>4. QED
  BY <1>1, <1>2, <1>3 DEF Next, vars

\* The plugin accepts a connection of a program.
LEMMA Connected ==
  ASSUME HeldInv, IInv', NEW p \in Program, Connect(p)
  PROVE  HeldParts'
<1>1. PICK c \in Client \ Raw :
        /\ phase[c] = "none" /\ ClientConnected(c) /\ conn' = [conn EXCEPT ![p] = c]
  <2> DEFINE new == {d \in Client \ Raw : phase[d] = "none"}
             c   == CHOOSE d \in new : TRUE
  <2>1. new # {} /\ ClientConnected(c) /\ conn' = [conn EXCEPT ![p] = c]
    BY DEF Connect
  <2>2. c \in new
    BY <2>1
  <2> HIDE DEF c
  <2>3. QED
    BY <2>1, <2>2
<1>2. /\ conn[p] = None /\ server_ok' = server_ok /\ held' = held /\ running' = running
      /\ sent' = sent /\ wire' = wire /\ commands' = commands /\ contested' = contested
      /\ abandoned' = abandoned
  BY DEF Connect
<1>3. HeldTypeOK /\ WiresOK /\ TypeOK /\ TypeOK' /\ NoStuckButton' /\ late' = late /\ c # None
  BY <1>1, NoneIsNone DEF HeldInv, IInv, ClientConnected
<1>4. /\ \A d \in Client : d # c => phase'[d] = phase[d]
      /\ phase'[c] = "open" /\ m_heldButtons' = m_heldButtons
  BY <1>1, <1>3 DEF ClientConnected, TypeOK
<1>5. conn'[p] = c /\ \A q \in Program : q # p => conn'[q] = conn[q] /\ conn[q] # c
  BY <1>1, <1>3 DEF HeldTypeOK, HeldInv, ConnOK
<1>6. \A q \in Program : conn[q] # None => q # p /\ conn[q] \in Client
  BY <1>2, <1>3, WriterHasWire
<1>7. \A q \in Program : Writes(q) => Writes(q)'
  BY <1>2, <1>3, <1>5 DEF Writes
<1>8. HeldTypeOK' /\ WiresOK'
  <2>1. conn' \in [Program -> (Client \ Raw) \cup {None}]
    BY <1>1, <1>3 DEF HeldTypeOK
  <2>2. QED
    BY <1>2, <1>3, <2>1 DEF HeldTypeOK, WiresOK
<1>9. ConnOK'
  <2>1. wire[c] = <<>>
    BY <1>1 DEF HeldInv, ConnOK
  <2>2. ASSUME NEW q \in Program, conn'[q] # None
        PROVE  /\ phase'[conn'[q]] # "none"
               /\ \A r \in Program : conn'[r] = conn'[q] => r = q
               /\ wire'[conn'[q]] # <<>> => server_ok'[q]
    <3>1. CASE q = p
      BY <1>2, <1>4, <1>5, <2>1, <3>1
    <3>2. CASE q # p
      <4>1. conn'[q] = conn[q] /\ conn[q] # c /\ conn[q] \in Client
        BY <1>5, <1>6, <2>2, <3>2
      <4>2. \A r \in Program : conn'[r] = conn[q] => r # p /\ conn[r] = conn[q]
        BY <1>5, <4>1
      <4>3. QED
        BY <1>2, <1>4, <2>2, <4>1, <4>2 DEF HeldInv, ConnOK
    <3>3. QED
      BY <3>1, <3>2
  <2>3. \A d \in Client : phase'[d] = "none" => wire'[d] = <<>>
    BY <1>2, <1>4 DEF HeldInv, ConnOK
  <2>4. \A q \in Program : sent'[q] # {} => Writes(q)'
    BY <1>2, <1>7 DEF HeldInv, ConnOK
  <2>5. QED
    BY <2>2, <2>3, <2>4 DEF ConnOK
<1>10. SharedIsContested'
  BY <1>2, <1>4 DEF HeldInv, SharedIsContested
<1>11. ButtonsOK'
  <2> SUFFICES ASSUME NEW q \in Program, NEW b \in Button, NEW e, e = conn'[q], e # None,
                      phase'[e] = "open", b \notin contested \cup late
               PROVE  /\ Tells(wire[e], b, sent[q])
                      /\ Silent(wire[e], b) =>
                           /\ b \in sent[q] => b \in m_heldButtons'[e]
                           /\ Alone(e, b)' => (b \in down' <=> b \in sent[q])
    BY <1>2, <1>3 DEF ButtonsOK, Alone
  <2>1. CASE q = p
    <3>1. sent[p] = {}
      BY <1>2 DEF HeldInv, ConnOK, Writes
    <3>2. Tells(wire[c], b, sent[p])
      <4>1. wire[c] = <<>> /\ wire[c] \in Seq(Lines)
        BY <1>1, <1>3 DEF HeldInv, ConnOK, WiresOK
      <4>2. DOMAIN wire[c] = 1..Len(wire[c]) /\ Len(wire[c]) = 0
        BY <4>1, EmptySeq, LenProperties
      <4>3. DOMAIN wire[c] = {}
        BY <4>2
      <4>4. QED
        BY <4>3 DEF Tells
    <3>3. b \notin m_heldButtons'[c]
      BY <1>1, <1>3, <1>4 DEF TypeOK
    <3>4. Alone(c, b)' => b \notin down'
      BY <1>3, <3>3 DEF NoStuckButton, Alone
    <3>5. QED
      BY <1>5, <2>1, <3>1, <3>2, <3>4
  <2>2. CASE q # p
    <3>1. e = conn[q] /\ e # c /\ e \in Client /\ phase[e] = "open"
      BY <1>4, <1>5, <1>6, <2>2
    <3>2. Kept(e, b)
      BY <1>1, <1>3, <3>1, EndKeeps DEF HeldInv
    <3>3. QED
      BY <3>1, <3>2 DEF HeldInv, ButtonsOK, Kept
  <2>3. QED
    BY <2>1, <2>2
<1>12. CommandsOK'
  <2> SUFFICES ASSUME NEW k \in Command \ abandoned
               PROVE  /\ \A d \in Client :
                           \/ NoBegin(wire[d], k)
                           \/ \E q \in Program : conn'[q] = d /\ Answered(wire[d], k, running[q])
                      /\ k \in commands =>
                           \E q \in Program : /\ Writes(q)'
                                              /\ k \in running[q] \/ Ends(wire[conn'[q]], k)
    BY <1>2 DEF CommandsOK
  <2>1. CommandsOK /\ \A d \in Client : d # None
    BY NoneIsNone DEF HeldInv
  <2>2. \A q \in Program : conn[q] # None => conn'[q] = conn[q]
    BY <1>5, <1>6
  <2>3. QED
    BY <1>7, <2>1, <2>2 DEF CommandsOK, Writes
<1>13. QED
  BY <1>8, <1>9, <1>10, <1>11, <1>12 DEF HeldParts

\* A step that writes and reads no lines, and leaves open connections what they have.
LEMMA QuietStep ==
  ASSUME HeldInv, [Next]_vars, TypeOK', WiresOK', SharedIsContested',
         UNCHANGED <<program, commands, abandoned>>,
         contested \subseteq contested', contested' \subseteq Button, late \subseteq late',
         \A c \in Client : wire'[c] = wire[c] \/ (wire'[c] = <<>> /\ ~Current(c)),
         \A c \in Client : phase'[c] = "none" => phase[c] = "none",
         \A p \in Program, b \in Button : \A e :
           e = conn[p] /\ e # None /\ phase'[e] = "open" /\ b \notin contested' \cup late' =>
             phase[e] = "open" /\ Kept(e, b)
  PROVE  HeldParts'
<1>1. /\ conn' = conn /\ server_ok' = server_ok /\ held' = held /\ running' = running
      /\ sent' = sent /\ commands' = commands /\ abandoned' = abandoned
  BY DEF program
<1>2. HeldTypeOK /\ WiresOK /\ TypeOK
  BY DEF HeldInv, IInv
<1>3. \A p \in Program : conn[p] # None => conn[p] \in Client /\ wire'[conn[p]] = wire[conn[p]]
  BY <1>2, WriterHasWire DEF Current
<1>4. HeldTypeOK'
  BY <1>1, <1>2 DEF HeldTypeOK, WiresOK
<1>5. ConnOK'
  <2>1. \A c \in Client : phase[c] # "none" => phase'[c] # "none"
    BY <1>2, PhasesGoOn
  <2>2. QED
    BY <1>1, <1>3, <2>1 DEF HeldInv, ConnOK, Writes
<1>6. ButtonsOK'
  <2> SUFFICES ASSUME NEW p \in Program, NEW b \in Button, NEW e, e = conn[p], e # None,
                      phase'[e] = "open", b \notin contested' \cup late'
               PROVE  /\ Tells(wire[e], b, sent[p])
                      /\ Silent(wire[e], b) =>
                           /\ b \in sent[p] => b \in m_heldButtons'[e]
                           /\ Alone(e, b)' => (b \in down' <=> b \in sent[p])
    BY <1>1, <1>3 DEF ButtonsOK, Alone
  <2>1. phase[e] = "open" /\ Kept(e, b) /\ b \notin contested \cup late
    OBVIOUS
  <2>2. QED
    BY <2>1, KeptIsEnough DEF HeldInv, ButtonsOK
<1>7. CommandsOK'
  <2>1. CommandsOK
    BY DEF HeldInv
  <2>2. \A q \in Program : Writes(q)' = Writes(q) /\ (Writes(q) => conn[q] # None)
    BY <1>1 DEF Writes
  <2>3. ASSUME NEW c \in Client, wire'[c] # wire[c], NEW k PROVE NoBegin(wire'[c], k)
    <3>1. wire'[c] = <<>> /\ wire'[c] \in Seq(Lines)
      BY <2>3 DEF WiresOK
    <3>2. DOMAIN wire'[c] = 1..Len(wire'[c]) /\ Len(wire'[c]) = 0
      BY <3>1, EmptySeq, LenProperties
    <3>3. DOMAIN wire'[c] = {}
      BY <3>2
    <3>4. QED
      BY <3>3 DEF NoBegin
  <2> SUFFICES ASSUME NEW k \in Command \ abandoned
               PROVE  /\ \A c \in Client :
                           \/ NoBegin(wire'[c], k)
                           \/ \E p \in Program : conn[p] = c /\ Answered(wire'[c], k, running[p])
                      /\ k \in commands => \E p \in Program :
                           Writes(p)' /\ (k \in running[p] \/ Ends(wire'[conn[p]], k))
    BY <1>1 DEF CommandsOK
  <2>4. ASSUME NEW c \in Client
        PROVE  \/ NoBegin(wire'[c], k)
               \/ \E p \in Program : conn[p] = c /\ Answered(wire'[c], k, running[p])
    <3>1. CASE wire'[c] = wire[c]
      BY <2>1, <3>1 DEF CommandsOK
    <3>2. CASE wire'[c] # wire[c]
      BY <2>3, <3>2
    <3>3. QED
      BY <3>1, <3>2
  <2>5. ASSUME k \in commands
        PROVE  \E p \in Program : Writes(p)' /\ (k \in running[p] \/ Ends(wire'[conn[p]], k))
    <3>1. PICK p \in Program : Writes(p) /\ (k \in running[p] \/ Ends(wire[conn[p]], k))
      BY <2>1, <2>5 DEF CommandsOK
    <3>2. wire'[conn[p]] = wire[conn[p]] /\ Writes(p)'
      BY <1>3, <2>2, <3>1
    <3>3. QED
      BY <3>1, <3>2
  <2>6. QED
    BY <2>4, <2>5
<1>8. QED
  BY <1>4, <1>5, <1>6, <1>7 DEF HeldParts

\* A line, or the end of lines, of a raw connection.
LEMMA RawLineHandled ==
  ASSUME HeldInv, IInv', NEW c \in Raw, RawLine(c)
  PROVE  HeldParts'
<1>1. c \in Client /\ TypeOK /\ TypeOK' /\ NoStuckButton' /\ HeldTypeOK /\ WiresOK /\ Next
      /\ SharedIsContested
  BY RawAreClients, RawStep DEF HeldInv, IInv
<1>2. UNCHANGED <<program, commands, abandoned>> /\ wire' = wire /\ WiresOK'
  BY <1>1 DEF RawLine, WiresOK
<1>3. \A p \in Program : conn[p] # None => conn[p] \in Client /\ conn[p] # c
  BY <1>1, WriterHasWire
<1>4. CASE \E b \in Button : PressedBy(c, b)
  <2>1. PICK d \in Button : PressedBy(c, d)
    BY <1>4
  <2>2. /\ phase' = phase /\ late \subseteq late' /\ contested \subseteq contested'
        /\ contested' \subseteq Button /\ ButtonPress(c, d)
    BY <1>1, <2>1 DEF PressedBy, ButtonPress, HeldTypeOK
  <2>3. SharedIsContested'
    BY <1>1, <2>1, PressIsNoted
  <2>4. \A e \in Client, b \in Button : e # c => Kept(e, b)
    BY <1>1, <2>2, LineKeeps
  <2>5. QED
    BY <1>1, <1>2, <1>3, <2>2, <2>3, <2>4, QuietStep
<1>5. CASE contested' = contested /\ \E b \in Button : ButtonRelease(c, b)
  <2>1. PICK d \in Button : ButtonRelease(c, d)
    BY <1>5
  <2>2. phase' = phase /\ late' = late /\ m_heldButtons' = m_heldButtons
    BY <2>1 DEF ButtonRelease
  <2>3. SharedIsContested' /\ contested' \subseteq Button
    BY <1>1, <1>5, <2>2, SharedKept DEF HeldTypeOK
  <2>4. \A e \in Client, b \in Button : e # c => Kept(e, b)
    BY <1>1, <2>1, LineKeeps
  <2>5. QED
    BY <1>1, <1>2, <1>3, <1>5, <2>2, <2>3, <2>4, QuietStep
<1>6. CASE contested' = contested /\ (DisconnectLine(c) \/ EndOfLines(c) \/ ClientConnected(c))
  <2>1. /\ late' = late /\ m_heldButtons' = m_heldButtons
        /\ \A e \in Client : e # c => phase'[e] = phase[e]
        /\ phase'[c] # "none"
    BY <1>1, <1>6 DEF DisconnectLine, EndOfLines, ClientConnected, TypeOK
  <2>2. SharedIsContested' /\ contested' \subseteq Button
    BY <1>1, <1>6, <2>1, SharedKept DEF HeldTypeOK
  <2>3. \A e \in Client, b \in Button :
          e # c /\ phase[e] = "open" /\ b \notin contested \cup late => Kept(e, b)
    BY <1>1, <1>6, EndKeeps
  <2>4. QED
    BY <1>1, <1>2, <1>3, <1>6, <2>1, <2>2, <2>3, QuietStep
<1>7. QED
  BY <1>4, <1>5, <1>6 DEF RawLine

\* The plugin learns that a connection has ended, or ends them all.
LEMMA ServerSideEnd ==
  ASSUME HeldInv, IInv', PluginDisabled \/ \E c \in Client : ServerSideEnds(c)
  PROVE  HeldParts'
<1>1. TypeOK /\ TypeOK' /\ NoStuckButton' /\ HeldTypeOK /\ WiresOK /\ SharedIsContested
  BY DEF HeldInv, IInv
<1>2. UNCHANGED <<program, commands, contested, abandoned>> /\ Dropped
  BY DEF PluginDisabled, ServerSideEnds
<1>3. /\ WiresOK'
      /\ \A c \in Client : wire'[c] = wire[c] \/ (wire'[c] = <<>> /\ ~Current(c))
  <2> DEFINE D == {c \in Client : phase'[c] # "open" /\ ~Current(c)}
  <2>1. wire' = [c \in Client |-> IF c \in D THEN <<>> ELSE wire[c]]
    BY <1>2 DEF Dropped
  <2>2. WiresOK' /\ \A c \in Client : wire'[c] = IF c \in D THEN <<>> ELSE wire[c]
    BY <1>1, <2>1, Cut
  <2>3. QED
    BY <2>2
<1>4. contested' = contested /\ contested \subseteq Button
  BY <1>1, <1>2 DEF HeldTypeOK
<1>5. \A p \in Program : conn[p] # None => conn[p] \in Client
  BY <1>1, WriterHasWire
<1>6. CASE PluginDisabled
  <2>1. /\ late' = late /\ Next
        /\ \A c \in Client : /\ m_heldButtons'[c] \subseteq m_heldButtons[c]
                             /\ phase'[c] # "open"
                             /\ phase'[c] = "none" => phase[c] = "none"
    BY <1>1, <1>6 DEF PluginDisabled, PluginDisable, Next, TypeOK, Phases, Quiet
  <2>2. SharedIsContested'
    BY <1>1, <1>4, <2>1, SharedKept
  <2>3. QED
    BY <1>1, <1>2, <1>3, <1>4, <1>5, <2>1, <2>2, QuietStep
<1>7. ASSUME NEW c \in Client, ServerSideEnds(c) PROVE HeldParts'
  <2>1. SocketDisconnected(c) \/ DeleteClient(c)
    BY <1>7 DEF ServerSideEnds
  <2>2. /\ late' = late /\ Next /\ phase'[c] \notin {"none", "open"}
        /\ \A d \in Client : /\ m_heldButtons'[d] \subseteq m_heldButtons[d]
                             /\ d # c => phase'[d] = phase[d]
    BY <1>1, <2>1 DEF SocketDisconnected, DeleteClient, Next, TypeOK
  <2>3. SharedIsContested'
    BY <1>1, <1>4, <2>2, SharedKept
  <2>4. \A e \in Client, b \in Button :
          e # c /\ phase[e] = "open" /\ b \notin contested \cup late => Kept(e, b)
    BY <1>1, <2>1, EndKeeps
  <2>5. QED
    BY <1>1, <1>2, <1>3, <1>4, <1>5, <2>2, <2>3, <2>4, QuietStep
<1>8. QED
  BY <1>6, <1>7

\* The plugin handles the next line of a program's connection.
LEMMA LineHandled ==
  ASSUME HeldInv, IInv', NEW c \in Client, LineRead(c)
  PROVE  HeldParts'
<1> DEFINE w == wire[c]
           x == Head(w)
           v == Tail(w)
<1>1. TypeOK /\ TypeOK' /\ NoStuckButton /\ HeldTypeOK /\ WiresOK /\ SharedIsContested
  BY DEF HeldInv, IInv
<1>2. /\ conn' = conn /\ server_ok' = server_ok /\ held' = held /\ running' = running
      /\ sent' = sent /\ abandoned' = abandoned
      /\ w # <<>> /\ w \in Seq(Lines) /\ phase[c] = "open"
  BY <1>1 DEF LineRead, program, WiresOK
<1>3. WiresOK' /\ \A d \in Client : wire'[d] = IF d = c THEN v ELSE wire[d]
  BY <1>1, <1>2, Consumed DEF LineRead
<1>4. \/ \E b \in Button : x = <<"but", b>> /\ PressedBy(c, b) /\ commands' = commands
      \/ \E b \in Button : /\ x = <<"rel", b>> /\ contested' = contested /\ commands' = commands
                           /\ ButtonRelease(c, b) \/ RefusedRelease(c, b)
      \/ \E k \in Command : /\ x = <<"begin", k>> /\ commands' = commands \cup {k}
                            /\ UNCHANGED <<vars, contested>>
      \/ \E k \in Command : /\ x = <<"end", k>> /\ commands' = commands \ {k}
                            /\ UNCHANGED <<vars, contested>>
  BY DEF LineRead
<1> HIDE DEF w, x, v
<1>5. /\ phase' = phase /\ late' = late /\ contested \subseteq contested'
      /\ contested' \subseteq Button /\ commands' \subseteq Command
  BY <1>1, <1>2, <1>4
     DEF PressedBy, ButtonPress, ButtonRelease, RefusedRelease, vars, HeldTypeOK
<1>6. HeldTypeOK'
  BY <1>1, <1>2, <1>3, <1>5 DEF HeldTypeOK, WiresOK
<1>7. ConnOK'
  BY <1>1, <1>2, <1>3, <1>5, WriterHasWire DEF HeldInv, ConnOK, Writes, w
<1>8. SharedIsContested'
  <2>1. ASSUME NEW b \in Button, PressedBy(c, b) PROVE SharedIsContested'
    BY <1>1, <2>1, PressIsNoted
  <2>2. ASSUME m_heldButtons' = m_heldButtons, contested' = contested PROVE SharedIsContested'
    BY <1>1, <2>2, SharedKept
  <2>3. QED
    BY <1>4, <2>1, <2>2 DEF ButtonRelease, RefusedRelease, vars
\* What becomes of the button b that the connection e has: the line read is about it, or it
\* is kept.
<1>9. ASSUME NEW e \in Client, NEW b \in Button, e # c \/ x \notin Of(b)
      PROVE  Kept(e, b)
  <2>1. ASSUME NEW d \in Button, x \in {<<"but", d>>, <<"rel", d>>},
               ButtonPress(c, d) \/ ButtonRelease(c, d)
        PROVE  Kept(e, b)
    <3>1. c # e \/ d # b
      BY <1>9, <2>1 DEF Of
    <3>2. QED
      BY <1>1, <2>1, <3>1, LineKeeps
  <2>2. ASSUME UNCHANGED vars PROVE Kept(e, b)
    BY <2>2 DEF Kept, Alone, vars
  <2>3. QED
    BY <1>4, <2>1, <2>2 DEF PressedBy, RefusedRelease, vars
<1>10. ASSUME NEW b \in Button, x \in Of(b), b \notin contested' \cup late
       PROVE  /\ x = <<"but", b>> => b \in m_heldButtons'[c] /\ b \in down'
              /\ x # <<"but", b>> /\ Alone(c, b)' => b \notin down'
  <2>1. CASE x = <<"but", b>>
    <3>1. PressedBy(c, b)
      BY <1>4, <2>1
    <3>2. QED
      BY <1>1, <2>1, <3>1 DEF PressedBy, ButtonPress, TypeOK
  <2>2. CASE x = <<"rel", b>>
    <3>1. ButtonRelease(c, b) \/ RefusedRelease(c, b)
      BY <1>4, <2>2
    <3>2. CASE ButtonRelease(c, b)
      BY <2>2, <3>2 DEF ButtonRelease
    <3>3. CASE RefusedRelease(c, b)
      <4>1. Alone(c, b)' => Alone(c, b)
        BY <3>3 DEF RefusedRelease, Alone, vars
      <4>2. down' = down /\ b \notin m_heldButtons[c] /\ b \in Button \ late
        BY <1>10, <3>3 DEF RefusedRelease, vars
      <4>3. QED
        BY <1>1, <2>2, <4>1, <4>2, AloneIsUp
    <3>4. QED
      BY <3>1, <3>2, <3>3
  <2>3. QED
    BY <1>10, <2>1, <2>2 DEF Of
<1>11. ButtonsOK'
  <2> SUFFICES ASSUME NEW p \in Program, NEW b \in Button, NEW e, e = conn[p], e # None,
                      phase[e] = "open", b \notin contested' \cup late
               PROVE  /\ Tells(wire'[e], b, sent[p])
                      /\ Silent(wire'[e], b) =>
                           /\ b \in sent[p] => b \in m_heldButtons'[e]
                           /\ Alone(e, b)' => (b \in down' <=> b \in sent[p])
    BY <1>2, <1>5 DEF ButtonsOK, Alone
  <2>1. e \in Client /\ b \notin contested \cup late
    BY <1>1, <1>5, WriterHasWire
  <2>2. Tells(wire[e], b, sent[p])
    BY <2>1 DEF HeldInv, ButtonsOK
  <2>3. CASE e # c
    <3>1. wire'[e] = wire[e] /\ Kept(e, b)
      BY <1>3, <1>9, <2>1, <2>3
    <3>2. QED
      BY <2>1, <2>2, <3>1, KeptIsEnough
  <2>4. CASE e = c
    <3>1. /\ Tells(v, b, sent[p])
          /\ Silent(v, b) /\ x \in Of(b) => (x = <<"but", b>> <=> b \in sent[p])
          /\ Silent(v, b) /\ x \notin Of(b) => Silent(w, b)
      BY <1>2, <2>2, <2>4, ReadTells DEF v, w, x
    <3>2. wire'[e] = v /\ wire[e] = w
      BY <1>3, <2>1, <2>4 DEF w
    <3>3. CASE x \in Of(b)
      BY <1>10, <2>4, <3>1, <3>2, <3>3
    <3>4. CASE x \notin Of(b)
      <4>1. Kept(e, b)
        BY <1>9, <2>1, <3>4
      <4>2. Silent(w, b) =>
              /\ b \in sent[p] => b \in m_heldButtons'[e]
              /\ Alone(e, b)' => (b \in down' <=> b \in sent[p])
        BY <2>1, <3>2, <4>1, KeptIsEnough
      <4>3. QED
        BY <3>1, <3>2, <3>4, <4>2
    <3>5. QED
      BY <3>3, <3>4
  <2>5. QED
    BY <2>3, <2>4
<1>12. CommandsOK'
  <2> SUFFICES ASSUME NEW k \in Command \ abandoned
               PROVE  /\ \A d \in Client :
                           \/ NoBegin(wire'[d], k)
                           \/ \E p \in Program : conn[p] = d /\ Answered(wire'[d], k, running[p])
                      /\ k \in commands' =>
                           \E p \in Program : Writes(p) /\ (k \in running[p] \/ Ends(wire'[conn[p]], k))
    BY <1>2 DEF CommandsOK, Writes
  <2>1. CommandsOK
    BY DEF HeldInv
  <2>2. /\ x # <<"end", k>> /\ Ends(w, k) => Ends(v, k)
        /\ NoBegin(w, k) => NoBegin(v, k) /\ x # <<"begin", k>>
        /\ \A R : Answered(w, k, R) => /\ Answered(v, k, R)
                                       /\ x = <<"begin", k>> => k \in R \/ Ends(v, k)
    BY <1>2, ReadAnswers DEF v, w, x
  <2>3. wire'[c] = v /\ \A d \in Client : d # c => wire'[d] = wire[d]
    BY <1>3
  <2>4. ASSUME NEW d \in Client
        PROVE  \/ NoBegin(wire'[d], k)
               \/ \E p \in Program : conn[p] = d /\ Answered(wire'[d], k, running[p])
    <3>1. CASE d = c
      BY <2>1, <2>2, <2>3, <3>1 DEF CommandsOK, w
    <3>2. CASE d # c
      BY <2>1, <2>3, <3>2 DEF CommandsOK
    <3>3. QED
      BY <3>1, <3>2
  <2>5. ASSUME k \in commands'
        PROVE  \E p \in Program : Writes(p) /\ (k \in running[p] \/ Ends(wire'[conn[p]], k))
    <3>1. CASE x = <<"begin", k>>
      <4>1. PICK p \in Program : conn[p] = c /\ Answered(w, k, running[p])
        BY <2>1, <2>2, <3>1 DEF CommandsOK, w
      <4>2. Writes(p)
        BY <1>2, <4>1, NoneIsNone DEF HeldInv, ConnOK, Writes, w
      <4>3. QED
        BY <2>2, <2>3, <3>1, <4>1, <4>2
    <3>2. CASE x # <<"begin", k>>
      <4>1. k \in commands /\ x # <<"end", k>>
        BY <1>4, <2>5, <3>2
      <4>2. PICK p \in Program : Writes(p) /\ (k \in running[p] \/ Ends(wire[conn[p]], k))
        BY <2>1, <4>1 DEF CommandsOK
      <4>3. conn[p] \in Client
        BY <1>1, <4>2, WriterHasWire
      <4>4. Ends(wire[conn[p]], k) => Ends(wire'[conn[p]], k)
        BY <2>2, <2>3, <4>1, <4>3 DEF w
      <4>5. QED
        BY <4>2, <4>4
    <3>3. QED
      BY <3>1, <3>2
  <2>6. QED
    BY <2>4, <2>5
<1>13. QED
  BY <1>3, <1>6, <1>7, <1>8, <1>11, <1>12 DEF HeldParts

-----------------------------------------------------------------------------
(* What the runs check of the composition *)

LEMMA HeldNextInv == HeldInv /\ [HeldNext]_heldVars => HeldInv'
<1> SUFFICES ASSUME HeldInv, [HeldNext]_heldVars PROVE HeldInv'
  OBVIOUS
<1>1. [Next]_vars
  BY HeldStep
<1>2. IInv'
  BY <1>1, TypeStep, NoStuckStep, SoleStep DEF HeldInv, IInv
<1>3. TypeOK'
  BY <1>2 DEF IInv
<1>4. HeldParts' => HeldInv'
  BY <1>2 DEF HeldInv, HeldParts
<1>5. ASSUME NEW p \in Program, Connect(p) \/ Handshake(p) \/ ConnectionEnds(p) PROVE HeldParts'
  BY <1>2, <1>5, Connected, HandshakeStep, EndOfConnection
<1>6. ASSUME NEW p \in Program, NEW b \in Button, Press(p, b) \/ LetGo(p, b) PROVE HeldParts'
  BY <1>3, <1>6, ButtonLine
<1>7. ASSUME NEW p \in Program, NEW k \in Command, CommandBegin(p, k) \/ CommandEnd(p, k)
      PROVE  HeldParts'
  BY <1>7, CommandLine
<1>8. ASSUME NEW c \in Client, LineRead(c) PROVE HeldParts'
  BY <1>2, <1>8, LineHandled
<1>9. ASSUME PluginDisabled \/ \E c \in Client : ServerSideEnds(c) PROVE HeldParts'
  BY <1>2, <1>9, ServerSideEnd
<1>10. ASSUME NEW c \in Raw, RawLine(c) PROVE HeldParts'
  BY <1>2, <1>10, RawLineHandled
<1>11. CASE UNCHANGED heldVars
  BY <1>11 DEF heldVars, vars, program, HeldInv, IInv, HeldTypeOK, TypeOK, NoStuckButton,
               SoleIsAlone, WiresOK, ConnOK, SharedIsContested, ButtonsOK, CommandsOK, Writes, Alone
<1>12. QED
  BY <1>4, <1>5, <1>6, <1>7, <1>8, <1>9, <1>10, <1>11 DEF HeldNext

THEOREM HeldInvariance == HeldSpec => []HeldInv
BY HeldInitInv, HeldNextInv, PTL DEF HeldSpec

\* Every variable of the composition keeps its type.
THEOREM HeldTypeCorrect == HeldSpec => []HeldTypeOK
<1>1. HeldInv => HeldTypeOK
  BY DEF HeldInv
<1>2. QED
  BY <1>1, HeldInvariance, PTL

\* Once the lines about a button are handled, it is down exactly if the program wants it, but
\* where another connection has to do with it; and a command that runs is one its program
\* still runs or has an end line under way for, or the connection of its program has ended.
\* That a command its program wants does run is not said (ExtPlaneClient, readClient).
THEOREM SimulatorHasWhatIsWanted == HeldSpec => []InputsAreWanted
<1>1. ASSUME HeldInv PROVE InputsAreWanted
  <2>1. ASSUME NEW p \in Program, NEW b \in Button, conn[p] # None, phase[conn[p]] = "open",
               Alone(conn[p], b), On(conn[p]) \cap ({"but", "rel"} \X {b}) = {},
               b \notin contested \cup late
        PROVE  b \in down <=> b \in sent[p]
    <3>1. Silent(wire[conn[p]], b)
      BY <2>1 DEF Silent, Of, On
    <3>2. QED
      BY <1>1, <2>1, <3>1 DEF HeldInv, ButtonsOK
  <2>2. ASSUME NEW k \in commands, k \notin abandoned
        PROVE  \/ \E p \in Program : k \in running[p]
               \/ \E p \in Program : conn[p] # None /\ <<"end", k>> \in On(conn[p])
    <3>1. k \in Command
      BY <1>1 DEF HeldInv, HeldTypeOK
    <3>2. PICK p \in Program : Writes(p) /\ (k \in running[p] \/ Ends(wire[conn[p]], k))
      BY <1>1, <2>2, <3>1 DEF HeldInv, CommandsOK
    <3>3. QED
      BY <3>2 DEF Writes, Ends, On
  <2>3. QED
    BY <2>1, <2>2 DEF InputsAreWanted
<1>2. QED
  BY <1>1, HeldInvariance, PTL

=============================================================================
