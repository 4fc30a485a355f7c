----------------------------- MODULE HeldInputs -----------------------------
(***************************************************************************)
(* Buttons and commands that programs with the Qt client library hold, and *)
(* what becomes of them in the simulator.  ExtPlaneClient remembers what   *)
(* its program holds, ExtPlaneConnection writes a line for each change     *)
(* (and drops it while it is not connected), and the plugin handles the    *)
(* lines in order, for as long as the connection lasts on its side.        *)
(*                                                                         *)
(* Extends module Buttons, the plugin's side, whose connections may also   *)
(* be raw: of a program that writes lines of its own, a disconnect line    *)
(* included, which the library never writes.  The raw programs begin no    *)
(* commands.                                                               *)
(*                                                                         *)
(* Sources: extplane-client-qt/extplaneclient.cpp, extplaneconnection.cpp, *)
(* extplane-server/tcpclient.cpp, extplane-plugin/xplaneplugin.cpp.        *)
(***************************************************************************)
EXTENDS Buttons, Sequences, Naturals

CONSTANTS Program,  \* programs, one ExtPlaneClient each
          Raw,      \* connections that no ExtPlaneClient makes
          Command,  \* names of commands
          None,     \* no connection
          MaxWire   \* bound: lines on their way to one TcpClient

ASSUME RawAreClients == Raw \subseteq Client
ASSUME NoneIsNone    == None \notin Client
ASSUME WireHasRoom   == MaxWire \in Nat

VARIABLES conn,      \* connection of each program
          server_ok, \* of its ExtPlaneConnection
          held,      \* m_heldButtons of each ExtPlaneClient
          running,   \* m_runningCommands of each ExtPlaneClient
          wire,      \* lines on their way to each TcpClient
          commands,  \* commands that run in the simulator
          sent,      \* history: held buttons whose press is on the present connection
          contested, \* history: buttons a second connection pressed, too
          abandoned  \* history: commands of a connection that ended

program == <<conn, server_ok, held, running, sent>>
heldVars == <<vars, program, wire, commands, contested, abandoned>>

Lines == ({"but", "rel"} \X Button) \cup ({"begin", "end"} \X Command)
On(c) == {wire[c][i] : i \in DOMAIN wire[c]}
Current(c) == \E p \in Program : conn[p] = c

HeldInit ==
  /\ Init
  /\ conn = [p \in Program |-> None]
  /\ server_ok = [p \in Program |-> FALSE]
  /\ held = [p \in Program |-> {}] /\ running = [p \in Program |-> {}]
  /\ wire = [c \in Client |-> <<>>]
  /\ commands = {}
  /\ sent = [p \in Program |-> {}] /\ contested = {} /\ abandoned = {}

-----------------------------------------------------------------------------
(* The programs *)

Writes(p) == server_ok[p] /\ conn[p] # None

\* Mutation of Write: a line overtakes those written before it.
Write_Overtakes(p, line) ==
  wire' = IF Writes(p) THEN [wire EXCEPT ![conn[p]] = <<line>> \o @] ELSE wire

\* writeLine: only after the handshake, and a line is lost without a connection.
Write(p, line) ==
  /\ Writes(p) => Len(wire[conn[p]]) < MaxWire
  /\ wire' = IF Writes(p) THEN [wire EXCEPT ![conn[p]] = Append(@, line)] ELSE wire

\* ExtPlaneClient::buttonPress
Press(p, b) ==
  /\ held' = [held EXCEPT ![p] = @ \cup {b}]
  /\ Write(p, <<"but", b>>)
  /\ sent' = IF Writes(p) THEN [sent EXCEPT ![p] = @ \cup {b}] ELSE sent
  /\ UNCHANGED <<vars, conn, server_ok, running, commands, contested, abandoned>>

\* ExtPlaneClient::buttonRelease
LetGo(p, b) ==
  /\ b \in held[p]
  /\ held' = [held EXCEPT ![p] = @ \ {b}]
  /\ Write(p, <<"rel", b>>)
  /\ sent' = [sent EXCEPT ![p] = @ \ {b}]
  /\ UNCHANGED <<vars, conn, server_ok, running, commands, contested, abandoned>>

\* Bound: commands and raw connections, which have nothing to do with each other, are not
\* combined.
CommandsUnused ==
  /\ \A p \in Program : running[p] = {}
  /\ \A c \in Client : On(c) \cap ({"begin", "end"} \X Command) = {}
  /\ commands = {} /\ abandoned = {}
RawUnused == \A c \in Raw : phase[c] = "none"

CommandBegin(p, k) ==
  /\ RawUnused
  /\ running' = [running EXCEPT ![p] = @ \cup {k}]
  /\ Write(p, <<"begin", k>>)
  /\ UNCHANGED <<vars, conn, server_ok, held, sent, commands, contested, abandoned>>

CommandEnd(p, k) ==
  /\ k \in running[p]
  /\ running' = [running EXCEPT ![p] = @ \ {k}]
  /\ Write(p, <<"end", k>>)
  /\ UNCHANGED <<vars, conn, server_ok, held, sent, commands, contested, abandoned>>

\* The plugin accepts a (new) connection of the program; any TcpClient will do.
Connect(p) ==
  LET new == {c \in Client \ Raw : phase[c] = "none"}
      c   == CHOOSE d \in new : TRUE
  IN
  /\ conn[p] = None /\ new # {}
  /\ ClientConnected(c)
  /\ conn' = [conn EXCEPT ![p] = c]
  /\ UNCHANGED <<server_ok, held, running, sent, wire, commands, contested, abandoned>>

\* The handshake line is taken.
Handshake(p) ==
  /\ conn[p] # None /\ ~server_ok[p]
  /\ server_ok' = [server_ok EXCEPT ![p] = TRUE]
  /\ UNCHANGED <<vars, conn, held, running, sent, wire, commands, contested, abandoned>>

\* The program's side of the connection ends: socketError, or stopConnection, which
\* leaves server_ok set.  The program's sets stay as they are.
ConnectionEnds(p) ==
  LET c == conn[p]
  IN  /\ c # None
      /\ conn' = [conn EXCEPT ![p] = None]
      /\ \E ok \in {FALSE, server_ok[p]} : server_ok' = [server_ok EXCEPT ![p] = ok]
      /\ sent' = [sent EXCEPT ![p] = {}]
      /\ abandoned' = abandoned \cup running[p] \cup {k \in Command : <<"end", k>> \in On(c)}
      /\ wire' = IF phase[c] = "open" THEN wire ELSE [wire EXCEPT ![c] = <<>>]
      /\ UNCHANGED <<vars, held, running, commands, contested>>

-----------------------------------------------------------------------------
(* The plugin *)

PressedBy(c, b) ==
  /\ ButtonPress(c, b)
  /\ contested' = IF Alone(c, b) THEN contested ELSE contested \cup {b}

\* A raw connection's line.
RawLine(c) ==
  /\ \/ \E b \in Button : PressedBy(c, b)
     \/ \E b \in Button : ButtonRelease(c, b) /\ UNCHANGED contested
     \/ DisconnectLine(c) /\ UNCHANGED contested
     \/ EndOfLines(c) /\ UNCHANGED contested
     \/ CommandsUnused /\ ClientConnected(c) /\ UNCHANGED contested
  /\ UNCHANGED <<program, wire, commands, abandoned>>

\* rel of a button the connection never pressed is refused.
RefusedRelease(c, b) == b \notin m_heldButtons[c] /\ UNCHANGED vars

\* The next line of a program's connection is handled.  The plugin does not remember who
\* began which command.
LineRead(c) ==
  LET line == Head(wire[c])
  IN
  /\ phase[c] = "open" /\ CanRead(c) /\ wire[c] # <<>>
  /\ \/ \E b \in Button :
          line = <<"but", b>> /\ PressedBy(c, b) /\ UNCHANGED commands
     \/ \E b \in Button :
          /\ line = <<"rel", b>>
          /\ (ButtonRelease(c, b) \/ RefusedRelease(c, b))
          /\ UNCHANGED <<contested, commands>>
     \/ \E k \in Command :
          line = <<"begin", k>> /\ commands' = commands \cup {k} /\ UNCHANGED <<vars, contested>>
     \/ \E k \in Command :
          line = <<"end", k>> /\ commands' = commands \ {k} /\ UNCHANGED <<vars, contested>>
  /\ wire' = [wire EXCEPT ![c] = Tail(@)]
  /\ UNCHANGED <<program, abandoned>>

\* What is on its way to connections that nobody makes use of any more is lost.
Dropped == wire' = [c \in Client |-> IF phase'[c] # "open" /\ ~Current(c) THEN <<>> ELSE wire[c]]

\* The plugin learns that a connection has ended, also before its program does.
ServerSideEnds(c) ==
  /\ SocketDisconnected(c) \/ DeleteClient(c)
  /\ Dropped
  /\ UNCHANGED <<program, commands, contested, abandoned>>

PluginDisabled ==
  /\ PluginDisable
  /\ Dropped
  /\ UNCHANGED <<program, commands, contested, abandoned>>

HeldNext ==
  \/ PluginDisabled
  \/ \E p \in Program : Connect(p) \/ Handshake(p) \/ ConnectionEnds(p)
  \/ \E p \in Program, b \in Button : Press(p, b) \/ LetGo(p, b)
  \/ \E p \in Program, k \in Command : CommandBegin(p, k) \/ CommandEnd(p, k)
  \/ \E c \in Client : LineRead(c) \/ ServerSideEnds(c)
  \/ \E c \in Raw : RawLine(c)

\* The plugin reads its lines, and learns of a connection that its program has ended.
HeldFairness ==
  \A c \in Client : /\ WF_heldVars(LineRead(c))
                    /\ WF_heldVars(RawLine(c) /\ EndOfLines(c))
                    /\ WF_heldVars(ServerSideEnds(c) /\ c \notin Raw /\ ~Current(c))

HeldSpec == HeldInit /\ [][HeldNext]_heldVars /\ HeldFairness

-----------------------------------------------------------------------------
(* Properties *)

\* Every variable has its type; a program pressed what is sent.
HeldTypeOK ==
  /\ TypeOK
  /\ conn \in [Program -> (Client \ Raw) \cup {None}]
  /\ server_ok \in [Program -> BOOLEAN]
  /\ held \in [Program -> SUBSET Button] /\ running \in [Program -> SUBSET Command]
  /\ wire \in [Client -> Seq(Lines)] /\ \A c \in Client : Len(wire[c]) <= MaxWire
  /\ commands \subseteq Command /\ abandoned \subseteq Command /\ contested \subseteq Button
  /\ sent \in [Program -> SUBSET Button] /\ \A p \in Program : sent[p] \subseteq held[p]

\* Once the lines about a button or a command are handled, the simulator has what the
\* program wants (readClient; buttonPress to commandEnd of ExtPlaneClient).  A button is
\* down exactly when the program holds it since a press on its present connection, if no
\* other connection has anything to do with it: after a reconnect nothing presses it anew.
\* A command that runs has a program that will end it, but where the connection of a
\* program that ran it has ended: then nobody does.
InputsAreWanted ==
  /\ \A p \in Program, b \in Button :
       LET c == conn[p]
       IN  /\ c # None /\ phase[c] = "open" /\ Alone(c, b)
           /\ On(c) \cap ({"but", "rel"} \X {b}) = {}
           /\ b \notin contested \cup late
           => (b \in down <=> b \in sent[p])
  /\ \A k \in commands :
       \/ k \in abandoned
       \/ \E p \in Program : k \in running[p]
       \/ \E p \in Program : conn[p] # None /\ <<"end", k>> \in On(conn[p])

\* A button that no program holds comes up, however connections break and lines get
\* lost, unless a program presses it again or a raw connection has to do with it.
LetGoComesUp ==
  \A b \in Button :
    (\A p \in Program : b \notin held[p])
      ~> \/ b \notin down \/ b \in late
         \/ \E p \in Program : b \in held[p]
         \/ \E c \in Raw : b \in m_heldButtons[c]
=============================================================================
