------------------------------ MODULE Buttons ------------------------------
(***************************************************************************)
(* Buttons that clients hold down in the simulator.  There is one button   *)
(* per number, whoever presses it; each TcpClient keeps the set of the     *)
(* numbers it ever pressed, and releases them when its connection ends.    *)
(*                                                                         *)
(* A line is handled, and a connection ended, by one event handler each on *)
(* X-Plane's main thread.                                                  *)
(*                                                                         *)
(* Sources: extplane-server/tcpclient.cpp, extplane-server/tcpserver.cpp,  *)
(* extplane-plugin/xplaneplugin.cpp.                                       *)
(***************************************************************************)
CONSTANTS Client,   \* connections of the plugin's life, one TcpClient each
          Button    \* button numbers

VARIABLES phase,         \* life of each TcpClient, as in module Subscriptions
          m_heldButtons, \* of each TcpClient
          down,          \* buttons held down in the simulator
          late,          \* history: buttons pressed after the connection's own end
          sole           \* history: buttons only this client has to do with and holds

vars == <<phase, m_heldButtons, down, late, sole>>

Phases == {"none", "open", "leaving", "closed", "deleted"}

Init ==
  /\ phase = [c \in Client |-> "none"]
  /\ m_heldButtons = [c \in Client |-> {}]
  /\ down = {}
  /\ late = {}
  /\ sole = [c \in Client |-> {}]

\* Mutation of CanRead: lines are handled for a TcpClient that was deleted, too.
CanRead_Deleted(c) == phase[c] # "none"

\* readClient takes its next line: while one connection has lines left after its
\* disconnect line, no other handler runs.
CanRead(c) ==
  phase[c] = "leaving" \/ (phase[c] = "open" /\ \A d \in Client : phase[d] # "leaving")

Quiet == \A c \in Client : phase[c] # "leaving"

ClientConnected(c) ==
  /\ Quiet
  /\ phase[c] = "none"
  /\ phase' = [phase EXCEPT ![c] = "open"]
  /\ UNCHANGED <<m_heldButtons, down, late, sole>>

\* Nobody but c presses b or has pressed it on a connection that still exists.
Alone(c, b) == \A d \in Client \ {c} : phase[d] # "deleted" => b \notin m_heldButtons[d]

\* but
ButtonPress(c, b) ==
  /\ CanRead(c)
  /\ down' = down \cup {b}
  /\ m_heldButtons' = [m_heldButtons EXCEPT ![c] = @ \cup {b}]
  /\ late' = IF phase[c] = "leaving" THEN late \cup {b} ELSE late
  /\ sole' = [d \in Client |-> IF d = c /\ Alone(c, b) /\ phase[c] = "open"
                                 THEN sole[d] \cup {b} ELSE sole[d] \ {b}]
  /\ UNCHANGED phase

\* Mutation of ButtonRelease: any client may release any button.
ButtonRelease_Unchecked(c, b) ==
  /\ CanRead(c)
  /\ down' = down \ {b}
  /\ sole' = [sole EXCEPT ![c] = @ \ {b}]
  /\ UNCHANGED <<phase, m_heldButtons, late>>

\* rel: only a button this connection has pressed, which is not forgotten.
ButtonRelease(c, b) ==
  /\ CanRead(c)
  /\ b \in m_heldButtons[c]
  /\ down' = down \ {b}
  /\ sole' = [sole EXCEPT ![c] = @ \ {b}]
  /\ UNCHANGED <<phase, m_heldButtons, late>>

\* Mutation of ReleaseAll: a connection that ends forgets its buttons, but does not
\* release them.
ReleaseAll_NoRelease(D) ==
  /\ down' = down
  /\ sole' = [c \in Client |-> IF c \in D THEN {} ELSE sole[c]]

\* disconnectClient of the connections D releases what they hold, or held once.
ReleaseAll(D) ==
  /\ down' = down \ UNION {m_heldButtons[c] : c \in D}
  /\ sole' = [c \in Client |-> IF c \in D THEN {} ELSE sole[c]]

\* The disconnect line; the lines after it are still handled.
DisconnectLine(c) ==
  /\ CanRead(c)
  /\ ReleaseAll({c})
  /\ phase' = [phase EXCEPT ![c] = "leaving"]
  /\ UNCHANGED <<m_heldButtons, late>>

EndOfLines(c) ==
  /\ phase[c] = "leaving"
  /\ phase' = [phase EXCEPT ![c] = "closed"]
  /\ UNCHANGED <<m_heldButtons, down, late, sole>>

\* The socket reports disconnected, also after a disconnect line of the peer.
SocketDisconnected(c) ==
  /\ Quiet
  /\ phase[c] \in {"open", "closed"}
  /\ ReleaseAll({c})
  /\ phase' = [phase EXCEPT ![c] = "closed"]
  /\ UNCHANGED <<m_heldButtons, late>>

\* Deferred deletion.
DeleteClient(c) ==
  /\ Quiet
  /\ phase[c] = "closed"
  /\ phase' = [phase EXCEPT ![c] = "deleted"]
  /\ m_heldButtons' = [m_heldButtons EXCEPT ![c] = {}]
  /\ UNCHANGED <<down, late, sole>>

\* disconnectClients when the plugin is disabled, and the server's deletion.
PluginDisable ==
  LET open == {c \in Client : phase[c] = "open"}
      kids == {c \in Client : phase[c] \in {"open", "closed"}}
  IN  /\ Quiet
      /\ kids # {}
      /\ ReleaseAll(open)
      /\ phase' = [c \in Client |-> IF c \in kids THEN "deleted" ELSE phase[c]]
      /\ m_heldButtons' = [c \in Client |-> IF c \in kids THEN {} ELSE m_heldButtons[c]]
      /\ UNCHANGED late

Next ==
  \/ PluginDisable
  \/ \E c \in Client :
       \/ ClientConnected(c) \/ DisconnectLine(c) \/ EndOfLines(c)
       \/ SocketDisconnected(c) \/ DeleteClient(c)
       \/ \E b \in Button : ButtonPress(c, b) \/ ButtonRelease(c, b)

Spec == Init /\ [][Next]_vars

-----------------------------------------------------------------------------
(* Properties *)

\* Every variable has its type; a deleted TcpClient holds nothing.
TypeOK ==
  /\ phase \in [Client -> Phases]
  /\ m_heldButtons \in [Client -> SUBSET Button]
  /\ \A c \in Client : phase[c] \in {"none", "deleted"} => m_heldButtons[c] = {}
  /\ down \subseteq Button /\ late \subseteq Button
  /\ sole \in [Client -> SUBSET Button]

\* However connections end, a button that is down in the simulator has an open
\* connection that pressed it and will release it - or was pressed by a line that
\* followed its connection's own disconnect line (disconnectClient).
NoStuckButton ==
  \A b \in down : b \in late \/ \E c \in Client : phase[c] = "open" /\ b \in m_heldButtons[c]

\* A button stays down as long as the one client holds it that has anything to do
\* with it: no line and no end of another connection lifts it (readClient rel).
OwnPressHolds == \A c \in Client : sole[c] \subseteq down
=============================================================================
