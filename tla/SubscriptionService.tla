------------------------ MODULE SubscriptionService ------------------------
(***************************************************************************)
(* What the subscription core promises: connections are subscribed to      *)
(* names, and the simulator polls a name exactly as long as some           *)
(* connection is subscribed to it.  A subscription begins one at a time;   *)
(* it ends for a group of connections and one name (unsub, or a get that   *)
(* was answered), or for a group of connections and all of their names     *)
(* (disconnect, shutdown).                                                 *)
(***************************************************************************)
CONSTANTS Client, Available

VARIABLES subscribed,  \* pairs <<connection, name>>
          polled       \* names the flight loop reads from the simulator

\* The names polled after a step are those still subscribed to.
PollWhatIsSubscribed ==
  polled' = {n \in Available : \E c \in Client : <<c, n>> \in subscribed'}

Init == subscribed = {} /\ polled = {}

Join(c, n) ==
  /\ subscribed' = subscribed \cup {<<c, n>>}
  /\ PollWhatIsSubscribed

LeaveName(D, n) ==
  /\ subscribed' = subscribed \ (D \X {n})
  /\ PollWhatIsSubscribed

LeaveAll(D) ==
  /\ subscribed' = subscribed \ (D \X Available)
  /\ PollWhatIsSubscribed

Next ==
  \/ \E c \in Client, n \in Available : Join(c, n)
  \/ \E D \in SUBSET Client, n \in Available : LeaveName(D, n)
  \/ \E D \in SUBSET Client : LeaveAll(D)

Spec == Init /\ [][Next]_<<subscribed, polled>>
=============================================================================
