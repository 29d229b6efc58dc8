------------------------------- MODULE Channel -------------------------------
(***************************************************************************)
(* What the queue of mesh_comm.c promises to the tasks that send: a lossy  *)
(* channel with room for a number of messages.  A message can be lost only *)
(* while it is being handed over, and for one of two reasons: no memory,   *)
(* or no room.  Once accepted it is in transit until it is delivered,      *)
(* once; the messages of an ordered sender are delivered oldest first.     *)
(***************************************************************************)
EXTENDS Integers, FiniteSets

CONSTANTS
  Senders,    \* the tasks that send
  Ordered,    \* those whose messages keep their order
  Room        \* the messages the channel is sure to take

VARIABLES
  calling,    \* the tasks that are handing a message over
  issued,     \* the messages each task has started to hand over
  transit,    \* the messages accepted and not delivered
  delivered   \* the last message of each ordered sender that was delivered

vars == <<calling, issued, transit, delivered>>

Nothing == [p \in Senders |-> 0]

Init == calling = {} /\ issued = Nothing /\ transit = {} /\ delivered = Nothing

Message(p) == [from |-> p, n |-> issued[p]]

\* A new message of p: the next number if order matters, else one not in transit.
Number(p) ==
  /\ issued' = [issued EXCEPT ![p] = issued'[p]]
  /\ IF p \in Ordered THEN issued'[p] = issued[p] + 1 ELSE Message(p)' \notin transit

Begin(p) ==
  /\ p \notin calling
  /\ Number(p)
  /\ calling' = calling \cup {p}
  /\ UNCHANGED <<transit, delivered>>

\* No memory for the message.
Refuse(p) ==
  /\ p \notin calling
  /\ Number(p)
  /\ UNCHANGED <<calling, transit, delivered>>

\* The message being delivered does not take up room.
Accept(p) ==
  /\ p \in calling
  /\ Cardinality(transit) <= Room
  /\ Message(p) \notin transit
  /\ transit' = transit \cup {Message(p)}
  /\ calling' = calling \ {p}
  /\ UNCHANGED <<issued, delivered>>

\* A message is given up only when there is no room for it.
Lose(p) ==
  /\ p \in calling
  /\ Cardinality(transit) >= Room
  /\ calling' = calling \ {p}
  /\ UNCHANGED <<issued, transit, delivered>>

Deliver(m) ==
  /\ m \in transit
  /\ m.from \in Ordered =>
       /\ m.n > delivered[m.from]
       /\ \A o \in transit : o.from = m.from => o.n >= m.n
  /\ transit' = transit \ {m}
  /\ delivered' = IF m.from \in Ordered
                  THEN [delivered EXCEPT ![m.from] = m.n]
                  ELSE delivered
  /\ UNCHANGED <<calling, issued>>

\* The node restarts before the channel has taken anything.
Restart ==
  /\ calling = {} /\ transit = {} /\ delivered = Nothing
  /\ issued' = Nothing
  /\ UNCHANGED <<calling, transit, delivered>>

Next ==
  \/ \E p \in Senders : Begin(p) \/ Refuse(p) \/ Accept(p) \/ Lose(p)
  \/ \E m \in transit : Deliver(m)
  \/ Restart

Spec == Init /\ [][Next]_vars
====
