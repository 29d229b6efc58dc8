------------------------- MODULE RootRegistryProofs -------------------------
(***************************************************************************)
(* Proofs about RootRegistry, for every number of nodes, of slots of the   *)
(* registry and of nodes that can be the root, every length of the queues  *)
(* and any tables of auto-off times.                                       *)
(*                                                                         *)
(* Each property has an invariant of its own.  Those about states, times   *)
(* and announcements say where the last word on a matter is: with the      *)
(* relay, in a queue, or lost.  The one about pings counts the messages of *)
(* every queue, a step at a time.  They share the types of the messages    *)
(* and what a step may do to the queues, and together they give TypeOK,    *)
(* the bounds of the queues included.                                      *)
(***************************************************************************)
EXTENDS RootRegistry, FiniteSetTheorems, SequenceTheorems, TLAPS

StateArgs == [of : Outputs, state : OnOff]
PingArgs == [number : Nat, from : Roots]
TimeItems == [of : Outputs, time : Times]

UpMsgs ==
  UNION {[kind : {"type"}, arg : Kinds], [kind : {"state"}, arg : StateArgs],
         [kind : {"status"}, arg : 0 .. MaxFirmware], [kind : {"pong"}, arg : PingArgs]}

DownMsgs ==
  UNION {[to : Nodes, kind : {"sync"}, arg : {""}], [to : Relays, kind : {"switch"}, arg : StateArgs],
         [to : Relays, kind : {"time"}, arg : TimeItems],
         [to : Nodes \cup {Nowhere}, kind : {"update"}, arg : Kinds],
         [to : Nodes, kind : {"ping"}, arg : PingArgs]}

UpdateJobs ==
  [kind : {"update"}, slot : Nat \ {0}, of : Kinds, owed : SUBSET Nodes, ordered : Seq(Nodes),
   missed : SUBSET Nodes]

JobTyped ==
  /\ job.kind \in {"idle", "autoOff", "update", "ping"}
  /\ job.kind = "update" => job \in UpdateJobs
  /\ job.kind = "autoOff" =>
       job \in [kind : {"autoOff"}, todo : Seq(TimeItems) \ {<<>>}, missing : SUBSET Relays]
  /\ job.kind = "ping" => job \in [kind : {"ping"}, todo : Seq(Nodes) \ {<<>>}]

Typed ==
  /\ root \in Roots /\ registry \in Seq(Nodes)
  /\ tx \in [Roots -> Seq(DownMsgs)] /\ up \in [Nodes -> Seq(UpMsgs)]
  /\ JobTyped
  /\ out \in [Outputs -> OnOff] /\ times \in [Outputs -> Times] /\ states \in [Outputs -> States]
  /\ todo \in [Tasks -> SUBSET Outputs] /\ seen \in [Tasks -> SUBSET StateArgs]
  /\ wants \in [Nodes -> BOOLEAN] /\ version \in [Nodes -> 0 .. MaxFirmware]
  /\ stale \subseteq Outputs /\ greeted \subseteq Outputs /\ named \subseteq Kinds \cup Nodes

-----------------------------------------------------------------------------
(* The operators on queues *)

LEMMA Constants ==
  /\ Relays \subseteq Nodes /\ Board \in [Outputs -> Relays]
  /\ MaxNodes \in Nat /\ MaxNodes >= 1 /\ MaxQueue \in Nat /\ MaxQueue >= 1
  /\ MaxFirmware \in Nat /\ PingPongNumber \in Nat /\ PingPongNumber >= 1
  /\ Firmware \in [Nodes -> 0 .. MaxFirmware] /\ Nowhere \notin Nodes
  /\ \A n : Kind(n) \in Kinds
<1>1. \A n : Kind(n) \in Kinds
  BY DEF Kind, Kinds
<1> QED BY <1>1, RegistryAssumption, DevicesAssumption

LEMMA QueueFacts ==
  ASSUME NEW S, NEW q \in Seq(S), NEW m \in S
  PROVE  /\ Queue(q, m) \in Seq(S)
         /\ Full(q) => Queue(q, m) = q
         /\ ~Full(q) =>
              /\ Len(Queue(q, m)) = Len(q) + 1
              /\ Queue(q, m)[Len(q) + 1] = m
              /\ \A i \in 1 .. Len(q) : Queue(q, m)[i] = q[i]
  BY DEF Queue

LEMMA QueueFirstFacts ==
  ASSUME NEW S, NEW q \in Seq(S), NEW m \in S
  PROVE  /\ QueueFirst(q, m) \in Seq(S)
         /\ Full(q) => QueueFirst(q, m) = q
         /\ ~Full(q) =>
              /\ Len(QueueFirst(q, m)) = Len(q) + 1
              /\ QueueFirst(q, m)[1] = m
              /\ \A i \in 2 .. Len(q) + 1 : QueueFirst(q, m)[i] = q[i - 1]
<1>1. <<m>> \in Seq(S) /\ Len(<<m>>) = 1 /\ <<m>>[1] = m
  OBVIOUS
<1>2. /\ <<m>> \o q \in Seq(S) /\ Len(<<m>> \o q) = 1 + Len(q)
      /\ \A i \in 1 .. 1 + Len(q) : (<<m>> \o q)[i] = IF i <= 1 THEN <<m>>[i] ELSE q[i - 1]
  BY <1>1, ConcatProperties, Zenon
<1>3. Len(q) \in Nat
  OBVIOUS
<1>4. CASE Full(q)
  BY <1>4 DEF QueueFirst
<1>5. CASE ~Full(q)
  <2>1. QueueFirst(q, m) = <<m>> \o q
    BY <1>5 DEF QueueFirst
  <2> QED BY <1>1, <1>2, <1>3, <1>5, <2>1
<1> QED BY <1>4, <1>5

LEMMA TailFacts ==
  ASSUME NEW S, NEW q \in Seq(S), q # <<>>
  PROVE  /\ Head(q) = q[1] /\ Head(q) \in S
         /\ Tail(q) \in Seq(S) /\ Len(q) \in Nat \ {0} /\ Len(Tail(q)) = Len(q) - 1
         /\ \A i \in 1 .. Len(Tail(q)) : Tail(q)[i] = q[i + 1]
  BY HeadTailProperties, EmptySeq

LEMMA LongTail ==
  ASSUME NEW S, NEW q \in Seq(S), q # <<>>, Len(q) # 1
  PROVE  Tail(q) # <<>>
<1>1. Len(q) \in Nat \ {0} /\ Len(Tail(q)) = Len(q) - 1
  BY TailFacts
<1>2. Len(Tail(q)) # 0
  BY <1>1
<1>3. Len(<<>>) = 0
  OBVIOUS
<1> QED BY <1>2, <1>3, Zenon


\* The messages of each kind.
LEMMA UpKinds ==
  ASSUME NEW m \in UpMsgs
  PROVE  /\ m.kind \in {"type", "state", "status", "pong"}
         /\ m.kind = "type" => m.arg \in Kinds
         /\ m.kind = "state" => m.arg \in StateArgs /\ m.arg.of \in Outputs /\ m.arg.state \in OnOff
         /\ m.kind = "status" => m.arg \in 0 .. MaxFirmware
         /\ m.kind = "pong" => m.arg \in PingArgs /\ m.arg.number \in Nat /\ m.arg.from \in Roots
  BY DEF UpMsgs, StateArgs, PingArgs

LEMMA DownKinds ==
  ASSUME NEW m \in DownMsgs
  PROVE  /\ m.kind \in {"sync", "switch", "time", "update", "ping"}
         /\ m.to \in Nodes \cup {Nowhere} /\ (m.kind # "update" => m.to \in Nodes)
         /\ m.kind = "switch" => m.arg \in StateArgs /\ m.arg.of \in Outputs /\ m.arg.state \in OnOff
         /\ m.kind = "time" => m.arg \in TimeItems /\ m.arg.of \in Outputs /\ m.arg.time \in Times
         /\ m.kind = "update" => m.arg \in Kinds
         /\ m.kind = "ping" => m.arg \in PingArgs /\ m.arg.number \in Nat /\ m.arg.from \in Roots
<1>0. \/ m \in [to : Nodes, kind : {"sync"}, arg : {""}]
      \/ m \in [to : Relays, kind : {"switch"}, arg : StateArgs]
      \/ m \in [to : Relays, kind : {"time"}, arg : TimeItems]
      \/ m \in [to : Nodes \cup {Nowhere}, kind : {"update"}, arg : Kinds]
      \/ m \in [to : Nodes, kind : {"ping"}, arg : PingArgs]
  BY DEF DownMsgs
<1>1. CASE m \in [to : Nodes, kind : {"sync"}, arg : {""}]
  BY <1>1
<1>2. CASE m \in [to : Relays, kind : {"switch"}, arg : StateArgs]
  BY <1>2, Constants DEF StateArgs
<1>3. CASE m \in [to : Relays, kind : {"time"}, arg : TimeItems]
  BY <1>3, Constants DEF TimeItems
<1>4. CASE m \in [to : Nodes \cup {Nowhere}, kind : {"update"}, arg : Kinds]
  BY <1>4
<1>5. CASE m \in [to : Nodes, kind : {"ping"}, arg : PingArgs]
  BY <1>5 DEF PingArgs
<1> QED BY <1>0, <1>1, <1>2, <1>3, <1>4, <1>5

LEMMA UpMade ==
  /\ \A k \in Kinds : Up("type", k) \in UpMsgs /\ Up("type", k).kind = "type"
  /\ \A s \in StateArgs : Up("state", s) \in UpMsgs /\ Up("state", s).kind = "state"
  /\ \A v \in 0 .. MaxFirmware : Up("status", v) \in UpMsgs /\ Up("status", v).kind = "status"
  /\ \A p \in PingArgs : Up("pong", p) \in UpMsgs /\ Up("pong", p).kind = "pong"
  BY DEF Up, UpMsgs

LEMMA DownMade ==
  /\ \A n \in Nodes : Down("sync", n, "") \in DownMsgs /\ Down("sync", n, "").kind = "sync"
  /\ \A r \in Relays : \A s \in StateArgs :
       Down("switch", r, s) \in DownMsgs /\ Down("switch", r, s).kind = "switch"
  /\ \A r \in Relays : \A t \in TimeItems :
       Down("time", r, t) \in DownMsgs /\ Down("time", r, t).kind = "time"
  /\ \A n \in Nodes \cup {Nowhere} : \A k \in Kinds :
       Down("update", n, k) \in DownMsgs /\ Down("update", n, k).kind = "update"
  /\ \A n \in Nodes : \A p \in PingArgs :
       Down("ping", n, p) \in DownMsgs /\ Down("ping", n, p).kind = "ping"
<1>1. \A n \in Nodes : Down("sync", n, "") \in DownMsgs /\ Down("sync", n, "").kind = "sync"
  BY DEF Down, DownMsgs
<1>2. \A r \in Relays : \A s \in StateArgs :
        Down("switch", r, s) \in DownMsgs /\ Down("switch", r, s).kind = "switch"
  BY DEF Down, DownMsgs
<1>3. \A r \in Relays : \A t \in TimeItems :
        Down("time", r, t) \in DownMsgs /\ Down("time", r, t).kind = "time"
  BY DEF Down, DownMsgs
<1>4. \A n \in Nodes \cup {Nowhere} : \A k \in Kinds :
        Down("update", n, k) \in DownMsgs /\ Down("update", n, k).kind = "update"
  BY DEF Down, DownMsgs
<1>5. \A n \in Nodes : \A p \in PingArgs :
        Down("ping", n, p) \in DownMsgs /\ Down("ping", n, p).kind = "ping"
  BY DEF Down, DownMsgs
<1> QED BY <1>1, <1>2, <1>3, <1>4, <1>5

LEMMA Tables == \A p \in Pushes : p # <<>> /\ p \in Seq([of : Outputs, time : Nat])
  BY Zenon, RegistryAssumption

LEMMA PushTyped == \A p \in Pushes : p \in Seq(TimeItems) /\ p # <<>>
<1> SUFFICES ASSUME NEW p \in Pushes PROVE p \in Seq(TimeItems) /\ p # <<>>
  OBVIOUS
<1>1. p \in Seq([of : Outputs, time : Nat]) /\ p # <<>>
  BY Tables
<1>2. \A i \in 1 .. Len(p) : p[i] \in TimeItems
  <2> SUFFICES ASSUME NEW i \in 1 .. Len(p) PROVE p[i] \in TimeItems
    OBVIOUS
  <2>1. p[i] \in [of : Outputs, time : Nat] /\ i \in DOMAIN p
    <3>1. DOMAIN p = 1 .. Len(p)
      BY <1>1
    <3> QED BY <1>1, <3>1, ElementOfSeq
  <2>2. p[i].time \in Times
    BY <2>1 DEF Times
  <2> QED BY <2>1, <2>2 DEF TimeItems
<1>3. p \in Seq(TimeItems)
  <2>1. p \in [1 .. Len(p) -> TimeItems] /\ Len(p) \in Nat
    BY <1>1, <1>2
  <2> QED BY <2>1
<1> QED BY <1>1, <1>3

-----------------------------------------------------------------------------
(* What a step may do to the queues *)

TxAdds(s, m) ==
  \/ tx' = [tx EXCEPT ![s] = Queue(tx[s], m)]
  \/ tx' = [tx EXCEPT ![s] = QueueFirst(tx[s], m)]
TxTakes(s) == tx[s] # <<>> /\ tx' = [tx EXCEPT ![s] = Tail(tx[s])]

UpAdds(n, m) ==
  \/ up' = [up EXCEPT ![n] = Queue(up[n], m)]
  \/ up' = [up EXCEPT ![n] = QueueFirst(up[n], m)]
UpTakes(n) == up[n] # <<>> /\ up' = [up EXCEPT ![n] = Tail(up[n])]

\* Only messages of the kinds K come and go.
TxBy(K) ==
  \/ tx' = tx
  \/ \E s \in Roots : \E m \in DownMsgs : m.kind \in K /\ TxAdds(s, m)
  \/ \E s \in Roots : TxTakes(s) /\ Head(tx[s]).kind \in K

\* What a node never says: that it is of the other kind, or the state of an output of
\* another relay.
Lies(n) ==
  {m \in UpMsgs : (m.kind = "type" /\ m.arg # Kind(n)) \/ (m.kind = "state" /\ Board[m.arg.of] # n)}

UpBy(K) ==
  \/ up' = up
  \/ \E n \in Nodes : \E m \in UpMsgs : m.kind \in K /\ m \notin Lies(n) /\ UpAdds(n, m)
  \/ \E n \in Nodes : UpTakes(n) /\ Head(up[n]).kind \in K

LEMMA Heads ==
  ASSUME Typed
  PROVE  /\ \A s \in Roots : tx[s] \in Seq(DownMsgs) /\ (tx[s] # <<>> => Head(tx[s]) \in DownMsgs)
         /\ \A n \in Nodes : up[n] \in Seq(UpMsgs) /\ (up[n] # <<>> => Head(up[n]) \in UpMsgs)
<1>1. ASSUME NEW s \in Roots
      PROVE  tx[s] \in Seq(DownMsgs) /\ (tx[s] # <<>> => Head(tx[s]) \in DownMsgs)
  <2>1. tx[s] \in Seq(DownMsgs)
    BY DEF Typed
  <2> QED BY <2>1, TailFacts
<1>2. ASSUME NEW n \in Nodes
      PROVE  up[n] \in Seq(UpMsgs) /\ (up[n] # <<>> => Head(up[n]) \in UpMsgs)
  <2>1. up[n] \in Seq(UpMsgs)
    BY DEF Typed
  <2> QED BY <2>1, TailFacts
<1> QED BY <1>1, <1>2

LEMMA TxByTyped ==
  ASSUME Typed, NEW K, TxBy(K)
  PROVE  tx' \in [Roots -> Seq(DownMsgs)]
<1>1. tx \in [Roots -> Seq(DownMsgs)]
  BY DEF Typed
<1>2. ASSUME NEW s \in Roots, NEW m \in DownMsgs, TxAdds(s, m)
      PROVE  tx' \in [Roots -> Seq(DownMsgs)]
  <2>1. Queue(tx[s], m) \in Seq(DownMsgs) /\ QueueFirst(tx[s], m) \in Seq(DownMsgs)
    BY <1>1, QueueFacts, QueueFirstFacts
  <2> QED BY <1>1, <1>2, <2>1 DEF TxAdds
<1>3. ASSUME NEW s \in Roots, TxTakes(s)
      PROVE  tx' \in [Roots -> Seq(DownMsgs)]
  <2>1. Tail(tx[s]) \in Seq(DownMsgs)
    BY <1>1, <1>3, TailFacts DEF TxTakes
  <2> QED BY <1>1, <1>3, <2>1 DEF TxTakes
<1> QED BY <1>1, <1>2, <1>3 DEF TxBy

LEMMA UpByTyped ==
  ASSUME Typed, NEW K, UpBy(K)
  PROVE  up' \in [Nodes -> Seq(UpMsgs)]
<1>1. up \in [Nodes -> Seq(UpMsgs)]
  BY DEF Typed
<1>2. ASSUME NEW n \in Nodes, NEW m \in UpMsgs, UpAdds(n, m)
      PROVE  up' \in [Nodes -> Seq(UpMsgs)]
  <2>1. Queue(up[n], m) \in Seq(UpMsgs) /\ QueueFirst(up[n], m) \in Seq(UpMsgs)
    BY <1>1, QueueFacts, QueueFirstFacts
  <2> QED BY <1>1, <1>2, <2>1 DEF UpAdds
<1>3. ASSUME NEW n \in Nodes, UpTakes(n)
      PROVE  up' \in [Nodes -> Seq(UpMsgs)]
  <2>1. Tail(up[n]) \in Seq(UpMsgs)
    BY <1>1, <1>3, TailFacts DEF UpTakes
  <2> QED BY <1>1, <1>3, <2>1 DEF UpTakes
<1> QED BY <1>1, <1>2, <1>3 DEF UpBy

\* What the actions do to the queues of the roots.
LEMMA TxActions ==
  ASSUME Typed
  PROVE  /\ \A n \in Nodes : HearType(n) => TxBy({"sync"})
         /\ \A n \in Nodes : HearPong(n) \/ EchoPong(n) \/ Ping(n) => TxBy({"ping"})
         /\ \A r \in Relays : RelayCommand(r) => TxBy({"switch", "sync"})
         /\ \A n \in Nodes : UpdateDevice(n) => TxBy({"update"})
         /\ UpdateSlot => TxBy({"update"})
         /\ AutoOffItem => TxBy({"time"})
         /\ PingItem => TxBy({"ping"})
<1> USE Constants
<1>r. root \in Roots /\ registry \in Seq(Nodes)
  BY DEF Typed
<1>h. \A n \in Nodes : up[n] # <<>> => Head(up[n]) \in UpMsgs
  BY Heads
<1>1. ASSUME NEW n \in Nodes, HearType(n) PROVE TxBy({"sync"})
  <2>1. Down("sync", n, "") \in DownMsgs /\ Down("sync", n, "").kind = "sync"
    BY DownMade
  <2>2. tx' = tx \/ tx' = [tx EXCEPT ![root] = Queue(tx[root], Down("sync", n, ""))]
    BY <1>1 DEF HearType, Send
  <2> QED BY <1>r, <2>1, <2>2 DEF TxBy, TxAdds
<1>2. ASSUME NEW n \in Nodes, HearPong(n) PROVE TxBy({"ping"})
  <2> DEFINE p == [Content(n) EXCEPT !.number = @ + 1]
  <2>1. Content(n) \in PingArgs
    BY <1>2, <1>h, UpKinds DEF HearPong, Heard, Content
  <2>2. p \in PingArgs
    BY <2>1 DEF PingArgs
  <2>3. tx' = tx \/ tx' = [tx EXCEPT ![root] = QueueFirst(tx[root], Down("ping", n, p))]
    BY <1>2 DEF HearPong, SendFirst
  <2> HIDE DEF p
  <2>4. Down("ping", n, p) \in DownMsgs /\ Down("ping", n, p).kind = "ping"
    BY <2>2, DownMade
  <2> QED BY <1>r, <2>3, <2>4 DEF TxBy, TxAdds
<1>3. ASSUME NEW n \in Nodes, EchoPong(n) PROVE TxBy({"ping"})
  <2>1. Content(n) \in PingArgs /\ Content(n).from \in Roots
    BY <1>3, <1>h, UpKinds DEF EchoPong, Content
  <2>2. Down("ping", n, Content(n)) \in DownMsgs /\ Down("ping", n, Content(n)).kind = "ping"
    BY <2>1, DownMade
  <2>3. tx' = [tx EXCEPT ![Content(n).from] =
                 QueueFirst(tx[Content(n).from], Down("ping", n, Content(n)))]
    BY <1>3 DEF EchoPong
  <2> QED BY <2>1, <2>2, <2>3 DEF TxBy, TxAdds
<1>4. ASSUME NEW n \in Nodes, SendPing(n) PROVE TxBy({"ping"})
  <2> DEFINE p == [number |-> 1, from |-> root]
  <2>1. p \in PingArgs
    BY <1>r DEF PingArgs
  <2>2. tx' = [tx EXCEPT ![root] = QueueFirst(tx[root], Down("ping", n, p))]
    BY <1>4 DEF SendPing, SendFirst
  <2> HIDE DEF p
  <2>3. Down("ping", n, p) \in DownMsgs /\ Down("ping", n, p).kind = "ping"
    BY <2>1, DownMade
  <2> QED BY <1>r, <2>2, <2>3 DEF TxBy, TxAdds
<1>5. ASSUME NEW n \in Nodes, Ping(n) PROVE TxBy({"ping"})
  <2>1. SendPing(n) \/ tx' = tx
    BY <1>5 DEF Ping
  <2> QED BY <1>4, <2>1 DEF TxBy
<1>6. ASSUME NEW r \in Relays, RelayCommand(r) PROVE TxBy({"switch", "sync"})
  <2>1. ASSUME NEW o \in Outputs, NEW state \in OnOff
        PROVE  [of |-> o, state |-> state] \in StateArgs
    BY DEF StateArgs
  <2>2. \/ tx' = tx
        \/ \E a \in StateArgs : tx' = [tx EXCEPT ![root] = Queue(tx[root], Down("switch", r, a))]
        \/ tx' = [tx EXCEPT ![root] = Queue(tx[root], Down("sync", r, ""))]
    <3>1. CASE r \notin Registered
      BY <1>6, <3>1 DEF RelayCommand
    <3>2. CASE r \in Registered
      <4>1. \/ \E o \in OutputsOf(r), state \in OnOff :
                 Send(Down("switch", r, [of |-> o, state |-> state]))
            \/ Send(Down("sync", r, ""))
        BY <1>6, <3>2 DEF RelayCommand
      <4>2. OutputsOf(r) \subseteq Outputs
        BY DEF OutputsOf
      <4> QED BY <2>1, <4>1, <4>2 DEF Send
    <3> QED BY <3>1, <3>2
  <2>3. \A a \in StateArgs :
          Down("switch", r, a) \in DownMsgs /\ Down("switch", r, a).kind = "switch"
    BY DownMade
  <2>4. r \in Nodes /\ Down("sync", r, "") \in DownMsgs /\ Down("sync", r, "").kind = "sync"
    BY DownMade
  <2> QED BY <1>r, <2>2, <2>3, <2>4 DEF TxBy, TxAdds
<1>7. ASSUME NEW n \in Nodes \cup {Nowhere}, NEW k \in Kinds, SendFirst(Down("update", n, k))
      PROVE  TxBy({"update"})
  <2>1. Down("update", n, k) \in DownMsgs /\ Down("update", n, k).kind = "update"
    BY DownMade
  <2>2. tx' = [tx EXCEPT ![root] = QueueFirst(tx[root], Down("update", n, k))]
    BY <1>7 DEF SendFirst
  <2> QED BY <1>r, <2>1, <2>2 DEF TxBy, TxAdds
<1>8. ASSUME NEW n \in Nodes, UpdateDevice(n) PROVE TxBy({"update"})
  <2>1. tx' = tx \/ \E k \in Kinds : SendFirst(Down("update", n, k))
    BY <1>8 DEF UpdateDevice
  <2> QED BY <1>7, <2>1 DEF TxBy
<1>9. ASSUME UpdateSlot PROVE TxBy({"update"})
  <2>1. job \in UpdateJobs
    BY <1>9 DEF UpdateSlot, Typed, JobTyped
  <2>2. job.slot \in Nat \ {0} /\ job.of \in Kinds
    BY <2>1 DEF UpdateJobs
  <2>3. CASE job.slot <= Len(registry)
    <3>1. registry[job.slot] \in Nodes
      BY <1>r, <2>2, <2>3
    <3>2. SendFirst(Down("update", registry[job.slot], job.of))
      BY <1>9, <2>3 DEF UpdateSlot
    <3> QED BY <1>7, <2>2, <3>1, <3>2
  <2>4. CASE ~(job.slot <= Len(registry))
    <3>1. tx' = tx \/ SendFirst(Down("update", Nowhere, job.of))
      BY <1>9, <2>4 DEF UpdateSlot
    <3> QED BY <1>7, <2>2, <3>1 DEF TxBy
  <2> QED BY <2>3, <2>4
<1>10. ASSUME AutoOffItem PROVE TxBy({"time"})
  <2>1. tx' = tx \/ tx' = [tx EXCEPT ![root] = Queue(tx[root], Down("time", Board[Item.of], Item))]
    BY <1>10 DEF AutoOffItem, SendTime, Send
  <2>2. job \in [kind : {"autoOff"}, todo : Seq(TimeItems) \ {<<>>}, missing : SUBSET Relays]
    BY <1>10 DEF AutoOffItem, Typed, JobTyped
  <2>3. job.todo \in Seq(TimeItems) /\ job.todo # <<>>
    BY <2>2
  <2>4. Item \in TimeItems
    BY <2>3, TailFacts DEF Item
  <2>5. Board[Item.of] \in Relays
    BY <2>4 DEF TimeItems
  <2>6. /\ Down("time", Board[Item.of], Item) \in DownMsgs
        /\ Down("time", Board[Item.of], Item).kind = "time"
    BY <2>4, <2>5, DownMade
  <2> QED BY <1>r, <2>1, <2>6 DEF TxBy, TxAdds
<1>11. ASSUME PingItem PROVE TxBy({"ping"})
  <2>1. job \in [kind : {"ping"}, todo : Seq(Nodes) \ {<<>>}]
    BY <1>11 DEF PingItem, Typed, JobTyped
  <2>2. job.todo \in Seq(Nodes) /\ job.todo # <<>>
    BY <2>1
  <2>3. Item \in Nodes
    BY <2>2, TailFacts DEF Item
  <2> QED BY <1>4, <1>11, <2>3 DEF PingItem
<1> QED BY <1>1, <1>2, <1>3, <1>5, <1>6, <1>8, <1>9, <1>10, <1>11

\* A node takes what a root has sent, or it is lost.
LEMMA TxReceived ==
  ASSUME Typed, NEW s \in Roots
  PROVE  /\ \A kind : Received(s, kind) =>
              /\ TxTakes(s) /\ Head(tx[s]) \in DownMsgs /\ Head(tx[s]).kind = kind
              /\ To(s) \in Nodes /\ TxBy({kind})
         /\ SendFails(s) => TxBy({"update"})
         /\ LoseDown(s) => TxTakes(s) /\ Head(tx[s]) \in DownMsgs /\ TxBy({Head(tx[s]).kind})
<1>h. tx[s] # <<>> => Head(tx[s]) \in DownMsgs
  BY Heads
<1>1. ASSUME NEW kind, Received(s, kind)
      PROVE  /\ TxTakes(s) /\ Head(tx[s]) \in DownMsgs /\ Head(tx[s]).kind = kind
             /\ To(s) \in Nodes /\ TxBy({kind})
  <2>1. TxTakes(s) /\ Head(tx[s]) \in DownMsgs /\ Head(tx[s]).kind = kind /\ To(s) # Nowhere
    BY <1>h, <1>1 DEF Received, TxTakes
  <2>2. To(s) \in Nodes
    BY <2>1, DownKinds DEF To
  <2> QED BY <2>1, <2>2 DEF TxBy
<1>2. ASSUME SendFails(s) PROVE TxBy({"update"})
  <2>1. TxTakes(s) /\ Head(tx[s]) \in DownMsgs /\ Head(tx[s]).to = Nowhere
    BY <1>h, <1>2 DEF SendFails, TxTakes, To
  <2>2. Head(tx[s]).kind = "update"
    BY <2>1, DownKinds, Constants
  <2> QED BY <2>1, <2>2 DEF TxBy
<1>3. ASSUME LoseDown(s)
      PROVE  TxTakes(s) /\ Head(tx[s]) \in DownMsgs /\ TxBy({Head(tx[s]).kind})
  <2>1. TxTakes(s) /\ Head(tx[s]) \in DownMsgs
    BY <1>h, <1>3 DEF LoseDown, TxTakes
  <2> QED BY <2>1 DEF TxBy
<1> QED BY <1>1, <1>2, <1>3

LEMMA TxNode ==
  ASSUME Typed, NEW s \in Roots
  PROVE  /\ OnSync(s) => TxBy({"sync"})
         /\ OnSwitchCommand(s) => TxBy({"switch"})
         /\ OnTimeCommand(s) => TxBy({"time"})
         /\ OnUpdateOrder(s) => TxBy({"update"})
         /\ OnPing(s) => TxBy({"ping"})
  BY TxReceived DEF OnSync, OnSwitchCommand, OnTimeCommand, OnUpdateOrder, OnPing

\* The actions that leave these queues alone.
LEMMA TxOthers ==
  /\ \A t \in Tasks, o \in Outputs : Look(t, o) => UNCHANGED <<tx, root>>
  /\ \A t \in Tasks : \A s \in seen[t] : Report(t, s) => UNCHANGED <<tx, root>>
  /\ \A o \in Outputs : TimerFires(o) => UNCHANGED <<tx, root>>
  /\ \A n \in Nodes : Announce(n) \/ Status(n) \/ Gesture(n) \/ Update(n) \/ HearState(n)
                      \/ HearStatus(n) \/ LoseUp(n) => UNCHANGED <<tx, root>>
  /\ UpdateEnd \/ UpdateAll \/ AutoOff \/ PingAll \/ OutOfMemory \/ MemoryBack \/ MqttDown
     \/ MqttUp \/ NewBackend \/ UNCHANGED vars => UNCHANGED <<tx, root>>
<1> USE DEF rootVars
<1>1. /\ \A t \in Tasks, o \in Outputs : Look(t, o) => UNCHANGED <<tx, root>>
      /\ \A t \in Tasks : \A s \in seen[t] : Report(t, s) => UNCHANGED <<tx, root>>
      /\ \A o \in Outputs : TimerFires(o) => UNCHANGED <<tx, root>>
  BY DEF Look, Report, TimerFires
<1>2. \A n \in Nodes : Announce(n) \/ Status(n) \/ Gesture(n) \/ Update(n) \/ HearState(n)
                       \/ HearStatus(n) \/ LoseUp(n) => UNCHANGED <<tx, root>>
  BY DEF Announce, Status, Gesture, Update, HearState, HearStatus, LoseUp
<1>3. UpdateEnd \/ UpdateAll \/ AutoOff \/ PingAll \/ OutOfMemory \/ MemoryBack \/ MqttDown
      \/ MqttUp \/ NewBackend \/ UNCHANGED vars => UNCHANGED <<tx, root>>
  BY DEF UpdateEnd, UpdateAll, AutoOff, PingAll, OutOfMemory, MemoryBack, MqttDown, MqttUp,
         NewBackend, vars
<1> QED BY <1>1, <1>2, <1>3

\* The present root is another one, or the same again.
LEMMA TxRootChange ==
  ASSUME Typed, RootChange
  PROVE  /\ root' \in Roots
         /\ tx' = tx \/ tx' = [tx EXCEPT ![root] = <<>>]
         /\ tx' \in [Roots -> Seq(DownMsgs)]
<1>1. tx \in [Roots -> Seq(DownMsgs)] /\ <<>> \in Seq(DownMsgs) /\ root \in Roots
  BY DEF Typed
<1>2. root' \in Roots /\ (tx' = tx \/ tx' = [tx EXCEPT ![root] = <<>>])
  BY DEF RootChange
<1> QED BY <1>1, <1>2

LEMMA NextTx ==
  ASSUME Typed, [Next]_vars
  PROVE  tx' \in [Roots -> Seq(DownMsgs)] /\ root' \in Roots
<1>1. CASE RootChange
  BY <1>1, TxRootChange
<1>2. CASE ~RootChange
  <2>1. \E K : TxBy(K)
    <3>1. tx' = tx => TxBy({})
      BY DEF TxBy
    <3> QED BY <1>2, <3>1, TxActions, TxReceived, TxNode, TxOthers
            DEF Next, Node, Relay, RootRx, MqttTask
  <2>2. root' = root
    <3>1. \/ UNCHANGED root
          \/ \E t \in Tasks, o \in Outputs : Look(t, o)
          \/ \E t \in Tasks : \E s \in seen[t] : Report(t, s)
          \/ \E o \in Outputs : TimerFires(o)
          \/ \E n \in Nodes : Announce(n) \/ Status(n) \/ Gesture(n) \/ Update(n) \/ HearState(n)
                              \/ HearStatus(n) \/ LoseUp(n)
          \/ UpdateEnd \/ UpdateAll \/ AutoOff \/ PingAll \/ OutOfMemory \/ MemoryBack \/ MqttDown
          \/ MqttUp \/ NewBackend \/ UNCHANGED vars
      <4>1. \A s \in Roots : Node(s) => UNCHANGED root
        BY DEF Node, OnSync, OnSwitchCommand, OnTimeCommand, OnUpdateOrder, OnPing, SendFails
      <4>2. \A s \in Roots : LoseDown(s) => UNCHANGED root
        BY DEF LoseDown
      <4>3. \A n \in Nodes : HearType(n) \/ HearPong(n) \/ EchoPong(n) \/ Ping(n) \/ UpdateDevice(n)
              => UNCHANGED root
        BY DEF HearType, HearPong, EchoPong, Ping, UpdateDevice
      <4>4. /\ \A r \in Relays : RelayCommand(r) => UNCHANGED root
            /\ UpdateSlot \/ AutoOffItem \/ PingItem => UNCHANGED root
        BY DEF RelayCommand, UpdateSlot, AutoOffItem, PingItem
      <4> QED BY <1>2, <4>1, <4>2, <4>3, <4>4 DEF Next, Relay, RootRx, MqttTask
    <3> QED BY <3>1, TxOthers
  <2> QED BY <2>1, <2>2, TxByTyped DEF Typed
<1> QED BY <1>1, <1>2

\* What the actions do to the queues of the nodes.
LEMMA UpActions ==
  ASSUME Typed
  PROVE  /\ \A t \in Tasks : \A s \in seen[t] : Report(t, s) =>
              /\ s \in StateArgs /\ s.of \in Outputs /\ Board[s.of] \in Nodes
              /\ UpBy({"state"})
         /\ \A n \in Nodes : Announce(n) => UpBy({"type"})
         /\ \A n \in Nodes : Status(n) => UpBy({"status"})
         /\ \A s \in Roots : OnPing(s) => UpBy({"pong"})
         /\ \A n \in Nodes : \A kind : Heard(n, kind) =>
              /\ UpTakes(n) /\ Head(up[n]) \in UpMsgs /\ Head(up[n]).kind = kind /\ UpBy({kind})
         /\ \A n \in Nodes : EchoPong(n) => UpBy({"pong"})
         /\ \A n \in Nodes : LoseUp(n) =>
              UpTakes(n) /\ Head(up[n]) \in UpMsgs /\ UpBy({Head(up[n]).kind})
<1> USE Constants
<1>h. \A n \in Nodes : up[n] # <<>> => Head(up[n]) \in UpMsgs
  BY Heads
<1>1. ASSUME NEW t \in Tasks, NEW s \in seen[t], Report(t, s)
      PROVE  s \in StateArgs /\ s.of \in Outputs /\ Board[s.of] \in Nodes /\ UpBy({"state"})
  <2>1. s \in StateArgs
    BY DEF Typed
  <2>2. s.of \in Outputs /\ Board[s.of] \in Nodes
    BY <2>1 DEF StateArgs
  <2>3. Up("state", s) \in UpMsgs /\ Up("state", s).kind = "state"
    BY <2>1, UpMade
  <2>4. Up("state", s) \notin Lies(Board[s.of])
    BY DEF Lies, Up
  <2>5. up' = [up EXCEPT ![Board[s.of]] = Queue(up[Board[s.of]], Up("state", s))]
    BY <1>1 DEF Report
  <2> QED BY <2>1, <2>2, <2>3, <2>4, <2>5 DEF UpBy, UpAdds
<1>2. ASSUME NEW n \in Nodes, Announce(n) PROVE UpBy({"type"})
  <2>1. Up("type", Kind(n)) \in UpMsgs /\ Up("type", Kind(n)).kind = "type"
    BY UpMade
  <2>2. Up("type", Kind(n)) \notin Lies(n)
    BY DEF Lies, Up
  <2>3. up' = [up EXCEPT ![n] = Queue(up[n], Up("type", Kind(n)))]
    BY <1>2 DEF Announce
  <2> QED BY <2>1, <2>2, <2>3 DEF UpBy, UpAdds
<1>3. ASSUME NEW n \in Nodes, Status(n) PROVE UpBy({"status"})
  <2>1. version[n] \in 0 .. MaxFirmware
    BY DEF Typed
  <2>2. Up("status", version[n]) \in UpMsgs /\ Up("status", version[n]).kind = "status"
    BY <2>1, UpMade
  <2>3. Up("status", version[n]) \notin Lies(n)
    BY DEF Lies, Up
  <2>4. up' = [up EXCEPT ![n] = Queue(up[n], Up("status", version[n]))]
    BY <1>3 DEF Status
  <2> QED BY <2>2, <2>3, <2>4 DEF UpBy, UpAdds
<1>4. ASSUME NEW s \in Roots, OnPing(s) PROVE UpBy({"pong"})
  <2>1. Head(tx[s]) \in DownMsgs /\ Head(tx[s]).kind = "ping" /\ To(s) \in Nodes
    BY <1>4, TxReceived DEF OnPing
  <2>2. Arg(s) \in PingArgs
    BY <2>1, DownKinds DEF Arg
  <2>3. Up("pong", Arg(s)) \in UpMsgs /\ Up("pong", Arg(s)).kind = "pong"
    BY <2>2, UpMade
  <2>4. Up("pong", Arg(s)) \notin Lies(To(s))
    BY DEF Lies, Up
  <2>5. up' = [up EXCEPT ![To(s)] = QueueFirst(up[To(s)], Up("pong", Arg(s)))]
    BY <1>4 DEF OnPing
  <2> QED BY <2>1, <2>3, <2>4, <2>5 DEF UpBy, UpAdds
<1>5. ASSUME NEW n \in Nodes, UpTakes(n)
      PROVE  Head(up[n]) \in UpMsgs /\ UpBy({Head(up[n]).kind})
  BY <1>h, <1>5 DEF UpBy, UpTakes
<1>6. ASSUME NEW n \in Nodes, NEW kind, Heard(n, kind)
      PROVE  UpTakes(n) /\ Head(up[n]) \in UpMsgs /\ Head(up[n]).kind = kind /\ UpBy({kind})
  <2>1. UpTakes(n) /\ Head(up[n]).kind = kind
    BY <1>6 DEF Heard, UpTakes
  <2> QED BY <1>5, <2>1
<1>7. ASSUME NEW n \in Nodes, EchoPong(n) PROVE UpBy({"pong"})
  <2>1. UpTakes(n) /\ Head(up[n]).kind = "pong"
    BY <1>7 DEF EchoPong, UpTakes
  <2> QED BY <1>5, <2>1
<1>8. ASSUME NEW n \in Nodes, LoseUp(n)
      PROVE  UpTakes(n) /\ Head(up[n]) \in UpMsgs /\ UpBy({Head(up[n]).kind})
  <2>1. UpTakes(n)
    BY <1>8 DEF LoseUp, UpTakes
  <2> QED BY <1>5, <2>1
<1> QED BY <1>1, <1>2, <1>3, <1>4, <1>6, <1>7, <1>8

LEMMA UpHeard ==
  ASSUME Typed, NEW n \in Nodes
  PROVE  /\ HearType(n) => UpBy({"type"})
         /\ HearState(n) => UpBy({"state"})
         /\ HearStatus(n) => UpBy({"status"})
         /\ HearPong(n) => UpBy({"pong"})
<1>1. HearType(n) => UpBy({"type"})
  BY UpActions DEF HearType
<1>2. HearState(n) => UpBy({"state"})
  BY UpActions DEF HearState
<1>3. HearStatus(n) => UpBy({"status"})
  BY UpActions DEF HearStatus
<1>4. HearPong(n) => UpBy({"pong"})
  BY UpActions DEF HearPong
<1> QED BY <1>1, <1>2, <1>3, <1>4

\* The actions that leave these queues alone.
LEMMA UpOthers ==
  /\ \A t \in Tasks, o \in Outputs : Look(t, o) => up' = up
  /\ \A o \in Outputs : TimerFires(o) => up' = up
  /\ \A n \in Nodes : Gesture(n) \/ UpdateDevice(n) \/ Ping(n) => up' = up
  /\ \A r \in Relays : RelayCommand(r) => up' = up
  /\ \A s \in Roots : OnSync(s) \/ OnSwitchCommand(s) \/ OnTimeCommand(s) \/ OnUpdateOrder(s)
                      \/ SendFails(s) \/ LoseDown(s) => up' = up
  /\ UpdateSlot \/ UpdateEnd \/ AutoOffItem \/ PingItem \/ UpdateAll \/ AutoOff \/ PingAll
     \/ OutOfMemory \/ MemoryBack \/ MqttDown \/ MqttUp \/ RootChange \/ NewBackend
     \/ UNCHANGED vars => up' = up
<1> USE DEF nodeVars
<1>1. /\ \A t \in Tasks, o \in Outputs : Look(t, o) => up' = up
      /\ \A o \in Outputs : TimerFires(o) => up' = up
      /\ \A n \in Nodes : Gesture(n) \/ UpdateDevice(n) \/ Ping(n) => up' = up
      /\ \A r \in Relays : RelayCommand(r) => up' = up
  BY DEF Look, TimerFires, Gesture, UpdateDevice, Ping, RelayCommand
<1>2. \A s \in Roots : OnSync(s) \/ OnSwitchCommand(s) \/ OnTimeCommand(s) \/ OnUpdateOrder(s)
                      \/ SendFails(s) \/ LoseDown(s) => up' = up
  BY DEF OnSync, OnSwitchCommand, OnTimeCommand, OnUpdateOrder, SendFails, LoseDown
<1>3. UpdateSlot \/ UpdateEnd \/ AutoOffItem \/ PingItem \/ UpdateAll \/ AutoOff \/ PingAll
      \/ OutOfMemory \/ MemoryBack \/ MqttDown \/ MqttUp \/ RootChange \/ NewBackend
      \/ UNCHANGED vars => up' = up
  BY DEF UpdateSlot, UpdateEnd, AutoOffItem, PingItem, UpdateAll, AutoOff, PingAll, OutOfMemory,
         MemoryBack, MqttDown, MqttUp, RootChange, NewBackend, vars
<1> QED BY <1>1, <1>2, <1>3

\* A node that starts with new firmware announces itself.
LEMMA UpUpdate ==
  ASSUME Typed, NEW n \in Nodes, Update(n)
  PROVE  /\ up' = [up EXCEPT ![n] = <<Up("type", Kind(n))>>]
         /\ up' \in [Nodes -> Seq(UpMsgs)] /\ Up("type", Kind(n)) \notin Lies(n)
<1>1. Up("type", Kind(n)) \in UpMsgs
  BY Constants, UpMade
<1>2. <<Up("type", Kind(n))>> \in Seq(UpMsgs)
  BY <1>1
<1>3. up' = [up EXCEPT ![n] = <<Up("type", Kind(n))>>]
  BY DEF Update
<1>4. Up("type", Kind(n)) \notin Lies(n)
  BY DEF Lies, Up
<1> QED BY <1>2, <1>3, <1>4 DEF Typed

LEMMA NextUp ==
  ASSUME Typed, [Next]_vars
  PROVE  /\ up' \in [Nodes -> Seq(UpMsgs)]
         /\ (\E n \in Nodes : Update(n)) \/ (\E K : UpBy(K))
<1>1. (\E n \in Nodes : Update(n)) \/ (\E K : UpBy(K))
  <2>1. up' = up => \E K : UpBy(K)
    <3>1. up' = up => UpBy({})
      BY DEF UpBy
    <3> QED BY <3>1
  <2>2. Relay => \E K : UpBy(K)
    BY <2>1, UpActions, UpOthers DEF Relay
  <2>3. ASSUME NEW s \in Roots, Node(s) \/ LoseDown(s) PROVE \E K : UpBy(K)
    BY <2>1, <2>3, UpActions, UpOthers DEF Node
  <2>4. ASSUME NEW n \in Nodes, RootRx(n) \/ EchoPong(n) \/ Announce(n) \/ Status(n) \/ LoseUp(n)
        PROVE  \E K : UpBy(K)
    <3>1. RootRx(n) => \E K : UpBy(K)
      BY UpHeard DEF RootRx
    <3> QED BY <2>4, <3>1, UpActions
  <2>5. MqttTask => \E K : UpBy(K)
    BY <2>1, UpOthers DEF MqttTask
  <2> QED BY <2>1, <2>2, <2>3, <2>4, <2>5, UpOthers DEF Next
<1> QED BY <1>1, UpByTyped, UpUpdate

-----------------------------------------------------------------------------
(* The types *)

\* The actions that leave what the MQTT task is doing alone.
LEMMA JobKept ==
  /\ Relay => UNCHANGED <<job, registry>>
  /\ \A s \in Roots : Node(s) \/ LoseDown(s) => UNCHANGED <<job, registry>>
  /\ \A r \in Relays : RelayCommand(r) => UNCHANGED <<job, registry>>
  /\ \A n \in Nodes : Announce(n) \/ Status(n) \/ Gesture(n) \/ Update(n) \/ EchoPong(n)
                      \/ UpdateDevice(n) \/ Ping(n) \/ LoseUp(n) => UNCHANGED <<job, registry>>
  /\ \A n \in Nodes : RootRx(n) => job' = job /\ registry' = Register(n)
  /\ OutOfMemory \/ MemoryBack \/ MqttDown \/ MqttUp \/ NewBackend \/ UNCHANGED vars
       => UNCHANGED <<job, registry>>
<1> USE DEF rootVars
<1>1. Relay => UNCHANGED <<job, registry>>
  BY DEF Relay, Look, Report, TimerFires
<1>2. \A s \in Roots : Node(s) \/ LoseDown(s) => UNCHANGED <<job, registry>>
  BY DEF Node, OnSync, OnSwitchCommand, OnTimeCommand, OnUpdateOrder, OnPing, SendFails, LoseDown
<1>3. /\ \A r \in Relays : RelayCommand(r) => UNCHANGED <<job, registry>>
      /\ \A n \in Nodes : Announce(n) \/ Status(n) \/ Gesture(n) \/ Update(n) \/ EchoPong(n)
                          \/ UpdateDevice(n) \/ Ping(n) \/ LoseUp(n) => UNCHANGED <<job, registry>>
  BY DEF RelayCommand, Announce, Status, Gesture, Update, EchoPong, UpdateDevice, Ping, LoseUp
<1>4. \A n \in Nodes : RootRx(n) => job' = job /\ registry' = Register(n)
  BY DEF RootRx, HearType, HearState, HearStatus, HearPong, Heard
<1>5. OutOfMemory \/ MemoryBack \/ MqttDown \/ MqttUp \/ NewBackend \/ UNCHANGED vars
       => UNCHANGED <<job, registry>>
  BY DEF OutOfMemory, MemoryBack, MqttDown, MqttUp, NewBackend, vars
<1> QED BY <1>1, <1>2, <1>3, <1>4, <1>5

\* The item the MQTT task is at.
LEMMA Items ==
  ASSUME NEW S, job.todo \in Seq(S) \ {<<>>}
  PROVE  /\ Item \in S /\ Tail(job.todo) \in Seq(S)
         /\ Len(job.todo) # 1 => Tail(job.todo) # <<>>
         /\ Item = job.todo[1] /\ Len(job.todo) \in Nat \ {0} /\ Len(Tail(job.todo)) = Len(job.todo) - 1
         /\ \A i \in 1 .. Len(Tail(job.todo)) : Tail(job.todo)[i] = job.todo[i + 1]
<1>1. job.todo \in Seq(S) /\ job.todo # <<>>
  OBVIOUS
<1> QED BY <1>1, TailFacts, LongTail DEF Item

LEMMA IdleTyped ==
  ASSUME job' = Idle
  PROVE  JobTyped'
  BY DEF JobTyped, Idle

LEMMA NextJob ==
  ASSUME Typed, [Next]_vars
  PROVE  JobTyped' /\ registry' \in Seq(Nodes)
<1>t. JobTyped /\ registry \in Seq(Nodes) /\ Registered \subseteq Nodes
  BY DEF Typed, Registered
<1>1. CASE UpdateAll
  <2>1. PICK k \in Kinds :
          job' = [kind |-> "update", slot |-> 1, of |-> k,
                  owed |-> Registered, ordered |-> <<>>, missed |-> {}]
    BY <1>1 DEF UpdateAll
  <2>2. job' \in UpdateJobs /\ job'.kind = "update"
    BY <1>t, <2>1 DEF UpdateJobs
  <2>3. registry' = registry
    BY <1>1 DEF UpdateAll
  <2> QED BY <1>t, <2>2, <2>3 DEF JobTyped
<1>2. CASE UpdateSlot
  <2>1. job \in UpdateJobs
    BY <1>2, <1>t DEF UpdateSlot, JobTyped
  <2>2. job.slot \in Nat \ {0} /\ job.slot + 1 \in Nat \ {0}
    BY <2>1 DEF UpdateJobs
  <2>3. \/ job' = [job EXCEPT !.slot = @ + 1]
        \/ /\ job.slot <= Len(registry)
           /\ \/ job' = [job EXCEPT !.slot = @ + 1, !.missed = @ \cup {registry[job.slot]}]
              \/ job' = [job EXCEPT !.slot = @ + 1, !.ordered = Append(@, registry[job.slot])]
    BY <1>2 DEF UpdateSlot
  <2>4. ASSUME job.slot <= Len(registry)
        PROVE  registry[job.slot] \in Nodes /\ Append(job.ordered, registry[job.slot]) \in Seq(Nodes)
    <3>1. registry[job.slot] \in Nodes
      BY <1>t, <2>2, <2>4
    <3> QED BY <2>1, <3>1 DEF UpdateJobs
  <2>5. job' \in UpdateJobs /\ job'.kind = "update"
    <3>1. CASE job' = [job EXCEPT !.slot = @ + 1]
      BY <2>1, <2>2, <3>1 DEF UpdateJobs
    <3>2. CASE /\ job.slot <= Len(registry)
               /\ job' = [job EXCEPT !.slot = @ + 1, !.missed = @ \cup {registry[job.slot]}]
      BY <2>1, <2>2, <2>4, <3>2 DEF UpdateJobs
    <3>3. CASE /\ job.slot <= Len(registry)
               /\ job' = [job EXCEPT !.slot = @ + 1, !.ordered = Append(@, registry[job.slot])]
      <4> DEFINE a == Append(job.ordered, registry[job.slot])
      <4>1. a \in Seq(Nodes)
        BY <2>4, <3>3
      <4>2. job' = [job EXCEPT !.slot = job.slot + 1, !.ordered = a]
        BY <3>3
      <4> HIDE DEF a
      <4> QED BY <2>1, <2>2, <4>1, <4>2 DEF UpdateJobs
    <3> QED BY <2>3, <3>1, <3>2, <3>3
  <2>6. registry' = registry
    BY <1>2 DEF UpdateSlot
  <2> QED BY <1>t, <2>5, <2>6 DEF JobTyped
<1>3. CASE UpdateEnd
  BY <1>3, <1>t, IdleTyped DEF UpdateEnd
<1>4. CASE AutoOff
  <2>1. PICK table \in Pushes : job' = [kind |-> "autoOff", todo |-> table, missing |-> {}]
    BY <1>4 DEF AutoOff
  <2>2. JobTyped'
    BY <2>1, PushTyped DEF JobTyped
  <2> QED BY <1>4, <1>t, <2>2 DEF AutoOff
<1>5. CASE AutoOffItem
  <2>1. job \in [kind : {"autoOff"}, todo : Seq(TimeItems) \ {<<>>}, missing : SUBSET Relays]
    BY <1>5, <1>t DEF AutoOffItem, JobTyped
  <2>2. job.todo \in Seq(TimeItems) \ {<<>>} /\ job.missing \subseteq Relays
    BY <2>1
  <2>3. Board[Item.of] \in Relays
    <3>1. Item \in TimeItems
      BY <2>2, Items
    <3> QED BY <3>1, Constants DEF TimeItems
  <2>4. \E missing \in SUBSET Relays : NextItem(missing)
    <3>1. NextItem(job.missing) \/ NextItem(job.missing \cup {Board[Item.of]})
      BY <1>5 DEF AutoOffItem
    <3> QED BY <2>2, <2>3, <3>1
  <2>5. JobTyped'
    <3>1. CASE Len(job.todo) = 1
      BY <2>4, <3>1, IdleTyped DEF NextItem
    <3>2. CASE Len(job.todo) # 1
      <4>1. Tail(job.todo) \in Seq(TimeItems) \ {<<>>}
        BY <2>2, <3>2, Items
      <4>2. PICK missing \in SUBSET Relays :
              job' = [job EXCEPT !.todo = Tail(job.todo), !.missing = missing]
        BY <2>4, <3>2 DEF NextItem
      <4> QED BY <2>1, <4>1, <4>2 DEF JobTyped
    <3> QED BY <3>1, <3>2
  <2> QED BY <1>5, <1>t, <2>5 DEF AutoOffItem
<1>6. CASE PingAll
  <2>1. job' = Idle \/ (registry # <<>> /\ job' = [kind |-> "ping", todo |-> registry])
    BY <1>6 DEF PingAll
  <2>2. JobTyped'
    BY <1>t, <2>1, IdleTyped DEF JobTyped
  <2> QED BY <1>6, <1>t, <2>2 DEF PingAll
<1>7. CASE PingItem
  <2>1. job \in [kind : {"ping"}, todo : Seq(Nodes) \ {<<>>}]
    BY <1>7, <1>t DEF PingItem, JobTyped
  <2>2. job.todo \in Seq(Nodes) \ {<<>>}
    BY <2>1
  <2>3. JobTyped'
    <3>1. CASE Len(job.todo) = 1
      BY <1>7, <3>1, IdleTyped DEF PingItem
    <3>2. CASE Len(job.todo) # 1
      <4>1. Tail(job.todo) \in Seq(Nodes) \ {<<>>}
        BY <2>2, <3>2, Items
      <4>2. job' = [job EXCEPT !.todo = Tail(job.todo)]
        BY <1>7, <3>2 DEF PingItem
      <4> QED BY <2>1, <4>1, <4>2 DEF JobTyped
    <3> QED BY <3>1, <3>2
  <2> QED BY <1>7, <1>t, <2>3 DEF PingItem
<1>8. CASE RootChange
  <2>1. registry' \in {<<>>, registry} /\ job' = Idle
    BY <1>8 DEF RootChange
  <2>2. <<>> \in Seq(Nodes)
    OBVIOUS
  <2> QED BY <1>t, <2>1, <2>2, IdleTyped
<1>9. ASSUME UNCHANGED <<job, registry>> PROVE JobTyped' /\ registry' \in Seq(Nodes)
  BY <1>t, <1>9 DEF JobTyped
<1>10. ASSUME NEW n \in Nodes, RootRx(n) PROVE JobTyped' /\ registry' \in Seq(Nodes)
  <2>1. job' = job /\ registry' = Register(n)
    BY <1>10, JobKept
  <2>2. Register(n) \in Seq(Nodes)
    BY <1>t DEF Register
  <2> QED BY <1>t, <2>1, <2>2 DEF JobTyped
<1>11. \/ UpdateAll \/ UpdateSlot \/ UpdateEnd \/ AutoOff \/ AutoOffItem \/ PingAll \/ PingItem
       \/ RootChange \/ UNCHANGED <<job, registry>> \/ \E n \in Nodes : RootRx(n)
  BY JobKept DEF Next, MqttTask
<1> QED BY <1>1, <1>2, <1>3, <1>4, <1>5, <1>6, <1>7, <1>8, <1>9, <1>10, <1>11

\* The actions that leave the outputs, their times and what the relays are reporting alone.
LEMMA RelayKept ==
  /\ \A n \in Nodes : Announce(n) \/ Status(n) \/ Gesture(n) \/ RootRx(n) \/ EchoPong(n)
                      \/ UpdateDevice(n) \/ Ping(n) \/ LoseUp(n) => UNCHANGED relayVars
  /\ \A r \in Relays : RelayCommand(r) => UNCHANGED relayVars
  /\ \A s \in Roots : OnUpdateOrder(s) \/ OnPing(s) \/ SendFails(s) \/ LoseDown(s)
                        => UNCHANGED relayVars
  /\ UpdateSlot \/ UpdateEnd \/ AutoOffItem \/ PingItem \/ UpdateAll \/ AutoOff \/ PingAll
     \/ OutOfMemory \/ MemoryBack \/ MqttDown \/ MqttUp \/ RootChange \/ NewBackend
     \/ UNCHANGED vars => UNCHANGED relayVars
<1> USE DEF nodeVars, relayVars
<1>1. \A n \in Nodes : Announce(n) \/ Status(n) \/ Gesture(n) \/ RootRx(n) \/ EchoPong(n)
                       \/ UpdateDevice(n) \/ Ping(n) \/ LoseUp(n) => UNCHANGED relayVars
  BY DEF Announce, Status, Gesture, RootRx, HearType, HearState, HearStatus, HearPong, EchoPong,
         UpdateDevice, Ping, LoseUp
<1>2. /\ \A r \in Relays : RelayCommand(r) => UNCHANGED relayVars
      /\ \A s \in Roots : OnUpdateOrder(s) \/ OnPing(s) \/ SendFails(s) \/ LoseDown(s)
                            => UNCHANGED relayVars
  BY DEF RelayCommand, OnUpdateOrder, OnPing, SendFails, LoseDown
<1>3. UpdateSlot \/ UpdateEnd \/ AutoOffItem \/ PingItem \/ UpdateAll \/ AutoOff \/ PingAll
      \/ OutOfMemory \/ MemoryBack \/ MqttDown \/ MqttUp \/ RootChange \/ NewBackend
      \/ UNCHANGED vars => UNCHANGED relayVars
  BY DEF UpdateSlot, UpdateEnd, AutoOffItem, PingItem, UpdateAll, AutoOff, PingAll, OutOfMemory,
         MemoryBack, MqttDown, MqttUp, RootChange, NewBackend, vars
<1> QED BY <1>1, <1>2, <1>3

RelayTyped ==
  /\ out \in [Outputs -> OnOff] /\ times \in [Outputs -> Times]
  /\ todo \in [Tasks -> SUBSET Outputs] /\ seen \in [Tasks -> SUBSET StateArgs]

LEMMA NextRelay ==
  ASSUME Typed, [Next]_vars
  PROVE  RelayTyped'
<1>t. RelayTyped
  BY DEF Typed, RelayTyped
<1>1. ASSUME NEW t \in Tasks, NEW o \in Outputs, Look(t, o) PROVE RelayTyped'
  <2>1. [of |-> o, state |-> out[o]] \in StateArgs
    BY <1>t DEF StateArgs, RelayTyped
  <2> QED BY <1>1, <1>t, <2>1 DEF RelayTyped, Look
<1>2. ASSUME NEW t \in Tasks, NEW s \in seen[t], Report(t, s) PROVE RelayTyped'
  BY <1>2, <1>t DEF RelayTyped, Report
<1>3. ASSUME NEW o \in Outputs, TimerFires(o) PROVE RelayTyped'
  BY <1>3, <1>t DEF RelayTyped, TimerFires, OnOff, Tasks
<1>4. ASSUME NEW n \in Nodes, Update(n) PROVE RelayTyped'
  <2>1. /\ out' \in [Outputs -> OnOff] /\ times' = times
        /\ todo' = [t \in Tasks |-> todo[t] \ OutputsOf(n)]
        /\ seen' = [t \in Tasks |-> {s \in seen[t] : Board[s.of] # n}]
    BY <1>4 DEF Update
  <2> QED BY <1>t, <2>1 DEF RelayTyped
<1>5. ASSUME NEW s \in Roots, OnSync(s) PROVE RelayTyped'
  BY <1>5, <1>t DEF RelayTyped, OnSync, OutputsOf, Tasks
<1>6. ASSUME NEW s \in Roots, OnSwitchCommand(s) PROVE RelayTyped'
  <2>1. Arg(s).of \in Outputs /\ Arg(s).state \in OnOff
    BY <1>6, TxReceived, DownKinds DEF OnSwitchCommand, Arg
  <2> QED BY <1>6, <1>t, <2>1 DEF RelayTyped, OnSwitchCommand, Tasks
<1>7. ASSUME NEW s \in Roots, OnTimeCommand(s) PROVE RelayTyped'
  <2>1. Arg(s).of \in Outputs /\ Arg(s).time \in Times
    BY <1>7, TxReceived, DownKinds DEF OnTimeCommand, Arg
  <2> QED BY <1>7, <1>t, <2>1 DEF RelayTyped, OnTimeCommand
<1>8. ASSUME UNCHANGED relayVars PROVE RelayTyped'
  BY <1>8, <1>t DEF RelayTyped, relayVars
<1> QED BY <1>1, <1>2, <1>3, <1>4, <1>5, <1>6, <1>7, <1>8, RelayKept DEF Next, Node, Relay, MqttTask

\* The actions that leave what the backend knows of the outputs alone, and those that
\* lose no state.
LEMMA StatesKept ==
  /\ Relay => UNCHANGED states
  /\ \A n \in Nodes : Announce(n) \/ Status(n) \/ Gesture(n) \/ Update(n) \/ HearType(n)
                      \/ HearStatus(n) \/ HearPong(n) \/ EchoPong(n) \/ UpdateDevice(n) \/ Ping(n)
                      \/ LoseUp(n) => UNCHANGED states
  /\ \A r \in Relays : RelayCommand(r) => UNCHANGED states
  /\ \A s \in Roots : Node(s) \/ LoseDown(s) => UNCHANGED states
  /\ UpdateSlot \/ UpdateEnd \/ AutoOffItem \/ PingItem \/ UpdateAll \/ AutoOff \/ PingAll
     \/ OutOfMemory \/ MemoryBack \/ MqttDown \/ MqttUp \/ RootChange \/ UNCHANGED vars
       => UNCHANGED states
<1> USE DEF deviceVars
<1>1. Relay => UNCHANGED states
  BY DEF Relay, Look, Report, TimerFires
<1>2. /\ \A n \in Nodes : Announce(n) \/ Status(n) \/ Gesture(n) \/ Update(n) \/ HearType(n)
                          \/ HearStatus(n) \/ HearPong(n) \/ EchoPong(n) \/ UpdateDevice(n)
                          \/ Ping(n) \/ LoseUp(n) => UNCHANGED states
      /\ \A r \in Relays : RelayCommand(r) => UNCHANGED states
  BY DEF Announce, Status, Gesture, Update, HearType, HearStatus, HearPong, EchoPong,
         UpdateDevice, Ping, LoseUp, RelayCommand
<1>3. \A s \in Roots : Node(s) \/ LoseDown(s) => UNCHANGED states
  BY DEF Node, OnSync, OnSwitchCommand, OnTimeCommand, OnUpdateOrder, OnPing, SendFails, LoseDown
<1>4. UpdateSlot \/ UpdateEnd \/ AutoOffItem \/ PingItem \/ UpdateAll \/ AutoOff \/ PingAll
      \/ OutOfMemory \/ MemoryBack \/ MqttDown \/ MqttUp \/ RootChange \/ UNCHANGED vars
        => UNCHANGED states
  BY DEF UpdateSlot, UpdateEnd, AutoOffItem, PingItem, UpdateAll, AutoOff, PingAll, OutOfMemory,
         MemoryBack, MqttDown, MqttUp, RootChange, vars
<1> QED BY <1>1, <1>2, <1>3, <1>4

LEMMA LossKept ==
  /\ \A t \in Tasks, o \in Outputs : Look(t, o) => UNCHANGED <<stale, greeted>>
  /\ \A o \in Outputs : TimerFires(o) => UNCHANGED <<stale, greeted>>
  /\ \A n \in Nodes : Announce(n) \/ Status(n) \/ Gesture(n) \/ HearStatus(n) \/ HearPong(n)
                      \/ EchoPong(n) \/ UpdateDevice(n) \/ Ping(n) => UNCHANGED <<stale, greeted>>
  /\ \A r \in Relays : RelayCommand(r) => UNCHANGED <<stale, greeted>>
  /\ \A s \in Roots : Node(s) => UNCHANGED <<stale, greeted>>
  /\ UpdateSlot \/ UpdateEnd \/ AutoOffItem \/ PingItem \/ UpdateAll \/ AutoOff \/ PingAll
     \/ OutOfMemory \/ MemoryBack \/ MqttDown \/ MqttUp \/ UNCHANGED vars
       => UNCHANGED <<stale, greeted>>
<1> USE DEF history
<1>1. /\ \A t \in Tasks, o \in Outputs : Look(t, o) => UNCHANGED <<stale, greeted>>
      /\ \A o \in Outputs : TimerFires(o) => UNCHANGED <<stale, greeted>>
  BY DEF Look, TimerFires
<1>2. /\ \A n \in Nodes : Announce(n) \/ Status(n) \/ Gesture(n) \/ HearStatus(n) \/ HearPong(n)
                          \/ EchoPong(n) \/ UpdateDevice(n) \/ Ping(n)
                            => UNCHANGED <<stale, greeted>>
      /\ \A r \in Relays : RelayCommand(r) => UNCHANGED <<stale, greeted>>
  BY DEF Announce, Status, Gesture, HearStatus, HearPong, EchoPong, UpdateDevice, Ping,
         RelayCommand
<1>3. \A s \in Roots : Node(s) => UNCHANGED <<stale, greeted>>
  BY DEF Node, OnSync, OnSwitchCommand, OnTimeCommand, OnUpdateOrder, OnPing, SendFails
<1>4. UpdateSlot \/ UpdateEnd \/ AutoOffItem \/ PingItem \/ UpdateAll \/ AutoOff \/ PingAll
      \/ OutOfMemory \/ MemoryBack \/ MqttDown \/ MqttUp \/ UNCHANGED vars
        => UNCHANGED <<stale, greeted>>
  BY DEF UpdateSlot, UpdateEnd, AutoOffItem, PingItem, UpdateAll, AutoOff, PingAll, OutOfMemory,
         MemoryBack, MqttDown, MqttUp, vars
<1> QED BY <1>1, <1>2, <1>3, <1>4

\* What is ordered, and what the nodes make of it.
LEMMA WantsKept ==
  /\ Relay => UNCHANGED <<wants, version, named>>
  /\ \A n \in Nodes : Announce(n) \/ Status(n) \/ RootRx(n) \/ EchoPong(n) \/ Ping(n) \/ LoseUp(n)
       => UNCHANGED <<wants, version, named>>
  /\ \A r \in Relays : RelayCommand(r) => UNCHANGED <<wants, version, named>>
  /\ \A s \in Roots : OnSync(s) \/ OnSwitchCommand(s) \/ OnTimeCommand(s) \/ OnPing(s)
                      \/ SendFails(s) \/ LoseDown(s) => UNCHANGED <<wants, version, named>>
  /\ UpdateSlot \/ UpdateEnd \/ AutoOffItem \/ PingItem \/ AutoOff \/ PingAll
     \/ OutOfMemory \/ MemoryBack \/ MqttDown \/ MqttUp \/ RootChange \/ NewBackend
     \/ UNCHANGED vars => UNCHANGED <<wants, version, named>>
<1> USE DEF nodeVars, history
<1>1. Relay => UNCHANGED <<wants, version, named>>
  BY DEF Relay, Look, Report, TimerFires
<1>2. /\ \A n \in Nodes : Announce(n) \/ Status(n) \/ RootRx(n) \/ EchoPong(n) \/ Ping(n)
                          \/ LoseUp(n) => UNCHANGED <<wants, version, named>>
      /\ \A r \in Relays : RelayCommand(r) => UNCHANGED <<wants, version, named>>
  BY DEF Announce, Status, RootRx, HearType, HearState, HearStatus, HearPong, EchoPong, Ping,
         LoseUp, RelayCommand
<1>3. \A s \in Roots : OnSync(s) \/ OnSwitchCommand(s) \/ OnTimeCommand(s) \/ OnPing(s)
                      \/ SendFails(s) \/ LoseDown(s) => UNCHANGED <<wants, version, named>>
  BY DEF OnSync, OnSwitchCommand, OnTimeCommand, OnPing, SendFails, LoseDown
<1>4. UpdateSlot \/ UpdateEnd \/ AutoOffItem \/ PingItem \/ AutoOff \/ PingAll
      \/ OutOfMemory \/ MemoryBack \/ MqttDown \/ MqttUp \/ RootChange \/ NewBackend
      \/ UNCHANGED vars => UNCHANGED <<wants, version, named>>
  BY DEF UpdateSlot, UpdateEnd, AutoOffItem, PingItem, AutoOff, PingAll, OutOfMemory,
         MemoryBack, MqttDown, MqttUp, RootChange, NewBackend, vars
<1> QED BY <1>1, <1>2, <1>3, <1>4

LEMMA NextStates ==
  ASSUME Typed, [Next]_vars
  PROVE  states' \in [Outputs -> States]
<1>t. states \in [Outputs -> States]
  BY DEF Typed
<1>1. ASSUME NEW n \in Nodes, HearState(n) PROVE states' \in [Outputs -> States]
  <2>1. Content(n).of \in Outputs /\ Content(n).state \in OnOff
    BY <1>1, UpActions, UpKinds DEF HearState, Content
  <2>2. states' = states \/ states' = [states EXCEPT ![Content(n).of] = Content(n).state]
    BY <1>1 DEF HearState, UpdateState
  <2> QED BY <1>t, <2>1, <2>2 DEF OnOff, States
<1>2. CASE NewBackend
  BY <1>t, <1>2 DEF NewBackend, BackendRestart, States
<1> QED BY <1>t, <1>1, <1>2, StatesKept DEF Next, RootRx, MqttTask

\* What the loss of a message does to the histories.
LEMMA LostTyped ==
  ASSUME Typed, NEW m, NEW n, Lost(m, n), m.kind = "state" => m.arg.of \in Outputs
  PROVE  stale' \subseteq Outputs /\ greeted' \subseteq Outputs
<1>1. CASE m.kind = "state"
  BY <1>1 DEF Lost, LostState, Typed
<1>2. CASE m.kind = "sync"
  BY <1>2 DEF Lost, Typed
<1>3. CASE m.kind # "state" /\ m.kind # "sync"
  BY <1>3 DEF Lost, Typed
<1> QED BY <1>1, <1>2, <1>3

LEMMA NextLoss ==
  ASSUME Typed, [Next]_vars
  PROVE  stale' \subseteq Outputs /\ greeted' \subseteq Outputs
<1>t. stale \subseteq Outputs /\ greeted \subseteq Outputs /\ \A n : OutputsOf(n) \subseteq Outputs
  BY DEF Typed, OutputsOf
<1>1. ASSUME NEW t \in Tasks, NEW s \in seen[t], Report(t, s)
      PROVE  stale' \subseteq Outputs /\ greeted' \subseteq Outputs
  BY <1>1, <1>t, UpActions DEF Report
<1>2. ASSUME NEW n \in Nodes, Update(n)
      PROVE  stale' \subseteq Outputs /\ greeted' \subseteq Outputs
  <2> DEFINE more == {o \in OutputsOf(n) : \/ out'[o] # out[o] \/ Waiting(up[n], o)
                                           \/ \E t \in Tasks : o \in todo[t]}
  <2>1. stale' = stale \cup more /\ greeted' = greeted \ OutputsOf(n)
    BY <1>2 DEF Update
  <2>2. more \subseteq Outputs
    BY <1>t
  <2> HIDE DEF more
  <2> QED BY <1>t, <2>1, <2>2
<1>3. ASSUME NEW n \in Nodes, HearType(n)
      PROVE  stale' \subseteq Outputs /\ greeted' \subseteq Outputs
  BY <1>3, <1>t DEF HearType
<1>4. ASSUME NEW n \in Nodes, HearState(n)
      PROVE  stale' \subseteq Outputs /\ greeted' \subseteq Outputs
  <2>1. Content(n).of \in Outputs
    BY <1>4, UpActions, UpKinds DEF HearState, Content
  <2> QED BY <1>4, <1>t, <2>1 DEF HearState, LostState
<1>5. ASSUME NEW n \in Nodes, LoseUp(n)
      PROVE  stale' \subseteq Outputs /\ greeted' \subseteq Outputs
  <2>1. Lost(Head(up[n]), n)
    BY <1>5 DEF LoseUp
  <2>2. Head(up[n]).kind = "state" => Head(up[n]).arg.of \in Outputs
    BY <1>5, UpActions, UpKinds
  <2> QED BY <2>1, <2>2, LostTyped
<1>6. ASSUME NEW s \in Roots, LoseDown(s)
      PROVE  stale' \subseteq Outputs /\ greeted' \subseteq Outputs
  <2>1. Lost(Head(tx[s]), To(s))
    BY <1>6 DEF LoseDown
  <2>2. Head(tx[s]).kind # "state"
    BY <1>6, TxReceived, DownKinds
  <2> QED BY <2>1, <2>2, LostTyped
<1>7. CASE RootChange
  BY <1>7, <1>t DEF RootChange
<1>8. CASE NewBackend
  BY <1>8, <1>t DEF NewBackend
<1> QED BY <1>t, <1>1, <1>2, <1>3, <1>4, <1>5, <1>6, <1>7, <1>8, LossKept
        DEF Next, RootRx, MqttTask, Relay

LEMMA NextWants ==
  ASSUME Typed, [Next]_vars
  PROVE  /\ wants' \in [Nodes -> BOOLEAN] /\ version' \in [Nodes -> 0 .. MaxFirmware]
         /\ named' \subseteq Kinds \cup Nodes
<1> DEFINE Goal == /\ wants' \in [Nodes -> BOOLEAN] /\ version' \in [Nodes -> 0 .. MaxFirmware]
                   /\ named' \subseteq Kinds \cup Nodes
<1>t. /\ wants \in [Nodes -> BOOLEAN] /\ version \in [Nodes -> 0 .. MaxFirmware]
      /\ named \subseteq Kinds \cup Nodes
  BY DEF Typed
<1>1. ASSUME NEW n \in Nodes, Gesture(n) PROVE Goal
  BY <1>1, <1>t DEF Gesture
<1>2. ASSUME NEW n \in Nodes, Update(n) PROVE Goal
  <2>1. version[n] \in 0 .. MaxFirmware /\ version[n] + 1 \in 0 .. MaxFirmware
    BY <1>2, <1>t, Constants DEF Update
  <2>2. /\ wants' = [wants EXCEPT ![n] = FALSE] /\ version' = [version EXCEPT ![n] = version[n] + 1]
        /\ named' = named
    BY <1>2 DEF Update
  <2> QED BY <1>t, <2>1, <2>2
<1>3. ASSUME NEW s \in Roots, OnUpdateOrder(s) PROVE Goal
  <2>1. \E b \in BOOLEAN : wants' = [wants EXCEPT ![To(s)] = b]
    <3>1. wants' = [wants EXCEPT ![To(s)] = @ \/ Arg(s) = Kind(To(s))]
      BY <1>3 DEF OnUpdateOrder
    <3>2. (wants[To(s)] \/ Arg(s) = Kind(To(s))) \in BOOLEAN
      OBVIOUS
    <3> QED BY <3>1, <3>2
  <2>2. UNCHANGED <<version, named>>
    BY <1>3 DEF OnUpdateOrder, history
  <2> QED BY <1>t, <2>1, <2>2
<1>4. ASSUME NEW n \in Nodes, UpdateDevice(n) PROVE Goal
  BY <1>4, <1>t DEF UpdateDevice, nodeVars
<1>5. CASE UpdateAll
  BY <1>5, <1>t DEF UpdateAll, nodeVars
<1>6. ASSUME UNCHANGED <<wants, version, named>> PROVE Goal
  BY <1>6, <1>t
<1> HIDE DEF Goal
<1> QED BY <1>1, <1>2, <1>3, <1>4, <1>5, <1>6, WantsKept DEF Next, Node, MqttTask, Goal

LEMMA InitTyped == Init => Typed
<1> SUFFICES ASSUME Init PROVE Typed
  OBVIOUS
<1>1. /\ root \in Roots /\ registry \in Seq(Nodes)
      /\ tx \in [Roots -> Seq(DownMsgs)] /\ up \in [Nodes -> Seq(UpMsgs)]
  BY DEF Init
<1>2. JobTyped
  BY DEF Init, JobTyped, Idle
<1>3. out \in [Outputs -> OnOff] /\ times \in [Outputs -> Times] /\ states \in [Outputs -> States]
  <2>1. FirstTimes \in [Outputs -> Times]
    <3>1. FirstTimes \in [Outputs -> Nat]
      BY RegistryAssumption
    <3>2. \A o \in Outputs : FirstTimes[o] \in Times
      BY DEF Times
    <3> QED BY <3>1, <3>2
  <2> QED BY <2>1 DEF Init, DeviceInit, OnOff, States
<1>4. todo \in [Tasks -> SUBSET Outputs] /\ seen \in [Tasks -> SUBSET StateArgs]
  BY DEF Init
<1>5. wants \in [Nodes -> BOOLEAN] /\ version \in [Nodes -> 0 .. MaxFirmware]
  BY Constants DEF Init
<1>6. stale \subseteq Outputs /\ greeted \subseteq Outputs /\ named \subseteq Kinds \cup Nodes
  BY DEF Init
<1> QED BY <1>1, <1>2, <1>3, <1>4, <1>5, <1>6 DEF Typed

LEMMA NextTyped == Typed /\ [Next]_vars => Typed'
<1> SUFFICES ASSUME Typed, [Next]_vars PROVE Typed'
  OBVIOUS
<1>1. tx' \in [Roots -> Seq(DownMsgs)] /\ root' \in Roots
  BY NextTx
<1>2. up' \in [Nodes -> Seq(UpMsgs)]
  BY NextUp
<1>3. JobTyped' /\ registry' \in Seq(Nodes)
  BY NextJob
<1>4. /\ out' \in [Outputs -> OnOff] /\ times' \in [Outputs -> Times]
      /\ todo' \in [Tasks -> SUBSET Outputs] /\ seen' \in [Tasks -> SUBSET StateArgs]
  BY NextRelay DEF RelayTyped
<1>5. states' \in [Outputs -> States]
  BY NextStates
<1>6. stale' \subseteq Outputs /\ greeted' \subseteq Outputs
  BY NextLoss
<1>7. /\ wants' \in [Nodes -> BOOLEAN] /\ version' \in [Nodes -> 0 .. MaxFirmware]
      /\ named' \subseteq Kinds \cup Nodes
  BY NextWants
<1> QED BY <1>1, <1>2, <1>3, <1>4, <1>5, <1>6, <1>7 DEF Typed

THEOREM TypedHolds == Spec => []Typed
  BY InitTyped, NextTyped, PTL DEF Spec


-----------------------------------------------------------------------------
(* The last word on a matter: M is the set of the messages that say something *)
(* about it, x what the last of them in q says, and v what holds if there is  *)
(* none.                                                                      *)

None(q, M) == \A i \in 1 .. Len(q) : q[i] \notin M

LastIs(q, M, x) ==
  \E i \in 1 .. Len(q) :
    q[i] \in M /\ q[i].arg = x /\ \A j \in i + 1 .. Len(q) : q[j] \notin M

Word(q, M, x, v) == LastIs(q, M, x) \/ (None(q, M) /\ v = x)

\* A message about something else is added.
LEMMA WordQueued ==
  ASSUME NEW S, NEW q \in Seq(S), NEW m \in S, NEW M, m \notin M, NEW x, NEW v
  PROVE  /\ None(q, M) <=> None(Queue(q, m), M)
         /\ None(q, M) <=> None(QueueFirst(q, m), M)
         /\ Word(q, M, x, v) => Word(Queue(q, m), M, x, v)
         /\ Word(q, M, x, v) => Word(QueueFirst(q, m), M, x, v)
<1>n. Len(q) \in Nat
  OBVIOUS
<1>1. CASE Full(q)
  BY <1>1, QueueFacts, QueueFirstFacts
<1>2. CASE ~Full(q)
  <2> DEFINE b == Queue(q, m)
             f == QueueFirst(q, m)
  <2>1. /\ Len(b) = Len(q) + 1 /\ b[Len(q) + 1] = m
        /\ \A i \in 1 .. Len(q) : b[i] = q[i]
    BY <1>2, QueueFacts
  <2>2. /\ Len(f) = Len(q) + 1 /\ f[1] = m
        /\ \A i \in 2 .. Len(q) + 1 : f[i] = q[i - 1]
    BY <1>2, QueueFirstFacts
  <2> HIDE DEF b, f
  <2>3. \A i \in 1 .. Len(q) : i + 1 \in 2 .. Len(q) + 1 /\ f[i + 1] = q[i]
    BY <1>n, <2>2
  <2>4. None(q, M) <=> None(b, M)
    BY <1>n, <2>1 DEF None
  <2>5. None(q, M) <=> None(f, M)
    <3>1. None(q, M) => None(f, M)
      BY <1>n, <2>2 DEF None
    <3>2. None(f, M) => None(q, M)
      BY <1>n, <2>2, <2>3 DEF None
    <3> QED BY <3>1, <3>2
  <2>6. ASSUME LastIs(q, M, x) PROVE LastIs(b, M, x) /\ LastIs(f, M, x)
    <3>1. PICK i \in 1 .. Len(q) :
            q[i] \in M /\ q[i].arg = x /\ \A j \in i + 1 .. Len(q) : q[j] \notin M
      BY <2>6 DEF LastIs
    <3>2. LastIs(b, M, x)
      <4>1. i \in 1 .. Len(b) /\ b[i] \in M /\ b[i].arg = x
        BY <1>n, <2>1, <3>1
      <4>2. \A j \in i + 1 .. Len(b) : b[j] \notin M
        BY <1>n, <2>1, <3>1
      <4> QED BY <4>1, <4>2 DEF LastIs
    <3>3. LastIs(f, M, x)
      <4>1. i + 1 \in 1 .. Len(f) /\ f[i + 1] \in M /\ f[i + 1].arg = x
        BY <1>n, <2>2, <2>3, <3>1
      <4>2. \A j \in (i + 1) + 1 .. Len(f) : f[j] \notin M
        <5> SUFFICES ASSUME NEW j \in (i + 1) + 1 .. Len(f) PROVE f[j] \notin M
          OBVIOUS
        <5>1. j \in 2 .. Len(q) + 1 /\ j - 1 \in i + 1 .. Len(q)
          BY <1>n, <2>2
        <5> QED BY <2>2, <3>1, <5>1
      <4> QED BY <4>1, <4>2 DEF LastIs
    <3> QED BY <3>2, <3>3
  <2> QED BY <2>4, <2>5, <2>6 DEF Word, b, f
<1> QED BY <1>1, <1>2

\* A message about it is added at the end.
LEMMA WordNew ==
  ASSUME NEW S, NEW q \in Seq(S), NEW m \in S, NEW M, m \in M, ~Full(q)
  PROVE  LastIs(Queue(q, m), M, m.arg) /\ ~None(Queue(q, m), M)
<1>1. Len(q) \in Nat /\ Len(Queue(q, m)) = Len(q) + 1 /\ Queue(q, m)[Len(q) + 1] = m
  BY QueueFacts
<1> QED BY <1>1 DEF LastIs, None

\* What there is about it stays when any message is added.
LEMMA MoreIsSome ==
  ASSUME NEW S, NEW q \in Seq(S), NEW m \in S, NEW M, ~None(q, M)
  PROVE  ~None(Queue(q, m), M) /\ ~None(QueueFirst(q, m), M)
<1>1. CASE Full(q)
  BY <1>1, QueueFacts, QueueFirstFacts
<1>2. CASE ~Full(q)
  <2>1. PICK i \in 1 .. Len(q) : q[i] \in M
    BY DEF None
  <2>2. Len(q) \in Nat
    OBVIOUS
  <2>3. i \in 1 .. Len(Queue(q, m)) /\ Queue(q, m)[i] \in M
    <3>1. Len(Queue(q, m)) = Len(q) + 1 /\ Queue(q, m)[i] = q[i]
      BY <1>2, <2>1, QueueFacts
    <3>2. i \in 1 .. Len(Queue(q, m))
      BY <2>1, <2>2, <3>1
    <3> QED BY <2>1, <3>1, <3>2
  <2>4. i + 1 \in 1 .. Len(QueueFirst(q, m)) /\ QueueFirst(q, m)[i + 1] \in M
    <3>1. i + 1 \in 2 .. Len(q) + 1 /\ (i + 1) - 1 = i
      BY <2>2
    <3>2. /\ Len(QueueFirst(q, m)) = Len(q) + 1
          /\ QueueFirst(q, m)[i + 1] = q[(i + 1) - 1]
      BY <1>2, <3>1, QueueFirstFacts
    <3> QED BY <2>1, <2>2, <3>1, <3>2
  <2> QED BY <2>3, <2>4 DEF None
<1> QED BY <1>1, <1>2

\* The first message is taken.
LEMMA WordTaken ==
  ASSUME NEW S, NEW q \in Seq(S), q # <<>>, NEW M, NEW x, NEW v
  PROVE  /\ Head(q) \notin M => (None(q, M) <=> None(Tail(q), M))
         /\ Head(q) \notin M /\ Word(q, M, x, v) => Word(Tail(q), M, x, v)
         /\ Head(q) \in M => ~None(q, M)
         /\ Head(q) \in M /\ Word(q, M, x, v) => Word(Tail(q), M, x, Head(q).arg)
         /\ Head(q) \in M /\ ~None(Tail(q), M) /\ Word(q, M, x, v) => LastIs(Tail(q), M, x)
<1> DEFINE t == Tail(q)
<1>1. /\ Head(q) = q[1] /\ t \in Seq(S) /\ Len(q) \in Nat \ {0} /\ Len(t) = Len(q) - 1
      /\ \A i \in 1 .. Len(t) : t[i] = q[i + 1]
  BY TailFacts
<1> HIDE DEF t
<1>2. Len(t) \in Nat /\ 1 \in 1 .. Len(q)
  BY <1>1
<1>3. \A i \in 2 .. Len(q) : i - 1 \in 1 .. Len(t) /\ t[i - 1] = q[i]
  BY <1>1, <1>2
<1>4. Head(q) \notin M => (None(q, M) <=> None(t, M))
  <2>1. None(q, M) => None(t, M)
    BY <1>1, <1>2 DEF None
  <2>2. Head(q) \notin M /\ None(t, M) => None(q, M)
    <3> SUFFICES ASSUME Head(q) \notin M, None(t, M), NEW i \in 1 .. Len(q) PROVE q[i] \notin M
      BY DEF None
    <3>1. CASE i = 1
      BY <1>1, <3>1
    <3>2. CASE i # 1
      BY <1>1, <1>3, <3>2 DEF None
    <3> QED BY <3>1, <3>2
  <2> QED BY <2>1, <2>2
<1>5. Head(q) \in M => ~None(q, M)
  BY <1>1, <1>2 DEF None
<1>6. ASSUME LastIs(q, M, x), ~LastIs(t, M, x)
      PROVE  Head(q) \in M /\ Head(q).arg = x /\ None(t, M)
  <2>1. PICK i \in 1 .. Len(q) :
          q[i] \in M /\ q[i].arg = x /\ \A j \in i + 1 .. Len(q) : q[j] \notin M
    BY <1>6 DEF LastIs
  <2>2. i = 1
    <3> SUFFICES ASSUME i # 1 PROVE FALSE
      OBVIOUS
    <3>1. i - 1 \in 1 .. Len(t) /\ t[i - 1] \in M /\ t[i - 1].arg = x
      BY <1>1, <1>3, <2>1
    <3>2. \A j \in (i - 1) + 1 .. Len(t) : t[j] \notin M
      BY <1>1, <1>2, <2>1
    <3> QED BY <1>6, <3>1, <3>2 DEF LastIs
  <2>3. None(t, M)
    BY <1>1, <1>2, <2>1, <2>2 DEF None
  <2> QED BY <1>1, <2>1, <2>2, <2>3
<1> QED BY <1>4, <1>5, <1>6 DEF Word, t


\* Messages of other kinds come and go.
LEMMA UpOfOthers ==
  ASSUME Typed, NEW K, UpBy(K), NEW M, \A m \in M : m.kind \notin K, NEW n \in Nodes
  PROVE  /\ None(up[n], M) <=> None(up'[n], M)
         /\ \A x, v : Word(up[n], M, x, v) => Word(up'[n], M, x, v)
<1>t. up \in [Nodes -> Seq(UpMsgs)]
  BY DEF Typed
<1>1. CASE up'[n] = up[n]
  BY <1>1
<1>2. ASSUME NEW m \in UpMsgs, m.kind \in K, UpAdds(n, m)
      PROVE  /\ None(up[n], M) <=> None(up'[n], M)
             /\ \A x, v : Word(up[n], M, x, v) => Word(up'[n], M, x, v)
  <2>1. m \notin M
    BY <1>2
  <2>2. up'[n] = Queue(up[n], m) \/ up'[n] = QueueFirst(up[n], m)
    BY <1>t, <1>2 DEF UpAdds
  <2>3. up[n] \in Seq(UpMsgs)
    BY <1>t
  <2>4. /\ None(up[n], M) <=> None(Queue(up[n], m), M)
        /\ None(up[n], M) <=> None(QueueFirst(up[n], m), M)
        /\ \A x, v : Word(up[n], M, x, v) => Word(Queue(up[n], m), M, x, v)
        /\ \A x, v : Word(up[n], M, x, v) => Word(QueueFirst(up[n], m), M, x, v)
    BY <2>1, <2>3, WordQueued
  <2> QED BY <2>2, <2>4
<1>3. ASSUME UpTakes(n), Head(up[n]).kind \in K
      PROVE  /\ None(up[n], M) <=> None(up'[n], M)
             /\ \A x, v : Word(up[n], M, x, v) => Word(up'[n], M, x, v)
  <2>1. Head(up[n]) \notin M /\ up[n] \in Seq(UpMsgs) /\ up[n] # <<>> /\ up'[n] = Tail(up[n])
    BY <1>t, <1>3 DEF UpTakes
  <2>2. /\ None(up[n], M) <=> None(Tail(up[n]), M)
        /\ \A x, v : Word(up[n], M, x, v) => Word(Tail(up[n]), M, x, v)
    BY <2>1, WordTaken
  <2> QED BY <2>1, <2>2
<1>4. \/ up'[n] = up[n]
      \/ \E m \in UpMsgs : m.kind \in K /\ UpAdds(n, m)
      \/ UpTakes(n) /\ Head(up[n]).kind \in K
  BY <1>t DEF UpBy, UpAdds, UpTakes
<1> QED BY <1>1, <1>2, <1>3, <1>4

LEMMA TxOfOthers ==
  ASSUME Typed, NEW K, TxBy(K), NEW M, \A m \in M : m.kind \notin K, NEW s \in Roots
  PROVE  /\ None(tx[s], M) <=> None(tx'[s], M)
         /\ \A x, v : Word(tx[s], M, x, v) => Word(tx'[s], M, x, v)
<1>t. tx \in [Roots -> Seq(DownMsgs)]
  BY DEF Typed
<1>1. CASE tx'[s] = tx[s]
  BY <1>1
<1>2. ASSUME NEW m \in DownMsgs, m.kind \in K, TxAdds(s, m)
      PROVE  /\ None(tx[s], M) <=> None(tx'[s], M)
             /\ \A x, v : Word(tx[s], M, x, v) => Word(tx'[s], M, x, v)
  <2>1. m \notin M
    BY <1>2
  <2>2. tx'[s] = Queue(tx[s], m) \/ tx'[s] = QueueFirst(tx[s], m)
    BY <1>t, <1>2 DEF TxAdds
  <2>3. tx[s] \in Seq(DownMsgs)
    BY <1>t
  <2>4. /\ None(tx[s], M) <=> None(Queue(tx[s], m), M)
        /\ None(tx[s], M) <=> None(QueueFirst(tx[s], m), M)
        /\ \A x, v : Word(tx[s], M, x, v) => Word(Queue(tx[s], m), M, x, v)
        /\ \A x, v : Word(tx[s], M, x, v) => Word(QueueFirst(tx[s], m), M, x, v)
    BY <2>1, <2>3, WordQueued
  <2> QED BY <2>2, <2>4
<1>3. ASSUME TxTakes(s), Head(tx[s]).kind \in K
      PROVE  /\ None(tx[s], M) <=> None(tx'[s], M)
             /\ \A x, v : Word(tx[s], M, x, v) => Word(tx'[s], M, x, v)
  <2>1. Head(tx[s]) \notin M /\ tx[s] \in Seq(DownMsgs) /\ tx[s] # <<>> /\ tx'[s] = Tail(tx[s])
    BY <1>t, <1>3 DEF TxTakes
  <2>2. /\ None(tx[s], M) <=> None(Tail(tx[s]), M)
        /\ \A x, v : Word(tx[s], M, x, v) => Word(Tail(tx[s]), M, x, v)
    BY <2>1, WordTaken
  <2> QED BY <2>1, <2>2
<1>4. \/ tx'[s] = tx[s]
      \/ \E m \in DownMsgs : m.kind \in K /\ TxAdds(s, m)
      \/ TxTakes(s) /\ Head(tx[s]).kind \in K
  BY <1>t DEF TxBy, TxAdds, TxTakes
<1> QED BY <1>1, <1>2, <1>3, <1>4

-----------------------------------------------------------------------------
(* What the nodes say is true of them *)

HonestInv == \A n \in Nodes : None(up[n], Lies(n))

LEMMA NextHonest ==
  ASSUME Typed, HonestInv, [Next]_vars
  PROVE  HonestInv'
<1>t. up \in [Nodes -> Seq(UpMsgs)]
  BY DEF Typed
<1>1. ASSUME NEW n \in Nodes, Update(n) PROVE HonestInv'
  <2>1. up'[n] = <<Up("type", Kind(n))>> /\ \A k \in Nodes : k # n => up'[k] = up[k]
    BY <1>1, <1>t, UpUpdate
  <2>2. None(<<Up("type", Kind(n))>>, Lies(n))
    BY <1>1, UpUpdate DEF None
  <2>3. ASSUME NEW k \in Nodes PROVE None(up'[k], Lies(k))
    BY <2>1, <2>2 DEF HonestInv
  <2> QED BY <2>3 DEF HonestInv, None, Lies
<1>2. ASSUME NEW K, UpBy(K) PROVE HonestInv'
  <2>1. ASSUME NEW k \in Nodes PROVE None(up'[k], Lies(k))
    <3>1. CASE up'[k] = up[k]
      BY <3>1 DEF HonestInv
    <3>2. ASSUME NEW m \in UpMsgs, m \notin Lies(k), UpAdds(k, m) PROVE None(up'[k], Lies(k))
      <4>1. None(Queue(up[k], m), Lies(k)) /\ None(QueueFirst(up[k], m), Lies(k))
        <5>1. up[k] \in Seq(UpMsgs) /\ None(up[k], Lies(k))
          BY <1>t DEF HonestInv
        <5> QED BY <3>2, <5>1, WordQueued
      <4> QED BY <1>t, <3>2, <4>1 DEF UpAdds
    <3>3. ASSUME UpTakes(k) PROVE None(up'[k], Lies(k))
      <4>1. /\ up[k] \in Seq(UpMsgs) /\ up[k] # <<>> /\ None(up[k], Lies(k))
            /\ up'[k] = Tail(up[k])
        BY <1>t, <3>3 DEF HonestInv, UpTakes
      <4> QED BY <4>1, WordTaken
    <3> QED BY <1>2, <1>t, <3>1, <3>2, <3>3 DEF UpBy, UpAdds, UpTakes
  <2> QED BY <2>1 DEF HonestInv, None, Lies
<1> QED BY <1>1, <1>2, NextUp

LEMMA Honest ==
  ASSUME Typed, HonestInv, NEW n \in Nodes, up[n] # <<>>
  PROVE  /\ Head(up[n]).kind = "type" => Head(up[n]).arg = Kind(n)
         /\ Head(up[n]).kind = "state" => Board[Head(up[n]).arg.of] = n
<1>1. up[n] \in Seq(UpMsgs) /\ Head(up[n]) \in UpMsgs
  BY Heads
<1>2. Head(up[n]) \notin Lies(n)
  BY <1>1, WordTaken DEF HonestInv
<1> QED BY <1>1, <1>2 DEF Lies

-----------------------------------------------------------------------------
(* The states on their way to the backend *)

StateMsgs(o) == {m \in UpMsgs : m.kind = "state" /\ m.arg.of = o}

\* No task of its relay is reporting the output.
Quiet(o) == \A t \in Tasks : o \notin todo[t]

\* Unless the last report of an output was lost or not the newest, or another is due,
\* the last one on its way tells its state, or there is none and the backend knows it.
StateInv ==
  \A o \in Outputs : o \notin stale /\ Quiet(o) =>
    Word(up[Board[o]], StateMsgs(o), [of |-> o, state |-> out[o]], [of |-> o, state |-> states[o]])

LEMMA WaitingIsSome ==
  ASSUME NEW q \in Seq(UpMsgs), NEW o
  PROVE  Waiting(q, o) <=> ~None(q, StateMsgs(o))
<1>1. DOMAIN q = 1 .. Len(q)
  OBVIOUS
<1>2. \A i \in 1 .. Len(q) : q[i] \in UpMsgs
  BY ElementOfSeq
<1> QED BY <1>1, <1>2 DEF Waiting, None, StateMsgs

LEMMA InitStates == Init => HonestInv /\ StateInv
  BY DEF Init, HonestInv, StateInv, None
\* Steps with no state in them, or about outputs that are still to be reported.
LEMMA StateKept ==
  ASSUME Typed, StateInv, NEW K, UpBy(K), "state" \notin K,
         \A o \in Outputs : o \notin stale' /\ Quiet(o)' =>
           o \notin stale /\ Quiet(o) /\ out'[o] = out[o] /\ states'[o] = states[o]
  PROVE  StateInv'
<1> SUFFICES ASSUME NEW o \in Outputs, o \notin stale', Quiet(o)'
             PROVE  Word(up'[Board[o]], StateMsgs(o), [of |-> o, state |-> out'[o]],
                         [of |-> o, state |-> states'[o]])
  BY DEF StateInv
<1>1. /\ o \notin stale /\ Quiet(o) /\ out'[o] = out[o] /\ states'[o] = states[o]
      /\ Board[o] \in Nodes
  BY Constants
<1>2. Word(up[Board[o]], StateMsgs(o), [of |-> o, state |-> out[o]], [of |-> o, state |-> states[o]])
  BY <1>1 DEF StateInv
<1>3. \A m \in StateMsgs(o) : m.kind \notin K
  BY DEF StateMsgs
<1>4. \A x, v : Word(up[Board[o]], StateMsgs(o), x, v) => Word(up'[Board[o]], StateMsgs(o), x, v)
  BY <1>1, <1>3, UpOfOthers
<1> QED BY <1>1, <1>2, <1>4

\* A report.
LEMMA ReportKnown ==
  ASSUME Typed, StateInv, NEW t \in Tasks, NEW s \in seen[t], Report(t, s)
  PROVE  StateInv'
<1> DEFINE b == Board[s.of]
           m == Up("state", s)
<1>t. /\ up \in [Nodes -> Seq(UpMsgs)] /\ todo \in [Tasks -> SUBSET Outputs]
      /\ s \in StateArgs /\ s.of \in Outputs /\ b \in Nodes /\ m \in UpMsgs
  <2>1. s \in StateArgs
    BY DEF Typed
  <2> QED BY <2>1, UpActions, UpMade DEF Typed
<1>1. /\ up' = [up EXCEPT ![b] = Queue(up[b], m)] /\ UNCHANGED <<out, states>>
      /\ todo' = [todo EXCEPT ![t] = todo[t] \ {s.of}]
  BY DEF Report, deviceVars
<1> SUFFICES ASSUME NEW o \in Outputs, o \notin stale', Quiet(o)'
             PROVE  Word(up'[Board[o]], StateMsgs(o), [of |-> o, state |-> out'[o]],
                         [of |-> o, state |-> states'[o]])
  BY DEF StateInv
<1>b. Board[o] \in Nodes /\ up[Board[o]] \in Seq(UpMsgs) /\ up[b] \in Seq(UpMsgs)
  BY <1>t, Constants
<1>2. CASE o = s.of
  <2>1. s.state = out[o] /\ ~Full(up[b])
    BY <1>2 DEF Report
  <2>2. s = [of |-> o, state |-> out[o]]
    BY <1>t, <1>2, <2>1 DEF StateArgs
  <2>3. m \in StateMsgs(o) /\ m.arg = s
    BY <1>t, <1>2 DEF StateMsgs, Up
  <2> HIDE DEF m
  <2>4. LastIs(Queue(up[b], m), StateMsgs(o), m.arg)
    BY <1>t, <1>b, <2>1, <2>3, WordNew
  <2>5. up'[Board[o]] = Queue(up[b], m)
    BY <1>1, <1>2, <1>t
  <2> QED BY <1>1, <2>2, <2>3, <2>4, <2>5 DEF Word
<1>3. CASE o # s.of
  <2>1. o \notin stale /\ Quiet(o)
    <3>1. stale' = stale \ {s.of} \/ stale' = stale \cup {s.of}
      BY DEF Report
    <3>2. \A u \in Tasks : o \in todo[u] => o \in todo'[u]
      BY <1>t, <1>1, <1>3
    <3> QED BY <1>3, <3>1, <3>2 DEF Quiet
  <2>2. Word(up[Board[o]], StateMsgs(o), [of |-> o, state |-> out[o]], [of |-> o, state |-> states[o]])
    BY <2>1 DEF StateInv
  <2>3. m \notin StateMsgs(o)
    BY <1>3 DEF StateMsgs, Up
  <2> HIDE DEF m, b
  <2>4. \A x, v : Word(up[Board[o]], StateMsgs(o), x, v)
                    => Word(Queue(up[Board[o]], m), StateMsgs(o), x, v)
    BY <1>t, <1>b, <2>3, WordQueued
  <2>5. up'[Board[o]] = up[Board[o]] \/ up'[Board[o]] = Queue(up[Board[o]], m)
    BY <1>1, <1>t, <1>b
  <2> QED BY <1>1, <2>2, <2>4, <2>5
<1> QED BY <1>2, <1>3

\* A state on its way is taken by the root, or lost.
LEMMA StateTaken ==
  ASSUME Typed, HonestInv, StateInv, NEW n \in Nodes, UpTakes(n), Head(up[n]).kind = "state",
         UNCHANGED <<out, todo>>,
         \/ LostState(Head(up[n]).arg.of) /\ UNCHANGED states
         \/ /\ states' = [states EXCEPT ![Head(up[n]).arg.of] = Head(up[n]).arg.state]
            /\ UNCHANGED stale
  PROVE  StateInv'
<1> DEFINE a == Head(up[n]).arg
<1>t. /\ up \in [Nodes -> Seq(UpMsgs)] /\ states \in [Outputs -> States]
      /\ up[n] \in Seq(UpMsgs) /\ up[n] # <<>> /\ Head(up[n]) \in UpMsgs
  BY Heads DEF Typed, UpTakes
<1>a. a \in StateArgs /\ a.of \in Outputs /\ Board[a.of] = n
  BY <1>t, UpKinds, Honest
<1>1. up' = [up EXCEPT ![n] = Tail(up[n])]
  BY DEF UpTakes
<1> SUFFICES ASSUME NEW o \in Outputs, o \notin stale', Quiet(o)'
             PROVE  Word(up'[Board[o]], StateMsgs(o), [of |-> o, state |-> out'[o]],
                         [of |-> o, state |-> states'[o]])
  BY DEF StateInv
<1>2. Quiet(o) /\ o \notin stale /\ Board[o] \in Nodes
  BY Constants DEF Quiet, LostState
<1>3. Word(up[Board[o]], StateMsgs(o), [of |-> o, state |-> out[o]], [of |-> o, state |-> states[o]])
  BY <1>2 DEF StateInv
<1>4. CASE Board[o] # n
  <2>1. up'[Board[o]] = up[Board[o]] /\ states'[o] = states[o] /\ out' = out
    BY <1>t, <1>a, <1>1, <1>2, <1>4
  <2> QED BY <1>3, <2>1
<1>5. CASE Board[o] = n /\ o # a.of
  <2>1. Head(up[n]) \notin StateMsgs(o)
    BY <1>5 DEF StateMsgs
  <2>2. Word(Tail(up[n]), StateMsgs(o), [of |-> o, state |-> out[o]], [of |-> o, state |-> states[o]])
    BY <1>t, <1>3, <1>5, <2>1, WordTaken
  <2>3. up'[Board[o]] = Tail(up[n]) /\ states'[o] = states[o] /\ out' = out
    BY <1>t, <1>1, <1>5
  <2> QED BY <2>2, <2>3
<1>6. CASE o = a.of
  <2>1. Head(up[n]) \in StateMsgs(o)
    BY <1>t, <1>6 DEF StateMsgs
  <2>2. up'[Board[o]] = Tail(up[n]) /\ out' = out
    BY <1>t, <1>1, <1>a, <1>6
  <2>3. CASE states' = [states EXCEPT ![a.of] = a.state]
    <3>1. a = [of |-> o, state |-> states'[o]]
      BY <1>t, <1>a, <1>6, <2>3 DEF StateArgs
    <3>2. Word(Tail(up[n]), StateMsgs(o), [of |-> o, state |-> out[o]], a)
      BY <1>t, <1>3, <1>a, <1>6, <2>1, WordTaken
    <3> QED BY <2>2, <3>1, <3>2
  <2>4. CASE LostState(a.of) /\ UNCHANGED states
    <3>1. Waiting(up'[Board[o]], o)
      BY <1>6, <2>4 DEF LostState
    <3>2. Tail(up[n]) \in Seq(UpMsgs)
      BY <1>t, TailFacts
    <3>3. ~None(Tail(up[n]), StateMsgs(o))
      BY <2>2, <3>1, <3>2, WaitingIsSome
    <3>4. LastIs(Tail(up[n]), StateMsgs(o), [of |-> o, state |-> out[o]])
      BY <1>t, <1>3, <1>a, <1>6, <2>1, <3>3, WordTaken
    <3> QED BY <2>2, <3>4 DEF Word
  <2> QED BY <2>3, <2>4
<1> QED BY <1>4, <1>5, <1>6

\* A relay starts with new firmware.
LEMMA UpdateKnown ==
  ASSUME Typed, StateInv, NEW n \in Nodes, Update(n)
  PROVE  StateInv'
<1>t. /\ up \in [Nodes -> Seq(UpMsgs)] /\ todo \in [Tasks -> SUBSET Outputs]
      /\ up' = [up EXCEPT ![n] = <<Up("type", Kind(n))>>] /\ states' = states
      /\ todo' = [t \in Tasks |-> todo[t] \ OutputsOf(n)]
      /\ \A o \in Outputs \ OutputsOf(n) : out'[o] = out[o]
  BY DEF Typed, Update, deviceVars
<1> SUFFICES ASSUME NEW o \in Outputs, o \notin stale', Quiet(o)'
             PROVE  Word(up'[Board[o]], StateMsgs(o), [of |-> o, state |-> out'[o]],
                         [of |-> o, state |-> states'[o]])
  BY DEF StateInv
<1>b. Board[o] \in Nodes /\ up[Board[o]] \in Seq(UpMsgs)
  BY <1>t, Constants
<1>1. o \notin stale
  BY DEF Update
<1>2. CASE Board[o] = n
  <2>1. out'[o] = out[o] /\ ~Waiting(up[n], o) /\ Quiet(o)
    BY <1>2 DEF Update, OutputsOf, Quiet
  <2>2. None(up[Board[o]], StateMsgs(o))
    BY <1>2, <1>b, <2>1, WaitingIsSome
  <2>3. out[o] = states[o]
    <3>1. [of |-> o, state |-> states[o]] = [of |-> o, state |-> out[o]]
      BY <1>1, <2>1, <2>2 DEF StateInv, Word, LastIs, None
    <3> QED BY <3>1
  <2>4. None(<<Up("type", Kind(n))>>, StateMsgs(o))
    BY DEF None, StateMsgs, Up
  <2>5. up'[Board[o]] = <<Up("type", Kind(n))>>
    BY <1>t, <1>2
  <2> QED BY <1>t, <2>1, <2>3, <2>4, <2>5 DEF Word
<1>3. CASE Board[o] # n
  <2>1. o \notin OutputsOf(n)
    BY <1>3 DEF OutputsOf
  <2>2. out'[o] = out[o] /\ Quiet(o)
    BY <1>t, <2>1 DEF Quiet
  <2>3. up'[Board[o]] = up[Board[o]]
    BY <1>t, <1>b, <1>3
  <2>4. Word(up[Board[o]], StateMsgs(o), [of |-> o, state |-> out[o]], [of |-> o, state |-> states[o]])
    BY <1>1, <2>2 DEF StateInv
  <2> QED BY <1>t, <2>2, <2>3, <2>4
<1> QED BY <1>2, <1>3

\* The backend starts again.
LEMMA BackendKnown ==
  ASSUME Typed, StateInv, NewBackend
  PROVE  StateInv'
<1>t. UNCHANGED <<up, out, todo>>
  BY DEF NewBackend, nodeVars, relayVars
<1> SUFFICES ASSUME NEW o \in Outputs, o \notin stale', Quiet(o)'
             PROVE  Word(up'[Board[o]], StateMsgs(o), [of |-> o, state |-> out'[o]],
                         [of |-> o, state |-> states'[o]])
  BY DEF StateInv
<1>1. /\ o \notin stale /\ Quiet(o) /\ Board[o] \in Nodes
      /\ o \in retained[Board[o]] \/ Waiting(up[Board[o]], o)
  BY <1>t, Constants DEF NewBackend, Quiet
<1>2. Word(up[Board[o]], StateMsgs(o), [of |-> o, state |-> out[o]], [of |-> o, state |-> states[o]])
  BY <1>1 DEF StateInv
<1>3. CASE o \in retained[Board[o]]
  <2>1. states'[o] = states[o]
    BY <1>3 DEF NewBackend, BackendRestart
  <2> QED BY <1>t, <1>2, <2>1
<1>4. CASE Waiting(up[Board[o]], o)
  <2>1. up[Board[o]] \in Seq(UpMsgs)
    BY <1>1 DEF Typed
  <2>2. ~None(up[Board[o]], StateMsgs(o))
    BY <1>4, <2>1, WaitingIsSome
  <2> QED BY <1>t, <1>2, <2>2 DEF Word
<1> QED BY <1>1, <1>3, <1>4

LEMMA NextKnown ==
  ASSUME Typed, HonestInv, StateInv, [Next]_vars
  PROVE  StateInv'
<1>t. todo \in [Tasks -> SUBSET Outputs] /\ out \in [Outputs -> OnOff]
  BY DEF Typed
<1>u. up' = up => UpBy({})
  BY DEF UpBy
<1>k. ASSUME NEW K, UpBy(K), "state" \notin K, UNCHANGED <<out, states, todo>>,
             \A o \in Outputs : o \in stale => o \in stale'
      PROVE  StateInv'
  <2>1. \A o \in Outputs : o \notin stale' /\ Quiet(o)' =>
          o \notin stale /\ Quiet(o) /\ out'[o] = out[o] /\ states'[o] = states[o]
    BY <1>k DEF Quiet
  <2> QED BY <1>k, <2>1, StateKept
<1>1. ASSUME NEW t \in Tasks, NEW s \in seen[t], Report(t, s) PROVE StateInv'
  BY <1>1, ReportKnown
<1>2. ASSUME NEW n \in Nodes, Update(n) PROVE StateInv'
  BY <1>2, UpdateKnown
<1>3. CASE NewBackend
  BY <1>3, BackendKnown
<1>4. ASSUME NEW n \in Nodes, HearState(n) PROVE StateInv'
  <2>1. UpTakes(n) /\ Head(up[n]).kind = "state" /\ UNCHANGED <<out, todo>>
    BY <1>4, UpActions DEF HearState, relayVars
  <2>2. \/ LostState(Head(up[n]).arg.of) /\ UNCHANGED states
        \/ /\ states' = [states EXCEPT ![Head(up[n]).arg.of] = Head(up[n]).arg.state]
           /\ UNCHANGED stale
    BY <1>4 DEF HearState, Content, UpdateState
  <2> QED BY <2>1, <2>2, StateTaken
<1>5. ASSUME NEW n \in Nodes, LoseUp(n) PROVE StateInv'
  <2>1. UpTakes(n) /\ UpBy({Head(up[n]).kind}) /\ UNCHANGED <<out, states, todo>>
    BY <1>5, UpActions DEF LoseUp, relayVars, deviceVars
  <2>2. Lost(Head(up[n]), n)
    BY <1>5 DEF LoseUp
  <2>3. CASE Head(up[n]).kind = "state"
    BY <2>1, <2>2, <2>3, StateTaken DEF Lost
  <2>4. CASE Head(up[n]).kind # "state"
    <3>1. stale' = stale
      BY <2>2, <2>4 DEF Lost
    <3> QED BY <1>k, <2>1, <2>4, <3>1
  <2> QED BY <2>3, <2>4
<1>6. ASSUME NEW o \in Outputs, TimerFires(o) PROVE StateInv'
  <2>1. /\ up' = up /\ UNCHANGED <<states, stale>>
        /\ out' = [out EXCEPT ![o] = "off"]
        /\ todo' = [todo EXCEPT !["timer"] = @ \cup {o}]
    BY <1>6 DEF TimerFires, history, deviceVars
  <2>2. \A p \in Outputs : p \notin stale' /\ Quiet(p)' =>
          p \notin stale /\ Quiet(p) /\ out'[p] = out[p] /\ states'[p] = states[p]
    BY <1>t, <2>1 DEF Quiet, Tasks
  <2> QED BY <1>u, <2>1, <2>2, StateKept
<1>7. ASSUME NEW s \in Roots, OnSwitchCommand(s) PROVE StateInv'
  <2>1. /\ up' = up /\ UNCHANGED <<states, stale>>
        /\ out' = [out EXCEPT ![Arg(s).of] = Arg(s).state]
        /\ todo' = [todo EXCEPT !["rx"] = @ \cup {Arg(s).of}]
    BY <1>7 DEF OnSwitchCommand, history, deviceVars
  <2>2. \A p \in Outputs : p \notin stale' /\ Quiet(p)' =>
          p \notin stale /\ Quiet(p) /\ out'[p] = out[p] /\ states'[p] = states[p]
    BY <1>t, <2>1 DEF Quiet, Tasks
  <2> QED BY <1>u, <2>1, <2>2, StateKept
<1>8. ASSUME NEW s \in Roots, OnSync(s) PROVE StateInv'
  <2>1. /\ up' = up /\ UNCHANGED <<states, stale, out>>
        /\ todo' = [todo EXCEPT !["rx"] = @ \cup OutputsOf(To(s))]
    BY <1>8 DEF OnSync, history, deviceVars
  <2>2. \A p \in Outputs : p \notin stale' /\ Quiet(p)' =>
          p \notin stale /\ Quiet(p) /\ out'[p] = out[p] /\ states'[p] = states[p]
    BY <1>t, <2>1 DEF Quiet, Tasks
  <2> QED BY <1>u, <2>1, <2>2, StateKept
<1>9. ASSUME NEW t \in Tasks, NEW o \in Outputs, Look(t, o) PROVE StateInv'
  <2>1. up' = up /\ UNCHANGED <<states, stale, out, todo>>
    BY <1>9 DEF Look, history, deviceVars
  <2> QED BY <1>u, <1>k, <2>1
<1>10. ASSUME NEW s \in Roots, OnTimeCommand(s) PROVE StateInv'
  <2>1. up' = up /\ UNCHANGED <<states, stale, out, todo>>
    BY <1>10 DEF OnTimeCommand, history, deviceVars
  <2> QED BY <1>u, <1>k, <2>1
<1>11. ASSUME NEW s \in Roots, OnUpdateOrder(s) \/ OnPing(s) \/ SendFails(s) PROVE StateInv'
  <2>1. UNCHANGED <<states, stale, out, todo>>
    <3>1. UNCHANGED relayVars /\ UNCHANGED states
      BY <1>11, RelayKept, StatesKept DEF Node
    <3>2. UNCHANGED stale
      BY <1>11, LossKept DEF Node
    <3> QED BY <3>1, <3>2 DEF relayVars
  <2>2. \E K : UpBy(K) /\ "state" \notin K
    BY <1>11, <1>u, UpActions, UpOthers
  <2> QED BY <1>k, <2>1, <2>2
<1>12. ASSUME NEW s \in Roots, LoseDown(s) PROVE StateInv'
  <2>1. up' = up /\ UNCHANGED <<states, out, todo>>
    BY <1>12 DEF LoseDown, nodeVars, relayVars, deviceVars
  <2>2. stale' = stale
    <3>1. Lost(Head(tx[s]), To(s))
      BY <1>12 DEF LoseDown
    <3>2. Head(tx[s]).kind # "state"
      BY <1>12, TxReceived, DownKinds
    <3> QED BY <3>1, <3>2 DEF Lost
  <2> QED BY <1>u, <1>k, <2>1, <2>2
<1>13. ASSUME NEW n \in Nodes, \/ Announce(n) \/ Status(n) \/ Gesture(n) \/ HearType(n) \/ HearStatus(n)
                               \/ HearPong(n) \/ EchoPong(n) \/ UpdateDevice(n) \/ Ping(n)
       PROVE  StateInv'
  <2>1. UNCHANGED <<states, out, todo>>
    <3>1. UNCHANGED relayVars
      BY <1>13, RelayKept DEF RootRx
    <3>2. UNCHANGED states
      BY <1>13, StatesKept
    <3> QED BY <3>1, <3>2 DEF relayVars
  <2>2. stale' = stale
    <3>1. HearType(n) => stale' = stale
      BY DEF HearType
    <3> QED BY <1>13, <3>1, LossKept
  <2>3. \E K : UpBy(K) /\ "state" \notin K
    BY <1>13, <1>u, UpActions, UpHeard, UpOthers
  <2> QED BY <1>k, <2>1, <2>2, <2>3
<1>14. ASSUME NEW r \in Relays, RelayCommand(r) PROVE StateInv'
  <2>1. UNCHANGED <<states, out, todo, stale, up>>
    BY <1>14 DEF RelayCommand, nodeVars, relayVars, deviceVars, history
  <2> QED BY <1>u, <1>k, <2>1
<1>15. ASSUME \/ UpdateSlot \/ UpdateEnd \/ AutoOffItem \/ PingItem \/ UpdateAll \/ AutoOff \/ PingAll
              \/ OutOfMemory \/ MemoryBack \/ MqttDown \/ MqttUp \/ UNCHANGED vars
       PROVE  StateInv'
  <2>1. UNCHANGED states /\ UNCHANGED stale /\ UNCHANGED relayVars /\ up' = up
    BY <1>15, StatesKept, LossKept, RelayKept, UpOthers
  <2> QED BY <1>u, <1>k, <2>1 DEF relayVars
<1>16. CASE RootChange
  <2>1. UNCHANGED <<states, out, todo, stale, up>>
    BY <1>16 DEF RootChange, nodeVars, relayVars, deviceVars
  <2> QED BY <1>u, <1>k, <2>1
<1> QED BY <1>1, <1>2, <1>3, <1>4, <1>5, <1>6, <1>7, <1>8, <1>9, <1>10, <1>11, <1>12, <1>13, <1>14,
           <1>15, <1>16 DEF Next, Node, Relay, RootRx, MqttTask

THEOREM StateHolds == Spec => [](Typed /\ HonestInv /\ StateInv)
<1>1. Init => Typed /\ HonestInv /\ StateInv
  BY InitTyped, InitStates
<1>2. Typed /\ HonestInv /\ StateInv /\ [Next]_vars => (Typed /\ HonestInv /\ StateInv)'
  BY NextTyped, NextHonest, NextKnown
<1> QED BY <1>1, <1>2, PTL DEF Spec

\* An output whose last report was not lost and none of whose reports is under way is
\* known to the backend, whatever the two tasks of its relay did to it meanwhile: reading
\* and queueing are two steps (relay_send_state_confirmation), and what is queued with an
\* older state, lost or forgotten is named by the history.
THEOREM StatesKnown == Spec => []StatesArrive
<1>1. Typed /\ StateInv => StatesArrive
  <2> SUFFICES ASSUME Typed, StateInv, NEW o \in Outputs, o \notin stale, Settled(o)
               PROVE  states[o] = out[o]
    BY DEF StatesArrive
  <2>1. up[Board[o]] \in Seq(UpMsgs) /\ Quiet(o) /\ ~Waiting(up[Board[o]], o)
    BY Constants DEF Typed, Settled, Quiet
  <2>2. None(up[Board[o]], StateMsgs(o))
    BY <2>1, WaitingIsSome
  <2>3. [of |-> o, state |-> states[o]] = [of |-> o, state |-> out[o]]
    BY <2>1, <2>2 DEF StateInv, Word, LastIs, None
  <2> QED BY <2>3
<1> QED BY <1>1, StateHolds, PTL

-----------------------------------------------------------------------------
(* What an announcement sets off *)

SyncMsgs(r) == {m \in DownMsgs : m.kind = "sync" /\ m.to = r}

\* An output whose relay announced itself is known by a report, is being reported, or
\* its relay is going to be asked for it.
SyncInv ==
  \A o \in greeted : o \notin stale \/ ~Quiet(o) \/ ~None(tx[root], SyncMsgs(Board[o]))

LEMMA SyncIsSome ==
  ASSUME NEW q \in Seq(DownMsgs), NEW r
  PROVE  None(q, SyncMsgs(r)) <=> \A i \in DOMAIN q : q[i].kind = "sync" => q[i].to # r
<1>1. DOMAIN q = 1 .. Len(q)
  OBVIOUS
<1>2. \A i \in 1 .. Len(q) : q[i] \in DownMsgs
  BY ElementOfSeq
<1> QED BY <1>1, <1>2 DEF None, SyncMsgs

\* A question to a relay stays where it is when another message comes or goes.
LEMMA SyncAdded ==
  ASSUME Typed, NEW m \in DownMsgs, TxAdds(root, m), NEW M, ~None(tx[root], M)
  PROVE  ~None(tx'[root], M)
<1>1. root \in Roots /\ tx[root] \in Seq(DownMsgs)
  BY DEF Typed
<1>2. ~None(Queue(tx[root], m), M) /\ ~None(QueueFirst(tx[root], m), M)
  BY <1>1, MoreIsSome
<1>3. tx'[root] = Queue(tx[root], m) \/ tx'[root] = QueueFirst(tx[root], m)
  BY <1>1 DEF TxAdds, Typed
<1> QED BY <1>2, <1>3

LEMMA SyncTaken ==
  ASSUME Typed, NEW s \in Roots, TxTakes(s), NEW r, Head(tx[s]).kind # "sync" \/ Head(tx[s]).to # r,
         ~None(tx[root], SyncMsgs(r))
  PROVE  ~None(tx'[root], SyncMsgs(r))
<1>1. root \in Roots /\ tx \in [Roots -> Seq(DownMsgs)] /\ tx[s] # <<>> /\ tx[s] \in Seq(DownMsgs)
  BY DEF Typed, TxTakes
<1>2. tx' = [tx EXCEPT ![s] = Tail(tx[s])]
  BY DEF TxTakes
<1>3. CASE s # root
  BY <1>1, <1>2, <1>3
<1>4. CASE s = root
  <2>1. Head(tx[s]) \notin SyncMsgs(r)
    BY DEF SyncMsgs
  <2>2. ~None(Tail(tx[s]), SyncMsgs(r))
    BY <1>1, <1>4, <2>1, WordTaken
  <2> QED BY <1>1, <1>2, <1>4, <2>2
<1> QED BY <1>3, <1>4

LEMMA NextGreeted ==
  ASSUME Typed, HonestInv, SyncInv, [Next]_vars
  PROVE  SyncInv'
<1>t. /\ tx \in [Roots -> Seq(DownMsgs)] /\ root \in Roots /\ todo \in [Tasks -> SUBSET Outputs]
      /\ tx[root] \in Seq(DownMsgs) /\ greeted \subseteq Outputs /\ greeted' \subseteq Outputs
  BY NextLoss DEF Typed
<1> SUFFICES ASSUME NEW o \in greeted'
             PROVE  o \notin stale' \/ ~Quiet(o)' \/ ~None(tx'[root'], SyncMsgs(Board[o]))
  BY DEF SyncInv
<1> DEFINE Good == o \notin stale' \/ ~Quiet(o)' \/ ~None(tx'[root'], SyncMsgs(Board[o]))
<1>o. o \in Outputs
  BY <1>t
<1>g. o \in greeted => o \notin stale \/ ~Quiet(o) \/ ~None(tx[root], SyncMsgs(Board[o]))
  BY DEF SyncInv
<1>q. ASSUME o \in greeted, o \in stale' => o \in stale, Quiet(o)' => Quiet(o),
             ~None(tx[root], SyncMsgs(Board[o])) => ~None(tx'[root'], SyncMsgs(Board[o])) \/ ~Quiet(o)'
      PROVE  Good
  BY <1>q, <1>g
<1>a. ASSUME NEW m \in DownMsgs, TxAdds(root, m), root' = root, ~None(tx[root], SyncMsgs(Board[o]))
      PROVE  ~None(tx'[root'], SyncMsgs(Board[o]))
  BY <1>a, SyncAdded
<1>b. ASSUME NEW K, TxBy(K), "sync" \notin K, root' = root, ~None(tx[root], SyncMsgs(Board[o]))
      PROVE  ~None(tx'[root'], SyncMsgs(Board[o]))
  <2>1. \A m \in SyncMsgs(Board[o]) : m.kind \notin K
    BY <1>b DEF SyncMsgs
  <2>2. None(tx[root], SyncMsgs(Board[o])) <=> None(tx'[root], SyncMsgs(Board[o]))
    BY <1>t, <1>b, <2>1, TxOfOthers
  <2> QED BY <1>b, <2>2
<1>c. ASSUME UNCHANGED <<tx, root>> \/ (root' = root /\ \E K : TxBy(K) /\ "sync" \notin K),
             o \in greeted, o \in stale' => o \in stale, Quiet(o)' => Quiet(o)
      PROVE  Good
  BY <1>b, <1>c, <1>q
<1> HIDE DEF Good
<1>1. ASSUME NEW t \in Tasks, NEW s \in seen[t], Report(t, s) PROVE Good
  <2>1. UNCHANGED <<tx, root>>
    BY <1>1, TxOthers
  <2>2. CASE o = s.of
    <3>1. o \notin stale'
      BY <1>1, <2>2 DEF Report
    <3> QED BY <3>1 DEF Good
  <2>3. CASE o # s.of
    <3>1. o \in greeted /\ (o \in stale' => o \in stale)
      BY <1>1, <2>3 DEF Report
    <3>2. Quiet(o)' => Quiet(o)
      <4>1. todo' = [todo EXCEPT ![t] = todo[t] \ {s.of}]
        BY <1>1 DEF Report
      <4> QED BY <1>t, <2>3, <4>1 DEF Quiet
    <3> QED BY <1>c, <2>1, <3>1, <3>2
  <2> QED BY <2>2, <2>3
<1>2. ASSUME NEW n \in Nodes, Update(n) PROVE Good
  <2>1. UNCHANGED <<tx, root>>
    BY <1>2, TxOthers
  <2>2. o \in greeted /\ o \notin OutputsOf(n)
    BY <1>2 DEF Update
  <2>3. o \in stale' => o \in stale
    BY <1>2, <2>2 DEF Update
  <2>4. Quiet(o)' => Quiet(o)
    BY <1>2, <2>2 DEF Update, Quiet
  <2> QED BY <1>c, <2>1, <2>2, <2>3, <2>4
<1>3. ASSUME NewBackend PROVE Good
  <2>1. UNCHANGED <<tx, root>> /\ UNCHANGED todo
    BY <1>3 DEF NewBackend, nodeVars, relayVars
  <2>2. o \in greeted /\ (o \in stale' => o \in stale)
    BY <1>3 DEF NewBackend
  <2>3. Quiet(o)' => Quiet(o)
    BY <2>1 DEF Quiet
  <2> QED BY <1>c, <2>1, <2>2, <2>3
<1>4. ASSUME NEW n \in Nodes, HearType(n) PROVE Good
  <2>1. root' = root /\ stale' = stale /\ todo' = todo
    BY <1>4 DEF HearType, relayVars
  <2>2. Quiet(o)' => Quiet(o)
    BY <2>1 DEF Quiet
  <2>3. Down("sync", n, "") \in DownMsgs
    BY DownMade
  <2>4. tx' = tx \/ TxAdds(root, Down("sync", n, ""))
    BY <1>4 DEF HearType, Send, TxAdds
  <2>5. CASE o \in greeted
    BY <1>a, <1>q, <2>1, <2>2, <2>3, <2>4, <2>5
  <2>6. CASE o \notin greeted
    <3>1. ~Full(tx[root]) /\ Board[o] = n /\ Send(Down("sync", n, ""))
      BY <1>4, <2>6 DEF HearType, OutputsOf
    <3>2. Down("sync", n, "") \in SyncMsgs(Board[o])
      BY <2>3, <3>1 DEF SyncMsgs, Down
    <3>3. ~None(Queue(tx[root], Down("sync", n, "")), SyncMsgs(Board[o]))
      BY <1>t, <2>3, <3>1, <3>2, WordNew
    <3>4. tx'[root'] = Queue(tx[root], Down("sync", n, ""))
      BY <1>t, <2>1, <3>1 DEF Send
    <3> QED BY <3>3, <3>4 DEF Good
  <2> QED BY <2>5, <2>6
<1>5. ASSUME NEW n \in Nodes, HearState(n) PROVE Good
  <2>1. UNCHANGED <<tx, root>> /\ UNCHANGED todo
    BY <1>5 DEF HearState, relayVars
  <2>2. o \in greeted /\ (o \in stale' => o \in stale)
    BY <1>5 DEF HearState, LostState
  <2>3. Quiet(o)' => Quiet(o)
    BY <2>1 DEF Quiet
  <2> QED BY <1>c, <2>1, <2>2, <2>3
<1>6. ASSUME NEW n \in Nodes, LoseUp(n) PROVE Good
  <2>1. UNCHANGED <<tx, root>> /\ UNCHANGED todo
    BY <1>6 DEF LoseUp, relayVars, rootVars
  <2>2. o \in greeted /\ (o \in stale' => o \in stale)
    BY <1>6 DEF LoseUp, Lost, LostState
  <2>3. Quiet(o)' => Quiet(o)
    BY <2>1 DEF Quiet
  <2> QED BY <1>c, <2>1, <2>2, <2>3
<1>7. ASSUME NEW s \in Roots, LoseDown(s) PROVE Good
  <2>1. root' = root /\ todo' = todo /\ Lost(Head(tx[s]), To(s)) /\ TxTakes(s)
    BY <1>7, TxReceived DEF LoseDown, nodeVars, relayVars
  <2>2. Head(tx[s]).kind # "state"
    BY <1>7, TxReceived, DownKinds
  <2>3. /\ o \in greeted /\ stale' = stale
        /\ Head(tx[s]).kind = "sync" => Board[o] # Head(tx[s]).to
    BY <1>o, <2>1, <2>2 DEF Lost, OutputsOf, To
  <2>4. Quiet(o)' => Quiet(o)
    BY <2>1 DEF Quiet
  <2>5. ~None(tx[root], SyncMsgs(Board[o])) => ~None(tx'[root], SyncMsgs(Board[o]))
    BY <2>1, <2>3, SyncTaken
  <2> QED BY <1>q, <2>1, <2>3, <2>4, <2>5
<1>8. ASSUME RootChange PROVE Good
  <2>1. UNCHANGED <<stale, todo>>
    BY <1>8 DEF RootChange, nodeVars, relayVars
  <2>2. /\ o \in greeted
        /\ \A i \in DOMAIN tx[root] : tx[root][i].kind = "sync" => tx[root][i].to # Board[o]
    BY <1>8 DEF RootChange
  <2>3. None(tx[root], SyncMsgs(Board[o]))
    BY <1>t, <2>2, SyncIsSome
  <2> QED BY <1>g, <2>1, <2>2, <2>3 DEF Quiet, Good
<1>9. ASSUME NEW s \in Roots, OnSync(s) PROVE Good
  <2>1. /\ root' = root /\ UNCHANGED <<stale, greeted>> /\ TxTakes(s)
        /\ todo' = [todo EXCEPT !["rx"] = @ \cup OutputsOf(To(s))]
    BY <1>9, TxReceived DEF OnSync, history
  <2>2. Quiet(o)' => Quiet(o)
    BY <1>t, <2>1 DEF Quiet, Tasks
  <2>3. CASE Board[o] = To(s)
    <3>1. o \in todo'["rx"]
      BY <1>o, <1>t, <2>1, <2>3 DEF OutputsOf, Tasks
    <3> QED BY <3>1 DEF Good, Quiet, Tasks
  <2>4. CASE Board[o] # To(s)
    <3>1. ~None(tx[root], SyncMsgs(Board[o])) => ~None(tx'[root], SyncMsgs(Board[o]))
      BY <2>1, <2>4, SyncTaken DEF To
    <3> QED BY <1>q, <2>1, <2>2, <3>1
  <2> QED BY <2>3, <2>4
<1>10. ASSUME NEW s \in Roots, OnSwitchCommand(s) PROVE Good
  <2>1. /\ root' = root /\ UNCHANGED <<stale, greeted>>
        /\ todo' = [todo EXCEPT !["rx"] = @ \cup {Arg(s).of}]
    BY <1>10 DEF OnSwitchCommand, history
  <2>2. Quiet(o)' => Quiet(o)
    BY <1>t, <2>1 DEF Quiet, Tasks
  <2>3. TxBy({"switch"})
    BY <1>10, TxNode
  <2> QED BY <1>c, <2>1, <2>2, <2>3
<1>11. ASSUME NEW p \in Outputs, TimerFires(p) PROVE Good
  <2>1. /\ UNCHANGED <<tx, root>> /\ UNCHANGED <<stale, greeted>>
        /\ todo' = [todo EXCEPT !["timer"] = @ \cup {p}]
    BY <1>11 DEF TimerFires, history, rootVars
  <2>2. Quiet(o)' => Quiet(o)
    BY <1>t, <2>1 DEF Quiet, Tasks
  <2> QED BY <1>c, <2>1, <2>2
<1>12. ASSUME NEW t \in Tasks, NEW p \in Outputs, Look(t, p) PROVE Good
  <2>1. UNCHANGED <<tx, root>> /\ UNCHANGED <<stale, greeted, todo>>
    BY <1>12 DEF Look, history, rootVars
  <2>2. Quiet(o)' => Quiet(o)
    BY <2>1 DEF Quiet
  <2> QED BY <1>c, <2>1, <2>2
<1>13. ASSUME NEW s \in Roots, OnTimeCommand(s) PROVE Good
  <2>1. root' = root /\ UNCHANGED <<stale, greeted, todo>>
    BY <1>13 DEF OnTimeCommand
  <2>2. Quiet(o)' => Quiet(o)
    BY <2>1 DEF Quiet
  <2>3. TxBy({"time"})
    BY <1>13, TxNode
  <2> QED BY <1>c, <2>1, <2>2, <2>3
<1>14. ASSUME NEW s \in Roots, OnUpdateOrder(s) \/ OnPing(s) \/ SendFails(s) PROVE Good
  <2>1. root' = root
    BY <1>14 DEF OnUpdateOrder, OnPing, SendFails
  <2>2. UNCHANGED <<stale, greeted>> /\ UNCHANGED relayVars
    BY <1>14, LossKept, RelayKept DEF Node
  <2>3. Quiet(o)' => Quiet(o)
    BY <2>2 DEF Quiet, relayVars
  <2>4. TxBy({"update"}) \/ TxBy({"ping"})
    BY <1>14, TxNode, TxReceived
  <2> QED BY <1>c, <2>1, <2>2, <2>3, <2>4
<1>15. ASSUME NEW n \in Nodes, \/ Announce(n) \/ Status(n) \/ Gesture(n) \/ HearStatus(n)
                               \/ HearPong(n) \/ EchoPong(n) \/ UpdateDevice(n) \/ Ping(n)
       PROVE  Good
  <2>1. UNCHANGED <<stale, greeted>> /\ UNCHANGED relayVars
    BY <1>15, LossKept, RelayKept DEF RootRx
  <2>2. Quiet(o)' => Quiet(o)
    BY <2>1 DEF Quiet, relayVars
  <2>3. UNCHANGED <<tx, root>> \/ (root' = root /\ \E K : TxBy(K) /\ "sync" \notin K)
    <3>1. HearPong(n) \/ EchoPong(n) \/ Ping(n) \/ UpdateDevice(n) => root' = root
      BY DEF HearPong, EchoPong, Ping, UpdateDevice
    <3> QED BY <1>15, <3>1, TxActions, TxOthers
  <2> QED BY <1>c, <2>1, <2>2, <2>3
<1>16. ASSUME NEW r \in Relays, RelayCommand(r) PROVE Good
  <2>1. /\ root' = root /\ UNCHANGED <<stale, greeted, todo>>
        /\ tx' = tx \/ \E m \in DownMsgs : TxAdds(root, m)
    <3>1. root' = root /\ UNCHANGED <<stale, greeted, todo>>
      BY <1>16 DEF RelayCommand, nodeVars, relayVars, history
    <3>2. CASE r \notin Registered
      BY <1>16, <3>1, <3>2 DEF RelayCommand
    <3>3. CASE r \in Registered
      <4>1. \/ \E p \in OutputsOf(r), state \in OnOff :
                 Send(Down("switch", r, [of |-> p, state |-> state]))
            \/ Send(Down("sync", r, ""))
        BY <1>16, <3>3 DEF RelayCommand
      <4>2. \A p \in OutputsOf(r), state \in OnOff : [of |-> p, state |-> state] \in StateArgs
        BY DEF StateArgs, OutputsOf
      <4>3. \E m \in DownMsgs : Send(m)
        BY <4>1, <4>2, DownMade, Constants
      <4> QED BY <3>1, <4>3 DEF Send, TxAdds
    <3> QED BY <3>2, <3>3
  <2>2. Quiet(o)' => Quiet(o)
    BY <2>1 DEF Quiet
  <2> QED BY <1>a, <1>q, <2>1, <2>2
<1>17. ASSUME \/ UpdateSlot \/ UpdateEnd \/ AutoOffItem \/ PingItem \/ UpdateAll \/ AutoOff \/ PingAll
              \/ OutOfMemory \/ MemoryBack \/ MqttDown \/ MqttUp \/ UNCHANGED vars
       PROVE  Good
  <2>1. UNCHANGED <<stale, greeted>> /\ UNCHANGED relayVars
    BY <1>17, LossKept, RelayKept
  <2>2. Quiet(o)' => Quiet(o)
    BY <2>1 DEF Quiet, relayVars
  <2>3. UNCHANGED <<tx, root>> \/ (root' = root /\ \E K : TxBy(K) /\ "sync" \notin K)
    <3>1. UpdateSlot \/ AutoOffItem \/ PingItem => root' = root
      BY DEF UpdateSlot, AutoOffItem, PingItem
    <3> QED BY <1>17, <3>1, TxActions, TxOthers
  <2> QED BY <1>c, <2>1, <2>2, <2>3
<1>18. Good
  BY <1>1, <1>2, <1>3, <1>4, <1>5, <1>6, <1>7, <1>8, <1>9, <1>10, <1>11, <1>12, <1>13, <1>14,
     <1>15, <1>16, <1>17 DEF Next, Node, Relay, RootRx, MqttTask
<1> QED BY <1>18 DEF Good

THEOREM GreetedHolds == Spec => [](Typed /\ HonestInv /\ StateInv /\ SyncInv)
<1>1. Init => SyncInv
  BY DEF Init, SyncInv
<1>2. Typed /\ HonestInv /\ SyncInv /\ [Next]_vars => SyncInv'
  BY NextGreeted
<1> QED BY <1>1, <1>2, StateHolds, NextTyped, PTL DEF Spec

\* Once a relay that announced itself has been asked and has sent its answers, the
\* backend knows the state of each of its outputs, unless one of them was lost, or read
\* before the other task changed the output and queued after.
THEOREM SyncsRepair == Spec => []SyncRepairs
<1>1. Typed /\ StateInv /\ SyncInv => SyncRepairs
  <2> SUFFICES ASSUME Typed, StateInv, SyncInv, NEW o \in greeted, Settled(o),
                      \A i \in DOMAIN tx[root] : tx[root][i].kind = "sync" => tx[root][i].to # Board[o]
               PROVE  states[o] = out[o]
    BY DEF SyncRepairs
  <2>1. tx[root] \in Seq(DownMsgs) /\ o \in Outputs
    BY DEF Typed
  <2>2. None(tx[root], SyncMsgs(Board[o]))
    BY <2>1, SyncIsSome
  <2>3. up[Board[o]] \in Seq(UpMsgs) /\ Quiet(o) /\ ~Waiting(up[Board[o]], o)
    BY <2>1, Constants DEF Typed, Settled, Quiet
  <2>4. o \notin stale
    BY <2>2, <2>3 DEF SyncInv
  <2>5. None(up[Board[o]], StateMsgs(o))
    BY <2>3, WaitingIsSome
  <2>6. [of |-> o, state |-> states[o]] = [of |-> o, state |-> out[o]]
    BY <2>1, <2>3, <2>4, <2>5 DEF StateInv, Word, LastIs, None
  <2> QED BY <2>6
<1> QED BY <1>1, GreetedHolds, PTL

-----------------------------------------------------------------------------
(* The orders to update *)

\* Nothing of M is in any queue, whatever is taken, and whatever else is added.
LEMMA NoneTaken ==
  ASSUME Typed, NEW M, \A r \in Roots : None(tx[r], M), NEW s \in Roots, TxTakes(s)
  PROVE  \A r \in Roots : None(tx'[r], M)
<1>t. tx \in [Roots -> Seq(DownMsgs)] /\ tx[s] \in Seq(DownMsgs) /\ tx[s] # <<>>
  BY DEF Typed, TxTakes
<1>1. Head(tx[s]) \notin M
  BY <1>t, WordTaken
<1>2. None(Tail(tx[s]), M)
  BY <1>t, <1>1, WordTaken
<1>3. tx' = [tx EXCEPT ![s] = Tail(tx[s])]
  BY DEF TxTakes
<1> QED BY <1>t, <1>2, <1>3

LEMMA NoneAdded ==
  ASSUME Typed, NEW M, \A r \in Roots : None(tx[r], M), NEW s \in Roots, NEW m \in DownMsgs, m \notin M,
         TxAdds(s, m)
  PROVE  \A r \in Roots : None(tx'[r], M)
<1>t. tx \in [Roots -> Seq(DownMsgs)] /\ tx[s] \in Seq(DownMsgs)
  BY DEF Typed
<1>1. None(Queue(tx[s], m), M) /\ None(QueueFirst(tx[s], m), M)
  BY <1>t, WordQueued
<1>2. \A r \in Roots : tx'[r] = tx[r] \/ tx'[r] = Queue(tx[s], m) \/ tx'[r] = QueueFirst(tx[s], m)
  BY <1>t DEF TxAdds
<1> QED BY <1>1, <1>2

LEMMA NoneOthers ==
  ASSUME Typed, NEW M, \A r \in Roots : None(tx[r], M), NEW K, TxBy(K), \A m \in M : m.kind \notin K
  PROVE  \A r \in Roots : None(tx'[r], M)
  BY TxOfOthers

LEMMA NoneRoot ==
  ASSUME Typed, NEW M, \A r \in Roots : None(tx[r], M), RootChange
  PROVE  \A r \in Roots : None(tx'[r], M)
<1>1. None(<<>>, M)
  BY DEF None
<1>2. \A r \in Roots : tx'[r] = tx[r] \/ tx'[r] = <<>>
  BY TxRootChange DEF Typed
<1> QED BY <1>1, <1>2

\* No order is under way for a kind that was not named, and no device wants to update
\* that was not named itself or by its kind.
Unnamed(kinds) == {m \in DownMsgs : m.kind = "update" /\ m.arg \notin kinds}

NamedInv ==
  /\ \A s \in Roots : None(tx[s], Unnamed(named))
  /\ job.kind = "update" => job.of \in named
  /\ \A n \in Nodes : wants[n] => Kind(n) \in named \/ n \in named

LEMMA NamedGrows == [Next]_vars => named \subseteq named'
<1>1. ASSUME NEW n \in Nodes, Gesture(n) \/ Update(n) \/ UpdateDevice(n) PROVE named \subseteq named'
  BY <1>1 DEF Gesture, Update, UpdateDevice
<1>2. ASSUME NEW s \in Roots, OnUpdateOrder(s) PROVE named \subseteq named'
  BY <1>2 DEF OnUpdateOrder, history
<1>3. UpdateAll => named \subseteq named'
  BY DEF UpdateAll
<1> QED BY <1>1, <1>2, <1>3, WantsKept DEF Next, Node, MqttTask

\* What becomes of the job, as the order for all devices sees it.
LEMMA OtherJob ==
  ASSUME Typed, UpdateEnd \/ AutoOff \/ AutoOffItem \/ PingAll \/ PingItem \/ RootChange
  PROVE  job'.kind # "update"
<1>1. Idle.kind # "update"
  BY DEF Idle
<1>2. CASE UpdateEnd \/ RootChange
  BY <1>1, <1>2 DEF UpdateEnd, RootChange
<1>3. CASE AutoOff
  <2>1. \E table \in Pushes : job' = [kind |-> "autoOff", todo |-> table, missing |-> {}]
    BY <1>3 DEF AutoOff
  <2> QED BY <2>1
<1>4. CASE PingAll
  <2>1. job' = Idle \/ job' = [kind |-> "ping", todo |-> registry]
    BY <1>4 DEF PingAll
  <2> QED BY <1>1, <2>1
<1>5. CASE AutoOffItem
  <2>1. job \in [kind : {"autoOff"}, todo : Seq(TimeItems) \ {<<>>}, missing : SUBSET Relays]
    BY <1>5 DEF AutoOffItem, Typed, JobTyped
  <2>2. \/ job' = Idle
        \/ \E missing : job' = [job EXCEPT !.todo = Tail(@), !.missing = missing]
    BY <1>5 DEF AutoOffItem, NextItem
  <2>3. job' # Idle => job'.kind = job.kind
    BY <2>1, <2>2
  <2> QED BY <1>1, <2>1, <2>3
<1>6. CASE PingItem
  <2>1. job \in [kind : {"ping"}, todo : Seq(Nodes) \ {<<>>}]
    BY <1>6 DEF PingItem, Typed, JobTyped
  <2>2. job' = Idle \/ job' = [job EXCEPT !.todo = Tail(@)]
    BY <1>6 DEF PingItem
  <2>3. job' # Idle => job'.kind = job.kind
    BY <2>1, <2>2
  <2> QED BY <1>1, <2>1, <2>3
<1> QED BY <1>2, <1>3, <1>4, <1>5, <1>6

LEMMA SlotJob ==
  ASSUME Typed, UpdateSlot
  PROVE  /\ job \in UpdateJobs /\ job.slot \in Nat \ {0} /\ job.ordered \in Seq(Nodes)
         /\ job.of \in Kinds /\ job.kind = "update"
         /\ job'.kind = "update" /\ job'.slot = job.slot + 1 /\ job'.of = job.of
         /\ job'.owed = job.owed /\ registry' = registry
         /\ \/ /\ job.slot > Len(registry)
               /\ job'.ordered = job.ordered /\ job'.missed = job.missed
            \/ /\ job.slot \in 1 .. Len(registry) /\ registry[job.slot] \in Nodes
               /\ \/ /\ job'.missed = job.missed \cup {registry[job.slot]}
                     /\ job'.ordered = job.ordered
                  \/ /\ job'.ordered = Append(job.ordered, registry[job.slot])
                     /\ job'.missed = job.missed
<1>1. job \in UpdateJobs /\ registry \in Seq(Nodes) /\ Len(registry) \in Nat
  BY DEF UpdateSlot, Typed, JobTyped
<1>2. /\ job.slot \in Nat \ {0} /\ job.ordered \in Seq(Nodes) /\ job.of \in Kinds
      /\ job.kind = "update"
  BY <1>1 DEF UpdateJobs
<1>3. registry' = registry
  BY DEF UpdateSlot
<1>4. CASE job.slot <= Len(registry)
  <2>1. job.slot \in 1 .. Len(registry) /\ registry[job.slot] \in Nodes
    <3>1. job.slot \in 1 .. Len(registry)
      BY <1>1, <1>2, <1>4
    <3> QED BY <1>1, <3>1
  <2>2. \/ job' = [job EXCEPT !.slot = @ + 1, !.missed = @ \cup {registry[job.slot]}]
        \/ job' = [job EXCEPT !.slot = @ + 1, !.ordered = Append(@, registry[job.slot])]
    BY <1>4 DEF UpdateSlot
  <2>3. CASE job' = [job EXCEPT !.slot = @ + 1, !.missed = @ \cup {registry[job.slot]}]
    BY <1>1, <1>2, <1>3, <2>1, <2>3 DEF UpdateJobs
  <2>4. CASE job' = [job EXCEPT !.slot = @ + 1, !.ordered = Append(@, registry[job.slot])]
    <3> DEFINE a == Append(job.ordered, registry[job.slot])
    <3>1. job' = [job EXCEPT !.slot = job.slot + 1, !.ordered = a]
      BY <2>4
    <3> HIDE DEF a
    <3>2. /\ job'.kind = job.kind /\ job'.slot = job.slot + 1 /\ job'.of = job.of
          /\ job'.owed = job.owed /\ job'.ordered = a /\ job'.missed = job.missed
      BY <1>1, <3>1 DEF UpdateJobs
    <3> QED BY <1>1, <1>2, <1>3, <2>1, <3>2 DEF a
  <2> QED BY <2>2, <2>3, <2>4
<1>5. CASE ~(job.slot <= Len(registry))
  <2>1. job' = [job EXCEPT !.slot = @ + 1]
    BY <1>5 DEF UpdateSlot
  <2>2. job.slot > Len(registry)
    BY <1>1, <1>2, <1>5
  <2> QED BY <1>1, <1>2, <1>3, <2>1, <2>2 DEF UpdateJobs
<1> QED BY <1>4, <1>5

LEMMA NamedTx ==
  ASSUME Typed, NamedInv, [Next]_vars
  PROVE  \A s \in Roots : None(tx'[s], Unnamed(named'))
<1> DEFINE M == Unnamed(named')
           Goal == \A s \in Roots : None(tx'[s], M)
<1>r. root \in Roots /\ registry \in Seq(Nodes)
  BY DEF Typed
<1>m. /\ \A m \in M : m.kind = "update"
      /\ \A m \in DownMsgs : m.kind = "update" /\ m.arg \in named' => m \notin M
  BY DEF Unnamed
<1>n. \A s \in Roots : None(tx[s], M)
  BY NamedGrows DEF NamedInv, None, Unnamed
<1> HIDE DEF M
<1>1. ASSUME NEW K, TxBy(K), "update" \notin K PROVE Goal
  BY <1>1, <1>m, <1>n, NoneOthers
<1>2. ASSUME NEW s \in Roots, TxTakes(s) PROVE Goal
  BY <1>2, <1>n, NoneTaken
<1>3. ASSUME UNCHANGED tx PROVE Goal
  BY <1>3, <1>n
<1>4. ASSUME NEW n \in Nodes \cup {Nowhere}, NEW k \in Kinds, k \in named',
             SendFirst(Down("update", n, k))
      PROVE  Goal
  <2>1. /\ Down("update", n, k) \in DownMsgs /\ Down("update", n, k).kind = "update"
        /\ Down("update", n, k).arg = k
    BY DownMade DEF Down
  <2>2. TxAdds(root, Down("update", n, k))
    BY <1>4 DEF SendFirst, TxAdds
  <2>3. Down("update", n, k) \notin M
    BY <1>4, <1>m, <2>1
  <2> QED BY <1>r, <1>n, <2>1, <2>2, <2>3, NoneAdded
<1> HIDE DEF Goal
<1>5. ASSUME NEW n \in Nodes, UpdateDevice(n) PROVE Goal
  <2>1. \E k \in Kinds : k \in named' /\ (SendFirst(Down("update", n, k)) \/ UNCHANGED tx)
    BY <1>5 DEF UpdateDevice
  <2> QED BY <1>3, <1>4, <2>1
<1>6. ASSUME UpdateSlot PROVE Goal
  <2>1. job.of \in Kinds /\ job.of \in named'
    BY <1>6, SlotJob, NamedGrows DEF NamedInv
  <2>2. \/ UNCHANGED tx
        \/ SendFirst(Down("update", Nowhere, job.of))
        \/ /\ job.slot \in 1 .. Len(registry)
           /\ SendFirst(Down("update", registry[job.slot], job.of))
    <3>1. job.slot \in Nat \ {0} /\ Len(registry) \in Nat
      BY <1>6, <1>r, SlotJob
    <3> QED BY <1>6, <3>1 DEF UpdateSlot
  <2>3. \A i \in 1 .. Len(registry) : registry[i] \in Nodes
    BY <1>r
  <2> QED BY <1>3, <1>4, <2>1, <2>2, <2>3
<1>7. ASSUME NEW s \in Roots, OnUpdateOrder(s) \/ SendFails(s) \/ LoseDown(s) PROVE Goal
  <2>1. TxTakes(s)
    BY <1>7, TxReceived DEF OnUpdateOrder, SendFails, TxTakes
  <2> QED BY <1>2, <2>1
<1>8. ASSUME RootChange PROVE Goal
  BY <1>8, <1>n, NoneRoot DEF Goal
<1>9. ASSUME NEW n \in Nodes, HearType(n) \/ HearPong(n) \/ EchoPong(n) \/ Ping(n) PROVE Goal
  <2>1. TxBy({"sync"}) \/ TxBy({"ping"})
    BY <1>9, TxActions
  <2> QED BY <1>1, <2>1
<1>10. ASSUME NEW r \in Relays, RelayCommand(r) PROVE Goal
  <2>1. TxBy({"switch", "sync"})
    BY <1>10, TxActions
  <2> QED BY <1>1, <2>1
<1>11. ASSUME AutoOffItem \/ PingItem PROVE Goal
  <2>1. TxBy({"time"}) \/ TxBy({"ping"})
    BY <1>11, TxActions
  <2> QED BY <1>1, <2>1
<1>12. ASSUME NEW s \in Roots, OnSync(s) \/ OnSwitchCommand(s) \/ OnTimeCommand(s) \/ OnPing(s)
       PROVE  Goal
  <2>1. TxBy({"sync"}) \/ TxBy({"switch"}) \/ TxBy({"time"}) \/ TxBy({"ping"})
    BY <1>12, TxNode
  <2> QED BY <1>1, <2>1
<1> QED BY <1>3, <1>5, <1>6, <1>7, <1>8, <1>9, <1>10, <1>11, <1>12, TxOthers
        DEF Next, Node, Relay, RootRx, MqttTask, Goal, M

LEMMA NextNamed ==
  ASSUME Typed, NamedInv, [Next]_vars
  PROVE  NamedInv'
<1> DEFINE Good == \A n \in Nodes : wants'[n] => Kind(n) \in named' \/ n \in named'
<1>1. job'.kind = "update" => job'.of \in named'
  <2>1. CASE UpdateAll
    BY <2>1 DEF UpdateAll
  <2>2. CASE UpdateSlot
    BY <2>2, SlotJob, NamedGrows DEF NamedInv
  <2>3. CASE UpdateEnd \/ AutoOff \/ AutoOffItem \/ PingAll \/ PingItem \/ RootChange
    BY <2>3, OtherJob
  <2>4. ASSUME job' = job PROVE job'.kind = "update" => job'.of \in named'
    BY <2>4, NamedGrows DEF NamedInv
  <2> QED BY <2>1, <2>2, <2>3, <2>4, JobKept DEF Next, MqttTask
<1>2. Good
  <2>1. ASSUME NEW n \in Nodes, Gesture(n) PROVE Good
    BY <2>1 DEF NamedInv, Gesture, Typed
  <2>2. ASSUME NEW n \in Nodes, Update(n) PROVE Good
    <3>1. wants' = [wants EXCEPT ![n] = FALSE] /\ wants \in [Nodes -> BOOLEAN]
      BY <2>2 DEF Update, Typed
    <3>2. \A p \in Nodes : wants'[p] => wants[p]
      BY <3>1, Zenon
    <3> QED BY <3>2, NamedGrows DEF NamedInv
  <2>3. ASSUME NEW s \in Roots, OnUpdateOrder(s) PROVE Good
    <3>1. Arg(s) \in named
      <4>1. TxTakes(s) /\ Head(tx[s]) \in DownMsgs /\ Head(tx[s]).kind = "update"
        BY <2>3, TxReceived DEF OnUpdateOrder
      <4>2. tx[s] \in Seq(DownMsgs) /\ tx[s] # <<>> /\ None(tx[s], Unnamed(named))
        BY <4>1 DEF Typed, NamedInv, TxTakes
      <4>3. Head(tx[s]) \notin Unnamed(named)
        BY <4>2, WordTaken
      <4> QED BY <4>1, <4>3 DEF Unnamed, Arg
    <3>2. \A n \in Nodes : wants'[n] => wants[n] \/ Arg(s) = Kind(n)
      <4>1. wants' = [wants EXCEPT ![To(s)] = wants[To(s)] \/ Arg(s) = Kind(To(s))]
            /\ wants \in [Nodes -> BOOLEAN]
        BY <2>3 DEF OnUpdateOrder, Typed
      <4> QED BY <4>1, Zenon
    <3> QED BY <3>1, <3>2, NamedGrows DEF NamedInv
  <2>4. ASSUME UNCHANGED wants PROVE Good
    BY <2>4, NamedGrows DEF NamedInv
  <2>5. ASSUME NEW n \in Nodes, UpdateDevice(n) PROVE UNCHANGED wants
    BY <2>5 DEF UpdateDevice, nodeVars
  <2>6. UpdateAll => UNCHANGED wants
    BY DEF UpdateAll, nodeVars
  <2> HIDE DEF Good
  <2> QED BY <2>1, <2>2, <2>3, <2>4, <2>5, <2>6, WantsKept DEF Next, Node, MqttTask
<1> QED BY <1>1, <1>2, NamedTx DEF NamedInv

\* While the MQTT task goes through the slots: it has gone past a node exactly if it has
\* queued the order for it, once, or was refused; and the nodes that were there at first
\* still are.
Distinct(q) == \A i, j \in 1 .. Len(q) : q[i] = q[j] => i = j
Has(q, n) == \E i \in 1 .. Len(q) : q[i] = n
Past(q, slot, n) == \E i \in 1 .. Len(q) : i < slot /\ q[i] = n

Going(q, slot, ordered, missed, owed) ==
  /\ \A j \in 1 .. Len(ordered) : Past(q, slot, ordered[j])
  /\ Distinct(ordered)
  /\ \A n \in missed : Past(q, slot, n) /\ ~Has(ordered, n)
  /\ \A n \in owed : Has(q, n) /\ (Past(q, slot, n) => n \in missed \/ Has(ordered, n))

OrderInv ==
  /\ Distinct(registry) /\ Len(registry) <= MaxNodes
  /\ job.kind = "update" => Going(registry, job.slot, job.ordered, job.missed, job.owed)

LEMMA RegisteredGoing ==
  ASSUME NEW q \in Seq(Nodes), NEW n \in Nodes, Distinct(q), ~Has(q, n)
  PROVE  /\ Distinct(Append(q, n)) /\ Len(Append(q, n)) = Len(q) + 1
         /\ \A slot, ordered, missed, owed :
              Going(q, slot, ordered, missed, owed) => Going(Append(q, n), slot, ordered, missed, owed)
<1> DEFINE r == Append(q, n)
<1>1. /\ Len(q) \in Nat /\ Len(r) = Len(q) + 1 /\ r[Len(q) + 1] = n
      /\ \A i \in 1 .. Len(q) : r[i] = q[i] /\ i \in 1 .. Len(r)
  OBVIOUS
<1> HIDE DEF r
<1>2. \A i \in 1 .. Len(r) : i \in 1 .. Len(q) \/ i = Len(q) + 1
  BY <1>1
<1>3. Distinct(r)
  BY <1>1, <1>2 DEF Distinct, Has
<1>4. ASSUME NEW slot, NEW ordered, NEW missed, NEW owed, Going(q, slot, ordered, missed, owed)
      PROVE  Going(r, slot, ordered, missed, owed)
  <2>1. \A p : (Has(q, p) => Has(r, p)) /\ (Past(q, slot, p) => Past(r, slot, p))
    BY <1>1, Zenon DEF Has, Past
  <2>2. \A p \in owed : Past(r, slot, p) => Past(q, slot, p)
    <3> SUFFICES ASSUME NEW p \in owed, Past(r, slot, p) PROVE Past(q, slot, p)
      OBVIOUS
    <3>1. PICK i \in 1 .. Len(r) : i < slot /\ r[i] = p
      BY DEF Past
    <3>2. p # n
      BY <1>4 DEF Going
    <3>3. i \in 1 .. Len(q) /\ q[i] = p
      BY <1>1, <1>2, <3>1, <3>2
    <3> QED BY <3>1, <3>3 DEF Past
  <2>3. \A j \in 1 .. Len(ordered) : Past(r, slot, ordered[j])
    BY <1>4, <2>1 DEF Going
  <2>4. \A p \in missed : Past(r, slot, p) /\ ~Has(ordered, p)
    BY <1>4, <2>1 DEF Going
  <2>5. \A p \in owed : Has(r, p) /\ (Past(r, slot, p) => p \in missed \/ Has(ordered, p))
    BY <1>4, <2>1, <2>2 DEF Going
  <2>6. Distinct(ordered)
    BY <1>4 DEF Going
  <2> QED BY <2>3, <2>4, <2>5, <2>6 DEF Going
<1> QED BY <1>1, <1>3, <1>4 DEF r

\* One turn of the loop.
LEMMA SlotGoing ==
  ASSUME NEW q \in Seq(Nodes), Distinct(q), NEW slot \in Nat \ {0}, NEW ordered \in Seq(Nodes),
         NEW missed, NEW owed, Going(q, slot, ordered, missed, owed)
  PROVE  /\ slot > Len(q) => Going(q, slot + 1, ordered, missed, owed)
         /\ slot \in 1 .. Len(q) =>
              /\ Going(q, slot + 1, ordered, missed \cup {q[slot]}, owed)
              /\ Going(q, slot + 1, Append(ordered, q[slot]), missed, owed)
<1>n. Len(q) \in Nat
  OBVIOUS
<1>1. ASSUME slot > Len(q) PROVE Going(q, slot + 1, ordered, missed, owed)
  <2>1. \A i \in 1 .. Len(q) : i < slot + 1 <=> i < slot
    BY <1>n, <1>1
  <2>2. \A n : Past(q, slot + 1, n) <=> Past(q, slot, n)
    BY <2>1 DEF Past
  <2> QED BY <2>2 DEF Going
<1>2. ASSUME slot \in 1 .. Len(q)
      PROVE  /\ Going(q, slot + 1, ordered, missed \cup {q[slot]}, owed)
             /\ Going(q, slot + 1, Append(ordered, q[slot]), missed, owed)
  <2> DEFINE n == q[slot]
             o == Append(ordered, n)
             k == Len(ordered)
  <2>1. n \in Nodes
    BY <1>2
  <2>2. \A p : Past(q, slot + 1, p) <=> Past(q, slot, p) \/ p = n
    <3>1. \A i \in 1 .. Len(q) : i < slot + 1 <=> i < slot \/ i = slot
      OBVIOUS
    <3> QED BY <1>2, <3>1 DEF Past
  <2>3. ~Past(q, slot, n)
    <3> SUFFICES ASSUME NEW i \in 1 .. Len(q), i < slot, q[i] = n PROVE FALSE
      BY DEF Past
    <3>1. i = slot
      BY <1>2 DEF Distinct
    <3> QED BY <3>1
  <2>4. /\ Len(o) = k + 1 /\ o[k + 1] = n /\ k \in Nat
        /\ \A j \in 1 .. k : o[j] = ordered[j] /\ j \in 1 .. Len(o)
    BY <2>1
  <2> HIDE DEF n, o, k
  <2>5. ~Has(ordered, n) /\ n \notin missed
    BY <2>3 DEF Has, Going
  <2>6. \A j \in 1 .. Len(o) : j \in 1 .. k \/ j = k + 1
    BY <2>4
  <2>7. \A p : Has(o, p) <=> Has(ordered, p) \/ p = n
    <3>1. k + 1 \in 1 .. Len(o)
      BY <2>4
    <3>2. \A p : Has(o, p) => Has(ordered, p) \/ p = n
      BY <2>4, <2>6 DEF Has, k
    <3>3. \A p : Has(ordered, p) => Has(o, p)
      BY <2>4, Zenon DEF Has, k
    <3>4. Has(o, n)
      BY <2>4, <3>1 DEF Has
    <3> QED BY <3>2, <3>3, <3>4
  <2>8. Distinct(o)
    <3>1. \A i, j \in 1 .. k : ordered[i] = ordered[j] => i = j
      BY DEF Going, Distinct, k
    <3>2. \A j \in 1 .. k : ordered[j] # n
      BY <2>5 DEF Has, k
    <3> QED BY <2>4, <2>6, <3>1, <3>2 DEF Distinct
  <2>9. Going(q, slot + 1, ordered, missed \cup {n}, owed)
    <3>1. \A j \in 1 .. Len(ordered) : Past(q, slot + 1, ordered[j])
      BY <2>2 DEF Going
    <3>2. \A p \in missed \cup {n} : Past(q, slot + 1, p) /\ ~Has(ordered, p)
      BY <2>2, <2>5 DEF Going
    <3>3. \A p \in owed : Has(q, p) /\ (Past(q, slot + 1, p) =>
                                          p \in missed \cup {n} \/ Has(ordered, p))
      BY <2>2 DEF Going
    <3> QED BY <3>1, <3>2, <3>3 DEF Going
  <2>10. Going(q, slot + 1, o, missed, owed)
    <3>1. \A j \in 1 .. Len(o) : Past(q, slot + 1, o[j])
      BY <2>2, <2>4, <2>6 DEF Going, k
    <3>2. \A p \in missed : Past(q, slot + 1, p) /\ ~Has(o, p)
      BY <2>2, <2>5, <2>7 DEF Going
    <3>3. \A p \in owed : Has(q, p) /\ (Past(q, slot + 1, p) => p \in missed \/ Has(o, p))
      BY <2>2, <2>7 DEF Going
    <3> QED BY <2>8, <3>1, <3>2, <3>3 DEF Going
  <2> QED BY <2>9, <2>10 DEF n, o
<1> QED BY <1>1, <1>2

LEMMA NextOrder ==
  ASSUME Typed, OrderInv, [Next]_vars
  PROVE  OrderInv'
<1>t. /\ registry \in Seq(Nodes) /\ Len(registry) \in Nat /\ DOMAIN registry = 1 .. Len(registry)
      /\ MaxNodes \in Nat
  BY Constants DEF Typed
<1>o. OrderInv
  OBVIOUS
<1>1. ASSUME UNCHANGED registry, job' = job \/ job'.kind # "update" PROVE OrderInv'
  <2>1. CASE job' = job
    BY <1>1, <2>1 DEF OrderInv
  <2>2. CASE job'.kind # "update"
    BY <1>1, <2>2 DEF OrderInv
  <2> QED BY <1>1, <2>1, <2>2
<1>2. ASSUME NEW n \in Nodes, RootRx(n) PROVE OrderInv'
  <2>1. registry' = Register(n) /\ job' = job
    BY <1>2, JobKept
  <2>2. CASE registry' = registry
    BY <2>1, <2>2 DEF OrderInv
  <2>3. CASE registry' # registry
    <3>1. n \notin Registered /\ Len(registry) < MaxNodes /\ registry' = Append(registry, n)
      <4>1. ~(n \in Registered \/ Len(registry) >= MaxNodes)
        BY <2>1, <2>3, Zenon DEF Register
      <4>2. registry' = Append(registry, n)
        BY <2>1, <4>1, Zenon DEF Register
      <4> QED BY <1>t, <4>1, <4>2
    <3>2. ~Has(registry, n)
      BY <1>t, <3>1 DEF Registered, Has
    <3>3. /\ Distinct(registry') /\ Len(registry') = Len(registry) + 1
          /\ job.kind = "update" => Going(registry', job.slot, job.ordered, job.missed, job.owed)
      BY <1>t, <3>1, <3>2, RegisteredGoing DEF OrderInv
    <3>4. Len(registry') <= MaxNodes
      BY <1>t, <3>1, <3>3
    <3> QED BY <2>1, <3>3, <3>4 DEF OrderInv
  <2> QED BY <2>2, <2>3
<1>3. CASE UpdateAll
  <2>1. /\ job'.kind = "update" /\ job'.slot = 1 /\ job'.ordered = <<>> /\ job'.missed = {}
        /\ job'.owed = Registered /\ UNCHANGED registry
    BY <1>3 DEF UpdateAll
  <2>2. \A n \in Registered : Has(registry, n)
    BY <1>t DEF Registered, Has
  <2>3. \A n : ~Past(registry, 1, n)
    BY <1>t DEF Past
  <2>4. Len(<<>>) = 0
    OBVIOUS
  <2>5. Going(registry, 1, <<>>, {}, Registered)
    BY <2>2, <2>3, <2>4 DEF Going, Distinct
  <2> QED BY <2>1, <2>5 DEF OrderInv
<1>4. CASE UpdateSlot
  <2>1. /\ job.slot \in Nat \ {0} /\ job.ordered \in Seq(Nodes) /\ job.kind = "update"
        /\ job'.slot = job.slot + 1 /\ job'.owed = job.owed /\ registry' = registry
        /\ \/ job.slot > Len(registry) /\ job'.ordered = job.ordered /\ job'.missed = job.missed
           \/ /\ job.slot \in 1 .. Len(registry)
              /\ \/ /\ job'.missed = job.missed \cup {registry[job.slot]}
                    /\ job'.ordered = job.ordered
                 \/ /\ job'.ordered = Append(job.ordered, registry[job.slot])
                    /\ job'.missed = job.missed
    BY <1>4, SlotJob
  <2>2. Distinct(registry) /\ Going(registry, job.slot, job.ordered, job.missed, job.owed)
    BY <2>1 DEF OrderInv
  <2>3. Going(registry, job'.slot, job'.ordered, job'.missed, job'.owed)
    <3> DEFINE q == registry
               k == job.slot
               ordered == job.ordered
               missed == job.missed
               owed == job.owed
    <3>1. /\ k > Len(q) => Going(q, k + 1, ordered, missed, owed)
          /\ k \in 1 .. Len(q) =>
               /\ Going(q, k + 1, ordered, missed \cup {q[k]}, owed)
               /\ Going(q, k + 1, Append(ordered, q[k]), missed, owed)
      <4>1. /\ q \in Seq(Nodes) /\ Distinct(q) /\ k \in Nat \ {0} /\ ordered \in Seq(Nodes)
            /\ Going(q, k, ordered, missed, owed)
        BY <1>t, <2>1, <2>2
      <4> HIDE DEF q, k, ordered, missed, owed
      <4> QED BY <4>1, SlotGoing
    <3>2. CASE job.slot > Len(registry) /\ job'.ordered = job.ordered /\ job'.missed = job.missed
      BY <2>1, <3>1, <3>2
    <3>3. CASE /\ job.slot \in 1 .. Len(registry)
               /\ job'.missed = job.missed \cup {registry[job.slot]} /\ job'.ordered = job.ordered
      BY <2>1, <3>1, <3>3
    <3>4. CASE /\ job.slot \in 1 .. Len(registry)
               /\ job'.ordered = Append(job.ordered, registry[job.slot]) /\ job'.missed = job.missed
      BY <2>1, <3>1, <3>4
    <3> QED BY <2>1, <3>2, <3>3, <3>4
  <2> QED BY <2>1, <2>3 DEF OrderInv
<1>5. CASE UpdateEnd \/ AutoOff \/ AutoOffItem \/ PingAll \/ PingItem
  <2>1. UNCHANGED registry
    BY <1>5 DEF UpdateEnd, AutoOff, AutoOffItem, PingAll, PingItem
  <2>2. job'.kind # "update"
    BY <1>5, OtherJob
  <2> QED BY <1>1, <2>1, <2>2
<1>6. CASE RootChange
  <2>1. job'.kind # "update" /\ (registry' = registry \/ registry' = <<>>)
    BY <1>6, OtherJob DEF RootChange
  <2>2. CASE registry' = <<>>
    <3>1. Len(registry') = 0
      BY <2>2
    <3> QED BY <1>t, <2>1, <3>1 DEF OrderInv, Distinct
  <2> QED BY <1>1, <2>1, <2>2
<1>7. ASSUME UNCHANGED <<job, registry>> PROVE OrderInv'
  BY <1>1, <1>7
<1> QED BY <1>2, <1>3, <1>4, <1>5, <1>6, <1>7, JobKept DEF Next, MqttTask

LEMMA InitOrder == Init => NamedInv /\ OrderInv
<1> SUFFICES ASSUME Init PROVE NamedInv /\ OrderInv
  OBVIOUS
<1>1. Len(<<>>) = 0 /\ registry = <<>> /\ job.kind = "idle" /\ \A s \in Roots : tx[s] = <<>>
  BY DEF Init, Idle
<1>2. \A n \in Nodes : wants[n] = FALSE
  BY DEF Init
<1> QED BY <1>1, <1>2, Constants DEF NamedInv, OrderInv, None, Distinct

THEOREM OrderHolds == Spec => [](NamedInv /\ OrderInv)
<1>1. Init => NamedInv /\ OrderInv
  BY InitOrder
<1>2. Typed /\ NamedInv /\ OrderInv /\ [Next]_vars => (NamedInv /\ OrderInv)'
  BY NextNamed, NextOrder
<1> QED BY <1>1, <1>2, TypedHolds, PTL DEF Spec

\* The order for all devices of a kind is made once for each node that was there when it
\* came, and is queued or refused; only devices of a kind that was named, or that were
\* asked by their own buttons, ever update.
THEOREM UpdatesReach == Spec => []UpdateReaches
<1>1. Typed /\ NamedInv /\ OrderInv => UpdateReaches
  <2> SUFFICES ASSUME Typed, OrderInv, job.kind = "update", job.slot > MaxNodes, NEW n \in job.owed
               PROVE  Cardinality({i \in DOMAIN job.ordered : job.ordered[i] = n})
                      = IF n \in job.missed THEN 0 ELSE 1
    BY DEF UpdateReaches, NamedInv
  <2>1. job \in UpdateJobs
    BY DEF Typed, JobTyped
  <2>2. /\ job.ordered \in Seq(Nodes) /\ job.slot \in Nat
        /\ registry \in Seq(Nodes) /\ Len(registry) \in Nat /\ MaxNodes \in Nat
    BY <2>1, Constants DEF UpdateJobs, Typed
  <2>d. DOMAIN job.ordered = 1 .. Len(job.ordered)
    BY <2>2
  <2>3. Going(registry, job.slot, job.ordered, job.missed, job.owed) /\ Len(registry) <= MaxNodes
    BY DEF OrderInv
  <2>4. \A i \in 1 .. Len(registry) : i < job.slot
    BY <2>2, <2>3
  <2>5. Past(registry, job.slot, n)
    BY <2>3, <2>4 DEF Going, Has, Past
  <2>6. CASE n \in job.missed
    <3>1. {i \in DOMAIN job.ordered : job.ordered[i] = n} = {}
      BY <2>d, <2>3, <2>6 DEF Going, Has
    <3> QED BY <2>6, <3>1, FS_EmptySet
  <2>7. CASE n \notin job.missed
    <3>1. PICK j \in 1 .. Len(job.ordered) : job.ordered[j] = n
      BY <2>3, <2>5, <2>7 DEF Going, Has
    <3>2. {i \in DOMAIN job.ordered : job.ordered[i] = n} = {j}
      BY <2>d, <2>3, <3>1 DEF Going, Distinct
    <3> QED BY <2>7, <3>2, FS_Singleton
  <2> QED BY <2>6, <2>7
<1> QED BY <1>1, OrderHolds, TypedHolds, PTL

-----------------------------------------------------------------------------
(* What the backend knows of the firmware *)

BackendInv ==
  /\ retained \in [Relays -> SUBSET Outputs]
  /\ newest \in [Kinds -> 0 .. MaxFirmware] /\ versions \in [Nodes -> 0 .. MaxFirmware]
  /\ upToDate \in [Nodes -> BOOLEAN] /\ UpToDateIsNewest

LEMMA FirmwareKept ==
  /\ Relay \/ MqttTask \/ UpdateAll \/ AutoOff \/ PingAll \/ OutOfMemory \/ MemoryBack \/ MqttDown
     \/ MqttUp \/ RootChange \/ UNCHANGED vars => UNCHANGED <<retained, firmware>>
  /\ \A n \in Nodes : Announce(n) \/ Status(n) \/ Gesture(n) \/ Update(n) \/ HearType(n) \/ HearPong(n)
                      \/ EchoPong(n) \/ UpdateDevice(n) \/ LoseUp(n)
                        => UNCHANGED <<retained, firmware>>
  /\ \A r \in Relays : RelayCommand(r) => UNCHANGED <<retained, firmware>>
  /\ \A s \in Roots : Node(s) \/ LoseDown(s) => UNCHANGED <<retained, firmware>>
<1> USE DEF deviceVars, firmware
<1>1. Relay => UNCHANGED <<retained, firmware>>
  BY DEF Relay, Look, Report, TimerFires
<1>2. MqttTask => UNCHANGED <<retained, firmware>>
  BY DEF MqttTask, UpdateSlot, UpdateEnd, AutoOffItem, PingItem, Ping
<1>3. UpdateAll \/ AutoOff \/ PingAll \/ OutOfMemory \/ MemoryBack \/ MqttDown \/ MqttUp \/ RootChange
      \/ UNCHANGED vars => UNCHANGED <<retained, firmware>>
  BY DEF UpdateAll, AutoOff, PingAll, OutOfMemory, MemoryBack, MqttDown, MqttUp, RootChange, vars
<1>4. /\ \A n \in Nodes : Announce(n) \/ Status(n) \/ Gesture(n) \/ Update(n) \/ HearType(n)
                          \/ HearPong(n) \/ EchoPong(n) \/ UpdateDevice(n) \/ LoseUp(n)
                            => UNCHANGED <<retained, firmware>>
      /\ \A r \in Relays : RelayCommand(r) => UNCHANGED <<retained, firmware>>
  BY DEF Announce, Status, Gesture, Update, HearType, HearPong, EchoPong, UpdateDevice, LoseUp,
         RelayCommand
<1>5. \A s \in Roots : Node(s) \/ LoseDown(s) => UNCHANGED <<retained, firmware>>
  BY DEF Node, OnSync, OnSwitchCommand, OnTimeCommand, OnUpdateOrder, OnPing, SendFails, LoseDown
<1> QED BY <1>1, <1>2, <1>3, <1>4, <1>5

LEMMA NextBackend ==
  ASSUME Typed, BackendInv, [Next]_vars
  PROVE  BackendInv'
<1>t. /\ retained \in [Relays -> SUBSET Outputs]
      /\ newest \in [Kinds -> 0 .. MaxFirmware] /\ versions \in [Nodes -> 0 .. MaxFirmware]
      /\ upToDate \in [Nodes -> BOOLEAN] /\ MaxFirmware \in Nat
      /\ \A m \in Nodes : Kind(m) \in Kinds
  BY Constants DEF BackendInv
<1>1. ASSUME NEW n \in Nodes, HearStatus(n) PROVE BackendInv'
  <2> DEFINE v == Content(n)
  <2>r. retained' = retained
    BY <1>1 DEF HearStatus
  <2>v. v \in 0 .. MaxFirmware
    BY <1>1, UpActions, UpKinds DEF HearStatus, Content
  <2>1. CASE ~mqttOn
    BY <1>1, <1>t, <2>r, <2>1 DEF HearStatus, UpToDateIsNewest, BackendInv, firmware
  <2>2. CASE mqttOn
    <3>1. /\ newest' = [newest EXCEPT ![Kind(n)] = IF v > @ THEN v ELSE @]
          /\ versions' = [versions EXCEPT ![n] = v]
          /\ upToDate' = IF v > newest[Kind(n)] THEN [m \in Nodes |-> m = n]
                         ELSE [upToDate EXCEPT ![n] = v = newest[Kind(n)]]
      BY <1>1, <2>2 DEF HearStatus, SetFirmwareVersion
    <3> HIDE DEF v
    <3>2. versions' \in [Nodes -> 0 .. MaxFirmware]
      BY <1>t, <2>v, <3>1
    <3>3. CASE v > newest[Kind(n)]
      <4>1. newest' = [newest EXCEPT ![Kind(n)] = v] /\ upToDate' = [m \in Nodes |-> m = n]
        BY <3>1, <3>3
      <4>2. newest' \in [Kinds -> 0 .. MaxFirmware] /\ upToDate' \in [Nodes -> BOOLEAN]
        BY <1>t, <2>v, <4>1
      <4>3. UpToDateIsNewest'
        BY <1>t, <3>1, <4>1 DEF UpToDateIsNewest
      <4> QED BY <1>t, <2>r, <3>2, <4>2, <4>3 DEF BackendInv
    <3>4. CASE ~(v > newest[Kind(n)])
      <4>1. newest' = newest /\ upToDate' = [upToDate EXCEPT ![n] = v = newest[Kind(n)]]
        BY <1>t, <3>1, <3>4
      <4>2. upToDate' \in [Nodes -> BOOLEAN]
        BY <1>t, <4>1
      <4>3. UpToDateIsNewest'
        <5> SUFFICES ASSUME NEW m \in Nodes, upToDate'[m] PROVE versions'[m] = newest[Kind(m)]
          BY <4>1 DEF UpToDateIsNewest
        <5>1. CASE m = n
          BY <1>t, <3>1, <4>1, <5>1
        <5>2. CASE m # n
          BY <1>t, <3>1, <4>1, <5>2 DEF BackendInv, UpToDateIsNewest
        <5> QED BY <5>1, <5>2
      <4> QED BY <1>t, <2>r, <3>2, <4>1, <4>2, <4>3 DEF BackendInv
    <3> QED BY <3>3, <3>4
  <2> QED BY <2>1, <2>2
<1>2. ASSUME NEW n \in Nodes, HearState(n) PROVE BackendInv'
  <2>1. UNCHANGED firmware
    BY <1>2 DEF HearState
  <2>2. \E o \in Outputs : retained' = retained \/ retained' = [retained EXCEPT ![Board[o]] = {o}]
    <3>1. Content(n).of \in Outputs
      BY <1>2, UpActions, UpKinds DEF HearState, Content
    <3> QED BY <1>2, <3>1 DEF HearState, UpdateState
  <2>3. retained' \in [Relays -> SUBSET Outputs]
    BY <1>t, <2>2
  <2> QED BY <1>t, <2>1, <2>3 DEF BackendInv, UpToDateIsNewest, firmware
<1>3. CASE NewBackend
  <2>1. /\ retained' = retained /\ newest' = [k \in Kinds |-> 0]
        /\ upToDate' = [m \in Nodes |-> FALSE] /\ versions' = [m \in Nodes |-> 0]
    BY <1>3 DEF NewBackend, BackendRestart
  <2> QED BY <1>t, <2>1 DEF BackendInv, UpToDateIsNewest
<1>4. ASSUME UNCHANGED <<retained, firmware>> PROVE BackendInv'
  BY <1>4 DEF BackendInv, UpToDateIsNewest, firmware
<1> QED BY <1>1, <1>2, <1>3, <1>4, FirmwareKept DEF Next, RootRx

THEOREM BackendHolds == Spec => []BackendInv
<1>1. Init => BackendInv
  BY Constants DEF Init, DeviceInit, BackendInv, UpToDateIsNewest
<1>2. Typed /\ BackendInv /\ [Next]_vars => BackendInv'
  BY NextBackend
<1> QED BY <1>1, <1>2, TypedHolds, PTL DEF Spec

\* A device is shown as up to date only with the newest version of its kind.
THEOREM NewestHolds == Spec => []UpToDateIsNewest
<1>1. BackendInv => UpToDateIsNewest
  BY DEF BackendInv
<1> QED BY <1>1, BackendHolds, PTL

-----------------------------------------------------------------------------
(* The auto-off times *)

TimeMsgs(o) == {m \in DownMsgs : m.kind = "time" /\ m.arg.of = o}
At(o, time) == [of |-> o, time |-> time]

Listed(o) == job.kind = "autoOff" /\ \E i \in 1 .. Len(job.todo) : job.todo[i].of = o

\* An output that is to have a time is still to be told so by the loop, which finds its
\* relay in the registry, or the last message about it on its way says so, or there is
\* none and it has it.
TimeInv ==
  /\ job.kind = "autoOff" =>
       \A i, j \in 1 .. Len(job.todo) : job.todo[i].of = job.todo[j].of => i = j
  /\ \A o \in DOMAIN due :
       /\ o \in Outputs
       /\ Listed(o) =>
            /\ Found(Board[o])
            /\ \A i \in 1 .. Len(job.todo) : job.todo[i].of = o => job.todo[i].time = due[o]
       /\ ~Listed(o) => Word(tx[root], TimeMsgs(o), At(o, due[o]), At(o, times[o]))

\* The actions that leave the times alone.
LEMMA DueKept ==
  /\ Relay => UNCHANGED <<due, times, root>>
  /\ \A n \in Nodes : Announce(n) \/ Status(n) \/ Gesture(n) \/ Update(n) \/ RootRx(n) \/ EchoPong(n)
                      \/ UpdateDevice(n) \/ Ping(n) => UNCHANGED <<due, times, root>>
  /\ \A r \in Relays : RelayCommand(r) => UNCHANGED <<due, times, root>>
  /\ \A s \in Roots : OnSync(s) \/ OnSwitchCommand(s) \/ OnUpdateOrder(s) \/ OnPing(s)
                      \/ SendFails(s) => UNCHANGED <<due, times, root>>
  /\ UpdateSlot \/ UpdateEnd \/ PingItem \/ UpdateAll \/ PingAll \/ OutOfMemory \/ MemoryBack
     \/ MqttDown \/ MqttUp \/ NewBackend \/ UNCHANGED vars => UNCHANGED <<due, times, root>>
<1> USE DEF rootVars, nodeVars, relayVars, history
<1>1. Relay => UNCHANGED <<due, times, root>>
  BY DEF Relay, Look, Report, TimerFires
<1>2. /\ \A n \in Nodes : Announce(n) \/ Status(n) \/ Gesture(n) \/ Update(n) \/ RootRx(n)
                          \/ EchoPong(n) \/ UpdateDevice(n) \/ Ping(n)
                            => UNCHANGED <<due, times, root>>
      /\ \A r \in Relays : RelayCommand(r) => UNCHANGED <<due, times, root>>
  BY DEF Announce, Status, Gesture, Update, RootRx, HearType, HearState, HearStatus, HearPong,
         EchoPong, UpdateDevice, Ping, RelayCommand
<1>3. \A s \in Roots : OnSync(s) \/ OnSwitchCommand(s) \/ OnUpdateOrder(s) \/ OnPing(s)
                       \/ SendFails(s) => UNCHANGED <<due, times, root>>
  BY DEF OnSync, OnSwitchCommand, OnUpdateOrder, OnPing, SendFails
<1>4. UpdateSlot \/ UpdateEnd \/ PingItem \/ UpdateAll \/ PingAll \/ OutOfMemory \/ MemoryBack
      \/ MqttDown \/ MqttUp \/ NewBackend \/ UNCHANGED vars => UNCHANGED <<due, times, root>>
  BY DEF UpdateSlot, UpdateEnd, PingItem, UpdateAll, PingAll, OutOfMemory, MemoryBack, MqttDown,
         MqttUp, NewBackend, vars
<1> QED BY <1>1, <1>2, <1>3, <1>4

LEMMA RegisteredGrows ==
  ASSUME Typed, NEW n \in Nodes, registry' = Register(n)
  PROVE  Registered \subseteq Registered'
<1>t. registry \in Seq(Nodes)
  BY DEF Typed
<1>1. \A i \in DOMAIN registry :
        i \in DOMAIN Append(registry, n) /\ Append(registry, n)[i] = registry[i]
  BY <1>t
<1>2. registry' = registry \/ registry' = Append(registry, n)
  BY DEF Register
<1> QED BY <1>1, <1>2 DEF Registered

\* Messages of other kinds come and go, and other jobs.
LEMMA SameTimes ==
  ASSUME Typed, TimeInv, UNCHANGED <<due, times, root>>, NEW K, TxBy(K), "time" \notin K,
         job' = job \/ (job.kind # "autoOff" /\ job'.kind # "autoOff"),
         Registered \subseteq Registered'
  PROVE  TimeInv'
<1>r. root \in Roots
  BY DEF Typed
<1>1. \A o : Listed(o)' <=> Listed(o)
  BY DEF Listed
<1>2. \A o : \A x, v : Word(tx[root], TimeMsgs(o), x, v) => Word(tx'[root], TimeMsgs(o), x, v)
  <2> SUFFICES ASSUME NEW o
               PROVE  \A x, v : Word(tx[root], TimeMsgs(o), x, v) => Word(tx'[root], TimeMsgs(o), x, v)
    OBVIOUS
  <2>1. \A m \in TimeMsgs(o) : m.kind \notin K
    BY DEF TimeMsgs
  <2> QED BY <1>r, <2>1, TxOfOthers
<1>3. job'.kind = "autoOff" => job' = job
  OBVIOUS
<1>4. ASSUME NEW o \in DOMAIN due, Listed(o)
      PROVE  /\ Found(Board[o])'
             /\ \A i \in 1 .. Len(job'.todo) : job'.todo[i].of = o => job'.todo[i].time = due[o]
  <2>1. job' = job
    BY <1>4 DEF Listed
  <2> QED BY <1>4, <2>1 DEF TimeInv, Found
<1>5. \A o \in DOMAIN due :
        o \in Outputs /\ (~Listed(o) => Word(tx'[root], TimeMsgs(o), At(o, due[o]), At(o, times[o])))
  BY <1>2 DEF TimeInv
<1>6. job'.kind = "autoOff" =>
        \A i, j \in 1 .. Len(job'.todo) : job'.todo[i].of = job'.todo[j].of => i = j
  BY <1>3 DEF TimeInv
<1> QED BY <1>1, <1>4, <1>5, <1>6 DEF TimeInv

\* A message is taken: by the node it tells its time, or lost.
LEMMA TimeTaken ==
  ASSUME Typed, TimeInv, NEW s \in Roots, TxTakes(s), UNCHANGED <<root, job, registry>>,
         Head(tx[s]).kind = "time",
         \/ due' = LostTime(Head(tx[s]).arg.of) /\ times' = times
         \/ /\ times' = [times EXCEPT ![Head(tx[s]).arg.of] = Head(tx[s]).arg.time]
            /\ due' = IF s = root THEN due ELSE LostTime(Head(tx[s]).arg.of)
  PROVE  TimeInv'
<1> DEFINE m == Head(tx[s])
<1>t. /\ root \in Roots /\ tx \in [Roots -> Seq(DownMsgs)] /\ tx[s] \in Seq(DownMsgs) /\ tx[s] # <<>>
      /\ times \in [Outputs -> Times] /\ tx' = [tx EXCEPT ![s] = Tail(tx[s])]
  BY DEF Typed, TxTakes
<1>m. m \in DownMsgs /\ m.arg \in TimeItems /\ m.arg.of \in Outputs
  BY <1>t, Heads, DownKinds
<1>l. (\A o : Listed(o)' <=> Listed(o)) /\ \A r : Found(r)' <=> Found(r)
  BY DEF Listed, Found, Registered
<1>1. ASSUME NEW o \in DOMAIN due'
      PROVE  o \in DOMAIN due /\ due'[o] = due[o] /\ (o = m.arg.of => s = root /\ due' = due)
  BY DEF LostTime
<1>2. ASSUME NEW o \in DOMAIN due', o \in Outputs,
             Word(tx[root], TimeMsgs(o), At(o, due[o]), At(o, times[o]))
      PROVE  Word(tx'[root], TimeMsgs(o), At(o, due[o]), At(o, times'[o]))
  <2>1. CASE o # m.arg.of
    <3>1. m \notin TimeMsgs(o) /\ times'[o] = times[o]
      BY <1>t, <1>2, <2>1 DEF TimeMsgs
    <3>2. CASE s # root
      BY <1>t, <1>2, <3>1, <3>2
    <3>3. CASE s = root
      <4>1. Word(Tail(tx[s]), TimeMsgs(o), At(o, due[o]), At(o, times[o]))
        BY <1>t, <1>2, <3>1, <3>3, WordTaken
      <4> QED BY <1>t, <3>1, <3>3, <4>1
    <3> QED BY <3>2, <3>3
  <2>2. CASE o = m.arg.of
    <3>1. s = root /\ due' = due /\ o \in DOMAIN due
      BY <1>1, <2>2
    <3>2. times'[o] = m.arg.time
      <4>1. due' # LostTime(o)
        BY <3>1 DEF LostTime
      <4> QED BY <1>t, <1>2, <2>2, <4>1
    <3>3. m \in TimeMsgs(o) /\ m.arg = At(o, times'[o])
      BY <1>m, <2>2, <3>2 DEF TimeMsgs, At, TimeItems
    <3>4. Word(Tail(tx[s]), TimeMsgs(o), At(o, due[o]), m.arg)
      BY <1>t, <1>2, <3>1, <3>3, WordTaken
    <3> QED BY <1>t, <3>1, <3>3, <3>4
  <2> QED BY <2>1, <2>2
<1>3. \A o \in DOMAIN due' :
        /\ o \in Outputs
        /\ Listed(o) =>
             /\ Found(Board[o])
             /\ \A i \in 1 .. Len(job.todo) : job.todo[i].of = o => job.todo[i].time = due'[o]
        /\ ~Listed(o) => Word(tx'[root], TimeMsgs(o), At(o, due'[o]), At(o, times'[o]))
  BY <1>1, <1>2 DEF TimeInv
<1>4. \A r : Found(r)' <=> Found(r)
  BY <1>l
<1> QED BY <1>l, <1>3, <1>4 DEF TimeInv

LEMMA TableStarts ==
  ASSUME Typed, TimeInv, AutoOff
  PROVE  TimeInv'
<1>1. job = Idle /\ UNCHANGED <<root, registry, tx, times>>
  BY DEF AutoOff, Ready, nodeVars, relayVars
<1> DEFINE listed(table) == {table[i].of : i \in DOMAIN table}
           timeOf(table, o) == table[CHOOSE i \in DOMAIN table : table[i].of = o].time
<1>2. PICK table \in Pushes :
        /\ job' = [kind |-> "autoOff", todo |-> table, missing |-> {}]
        /\ due' = [o \in (DOMAIN due \ listed(table))
                         \cup {p \in listed(table) : Board[p] \in Registered} |->
                     IF o \in listed(table) THEN timeOf(table, o) ELSE due[o]]
  BY DEF AutoOff
<1>3. /\ table \in Seq(TimeItems) /\ DOMAIN table = 1 .. Len(table)
      /\ \A i, j \in DOMAIN table : table[i].of = table[j].of => i = j
  <2>1. table \in Seq(TimeItems)
    BY PushTyped
  <2>2. \A i, j \in DOMAIN table : table[i].of = table[j].of => i = j
    BY Zenon, RegistryAssumption
  <2> QED BY <2>1, <2>2
<1>4. \A i \in DOMAIN table : table[i].of \in Outputs
  <2> SUFFICES ASSUME NEW i \in DOMAIN table PROVE table[i].of \in Outputs
    OBVIOUS
  <2>1. table[i] \in TimeItems
    BY <1>3, ElementOfSeq
  <2> QED BY <2>1 DEF TimeItems
<1>5. job'.kind = "autoOff" /\ job'.todo = table /\ job'.missing = {}
  BY <1>2
<1>6. \A o : Listed(o)' <=> o \in listed(table)
  BY <1>3, <1>5 DEF Listed
<1>7. \A o : ~Listed(o)
  BY <1>1 DEF Listed, Idle
<1>8. ASSUME NEW o \in DOMAIN due'
      PROVE  /\ o \in Outputs
             /\ o \in listed(table) =>
                  /\ Board[o] \in Registered
                  /\ \A i \in 1 .. Len(table) : table[i].of = o => table[i].time = due'[o]
             /\ o \notin listed(table) =>
                  Word(tx[root], TimeMsgs(o), At(o, due'[o]), At(o, times[o]))
  <2>1. CASE o \in listed(table)
    <3>1. Board[o] \in Registered /\ due'[o] = timeOf(table, o) /\ o \in Outputs
      BY <1>2, <1>4, <2>1
    <3>2. ASSUME NEW i \in 1 .. Len(table), table[i].of = o PROVE table[i].time = due'[o]
      <4>1. i \in DOMAIN table
        BY <1>3
      <4>2. (CHOOSE j \in DOMAIN table : table[j].of = o) = i
        BY <1>3, <3>2, <4>1, Zenon
      <4> QED BY <3>1, <4>2
    <3> QED BY <2>1, <3>1, <3>2
  <2>2. CASE o \notin listed(table)
    <3>1. o \in DOMAIN due /\ due'[o] = due[o]
      BY <1>2, <2>2
    <3> QED BY <1>7, <2>2, <3>1 DEF TimeInv
  <2> QED BY <2>1, <2>2
<1> HIDE DEF listed, timeOf
<1>9. \A r : r \in Registered => Found(r)'
  BY <1>1, <1>5 DEF Found, Registered
<1>10. \A i, j \in 1 .. Len(table) : table[i].of = table[j].of => i = j
  BY <1>3
<1>11. \A o \in DOMAIN due' :
         /\ o \in Outputs
         /\ Listed(o)' =>
              /\ Found(Board[o])'
              /\ \A i \in 1 .. Len(job'.todo) : job'.todo[i].of = o => job'.todo[i].time = due'[o]
         /\ ~Listed(o)' => Word(tx'[root'], TimeMsgs(o), At(o, due'[o]), At(o, times'[o]))
  BY <1>1, <1>5, <1>6, <1>8, <1>9
<1> QED BY <1>5, <1>10, <1>11 DEF TimeInv

LEMMA TableGoesOn ==
  ASSUME Typed, TimeInv, AutoOffItem
  PROVE  TimeInv'
<1>t. /\ root \in Roots /\ tx \in [Roots -> Seq(DownMsgs)] /\ tx[root] \in Seq(DownMsgs)
      /\ Board \in [Outputs -> Relays]
  BY Constants DEF Typed
<1>1. job \in [kind : {"autoOff"}, todo : Seq(TimeItems) \ {<<>>}, missing : SUBSET Relays]
      /\ job.kind = "autoOff"
  BY DEF AutoOffItem, Typed, JobTyped
<1> DEFINE todo1 == job.todo
           rest == Tail(job.todo)
           q == tx[root]
           m == Down("time", Board[Item.of], Item)
           skipped == IF Found(Board[Item.of]) THEN job.missing ELSE job.missing \cup {Board[Item.of]}
<1>2. /\ Item = todo1[1] /\ Item \in TimeItems
      /\ rest \in Seq(TimeItems) /\ Len(todo1) \in Nat \ {0} /\ Len(rest) = Len(todo1) - 1
      /\ \A i \in 1 .. Len(rest) : rest[i] = todo1[i + 1]
  <2>1. job.todo \in Seq(TimeItems) \ {<<>>}
    BY <1>1
  <2> QED BY <2>1, Items
<1>3. Item.of \in Outputs /\ Item = At(Item.of, Item.time)
  BY <1>2 DEF TimeItems, At
<1>4. m \in DownMsgs /\ m.kind = "time" /\ m.arg = Item
  <2>1. Board[Item.of] \in Relays
    BY <1>t, <1>3
  <2> QED BY <1>2, <2>1, DownMade DEF Down
<1>5. /\ UNCHANGED <<root, registry, times>>
      /\ job' = IF Len(todo1) = 1 THEN Idle ELSE [job EXCEPT !.todo = rest, !.missing = skipped]
      /\ Found(Board[Item.of]) =>
           /\ tx' = [tx EXCEPT ![root] = Queue(q, m)]
           /\ due' = IF Full(q) THEN LostTime(Item.of) ELSE due
      /\ ~Found(Board[Item.of]) => tx' = tx /\ due' = due
  BY DEF AutoOffItem, SendTime, Send, NextItem, nodeVars, relayVars
<1>s. \A r : Found(r) => r \notin skipped
  BY DEF Found
<1>u. \A i, j \in 1 .. Len(todo1) : todo1[i].of = todo1[j].of => i = j
  BY <1>1 DEF TimeInv
<1>6. \A i \in 1 .. Len(rest) : i + 1 \in 1 .. Len(todo1) /\ i + 1 # 1
  BY <1>2
<1>i. 1 \in 1 .. Len(todo1)
  BY <1>2
<1> HIDE DEF skipped
<1>7. Len(todo1) # 1 => job'.kind = "autoOff" /\ job'.todo = rest /\ job'.missing = skipped
  BY <1>1, <1>5
<1>8. Len(todo1) = 1 => job'.kind # "autoOff" /\ Len(rest) = 0
  BY <1>2, <1>5 DEF Idle
<1> HIDE DEF todo1, rest, m, q
<1>9. \A o : Listed(o)' <=> \E i \in 1 .. Len(rest) : rest[i].of = o
  <2>1. CASE Len(todo1) = 1
    BY <1>8, <2>1 DEF Listed
  <2>2. CASE Len(todo1) # 1
    BY <1>7, <2>2 DEF Listed
  <2> QED BY <2>1, <2>2
<1>10. \A o : Listed(o) <=> o = Item.of \/ Listed(o)'
  <2>1. \A i \in 1 .. Len(todo1) : i = 1 \/ (i - 1 \in 1 .. Len(rest) /\ rest[i - 1] = todo1[i])
    BY <1>2
  <2>2. \A o : Listed(o) <=> \E i \in 1 .. Len(todo1) : todo1[i].of = o
    BY <1>1 DEF Listed, todo1
  <2>3. ASSUME NEW o, Listed(o), o # Item.of PROVE \E i \in 1 .. Len(rest) : rest[i].of = o
    <3>1. PICK i \in 1 .. Len(todo1) : todo1[i].of = o
      BY <2>2, <2>3
    <3> QED BY <1>2, <2>1, <2>3, <3>1
  <2>4. ASSUME NEW o, NEW i \in 1 .. Len(rest), rest[i].of = o PROVE Listed(o)
    BY <1>2, <1>6, <2>2, <2>4
  <2>5. Listed(Item.of)
    BY <1>2, <1>i, <2>2
  <2> QED BY <1>9, <2>3, <2>4, <2>5
<1>11. \A o : o = Item.of => ~Listed(o)'
  <2> SUFFICES ASSUME NEW i \in 1 .. Len(rest), rest[i].of = Item.of PROVE FALSE
    BY <1>9
  <2>1. todo1[i + 1].of = todo1[1].of
    BY <1>2
  <2> QED BY <1>6, <1>i, <1>u, <2>1
<1>12. \A i, j \in 1 .. Len(rest) : rest[i].of = rest[j].of => i = j
  <2> SUFFICES ASSUME NEW i \in 1 .. Len(rest), NEW j \in 1 .. Len(rest), rest[i].of = rest[j].of
               PROVE  i = j
    OBVIOUS
  <2>1. i + 1 = j + 1
    BY <1>2, <1>6, <1>u
  <2> QED BY <1>2, <2>1
<1>13. job'.kind = "autoOff" =>
         \A i, j \in 1 .. Len(job'.todo) : job'.todo[i].of = job'.todo[j].of => i = j
  BY <1>7, <1>8, <1>12
<1>14. ASSUME NEW o \in DOMAIN due'
       PROVE  /\ o \in Outputs
              /\ Listed(o)' =>
                   /\ Board[o] \in Registered /\ Board[o] \notin skipped
                   /\ \A i \in 1 .. Len(rest) : rest[i].of = o => rest[i].time = due'[o]
              /\ ~Listed(o)' => Word(tx'[root], TimeMsgs(o), At(o, due'[o]), At(o, times[o]))
  <2>1. o \in DOMAIN due /\ due'[o] = due[o]
        /\ (Found(Board[Item.of]) /\ Full(q) => o # Item.of)
    BY <1>5 DEF LostTime
  <2>2. /\ o \in Outputs
        /\ Listed(o) =>
             /\ Found(Board[o])
             /\ \A i \in 1 .. Len(todo1) : todo1[i].of = o => todo1[i].time = due[o]
        /\ ~Listed(o) => Word(q, TimeMsgs(o), At(o, due[o]), At(o, times[o]))
    BY <2>1 DEF TimeInv, todo1, q
  <2>3. CASE Listed(o)'
    <3>1. Listed(o)
      BY <1>10, <2>3
    <3>2. \A i \in 1 .. Len(rest) : rest[i].of = o => rest[i].time = due[o]
      BY <1>2, <1>6, <2>2, <3>1
    <3>3. Board[o] \in Registered /\ Board[o] \notin skipped
      BY <1>s, <2>2, <3>1 DEF Found
    <3> QED BY <2>1, <2>2, <2>3, <3>2, <3>3
  <2>4. CASE o = Item.of
    <3>1. Found(Board[Item.of]) /\ Item.time = due[o] /\ ~Full(q)
      BY <1>2, <1>10, <1>i, <2>1, <2>2, <2>4
    <3>2. m \in TimeMsgs(o) /\ m.arg = At(o, due[o])
      BY <1>3, <1>4, <2>4, <3>1 DEF TimeMsgs
    <3>3. tx'[root] = Queue(q, m)
      BY <1>t, <1>5, <3>1
    <3>4. LastIs(Queue(q, m), TimeMsgs(o), m.arg)
      BY <1>t, <1>4, <3>1, <3>2, WordNew DEF q
    <3>5. Word(tx'[root], TimeMsgs(o), At(o, due'[o]), At(o, times[o]))
      BY <2>1, <3>2, <3>3, <3>4 DEF Word
    <3>6. ~Listed(o)'
      BY <1>11, <2>4
    <3> QED BY <2>2, <3>5, <3>6
  <2>5. CASE ~Listed(o)' /\ o # Item.of
    <3>1. Word(q, TimeMsgs(o), At(o, due[o]), At(o, times[o]))
      BY <1>10, <2>2, <2>5
    <3>2. m \notin TimeMsgs(o)
      BY <1>4, <2>5 DEF TimeMsgs
    <3>3. tx'[root] = q \/ tx'[root] = Queue(q, m)
      BY <1>t, <1>5 DEF q
    <3>4. Word(Queue(q, m), TimeMsgs(o), At(o, due[o]), At(o, times[o]))
      BY <1>t, <1>4, <3>1, <3>2, WordQueued DEF q
    <3> QED BY <2>1, <2>2, <2>5, <3>1, <3>3, <3>4
  <2> QED BY <2>3, <2>4, <2>5
<1>15. ASSUME NEW o, Listed(o)' PROVE job'.todo = rest /\ job'.missing = skipped
  BY <1>7, <1>8, <1>15 DEF Listed
<1>16. ASSUME NEW o \in DOMAIN due', Listed(o)' PROVE Found(Board[o])'
  <2>1. Registered' = Registered
    BY <1>5 DEF Registered
  <2> QED BY <1>14, <1>15, <1>16, <2>1 DEF Found
<1>17. \A o \in DOMAIN due' :
         /\ o \in Outputs
         /\ Listed(o)' =>
              /\ Found(Board[o])'
              /\ \A i \in 1 .. Len(job'.todo) : job'.todo[i].of = o => job'.todo[i].time = due'[o]
         /\ ~Listed(o)' => Word(tx'[root'], TimeMsgs(o), At(o, due'[o]), At(o, times'[o]))
  BY <1>5, <1>14, <1>15, <1>16
<1> QED BY <1>13, <1>17 DEF TimeInv

\* Another root: what is not under way anywhere is what the outputs have.
LEMMA RootTimes ==
  ASSUME Typed, TimeInv, RootChange
  PROVE  TimeInv'
<1>t. /\ tx \in [Roots -> Seq(DownMsgs)] /\ root \in Roots /\ root' \in Roots
      /\ \A s \in Roots : DOMAIN tx[s] = 1 .. Len(tx[s])
      /\ \A s \in Roots : tx'[s] = tx[s] \/ tx'[s] = <<>>
      /\ Len(<<>>) = 0
  BY TxRootChange DEF Typed
<1>1. job' = Idle /\ times' = times
  BY DEF RootChange, nodeVars, relayVars
<1>2. ASSUME NEW o \in DOMAIN due'
      PROVE  /\ o \in DOMAIN due /\ due'[o] = due[o] /\ ~Listed(o)
             /\ \A s \in Roots : None(tx[s], TimeMsgs(o))
  <2> DEFINE kept == {p \in DOMAIN due :
                        /\ \A s \in Roots : \A i \in DOMAIN tx[s] :
                             tx[s][i].kind = "time" => tx[s][i].arg.of # p
                        /\ job.kind = "autoOff" => \A i \in DOMAIN job.todo : job.todo[i].of # p}
  <2>1. due' = [p \in kept |-> due[p]]
    BY DEF RootChange
  <2>2. o \in kept /\ due'[o] = due[o]
    BY <2>1
  <2>3. ~Listed(o)
    <3>1. ASSUME job.kind = "autoOff" PROVE DOMAIN job.todo = 1 .. Len(job.todo)
      <4>1. job \in [kind : {"autoOff"}, todo : Seq(TimeItems) \ {<<>>}, missing : SUBSET Relays]
        BY <3>1 DEF Typed, JobTyped
      <4>2. job.todo \in Seq(TimeItems)
        BY <4>1
      <4> QED BY <4>2
    <3> QED BY <2>2, <3>1 DEF Listed
  <2>4. \A s \in Roots : None(tx[s], TimeMsgs(o))
    BY <1>t, <2>2 DEF None, TimeMsgs
  <2> QED BY <2>2, <2>3, <2>4
<1>3. ASSUME NEW o \in DOMAIN due'
      PROVE  o \in Outputs /\ Word(tx'[root'], TimeMsgs(o), At(o, due'[o]), At(o, times[o]))
  <2>1. o \in Outputs /\ Word(tx[root], TimeMsgs(o), At(o, due[o]), At(o, times[o]))
    BY <1>2, <1>3 DEF TimeInv
  <2>2. At(o, times[o]) = At(o, due[o])
    BY <1>t, <1>2, <2>1 DEF Word, LastIs, None
  <2>3. None(tx'[root'], TimeMsgs(o))
    BY <1>t, <1>2 DEF None
  <2> QED BY <1>2, <2>1, <2>2, <2>3 DEF Word
<1>4. job'.kind # "autoOff" /\ \A o : ~Listed(o)'
  BY <1>1 DEF Listed, Idle
<1> QED BY <1>1, <1>3, <1>4 DEF TimeInv

LEMMA NextTimes ==
  ASSUME Typed, TimeInv, [Next]_vars
  PROVE  TimeInv'
<1>g. registry' = registry => Registered' = Registered
  BY DEF Registered
<1>0. ASSUME UNCHANGED <<due, times, root, job, registry, tx>> PROVE TimeInv'
  <2>1. TxBy({})
    BY <1>0 DEF TxBy
  <2> QED BY <1>0, <1>g, <2>1, SameTimes
<1>1. ASSUME NEW K, TxBy(K), "time" \notin K, UNCHANGED <<due, times, root, job, registry>>
      PROVE  TimeInv'
  BY <1>1, <1>g, SameTimes
<1>2. ASSUME NEW n \in Nodes, RootRx(n) PROVE TimeInv'
  <2>1. registry' = Register(n) /\ job' = job /\ UNCHANGED <<due, times, root>>
    BY <1>2, JobKept, DueKept
  <2>2. Registered \subseteq Registered'
    BY <2>1, RegisteredGrows
  <2>3. TxBy({"sync"}) \/ TxBy({"ping"}) \/ TxBy({})
    BY <1>2, TxActions, TxOthers DEF RootRx, TxBy
  <2> QED BY <2>1, <2>2, <2>3, SameTimes
<1>3. ASSUME NEW n \in Nodes, UpdateDevice(n) \/ Ping(n) \/ EchoPong(n) PROVE TimeInv'
  <2>1. TxBy({"update"}) \/ TxBy({"ping"})
    BY <1>3, TxActions
  <2> QED BY <1>1, <1>3, <2>1, JobKept, DueKept
<1>4. ASSUME NEW r \in Relays, RelayCommand(r) PROVE TimeInv'
  <2>1. TxBy({"switch", "sync"})
    BY <1>4, TxActions
  <2> QED BY <1>1, <1>4, <2>1, JobKept, DueKept
<1>5. ASSUME NEW s \in Roots, OnSync(s) \/ OnSwitchCommand(s) \/ OnUpdateOrder(s) \/ OnPing(s)
                              \/ SendFails(s)
      PROVE  TimeInv'
  <2>1. TxBy({"sync"}) \/ TxBy({"switch"}) \/ TxBy({"update"}) \/ TxBy({"ping"})
    BY <1>5, TxNode, TxReceived
  <2>2. UNCHANGED <<job, registry>>
    BY <1>5, JobKept DEF Node
  <2> QED BY <1>1, <1>5, <2>1, <2>2, DueKept
<1>6. ASSUME NEW s \in Roots, OnTimeCommand(s) PROVE TimeInv'
  <2>1. TxTakes(s) /\ Head(tx[s]).kind = "time"
    BY <1>6, TxReceived DEF OnTimeCommand
  <2>2. /\ UNCHANGED <<root, job, registry>>
        /\ times' = [times EXCEPT ![Head(tx[s]).arg.of] = Head(tx[s]).arg.time]
        /\ due' = IF s = root THEN due ELSE LostTime(Head(tx[s]).arg.of)
    BY <1>6 DEF OnTimeCommand, Arg
  <2> QED BY <2>1, <2>2, TimeTaken
<1>7. ASSUME NEW s \in Roots, LoseDown(s) PROVE TimeInv'
  <2>1. TxTakes(s) /\ TxBy({Head(tx[s]).kind})
    BY <1>7, TxReceived
  <2>2. /\ UNCHANGED <<root, job, registry, times>>
        /\ due' = IF Head(tx[s]).kind = "time" THEN LostTime(Head(tx[s]).arg.of) ELSE due
    BY <1>7 DEF LoseDown, Lost, nodeVars, relayVars
  <2>3. CASE Head(tx[s]).kind = "time"
    BY <2>1, <2>2, <2>3, TimeTaken
  <2>4. CASE Head(tx[s]).kind # "time"
    BY <1>1, <2>1, <2>2, <2>4
  <2> QED BY <2>3, <2>4
<1>8. ASSUME NEW n \in Nodes, LoseUp(n) PROVE TimeInv'
  <2>1. UNCHANGED <<root, job, registry, times, tx>> /\ Lost(Head(up[n]), n)
    BY <1>8 DEF LoseUp, rootVars, relayVars
  <2>2. Head(up[n]).kind # "time"
    BY <1>8, UpActions, UpKinds
  <2> QED BY <1>0, <2>1, <2>2 DEF Lost
<1>9. ASSUME UpdateSlot \/ UpdateEnd \/ PingItem \/ UpdateAll \/ PingAll PROVE TimeInv'
  <2>1. UNCHANGED <<due, times, root, registry>>
    <3>1. UNCHANGED <<due, times, root>>
      BY <1>9, DueKept
    <3> QED BY <1>9, <3>1 DEF UpdateSlot, UpdateEnd, PingItem, UpdateAll, PingAll
  <2>2. TxBy({"update"}) \/ TxBy({"ping"}) \/ TxBy({})
    BY <1>9, TxActions, TxOthers DEF TxBy
  <2>3. job.kind # "autoOff"
    BY <1>9 DEF UpdateSlot, UpdateEnd, PingItem, UpdateAll, PingAll, Ready, Idle
  <2>4. job'.kind # "autoOff"
    <3>1. CASE UpdateSlot
      BY <3>1, SlotJob
    <3>2. CASE UpdateAll
      BY <3>2 DEF UpdateAll
    <3>3. CASE UpdateEnd
      BY <3>3 DEF UpdateEnd, Idle
    <3>4. CASE PingAll
      <4>1. job' = Idle \/ job' = [kind |-> "ping", todo |-> registry]
        BY <3>4 DEF PingAll
      <4> QED BY <4>1 DEF Idle
    <3>5. CASE PingItem
      <4>1. job \in [kind : {"ping"}, todo : Seq(Nodes) \ {<<>>}]
        BY <3>5 DEF PingItem, Typed, JobTyped
      <4>2. job' = Idle \/ job' = [job EXCEPT !.todo = Tail(@)]
        BY <3>5 DEF PingItem
      <4> QED BY <4>1, <4>2 DEF Idle
    <3> QED BY <1>9, <3>1, <3>2, <3>3, <3>4, <3>5
  <2> QED BY <1>g, <2>1, <2>2, <2>3, <2>4, SameTimes
<1>10. ASSUME \/ Relay
              \/ \E n \in Nodes : Announce(n) \/ Status(n) \/ Gesture(n) \/ Update(n)
              \/ OutOfMemory \/ MemoryBack \/ MqttDown \/ MqttUp \/ NewBackend \/ UNCHANGED vars
       PROVE  TimeInv'
  <2>1. UNCHANGED <<due, times, root>>
    BY <1>10, DueKept
  <2>2. UNCHANGED <<job, registry>>
    BY <1>10, JobKept
  <2>3. UNCHANGED tx
    BY <1>10, TxOthers DEF Relay
  <2> QED BY <1>0, <2>1, <2>2, <2>3
<1> QED BY <1>2, <1>3, <1>4, <1>5, <1>6, <1>7, <1>8, <1>9, <1>10, TableStarts, TableGoesOn, RootTimes
        DEF Next, Node, MqttTask

THEOREM TimeHolds == Spec => []TimeInv
<1>1. Init => TimeInv
  <2>1. Init => job.kind # "autoOff" /\ DOMAIN due = {}
    BY DEF Init, Idle
  <2> QED BY <2>1 DEF TimeInv
<1>2. Typed /\ TimeInv /\ [Next]_vars => TimeInv'
  BY NextTimes
<1> QED BY <1>1, <1>2, TypedHolds, PTL DEF Spec

\* Every output of a relay registered when a table of times came ends with the time it
\* gave, unless the message was lost or a former root's came later.
THEOREM TimesArrive == Spec => []AutoOffArrives
<1>1. Typed /\ TimeInv => AutoOffArrives
  <2> SUFFICES ASSUME Typed, TimeInv, NEW o \in DOMAIN due, job.kind # "autoOff",
                      \A i \in DOMAIN tx[root] : tx[root][i].kind = "time" => tx[root][i].arg.of # o
               PROVE  times[o] = due[o]
    BY DEF AutoOffArrives
  <2>1. ~Listed(o)
    BY DEF Listed
  <2>2. DOMAIN tx[root] = 1 .. Len(tx[root])
    BY DEF Typed
  <2>3. None(tx[root], TimeMsgs(o))
    BY <2>2 DEF None, TimeMsgs
  <2>4. At(o, times[o]) = At(o, due[o])
    BY <2>1, <2>3 DEF TimeInv, Word, LastIs, None
  <2> QED BY <2>4 DEF At
<1> QED BY <1>1, TimeHolds, TypedHolds, PTL

-----------------------------------------------------------------------------
(* Messages are counted *)

LEMMA CountFacts ==
  ASSUME NEW S, NEW q \in Seq(S), NEW kind
  PROVE  /\ IsFiniteSet({i \in DOMAIN q : q[i].kind = kind})
         /\ Count(q, kind) \in Nat
<1> DEFINE I == {i \in DOMAIN q : q[i].kind = kind}
<1>1. DOMAIN q = 1 .. Len(q) /\ Len(q) \in Nat
  OBVIOUS
<1>2. IsFiniteSet(1 .. Len(q))
  BY <1>1, FS_Interval
<1>3. IsFiniteSet(I)
  BY <1>1, <1>2, FS_Subset
<1>4. Cardinality(I) \in Nat
  BY <1>3, FS_CardinalityType
<1> QED BY <1>3, <1>4 DEF Count

LEMMA CountEmpty ==
  ASSUME NEW kind
  PROVE  Count(<<>>, kind) = 0
<1>1. {i \in DOMAIN <<>> : <<>>[i].kind = kind} = {}
  OBVIOUS
<1> QED BY <1>1, FS_EmptySet DEF Count

\* One message more at the end.
LEMMA CountLast ==
  ASSUME NEW S, NEW T, NEW q \in Seq(S), NEW r \in Seq(T), NEW kind, Len(r) = Len(q) + 1,
         \A i \in 1 .. Len(q) : r[i] = q[i]
  PROVE  Count(r, kind) = Count(q, kind) + (IF r[Len(r)].kind = kind THEN 1 ELSE 0)
<1> DEFINE I == {i \in DOMAIN q : q[i].kind = kind}
           J == {i \in DOMAIN r : r[i].kind = kind}
<1>1. DOMAIN q = 1 .. Len(q) /\ DOMAIN r = 1 .. Len(r) /\ Len(q) \in Nat
  OBVIOUS
<1>c. Count(q, kind) = Cardinality(I) /\ Count(r, kind) = Cardinality(J)
  BY DEF Count
<1>2. IsFiniteSet(I) /\ Len(r) \notin I /\ Count(q, kind) \in Nat
  <2>1. Len(r) \notin DOMAIN q
    BY <1>1
  <2> QED BY <2>1, CountFacts
<1>3. \A i : i \in DOMAIN r <=> i \in DOMAIN q \/ i = Len(r)
  BY <1>1
<1>4. CASE r[Len(r)].kind = kind
  <2>1. J = I \cup {Len(r)}
    BY <1>1, <1>3, <1>4
  <2> HIDE DEF I, J
  <2>2. Cardinality(J) = Cardinality(I) + 1
    BY <1>2, <2>1, FS_AddElement
  <2> QED BY <1>c, <1>4, <2>2
<1>5. CASE r[Len(r)].kind # kind
  <2>1. J = I
    BY <1>1, <1>3, <1>5
  <2> HIDE DEF I, J
  <2> QED BY <1>c, <1>2, <1>5, <2>1
<1> QED BY <1>4, <1>5

\* One message more at the front.
LEMMA CountFirst ==
  ASSUME NEW S, NEW T, NEW q \in Seq(S), NEW r \in Seq(T), NEW kind, Len(r) = Len(q) + 1,
         \A i \in 1 .. Len(q) : r[i + 1] = q[i]
  PROVE  Count(r, kind) = Count(q, kind) + (IF r[1].kind = kind THEN 1 ELSE 0)
<1> DEFINE I == {i \in DOMAIN q : q[i].kind = kind}
           J == {i \in DOMAIN r : r[i].kind = kind}
           K == {i + 1 : i \in I}
<1>1. DOMAIN q = 1 .. Len(q) /\ DOMAIN r = 1 .. Len(r) /\ Len(q) \in Nat
  OBVIOUS
<1>c. Count(q, kind) = Cardinality(I) /\ Count(r, kind) = Cardinality(J)
  BY DEF Count
<1>2. IsFiniteSet(I) /\ Count(q, kind) \in Nat
  BY CountFacts
<1>3. IsFiniteSet(K) /\ Cardinality(K) = Cardinality(I)
  <2> DEFINE f == [i \in I |-> i + 1]
  <2>1. I \subseteq Nat
    BY <1>1
  <2> HIDE DEF I
  <2>2. f \in Bijection(I, K)
    <3>1. f \in [I -> K] /\ \A t \in K : \E i \in I : f[i] = t
      OBVIOUS
    <3>2. \A i, j \in I : f[i] = f[j] => i = j
      BY <2>1
    <3> QED BY <3>1, <3>2 DEF Bijection, Injection, Surjection, IsInjective
  <2>3. ExistsBijection(I, K)
    BY <2>2 DEF ExistsBijection
  <2> QED BY <1>2, <2>3, FS_Bijection
<1>4. 1 \notin K
  BY <1>1
<1>5. \A i \in DOMAIN r : i = 1 \/ (i - 1 \in DOMAIN q /\ r[i] = q[i - 1] /\ i = (i - 1) + 1)
  BY <1>1
<1>6. \A i \in DOMAIN q : i + 1 \in DOMAIN r /\ r[i + 1] = q[i]
  BY <1>1
<1>7. 1 \in DOMAIN r
  BY <1>1
<1>8. CASE r[1].kind = kind
  <2>1. J = K \cup {1}
    BY <1>5, <1>6, <1>7, <1>8
  <2> HIDE DEF I, J, K
  <2>2. Cardinality(J) = Cardinality(I) + 1
    BY <1>3, <1>4, <2>1, FS_AddElement
  <2> QED BY <1>c, <1>8, <2>2
<1>9. CASE r[1].kind # kind
  <2>1. J = K
    BY <1>5, <1>6, <1>9
  <2> HIDE DEF I, J, K
  <2> QED BY <1>c, <1>2, <1>3, <1>9, <2>1
<1> QED BY <1>8, <1>9

\* A message is put into a queue that is not full, or the first one taken.
LEMMA PutCount ==
  ASSUME NEW S, NEW q \in Seq(S), NEW m \in S, NEW kind, NEW r,
         r = Queue(q, m) \/ r = QueueFirst(q, m), Len(q) <= MaxQueue
  PROVE  /\ r \in Seq(S) /\ Len(r) <= MaxQueue
         /\ Count(r, kind) = Count(q, kind) + (IF m.kind = kind /\ ~Full(q) THEN 1 ELSE 0)
<1>1. r \in Seq(S) /\ Len(q) \in Nat /\ Count(q, kind) \in Nat /\ MaxQueue \in Nat
  <2>1. Queue(q, m) \in Seq(S) /\ QueueFirst(q, m) \in Seq(S)
    BY QueueFacts, QueueFirstFacts
  <2>2. r \in Seq(S)
    BY <2>1
  <2>3. Count(q, kind) \in Nat
    BY CountFacts
  <2> QED BY <2>2, <2>3, Constants
<1>2. CASE Full(q)
  <2>1. r = q
    BY <1>2, QueueFacts, QueueFirstFacts
  <2> QED BY <1>1, <1>2, <2>1
<1>3. CASE ~Full(q)
  <2>1. Len(q) < MaxQueue
    BY <1>1, <1>3 DEF Full
  <2>2. Len(r) = Len(q) + 1
    <3>1. Len(Queue(q, m)) = Len(q) + 1
      BY <1>3, QueueFacts
    <3>2. Len(QueueFirst(q, m)) = Len(q) + 1
      BY <1>3, QueueFirstFacts
    <3> QED BY <3>1, <3>2
  <2>3. Count(r, kind) = Count(q, kind) + (IF m.kind = kind THEN 1 ELSE 0)
    <3>1. CASE r = Queue(q, m)
      <4>1. r[Len(r)] = m /\ \A i \in 1 .. Len(q) : r[i] = q[i]
        <5>1. /\ Queue(q, m)[Len(q) + 1] = m
              /\ \A i \in 1 .. Len(q) : Queue(q, m)[i] = q[i]
          BY <1>3, QueueFacts
        <5> QED BY <2>2, <3>1, <5>1
      <4> QED BY <1>1, <2>2, <4>1, CountLast
    <3>2. CASE r = QueueFirst(q, m)
      <4>1. r[1] = m /\ \A i \in 2 .. Len(q) + 1 : r[i] = q[i - 1]
        BY <1>3, <3>2, QueueFirstFacts
      <4>2. \A i \in 1 .. Len(q) : i + 1 \in 2 .. Len(q) + 1 /\ (i + 1) - 1 = i
        BY <1>1
      <4>3. \A i \in 1 .. Len(q) : r[i + 1] = q[i]
        BY <4>1, <4>2
      <4> QED BY <1>1, <2>2, <4>1, <4>3, CountFirst
    <3> QED BY <3>1, <3>2
  <2> QED BY <1>1, <1>3, <2>1, <2>2, <2>3
<1> QED BY <1>2, <1>3

LEMMA TailCount ==
  ASSUME NEW S, NEW q \in Seq(S), NEW kind, q # <<>>, Len(q) <= MaxQueue
  PROVE  /\ Tail(q) \in Seq(S) /\ Len(Tail(q)) <= MaxQueue
         /\ Count(Tail(q), kind) = Count(q, kind) - (IF Head(q).kind = kind THEN 1 ELSE 0)
<1>1. /\ Head(q) = q[1] /\ Tail(q) \in Seq(S) /\ Len(q) \in Nat \ {0}
      /\ Len(Tail(q)) = Len(q) - 1 /\ \A i \in 1 .. Len(Tail(q)) : Tail(q)[i] = q[i + 1]
  BY TailFacts
<1>2. Len(q) = Len(Tail(q)) + 1
  BY <1>1
<1>3. Count(q, kind) = Count(Tail(q), kind) + (IF q[1].kind = kind THEN 1 ELSE 0)
  <2> DEFINE r == Tail(q)
  <2>1. r \in Seq(S) /\ Len(q) = Len(r) + 1 /\ \A i \in 1 .. Len(r) : q[i + 1] = r[i]
    BY <1>1, <1>2
  <2> HIDE DEF r
  <2>2. Count(q, kind) = Count(r, kind) + (IF q[1].kind = kind THEN 1 ELSE 0)
    BY <2>1, CountFirst
  <2> QED BY <2>2 DEF r
<1>4. Count(q, kind) \in Nat /\ Count(Tail(q), kind) \in Nat /\ MaxQueue \in Nat
  BY <1>1, CountFacts, Constants
<1> QED BY <1>1, <1>3, <1>4

-----------------------------------------------------------------------------
(* The pings *)

\* The places of the messages of a kind in the queues f of S.
Places(f, S, kind) ==
  {p \in S \X (1 .. MaxQueue) : p[2] \in DOMAIN f[p[1]] /\ f[p[1]][p[2]].kind = kind}
PlacesIn(n, q, kind) == {<<n, i>> : i \in {j \in DOMAIN q : q[j].kind = kind}}

\* The pings and pongs with a number that is never reached.
Beyond ==
  {m \in UpMsgs \cup DownMsgs : m.kind \in {"ping", "pong"} /\ ~(m.arg.number <= PingPongNumber)}

Bounded(f, S, kind) ==
  /\ \A n \in S : Len(f[n]) <= MaxQueue /\ None(f[n], Beyond)
  /\ IsFiniteSet(Places(f, S, kind))

\* Whatever has begun and is neither finished nor lost is in one of the queues.
PingInv ==
  /\ Bounded(tx, Roots, "ping") /\ Bounded(up, Nodes, "pong")
  /\ rallies = Cardinality(Places(tx, Roots, "ping")) + Cardinality(Places(up, Nodes, "pong"))

\* A step puts d messages of the kind into the queues.
Gains(f, g, S, kind, d) ==
  Bounded(g, S, kind) /\ Cardinality(Places(g, S, kind)) = Cardinality(Places(f, S, kind)) + d
TxGains(d) == Gains(tx, tx', Roots, "ping", d)
UpGains(d) == Gains(up, up', Nodes, "pong", d)

LEMMA PlacesCounted ==
  ASSUME NEW n, NEW T, NEW q \in Seq(T), NEW kind
  PROVE  IsFiniteSet(PlacesIn(n, q, kind)) /\ Cardinality(PlacesIn(n, q, kind)) = Count(q, kind)
<1> DEFINE I == {j \in DOMAIN q : q[j].kind = kind}
           f == [i \in I |-> <<n, i>>]
<1>1. IsFiniteSet(I) /\ Count(q, kind) = Cardinality(I)
  BY CountFacts DEF Count
<1> HIDE DEF I
<1>2. f \in Bijection(I, {<<n, i>> : i \in I})
  <2>1. f \in [I -> {<<n, i>> : i \in I}] /\ \A t \in {<<n, i>> : i \in I} : \E i \in I : f[i] = t
    OBVIOUS
  <2>2. \A i, j \in I : f[i] = f[j] => i = j
    OBVIOUS
  <2> QED BY <2>1, <2>2 DEF Bijection, Injection, Surjection, IsInjective
<1>3. ExistsBijection(I, {<<n, i>> : i \in I})
  BY <1>2 DEF ExistsBijection
<1>4. PlacesIn(n, q, kind) = {<<n, i>> : i \in I}
  BY DEF PlacesIn, I
<1> QED BY <1>1, <1>3, <1>4, FS_Bijection

\* One of the queues changes.
LEMMA QueueChanges ==
  ASSUME NEW S, NEW T, NEW f \in [S -> Seq(T)], NEW kind, Bounded(f, S, kind), NEW n \in S,
         NEW q \in Seq(T), Len(q) <= MaxQueue, None(q, Beyond), NEW g, g = [f EXCEPT ![n] = q]
  PROVE  Gains(f, g, S, kind, Count(q, kind) - Count(f[n], kind))
<1> DEFINE P == Places(f, S, kind)
           Q == Places(g, S, kind)
           others == {p \in P : p[1] # n}
           old == PlacesIn(n, f[n], kind)
           new == PlacesIn(n, q, kind)
<1>1. /\ f[n] \in Seq(T) /\ g[n] = q
      /\ \A k \in S : k # n => g[k] = f[k]
      /\ DOMAIN q = 1 .. Len(q) /\ DOMAIN f[n] = 1 .. Len(f[n])
      /\ Len(q) \in Nat /\ Len(f[n]) \in Nat /\ Len(f[n]) <= MaxQueue /\ MaxQueue \in Nat
  BY Constants DEF Bounded
<1>2. P = others \cup old
  <2>1. ASSUME NEW p \in P, p[1] = n PROVE p \in old
    <3>1. p = <<n, p[2]>> /\ p[2] \in DOMAIN f[n] /\ f[n][p[2]].kind = kind
      BY <2>1 DEF Places
    <3> QED BY <3>1 DEF PlacesIn
  <2>2. ASSUME NEW i \in DOMAIN f[n], f[n][i].kind = kind PROVE <<n, i>> \in P
    <3>1. i \in 1 .. MaxQueue
      BY <1>1
    <3> QED BY <2>2, <3>1 DEF Places
  <2>3. old \subseteq P
    BY <2>2 DEF PlacesIn
  <2> HIDE DEF old, P
  <2> QED BY <2>1, <2>3
<1>3. Q = others \cup new
  <2>1. ASSUME NEW p \in Q, p[1] = n PROVE p \in new
    <3>1. p = <<n, p[2]>> /\ p[2] \in DOMAIN q /\ q[p[2]].kind = kind
      BY <1>1, <2>1 DEF Places
    <3> QED BY <3>1 DEF PlacesIn
  <2>2. ASSUME NEW i \in DOMAIN q, q[i].kind = kind PROVE <<n, i>> \in Q
    <3>1. i \in 1 .. MaxQueue
      BY <1>1
    <3> QED BY <1>1, <2>2, <3>1 DEF Places
  <2>3. new \subseteq Q
    BY <2>2 DEF PlacesIn
  <2>4. ASSUME NEW p, p[1] # n PROVE p \in Q <=> p \in P
    <3>1. p \in S \X (1 .. MaxQueue) => g[p[1]] = f[p[1]]
      BY <1>1, <2>4
    <3> QED BY <3>1 DEF Places
  <2> HIDE DEF new, P, Q
  <2> QED BY <2>1, <2>3, <2>4
<1>4. /\ IsFiniteSet(old) /\ Cardinality(old) = Count(f[n], kind)
      /\ IsFiniteSet(new) /\ Cardinality(new) = Count(q, kind)
  BY <1>1, PlacesCounted
<1>5. IsFiniteSet(others) /\ Cardinality(others) \in Nat
  <2>1. IsFiniteSet(others)
    BY FS_Subset DEF Bounded
  <2> QED BY <2>1, FS_CardinalityType
<1>6. others \cap old = {} /\ others \cap new = {}
  BY DEF PlacesIn
<1>7. Count(f[n], kind) \in Nat /\ Count(q, kind) \in Nat
  BY <1>1, CountFacts
<1>8. \A k \in S : Len(g[k]) <= MaxQueue /\ None(g[k], Beyond)
  BY <1>1 DEF Bounded
<1> HIDE DEF others, old, new, P, Q
<1>9. Cardinality(P) = Cardinality(others) + Count(f[n], kind)
  <2>1. Cardinality(others \cup old) =
          Cardinality(others) + Cardinality(old) - Cardinality(others \cap old)
    BY <1>4, <1>5, FS_Union
  <2>2. Cardinality(others \cap old) = 0
    BY <1>6, FS_EmptySet
  <2> QED BY <1>2, <1>4, <1>5, <1>7, <2>1, <2>2
<1>10. IsFiniteSet(Q) /\ Cardinality(Q) = Cardinality(others) + Count(q, kind)
  <2>1. /\ IsFiniteSet(others \cup new)
        /\ Cardinality(others \cup new) =
             Cardinality(others) + Cardinality(new) - Cardinality(others \cap new)
    BY <1>4, <1>5, FS_Union
  <2>2. Cardinality(others \cap new) = 0
    BY <1>6, FS_EmptySet
  <2> QED BY <1>3, <1>4, <1>5, <1>7, <2>1, <2>2
<1>11. Cardinality(Q) = Cardinality(P) + (Count(q, kind) - Count(f[n], kind))
  BY <1>5, <1>7, <1>9, <1>10
<1> QED BY <1>8, <1>10, <1>11 DEF Gains, Bounded, P, Q

\* Nothing changes, one message is put into a queue, or the first one taken.
LEMMA NothingGained ==
  ASSUME NEW S, NEW f, NEW kind, Bounded(f, S, kind)
  PROVE  Cardinality(Places(f, S, kind)) \in Nat /\ Gains(f, f, S, kind, 0)
<1>1. Cardinality(Places(f, S, kind)) \in Nat
  BY FS_CardinalityType DEF Bounded
<1> QED BY <1>1 DEF Gains

LEMMA OneAdded ==
  ASSUME NEW S, NEW T, NEW f \in [S -> Seq(T)], NEW kind, Bounded(f, S, kind), NEW n \in S,
         NEW m \in T, m \notin Beyond, NEW g,
         g = [f EXCEPT ![n] = Queue(f[n], m)] \/ g = [f EXCEPT ![n] = QueueFirst(f[n], m)]
  PROVE  Gains(f, g, S, kind, IF m.kind = kind /\ ~Full(f[n]) THEN 1 ELSE 0)
<1>1. f[n] \in Seq(T) /\ Len(f[n]) <= MaxQueue /\ None(f[n], Beyond)
  BY DEF Bounded
<1>2. PICK q : (q = Queue(f[n], m) \/ q = QueueFirst(f[n], m)) /\ g = [f EXCEPT ![n] = q]
  OBVIOUS
<1> DEFINE p == f[n]
<1>p. p \in Seq(T) /\ Len(p) <= MaxQueue /\ None(p, Beyond) /\ (q = Queue(p, m) \/ q = QueueFirst(p, m))
  BY <1>1, <1>2
<1> HIDE DEF p
<1>3. /\ q \in Seq(T) /\ Len(q) <= MaxQueue
      /\ Count(q, kind) = Count(f[n], kind) + (IF m.kind = kind /\ ~Full(f[n]) THEN 1 ELSE 0)
  <2>1. q \in Seq(T) /\ Len(q) <= MaxQueue
    BY <1>p, PutCount
  <2>2. Count(q, kind) = Count(p, kind) + (IF m.kind = kind /\ ~Full(p) THEN 1 ELSE 0)
    BY <1>p, PutCount, SMTT(60)
  <2> QED BY <2>1, <2>2 DEF p
<1>4. None(q, Beyond)
  <2>1. None(Queue(p, m), Beyond) /\ None(QueueFirst(p, m), Beyond)
    BY <1>p, WordQueued
  <2> QED BY <1>p, <2>1
<1>5. Gains(f, g, S, kind, Count(q, kind) - Count(f[n], kind))
  BY <1>2, <1>3, <1>4, QueueChanges
<1>6. Count(f[n], kind) \in Nat
  BY <1>1, CountFacts
<1>7. Count(q, kind) - Count(f[n], kind) = IF m.kind = kind /\ ~Full(f[n]) THEN 1 ELSE 0
  BY <1>3, <1>6
<1> QED BY <1>5, <1>7

LEMMA OneTaken ==
  ASSUME NEW S, NEW T, NEW f \in [S -> Seq(T)], NEW kind, Bounded(f, S, kind), NEW n \in S,
         f[n] # <<>>, NEW g, g = [f EXCEPT ![n] = Tail(f[n])]
  PROVE  /\ Gains(f, g, S, kind, IF Head(f[n]).kind = kind THEN -1 ELSE 0)
         /\ Head(f[n]) \notin Beyond
<1> DEFINE q == Tail(f[n])
<1>1. f[n] \in Seq(T) /\ Len(f[n]) <= MaxQueue /\ None(f[n], Beyond)
  BY DEF Bounded
<1>2. Head(f[n]) \notin Beyond /\ None(q, Beyond)
  BY <1>1, WordTaken
<1>3. /\ q \in Seq(T) /\ Len(q) <= MaxQueue
      /\ Count(q, kind) = Count(f[n], kind) - (IF Head(f[n]).kind = kind THEN 1 ELSE 0)
  BY <1>1, TailCount
<1>4. g = [f EXCEPT ![n] = q]
  OBVIOUS
<1> HIDE DEF q
<1>5. Gains(f, g, S, kind, Count(q, kind) - Count(f[n], kind))
  BY <1>2, <1>3, <1>4, QueueChanges
<1>6. Count(f[n], kind) \in Nat
  BY <1>1, CountFacts
<1>7. Count(q, kind) - Count(f[n], kind) = IF Head(f[n]).kind = kind THEN -1 ELSE 0
  BY <1>3, <1>6
<1> QED BY <1>2, <1>5, <1>7

\* The history follows both.
LEMMA Follows ==
  ASSUME PingInv, NEW a \in Int, NEW b \in Int, TxGains(a), UpGains(b), rallies' = rallies + a + b
  PROVE  PingInv'
<1>1. /\ Cardinality(Places(tx, Roots, "ping")) \in Nat
      /\ Cardinality(Places(up, Nodes, "pong")) \in Nat
  BY NothingGained DEF PingInv
<1>2. rallies' = (Cardinality(Places(tx, Roots, "ping")) + a)
                 + (Cardinality(Places(up, Nodes, "pong")) + b)
  BY <1>1 DEF PingInv
<1>3. /\ Places(tx', Roots, "ping") = Places(tx, Roots, "ping")'
      /\ Places(up', Nodes, "pong") = Places(up, Nodes, "pong")'
  BY DEF Places
<1>4. Bounded(tx, Roots, "ping")' /\ Bounded(up, Nodes, "pong")'
  <2>1. Bounded(tx', Roots, "ping") /\ Bounded(up', Nodes, "pong")
    BY DEF TxGains, UpGains, Gains
  <2> QED BY <2>1, <1>3 DEF Bounded, None
<1> QED BY <1>2, <1>3, <1>4 DEF PingInv, TxGains, UpGains, Gains

\* The queues of the roots, and those of the nodes.
LEMMA TxOne ==
  ASSUME Typed, PingInv, NEW s \in Roots
  PROVE  /\ \A m \in DownMsgs \ Beyond : TxAdds(s, m) =>
              TxGains(IF m.kind = "ping" /\ ~Full(tx[s]) THEN 1 ELSE 0)
         /\ TxTakes(s) =>
              TxGains(IF Head(tx[s]).kind = "ping" THEN -1 ELSE 0) /\ Head(tx[s]) \notin Beyond
<1>t. tx \in [Roots -> Seq(DownMsgs)] /\ Bounded(tx, Roots, "ping")
  BY DEF Typed, PingInv
<1>1. ASSUME NEW m \in DownMsgs \ Beyond, TxAdds(s, m)
      PROVE  TxGains(IF m.kind = "ping" /\ ~Full(tx[s]) THEN 1 ELSE 0)
  <2>1. Gains(tx, tx', Roots, "ping", IF m.kind = "ping" /\ ~Full(tx[s]) THEN 1 ELSE 0)
    BY <1>t, <1>1, OneAdded DEF TxAdds
  <2> QED BY <2>1 DEF TxGains
<1>2. ASSUME TxTakes(s) PROVE TxGains(IF Head(tx[s]).kind = "ping" THEN -1 ELSE 0)
  <2>1. Gains(tx, tx', Roots, "ping", IF Head(tx[s]).kind = "ping" THEN -1 ELSE 0)
    BY <1>t, <1>2, OneTaken DEF TxTakes
  <2> QED BY <2>1 DEF TxGains
<1>3. ASSUME TxTakes(s) PROVE Head(tx[s]) \notin Beyond
  BY <1>t, <1>3, WordTaken DEF TxTakes, Bounded
<1> QED BY <1>1, <1>2, <1>3

LEMMA UpOne ==
  ASSUME Typed, PingInv, NEW n \in Nodes
  PROVE  /\ \A m \in UpMsgs \ Beyond : UpAdds(n, m) =>
              UpGains(IF m.kind = "pong" /\ ~Full(up[n]) THEN 1 ELSE 0)
         /\ UpTakes(n) =>
              UpGains(IF Head(up[n]).kind = "pong" THEN -1 ELSE 0) /\ Head(up[n]) \notin Beyond
<1>t. up \in [Nodes -> Seq(UpMsgs)] /\ Bounded(up, Nodes, "pong")
  BY DEF Typed, PingInv
<1>1. ASSUME NEW m \in UpMsgs \ Beyond, UpAdds(n, m)
      PROVE  UpGains(IF m.kind = "pong" /\ ~Full(up[n]) THEN 1 ELSE 0)
  <2>1. Gains(up, up', Nodes, "pong", IF m.kind = "pong" /\ ~Full(up[n]) THEN 1 ELSE 0)
    BY <1>t, <1>1, OneAdded DEF UpAdds
  <2> QED BY <2>1 DEF UpGains
<1>2. ASSUME UpTakes(n) PROVE UpGains(IF Head(up[n]).kind = "pong" THEN -1 ELSE 0)
  <2>1. Gains(up, up', Nodes, "pong", IF Head(up[n]).kind = "pong" THEN -1 ELSE 0)
    BY <1>t, <1>2, OneTaken DEF UpTakes
  <2> QED BY <2>1 DEF UpGains
<1>3. ASSUME UpTakes(n) PROVE Head(up[n]) \notin Beyond
  BY <1>t, <1>3, WordTaken DEF UpTakes, Bounded
<1> QED BY <1>1, <1>2, <1>3

\* Messages of other kinds come and go.
LEMMA OtherTx ==
  ASSUME Typed, PingInv, NEW K, TxBy(K), "ping" \notin K
  PROVE  TxGains(0)
<1>1. CASE tx' = tx
  BY <1>1, NothingGained DEF TxGains, PingInv
<1>2. ASSUME NEW s \in Roots, NEW m \in DownMsgs, m.kind \in K, TxAdds(s, m)
      PROVE  TxGains(0)
  <2>1. m.kind # "ping" /\ m \notin Beyond
    BY <1>2, DownKinds DEF Beyond
  <2>2. TxGains(IF m.kind = "ping" /\ ~Full(tx[s]) THEN 1 ELSE 0)
    BY <1>2, <2>1, TxOne
  <2> QED BY <2>1, <2>2
<1>3. ASSUME NEW s \in Roots, TxTakes(s), Head(tx[s]).kind \in K PROVE TxGains(0)
  <2>1. TxGains(IF Head(tx[s]).kind = "ping" THEN -1 ELSE 0)
    BY <1>3, TxOne
  <2>2. Head(tx[s]).kind # "ping"
    BY <1>3
  <2> QED BY <2>1, <2>2
<1> QED BY <1>1, <1>2, <1>3 DEF TxBy

LEMMA OtherUp ==
  ASSUME Typed, PingInv, NEW K, UpBy(K), "pong" \notin K
  PROVE  UpGains(0)
<1>1. CASE up' = up
  BY <1>1, NothingGained DEF UpGains, PingInv
<1>2. ASSUME NEW n \in Nodes, NEW m \in UpMsgs, m.kind \in K, UpAdds(n, m)
      PROVE  UpGains(0)
  <2>1. m.kind # "pong" /\ m \notin Beyond
    BY <1>2, UpKinds DEF Beyond
  <2>2. UpGains(IF m.kind = "pong" /\ ~Full(up[n]) THEN 1 ELSE 0)
    BY <1>2, <2>1, UpOne
  <2> QED BY <2>1, <2>2
<1>3. ASSUME NEW n \in Nodes, UpTakes(n), Head(up[n]).kind \in K PROVE UpGains(0)
  <2>1. UpGains(IF Head(up[n]).kind = "pong" THEN -1 ELSE 0)
    BY <1>3, UpOne
  <2>2. Head(up[n]).kind # "pong"
    BY <1>3
  <2> QED BY <2>1, <2>2
<1> QED BY <1>1, <1>2, <1>3 DEF UpBy

\* A ping is sent by a root.
LEMMA PingSent ==
  ASSUME Typed, PingInv, NEW s \in Roots, NEW n \in Nodes, NEW p \in PingArgs,
         p.number <= PingPongNumber,
         tx' = [tx EXCEPT ![s] = QueueFirst(@, Down("ping", n, p))]
  PROVE  TxGains(IF Full(tx[s]) THEN 0 ELSE 1)
<1> DEFINE m == Down("ping", n, p)
<1>1. m \in DownMsgs /\ m.kind = "ping"
  BY DownMade
<1>2. m \notin Beyond
  BY DEF Beyond, Down
<1>3. TxAdds(s, m)
  BY DEF TxAdds
<1> HIDE DEF m
<1>4. TxGains(IF m.kind = "ping" /\ ~Full(tx[s]) THEN 1 ELSE 0)
  BY <1>1, <1>2, <1>3, TxOne
<1> QED BY <1>1, <1>4

LEMMA PingTaken ==
  ASSUME Typed, PingInv, NEW s \in Roots, TxTakes(s), Head(tx[s]).kind = "ping"
  PROVE  TxGains(-1) /\ Arg(s) \in PingArgs /\ Arg(s).number <= PingPongNumber
<1>1. TxGains(IF Head(tx[s]).kind = "ping" THEN -1 ELSE 0) /\ Head(tx[s]) \notin Beyond
  BY TxOne
<1>2. Head(tx[s]) \in DownMsgs
  BY Heads DEF TxTakes
<1>3. Arg(s) \in PingArgs
  BY <1>2, DownKinds DEF Arg
<1>4. Arg(s).number <= PingPongNumber
  BY <1>1, <1>2 DEF Beyond, Arg
<1> QED BY <1>1, <1>3, <1>4

LEMMA PongTaken ==
  ASSUME Typed, PingInv, NEW n \in Nodes, UpTakes(n), Head(up[n]).kind = "pong"
  PROVE  UpGains(-1) /\ Content(n) \in PingArgs /\ Content(n).number <= PingPongNumber
<1>1. UpGains(IF Head(up[n]).kind = "pong" THEN -1 ELSE 0) /\ Head(up[n]) \notin Beyond
  BY UpOne
<1>2. Head(up[n]) \in UpMsgs
  BY Heads DEF UpTakes
<1>3. Content(n) \in PingArgs
  BY <1>2, UpKinds DEF Content
<1>4. Content(n).number <= PingPongNumber
  BY <1>1, <1>2 DEF Beyond, Content
<1> QED BY <1>1, <1>3, <1>4

\* The queues and the history do not change.
LEMMA Unmoved ==
  ASSUME Typed, PingInv
  PROVE  /\ rallies \in Int
         /\ tx' = tx => TxGains(0)
         /\ up' = up => UpGains(0)
<1>1. tx' = tx => TxBy({})
  BY DEF TxBy
<1>2. up' = up => UpBy({})
  BY DEF UpBy
<1>3. rallies \in Int
  BY NothingGained DEF PingInv
<1> QED BY <1>1, <1>2, <1>3, OtherTx, OtherUp

\* A rally begins with the first of its pings.
LEMMA RallyBegins ==
  ASSUME Typed, PingInv, NEW n \in Nodes, SendPing(n), up' = up
  PROVE  PingInv'
<1> DEFINE p == [number |-> 1, from |-> root]
<1>1. root \in Roots
  BY DEF Typed
<1>2. p \in PingArgs /\ p.number <= PingPongNumber
  BY <1>1, Constants DEF PingArgs
<1>3. tx' = [tx EXCEPT ![root] = QueueFirst(@, Down("ping", n, p))]
  BY DEF SendPing, SendFirst
<1> HIDE DEF p
<1>4. TxGains(IF Full(tx[root]) THEN 0 ELSE 1)
  BY <1>1, <1>2, <1>3, PingSent
<1>5. rallies' = rallies + (IF Full(tx[root]) THEN 0 ELSE 1) + 0
  BY Unmoved DEF SendPing
<1> QED BY <1>4, <1>5, Unmoved, Follows

\* A node sends the ping back.
LEMMA RallyAnswered ==
  ASSUME Typed, PingInv, NEW s \in Roots, OnPing(s)
  PROVE  PingInv'
<1> DEFINE n == To(s)
           m == Up("pong", Arg(s))
<1>1. TxTakes(s) /\ Head(tx[s]).kind = "ping" /\ n \in Nodes
  BY TxReceived DEF OnPing
<1>2. TxGains(-1) /\ Arg(s) \in PingArgs /\ Arg(s).number <= PingPongNumber
  BY <1>1, PingTaken
<1>3. m \in UpMsgs /\ m.kind = "pong"
  BY <1>2, UpMade
<1>4. m \notin Beyond
  BY <1>2 DEF Beyond, Up
<1>5. UpAdds(n, m) /\ rallies' = IF Full(up[n]) THEN rallies - 1 ELSE rallies
  BY DEF OnPing, UpAdds
<1> HIDE DEF n, m
<1>6. UpGains(IF m.kind = "pong" /\ ~Full(up[n]) THEN 1 ELSE 0)
  BY <1>1, <1>3, <1>4, <1>5, UpOne
<1>7. UpGains(IF Full(up[n]) THEN 0 ELSE 1)
  BY <1>3, <1>6
<1>8. rallies' = rallies + (-1) + (IF Full(up[n]) THEN 0 ELSE 1)
  BY <1>5, Unmoved
<1> QED BY <1>2, <1>7, <1>8, Follows

\* A pong goes on as the next ping, or the rally ends.
LEMMA RallyGoesOn ==
  ASSUME Typed, PingInv, NEW n \in Nodes, HearPong(n)
  PROVE  PingInv'
<1> DEFINE goesOn == n \in {registry'[i] : i \in DOMAIN registry'} /\ Content(n).number < PingPongNumber
           p == [Content(n) EXCEPT !.number = @ + 1]
<1>1. UpTakes(n) /\ Head(up[n]).kind = "pong"
  BY UpActions DEF HearPong
<1>2. UpGains(-1) /\ Content(n) \in PingArgs
  BY <1>1, PongTaken
<1>3. p \in PingArgs /\ (goesOn => p.number <= PingPongNumber)
  BY <1>2, Constants DEF PingArgs
<1>4. /\ goesOn => /\ tx' = [tx EXCEPT ![root] = QueueFirst(@, Down("ping", n, p))]
                   /\ rallies' = IF Full(tx[root]) THEN rallies - 1 ELSE rallies
      /\ ~goesOn => tx' = tx /\ rallies' = rallies - 1
  BY DEF HearPong, SendFirst
<1> HIDE DEF goesOn, p
<1>5. root \in Roots
  BY DEF Typed
<1>6. CASE goesOn
  <2>1. TxGains(IF Full(tx[root]) THEN 0 ELSE 1)
    BY <1>3, <1>4, <1>5, <1>6, PingSent
  <2>2. rallies' = rallies + (IF Full(tx[root]) THEN 0 ELSE 1) + (-1)
    BY <1>4, <1>6, Unmoved
  <2> QED BY <1>2, <2>1, <2>2, Follows
<1>7. CASE ~goesOn
  <2>1. TxGains(0) /\ rallies' = rallies + 0 + (-1)
    BY <1>4, <1>7, Unmoved
  <2> QED BY <1>2, <2>1, Follows
<1> QED BY <1>6, <1>7

\* A former root sends it back as well.
LEMMA RallyEchoed ==
  ASSUME Typed, PingInv, NEW n \in Nodes, EchoPong(n)
  PROVE  PingInv'
<1> DEFINE p == Content(n)
<1>1. UpTakes(n) /\ Head(up[n]).kind = "pong"
  BY DEF EchoPong, UpTakes
<1>2. UpGains(-1) /\ p \in PingArgs /\ p.number <= PingPongNumber /\ p.from \in Roots
  BY <1>1, PongTaken DEF PingArgs
<1>3. /\ tx' = [tx EXCEPT ![p.from] = QueueFirst(@, Down("ping", n, p))]
      /\ rallies' = IF Full(tx[p.from]) THEN rallies - 1 ELSE rallies
  BY DEF EchoPong
<1> HIDE DEF p
<1>4. TxGains(IF Full(tx[p.from]) THEN 0 ELSE 1)
  BY <1>2, <1>3, PingSent
<1>5. rallies' = rallies + (IF Full(tx[p.from]) THEN 0 ELSE 1) + (-1)
  BY <1>3, Unmoved
<1> QED BY <1>2, <1>4, <1>5, Follows

\* The actions that begin, answer, end and lose none.
LEMMA RalliesKept ==
  /\ Relay => rallies' = rallies
  /\ \A n \in Nodes : Announce(n) \/ Status(n) \/ Gesture(n) \/ HearType(n) \/ HearState(n)
                      \/ HearStatus(n) \/ UpdateDevice(n) => rallies' = rallies
  /\ \A r \in Relays : RelayCommand(r) => rallies' = rallies
  /\ \A s \in Roots : OnSync(s) \/ OnSwitchCommand(s) \/ OnTimeCommand(s) \/ OnUpdateOrder(s)
                      \/ SendFails(s) => rallies' = rallies
  /\ UpdateSlot \/ UpdateEnd \/ AutoOffItem \/ UpdateAll \/ AutoOff \/ PingAll \/ OutOfMemory
     \/ MemoryBack \/ MqttDown \/ MqttUp \/ NewBackend \/ UNCHANGED vars => rallies' = rallies
<1> USE DEF history
<1>1. Relay => rallies' = rallies
  BY DEF Relay, Look, Report, TimerFires
<1>2. /\ \A n \in Nodes : Announce(n) \/ Status(n) \/ Gesture(n) \/ HearType(n) \/ HearState(n)
                          \/ HearStatus(n) \/ UpdateDevice(n) => rallies' = rallies
      /\ \A r \in Relays : RelayCommand(r) => rallies' = rallies
  BY DEF Announce, Status, Gesture, HearType, HearState, HearStatus, UpdateDevice, RelayCommand
<1>3. \A s \in Roots : OnSync(s) \/ OnSwitchCommand(s) \/ OnTimeCommand(s) \/ OnUpdateOrder(s)
                       \/ SendFails(s) => rallies' = rallies
  BY DEF OnSync, OnSwitchCommand, OnTimeCommand, OnUpdateOrder, SendFails
<1>4. UpdateSlot \/ UpdateEnd \/ AutoOffItem \/ UpdateAll \/ AutoOff \/ PingAll \/ OutOfMemory
      \/ MemoryBack \/ MqttDown \/ MqttUp \/ NewBackend \/ UNCHANGED vars => rallies' = rallies
  BY DEF UpdateSlot, UpdateEnd, AutoOffItem, UpdateAll, AutoOff, PingAll, OutOfMemory, MemoryBack,
         MqttDown, MqttUp, NewBackend, vars
<1> QED BY <1>1, <1>2, <1>3, <1>4

\* A node restarts, and what it had queued is lost.
LEMMA RalliesOfNode ==
  ASSUME Typed, PingInv, NEW n \in Nodes, Update(n)
  PROVE  PingInv'
<1> DEFINE m == Up("type", Kind(n))
           q == <<m>>
           d == Count(q, "pong") - Count(up[n], "pong")
<1>t. up \in [Nodes -> Seq(UpMsgs)] /\ up[n] \in Seq(UpMsgs) /\ Bounded(up, Nodes, "pong")
  BY DEF Typed, PingInv
<1>1. m \in UpMsgs /\ m.kind = "type"
  BY Constants, UpMade
<1>2. /\ up' = [up EXCEPT ![n] = q] /\ tx' = tx
      /\ rallies' = rallies - Count(up[n], "pong")
  BY DEF Update, rootVars
<1> HIDE DEF m
<1>3. q \in Seq(UpMsgs) /\ Len(q) = 1 /\ q[1] = m /\ DOMAIN q = {1}
  BY <1>1
<1> HIDE DEF q
<1>4. None(q, Beyond)
  BY <1>1, <1>3 DEF None, Beyond
<1>5. Count(q, "pong") = 0
  <2>1. {i \in DOMAIN q : q[i].kind = "pong"} = {}
    BY <1>1, <1>3
  <2> QED BY <2>1, FS_EmptySet DEF Count
<1>6. Gains(up, up', Nodes, "pong", d)
  BY <1>t, <1>2, <1>3, <1>4, Constants, QueueChanges
<1>7. Count(up[n], "pong") \in Nat
  BY <1>t, CountFacts
<1>8. d \in Int /\ rallies' = rallies + 0 + d
  BY <1>2, <1>5, <1>7, Unmoved
<1>9. UpGains(d) /\ TxGains(0)
  BY <1>2, <1>6, Unmoved DEF UpGains
<1> HIDE DEF d
<1> QED BY <1>8, <1>9, Follows

\* The present root has no power, and another one takes its place.
LEMMA RalliesOfRoot ==
  ASSUME Typed, PingInv, RootChange
  PROVE  PingInv'
<1> DEFINE d(q) == Count(q, "ping") - Count(tx[root], "ping")
<1>t. /\ tx \in [Roots -> Seq(DownMsgs)] /\ root \in Roots /\ tx[root] \in Seq(DownMsgs)
      /\ Bounded(tx, Roots, "ping")
  BY DEF Typed, PingInv
<1>0. up' = up
  BY DEF RootChange, nodeVars
<1>1. CASE tx' = tx /\ rallies' = rallies
  <2>1. rallies' = rallies + 0 + 0
    BY <1>1, Unmoved
  <2> QED BY <1>0, <1>1, <2>1, Unmoved, Follows
<1>2. CASE /\ tx' = [tx EXCEPT ![root] = <<>>]
           /\ rallies' = rallies - Count(tx[root], "ping")
  <2>0. <<>> \in Seq(DownMsgs)
    OBVIOUS
  <2>1. PICK q \in Seq(DownMsgs) : q = <<>>
    BY <2>0, Zenon
  <2>2. Len(q) <= MaxQueue /\ None(q, Beyond) /\ tx' = [tx EXCEPT ![root] = q]
    BY <1>2, <2>1, Constants DEF None
  <2>3. Count(q, "ping") = 0
    BY <2>1, CountEmpty
  <2>4. Gains(tx, tx', Roots, "ping", Count(q, "ping") - Count(tx[root], "ping"))
    BY <1>t, <2>2, QueueChanges
  <2>5. Count(tx[root], "ping") \in Nat
    BY <1>t, CountFacts
  <2>6. d(q) \in Int /\ TxGains(d(q)) /\ rallies' = rallies + d(q) + 0
    BY <1>2, <2>3, <2>4, <2>5, Unmoved DEF TxGains
  <2> HIDE DEF d
  <2> QED BY <1>0, <2>6, Unmoved, Follows
<1> QED BY <1>1, <1>2 DEF RootChange

LEMMA RalliesLost ==
  ASSUME Typed, PingInv
  PROVE  /\ \A n \in Nodes : LoseUp(n) => PingInv'
         /\ \A s \in Roots : LoseDown(s) => PingInv'
<1>1. ASSUME NEW n \in Nodes, LoseUp(n) PROVE PingInv'
  <2>1. /\ UpTakes(n) /\ Head(up[n]).kind \in {"type", "state", "status", "pong"}
        /\ tx' = tx /\ UpBy({Head(up[n]).kind})
    BY <1>1, UpActions, UpKinds DEF LoseUp, rootVars
  <2>2. rallies' = IF Head(up[n]).kind = "pong" THEN rallies - 1 ELSE rallies
    BY <1>1, <2>1 DEF LoseUp, Lost
  <2>3. CASE Head(up[n]).kind = "pong"
    <3>1. UpGains(-1) /\ TxGains(0)
      BY <2>1, <2>3, PongTaken, Unmoved
    <3>2. rallies' = rallies + 0 + (-1)
      BY <2>2, <2>3, Unmoved
    <3> QED BY <3>1, <3>2, Follows
  <2>4. CASE Head(up[n]).kind # "pong"
    <3>1. UpGains(0) /\ TxGains(0)
      BY <2>1, <2>4, OtherUp, Unmoved
    <3>2. rallies' = rallies + 0 + 0
      BY <2>2, <2>4, Unmoved
    <3> QED BY <3>1, <3>2, Follows
  <2> QED BY <2>3, <2>4
<1>2. ASSUME NEW s \in Roots, LoseDown(s) PROVE PingInv'
  <2>1. /\ TxTakes(s) /\ Head(tx[s]).kind \in {"sync", "switch", "time", "update", "ping"}
        /\ up' = up /\ TxBy({Head(tx[s]).kind})
    BY <1>2, TxReceived, DownKinds DEF LoseDown, nodeVars
  <2>2. rallies' = IF Head(tx[s]).kind = "ping" THEN rallies - 1 ELSE rallies
    BY <1>2, <2>1 DEF LoseDown, Lost
  <2>3. CASE Head(tx[s]).kind = "ping"
    <3>1. TxGains(-1) /\ UpGains(0)
      BY <2>1, <2>3, PingTaken, Unmoved
    <3>2. rallies' = rallies + (-1) + 0
      BY <2>2, <2>3, Unmoved
    <3> QED BY <3>1, <3>2, Follows
  <2>4. CASE Head(tx[s]).kind # "ping"
    <3>1. TxGains(0) /\ UpGains(0)
      BY <2>1, <2>4, OtherTx, Unmoved
    <3>2. rallies' = rallies + 0 + 0
      BY <2>2, <2>4, Unmoved
    <3> QED BY <3>1, <3>2, Follows
  <2> QED BY <2>3, <2>4
<1> QED BY <1>1, <1>2

LEMMA NextPing ==
  ASSUME Typed, PingInv, [Next]_vars
  PROVE  PingInv'
<1>0. ASSUME TxGains(0), UpGains(0), rallies' = rallies PROVE PingInv'
  <2>1. rallies' = rallies + 0 + 0
    BY <1>0, Unmoved
  <2> QED BY <1>0, <2>1, Follows
<1>1. ASSUME Relay PROVE PingInv'
  <2>1. tx' = tx /\ (UpBy({"state"}) \/ up' = up)
    BY <1>1, TxOthers, UpActions, UpOthers DEF Relay
  <2> QED BY <1>0, <1>1, <2>1, OtherUp, Unmoved, RalliesKept
<1>2. ASSUME NEW n \in Nodes, Announce(n) \/ Status(n) \/ Gesture(n) PROVE PingInv'
  <2>1. tx' = tx /\ (UpBy({"type"}) \/ UpBy({"status"}) \/ up' = up)
    BY <1>2, TxOthers, UpActions, UpOthers
  <2> QED BY <1>0, <1>2, <2>1, OtherUp, Unmoved, RalliesKept
<1>3. ASSUME NEW n \in Nodes, HearType(n) \/ HearState(n) \/ HearStatus(n) PROVE PingInv'
  <2>1. TxBy({"sync"}) \/ tx' = tx
    BY <1>3, TxActions, TxOthers
  <2>2. UpBy({"type"}) \/ UpBy({"state"}) \/ UpBy({"status"})
    BY <1>3, UpHeard
  <2>3. TxGains(0) /\ UpGains(0)
    BY <2>1, <2>2, OtherTx, OtherUp, Unmoved
  <2> QED BY <1>0, <1>3, <2>3, RalliesKept
<1>4. ASSUME NEW n \in Nodes, UpdateDevice(n) PROVE PingInv'
  <2>1. TxBy({"update"}) /\ up' = up
    BY <1>4, TxActions, UpOthers
  <2> QED BY <1>0, <1>4, <2>1, OtherTx, Unmoved, RalliesKept
<1>5. ASSUME NEW r \in Relays, RelayCommand(r) PROVE PingInv'
  <2>1. TxBy({"switch", "sync"}) /\ up' = up
    BY <1>5, TxActions, UpOthers
  <2> QED BY <1>0, <1>5, <2>1, OtherTx, Unmoved, RalliesKept
<1>6. ASSUME NEW s \in Roots,
             OnSync(s) \/ OnSwitchCommand(s) \/ OnTimeCommand(s) \/ OnUpdateOrder(s) \/ SendFails(s)
      PROVE  PingInv'
  <2>1. TxBy({"sync"}) \/ TxBy({"switch"}) \/ TxBy({"time"}) \/ TxBy({"update"})
    BY <1>6, TxNode, TxReceived
  <2>2. TxGains(0)
    BY <2>1, OtherTx
  <2>3. up' = up
    BY <1>6, UpOthers
  <2> QED BY <1>0, <1>6, <2>2, <2>3, Unmoved, RalliesKept
<1>7. ASSUME \/ UpdateSlot \/ UpdateEnd \/ AutoOffItem \/ UpdateAll \/ AutoOff \/ PingAll
             \/ OutOfMemory \/ MemoryBack \/ MqttDown \/ MqttUp \/ NewBackend \/ UNCHANGED vars
      PROVE  PingInv'
  <2>1. TxBy({"update"}) \/ TxBy({"time"}) \/ tx' = tx
    BY <1>7, TxActions, TxOthers
  <2>2. up' = up
    BY <1>7, UpOthers
  <2> QED BY <1>0, <1>7, <2>1, <2>2, OtherTx, Unmoved, RalliesKept
<1>8. ASSUME NEW n \in Nodes, Ping(n) PROVE PingInv'
  <2>1. up' = up /\ (SendPing(n) \/ (tx' = tx /\ rallies' = rallies))
    BY <1>8, UpOthers DEF Ping
  <2> QED BY <1>0, <2>1, RallyBegins, Unmoved
<1>9. ASSUME PingItem PROVE PingInv'
  <2>1. job \in [kind : {"ping"}, todo : Seq(Nodes) \ {<<>>}]
    BY <1>9 DEF PingItem, Typed, JobTyped
  <2>2. job.todo \in Seq(Nodes) /\ job.todo # <<>>
    BY <2>1
  <2>3. Item \in Nodes
    BY <2>2, TailFacts DEF Item
  <2>4. SendPing(Item) /\ up' = up
    BY <1>9, UpOthers DEF PingItem
  <2> QED BY <2>3, <2>4, RallyBegins
<1> QED BY <1>1, <1>2, <1>3, <1>4, <1>5, <1>6, <1>7, <1>8, <1>9, RallyAnswered, RallyGoesOn,
           RallyEchoed, RalliesOfNode, RalliesOfRoot, RalliesLost
        DEF Next, Node, RootRx, MqttTask

LEMMA InitPing == Init => PingInv
<1> SUFFICES ASSUME Init PROVE PingInv
  OBVIOUS
<1>1. tx = [s \in Roots |-> <<>>] /\ up = [n \in Nodes |-> <<>>] /\ rallies = 0
  BY DEF Init
<1>2. Places(tx, Roots, "ping") = {} /\ Places(up, Nodes, "pong") = {}
  BY <1>1 DEF Places
<1>3. (\A s \in Roots : tx[s] = <<>>) /\ (\A n \in Nodes : up[n] = <<>>)
  BY <1>1
<1>4. Len(<<>>) = 0 /\ 0 <= MaxQueue /\ None(<<>>, Beyond)
  BY Constants DEF None
<1>5. Cardinality({}) = 0 /\ IsFiniteSet({})
  BY FS_EmptySet
<1>6. Bounded(tx, Roots, "ping") /\ Bounded(up, Nodes, "pong")
  BY <1>2, <1>3, <1>4, <1>5 DEF Bounded
<1>7. Cardinality(Places(tx, Roots, "ping")) = 0 /\ Cardinality(Places(up, Nodes, "pong")) = 0
  BY <1>2, <1>5
<1>8. rallies = Cardinality(Places(tx, Roots, "ping")) + Cardinality(Places(up, Nodes, "pong"))
  <2>1. rallies = 0
    BY <1>1
  <2> QED BY <1>7, <2>1
<1> QED BY <1>6, <1>8 DEF PingInv

THEOREM PingHolds == Spec => []PingInv
<1>1. Typed /\ PingInv /\ [Next]_vars => PingInv'
  BY NextPing
<1> QED BY <1>1, InitPing, TypedHolds, PTL DEF Spec

\* A ping that was begun is in one place, a queue of a root or of a node, until it is
\* lost, refused or answered for the last time, whoever is the root meanwhile, and none
\* is sent beyond that number.
THEOREM PingsHold == Spec => []PingsAccounted
<1>1. Typed /\ PingInv => PingsAccounted
  <2> SUFFICES ASSUME Typed, PingInv PROVE PingsAccounted
    OBVIOUS
  <2>1. ASSUME NEW p \in Places(tx, Roots, "ping") PROVE tx[p[1]][p[2]].arg.number <= PingPongNumber
    <3>1. p[1] \in Roots /\ p[2] \in DOMAIN tx[p[1]] /\ tx[p[1]][p[2]].kind = "ping"
      BY DEF Places
    <3>2. tx[p[1]] \in Seq(DownMsgs) /\ None(tx[p[1]], Beyond)
      BY <3>1 DEF Typed, PingInv, Bounded
    <3>3. p[2] \in 1 .. Len(tx[p[1]])
      BY <3>1, <3>2
    <3>4. tx[p[1]][p[2]] \in DownMsgs \ Beyond
      BY <3>2, <3>3 DEF None
    <3> QED BY <3>1, <3>4 DEF Beyond
  <2> QED BY <2>1 DEF PingsAccounted, PingInv, Places
<1> QED BY <1>1, PingHolds, TypedHolds, PTL

-----------------------------------------------------------------------------
(* The rest of the types *)

RestTyped ==
  /\ inputs \in 0 .. MaxInputs /\ faults \in 0 .. MaxFaults /\ oom \in BOOLEAN
  /\ mqttOn \in BOOLEAN /\ pings \subseteq Nodes

LEMMA NextBounds ==
  ASSUME RestTyped, [Next]_vars
  PROVE  inputs' \in 0 .. MaxInputs /\ faults' \in 0 .. MaxFaults /\ oom' \in BOOLEAN
<1>0. /\ MaxInputs \in Nat /\ MaxFaults \in Nat
      /\ inputs \in 0 .. MaxInputs /\ faults \in 0 .. MaxFaults
  BY RegistryAssumption DEF RestTyped
<1>b. oom \in BOOLEAN
  BY DEF RestTyped
<1>1. Input \/ Fault \/ Neither \/ OutOfMemory \/ MemoryBack
  <2>1. Relay => Neither
    BY DEF Relay, Look, Report, TimerFires
  <2>2. \A n \in Nodes : Announce(n) \/ Status(n) \/ Gesture(n) \/ UpdateDevice(n) => Input
    BY DEF Announce, Status, Gesture, UpdateDevice
  <2>3. \A n \in Nodes : Update(n) \/ RootRx(n) \/ EchoPong(n) => Neither
    BY DEF Update, RootRx, HearType, HearState, HearStatus, HearPong, Heard, EchoPong
  <2>4. \A s \in Roots : Node(s) => Neither
    BY DEF Node, OnSync, OnSwitchCommand, OnTimeCommand, OnUpdateOrder, OnPing, Received, SendFails
  <2>5. MqttTask => Neither
    BY DEF MqttTask, UpdateSlot, UpdateEnd, AutoOffItem, PingItem, Ping
  <2>6. (\E r \in Relays : RelayCommand(r)) \/ UpdateAll \/ AutoOff \/ PingAll => Input
    BY DEF RelayCommand, UpdateAll, AutoOff, PingAll
  <2>7. /\ \A n \in Nodes : LoseUp(n) => Fault
        /\ \A s \in Roots : LoseDown(s) => Fault
        /\ MqttDown \/ RootChange \/ NewBackend => Fault
        /\ MqttUp => Neither
    BY DEF LoseUp, LoseDown, MqttDown, RootChange, NewBackend, MqttUp
  <2>8. UNCHANGED vars => Neither
    BY DEF vars, Neither
  <2> QED BY <2>1, <2>2, <2>3, <2>4, <2>5, <2>6, <2>7, <2>8 DEF Next
<1>2. CASE Input \/ Fault \/ Neither
  <2>1. inputs' \in 0 .. MaxInputs /\ faults' \in 0 .. MaxFaults
    BY <1>0, <1>2 DEF Input, Fault, Neither
  <2>2. oom' = oom
    BY <1>2 DEF Input, Fault, Neither
  <2>3. oom' \in BOOLEAN
    BY <1>b, <2>2, Zenon
  <2> QED BY <2>1, <2>3
<1>3. CASE OutOfMemory
  BY <1>0, <1>3 DEF OutOfMemory
<1>4. CASE MemoryBack
  BY <1>0, <1>4 DEF MemoryBack
<1> QED BY <1>1, <1>2, <1>3, <1>4

\* The actions that leave the connection and the pings asked for alone.
LEMMA MqttKept ==
  /\ Relay => UNCHANGED <<mqttOn, pings>>
  /\ \A n \in Nodes : Announce(n) \/ Status(n) \/ Gesture(n) \/ Update(n) \/ HearType(n)
                      \/ HearState(n) \/ HearPong(n) \/ EchoPong(n) \/ UpdateDevice(n) \/ LoseUp(n)
                        => UNCHANGED <<mqttOn, pings>>
  /\ \A r \in Relays : RelayCommand(r) => UNCHANGED <<mqttOn, pings>>
  /\ \A s \in Roots : Node(s) \/ LoseDown(s) => UNCHANGED <<mqttOn, pings>>
  /\ UpdateSlot \/ UpdateEnd \/ AutoOffItem \/ PingItem \/ UpdateAll \/ AutoOff \/ PingAll
     \/ OutOfMemory \/ MemoryBack \/ UNCHANGED vars => UNCHANGED <<mqttOn, pings>>
<1> USE DEF rootVars
<1>1. Relay => UNCHANGED <<mqttOn, pings>>
  BY DEF Relay, Look, Report, TimerFires
<1>2. /\ \A n \in Nodes : Announce(n) \/ Status(n) \/ Gesture(n) \/ Update(n) \/ HearType(n)
                          \/ HearState(n) \/ HearPong(n) \/ EchoPong(n) \/ UpdateDevice(n)
                          \/ LoseUp(n) => UNCHANGED <<mqttOn, pings>>
      /\ \A r \in Relays : RelayCommand(r) => UNCHANGED <<mqttOn, pings>>
  BY DEF Announce, Status, Gesture, Update, HearType, HearState, HearPong, EchoPong, UpdateDevice,
         LoseUp, RelayCommand
<1>3. \A s \in Roots : Node(s) \/ LoseDown(s) => UNCHANGED <<mqttOn, pings>>
  BY DEF Node, OnSync, OnSwitchCommand, OnTimeCommand, OnUpdateOrder, OnPing, SendFails, LoseDown
<1>4. UpdateSlot \/ UpdateEnd \/ AutoOffItem \/ PingItem \/ UpdateAll \/ AutoOff \/ PingAll
      \/ OutOfMemory \/ MemoryBack \/ UNCHANGED vars => UNCHANGED <<mqttOn, pings>>
  BY DEF UpdateSlot, UpdateEnd, AutoOffItem, PingItem, UpdateAll, AutoOff, PingAll, OutOfMemory,
         MemoryBack, vars
<1> QED BY <1>1, <1>2, <1>3, <1>4

LEMMA NextRest ==
  ASSUME Typed, RestTyped, [Next]_vars
  PROVE  RestTyped'
<1> DEFINE Good == mqttOn' \in BOOLEAN /\ pings' \subseteq Nodes
<1>b. mqttOn \in BOOLEAN
  BY DEF RestTyped
<1>p. pings \subseteq Nodes
  BY DEF RestTyped
<1>0. ASSUME mqttOn' = mqttOn, pings' \subseteq Nodes PROVE Good
  <2>1. mqttOn' \in BOOLEAN
    BY <1>b, <1>0, Zenon
  <2> QED BY <1>0, <2>1
<1>1. ASSUME UNCHANGED <<mqttOn, pings>> PROVE Good
  BY <1>0, <1>1, <1>p
<1>2. ASSUME NEW n \in Nodes, HearStatus(n) \/ Ping(n) PROVE Good
  <2>1. mqttOn' = mqttOn
    BY <1>2 DEF HearStatus, Ping
  <2>2. pings' \subseteq pings \cup {n}
    BY <1>2 DEF HearStatus, Ping
  <2> QED BY <1>0, <1>p, <2>1, <2>2
<1>3. ASSUME NewBackend PROVE Good
  BY <1>0, <1>3 DEF NewBackend
<1>4. ASSUME MqttDown \/ RootChange PROVE Good
  BY <1>4 DEF MqttDown, RootChange
<1>5. ASSUME MqttUp PROVE Good
  BY <1>5, <1>p DEF MqttUp
<1> HIDE DEF Good
<1>6. Good
  BY <1>1, <1>2, <1>3, <1>4, <1>5, MqttKept DEF Next, RootRx, MqttTask
<1> QED BY <1>6, NextBounds DEF RestTyped, Good

\* A node has one slot of the registry.
LEMMA SlotsCounted ==
  ASSUME Typed, OrderInv
  PROVE  Len(registry) = Cardinality(Registered)
<1> DEFINE I == 1 .. Len(registry)
           f == [i \in I |-> registry[i]]
<1>0. registry \in Seq(Nodes) /\ Len(registry) \in Nat /\ DOMAIN registry = I
  BY DEF Typed
<1>1. IsFiniteSet(I) /\ Cardinality(I) = Len(registry)
  <2>1. Cardinality(I) = IF 1 > Len(registry) THEN 0 ELSE Len(registry) - 1 + 1
    BY <1>0, FS_Interval
  <2> QED BY <1>0, <2>1, FS_Interval
<1>2. Registered = {registry[i] : i \in I}
  BY <1>0 DEF Registered
<1>3. \A i, j \in I : registry[i] = registry[j] => i = j
  BY DEF OrderInv, Distinct
<1> HIDE DEF I
<1>4. f \in Bijection(I, Registered)
  <2>1. f \in [I -> Registered] /\ \A t \in Registered : \E i \in I : f[i] = t
    BY <1>2
  <2>2. \A i, j \in I : f[i] = f[j] => i = j
    BY <1>3
  <2> QED BY <2>1, <2>2 DEF Bijection, Injection, Surjection, IsInjective
<1>5. ExistsBijection(I, Registered)
  BY <1>4 DEF ExistsBijection
<1> QED BY <1>1, <1>5, FS_Bijection

\* The values of the variables, the bounds of the registry and of the queues, and that a
\* node has one slot of the registry.
THEOREM RegistryTypes == Spec => []TypeOK
<1>1. Init => RestTyped
  <2>1. 0 \in 0 .. MaxInputs /\ 0 \in 0 .. MaxFaults
    BY RegistryAssumption
  <2> QED BY <2>1 DEF Init, RestTyped
<1>2. Typed /\ RestTyped /\ [Next]_vars => RestTyped'
  BY NextRest
<1>3. Typed /\ OrderInv /\ BackendInv /\ TimeInv /\ PingInv /\ RestTyped => TypeOK
  <2> SUFFICES ASSUME Typed, OrderInv, BackendInv, TimeInv, PingInv, RestTyped PROVE TypeOK
    OBVIOUS
  <2>1. DeviceTypeOK
    BY DEF Typed, BackendInv, DeviceTypeOK
  <2>2. registry \in Seq(Nodes) /\ Len(registry) = Cardinality(Registered) /\ Len(registry) <= MaxNodes
    BY SlotsCounted DEF Typed, OrderInv
  <2>3. (\A s \in Roots : Len(tx[s]) <= MaxQueue) /\ (\A n \in Nodes : Len(up[n]) <= MaxQueue)
    BY DEF PingInv, Bounded
  <2>4. \A s \in Roots : \A i \in DOMAIN tx[s] : tx[s][i].to \in Nodes \cup {Nowhere}
    <3> SUFFICES ASSUME NEW s \in Roots, NEW i \in DOMAIN tx[s]
                 PROVE  tx[s][i].to \in Nodes \cup {Nowhere}
      OBVIOUS
    <3>1. tx[s] \in Seq(DownMsgs)
      BY Heads
    <3>2. tx[s][i] \in DownMsgs
      BY <3>1, ElementOfSeq
    <3> QED BY <3>2, DownKinds
  <2>5. job.kind \in {"idle", "autoOff", "update", "ping"}
    BY DEF Typed, JobTyped
  <2>6. DOMAIN due \subseteq Outputs
    BY DEF TimeInv
  <2>7. rallies \in Nat
    BY NothingGained DEF PingInv
  <2>8. root \in Roots /\ out \in [Outputs -> OnOff] /\ times \in [Outputs -> Times]
    BY DEF Typed
  <2>9. /\ todo \in [Tasks -> SUBSET Outputs]
        /\ seen \in [Tasks -> SUBSET [of : Outputs, state : OnOff]]
    BY DEF Typed, StateArgs
  <2>10. /\ wants \in [Nodes -> BOOLEAN] /\ version \in [Nodes -> 0 .. MaxFirmware]
         /\ stale \subseteq Outputs /\ greeted \subseteq Outputs /\ named \subseteq Kinds \cup Nodes
    BY DEF Typed
  <2>11. /\ inputs \in 0 .. MaxInputs /\ faults \in 0 .. MaxFaults /\ oom \in BOOLEAN
         /\ mqttOn \in BOOLEAN /\ pings \subseteq Nodes
    BY DEF RestTyped
  <2> QED BY <2>1, <2>2, <2>3, <2>4, <2>5, <2>6, <2>7, <2>8, <2>9, <2>10, <2>11, Zenon DEF TypeOK
<1> QED BY <1>1, <1>2, <1>3, TypedHolds, OrderHolds, BackendHolds, TimeHolds, PingHolds, PTL DEF Spec
====
