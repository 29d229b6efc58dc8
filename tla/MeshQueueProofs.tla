--------------------------- MODULE MeshQueueProofs ---------------------------
(***************************************************************************)
(* Proofs about MeshQueue, for every number of senders, length of the      *)
(* queue, number of attempts and number of messages.                       *)
(*                                                                         *)
(* The invariant says where the items of a task are: the one the task is   *)
(* offering is not accepted yet, and newer than those accepted if it is a  *)
(* normal one; no item is in two places; and the normal items of a task    *)
(* stand in the queue oldest first, behind the one being sent, all of them *)
(* newer than the last one sent.                                           *)
(***************************************************************************)
EXTENDS MeshQueue, FiniteSetTheorems, SequenceTheorems, TLAPS

Callers == {p \in Senders : attempt[p] > 0}

\* Nothing happens to the queue before it exists.
Unborn ==
  ~created => queue = <<>> /\ sending = <<>> /\ attempt = None /\ sent = None

\* A normal item accepted is no newer than the task's last one, and older than
\* the one it is offering; an item on offer is not accepted yet.
Counted ==
  /\ \A m \in Accepted :
       m.from \notin High =>
         m.n <= number[m.from] /\ (attempt[m.from] > 0 => m.n < number[m.from])
  /\ \A p \in Senders :
       attempt[p] > 0 => number[p] > 0 /\ [from |-> p, n |-> number[p]] \notin Accepted

Distinct ==
  /\ \A i, j \in 1 .. Len(queue) : i # j => queue[i] # queue[j]
  /\ sending # <<>> => \A i \in 1 .. Len(queue) : sending[1] # queue[i]

Before(m, o) == m.from = o.from /\ m.from \notin High => m.n < o.n

InOrder ==
  /\ \A i, j \in 1 .. Len(queue) : i < j => Before(queue[i], queue[j])
  /\ sending # <<>> => \A i \in 1 .. Len(queue) : Before(sending[1], queue[i])
  /\ \A m \in Accepted : m.from \notin High => sent[m.from] < m.n
  /\ \A p \in Senders \ High :
       sent[p] <= number[p] /\ (attempt[p] > 0 => sent[p] < number[p])

Sized == IsFiniteSet(Accepted) /\ Cardinality(Accepted) = Len(queue) + Len(sending)

IInv == TypeOK /\ NoLeak /\ Unborn /\ Counted /\ Distinct /\ InOrder /\ Sized

-----------------------------------------------------------------------------
(* Facts about the operators *)

LEMMA Constants ==
  /\ High \subseteq Senders /\ IsFiniteSet(Senders)
  /\ QueueLen \in Nat /\ QueueLen >= 1
  /\ Attempts \in Nat /\ Attempts >= 1 /\ MaxMsgs \in Nat
  BY QueueAssumption

LEMMA NumbersPositive == ASSUME NEW p PROVE Numbers(p) \subseteq Nat \ {0}
  BY Constants DEF Numbers

LEMMA ItemFacts ==
  ASSUME NEW m \in Items
  PROVE  /\ m.from \in Senders /\ m.n \in Nat /\ m.n > 0
         /\ m.n \in Numbers(m.from)
  BY NumbersPositive DEF Items

\* The number of a new message: for a normal one the next, else one not in use.
LEMMA FreshFacts ==
  ASSUME NEW p \in Senders, NEW k \in Fresh(p)
  PROVE  /\ k \in Numbers(p) /\ k \in Nat /\ k > 0
         /\ p \in High => [from |-> p, n |-> k] \notin Accepted
         /\ p \notin High => k = number[p] + 1
  BY NumbersPositive DEF Fresh

LEMMA CallersFinite == IsFiniteSet(Callers)
  BY Constants, FS_Subset DEF Callers

\* The items in the queue and with the TX task, without the domains.
LEMMA AcceptedIs ==
  ASSUME TypeOK
  PROVE  Accepted = {queue[i] : i \in 1 .. Len(queue)} \cup {sending[i] : i \in 1 .. Len(sending)}
  BY DEF TypeOK, Accepted

LEMMA AcceptedItems ==
  ASSUME TypeOK
  PROVE  /\ Accepted \subseteq Items
         /\ \A i \in 1 .. Len(queue) : queue[i] \in Accepted
         /\ sending # <<>> => sending[1] \in Accepted
<1>1. /\ \A i \in 1 .. Len(queue) : queue[i] \in Items
      /\ \A i \in 1 .. Len(sending) : sending[i] \in Items
      /\ sending # <<>> => 1 \in 1 .. Len(sending)
  BY DEF TypeOK
<1> QED BY <1>1, AcceptedIs

\* What is put at the front pushes the queue back by one place.
LEMMA PutAtFrontFacts ==
  ASSUME TypeOK, NEW p \in High, NEW item \in Items
  PROVE  LET q == Put(p, item)
         IN  /\ q \in Seq(Items) /\ Len(q) = Len(queue) + 1
             /\ q[1] = item
             /\ \A i \in 2 .. Len(queue) + 1 : q[i] = queue[i - 1]
<1>1. <<item>> \in Seq(Items) /\ Len(<<item>>) = 1 /\ <<item>>[1] = item
  OBVIOUS
<1>2. queue \in Seq(Items)
  BY DEF TypeOK
<1>3. Put(p, item) = <<item>> \o queue
  BY DEF Put
<1> HIDE DEF Put
<1>4. /\ <<item>> \o queue \in Seq(Items)
      /\ Len(<<item>> \o queue) = 1 + Len(queue)
      /\ \A i \in 1 .. 1 + Len(queue) :
           (<<item>> \o queue)[i] = IF i <= 1 THEN <<item>>[i] ELSE queue[i - 1]
  BY <1>1, <1>2, ConcatProperties, Zenon
<1>5. Len(queue) \in Nat
  BY <1>2
<1> QED BY <1>1, <1>3, <1>4, <1>5

LEMMA PutAtBackFacts ==
  ASSUME TypeOK, NEW p \in Senders \ High, NEW item \in Items
  PROVE  LET q == Put(p, item)
         IN  /\ q \in Seq(Items) /\ Len(q) = Len(queue) + 1
             /\ q[Len(queue) + 1] = item
             /\ \A i \in 1 .. Len(queue) : q[i] = queue[i]
  BY DEF TypeOK, Put

\* Wherever the item is put, the queue has it and what it had.
LEMMA PutRange ==
  ASSUME TypeOK, NEW p \in Senders, NEW item \in Items
  PROVE  LET q == Put(p, item)
         IN  /\ q \in Seq(Items) /\ Len(q) = Len(queue) + 1
             /\ {q[i] : i \in 1 .. Len(q)} = {queue[i] : i \in 1 .. Len(queue)} \cup {item}
<1> DEFINE q == Put(p, item)
<1>1. Len(queue) \in Nat
  BY DEF TypeOK
<1>2. CASE p \in High
  <2>1. /\ q \in Seq(Items) /\ Len(q) = Len(queue) + 1 /\ q[1] = item
        /\ \A i \in 2 .. Len(queue) + 1 : q[i] = queue[i - 1]
    BY <1>2, PutAtFrontFacts
  <2> HIDE DEF q
  <2>2. \A i \in 1 .. Len(queue) : i + 1 \in 1 .. Len(q) /\ q[i + 1] = queue[i]
    BY <1>1, <2>1
  <2>3. \A i \in 1 .. Len(q) : q[i] = item \/ (i - 1 \in 1 .. Len(queue) /\ q[i] = queue[i - 1])
    BY <1>1, <2>1
  <2>4. 1 \in 1 .. Len(q)
    BY <1>1, <2>1
  <2>5. {q[i] : i \in 1 .. Len(q)} = {queue[i] : i \in 1 .. Len(queue)} \cup {item}
    BY <2>1, <2>2, <2>3, <2>4
  <2> QED BY <2>1, <2>5 DEF q
<1>3. CASE p \notin High
  <2>1. /\ q \in Seq(Items) /\ Len(q) = Len(queue) + 1 /\ q[Len(queue) + 1] = item
        /\ \A i \in 1 .. Len(queue) : q[i] = queue[i]
    BY <1>3, PutAtBackFacts
  <2> HIDE DEF q
  <2>2. \A i \in 1 .. Len(q) : i = Len(queue) + 1 \/ i \in 1 .. Len(queue)
    BY <1>1, <2>1
  <2>3. Len(queue) + 1 \in 1 .. Len(q) /\ \A i \in 1 .. Len(queue) : i \in 1 .. Len(q)
    BY <1>1, <2>1
  <2>4. {q[i] : i \in 1 .. Len(q)} = {queue[i] : i \in 1 .. Len(queue)} \cup {item}
    BY <2>1, <2>2, <2>3
  <2> QED BY <2>1, <2>4 DEF q
<1> QED BY <1>2, <1>3

-----------------------------------------------------------------------------
(* The items accepted, step by step *)

LEMMA EnqueueAccepts ==
  ASSUME TypeOK, Counted, NEW p \in Senders, Enqueue(p)
  PROVE  /\ [from |-> p, n |-> number[p]] \in Items
         /\ [from |-> p, n |-> number[p]] \notin Accepted
         /\ queue' \in Seq(Items) /\ Len(queue') = Len(queue) + 1
         /\ Accepted' = Accepted \cup {[from |-> p, n |-> number[p]]}
<1> DEFINE item == [from |-> p, n |-> number[p]]
<1>1. item \notin Accepted
  BY DEF Counted, Enqueue
<1>2. item \in Items
  <2>1. number[p] \in Nat /\ number[p] > 0 /\ number[p] \in {0} \cup Numbers(p)
    BY DEF TypeOK, Enqueue, Counted
  <2> QED BY <2>1 DEF Items
<1>3. queue' = Put(p, item) /\ sending' = sending
  BY DEF Enqueue
<1> HIDE DEF item
<1>4. /\ queue' \in Seq(Items) /\ Len(queue') = Len(queue) + 1
      /\ {queue'[i] : i \in 1 .. Len(queue')} = {queue[i] : i \in 1 .. Len(queue)} \cup {item}
  <2> DEFINE q == Put(p, item)
  <2>1. /\ q \in Seq(Items) /\ Len(q) = Len(queue) + 1
        /\ {q[i] : i \in 1 .. Len(q)} = {queue[i] : i \in 1 .. Len(queue)} \cup {item}
    BY <1>2, PutRange
  <2>2. queue' = q
    BY <1>3
  <2> HIDE DEF q
  <2> QED BY <2>1, <2>2
<1>5. DOMAIN queue' = 1 .. Len(queue')
  BY <1>4
<1>6. Accepted' = {queue'[i] : i \in 1 .. Len(queue')} \cup {sending[i] : i \in 1 .. Len(sending)}
  <2>1. DOMAIN sending' = 1 .. Len(sending)
    BY <1>3 DEF TypeOK
  <2> QED BY <1>3, <1>5, <2>1 DEF Accepted
<1>7. Accepted' = Accepted \cup {item}
  BY <1>4, <1>6, AcceptedIs
<1> QED BY <1>1, <1>2, <1>4, <1>7 DEF item

LEMMA ReceiveMoves ==
  ASSUME TypeOK, Receive
  PROVE  /\ queue' \in Seq(Items) /\ sending' \in Seq(Items)
         /\ Len(queue) >= 1 /\ Len(queue') = Len(queue) - 1
         /\ Len(sending) = 0 /\ Len(sending') = 1
         /\ sending'[1] = queue[1]
         /\ \A i \in 1 .. Len(queue') : queue'[i] = queue[i + 1]
         /\ Accepted' = Accepted
<1>1. /\ queue' \in Seq(Items) /\ Len(queue') = Len(queue) - 1
      /\ \A i \in 1 .. Len(queue') : queue'[i] = queue[i + 1]
      /\ Head(queue) \in Items
  BY HeadTailProperties DEF TypeOK, Receive
<1>2. /\ sending' \in Seq(Items) /\ Len(sending') = 1 /\ sending'[1] = queue[1]
      /\ Len(sending) = 0 /\ Len(queue) >= 1
  BY <1>1 DEF TypeOK, Receive
<1>3. Accepted = {queue[i] : i \in 1 .. Len(queue)}
  BY <1>2, AcceptedIs
<1>4. Accepted' = {queue'[i] : i \in 1 .. Len(queue')} \cup {queue[1]}
  <2>1. DOMAIN queue' = 1 .. Len(queue') /\ DOMAIN sending' = {1}
    BY <1>1, <1>2
  <2> QED BY <1>2, <2>1 DEF Accepted
<1>5. Len(queue) \in Nat
  BY DEF TypeOK
<1>6. \A i \in 1 .. Len(queue') : i + 1 \in 1 .. Len(queue)
  BY <1>1, <1>5
<1>7. \A i \in 1 .. Len(queue) : i = 1 \/ (i - 1 \in 1 .. Len(queue') /\ queue[i] = queue'[i - 1])
  BY <1>1, <1>5
<1>8. 1 \in 1 .. Len(queue)
  BY <1>2, <1>5
<1>9. {queue[i] : i \in 1 .. Len(queue)} = {queue'[i] : i \in 1 .. Len(queue')} \cup {queue[1]}
  BY <1>1, <1>6, <1>7, <1>8
<1> QED BY <1>1, <1>2, <1>3, <1>4, <1>9

LEMMA SendRemoves ==
  ASSUME TypeOK, Distinct, Send
  PROVE  /\ Len(sending) = 1 /\ Len(sending') = 0
         /\ sending[1] \in Accepted /\ sending[1] \in Items
         /\ Accepted' = Accepted \ {sending[1]}
<1>1. Len(sending) = 1 /\ sending' = <<>> /\ queue' = queue
  <2>1. Len(sending) \in Nat \ {0}
    BY EmptySeq DEF TypeOK, Send
  <2>2. Len(sending) <= 1
    BY Zenon DEF TypeOK
  <2>3. sending' = <<>> /\ queue' = queue
    BY DEF Send
  <2>4. Len(sending) = 1
    <3>1. \A n \in Nat \ {0} : n <= 1 => n = 1
      OBVIOUS
    <3> QED BY <2>1, <2>2, <3>1, Zenon
  <2> QED BY <2>3, <2>4
<1>2. sending[1] \in Accepted /\ sending[1] \in Items
  BY <1>1, AcceptedItems DEF Send
<1>3. Accepted = {queue[i] : i \in 1 .. Len(queue)} \cup {sending[1]}
  BY <1>1, AcceptedIs
<1>4. Accepted' = {queue[i] : i \in 1 .. Len(queue)}
  <2>1. DOMAIN sending' = {} /\ DOMAIN queue' = 1 .. Len(queue)
    BY <1>1 DEF TypeOK
  <2> QED BY <1>1, <2>1 DEF Accepted
<1>5. \A i \in 1 .. Len(queue) : queue[i] # sending[1]
  BY DEF Distinct, Send
<1> QED BY <1>1, <1>2, <1>3, <1>4, <1>5

\* Every other step leaves the items where they are.
LEMMA StaysAccepted ==
  ASSUME queue' = queue, sending' = sending
  PROVE  Accepted' = Accepted
  BY DEF Accepted

-----------------------------------------------------------------------------
(* The invariant *)

LEMMA InitInv == Init => IInv
<1> SUFFICES ASSUME Init PROVE IInv
  OBVIOUS
<1>1. TypeOK
  <2>1. None \in [Senders -> 0 .. Attempts] /\ None \in [Senders -> Nat]
    BY Constants DEF None
  <2>3. \A p \in Senders : {number[p], sent[p]} \subseteq {0} \cup Numbers(p)
    BY DEF Init, None
  <2>2. /\ queue \in Seq(Items) /\ sending \in Seq(Items)
        /\ Len(queue) <= QueueLen /\ Len(sending) <= 1 /\ heap \in Nat
    BY Constants DEF Init
  <2> QED BY <2>1, <2>2, <2>3, Zenon DEF Init, TypeOK
<1>2. Accepted = {}
  BY <1>1, AcceptedIs DEF Init
<1>3. NoLeak
  <2>1. Callers = {}
    BY DEF Init, None, Callers
  <2>2. Cardinality(Callers) = 0
    BY <2>1, FS_EmptySet
  <2> QED BY <2>2 DEF NoLeak, Callers, Init
<1>4. Sized
  BY <1>2, FS_EmptySet DEF Sized, Init
<1>5. Unborn
  BY DEF Init, Unborn
<1>6. Counted
  BY <1>2 DEF Init, Counted, None
<1>7. Distinct
  BY DEF Init, Distinct
<1>8. InOrder
  BY <1>2, Constants DEF Init, InOrder, None
<1> QED BY <1>1, <1>3, <1>4, <1>5, <1>6, <1>7, <1>8 DEF IInv

\* The types.
LEMMA NextType == IInv /\ [Next]_vars => TypeOK'
<1> SUFFICES ASSUME IInv, [Next]_vars PROVE TypeOK'
  OBVIOUS
<1>t. TypeOK
  BY DEF IInv
<1> USE Constants DEF None
<1>1. ASSUME NEW p \in Senders, Call(p) \/ OutOfMemory(p) \/ CallTooEarly(p) PROVE TypeOK'
  <2>1. /\ UNCHANGED <<paused, waiting, queue, sending, created>>
        /\ attempt' \in [Senders -> 0 .. Attempts] /\ heap' \in Nat
    <3>1. CASE Call(p)
      <4>1. 1 \in 0 .. Attempts
        OBVIOUS
      <4> QED BY <1>t, <3>1, <4>1 DEF TypeOK, Call
    <3>2. CASE OutOfMemory(p) BY <1>t, <3>2 DEF TypeOK, OutOfMemory
    <3>3. CASE CallTooEarly(p) BY <1>t, <3>3 DEF TypeOK, CallTooEarly
    <3> QED BY <1>1, <3>1, <3>2, <3>3
  <2>2. /\ number' \in [Senders -> Nat] /\ sent' \in [Senders -> Nat]
        /\ \A q \in Senders : {number'[q], sent'[q]} \subseteq {0} \cup Numbers(q)
    <3>1. CASE Call(p) \/ OutOfMemory(p)
      <4>1. sent' = sent /\ \E k \in Fresh(p) : number' = [number EXCEPT ![p] = k]
        BY <3>1 DEF Call, OutOfMemory
      <4>2. PICK k \in Fresh(p) : number' = [number EXCEPT ![p] = k]
        BY <4>1
      <4>3. k \in Numbers(p) /\ k \in Nat
        BY <4>2, FreshFacts
      <4> QED BY <1>t, <4>1, <4>2, <4>3 DEF TypeOK
    <3>2. CASE CallTooEarly(p) BY <3>2 DEF CallTooEarly
    <3> QED BY <1>1, <3>1, <3>2
  <2> QED BY <1>t, <2>1, <2>2, Zenon DEF TypeOK
<1>2. ASSUME NEW p \in Senders, Enqueue(p) PROVE TypeOK'
  <2>1. queue' \in Seq(Items) /\ Len(queue') <= QueueLen
    <3>1. queue' \in Seq(Items) /\ Len(queue') = Len(queue) + 1
      BY <1>t, <1>2, EnqueueAccepts DEF IInv
    <3>2. Len(queue) < QueueLen /\ Len(queue) \in Nat
      BY <1>t, <1>2 DEF TypeOK, Enqueue
    <3> QED BY <3>1, <3>2
  <2>2. attempt' \in [Senders -> 0 .. Attempts]
    BY <1>t, <1>2 DEF TypeOK, Enqueue
  <2>3. UNCHANGED <<created, paused, waiting, sending, number, sent, heap>>
    BY <1>2 DEF Enqueue
  <2> QED BY <1>t, <2>1, <2>2, <2>3, Zenon DEF TypeOK
<1>3. ASSUME NEW p \in Senders, Retry(p) \/ Drop(p) PROVE TypeOK'
  <2>1. attempt' \in [Senders -> 0 .. Attempts]
    <3>1. CASE Retry(p)
      <4>1. attempt[p] + 1 \in 0 .. Attempts
        BY <1>t, <3>1 DEF TypeOK, Retry
      <4> QED BY <1>t, <3>1, <4>1 DEF TypeOK, Retry
    <3>2. CASE Drop(p) BY <1>t, <3>2 DEF TypeOK, Drop
    <3> QED BY <1>3, <3>1, <3>2
  <2>2. heap' \in Nat
    <3>1. CASE Retry(p) BY <1>t, <3>1 DEF TypeOK, Retry
    <3>2. CASE Drop(p)
      <4>1. p \in Callers
        BY <1>t, <3>2 DEF Drop, Callers, TypeOK
      <4>2. Cardinality(Callers) \in Nat /\ Cardinality(Callers) # 0
        BY <4>1, CallersFinite, FS_CardinalityType, FS_EmptySet
      <4>3. heap >= 1
        BY <1>t, <4>2 DEF NoLeak, Callers, TypeOK, IInv
      <4> QED BY <1>t, <3>2, <4>3 DEF Drop, TypeOK
    <3> QED BY <1>3, <3>1, <3>2
  <2>3. UNCHANGED <<created, paused, waiting, queue, sending, number, sent>>
    BY <1>3 DEF Retry, Drop
  <2> QED BY <1>t, <2>1, <2>2, <2>3, Zenon DEF TypeOK
<1>4. CASE Create \/ Pause \/ BeginReceive \/ ReceiveTimesOut
  <2>1. /\ UNCHANGED <<queue, sending, attempt, number, sent, heap>>
        /\ created' \in BOOLEAN /\ paused' \in BOOLEAN /\ waiting' \in BOOLEAN
        /\ waiting' => waiting \/ sending = <<>>
    <3>1. CASE Create BY <1>t, <3>1 DEF TypeOK, Create
    <3>2. CASE Pause BY <1>t, <3>2 DEF TypeOK, Pause
    <3>3. CASE BeginReceive BY <1>t, <3>3 DEF TypeOK, BeginReceive
    <3>4. CASE ReceiveTimesOut BY <1>t, <3>4 DEF TypeOK, ReceiveTimesOut
    <3> QED BY <1>4, <3>1, <3>2, <3>3, <3>4
  <2>2. waiting' => sending' = <<>>
    BY <1>t, <2>1 DEF TypeOK
  <2> QED BY <1>t, <2>1, <2>2, Zenon DEF TypeOK
<1>5. CASE Receive
  <2>1. queue' \in Seq(Items) /\ Len(queue') <= QueueLen /\ sending' \in Seq(Items) /\ Len(sending') <= 1
    <3>1. /\ queue' \in Seq(Items) /\ sending' \in Seq(Items)
          /\ Len(queue') = Len(queue) - 1 /\ Len(sending') = 1
      BY <1>t, <1>5, ReceiveMoves
    <3>2. Len(queue) <= QueueLen /\ Len(queue) \in Nat
      BY <1>t DEF TypeOK
    <3> QED BY <3>1, <3>2
  <2>2. UNCHANGED <<created, paused, attempt, number, sent, heap>> /\ waiting' \in BOOLEAN
    BY <1>5 DEF Receive
  <2>3. ~waiting'
    BY <1>5 DEF Receive
  <2> QED BY <1>t, <2>3, <2>1, <2>2, Zenon DEF TypeOK
<1>6. CASE Send
  <2>1. Len(sending) = 1 /\ sending[1] \in Items
    BY <1>t, <1>6, SendRemoves DEF IInv
  <2>2. /\ sent' \in [Senders -> Nat] /\ number' = number
        /\ \A q \in Senders : {number'[q], sent'[q]} \subseteq {0} \cup Numbers(q)
    <3>1. /\ sending[1].from \in Senders /\ sending[1].n \in Nat
          /\ sending[1].n \in Numbers(sending[1].from)
      BY <2>1, ItemFacts
    <3> QED BY <1>t, <1>6, <3>1 DEF TypeOK, Send
  <2>3. heap' \in Nat
    <3>1. Cardinality(Callers) \in Nat
      BY CallersFinite, FS_CardinalityType
    <3> QED BY <1>t, <1>6, <2>1, <3>1 DEF NoLeak, Callers, TypeOK, Send, IInv
  <2>4. sending' \in Seq(Items) /\ Len(sending') <= 1 /\ sending' = <<>>
    BY <1>6 DEF Send
  <2>5. UNCHANGED <<created, paused, waiting, queue, attempt, number>>
    BY <1>6 DEF Send
  <2> QED BY <1>t, <2>2, <2>3, <2>4, <2>5, Zenon DEF TypeOK
<1>7. CASE UNCHANGED vars
  BY <1>t, <1>7 DEF TypeOK, vars
<1> QED BY <1>1, <1>2, <1>3, <1>4, <1>5, <1>6, <1>7 DEF Next, Offer

\* The items of a task, numbered.
LEMMA NextCounted == IInv /\ [Next]_vars => Counted'
<1> SUFFICES ASSUME IInv, [Next]_vars PROVE Counted'
  OBVIOUS
<1>i. TypeOK /\ Counted /\ Accepted \subseteq Items
  BY AcceptedItems DEF IInv
<1>f. \A m \in Accepted : m.from \in Senders /\ m.n \in Nat /\ m.n > 0
  BY <1>i, ItemFacts
<1>n. \A q \in Senders : number[q] \in Nat /\ attempt[q] \in Nat
  BY <1>i DEF TypeOK
<1>c. /\ \A m \in Accepted :
           m.from \notin High =>
             m.n <= number[m.from] /\ (attempt[m.from] > 0 => m.n < number[m.from])
      /\ \A q \in Senders :
           attempt[q] > 0 => number[q] > 0 /\ [from |-> q, n |-> number[q]] \notin Accepted
  BY <1>i DEF Counted
<1>1. ASSUME NEW p \in Senders, Call(p) \/ OutOfMemory(p) PROVE Counted'
  <2>1. Accepted' = Accepted
    BY <1>1, StaysAccepted DEF Call, OutOfMemory
  <2>2. attempt[p] = 0 /\ \E k \in Fresh(p) : number' = [number EXCEPT ![p] = k]
    BY <1>1 DEF Call, OutOfMemory
  <2>3. PICK k \in Fresh(p) : number' = [number EXCEPT ![p] = k]
    BY <2>2
  <2>4. /\ k \in Nat /\ k > 0
        /\ p \in High => [from |-> p, n |-> k] \notin Accepted
        /\ p \notin High => k = number[p] + 1
    BY <2>3, FreshFacts
  <2>5. \A q \in Senders : number'[q] = IF q = p THEN k ELSE number[q]
    BY <1>i, <2>3 DEF TypeOK
  <2>6. \A q \in Senders : q # p => attempt'[q] = attempt[q]
    <3>1. attempt' = attempt \/ attempt' = [attempt EXCEPT ![p] = 1]
      BY <1>1 DEF Call, OutOfMemory
    <3> QED BY <1>i, <3>1 DEF TypeOK
  <2>7. ASSUME NEW m \in Accepted, m.from \notin High
        PROVE  m.n <= number'[m.from] /\ (attempt'[m.from] > 0 => m.n < number'[m.from])
    <3>1. m.from \in Senders /\ m.n \in Nat /\ m.n <= number[m.from] /\ number[m.from] \in Nat
      BY <1>f, <1>n, <1>c, <2>7
    <3>2. CASE m.from = p
      <4>1. number'[m.from] = number[m.from] + 1
        BY <2>4, <2>5, <2>7, <3>1, <3>2
      <4> QED BY <3>1, <4>1
    <3>3. CASE m.from # p
      <4>1. number'[m.from] = number[m.from] /\ attempt'[m.from] = attempt[m.from]
        BY <2>5, <2>6, <3>1, <3>3
      <4> QED BY <1>c, <2>7, <4>1
    <3> QED BY <3>2, <3>3
  <2>8. ASSUME NEW q \in Senders, attempt'[q] > 0
        PROVE  number'[q] > 0 /\ [from |-> q, n |-> number'[q]] \notin Accepted
    <3>1. CASE q # p
      BY <1>c, <2>5, <2>6, <2>8, <3>1
    <3>2. CASE q = p
      <4>1. number'[q] = k
        BY <2>5, <3>2
      <4>2. p \notin High => [from |-> p, n |-> k] \notin Accepted
        BY <1>c, <1>n, <2>4
      <4> QED BY <2>4, <3>2, <4>1, <4>2
    <3> QED BY <3>1, <3>2
  <2> QED BY <2>1, <2>7, <2>8 DEF Counted
<1>2. ASSUME NEW p \in Senders, CallTooEarly(p) PROVE Counted'
  <2>1. Accepted' = {} /\ \A q \in Senders : attempt'[q] = 0
    <3>1. queue = <<>> /\ sending = <<>>
      BY <1>2 DEF IInv, Unborn, CallTooEarly
    <3>2. Accepted = {}
      BY <1>i, <3>1, AcceptedIs
    <3> QED BY <1>2, <3>2, StaysAccepted DEF CallTooEarly, None
  <2> QED BY <2>1 DEF Counted
<1>3. ASSUME NEW p \in Senders, Enqueue(p) PROVE Counted'
  <2>1. Accepted' = Accepted \cup {[from |-> p, n |-> number[p]]}
    BY <1>3, <1>i, EnqueueAccepts
  <2>2. /\ number' = number
        /\ \A q \in Senders : attempt'[q] = IF q = p THEN 0 ELSE attempt[q]
    BY <1>3, <1>i DEF Enqueue, TypeOK
  <2>3. \A m \in Accepted' :
          m.from \notin High =>
            m.n <= number[m.from] /\ (attempt'[m.from] > 0 => m.n < number[m.from])
    BY <1>f, <1>n, <1>c, <2>1, <2>2
  <2>4. \A q \in Senders :
          attempt'[q] > 0 => number[q] > 0 /\ [from |-> q, n |-> number[q]] \notin Accepted'
    BY <1>c, <2>1, <2>2
  <2> QED BY <2>2, <2>3, <2>4 DEF Counted
<1>4. ASSUME NEW p \in Senders, Retry(p) \/ Drop(p) PROVE Counted'
  <2>1. Accepted' = Accepted /\ number' = number
    BY <1>4, StaysAccepted DEF Retry, Drop
  <2>2. \A q \in Senders : attempt'[q] > 0 => attempt[q] > 0
    <3>1. CASE Retry(p) BY <3>1, <1>i DEF Retry, TypeOK
    <3>2. CASE Drop(p) BY <3>2, <1>i DEF Drop, TypeOK
    <3> QED BY <1>4, <3>1, <3>2
  <2> QED BY <1>c, <1>f, <2>1, <2>2 DEF Counted
<1>5. CASE Receive
  <2>1. Accepted' = Accepted
    BY <1>5, <1>i, ReceiveMoves
  <2> QED BY <1>5, <1>i, <2>1 DEF Counted, Receive
<1>6. CASE Send
  <2>1. Accepted' \subseteq Accepted
    BY <1>6, <1>i, SendRemoves DEF IInv
  <2> QED BY <1>6, <1>i, <2>1 DEF Counted, Send
<1>7. CASE Create \/ Pause \/ BeginReceive \/ ReceiveTimesOut \/ UNCHANGED vars
  <2>1. Accepted' = Accepted /\ number' = number /\ attempt' = attempt
    BY <1>7, StaysAccepted DEF Create, Pause, BeginReceive, ReceiveTimesOut, vars
  <2> QED BY <1>i, <2>1 DEF Counted
<1> QED BY <1>1, <1>2, <1>3, <1>4, <1>5, <1>6, <1>7 DEF Next, Offer

\* No step puts an item in two places.
LEMMA NextDistinct == IInv /\ [Next]_vars => Distinct'
<1> SUFFICES ASSUME IInv, [Next]_vars PROVE Distinct'
  OBVIOUS
<1>i. TypeOK /\ Counted /\ Distinct /\ Len(queue) \in Nat
  BY DEF IInv, TypeOK
<1>1. ASSUME NEW p \in Senders, Enqueue(p) PROVE Distinct'
  <2> DEFINE item == [from |-> p, n |-> number[p]]
  <2>1. item \in Items /\ item \notin Accepted /\ Len(queue') = Len(queue) + 1
    BY <1>1, <1>i, EnqueueAccepts
  <2>2. (\A i \in 1 .. Len(queue) : queue[i] # item) /\ (sending # <<>> => sending[1] # item)
    BY <2>1, <1>i, AcceptedItems
  <2>3. queue' = Put(p, item) /\ sending' = sending
    BY <1>1 DEF Enqueue
  <2> HIDE DEF item
  <2>4. CASE p \in High
    <3>1. queue'[1] = item /\ \A i \in 2 .. Len(queue) + 1 : queue'[i] = queue[i - 1]
      BY <1>i, <2>1, <2>3, <2>4, PutAtFrontFacts
    <3> QED BY <1>i, <2>1, <2>2, <2>3, <3>1 DEF Distinct
  <2>5. CASE p \notin High
    <3>1. queue'[Len(queue) + 1] = item /\ \A i \in 1 .. Len(queue) : queue'[i] = queue[i]
      BY <1>i, <2>1, <2>3, <2>5, PutAtBackFacts
    <3> QED BY <1>i, <2>1, <2>2, <2>3, <3>1 DEF Distinct
  <2> QED BY <2>4, <2>5
<1>2. CASE Receive
  <2>1. /\ Len(queue') = Len(queue) - 1 /\ Len(queue) >= 1 /\ sending'[1] = queue[1]
        /\ \A i \in 1 .. Len(queue') : queue'[i] = queue[i + 1]
    BY <1>2, <1>i, ReceiveMoves
  <2> QED BY <1>i, <2>1 DEF Distinct
<1>3. CASE Send
  BY <1>3, <1>i DEF Distinct, Send
<1>4. ASSUME queue' = queue, sending' = sending PROVE Distinct'
  BY <1>4, <1>i DEF Distinct
<1> QED BY <1>1, <1>2, <1>3, <1>4
        DEF Next, Offer, Call, OutOfMemory, CallTooEarly, Retry, Drop, Create, Pause, BeginReceive, ReceiveTimesOut, vars

\* The order of the normal items.
LEMMA NextInOrder == IInv /\ [Next]_vars => InOrder'
<1> SUFFICES ASSUME IInv, [Next]_vars PROVE InOrder'
  OBVIOUS
<1>i. TypeOK /\ Counted /\ Distinct /\ InOrder /\ Len(queue) \in Nat
  BY DEF IInv, TypeOK
<1>a. Accepted \subseteq Items /\ \A m \in Accepted : m.from \in Senders /\ m.n \in Nat /\ m.n > 0
  BY <1>i, AcceptedItems, ItemFacts
<1>n. \A q \in Senders : number[q] \in Nat /\ sent[q] \in Nat /\ attempt[q] \in Nat
  BY <1>i DEF TypeOK
<1>1. ASSUME NEW p \in Senders, Call(p) \/ OutOfMemory(p) PROVE InOrder'
  <2>1. Accepted' = Accepted /\ queue' = queue /\ sending' = sending /\ sent' = sent
    BY <1>1, StaysAccepted DEF Call, OutOfMemory
  <2>2. \A q \in Senders \ High : number'[q] = IF q = p THEN number[q] + 1 ELSE number[q]
    <3>1. \E k \in Fresh(p) : number' = [number EXCEPT ![p] = k]
      BY <1>1 DEF Call, OutOfMemory
    <3>2. PICK k \in Fresh(p) : number' = [number EXCEPT ![p] = k]
      BY <3>1
    <3>3. p \notin High => k = number[p] + 1
      BY <3>2, FreshFacts
    <3> QED BY <1>i, <3>2, <3>3 DEF TypeOK
  <2>3. \A q \in Senders : q # p => attempt'[q] = attempt[q]
    <3>1. attempt' = attempt \/ attempt' = [attempt EXCEPT ![p] = 1]
      BY <1>1 DEF Call, OutOfMemory
    <3> QED BY <1>i, <3>1 DEF TypeOK
  <2>4. \A q \in Senders \ High :
          sent'[q] <= number'[q] /\ (attempt'[q] > 0 => sent'[q] < number'[q])
    BY <1>i, <1>n, <2>1, <2>2, <2>3 DEF InOrder
  <2> QED BY <1>i, <2>1, <2>4 DEF InOrder, Before
<1>2. ASSUME NEW p \in Senders, CallTooEarly(p) PROVE InOrder'
  <2>1. queue' = <<>> /\ sending' = <<>> /\ Accepted = {} /\ Accepted' = Accepted
    <3>1. queue = <<>> /\ sending = <<>>
      BY <1>2 DEF IInv, Unborn, CallTooEarly
    <3> QED BY <1>2, <1>i, <3>1, AcceptedIs, StaysAccepted DEF CallTooEarly
  <2>2. sent' = None /\ number' = None /\ attempt' = None
    BY <1>2 DEF CallTooEarly
  <2>3. Len(queue') = 0
    BY <2>1
  <2> QED BY <2>1, <2>2, <2>3 DEF InOrder, None
<1>3. ASSUME NEW p \in Senders, Enqueue(p) PROVE InOrder'
  <2> DEFINE item == [from |-> p, n |-> number[p]]
  <2>1. /\ item \in Items /\ Len(queue') = Len(queue) + 1
        /\ Accepted' = Accepted \cup {item}
    BY <1>3, <1>i, EnqueueAccepts
  <2>2. queue' = Put(p, item) /\ sending' = sending /\ sent' = sent /\ number' = number
    BY <1>3 DEF Enqueue
  <2>3. item.from = p /\ item.n = number[p]
    OBVIOUS
  <2> HIDE DEF item
  <2>4. /\ attempt[p] > 0
        /\ \A q \in Senders : attempt'[q] = IF q = p THEN 0 ELSE attempt[q]
    BY <1>3, <1>i DEF Enqueue, TypeOK
  <2>5. \A m \in Accepted : Before(m, item)
    BY <1>i, <2>3, <2>4 DEF Counted, Before
  <2>6. \A m \in Accepted' : m.from \notin High => sent'[m.from] < m.n
    BY <1>i, <2>1, <2>2, <2>3, <2>4 DEF InOrder
  <2>7. \A q \in Senders \ High :
          sent'[q] <= number'[q] /\ (attempt'[q] > 0 => sent'[q] < number'[q])
    BY <1>i, <1>n, <2>2, <2>4 DEF InOrder
  <2>8. /\ \A i \in 1 .. Len(queue) : Before(queue[i], item)
        /\ sending # <<>> => Before(sending[1], item)
    BY <1>i, <2>5, AcceptedItems
  <2>9. CASE p \in High
    <3>1. queue'[1] = item /\ \A i \in 2 .. Len(queue) + 1 : queue'[i] = queue[i - 1]
      BY <1>i, <2>1, <2>2, <2>9, PutAtFrontFacts
    <3>2. \A m : Before(item, m)
      BY <2>3, <2>9 DEF Before
    <3>3. /\ \A i, j \in 1 .. Len(queue) : i < j => Before(queue[i], queue[j])
          /\ sending # <<>> => \A i \in 1 .. Len(queue) : Before(sending[1], queue[i])
      BY <1>i DEF InOrder
    <3>4. \A i, j \in 1 .. Len(queue') : i < j => Before(queue'[i], queue'[j])
      <4> SUFFICES ASSUME NEW i \in 1 .. Len(queue'), NEW j \in 1 .. Len(queue'), i < j
                   PROVE  Before(queue'[i], queue'[j])
        OBVIOUS
      <4>1. CASE i = 1 BY <3>1, <3>2, <4>1
      <4>2. CASE i > 1
        <5>1. i - 1 \in 1 .. Len(queue) /\ j - 1 \in 1 .. Len(queue) /\ i - 1 < j - 1
          BY <1>i, <2>1, <4>2
        <5>2. queue'[i] = queue[i - 1] /\ queue'[j] = queue[j - 1]
          BY <1>i, <2>1, <3>1, <4>2
        <5> QED BY <3>3, <5>1, <5>2
      <4> QED BY <4>1, <4>2
    <3>5. sending' # <<>> => \A i \in 1 .. Len(queue') : Before(sending'[1], queue'[i])
      <4> SUFFICES ASSUME sending # <<>>, NEW i \in 1 .. Len(queue')
                   PROVE  Before(sending[1], queue'[i])
        BY <2>2
      <4>1. i = 1 \/ (i - 1 \in 1 .. Len(queue) /\ queue'[i] = queue[i - 1])
        BY <1>i, <2>1, <3>1
      <4> QED BY <2>8, <3>1, <3>3, <4>1
    <3> QED BY <2>6, <2>7, <3>4, <3>5 DEF InOrder, Before
  <2>10. CASE p \notin High
    <3>1. queue'[Len(queue) + 1] = item /\ \A i \in 1 .. Len(queue) : queue'[i] = queue[i]
      BY <1>i, <2>1, <2>2, <2>10, PutAtBackFacts
    <3>2. /\ \A i, j \in 1 .. Len(queue) : i < j => Before(queue[i], queue[j])
          /\ sending # <<>> => \A i \in 1 .. Len(queue) : Before(sending[1], queue[i])
      BY <1>i DEF InOrder
    <3>3. \A i, j \in 1 .. Len(queue') : i < j => Before(queue'[i], queue'[j])
      <4> SUFFICES ASSUME NEW i \in 1 .. Len(queue'), NEW j \in 1 .. Len(queue'), i < j
                   PROVE  Before(queue'[i], queue'[j])
        OBVIOUS
      <4>1. i \in 1 .. Len(queue) /\ (j \in 1 .. Len(queue) \/ j = Len(queue) + 1)
        BY <1>i, <2>1
      <4> QED BY <2>8, <3>1, <3>2, <4>1
    <3>4. sending' # <<>> => \A i \in 1 .. Len(queue') : Before(sending'[1], queue'[i])
      <4> SUFFICES ASSUME sending # <<>>, NEW i \in 1 .. Len(queue')
                   PROVE  Before(sending[1], queue'[i])
        BY <2>2
      <4>1. i \in 1 .. Len(queue) \/ i = Len(queue) + 1
        BY <1>i, <2>1
      <4> QED BY <2>8, <3>1, <3>2, <4>1
    <3> QED BY <2>6, <2>7, <3>3, <3>4 DEF InOrder, Before
  <2> QED BY <2>9, <2>10
<1>4. ASSUME NEW p \in Senders, Retry(p) \/ Drop(p) PROVE InOrder'
  <2>1. /\ Accepted' = Accepted /\ queue' = queue /\ sending' = sending
        /\ sent' = sent /\ number' = number
    BY <1>4, StaysAccepted DEF Retry, Drop
  <2>2. \A q \in Senders : attempt'[q] > 0 => attempt[q] > 0
    <3>1. CASE Retry(p) BY <3>1, <1>i DEF Retry, TypeOK
    <3>2. CASE Drop(p) BY <3>2, <1>i DEF Drop, TypeOK
    <3> QED BY <1>4, <3>1, <3>2
  <2> QED BY <1>i, <2>1, <2>2 DEF InOrder, Before
<1>5. CASE Receive
  <2>1. /\ Len(queue') = Len(queue) - 1 /\ Len(queue) >= 1 /\ sending'[1] = queue[1]
        /\ \A i \in 1 .. Len(queue') : queue'[i] = queue[i + 1]
        /\ Accepted' = Accepted
    BY <1>5, <1>i, ReceiveMoves
  <2>2. UNCHANGED <<attempt, number, sent>>
    BY <1>5 DEF Receive
  <2>3. \A i, j \in 1 .. Len(queue) : i < j => Before(queue[i], queue[j])
    BY <1>i DEF InOrder
  <2>4. \A i, j \in 1 .. Len(queue') : i < j => Before(queue'[i], queue'[j])
    <3> SUFFICES ASSUME NEW i \in 1 .. Len(queue'), NEW j \in 1 .. Len(queue'), i < j
                 PROVE  Before(queue'[i], queue'[j])
      OBVIOUS
    <3>1. i + 1 \in 1 .. Len(queue) /\ j + 1 \in 1 .. Len(queue) /\ i + 1 < j + 1
      BY <1>i, <2>1
    <3> QED BY <2>1, <2>3, <3>1
  <2>5. \A i \in 1 .. Len(queue') : Before(sending'[1], queue'[i])
    <3> SUFFICES ASSUME NEW i \in 1 .. Len(queue')
                 PROVE  Before(sending'[1], queue'[i])
      OBVIOUS
    <3>1. 1 \in 1 .. Len(queue) /\ i + 1 \in 1 .. Len(queue) /\ 1 < i + 1
      BY <1>i, <2>1
    <3> QED BY <2>1, <2>3, <3>1
  <2> QED BY <1>i, <2>1, <2>2, <2>4, <2>5 DEF InOrder, Before
<1>6. CASE Send
  <2> DEFINE m == sending[1]
  <2>1. m \in Accepted /\ Accepted' = Accepted \ {m}
    BY <1>6, <1>i, SendRemoves
  <2>2. sending # <<>> /\ sending' = <<>> /\ UNCHANGED <<queue, attempt, number>>
    BY <1>6 DEF Send
  <2>3. Accepted' = {queue[i] : i \in 1 .. Len(queue)}
    <3>1. DOMAIN sending' = {} /\ DOMAIN queue' = 1 .. Len(queue)
      BY <1>i, <2>2 DEF TypeOK
    <3> QED BY <2>2, <3>1 DEF Accepted
  <2>4. m.from \in Senders /\ m.n \in Nat
    BY <1>a, <2>1
  <2>5. \A q \in Senders \ High : sent'[q] = IF q = m.from THEN m.n ELSE sent[q]
    BY <1>6, <1>i, <2>4 DEF Send, TypeOK
  <2>6. ASSUME NEW o \in Accepted', o.from \notin High PROVE sent'[o.from] < o.n
    <3>1. o \in Accepted /\ o.from \in Senders
      BY <1>a, <2>1, <2>6
    <3>2. Before(m, o)
      BY <1>i, <2>2, <2>3, <2>6 DEF InOrder
    <3>3. sent[o.from] < o.n
      BY <1>i, <2>6, <3>1 DEF InOrder
    <3>4. CASE o.from = m.from
      <4>1. m.n < o.n
        BY <2>6, <3>2, <3>4 DEF Before
      <4>2. sent'[o.from] = m.n
        BY <2>5, <2>6, <3>1, <3>4
      <4> QED BY <4>1, <4>2
    <3>5. CASE o.from # m.from
      <4>1. sent'[o.from] = sent[o.from]
        BY <2>5, <2>6, <3>1, <3>5
      <4> QED BY <3>3, <4>1
    <3> QED BY <3>4, <3>5
  <2>7. \A q \in Senders \ High :
          sent'[q] <= number'[q] /\ (attempt'[q] > 0 => sent'[q] < number'[q])
    BY <1>i, <2>1, <2>2, <2>5 DEF InOrder, Counted
  <2> HIDE DEF m
  <2> QED BY <1>i, <2>2, <2>6, <2>7 DEF InOrder, Before
<1>7. CASE Create \/ Pause \/ BeginReceive \/ ReceiveTimesOut \/ UNCHANGED vars
  <2>1. Accepted' = Accepted /\ UNCHANGED <<queue, sending, number, attempt, sent>>
    BY <1>7, StaysAccepted DEF Create, Pause, BeginReceive, ReceiveTimesOut, vars
  <2> QED BY <1>i, <2>1 DEF InOrder, Before
<1> QED BY <1>1, <1>2, <1>3, <1>4, <1>5, <1>6, <1>7 DEF Next, Offer

\* Taking an item in or out changes the two lengths and the set alike.
LEMMA NextSized == IInv /\ [Next]_vars => Sized'
<1> SUFFICES ASSUME IInv, [Next]_vars PROVE Sized'
  OBVIOUS
<1>i. TypeOK /\ Counted /\ Distinct /\ Sized
  BY DEF IInv
<1>n. Len(queue) \in Nat /\ Len(sending) \in Nat
  BY <1>i DEF TypeOK
<1>1. ASSUME NEW p \in Senders, Enqueue(p) PROVE Sized'
  <2> DEFINE item == [from |-> p, n |-> number[p]]
  <2>1. item \notin Accepted /\ Accepted' = Accepted \cup {item} /\ Len(queue') = Len(queue) + 1
    BY <1>1, <1>i, EnqueueAccepts
  <2>2. sending' = sending
    BY <1>1 DEF Enqueue
  <2> HIDE DEF item
  <2>3. IsFiniteSet(Accepted \cup {item}) /\ Cardinality(Accepted \cup {item}) = Cardinality(Accepted) + 1
    BY <1>i, <2>1, FS_AddElement DEF Sized
  <2>4. Cardinality(Accepted) = Len(queue) + Len(sending)
    BY <1>i DEF Sized
  <2>5. Len(queue') + Len(sending') = Len(queue) + Len(sending) + 1
    BY <1>n, <2>1, <2>2
  <2>6. Cardinality(Accepted') = Len(queue') + Len(sending')
    BY <1>n, <2>1, <2>3, <2>4, <2>5
  <2>7. IsFiniteSet(Accepted')
    BY <2>1, <2>3
  <2> QED BY <2>6, <2>7 DEF Sized
<1>2. CASE Receive
  <2>1. /\ Accepted' = Accepted
        /\ Len(queue') + Len(sending') = Len(queue) + Len(sending)
    <3>1. /\ Accepted' = Accepted /\ Len(queue') = Len(queue) - 1
          /\ Len(sending) = 0 /\ Len(sending') = 1
      BY <1>2, <1>i, ReceiveMoves
    <3> QED BY <1>n, <3>1
  <2> QED BY <1>i, <2>1 DEF Sized
<1>3. CASE Send
  <2> DEFINE m == sending[1]
  <2>1. m \in Accepted /\ Accepted' = Accepted \ {m} /\ Len(sending) = 1 /\ Len(sending') = 0
    BY <1>3, <1>i, SendRemoves
  <2>2. queue' = queue
    BY <1>3 DEF Send
  <2> HIDE DEF m
  <2>3. IsFiniteSet(Accepted \ {m}) /\ Cardinality(Accepted \ {m}) = Cardinality(Accepted) - 1
    BY <1>i, <2>1, FS_RemoveElement DEF Sized
  <2>4. Cardinality(Accepted) = Len(queue) + Len(sending)
    BY <1>i DEF Sized
  <2>5. Cardinality(Accepted') = Len(queue') + Len(sending')
    BY <1>n, <2>1, <2>2, <2>3, <2>4
  <2>6. IsFiniteSet(Accepted')
    BY <2>1, <2>3
  <2> QED BY <2>5, <2>6 DEF Sized
<1>4. ASSUME queue' = queue, sending' = sending PROVE Sized'
  BY <1>4, <1>i, StaysAccepted DEF Sized
<1> QED BY <1>1, <1>2, <1>3, <1>4
        DEF Next, Offer, Call, OutOfMemory, CallTooEarly, Retry, Drop, Create, Pause, BeginReceive, ReceiveTimesOut, vars

\* A task that begins a call joins the callers, one that ends it leaves them.
LEMMA CallersJoin ==
  ASSUME TypeOK, NEW p \in Senders, attempt[p] = 0,
         attempt' = [attempt EXCEPT ![p] = 1]
  PROVE  Callers' = Callers \cup {p} /\ Cardinality(Callers') = Cardinality(Callers) + 1
<1>1. Callers' = Callers \cup {p} /\ p \notin Callers
  BY DEF TypeOK, Callers
<1> QED BY <1>1, CallersFinite, FS_AddElement

LEMMA CallersLeave ==
  ASSUME TypeOK, NEW p \in Senders, attempt[p] > 0,
         attempt' = [attempt EXCEPT ![p] = 0]
  PROVE  Callers' = Callers \ {p} /\ Cardinality(Callers') = Cardinality(Callers) - 1
<1>1. Callers' = Callers \ {p} /\ p \in Callers
  BY DEF TypeOK, Callers
<1> QED BY <1>1, CallersFinite, FS_RemoveElement

\* Every item allocated has one owner, through each step.
LEMMA NextNoLeak == IInv /\ [Next]_vars => NoLeak'
<1> SUFFICES ASSUME IInv, [Next]_vars PROVE NoLeak'
  OBVIOUS
<1>i. TypeOK /\ Counted /\ Distinct /\ Unborn
  BY DEF IInv
<1>n. Len(queue) \in Nat /\ Len(sending) \in Nat /\ Cardinality(Callers) \in Nat
  BY <1>i, CallersFinite, FS_CardinalityType DEF TypeOK
<1>c. heap = Len(queue) + Len(sending) + Cardinality(Callers)
  BY DEF IInv, NoLeak, Callers
<1> SUFFICES heap' = Len(queue') + Len(sending') + Cardinality(Callers')
  BY DEF NoLeak, Callers
<1>1. ASSUME NEW p \in Senders, Call(p)
      PROVE  heap' = Len(queue') + Len(sending') + Cardinality(Callers')
  <2>1. Cardinality(Callers') = Cardinality(Callers) + 1
    BY <1>1, <1>i, CallersJoin DEF Call
  <2> QED BY <1>1, <1>n, <1>c, <2>1 DEF Call
<1>2. ASSUME NEW p \in Senders, Enqueue(p)
      PROVE  heap' = Len(queue') + Len(sending') + Cardinality(Callers')
  <2>1. Cardinality(Callers') = Cardinality(Callers) - 1
    BY <1>2, <1>i, CallersLeave DEF Enqueue
  <2>2. Len(queue') = Len(queue) + 1
    BY <1>2, <1>i, EnqueueAccepts
  <2>3. sending' = sending /\ heap' = heap
    BY <1>2 DEF Enqueue
  <2> QED BY <1>n, <1>c, <2>1, <2>2, <2>3
<1>3. ASSUME NEW p \in Senders, Retry(p)
      PROVE  Callers' = Callers /\ UNCHANGED <<queue, sending, heap>>
  BY <1>3, <1>i DEF Retry, TypeOK, Callers
<1>4. ASSUME NEW p \in Senders, Drop(p)
      PROVE  heap' = Len(queue') + Len(sending') + Cardinality(Callers')
  <2>1. attempt[p] > 0
    BY <1>4, Constants DEF Drop
  <2>2. Cardinality(Callers') = Cardinality(Callers) - 1
    BY <1>4, <1>i, <2>1, CallersLeave DEF Drop
  <2> QED BY <1>4, <1>n, <1>c, <2>2 DEF Drop
<1>5. ASSUME NEW p \in Senders, OutOfMemory(p) \/ CallTooEarly(p)
      PROVE  Callers' = Callers /\ UNCHANGED <<queue, sending, heap>>
  <2>1. attempt' = attempt
    BY <1>5, <1>i DEF OutOfMemory, CallTooEarly, Unborn
  <2> QED BY <1>5, <2>1 DEF OutOfMemory, CallTooEarly, Callers
<1>6. CASE Receive
  <2>1. Len(queue') + Len(sending') = Len(queue) + Len(sending)
    <3>1. Len(queue') = Len(queue) - 1 /\ Len(sending) = 0 /\ Len(sending') = 1
      BY <1>6, <1>i, ReceiveMoves
    <3> QED BY <1>n, <3>1
  <2>2. Callers' = Callers /\ heap' = heap
    BY <1>6 DEF Receive, Callers
  <2> QED BY <1>n, <1>c, <2>1, <2>2
<1>7. CASE Send
  <2>1. Len(sending) = 1 /\ Len(sending') = 0
    BY <1>7, <1>i, SendRemoves
  <2>2. Callers' = Callers /\ heap' = heap - 1 /\ queue' = queue
    BY <1>7 DEF Send, Callers
  <2>3. /\ Len(queue') = Len(queue) /\ Cardinality(Callers') = Cardinality(Callers)
        /\ heap' = heap - 1
    BY <2>2
  <2>4. \A q, c \in Nat : (q + 1 + c) - 1 = q + 0 + c
    OBVIOUS
  <2> QED BY <1>n, <1>c, <2>1, <2>3, <2>4, Zenon
<1>8. CASE Create \/ Pause \/ BeginReceive \/ ReceiveTimesOut \/ UNCHANGED vars
  <2>1. Callers' = Callers /\ UNCHANGED <<queue, sending, heap>>
    BY <1>8 DEF Create, Pause, BeginReceive, ReceiveTimesOut, vars, Callers
  <2> QED BY <1>c, <2>1
<1> QED BY <1>c, <1>1, <1>2, <1>3, <1>4, <1>5, <1>6, <1>7, <1>8 DEF Next, Offer

\* The queue is not used before it is created.
LEMMA NextUnborn == IInv /\ [Next]_vars => Unborn'
<1> SUFFICES ASSUME IInv, [Next]_vars, ~created' PROVE Unborn'
  BY DEF Unborn
<1>1. ~created
  BY DEF Next, Offer, Call, OutOfMemory, CallTooEarly, Enqueue, Retry, Drop, Create, Pause, BeginReceive, ReceiveTimesOut, Receive, Send, vars
<1>2. queue = <<>> /\ sending = <<>> /\ attempt = None /\ sent = None
  BY <1>1 DEF IInv, Unborn
<1>3. \A p \in Senders : attempt[p] = 0
  BY <1>2 DEF None
<1>4. \A p \in Senders : ~Enqueue(p) /\ ~Retry(p) /\ ~Drop(p) /\ ~Call(p)
  BY <1>1, <1>3, Constants DEF Enqueue, Retry, Drop, Call
<1>5. ~Create /\ ~Pause /\ ~Receive /\ ~Send
  BY <1>1, <1>2 DEF Create, Pause, BeginReceive, ReceiveTimesOut, Receive, Send
<1>6. UNCHANGED <<queue, sending, attempt, sent>>
  BY <1>2, <1>4, <1>5 DEF Next, Offer, OutOfMemory, CallTooEarly, BeginReceive, ReceiveTimesOut, vars
<1> QED BY <1>2, <1>6 DEF Unborn

LEMMA NextInv == IInv /\ [Next]_vars => IInv'
  BY NextType, NextNoLeak, NextUnborn, NextCounted, NextDistinct, NextInOrder, NextSized DEF IInv

THEOREM InvHolds == Spec => []IInv
  BY InitInv, NextInv, PTL DEF Spec

-----------------------------------------------------------------------------
(* The results *)

\* The types: in particular the queue of mesh_comm.c never holds more than its
\* length, and the TX task never more than one item.
THEOREM TypeCorrect == Spec => []TypeOK
<1>1. IInv => TypeOK
  BY DEF IInv
<1> QED BY <1>1, InvHolds, PTL

\* mesh_queue_to_node and mesh_tx_task free what they allocate exactly once: every
\* item on the heap is queued, being sent, or being offered by one caller.
THEOREM NothingLeaks == Spec => []NoLeak
<1>1. IInv => NoLeak
  BY DEF IInv
<1> QED BY <1>1, InvHolds, PTL

\* The last number sent for a normal task only grows: the sends of mesh_tx_task
\* follow the order of the calls, whatever goes to the front meanwhile.
THEOREM NormalOrderKept == Spec => NormalInOrder
<1> DEFINE Step == \A p \in Senders \ High : sent'[p] # sent[p] => sent'[p] > sent[p]
<1>1. IInv /\ [Next]_vars => [Step]_vars
  <2> SUFFICES ASSUME IInv, Next PROVE Step
    OBVIOUS
  <2>i. TypeOK /\ Distinct /\ InOrder
    BY DEF IInv
  <2>1. CASE Send
    <3> DEFINE m == sending[1]
    <3>1. m \in Accepted /\ m \in Items
      BY <2>1, <2>i, SendRemoves
    <3>2. \A q \in Senders \ High : sent'[q] = IF q = m.from THEN m.n ELSE sent[q]
      BY <2>1, <2>i DEF Send, TypeOK
    <3>3. m.from \notin High => sent[m.from] < m.n
      BY <2>i, <3>1 DEF InOrder
    <3> HIDE DEF m
    <3>4. m.n \in Nat /\ \A q \in Senders : sent[q] \in Nat
      BY <2>i, <3>1, ItemFacts DEF TypeOK
    <3> QED BY <3>2, <3>3, <3>4
  <2>2. ASSUME NEW p \in Senders, CallTooEarly(p) PROVE Step
    BY <2>2 DEF CallTooEarly, IInv, Unborn
  <2>3. CASE sent' = sent
    BY <2>3
  <2> QED BY <2>1, <2>2, <2>3
          DEF Next, Offer, Call, OutOfMemory, Enqueue, Retry, Drop, Create, Pause, BeginReceive, ReceiveTimesOut, Receive
<1> QED BY <1>1, InvHolds, PTL DEF Spec, NormalInOrder

\* The operator of the instantiated module is the one proved about.
LEMMA SameCardinality == \A S : Promise!Cardinality(S) = Cardinality(S)
  BY Zenon DEF Cardinality, IsFiniteSet, Promise!Cardinality, Promise!IsFiniteSet

\* What the channel sees of the queue at the start.
LEMMA PromiseInit == Init => Promise!Init
<1> SUFFICES ASSUME Init PROVE Promise!Init
  OBVIOUS
<1>1. Accepted = {}
  BY InitInv, AcceptedIs DEF Init, IInv
<1>2. {p \in Senders : attempt[p] > 0} = {}
  BY DEF Init, None
<1> QED BY <1>1, <1>2 DEF Init, None, Promise!Init, Promise!Nothing

\* The number of a new message is one the channel may give it.
LEMMA PromiseNumber ==
  ASSUME TypeOK, NEW p \in Senders, Accepted' = Accepted,
         \E k \in Fresh(p) : number' = [number EXCEPT ![p] = k]
  PROVE  Promise!Number(p)
<1>1. PICK k \in Fresh(p) : number' = [number EXCEPT ![p] = k]
  OBVIOUS
<1>2. number'[p] = k
  BY <1>1 DEF TypeOK
<1>3. /\ p \in High => [from |-> p, n |-> k] \notin Accepted
      /\ p \notin High => k = number[p] + 1
  BY <1>1, FreshFacts
<1> QED BY <1>1, <1>2, <1>3 DEF Promise!Number, Promise!Message

\* Each step of the queue is a step of the channel, or none.
LEMMA PromiseStep == IInv /\ [Next]_vars => [Promise!Next]_(Promise!vars)
<1> SUFFICES ASSUME IInv, [Next]_vars PROVE [Promise!Next]_(Promise!vars)
  OBVIOUS
<1>i. TypeOK /\ Counted /\ Distinct /\ InOrder /\ Unborn
  BY DEF IInv
<1>s. Cardinality(Accepted) = Len(queue) + Len(sending)
  BY DEF IInv, Sized
<1>l. Len(queue) \in Nat /\ Len(sending) \in Nat /\ Len(queue) <= QueueLen /\ Len(sending) <= 1
  BY <1>i DEF TypeOK
<1>1. ASSUME NEW p \in Senders, Call(p) PROVE Promise!Begin(p)
  <2>1. Callers' = Callers \cup {p} /\ p \notin Callers
    BY <1>1, <1>i, CallersJoin DEF Call, Callers, TypeOK
  <2>2. Accepted' = Accepted
    BY <1>1, StaysAccepted DEF Call
  <2>3. Promise!Number(p)
    BY <1>1, <1>i, <2>2, PromiseNumber DEF Call
  <2> QED BY <1>1, <2>1, <2>2, <2>3 DEF Call, Callers, Promise!Begin
<1>2. ASSUME NEW p \in Senders, OutOfMemory(p) PROVE Promise!Refuse(p)
  <2>1. Callers' = Callers /\ p \notin Callers
    BY <1>2, <1>i DEF OutOfMemory, Callers, TypeOK
  <2>2. Accepted' = Accepted
    BY <1>2, StaysAccepted DEF OutOfMemory
  <2>3. Promise!Number(p)
    BY <1>2, <1>i, <2>2, PromiseNumber DEF OutOfMemory
  <2> QED BY <1>2, <2>1, <2>2, <2>3 DEF OutOfMemory, Callers, Promise!Refuse
<1>3. ASSUME NEW p \in Senders, CallTooEarly(p) PROVE Promise!Restart
  <2>1. queue = <<>> /\ sending = <<>> /\ attempt = None /\ sent = None
    BY <1>3, <1>i DEF CallTooEarly, Unborn
  <2>2. Accepted = {} /\ Accepted' = Accepted
    BY <1>3, <1>i, <2>1, AcceptedIs, StaysAccepted DEF CallTooEarly
  <2>3. Callers = {} /\ Callers' = Callers
    BY <1>3, <2>1 DEF CallTooEarly, Callers, None
  <2> QED BY <1>3, <2>1, <2>2, <2>3 DEF CallTooEarly, Callers, None, Promise!Restart, Promise!Nothing
<1>4. ASSUME NEW p \in Senders, Enqueue(p) PROVE Promise!Accept(p)
  <2>1. /\ [from |-> p, n |-> number[p]] \notin Accepted
        /\ Accepted' = Accepted \cup {[from |-> p, n |-> number[p]]}
    BY <1>4, <1>i, EnqueueAccepts
  <2>2. Callers' = Callers \ {p} /\ p \in Callers
    BY <1>4, <1>i, CallersLeave DEF Enqueue, Callers
  <2>3. Cardinality(Accepted) <= QueueLen
    BY <1>4, <1>s, <1>l, Constants DEF Enqueue
  <2>4. UNCHANGED <<number, sent>>
    BY <1>4 DEF Enqueue
  <2> QED BY <2>1, <2>2, <2>3, <2>4, SameCardinality, Zenon DEF Callers, Promise!Accept, Promise!Message
<1>5. ASSUME NEW p \in Senders, Retry(p) PROVE UNCHANGED Promise!vars
  <2>1. Callers' = Callers
    BY <1>5, <1>i DEF Retry, TypeOK, Callers
  <2>2. Accepted' = Accepted
    BY <1>5, StaysAccepted DEF Retry
  <2> QED BY <1>5, <2>1, <2>2 DEF Retry, Callers, Promise!vars
<1>6. ASSUME NEW p \in Senders, Drop(p) PROVE Promise!Lose(p)
  <2>1. attempt[p] > 0
    BY <1>6, Constants DEF Drop
  <2>2. Callers' = Callers \ {p} /\ p \in Callers
    BY <1>6, <1>i, <2>1, CallersLeave DEF Drop, Callers
  <2>3. Accepted' = Accepted /\ UNCHANGED <<number, sent>>
    BY <1>6, StaysAccepted DEF Drop
  <2>4. Cardinality(Accepted) >= QueueLen
    BY <1>6, <1>s, <1>l, Constants DEF Drop
  <2> QED BY <2>2, <2>3, <2>4, SameCardinality, Zenon DEF Callers, Promise!Lose
<1>7. CASE Send
  <2> DEFINE m == sending[1]
  <2>1. m \in Accepted /\ m \in Items /\ Accepted' = Accepted \ {m}
    BY <1>7, <1>i, SendRemoves
  <2>2. sending # <<>> /\ UNCHANGED <<queue, attempt, number>>
    BY <1>7 DEF Send
  <2>3. sent' = IF m.from \in Senders \ High THEN [sent EXCEPT ![m.from] = m.n] ELSE sent
    BY <1>7, <2>1, ItemFacts DEF Send
  <2>4. ASSUME m.from \in Senders \ High
        PROVE  m.n > sent[m.from] /\ \A o \in Accepted : o.from = m.from => o.n >= m.n
    <3>1. m.n > sent[m.from]
      BY <1>i, <2>1, <2>4, ItemFacts DEF InOrder, TypeOK
    <3>2. ASSUME NEW o \in Accepted, o.from = m.from PROVE o.n >= m.n
      <4>1. o = m \/ \E i \in 1 .. Len(queue) : o = queue[i]
        <5>1. Len(sending) = 1
          BY <1>7, <1>i, SendRemoves
        <5>2. o \in {queue[i] : i \in 1 .. Len(queue)} \/ o \in {sending[i] : i \in 1 .. Len(sending)}
          BY <1>i, <3>2, AcceptedIs
        <5> QED BY <5>1, <5>2
      <4>2. \A i \in 1 .. Len(queue) : Before(m, queue[i])
        BY <1>i, <2>2 DEF InOrder
      <4>3. o \in Items
        BY <1>i, AcceptedItems
      <4>4. o.n \in Nat /\ m.n \in Nat
        BY <2>1, <4>3, ItemFacts
      <4> QED BY <2>4, <3>2, <4>1, <4>2, <4>4 DEF Before
    <3> QED BY <3>1, <3>2
  <2> HIDE DEF m
  <2>5. UNCHANGED Callers
    BY <2>2 DEF Callers
  <2>6. Promise!Deliver(m)
    BY <2>1, <2>2, <2>3, <2>4, <2>5 DEF Callers, Promise!Deliver
  <2> QED BY <2>1, <2>6 DEF Promise!Next
<1>8. CASE Receive
  <2>1. Accepted' = Accepted
    BY <1>8, <1>i, ReceiveMoves
  <2> QED BY <1>8, <2>1 DEF Receive, Promise!vars
<1>9. CASE Create \/ Pause \/ BeginReceive \/ ReceiveTimesOut \/ UNCHANGED vars
  <2>1. Accepted' = Accepted
    BY <1>9, StaysAccepted DEF Create, Pause, BeginReceive, ReceiveTimesOut, vars
  <2> QED BY <1>9, <2>1 DEF Create, Pause, BeginReceive, ReceiveTimesOut, vars, Promise!vars
<1> QED BY <1>1, <1>2, <1>3, <1>4, <1>5, <1>6, <1>7, <1>8, <1>9 DEF Next, Offer, Promise!Next

\* The queue implements module Channel: nothing accepted by mesh_queue_to_node is
\* lost, doubled or, for a normal priority, sent out of turn.
THEOREM QueueIsChannel == Spec => KeepsPromise
  BY PromiseInit, PromiseStep, InvHolds, PTL DEF Spec, KeepsPromise, Promise!Spec
====
