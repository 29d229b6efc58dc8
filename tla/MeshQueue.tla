------------------------------ MODULE MeshQueue ------------------------------
(***************************************************************************)
(* The queue between every task that has something to send and             *)
(* mesh_tx_task (mesh_comm.c).  A caller of mesh_queue_to_node allocates   *)
(* an item and offers its pointer to a bounded queue a fixed number of     *)
(* times: a normal message at the back, waiting for room each time, a high *)
(* priority one at the front, without waiting.  The TX task takes items    *)
(* off the front, sends them once and frees them; it stops when an update  *)
(* is in progress, which it looks at before it waits for an item.          *)
(*                                                                         *)
(* A message is told apart from the others of its task by a number.  The   *)
(* normal messages of a task are numbered in the order it queues them, up  *)
(* to a bound.  Nothing depends on the order of the urgent ones (pongs and *)
(* pings), so an urgent task uses a number again once nothing with it is   *)
(* in the queue, and goes on for ever.                                     *)
(***************************************************************************)
EXTENDS Integers, Sequences, FiniteSets

CONSTANTS
  Senders,    \* the tasks that queue messages
  High,       \* those of them that queue with TX_PRIO_HIGH (pongs and pings)
  QueueLen,   \* the length of the queue
  Attempts,   \* max_attempts
  MaxMsgs     \* bound: normal messages a task sends

ASSUME QueueAssumption ==
  /\ High \subseteq Senders /\ IsFiniteSet(Senders)
  /\ QueueLen \in Nat \ {0} /\ Attempts \in Nat \ {0} /\ MaxMsgs \in Nat

VARIABLES
  created,   \* mesh_tx_task has created the queue
  paused,    \* g_ota_in_progress
  waiting,   \* mesh_tx_task has found the flag clear and waits for an item
  queue,     \* the items in the queue
  sending,   \* the item mesh_tx_task holds, in a sequence of at most one
  attempt,   \* the attempt each task is at, 0 outside mesh_queue_to_node
  number,    \* the messages each task has started to queue
  sent,      \* the last normal message of each task handed to esp_mesh_send
  heap       \* items allocated and not freed

vars == <<created, paused, waiting, queue, sending, attempt, number, sent, heap>>

\* The queue, the TX task and the task itself hold QueueLen + 2 items at most.
Numbers(p) == IF p \in High THEN 1 .. QueueLen + 2 ELSE 1 .. MaxMsgs

Items == {m \in [from : Senders, n : Nat] : m.n \in Numbers(m.from)}

TypeOK ==
  /\ created \in BOOLEAN /\ paused \in BOOLEAN /\ waiting \in BOOLEAN
  /\ queue \in Seq(Items) /\ Len(queue) <= QueueLen
  /\ sending \in Seq(Items) /\ Len(sending) <= 1 /\ (waiting => sending = <<>>)
  /\ attempt \in [Senders -> 0 .. Attempts]
  /\ number \in [Senders -> Nat] /\ sent \in [Senders -> Nat]
  /\ \A p \in Senders : {number[p], sent[p]} \subseteq {0} \cup Numbers(p)
  /\ heap \in Nat

None == [p \in Senders |-> 0]

Init ==
  /\ created = FALSE /\ paused = FALSE /\ waiting = FALSE
  /\ queue = <<>> /\ sending = <<>>
  /\ attempt = None /\ number = None /\ sent = None
  /\ heap = 0
-----------------------------------------------------------------------------
(* mesh_queue_to_node, called by task p *)

\* The items a task has queued and the TX task has not sent yet.
Accepted == {queue[i] : i \in DOMAIN queue} \cup {sending[i] : i \in DOMAIN sending}

\* The number of p's next message: the next one, or the least that is not in use.
Fresh(p) ==
  IF p \in High
  THEN LET free == {k \in Numbers(p) : [from |-> p, n |-> k] \notin Accepted}
       IN  {k \in free : \A j \in free : k <= j}
  ELSE Numbers(p) \cap {number[p] + 1}

\* Both allocations succeed: the item will be offered.
Call(p) ==
  /\ created
  /\ attempt[p] = 0
  /\ \E k \in Fresh(p) : number' = [number EXCEPT ![p] = k]
  /\ attempt' = [attempt EXCEPT ![p] = 1]
  /\ heap' = heap + 1
  /\ UNCHANGED <<created, paused, waiting, queue, sending, sent>>

\* One of them fails: nothing is allocated, and the message is lost.
OutOfMemory(p) ==
  /\ attempt[p] = 0
  /\ \E k \in Fresh(p) : number' = [number EXCEPT ![p] = k]
  /\ UNCHANGED <<created, paused, waiting, queue, sending, attempt, sent, heap>>

\* mesh_tx_task has not run yet: the send finds a null queue, asserts, and the
\* node restarts.
CallTooEarly(p) ==
  /\ ~created
  /\ attempt[p] = 0 /\ Fresh(p) # {}
  /\ number' = None /\ attempt' = None /\ sent' = None
  /\ UNCHANGED <<created, paused, waiting, queue, sending, heap>>

\* Mutation: every message goes to the front.
PutAtFront(p, item) == <<item>> \o queue

\* Mutation: a high priority overwrites the front.
PutOverFront(p, item) ==
  IF p \in High /\ queue # <<>> THEN <<item>> \o Tail(queue) ELSE Append(queue, item)

\* xQueueSendToFront for a high priority, xQueueSendToBack for a normal one.
Put(p, item) == IF p \in High THEN <<item>> \o queue ELSE Append(queue, item)

\* Mutation: the item is queued whether or not there is room.
EnqueueUnchecked(p) ==
  /\ attempt[p] > 0
  /\ queue' = Put(p, [from |-> p, n |-> number[p]])
  /\ attempt' = [attempt EXCEPT ![p] = 0]
  /\ UNCHANGED <<created, paused, waiting, sending, number, sent, heap>>

Enqueue(p) ==
  /\ attempt[p] > 0
  /\ Len(queue) < QueueLen
  /\ queue' = Put(p, [from |-> p, n |-> number[p]])
  /\ attempt' = [attempt EXCEPT ![p] = 0]
  /\ UNCHANGED <<created, paused, waiting, sending, number, sent, heap>>

\* Mutation: the attempts are not counted.
RetryUncounted(p) ==
  /\ attempt[p] > 0
  /\ Len(queue) = QueueLen
  /\ attempt[p] < Attempts
  /\ UNCHANGED vars

\* No room, at once or after 100 ms: another attempt, if there is one left.
Retry(p) ==
  /\ attempt[p] > 0
  /\ Len(queue) = QueueLen
  /\ attempt[p] < Attempts
  /\ attempt' = [attempt EXCEPT ![p] = @ + 1]
  /\ UNCHANGED <<created, paused, waiting, queue, sending, number, sent, heap>>

\* Mutation: the dropped message is not freed.
DropWithoutFree(p) ==
  /\ attempt[p] = Attempts
  /\ Len(queue) = QueueLen
  /\ attempt' = [attempt EXCEPT ![p] = 0]
  /\ UNCHANGED <<created, paused, waiting, queue, sending, number, sent, heap>>

Drop(p) ==
  /\ attempt[p] = Attempts
  /\ Len(queue) = QueueLen
  /\ attempt' = [attempt EXCEPT ![p] = 0]
  /\ heap' = heap - 1
  /\ UNCHANGED <<created, paused, waiting, queue, sending, number, sent>>

Offer(p) == Enqueue(p) \/ Retry(p) \/ Drop(p)
-----------------------------------------------------------------------------
(* mesh_tx_task *)

Create ==
  /\ ~created
  /\ created' = TRUE
  /\ UNCHANGED <<paused, waiting, queue, sending, attempt, number, sent, heap>>

\* An update begins; it ends in a restart.
Pause ==
  /\ created /\ ~paused
  /\ paused' = TRUE
  /\ UNCHANGED <<created, waiting, queue, sending, attempt, number, sent, heap>>

\* The task looks at g_ota_in_progress and enters xQueueReceive, where it waits
\* for up to 5 s; an update that begins meanwhile does not call it back.
BeginReceive ==
  /\ created /\ ~paused
  /\ ~waiting /\ sending = <<>>
  /\ waiting' = TRUE
  /\ UNCHANGED <<created, paused, queue, sending, attempt, number, sent, heap>>

ReceiveTimesOut ==
  /\ waiting /\ queue = <<>>
  /\ waiting' = FALSE
  /\ UNCHANGED <<created, paused, queue, sending, attempt, number, sent, heap>>

\* Mutation: the item is read and left in the queue.
ReceivePeek ==
  /\ waiting /\ queue # <<>>
  /\ waiting' = FALSE
  /\ sending' = <<Head(queue)>>
  /\ UNCHANGED <<created, paused, queue, attempt, number, sent, heap>>

Receive ==
  /\ waiting /\ queue # <<>>
  /\ waiting' = FALSE
  /\ sending' = <<Head(queue)>>
  /\ queue' = Tail(queue)
  /\ UNCHANGED <<created, paused, attempt, number, sent, heap>>

\* mesh_send_to_node, whose result is not looked at, and the two frees.
Send ==
  /\ sending # <<>>
  /\ sent' = IF sending[1].from \in High
             THEN sent
             ELSE [sent EXCEPT ![sending[1].from] = sending[1].n]
  /\ sending' = <<>>
  /\ heap' = heap - 1
  /\ UNCHANGED <<created, paused, waiting, queue, attempt, number>>

Next ==
  \/ \E p \in Senders : Call(p) \/ OutOfMemory(p) \/ CallTooEarly(p) \/ Offer(p)
  \/ Create \/ Pause \/ BeginReceive \/ ReceiveTimesOut \/ Receive \/ Send

Spec == Init /\ [][Next]_vars
\* A task inside mesh_queue_to_node and the TX task run; nobody has to send, and
\* nothing has to begin an update.
FairSpec ==
  /\ Spec
  /\ WF_vars(Create) /\ WF_vars(BeginReceive) /\ WF_vars(Receive) /\ WF_vars(Send)
  /\ \A p \in Senders : WF_vars(Offer(p))
-----------------------------------------------------------------------------
\* Normal messages of a task reach esp_mesh_send in the order it queued them and
\* none reaches it twice, whatever is queued at the front in the meantime.
NormalInOrder ==
  [][\A p \in Senders \ High : sent'[p] # sent[p] => sent'[p] > sent[p]]_vars

Promise == INSTANCE Channel WITH
  Ordered <- Senders \ High,
  Room <- QueueLen,
  calling <- {p \in Senders : attempt[p] > 0},
  issued <- number,
  transit <- Accepted,
  delivered <- sent

\* The queue is the channel of module Channel: an accepted item is sent once, a
\* task's normal items oldest first, and mesh_queue_to_node gives an item up only
\* with the queue full or the heap empty.
KeepsPromise == Promise!Spec

\* Every item allocated is in the queue, with the TX task, or with a task that is
\* offering it: no path through a full queue leaks one or frees it twice.
NoLeak ==
  heap = Len(queue) + Len(sending) + Cardinality({p \in Senders : attempt[p] > 0})

\* No caller is held for ever, even when an update has stopped the TX task for
\* good and the queue is full.
CallersReturn == \A p \in Senders : attempt[p] > 0 ~> attempt[p] = 0

\* Urgent messages are the only thing that can keep a queued one from being sent
\* while no update begins: the urgent tasks put theirs at the front without limit,
\* and a normal item may wait behind them for ever, but once they fall silent
\* every item in the queue is sent.
StarvedByUrgentOnly ==
  <>[](\A p \in High : attempt[p] = 0) =>
    \A p \in Senders \ High : \A k \in Numbers(p) :
      (\E i \in 1 .. Len(queue) : queue[i] = [from |-> p, n |-> k])
        ~> (sent[p] = k \/ paused)
====
