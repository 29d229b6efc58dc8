---------------------------- MODULE RootRegistry ----------------------------
(***************************************************************************)
(* The messages between the root, the nodes below it and the backend that  *)
(* are not button events: nodes that announce themselves, the states of    *)
(* their outputs and their status on the way up; commands, auto-off times, *)
(* orders to update and pings on the way down (node_root.c, mesh_comm.c,   *)
(* node_relay.c).                                                          *)
(*                                                                         *)
(* At the root the RX task and the MQTT task share the registry and the    *)
(* queue of messages to send.  A handler of the RX task is one step; the   *)
(* MQTT task takes one for each node it goes through.  On a relay the RX   *)
(* task and the timer task read an output and queue its state in two       *)
(* steps.  Messages are lost on the air, when a queue is full and when     *)
(* there is no memory for them; another node may become the root, and the  *)
(* former one goes on sending what it has queued.                          *)
(***************************************************************************)
EXTENDS DeviceState, Sequences, FiniteSets

CONSTANTS
  Roots,            \* the nodes that can be the root
  Nowhere,          \* the address 0, which is no node's
  Letter,           \* the place of each output on its relay
  MaxNodes,         \* MAX_NODES
  MaxQueue,         \* the length of a node's TX queue
  PingPongNumber,   \* PING_PONG_NUMBER
  Firmware,         \* the version each node runs at first
  FirstTimes,       \* the auto-off times in flash at first
  Pushes,           \* auto-off tables of the backend: sequences of outputs, each once, and times
  MaxInputs,        \* bound: announcements, commands, gestures
  MaxFaults         \* bound: losses on the air, lack of memory, breaks, restarts

Times == {FirstTimes[o] : o \in Outputs} \cup UNION {{p[i].time : i \in DOMAIN p} : p \in Pushes}

ASSUME RegistryAssumption ==
  /\ MaxNodes \in Nat \ {0} /\ MaxQueue \in Nat \ {0} /\ PingPongNumber \in Nat \ {0}
  /\ MaxInputs \in Nat /\ MaxFaults \in Nat
  /\ IsFiniteSet(Roots) /\ Nowhere \notin Nodes /\ Letter \in [Outputs -> Nat]
  /\ Firmware \in [Nodes -> 0 .. MaxFirmware] /\ FirstTimes \in [Outputs -> Nat]
  /\ \A p \in Pushes : p # <<>> /\ p \in Seq([of : Outputs, time : Nat])
  /\ \A p \in Pushes : \A i, j \in DOMAIN p : p[i].of = p[j].of => i = j

\* The tasks of a relay that report: mesh_rx_task and the timer task.
Tasks == {"rx", "timer"}
OnOff == {"on", "off"}

VARIABLES
  root,       \* the node that is the root
  registry,   \* its node_registry: the nodes in the order of their slots
  tx,         \* the TX queue of each node that is or was the root
  job,        \* what the root's MQTT task is doing
  mqttOn,     \* g_mqtt_connected
  pings,      \* nodes the backend has asked the root to ping
  up,         \* the TX queue of each node
  out,        \* the outputs
  times,      \* their auto-off times
  todo,       \* the outputs the tasks of their relays still have to report
  seen,       \* the states these tasks have read and not yet queued
  wants,      \* g_ota_requested of each node
  version,    \* the firmware it runs
  inputs, faults,
  oom,        \* there is no memory for a message
  stale,      \* history: outputs of which the last report was lost or not the newest
  due,        \* history: outputs that should have the time pushed last, and it
  greeted,    \* history: outputs whose relay announced itself, with nothing lost since
  named,      \* history: kinds of devices ordered to update, and nodes told by gesture
  rallies     \* history: pings begun and neither finished nor lost

rootVars == <<root, registry, tx, job, mqttOn, pings>>
relayVars == <<out, times, todo, seen>>
nodeVars == <<up, relayVars, wants, version>>
history == <<stale, due, greeted, named, rallies>>
vars == <<deviceVars, rootVars, nodeVars, inputs, faults, oom, history>>

Idle == [kind |-> "idle"]
Registered == {registry[i] : i \in DOMAIN registry}
OutputsOf(n) == {o \in Outputs : Board[o] = n}
Count(q, kind) == Cardinality({i \in DOMAIN q : q[i].kind = kind})

TypeOK ==
  /\ DeviceTypeOK
  /\ root \in Roots
  /\ registry \in Seq(Nodes) /\ Len(registry) = Cardinality(Registered)
  /\ Len(registry) <= MaxNodes
  /\ \A s \in Roots : Len(tx[s]) <= MaxQueue
  /\ \A s \in Roots : \A i \in DOMAIN tx[s] : tx[s][i].to \in Nodes \cup {Nowhere}
  /\ \A n \in Nodes : Len(up[n]) <= MaxQueue
  /\ job.kind \in {"idle", "autoOff", "update", "ping"}
  /\ mqttOn \in BOOLEAN /\ pings \subseteq Nodes
  /\ out \in [Outputs -> OnOff] /\ times \in [Outputs -> Times]
  /\ todo \in [Tasks -> SUBSET Outputs]
  /\ seen \in [Tasks -> SUBSET [of : Outputs, state : OnOff]]
  /\ wants \in [Nodes -> BOOLEAN] /\ version \in [Nodes -> 0 .. MaxFirmware]
  /\ inputs \in 0 .. MaxInputs /\ faults \in 0 .. MaxFaults /\ oom \in BOOLEAN
  /\ stale \subseteq Outputs /\ DOMAIN due \subseteq Outputs
  /\ greeted \subseteq Outputs /\ named \subseteq Kinds \cup Nodes /\ rallies \in Nat

Init ==
  /\ DeviceInit
  /\ root \in Roots /\ registry = <<>> /\ tx = [s \in Roots |-> <<>>]
  /\ job = Idle /\ mqttOn = TRUE /\ pings = {}
  /\ up = [n \in Nodes |-> <<>>]
  /\ out = [o \in Outputs |-> "off"] /\ times = FirstTimes
  /\ todo = [t \in Tasks |-> {}] /\ seen = [t \in Tasks |-> {}]
  /\ wants = [n \in Nodes |-> FALSE] /\ version = Firmware
  /\ inputs = 0 /\ faults = 0 /\ oom = FALSE
  /\ stale = Outputs /\ due = <<>> /\ greeted = {} /\ named = {} /\ rallies = 0

Input == inputs < MaxInputs /\ inputs' = inputs + 1 /\ UNCHANGED <<faults, oom>>
Fault == faults < MaxFaults /\ faults' = faults + 1 /\ UNCHANGED <<inputs, oom>>
Neither == UNCHANGED <<inputs, faults, oom>>
-----------------------------------------------------------------------------
(* mesh_queue_to_node *)

\* A message is refused by a full queue, and when there is no memory for it.
Full(q) == oom \/ Len(q) >= MaxQueue
Queue(q, m) == IF Full(q) THEN q ELSE Append(q, m)
QueueFirst(q, m) == IF Full(q) THEN q ELSE <<m>> \o q

\* To a node, from the root.
Down(kind, n, arg) == [to |-> n, kind |-> kind, arg |-> arg]
Send(m) == tx' = [tx EXCEPT ![root] = Queue(@, m)]
SendFirst(m) == tx' = [tx EXCEPT ![root] = QueueFirst(@, m)]

\* From a node to the root; a pong goes to the node the ping came from.
Up(kind, arg) == [kind |-> kind, arg |-> arg]

\* Mutation: a node is not looked for in the slots that are taken.
RegisterAgain(n) == IF Len(registry) >= MaxNodes THEN registry ELSE Append(registry, n)

\* registry_update.
Register(n) ==
  IF n \in Registered \/ Len(registry) >= MaxNodes THEN registry ELSE Append(registry, n)

\* The histories when a message to or from a node is lost: of the states of an output
\* the last one matters.
LostTime(o) == [p \in DOMAIN due \ {o} |-> due[p]]
Waiting(q, o) == \E i \in DOMAIN q : q[i].kind = "state" /\ q[i].arg.of = o
LostState(o) ==
  /\ stale' = IF Waiting(up'[Board[o]], o) THEN stale ELSE stale \cup {o}
  /\ greeted' = greeted \ {o}
Lost(m, n) ==
  /\ CASE m.kind = "state" -> LostState(m.arg.of)
       [] m.kind = "sync" -> greeted' = greeted \ OutputsOf(n) /\ UNCHANGED stale
       [] OTHER -> UNCHANGED <<stale, greeted>>
  /\ due' = IF m.kind = "time" THEN LostTime(m.arg.of) ELSE due
  /\ rallies' = IF m.kind \in {"ping", "pong"} THEN rallies - 1 ELSE rallies
-----------------------------------------------------------------------------
(* The nodes *)

\* relay_send_state_confirmation reads the state of an output under the mutex; a task
\* goes through the outputs it has to report in their order.
Look(t, o) ==
  /\ o \in todo[t]
  /\ \A p \in todo[t] : Board[p] = Board[o] => Letter[o] <= Letter[p]
  /\ \A s \in seen[t] : Board[s.of] # Board[o]
  /\ seen' = [seen EXCEPT ![t] = @ \cup {[of |-> o, state |-> out[o]]}]
  /\ Neither /\ UNCHANGED <<deviceVars, rootVars, up, out, times, todo, wants, version, history>>

\* Mutation: a state goes to the front of the queue.
ReportFirst(t, s) ==
  /\ s \in seen[t] /\ seen' = [seen EXCEPT ![t] = @ \ {s}]
  /\ todo' = [todo EXCEPT ![t] = @ \ {s.of}]
  /\ up' = [up EXCEPT ![Board[s.of]] = QueueFirst(@, Up("state", s))]
  /\ IF s.state = out[s.of] /\ ~Full(up[Board[s.of]])
     THEN stale' = stale \ {s.of} /\ UNCHANGED greeted
     ELSE stale' = stale \cup {s.of} /\ greeted' = greeted \ {s.of}
  /\ Neither
  /\ UNCHANGED <<deviceVars, rootVars, out, times, wants, version, due, named, rallies>>

\* And then queues what it has read, which may no longer be the state.
Report(t, s) ==
  /\ s \in seen[t] /\ seen' = [seen EXCEPT ![t] = @ \ {s}]
  /\ todo' = [todo EXCEPT ![t] = @ \ {s.of}]
  /\ up' = [up EXCEPT ![Board[s.of]] = Queue(@, Up("state", s))]
  /\ IF s.state = out[s.of] /\ ~Full(up[Board[s.of]])
     THEN stale' = stale \ {s.of} /\ UNCHANGED greeted
     ELSE stale' = stale \cup {s.of} /\ greeted' = greeted \ {s.of}
  /\ Neither
  /\ UNCHANGED <<deviceVars, rootVars, out, times, wants, version, due, named, rallies>>

\* The auto-off timer of an output expires; the timer task of a relay has one callback
\* at a time.
TimerFires(o) ==
  /\ times[o] # 0 /\ out[o] = "on" /\ \A p \in todo["timer"] : Board[p] # Board[o]
  /\ out' = [out EXCEPT ![o] = "off"] /\ todo' = [todo EXCEPT !["timer"] = @ \cup {o}]
  /\ Neither /\ UNCHANGED <<deviceVars, rootVars, up, times, seen, wants, version, history>>

\* The node has a parent, which may be another one: MESH_EVENT_PARENT_CONNECTED.
Announce(n) ==
  /\ Input
  /\ up' = [up EXCEPT ![n] = Queue(@, Up("type", Kind(n)))]
  /\ UNCHANGED <<deviceVars, rootVars, relayVars, wants, version, history>>

\* node_publish_status; the next one is due long after this one has been answered.
Status(n) ==
  /\ Input
  /\ Count(up[n], "status") = 0 /\ n \notin pings
  /\ up' = [up EXCEPT ![n] = Queue(@, Up("status", version[n]))]
  /\ UNCHANGED <<deviceVars, rootVars, relayVars, wants, version, history>>

\* The buttons of a node are held the way that asks for an update.
Gesture(n) ==
  /\ Input
  /\ wants' = [wants EXCEPT ![n] = TRUE] /\ named' = named \cup {n}
  /\ UNCHANGED <<deviceVars, rootVars, up, relayVars, version, stale, due, greeted, rallies>>

\* A node that was asked to restarts with the newer firmware, its queue lost and its
\* outputs as flash had them.
Update(n) ==
  /\ wants[n] /\ version[n] < MaxFirmware
  /\ wants' = [wants EXCEPT ![n] = FALSE] /\ version' = [version EXCEPT ![n] = @ + 1]
  /\ out' \in [Outputs -> OnOff] /\ \A o \in Outputs \ OutputsOf(n) : out'[o] = out[o]
  /\ todo' = [t \in Tasks |-> todo[t] \ OutputsOf(n)]
  /\ seen' = [t \in Tasks |-> {s \in seen[t] : Board[s.of] # n}]
  /\ up' = [up EXCEPT ![n] = <<Up("type", Kind(n))>>]
  /\ stale' = stale \cup {o \in OutputsOf(n) :
                            \/ out'[o] # out[o] \/ Waiting(up[n], o)
                            \/ \E t \in Tasks : o \in todo[t]}
  /\ greeted' = greeted \ OutputsOf(n)
  /\ rallies' = rallies - Count(up[n], "pong")
  /\ Neither /\ UNCHANGED <<deviceVars, rootVars, times, due, named>>

\* mesh_rx_task of a node takes what the root, or a former one, sent first, when it has
\* reported what it had to.
To(s) == Head(tx[s]).to
Arg(s) == Head(tx[s]).arg
Received(s, kind) ==
  /\ tx[s] # <<>> /\ Head(tx[s]).kind = kind /\ To(s) # Nowhere
  /\ todo["rx"] \cap OutputsOf(To(s)) = {}
  /\ tx' = [tx EXCEPT ![s] = Tail(@)]
  /\ Neither

\* relay_sync_all_states, asked for with a message of its own or the command "S".
OnSync(s) ==
  /\ Received(s, "sync")
  /\ todo' = [todo EXCEPT !["rx"] = @ \cup OutputsOf(To(s))]
  /\ UNCHANGED <<deviceVars, root, registry, job, mqttOn, pings, up, out, times, seen, wants,
                 version, history>>

OnSwitchCommand(s) ==
  /\ Received(s, "switch")
  /\ out' = [out EXCEPT ![Arg(s).of] = Arg(s).state]
  /\ todo' = [todo EXCEPT !["rx"] = @ \cup {Arg(s).of}]
  /\ UNCHANGED <<deviceVars, root, registry, job, mqttOn, pings, up, times, seen, wants,
                 version, history>>

\* A time that a former root sends late replaces what the present one has sent.
OnTimeCommand(s) ==
  /\ Received(s, "time")
  /\ times' = [times EXCEPT ![Arg(s).of] = Arg(s).time]
  /\ due' = IF s = root THEN due ELSE LostTime(Arg(s).of)
  /\ UNCHANGED <<deviceVars, root, registry, job, mqttOn, pings, up, out, todo, seen, wants,
                 version, stale, greeted, named, rallies>>

\* Mutation: the kind of device a message is for is not looked at.
OnUpdateOrderAny(s) ==
  /\ Received(s, "update")
  /\ wants' = [wants EXCEPT ![To(s)] = TRUE]
  /\ UNCHANGED <<deviceVars, root, registry, job, mqttOn, pings, up, relayVars, version, history>>

\* MSG_TYPE_OTA_START, dropped by devices of the other kind.
OnUpdateOrder(s) ==
  /\ Received(s, "update")
  /\ wants' = [wants EXCEPT ![To(s)] = @ \/ Arg(s) = Kind(To(s))]
  /\ UNCHANGED <<deviceVars, root, registry, job, mqttOn, pings, up, relayVars, version, history>>

\* The ping goes back to the address it came from.
OnPing(s) ==
  /\ Received(s, "ping")
  /\ up' = [up EXCEPT ![To(s)] = QueueFirst(@, Up("pong", Arg(s)))]
  /\ rallies' = IF Full(up[To(s)]) THEN rallies - 1 ELSE rallies
  /\ UNCHANGED <<deviceVars, root, registry, job, mqttOn, pings, relayVars, wants, version,
                 stale, due, greeted, named>>

\* esp_mesh_send does not find the address.
SendFails(s) ==
  /\ tx[s] # <<>> /\ To(s) = Nowhere
  /\ tx' = [tx EXCEPT ![s] = Tail(@)]
  /\ Neither
  /\ UNCHANGED <<deviceVars, root, registry, job, mqttOn, pings, nodeVars, history>>

Relay ==
  \/ \E t \in Tasks, o \in Outputs : Look(t, o)
  \/ \E t \in Tasks : \E s \in seen[t] : Report(t, s)
  \/ \E o \in Outputs : TimerFires(o)
Node(s) ==
  OnSync(s) \/ OnSwitchCommand(s) \/ OnTimeCommand(s) \/ OnUpdateOrder(s) \/ OnPing(s) \/ SendFails(s)
-----------------------------------------------------------------------------
(* The root's RX task: root_handle_mesh_message *)

Heard(n, kind) ==
  /\ up[n] # <<>> /\ Head(up[n]).kind = kind
  /\ up' = [up EXCEPT ![n] = Tail(@)]
  /\ registry' = Register(n)
  /\ Neither

Content(n) == Head(up[n]).arg

\* Mutation: a relay that announces itself is only registered.
HearTypeOnly(n) ==
  /\ Heard(n, "type")
  /\ greeted' = IF Content(n) = "relay" /\ ~Full(tx[root]) THEN greeted \cup OutputsOf(n)
                ELSE greeted
  /\ UNCHANGED <<deviceVars, root, tx, job, mqttOn, pings, relayVars, wants, version, stale, due,
                 named, rallies>>

HearType(n) ==
  /\ Heard(n, "type")
  /\ IF Content(n) = "relay"
     THEN /\ Send(Down("sync", n, ""))
          /\ greeted' = IF Full(tx[root]) THEN greeted ELSE greeted \cup OutputsOf(n)
     ELSE UNCHANGED <<tx, greeted>>
  /\ UNCHANGED <<deviceVars, root, job, mqttOn, pings, relayVars, wants, version, stale, due,
                 named, rallies>>

\* Published while MQTT is connected, and otherwise forgotten.
HearState(n) ==
  /\ Heard(n, "state")
  /\ IF mqttOn
     THEN UpdateState(Content(n).of, Content(n).state) /\ UNCHANGED <<stale, greeted>>
     ELSE LostState(Content(n).of) /\ UNCHANGED <<states, retained>>
  /\ UNCHANGED <<firmware, root, tx, job, mqttOn, pings, relayVars, wants, version, due, named,
                 rallies>>

\* The backend stores what it says (handle_root_state) and asks for a ping.
HearStatus(n) ==
  /\ Heard(n, "status")
  /\ IF mqttOn
     THEN SetFirmwareVersion(n, Content(n)) /\ pings' = pings \cup {n}
     ELSE UNCHANGED <<firmware, pings>>
  /\ UNCHANGED <<states, retained, root, tx, job, mqttOn, relayVars, wants, version, history>>

\* Mutation: the last pong is answered with one more ping.
HearPongAgain(n) ==
  /\ Heard(n, "pong") /\ Content(n).from = root
  /\ SendFirst(Down("ping", n, [Content(n) EXCEPT !.number = @ + 1]))
  /\ rallies' = IF Full(tx[root]) \/ Content(n).number >= PingPongNumber THEN rallies - 1
                ELSE rallies
  /\ UNCHANGED <<deviceVars, root, job, mqttOn, pings, relayVars, wants, version, stale, due,
                 greeted, named>>

\* A registered node is pinged again until the number is reached, when the mean of the
\* times is published; another one's pong is ignored.
HearPong(n) ==
  /\ Heard(n, "pong") /\ Content(n).from = root
  /\ IF n \in {registry'[i] : i \in DOMAIN registry'} /\ Content(n).number < PingPongNumber
     THEN /\ SendFirst(Down("ping", n, [Content(n) EXCEPT !.number = @ + 1]))
          /\ rallies' = IF Full(tx[root]) THEN rallies - 1 ELSE rallies
     ELSE UNCHANGED tx /\ rallies' = rallies - 1
  /\ UNCHANGED <<deviceVars, root, job, mqttOn, pings, relayVars, wants, version, stale, due,
                 greeted, named>>

RootRx(n) == HearType(n) \/ HearState(n) \/ HearStatus(n) \/ HearPong(n)

\* A pong to a node that is no longer the root is a ping to it, and goes back in turn.
EchoPong(n) ==
  /\ up[n] # <<>> /\ Head(up[n]).kind = "pong" /\ Content(n).from # root
  /\ up' = [up EXCEPT ![n] = Tail(@)]
  /\ tx' = [tx EXCEPT ![Content(n).from] = QueueFirst(@, Down("ping", n, Content(n)))]
  /\ rallies' = IF Full(tx[Content(n).from]) THEN rallies - 1 ELSE rallies
  /\ Neither
  /\ UNCHANGED <<deviceVars, root, registry, job, mqttOn, pings, relayVars, wants, version,
                 stale, due, greeted, named>>
-----------------------------------------------------------------------------
(* The root's MQTT task: handle_mqtt_command and what it calls *)

Ready == job = Idle /\ mqttOn

\* A page switches an output, or asks a relay for its states.
RelayCommand(r) ==
  /\ Ready /\ Input
  /\ IF r \in Registered
     THEN \/ \E o \in OutputsOf(r), state \in OnOff :
               Send(Down("switch", r, [of |-> o, state |-> state]))
          \/ Send(Down("sync", r, ""))
     ELSE UNCHANGED tx
  /\ UNCHANGED <<deviceVars, root, registry, job, mqttOn, pings, nodeVars, history>>

\* The order for one device, named with a kind, which may be the wrong one.
UpdateDevice(n) ==
  /\ Ready /\ Input
  /\ \E kind \in Kinds :
       /\ IF n \in Registered THEN SendFirst(Down("update", n, kind)) ELSE UNCHANGED tx
       /\ named' = named \cup {kind}
  /\ UNCHANGED <<deviceVars, root, registry, job, mqttOn, pings, nodeVars, stale, due, greeted,
                 rallies>>

\* The order for all devices of a kind goes through the slots.  History: the nodes that
\* were in the registry before, those it was queued for and those it was refused for.
UpdateAll ==
  /\ Ready /\ Input
  /\ \E kind \in Kinds :
       /\ job' = [kind |-> "update", slot |-> 1, of |-> kind,
                  owed |-> Registered, ordered |-> <<>>, missed |-> {}]
       /\ named' = named \cup {kind}
  /\ UNCHANGED <<deviceVars, root, registry, tx, mqttOn, pings, nodeVars, stale, due, greeted,
                 rallies>>

\* Mutation: the loop ends one slot early.
UpdateSlotShort ==
  /\ job.kind = "update" /\ job.slot <= MaxNodes
  /\ IF job.slot < Len(registry)
     THEN /\ SendFirst(Down("update", registry[job.slot], job.of))
          /\ job' = IF Full(tx[root])
                    THEN [job EXCEPT !.slot = @ + 1, !.missed = @ \cup {registry[job.slot]}]
                    ELSE [job EXCEPT !.slot = @ + 1, !.ordered = Append(@, registry[job.slot])]
     ELSE job' = [job EXCEPT !.slot = @ + 1] /\ UNCHANGED tx
  /\ Neither
  /\ UNCHANGED <<deviceVars, root, registry, mqttOn, pings, nodeVars, history>>

\* One turn of the loop, without the mutex: the first free slot may have its device_id
\* already and its address not yet, when the RX task is registering a node.
UpdateSlot ==
  /\ job.kind = "update" /\ job.slot <= MaxNodes
  /\ IF job.slot <= Len(registry)
     THEN /\ SendFirst(Down("update", registry[job.slot], job.of))
          /\ job' = IF Full(tx[root])
                    THEN [job EXCEPT !.slot = @ + 1, !.missed = @ \cup {registry[job.slot]}]
                    ELSE [job EXCEPT !.slot = @ + 1, !.ordered = Append(@, registry[job.slot])]
     ELSE /\ job' = [job EXCEPT !.slot = @ + 1]
          /\ \/ UNCHANGED tx
             \/ /\ job.slot = Len(registry) + 1
                /\ \E n \in Nodes \ Registered : up[n] # <<>>
                /\ SendFirst(Down("update", Nowhere, job.of))
  /\ Neither
  /\ UNCHANGED <<deviceVars, root, registry, mqttOn, pings, nodeVars, history>>

UpdateEnd ==
  /\ job.kind = "update" /\ job.slot > MaxNodes /\ job' = Idle
  /\ Neither
  /\ UNCHANGED <<deviceVars, root, registry, tx, mqttOn, pings, nodeVars, history>>

\* parse_json_auto_off.  History: an output of a relay that is registered now is to have
\* its new time, one of another relay keeps the one it has.
AutoOff ==
  /\ Ready /\ Input
  /\ \E table \in Pushes :
       LET listed == {table[i].of : i \in DOMAIN table}
           timeOf(o) == table[CHOOSE i \in DOMAIN table : table[i].of = o].time IN
       /\ job' = [kind |-> "autoOff", todo |-> table, missing |-> {}]
       /\ due' = [o \in (DOMAIN due \ listed) \cup {p \in listed : Board[p] \in Registered} |->
                    IF o \in listed THEN timeOf(o) ELSE due[o]]
  /\ UNCHANGED <<deviceVars, root, registry, tx, mqttOn, pings, nodeVars, stale, greeted, named,
                 rallies>>

Item == Head(job.todo)
NextItem(missing) ==
  job' = IF Len(job.todo) = 1 THEN Idle
         ELSE [job EXCEPT !.todo = Tail(@), !.missing = missing]

\* A relay is looked for once, for all its outputs.
Found(r) == r \in Registered \ job.missing

SendTime ==
  /\ Send(Down("time", Board[Item.of], Item))
  /\ due' = IF Full(tx[root]) THEN LostTime(Item.of) ELSE due

\* Mutation: a relay that is not registered ends the loop.
AutoOffItemStops ==
  /\ job.kind = "autoOff"
  /\ IF Found(Board[Item.of])
     THEN SendTime /\ NextItem(job.missing)
     ELSE UNCHANGED <<tx, due>> /\ job' = Idle
  /\ Neither
  /\ UNCHANGED <<deviceVars, root, registry, mqttOn, pings, nodeVars, stale, greeted, named,
                 rallies>>

AutoOffItem ==
  /\ job.kind = "autoOff"
  /\ IF Found(Board[Item.of])
     THEN SendTime /\ NextItem(job.missing)
     ELSE UNCHANGED <<tx, due>> /\ NextItem(job.missing \cup {Board[Item.of]})
  /\ Neither
  /\ UNCHANGED <<deviceVars, root, registry, mqttOn, pings, nodeVars, stale, greeted, named,
                 rallies>>

SendPing(n) ==
  /\ SendFirst(Down("ping", n, [number |-> 1, from |-> root]))
  /\ rallies' = IF Full(tx[root]) THEN rallies ELSE rallies + 1

\* "P" for one node.
Ping(n) ==
  /\ Ready /\ n \in pings /\ pings' = pings \ {n}
  /\ IF n \in Registered THEN SendPing(n) ELSE UNCHANGED <<tx, rallies>>
  /\ Neither
  /\ UNCHANGED <<deviceVars, root, registry, job, mqttOn, nodeVars, stale, due, greeted, named>>

\* "P" for the root: the nodes in the registry are copied, then pinged.
PingAll ==
  /\ Ready /\ Input
  /\ job' = IF registry = <<>> THEN Idle ELSE [kind |-> "ping", todo |-> registry]
  /\ UNCHANGED <<deviceVars, root, registry, tx, mqttOn, pings, nodeVars, history>>

PingItem ==
  /\ job.kind = "ping"
  /\ SendPing(Item)
  /\ job' = IF Len(job.todo) = 1 THEN Idle ELSE [job EXCEPT !.todo = Tail(@)]
  /\ Neither
  /\ UNCHANGED <<deviceVars, root, registry, mqttOn, pings, nodeVars, stale, due, greeted, named>>

MqttTask ==
  \/ UpdateSlot \/ UpdateEnd \/ AutoOffItem \/ PingItem
  \/ \E n \in Nodes : Ping(n)
-----------------------------------------------------------------------------
(* Faults *)

LoseUp(n) ==
  /\ Fault
  /\ up[n] # <<>> /\ up' = [up EXCEPT ![n] = Tail(@)]
  /\ Lost(Head(up[n]), n)
  /\ UNCHANGED <<deviceVars, rootVars, relayVars, wants, version, named>>

LoseDown(s) ==
  /\ Fault
  /\ tx[s] # <<>> /\ tx' = [tx EXCEPT ![s] = Tail(@)]
  /\ Lost(Head(tx[s]), To(s))
  /\ UNCHANGED <<deviceVars, root, registry, job, mqttOn, pings, nodeVars, named>>

OutOfMemory ==
  /\ faults < MaxFaults /\ faults' = faults + 1
  /\ ~oom /\ oom' = TRUE
  /\ UNCHANGED <<deviceVars, rootVars, nodeVars, inputs, history>>

MemoryBack ==
  /\ oom /\ oom' = FALSE
  /\ UNCHANGED <<deviceVars, rootVars, nodeVars, inputs, faults, history>>

\* What the backend asked for is lost with the connection.
MqttDown ==
  /\ Fault
  /\ mqttOn /\ mqttOn' = FALSE /\ pings' = {}
  /\ UNCHANGED <<deviceVars, root, registry, tx, job, nodeVars, history>>

MqttUp ==
  /\ ~mqttOn /\ mqttOn' = TRUE
  /\ Neither
  /\ UNCHANGED <<deviceVars, root, registry, tx, job, pings, nodeVars, history>>

\* Another node becomes the root when this one gives up the role, with its queue still
\* to be sent, or has no power, with the queue lost.  It has a registry of its own, which
\* keeps what it held if it was the root before.
RootChange ==
  /\ Fault
  /\ root' \in Roots
  /\ \/ /\ root' # root /\ job = Idle /\ UNCHANGED <<tx, rallies>>
     \/ /\ tx' = [tx EXCEPT ![root] = <<>>]
        /\ rallies' = rallies - Count(tx[root], "ping")
  /\ registry' \in {<<>>, registry} /\ job' = Idle /\ mqttOn' = FALSE /\ pings' = {}
  /\ due' = [o \in {p \in DOMAIN due :
                      /\ \A s \in Roots : \A i \in DOMAIN tx[s] :
                           tx[s][i].kind = "time" => tx[s][i].arg.of # p
                      /\ job.kind = "autoOff" => \A i \in DOMAIN job.todo : job.todo[i].of # p}
             |-> due[o]]
  /\ greeted' = {o \in greeted : \A i \in DOMAIN tx[root] :
                                   tx[root][i].kind = "sync" => tx[root][i].to # Board[o]}
  /\ UNCHANGED <<deviceVars, nodeVars, stale, named>>

\* Only the state in the retained message and those still on their way come back.
NewBackend ==
  /\ Fault /\ BackendRestart
  /\ pings' = {}
  /\ LET forgotten == {o \in Outputs : o \notin retained[Board[o]] /\ ~Waiting(up[Board[o]], o)} IN
     stale' = stale \cup forgotten /\ greeted' = greeted \ forgotten
  /\ UNCHANGED <<root, registry, tx, job, mqttOn, nodeVars, due, named, rallies>>
-----------------------------------------------------------------------------
Next ==
  \/ \E r \in Relays : RelayCommand(r)
  \/ \E n \in Nodes :
       \/ Announce(n) \/ Status(n) \/ Gesture(n) \/ Update(n) \/ RootRx(n) \/ EchoPong(n)
       \/ UpdateDevice(n) \/ LoseUp(n)
  \/ \E s \in Roots : Node(s) \/ LoseDown(s)
  \/ Relay \/ MqttTask \/ UpdateAll \/ AutoOff \/ PingAll
  \/ OutOfMemory \/ MemoryBack \/ MqttDown \/ MqttUp \/ RootChange \/ NewBackend

Spec == Init /\ [][Next]_vars
-----------------------------------------------------------------------------
Settled(o) == ~Waiting(up[Board[o]], o) /\ \A t \in Tasks : o \notin todo[t]

\* With no report of an output under way the backend knows its state, whatever was
\* switched while others were sent (relay_send_state_confirmation,
\* MSG_TYPE_RELAY_STATE).  The exceptions are those the code has: the last report was
\* lost on the air, refused by the queue, came while MQTT was down or told a state that
\* the other task had changed meanwhile; the relay restarted with what flash had; the
\* backend restarted, and the retained message of the relay is about another output.
StatesArrive == \A o \in Outputs : o \notin stale /\ Settled(o) => states[o] = out[o]

\* The next announcement of a relay repairs all of these: its states are asked for, and
\* with the answers in the backend knows them, unless one of these happens again.
SyncRepairs ==
  \A o \in greeted :
    /\ Settled(o)
    /\ \A i \in DOMAIN tx[root] : tx[root][i].kind = "sync" => tx[root][i].to # Board[o]
    => states[o] = out[o]

\* Every output of a relay registered when a table of times came ends with the time the
\* table gave it, whichever relay before it in the table is missing, unless the message
\* was lost or refused, or a former root's message comes later.
AutoOffArrives ==
  \A o \in DOMAIN due :
    /\ job.kind # "autoOff"
    /\ \A i \in DOMAIN tx[root] : tx[root][i].kind = "time" => tx[root][i].arg.of # o
    => times[o] = due[o]

\* The order for all devices of a kind is made once for each node that was in the
\* registry when it came, while the RX task adds others and their half-written slots are
\* read: it is queued once, or refused by the queue once.  And a device updates only
\* when its kind was named or its own buttons asked for it.
UpdateReaches ==
  /\ job.kind = "update" /\ job.slot > MaxNodes =>
       \A n \in job.owed : Cardinality({i \in DOMAIN job.ordered : job.ordered[i] = n})
                           = IF n \in job.missed THEN 0 ELSE 1
  /\ \A n \in Nodes : wants[n] => Kind(n) \in named \/ n \in named

\* A ping is in one place, on its way there or back, until it is lost, refused or the
\* number of exchanges is reached, which no ping exceeds: messages do not multiply.  One
\* that comes back to a former root is exchanged with it for ever, but stays one.
PingsAccounted ==
  LET there == {p \in Roots \X (1 .. MaxQueue) :
                  p[2] \in DOMAIN tx[p[1]] /\ tx[p[1]][p[2]].kind = "ping"}
      back == {p \in Nodes \X (1 .. MaxQueue) :
                 p[2] \in DOMAIN up[p[1]] /\ up[p[1]][p[2]].kind = "pong"}
  IN /\ rallies = Cardinality(there) + Cardinality(back)
     /\ \A p \in there : tx[p[1]][p[2]].arg.number <= PingPongNumber

\* A device is shown as up to date only with the newest version reported by its kind
\* since the backend started (set_firmware_version).
UpToDateIsNewest == \A n \in Nodes : upToDate[n] => versions[n] = newest[Kind(n)]
====
