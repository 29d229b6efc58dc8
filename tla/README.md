# Domator, modelled in TLA+

Domator is a home automation system. Relay boards and wall switches form an
ESP-MESH network (`uc/buttonsMeshIDF`); one node, the root, speaks MQTT to a
backend (`turbacz`), which keeps the configuration in PostgreSQL and serves web
pages and a mobile application. A button press travels from a switch over the mesh
to the root, which looks up what the button is connected to and commands relay
boards; a relay board reports every change back over the root to the backend.

The models here are about what happens between tasks, nodes, flash and messages.
They are written from the C and Python sources; every definition that stands for
code is listed with its lines in `PROJECT.json` ("map").

## The system

| Part | State | Operations | Talks to |
|---|---|---|---|
| Relay board (`node_relay.c`) | output word, auto-off seconds, one software timer per relay, copies of both in NVS | toggle, set, set auto-off, sync, auto-off callback, save, load at boot | RX task calls it; FreeRTOS timer task calls the callback; health task saves; reports go to the TX queue |
| Buttons (`node_switch.c`, `node_relay.c`) | last level and times of each button | interrupt, debouncing, long press, update gesture | TX queue, update |
| TX queue (`mesh_comm.c`) | a queue of 40 pointers, heap | `mesh_queue_to_node`, `mesh_tx_task` | every task that sends; `esp_mesh_send` |
| RX task (`mesh_comm.c`) | one message | dispatch to root, relay, update, pong | mesh; the handlers |
| Update (`health_ota.c`) | request, countdown, pause flag, failure counter in NVS | `ota_task`, `mesh_disconnect_and_ota`, WiFi events | pauses all tasks; bootloader |
| Root tables (`node_root.c`) | connections, button types, blind pairs; two mutexes | the parsers of the JSON messages | MQTT task writes, RX task reads |
| Root routing (`node_root.c`) | node registry | button events | mesh |
| Root registry, commands, reports (`node_root.c`) | node registry | relay states, status, type info, pings, MQTT commands | mesh and MQTT |
| Life cycle (`mesh_init.c`, `node_root.c`, `domator_mesh.c`) | root flag, MQTT client, connection flags | mesh and IP events, start and stop of the root's services | all tasks |
| Remote log (`telnet.c`) | socket, task handle, log hook and its mutex | start, stop, serve, log | life cycle |
| Backend (`broker.py`, `state_manager.py`, `connection_manager.py`, `main.py`, `websocket.py`) | database, online lists, relay states, firmware versions, web sockets | MQTT handlers, page commands, pushes | MQTT, pages |
| Heating, blinds, hygrometer, simulators | sensors, motors | sequential loops | MQTT or HTTP |

What makes each part correct, and what is hard to test about it:

* **Relay board.** A relay that is ON with auto-off configured has a timer that will
  switch it OFF; the root knows the state of every relay; flash catches up with the
  outputs. Two tasks change relays, and `relay_set` does half of its work after it has
  given its mutex back; a third task saves to flash; power may fail at any step.
* **Buttons.** The root knows the level of a button that is left alone, bounces are not
  reported, and nobody starts an update by accident. The task reads level and time some
  time after the interrupt, and the millisecond clock wraps.
* **TX queue.** Nothing leaks, normal messages keep their order, nobody waits for
  ever. The queue is full, its reader has been stopped by an update, or urgent
  messages go to the front of it without limit.
* **Update.** A node never rolls back without having failed often enough, and an
  update always ends. Flash may fail and power may be cut between any two steps.
* **Root tables and routing.** A button commands what the backend's database says, once
  and in one form. Tables are replaced slot by slot while events are being routed, pushes may
  be too long to arrive, and commands may find no room.
* **Registry, commands and reports.** The backend's picture of the outputs is right or
  will be repaired; a command to all devices reaches all of them. The RX task and the
  MQTT task share the registry and a bounded queue, two tasks of a relay report its outputs, the
  mesh loses messages, the role of the root moves, and the backend restarts.
* **Life cycle.** Whoever acts as the root finds its mutexes and client. The mesh changes
  its mind faster than the event task works, and clients, tasks and sockets outlive roles.

`PROJECT.json` lists the hazards with their lines ("hazards").

## The modules

| Module | Models | Extended or used by |
|---|---|---|
| `RelayBoard` | `node_relay.c` with its callers in `mesh_comm.c` and `health_ota.c` | `MCRelayBoard`, `RelayBoardProofs`, `RelayBoardSafety` |
| `SwitchButtons` | `node_switch.c`, and the button task of `node_relay.c` | `SwitchButtonsProofs` |
| `OtaUpdate` | `health_ota.c` | `OtaUpdateProofs` |
| `MeshQueue` | the TX half of `mesh_comm.c`; implements `Channel` | `MCMeshQueue`, `MeshQueueProofs` |
| `Channel` | what the TX queue promises to its callers (abstract) | `MeshQueue` |
| `RootTables` | backend pushes and the parsers of `node_root.c` | `RootRouter` |
| `RootRouter` | button events in `node_root.c`, composed with `RootTables` | `MCRootRouter`, `RootTablesProofs` |
| `DeviceState` | the part of `state_manager.py` that messages change | `RootRegistry` |
| `RootRegistry` | the other messages of `node_root.c` and `mesh_comm.c`, composed with `DeviceState` | `MCRootRegistry`, `RootRegistryProofs` |
| `RootLifecycle` | `mesh_init.c`, start and stop of `node_root.c`, `telnet.c` | `RootLifecycleProofs` |

**RelayBoard.** Four tasks, each with a label `pc` and its locals: `main` (boot), `rx`
(commands), `tmr` (the FreeRTOS timer task: it drains the timer command queue and runs
the callback) and `health`. A section under `g_relay_mutex` is one step; what follows it
(`StopTimer`, `ChangePeriod`, `StartTimer`, `ReadState`, `SendReport`) is one step per
call. Timer commands go through a bounded queue and are lost when it is full, as
`xTimerStop(timer, 0)` loses them. `Crash` forgets RAM and keeps flash, `Boot` is
`relay_init`. `rootView` is what the root has been told. A report is read in one step and
queued in another, so that two tasks may queue theirs in the wrong order; it may be dropped with
room in the queue, too, when a `malloc` of `mesh_queue_to_node` fails (`DropReport`).

**SwitchButtons.** The interrupt only sets a bit; the task takes all bits and then looks at
one button after the other, at its level and the clock as they are by then. Clock values
wrap at `Wrap`; beside each stands an age that does not, which the code does not have and
the properties speak of.

**OtaUpdate.** `ota_task` and `mesh_disconnect_and_ota` as one `phase`; each access to the
counter in flash may fail; `failed` and `resetLost` are history variables that say what
the counter ought to know. `ota_check_rollback_on_boot` is called from nowhere; it is left out.

**MeshQueue.** Any number of callers, urgent or normal, with their attempts; `heap`
counts allocated items. Urgent items go to the front and do not wait for room; the
queue is made by the TX task itself, which looks at the pause flag before it waits for an item
and so may send one more after an update began. An urgent task never stops: its messages are
numbered anew when they have been sent, since nothing depends on their order. (The comment at
`mesh_comm.c:233-236` promises urgent messages more attempts and longer waits; the code at
267-270 gives both kinds two attempts, and the urgent ones no wait. The model follows the code,
and no property depends on the difference.) **Channel** is what callers may rely on: an accepted
message is delivered once, ordered senders' oldest first; a message is lost only while it is
handed over, for want of memory or of room.

**RootTables.** The backend edits its database and pushes messages; the MQTT task takes
them and parses the entries into slots, each in the steps of the code (free, clear, fill).
A freed slot that is still pointed into gives any value. A shorter table leaves the slots
beyond its end as they were, entries beyond the last slot and pairs beyond `MAX_BLIND_PAIRS` are
cut, and a message that does not fit in the client's buffer of 4096 bytes (`node_root.c:1512`) comes
in fragments, of which none changes a table (`RefuseMessage`; the limit of 8192 at 1403 refuses
nothing more). `TooLong` says which messages are that long.

**RootRouter.** The RX task handles one event: type lookup, copy of the targets, pair
lookup, then the blind's output or the loop over the targets through the pointer found
earlier. `touched` notes that a table was being replaced meanwhile. `sent` holds the commands handed to
`mesh_queue_to_node` and `lost` those that it did not queue, of which the code takes no notice.

**RootRegistry.** Nodes announce themselves, report states and status, answer pings; the
root registers them, asks relays for their states, publishes; the MQTT task sends auto-off
times, orders to update and pings to one node per step while the RX task adds others, whose slot
it may see half written (`UpdateSlot`). On a relay the RX task and the timer task each read an output
(`Look`) and queue its state later (`Report`), so that an older state may be queued last. Both
directions have bounded queues; a message is refused by a full one or when there is no memory
(`Full`), and lost on the air. `RootChange` moves the role to another node, which starts with an
empty registry or the one of an earlier term; the former root keeps its queue and sends what is in
it. A pong goes to the node the ping came from; where that is no longer the root, it answers in
turn (`EchoPong`), and the two exchange the ping for ever. `NewBackend` restarts the backend: all
outputs of a relay are published on one retained topic (`node_root.c:347-351`), so that only the
last one published comes back. A device updates on an order or on the gesture of its own buttons.
The root answers only "P" among the page's commands to nobody in particular: the "U" of
`main.py:544` is not handled.

**RootLifecycle.** The mesh decides and posts events; the event task handles them in order,
in several steps where another task can see the difference. Next to it run the MQTT client's
task, the telnet task, a task that publishes and one that logs. Using what is destroyed or not
yet made is a panic, and the node restarts. `publish_connection_status` may return without having
published (no memory, or the client refuses), and the flag is set all the same.

Abstractions, by name:

* Taking a mutex succeeds (the 100 ms, 200 ms and 5 s timeouts and their error paths are
  left out), and handles created at start-up are not NULL.
* Time, outside `SwitchButtons`: a timer is running or not, with its period; which of several
  due things comes first is open. The 5 s period of the health task and all delays are any
  time at all. In `SwitchButtons` ages saturate at `Wrap`.
* Messages between two nodes arrive in order or not at all; a button message and a
  configuration message are records.
* `nvs_set` with `nvs_commit` is one step; a missing key reads as OFF or 0.
* The comparison with flash and the copy of the word (`node_relay.c:216` and `:228`) are one step.
* In `RelayBoard` the TX queue holds relay reports only; the full queue is `MeshQueue`.
* In `RelayBoard` and `RootRouter` an update is a task that does not step.
* In `Boot` the stops posted while the outputs are restored are in the queue when the
  last loop begins, any number of the last ones of them.
* In `RootLifecycle` an update is left out: it calls `node_root_stop` from its own task
  (`health_ota.c:158`) and stops the mesh, upon which `MESH_EVENT_STOPPED` clears `g_mesh_connected`
  (`mesh_init.c:83`); the node then restarts or stays paused, which is in `OtaUpdate`.
* In `RootRouter` a linear search of a table is one step, a device keeps its mesh
  address, and buttons are a–h.
* In `RootLifecycle` stopping a client may or may not deliver its `DISCONNECTED` event; an address is
  given only after the DHCP client was started; at most `MaxEvents` events wait.
* In `RootRegistry` a handler of the root's RX task is one step; the RX task of a relay takes the next
  message when it has reported what the last one asked for; the broker delivers what the root
  publishes at once and in order; a node's firmware is constant until it updates; a second "P"
  for the same node waits for the first; memory is short for all nodes or for none. The buttons of
  a relay only send messages to the root, as a switch's do; these are in `RootRouter`. Left out: the
  root's messages to itself, the times and averages of pings, who is online, broadcasts to pages.
* Statistics, log texts and LED colours are left out.

`relay_handle_command` runs in the RX task only (`mesh_comm.c:129`, `node_root.c:246`):
`ToggleNeverMisses` and `OffStays` depend on it.

## The runs

| Run | Checks | Bounds |
|---|---|---|
| `relay_board` | `TypeOK`, `ReportKept`, `CoverageKept` | 2 relays, 2 commands, timer queue 2, TX queue 1 |
| `relay_board_live` | `ToggleNeverMisses`, `OffStays`, `AutoOffHappens`, `SavedEventually` | 1 relay, 3 commands (toggle, auto-off disabled, state request), queues of 1, fairness |
| `switch_buttons` | `TypeOK`, `RestReported`, `EdgeReported`, `NoChatter`, `LongIsLong`, `UpdateNeedsGesture` | 1 button, debounce 1, gesture 3 and 4, long press 3, clock of 6 values, fairness |
| `ota_update` | `TypeOK`, `RollbackEarned`, `UpdateRestarts` | 3 failures, 2 retries, fairness |
| `tx_queue` | `TypeOK`, `NoLeak`, `NormalInOrder`, `CallersReturn`, `StarvedByUrgentOnly`, `KeepsPromise` | 2 normal callers of 2 messages each, 1 urgent one without end, queue 2, 2 attempts, fairness |
| `root_router` | `TypeOK`, `ListedRouted`, `EventsRouted`, `EventEnds`, `PushesApplied` | 2 switches, 1 relay in the mesh and 1 outside, 2 slots, room for 1 pair, 2 databases, 1 message too long, 2 pushes, fairness |
| `root_registry` | `TypeOK`, `StatesArrive`, `SyncRepairs`, `AutoOffArrives`, `UpdateReaches`, `PingsAccounted`, `UpToDateIsNewest` | 2 relays, 1 switch, 2 slots, queues of 2, pings of 2 exchanges, 1 table of times, 2 nodes that may be the root, 2 inputs, 1 fault |
| `root_lifecycle` | `TypeOK`, `RootHasMutexes`, `ConnectedIsTrue`, `LeafSheds`, `RootAnnounces`, `LogReturns` | 2 waiting events, fairness |

Why the bounds are enough: relays interact only through the shared word, the two
queues and the loops, for which two relays do; the queue lengths (10, 40 in the program)
are small so that "full" happens. Buttons share nothing but the order in which the task looks
at them, and what the others cost is the task's lateness, which is any time at all; the clock
is wider than each threshold and wraps within a few steps. Two messages per caller show an
order, three callers overfill a queue of two. Two slots and three nodes overfill the
registry; two pushes put a second table over a first, and between the two databases a switch
moves to another slot, changes its type, loses its last connection and comes to drive a blind.
A route has three targets where two are copied, so the cut is reached, and its first target
is a relay that never joins. In `RootRegistry` a node that announces itself is registered,
asked for its states and commanded, or ordered to update, or pinged, within two inputs; the command and
the timer change an output while it is being reported, the queues are full, one relay has a newer
version than the other, and one fault (a loss, no memory, MQTT down, a new root, a new backend) comes at any point. The
two nodes that may be the root play the same part, so the run takes them as symmetric (1.7 million
states); its properties are all of safety. That a full registry refuses a third node happens in
`root_router`; what more inputs and faults bring is left to the proofs.
Two events wait, so that an event of an earlier role is handled in a later one.
`Databases`, `Commands`, `Pushes`, `Firmware`, `MaxPushes`, `MaxMsgs`, `MaxInputs`,
`MaxFaults`, `MaxEvents` and `MaxFirmware` are the only bounds that are not the program's own.

What they show:

* `ReportKept`: while the board runs, the root's picture of a relay goes wrong only in a
  step that loses a report: a failed send, no memory for the message, a full queue, or a stale
  report overtaken by the other task.
* `CoverageKept`: a relay that is ON loses its auto-off timer in two ways only: a full timer
  queue, or the callback that stops the timer a command has just started.
* `ToggleNeverMisses`, `OffStays`: a toggle finds its relay as it read it or OFF, and a relay that
  a command switched OFF stays OFF until the command is through. That the callback may switch OFF a relay a command has just switched ON is not excluded: it
  looks at the timeout and the state, and then switches, in three steps.
* `AutoOffHappens`, `SavedEventually`: a covered relay goes OFF; flash catches up, although
  the callback may write an old word last.
* `RestReported`, `EdgeReported`: a button left alone after an isolated edge has been, or will
  be, reported as it is. An edge within the debounce time of another may be lost: the code
  takes it for a bounce, and if it was the last one the root keeps the wrong level until the
  next press; `isolated` names exactly the edges for which the code can be held to more.
* `NoChatter`, `LongIsLong`, `UpdateNeedsGesture`: hold across wraps of the clock, up to
  one turn. `UpdateNeedsGesture` also says what the code does not exclude: the first release of a
  button that was closed at start-up, since the times are 0 by then.
* `RollbackEarned`: whatever reads and writes of the counter are lost.
* `NoLeak`, `NormalInOrder`, `CallersReturn`: the queue at its limit, with
  and without an update. `KeepsPromise`: the queue implements `Channel`. `StarvedByUrgentOnly`: a
  normal message that is queued need not ever be sent, since urgent ones are put before it without
  limit; it is when these fall silent and no update begins, and this is the only hold-up there is.
* `ListedRouted`: once a table is parsed, what it lists is in force, even though older
  entries for the same device may lie in later slots. A device that is no longer listed may keep its
  old routes in such a slot; the property says nothing of it.
* `PushesApplied`: after a push that was parsed, the first slots are what it listed and the pairs are
  its own, as many as there is room for; a push that is too long changes nothing.
* `EventsRouted`: an event during which no table was being replaced hands over exactly the commands
  for the registered targets, or for the one output of its blind pair; one that cannot be queued is
  lost alone. `EventEnds`: the RX task gets through in spite of the other's mutex.
* `StatesArrive`, `SyncRepairs`: with no report under way the backend knows every output, unless
  the last report was lost, refused or overtaken, the relay restarted, or the backend did and the
  retained message is about another output; an announcement then repairs it, unless one of these
  happens again.
* `AutoOffArrives`: relays registered when a table of times came get their times, whoever before
  them in the table is missing; those that join later get nothing, which the property
  does not promise. `UpdateReaches`: the walk over the registry, which takes no mutex, makes the order for each
  node exactly once while others are being added: it is queued, or refused by a full queue, with
  the result ignored (`node_root.c:1309`), in which case the node does not update. An order to a
  half-written slot goes to the address 0, and is not sent. A device updates only when its kind was
  named or its own buttons asked for it.
* `PingsAccounted`: a ping is in one place until it is lost, refused or at its number of exchanges.
  One that comes back to a former root goes to and fro for ever, but stays one and does not count on.
* `UpToDateIsNewest`: in whatever order versions are reported.
* `RootHasMutexes`, `ConnectedIsTrue`: in any order of mesh, address and client events.
* `LeafSheds`, `RootAnnounces`: once the mesh has settled, a node below another has given up the
  root's services, and a root has announced itself, except where its client could not be set
  up, where `publish_connection_status` gave up (the flag is set all the same, and it is not tried
  again before the next disconnection), or where `connection_status_published`, which `node_root_stop`
  does not reset, says that it has.
* `LogReturns`: a task that logs waits at most for the timeout, though the telnet task may be deleted
  with the mutex in its hands.

Four runs show where the code does something else than its comments, or its user
interface, say; the findings in `PROJECT.json` quote both:

| Run | Refuted | Because |
|---|---|---|
| `relay_timer_race` | `TimerNeverLost` | the timer is updated after the mutex is given back |
| `ota_pause` | `PauseEnds` | early returns leave `g_ota_in_progress` set |
| `root_pointer` | `OwnTargets` | a pointer into the table outlives the mutex |
| `telnet_server` | `ServerTornDown` | the listening socket is a local of the task that is deleted |

The race of the timer has a queue for every command, so that no loss by a full queue
can explain it; the pointer's run uses databases in which the second switch loses its
last connection.

Deadlock is checked everywhere except in `root_registry`, which stops when `MaxInputs` and
`MaxFaults` are used up.
Once pushes are used up the root still hears events, so its runs cannot stop.

## Fairness

Tasks are scheduled preemptively on two cores and block only with timeouts, so a task that
can take a step takes it: weak fairness of each task's steps. A running timer expires and the
timer queue is drained (FreeRTOS). The health task ticks for ever; its write to flash
gets strong fairness, since it is tried again every 5 s and not every attempt fails.
A queued message is sent or fails to be. In `MeshQueue` a caller inside `mesh_queue_to_node` and
the TX task run; nobody has to send, and nobody has to stop. In `OtaUpdate` each wait has a timeout; the
bootloader boots the node. In `RootRouter` the RX task waits for a mutex with a priority
above idle and gets it between two messages. In `SwitchButtons` only the button task is
fair, not the person. In `RootLifecycle` the event task, the log and the waiting logger run,
an elected root with a link gets an address, and a client reaches the broker. `RootRegistry`
has no fairness: its properties are of safety. Commands, events,
edits, pushes, crashes, requests, updates and changes of role are never forced.

## The proofs

TLAPS checks every theorem for all values of the constants that satisfy the assumptions
of the modules. In each module one lemma per action carries the invariant over a step.

* `RelayBoardProofs`: `TypeOK`, for every number of relays, command set and queue length.
* `RelayBoardSafety`: `ToggleNeverMisses`, `OffStays`, `ReportKept`, `CoverageKept`. None follows
  from `Next` alone. The first two need that only the RX task drives relays ON, i.e. that the
  timer task's local `val` is FALSE wherever it is about to set a relay, and that the task at boot
  and the health task never reach a `set`; this is the invariant `IInv` of that module
  (`InductiveInvariant`). The other two speak of single steps of four tasks; they need to know
  which relay a task that is about to report, or to start or stop a timer, holds, and that the
  loops of boot and of a sync go through each relay (`LoopsHold`).
* `OtaUpdateProofs`: `TypeOK`, `RollbackEarned`, for every `MaxFailures` up to 255 and every
  number of retries; the invariant bounds the counter, and the local that is about to be
  stored, by the failures since the last success or rollback, unless a reset was lost.
* `MeshQueueProofs`: `TypeOK`, `NoLeak`, `NormalInOrder`, and `QueueIsChannel`, the refinement
  `KeepsPromise`. The invariant: items in the queue and with the TX task are distinct
  (`Distinct`) and older than what their sender is offering (`Counted`), normal items of a
  sender stand oldest first and all are newer than the last one sent (`InOrder`), and the
  queue is within its length (`Sized`).
* `SwitchButtonsProofs`: `TypeOK`, `RestReported`, `NoChatter`, `LongIsLong`,
  `UpdateNeedsGesture`, for any thresholds and any wider clock. `AgesTrue` ties the code's
  differences modulo `Wrap` to the ages while less than a turn has passed; `SeenFirst`,
  `Settled`, `GestureTold` and `OnePass` relate what was seen, reported and pending.
* `RootLifecycleProofs`: `TypeOK`, `RootHasMutexes`, `ConnectedIsTrue`, for any number of
  waiting events: an address needs the DHCP client, which the event task starts just before
  the mutexes are made, and an MQTT task needs a client that runs.
* `RootTablesProofs`: `ListedRouted`, `TypeOK` of `RootRouter`, `EventsRouted`, for any
  databases, pushes and slots, while events are routed. The invariant says how far the parser is;
  because a message lists no device twice, the slot it fills is the first that holds the device.
  For the events it says how far the loop is: what was sent so far is what the recursive function
  `CommandsTo` gives for the targets before the one it looks at, from the copy made under the
  mutex, which is the table's list as long as no push interferes; and the pair the two nested
  loops stop at is the least of `Hits`.
* `RootRegistryProofs`: `TypeOK`, `StatesArrive`, `SyncRepairs`, `AutoOffArrives`, `UpdateReaches`,
  `PingsAccounted`, `UpToDateIsNewest`, for any nodes, roots, slots, queues, tables,
  `PING_PONG_NUMBER` and numbers of inputs and faults.
  Most of the invariants say where the last word on a matter is. An output's last report in the queue
  of its relay is its state, or, with none there, the backend has it, or it is `stale`
  (`StatesArrive`); this needs that what a node queues is about its own outputs and kind
  (`HonestInv`). `SyncInv`: an output whose relay announced itself is known by a report, is being
  reported, or its relay is going to be asked for it. The like holds for times (`TimeInv`): a time on its way from a root is the one the
  table gave, or a former root's, which ends the promise. Orders are for kinds that were named
  (`NamedInv`), and the update's walk has made the order once for each slot it has passed, since the
  registry is a bijection that only grows (`OrderInv`). `PingInv` counts: `Places` is the set of
  places of all queues that hold a ping or a pong; each step puts one there or takes one away, moves
  one from a queue to another, or loses a whole queue, and the history follows
  (`OneAdded`, `OneTaken`, and the lemmas on a `Rally`). `TypeOK` needs all of these but the last
  words.

The assumptions beyond the types of the constants: a registry and queues of at least one element,
`PING_PONG_NUMBER` of at least one (it is 2, `domator_mesh.h:51`), tables that list a relay or a
device once, as they come from columns that are keys of the database, the targets of the tables
among those the databases hold. Every run evaluates them.

Every invariant and every action property that a passing run checks is proved, and so is the
refinement. Recursion over a list of targets is reasoned about through its defining equation and
the least number at which a claim would fail (`LeastNumber`, `AllNumbers`, from the well-foundedness of the
naturals); the library's own induction theorems take an operator as a parameter. Only model-checked:
all liveness, `EdgeReported` and `UpdateRestarts` included, which is out of the prover's reach, and the
four refutations.

## Not modelled, and the plan

* `Backend`: one endless task more for every reconnection (`broker.py:51`), one
  connection shared by statements that do not roll back, `state_manager.get_all`, whose shallow
  copy is iterated over awaits, `add_switch` and the removals with their foreign keys.
  Properties: pages in step with the states; what a page reads is what one of its requests left.
* Who is online: the marks depend on the clock of three parts at once.
* The averages of pings: `avg_ping` is not reset between sessions, and `last_ping` is written after
  the ping has been queued.
* A mesh that for a while has two roots, or none: `RootRegistry` has one at a time.
* A pong published on a client that is being destroyed: `RootLifecycle` has the step
  (`PublishNoClient`); nothing excludes it, so no property speaks of it.
* The serial protocol of the blind boards.
* Composition: an abstract light, switched by presses, refined by switch, root and relay.

Left out for good: web pages and mobile application (user interface), authentication,
settings and metrics (library calls), the heating loop and the hygrometer (sequential
arithmetic on measured values), LED colours, hardware detection and register timing.
