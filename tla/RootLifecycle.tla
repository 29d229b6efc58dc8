---------------------------- MODULE RootLifecycle ----------------------------
(***************************************************************************)
(* How one node becomes the root and stops being it: the handlers of mesh  *)
(* and IP events (mesh_init.c), the start and stop of the root's services, *)
(* the life of its MQTT client (node_root.c) and of the remote log         *)
(* (telnet.c).                                                             *)
(*                                                                         *)
(* The mesh decides who is root and posts events; the event task handles   *)
(* them one after the other and asks for the role only then.  Next to it   *)
(* run the task of the MQTT client, the telnet task, and any task that     *)
(* publishes or logs.  An object that is used after it was destroyed, or   *)
(* before it exists, makes the node panic and restart.                     *)
(***************************************************************************)
EXTENDS Integers, Sequences

CONSTANT MaxEvents   \* bound: events waiting in the event loop

ASSUME LifecycleAssumption == MaxEvents \in Nat \ {0}

VARIABLES
  role,        \* what esp_mesh_is_root() says: "root" or "node"
  link,        \* the node is connected to its parent, for the root the router
  ip,          \* it has been given an address over this link
  events,      \* events posted and not handled
  dhcp,        \* the DHCP client has been started
  pc,          \* where the event task is
  isRoot,      \* g_is_root
  connected,   \* g_mesh_connected
  mutexes,     \* how often registry_mutex and g_blind_pairs_mutex have been created
  client,      \* g_mqtt_client: "none", "made", or "running"
  mqtt,        \* the task of the client: "none", "trying", "greeting" or "on"
  mqttOn,      \* g_mqtt_connected
  published,   \* connection_status_published
  holds,       \* a task inside esp_mqtt_client_publish: the client it was given
  handle,      \* telnet_task_handle: "null", "live", or "dead" after the task ended
  server,      \* where the telnet task is
  bound,       \* a socket listens on the port
  hook,        \* dual_log_vprintf is the log handler
  logger,      \* another task that logs: "idle", "waiting" or "inside"
  logMutex,    \* who has log_mutex: "free", "telnet", "logger", or "nobody" for good
  announced,   \* history: "yes" once this connection to the broker has been announced,
               \* "failed" if publish_connection_status gave up, else "no"
  kept,        \* history: published outlived the client it is about
  failed       \* history: the last mqtt_init failed

mesh == <<role, link, ip, events>>
flags == <<isRoot, connected, mutexes>>
broker == <<client, mqtt, mqttOn, published>>
log == <<handle, server, bound, hook, logger, logMutex>>
history == <<announced, kept, failed>>
vars == <<mesh, dhcp, pc, flags, broker, holds, log, history>>

Kinds == {"parentConnected", "parentDisconnected", "rootSwitchAck", "gotIp"}

TypeOK ==
  /\ role \in {"root", "node"} /\ link \in BOOLEAN /\ ip \in BOOLEAN
  /\ events \in Seq(Kinds) /\ Len(events) <= MaxEvents
  /\ dhcp \in BOOLEAN
  /\ pc \in {"idle", "dhcp", "start", "init", "begin", "telnet", "stop", "halt", "destroy",
             "quiet", "kill"}
  /\ isRoot \in BOOLEAN /\ connected \in BOOLEAN /\ mutexes \in {0, 1}
  /\ client \in {"none", "made", "running"}
  /\ mqtt \in {"none", "trying", "greeting", "on"}
  /\ mqttOn \in BOOLEAN /\ published \in BOOLEAN
  /\ holds \in {"none", "live", "dead"}
  /\ handle \in {"null", "live", "dead"}
  /\ server \in {"none", "bind", "accept", "hello", "helloInside", "serve", "bye", "byeInside"}
  /\ bound \in BOOLEAN /\ hook \in BOOLEAN
  /\ logger \in {"idle", "waiting", "inside"}
  /\ logMutex \in {"free", "telnet", "logger", "nobody"}
  /\ announced \in {"no", "yes", "failed"} /\ kept \in BOOLEAN /\ failed \in BOOLEAN

Init ==
  /\ role = "node" /\ link = FALSE /\ ip = FALSE /\ events = <<>> /\ dhcp = FALSE
  /\ pc = "idle"
  /\ isRoot = FALSE /\ connected = FALSE /\ mutexes = 0
  /\ client = "none" /\ mqtt = "none" /\ mqttOn = FALSE /\ published = FALSE
  /\ holds = "none"
  /\ handle = "null" /\ server = "none" /\ bound = FALSE /\ hook = FALSE
  /\ logger = "idle" /\ logMutex = "free"
  /\ announced = "no" /\ kept = FALSE /\ failed = FALSE

\* The power is cut, or the panic handler restarts the node.
Restart ==
  /\ role' = "node" /\ link' = FALSE /\ ip' = FALSE /\ events' = <<>> /\ dhcp' = FALSE
  /\ pc' = "idle"
  /\ isRoot' = FALSE /\ connected' = FALSE /\ mutexes' = 0
  /\ client' = "none" /\ mqtt' = "none" /\ mqttOn' = FALSE /\ published' = FALSE
  /\ holds' = "none"
  /\ handle' = "null" /\ server' = "none" /\ bound' = FALSE /\ hook' = FALSE
  /\ logger' = "idle" /\ logMutex' = "free"
  /\ announced' = "no" /\ kept' = FALSE /\ failed' = FALSE
-----------------------------------------------------------------------------
(* The mesh stack *)

Post(kind) == Len(events) < MaxEvents /\ events' = Append(events, kind)

\* The node finds a parent, or is elected and connects to the router.
Connect ==
  /\ ~link /\ link' = TRUE
  /\ role' \in {"root", "node"}
  /\ Post("parentConnected")
  /\ UNCHANGED <<ip, dhcp, pc, flags, broker, holds, log, history>>

Disconnect ==
  /\ link /\ link' = FALSE /\ ip' = FALSE
  /\ Post("parentDisconnected")
  /\ UNCHANGED <<role, dhcp, pc, flags, broker, holds, log, history>>

\* The root gives its role to a better candidate; both look for new parents.
SwitchRoot ==
  /\ link /\ link' = FALSE /\ ip' = FALSE
  /\ role' = IF role = "root" THEN "node" ELSE "root"
  /\ Post("rootSwitchAck")
  /\ UNCHANGED <<dhcp, pc, flags, broker, holds, log, history>>

\* The router's DHCP server answers.
GotIp ==
  /\ link /\ role = "root" /\ dhcp /\ ~ip
  /\ ip' = TRUE
  /\ Post("gotIp")
  /\ UNCHANGED <<role, link, dhcp, pc, flags, broker, holds, log, history>>
-----------------------------------------------------------------------------
(* The event task: mesh_event_handler, ip_event_handler *)

Take(kind) ==
  /\ pc = "idle" /\ events # <<>> /\ Head(events) = kind
  /\ events' = Tail(events)

Goto(label) == pc' = label

\* Mutation: below a parent nothing is stopped.
OnParentConnectedKeeps ==
  /\ Take("parentConnected")
  /\ connected' = TRUE
  /\ isRoot' = (role = "root")
  /\ Goto(IF role = "root" THEN "dhcp" ELSE "idle")
  /\ UNCHANGED <<role, link, ip, dhcp, mutexes, broker, holds, log, history>>

OnParentConnected ==
  /\ Take("parentConnected")
  /\ connected' = TRUE
  /\ isRoot' = (role = "root")
  /\ Goto(IF role = "root" THEN "dhcp" ELSE "stop")
  /\ UNCHANGED <<role, link, ip, dhcp, mutexes, broker, holds, log, history>>

StartDhcp ==
  /\ pc = "dhcp" /\ dhcp' = TRUE
  /\ Goto("start")
  /\ UNCHANGED <<mesh, flags, broker, holds, log, history>>

OnParentDisconnected ==
  /\ Take("parentDisconnected")
  /\ connected' = FALSE
  /\ UNCHANGED <<role, link, ip, dhcp, pc, isRoot, mutexes, broker, holds, log, history>>

OnRootSwitchAck ==
  /\ Take("rootSwitchAck")
  /\ isRoot' = (role = "root")
  /\ Goto(IF role = "root" THEN "start" ELSE "stop")
  /\ UNCHANGED <<role, link, ip, dhcp, connected, mutexes, broker, holds, log, history>>

\* Mutation: the mutexes are created with the client.
NodeRootStartLate ==
  /\ pc = "start" /\ mutexes' = IF mutexes = 0 /\ client # "none" THEN 1 ELSE mutexes
  /\ Goto("idle")
  /\ UNCHANGED <<mesh, dhcp, isRoot, connected, broker, holds, log, history>>

\* Mutation: they are created again by every root without a client.
NodeRootStartAgain ==
  /\ pc = "start" /\ mutexes' = IF client = "none" THEN mutexes + 1 ELSE mutexes
  /\ Goto("idle")
  /\ UNCHANGED <<mesh, dhcp, isRoot, connected, broker, holds, log, history>>

\* node_root_start.
NodeRootStart ==
  /\ pc = "start" /\ mutexes' = IF mutexes = 0 /\ client = "none" THEN 1 ELSE mutexes
  /\ Goto("idle")
  /\ UNCHANGED <<mesh, dhcp, isRoot, connected, broker, holds, log, history>>

OnGotIp ==
  /\ Take("gotIp")
  /\ isRoot' = (isRoot \/ role = "root")
  /\ Goto(IF role # "root" THEN "idle" ELSE IF client = "none" THEN "init" ELSE "telnet")
  /\ UNCHANGED <<role, link, ip, dhcp, connected, mutexes, broker, holds, log, history>>

\* mqtt_init: a client that could not be made is tried again with the next address.
MqttInit ==
  /\ pc = "init"
  /\ \/ client' = "made" /\ Goto("begin") /\ UNCHANGED failed
     \/ failed' = TRUE /\ Goto("telnet") /\ UNCHANGED client
  /\ UNCHANGED <<mesh, dhcp, flags, mqtt, mqttOn, published, holds, log, announced, kept>>

\* One that could not be started is kept.
MqttStart ==
  /\ pc = "begin" /\ Goto("telnet")
  /\ \/ client' = "running" /\ mqtt' = "trying" /\ failed' = FALSE
     \/ failed' = TRUE /\ UNCHANGED <<client, mqtt>>
  /\ UNCHANGED <<mesh, dhcp, flags, mqttOn, published, holds, log, announced, kept>>

TelnetStart ==
  /\ pc = "telnet" /\ Goto("idle")
  /\ IF handle = "null"
     THEN handle' = "live" /\ server' = "bind" /\ hook' = TRUE
     ELSE UNCHANGED <<handle, server, hook>>
  /\ UNCHANGED <<mesh, dhcp, flags, broker, holds, bound, logger, logMutex, history>>

\* node_root_stop, which first publishes that the node disconnects.
NodeRootStop ==
  /\ pc = "stop"
  /\ Goto(IF client # "none" THEN "halt" ELSE "quiet")
  /\ UNCHANGED <<mesh, dhcp, flags, broker, holds, log, history>>

\* Mutation: the client is stopped without waiting for its task.
MqttStopAtOnce ==
  /\ pc = "halt" /\ Goto("destroy")
  /\ mqttOn' = FALSE
  /\ UNCHANGED <<mesh, dhcp, flags, client, mqtt, published, holds, log, history>>

\* esp_mqtt_client_stop waits for the client's task, which may or may not deliver
\* MQTT_EVENT_DISCONNECTED before it ends.
MqttStop ==
  /\ pc = "halt" /\ Goto("destroy")
  /\ mqtt # "greeting" /\ mqtt' = "none"
  /\ \/ mqtt = "on" /\ mqttOn' = FALSE /\ published' = FALSE
     \/ UNCHANGED <<mqttOn, published>>
  /\ UNCHANGED <<mesh, dhcp, flags, client, holds, log, history>>

MqttDestroy ==
  /\ pc = "destroy" /\ Goto("quiet")
  /\ client' = "none" /\ mqttOn' = FALSE
  /\ holds' = IF holds = "live" THEN "dead" ELSE holds
  /\ announced' = "no" /\ kept' = published /\ failed' = FALSE
  /\ UNCHANGED <<mesh, dhcp, flags, mqtt, published, log>>

\* telnet_stop closes the client's socket and restores the log handler.
TelnetStop ==
  /\ pc = "quiet" /\ Goto("kill")
  /\ hook' = FALSE
  /\ UNCHANGED <<mesh, dhcp, flags, broker, holds, handle, server, bound, logger, logMutex,
                 history>>

\* vTaskDelete, wherever the telnet task is by then, and the end of node_root_stop.
TelnetKill ==
  /\ pc = "kill" /\ Goto("idle")
  /\ handle' = "null" /\ server' = "none"
  /\ logMutex' = IF logMutex = "telnet" THEN "nobody" ELSE logMutex
  /\ isRoot' = FALSE
  /\ UNCHANGED <<mesh, dhcp, connected, mutexes, broker, holds, bound, hook, logger, history>>

\* The task had ended by itself and is deleted once more: undefined, a panic at worst.
TelnetKillDead == pc = "kill" /\ handle = "dead" /\ Restart

EventTask ==
  \/ OnParentConnected \/ OnParentDisconnected \/ OnRootSwitchAck \/ OnGotIp
  \/ StartDhcp \/ NodeRootStart \/ MqttInit \/ MqttStart \/ TelnetStart
  \/ NodeRootStop \/ MqttStop \/ MqttDestroy \/ TelnetStop \/ TelnetKill \/ TelnetKillDead
-----------------------------------------------------------------------------
(* The task of the MQTT client: mqtt_event_handler *)

MqttConnected ==
  /\ mqtt = "trying" /\ link /\ ip
  /\ mqtt' = "greeting" /\ mqttOn' = TRUE
  /\ UNCHANGED <<mesh, dhcp, pc, flags, client, published, holds, log, history>>

\* The subscriptions, and the status unless the flag says it was published; the flag
\* is set although there was no memory for the status, or the library refused it.
Greet ==
  /\ mqtt = "greeting" /\ mqtt' = "on"
  /\ announced' \in IF published THEN {"no"} ELSE {"yes", "failed"}
  /\ published' = TRUE
  /\ UNCHANGED <<mesh, dhcp, pc, flags, client, mqttOn, holds, log, kept, failed>>

\* Mutation: the flag is not cleared when the connection is lost.
MqttDisconnectedForgets ==
  /\ mqtt = "on" /\ mqtt' = "trying"
  /\ mqttOn' = FALSE /\ announced' = "no"
  /\ UNCHANGED <<mesh, dhcp, pc, flags, client, published, holds, log, kept, failed>>

MqttDisconnected ==
  /\ mqtt = "on" /\ mqtt' = "trying"
  /\ mqttOn' = FALSE /\ published' = FALSE
  /\ announced' = "no" /\ kept' = FALSE
  /\ UNCHANGED <<mesh, dhcp, pc, flags, client, holds, log, failed>>
-----------------------------------------------------------------------------
(* Tasks that publish: a message from the mesh, or the periodic status *)

\* The RX task handles a message as root.  A pong is published without looking at
\* g_mqtt_connected; a null client is refused by the library.
Publish ==
  /\ isRoot /\ mutexes # 0 /\ client # "none"
  /\ holds = "none" /\ holds' = "live"
  /\ UNCHANGED <<mesh, dhcp, pc, flags, broker, log, history>>

PublishEnd ==
  /\ holds = "live" /\ holds' = "none"
  /\ UNCHANGED <<mesh, dhcp, pc, flags, broker, log, history>>

\* Every message is registered under registry_mutex: taking a null mutex is an assertion.
PublishNoMutex == isRoot /\ mutexes = 0 /\ Restart

\* node_root_stop has destroyed the client inside the call: undefined, a panic at worst.
PublishNoClient == holds = "dead" /\ (Restart \/ (holds' = "none" /\ UNCHANGED
  <<mesh, dhcp, pc, flags, broker, log, history>>))

-----------------------------------------------------------------------------
(* telnet_task, and dual_log_vprintf *)

\* Nobody closes the socket an earlier task listened on: then, or when there is none
\* left, the task ends, and its handle stays.
TelnetBind ==
  /\ server = "bind"
  /\ \/ ~bound /\ bound' = TRUE /\ server' = "accept" /\ UNCHANGED handle
     \/ server' = "none" /\ handle' = "dead" /\ UNCHANGED bound
  /\ UNCHANGED <<mesh, dhcp, pc, flags, broker, holds, hook, logger, logMutex, history>>

ServerGoes(from, to) == server = from /\ server' = to

\* A client comes, or goes.
TelnetServe ==
  /\ ServerGoes("accept", "hello") \/ ServerGoes("serve", "bye")
  /\ UNCHANGED <<mesh, dhcp, pc, flags, broker, holds, handle, bound, hook, logger, logMutex,
                 history>>

\* Both is logged, through the hook and its mutex if it is installed.
TelnetLog ==
  /\ \/ /\ hook /\ logMutex = "free" /\ logMutex' = "telnet"
        /\ ServerGoes("hello", "helloInside") \/ ServerGoes("bye", "byeInside")
     \/ /\ logMutex' = "free"
        /\ ServerGoes("helloInside", "serve") \/ ServerGoes("byeInside", "accept")
     \/ /\ ~hook \/ logMutex # "free"
        /\ ServerGoes("hello", "serve") \/ ServerGoes("bye", "accept")
        /\ UNCHANGED logMutex
  /\ UNCHANGED <<mesh, dhcp, pc, flags, broker, holds, handle, bound, hook, logger, history>>

Log ==
  /\ hook /\ logger = "idle" /\ logger' = "waiting"
  /\ UNCHANGED <<mesh, dhcp, pc, flags, broker, holds, handle, server, bound, hook, logMutex,
                 history>>

\* Mutation: the mutex is waited for without a limit.
LogStepPatient ==
  /\ \/ /\ logger = "waiting" /\ logMutex = "free"
        /\ logger' = "inside" /\ logMutex' = "logger"
     \/ logger = "inside" /\ logger' = "idle" /\ logMutex' = "free"
  /\ UNCHANGED <<mesh, dhcp, pc, flags, broker, holds, handle, server, bound, hook, history>>

\* It takes the mutex, or writes to the UART only after a second.
LogStep ==
  /\ \/ /\ logger = "waiting" /\ logMutex = "free"
        /\ logger' = "inside" /\ logMutex' = "logger"
     \/ logger = "waiting" /\ logMutex # "free" /\ logger' = "idle" /\ UNCHANGED logMutex
     \/ logger = "inside" /\ logger' = "idle" /\ logMutex' = "free"
  /\ UNCHANGED <<mesh, dhcp, pc, flags, broker, holds, handle, server, bound, hook, history>>
-----------------------------------------------------------------------------
Next ==
  \/ Connect \/ Disconnect \/ SwitchRoot \/ GotIp
  \/ EventTask
  \/ MqttConnected \/ Greet \/ MqttDisconnected
  \/ Publish \/ PublishEnd \/ PublishNoMutex \/ PublishNoClient
  \/ TelnetBind \/ TelnetServe \/ TelnetLog \/ Log \/ LogStep
  \/ Restart

Spec == Init /\ [][Next]_vars

\* The tasks run, an elected root is given an address, and a broker that can be
\* reached accepts the connection; the mesh need not change, nobody needs to log.
FairSpec ==
  /\ Spec
  /\ WF_vars(EventTask) /\ WF_vars(GotIp) /\ WF_vars(MqttConnected) /\ WF_vars(Greet)
  /\ WF_vars(TelnetLog) /\ WF_vars(LogStep)
-----------------------------------------------------------------------------
\* Whoever handles a message as the root takes mutexes that exist, and so does the MQTT
\* task; only between the setting of g_is_root and node_root_start is there a gap.
RootHasMutexes ==
  /\ isRoot /\ pc \notin {"dhcp", "start"} => mutexes # 0
  /\ client # "none" => mutexes # 0

\* g_mqtt_connected is never true of a client that is gone or has not connected, however
\* the end of one client and the start of the next fall between its events.
ConnectedIsTrue == mqttOn /\ pc # "destroy" => mqtt \in {"greeting", "on"}

\* A node that stays below another one gives up the root's services, whatever order the
\* events of earlier roles are handled in.
LeafSheds ==
  <>[](link /\ role = "node")
    => <>[](client = "none" /\ ~isRoot /\ connected /\ handle = "null")

\* A node that stays root, with the broker in reach, connects and announces itself, upon
\* which the backend sends the tables (mqtt_event_handler); unless its client could not
\* be set up, publish_connection_status gave up on this connection, or the flag of an
\* earlier term says that it already has.
RootAnnounces ==
  <>[](link /\ role = "root")
    => []<>(announced \in {"yes", "failed"} \/ failed \/ kept)

\* A task that logs is never held up for good, although the telnet task may be deleted
\* while it has the mutex.
LogReturns == logger = "waiting" ~> logger # "waiting"

\* "telnet_stop() (called when the node loses root status) tears down the server socket":
\* refuted; the next telnet task cannot bind, ends, and leaves a handle that the
\* second telnet_stop deletes once more.
ServerTornDown == handle = "null" => ~bound
====
