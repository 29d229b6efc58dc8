------------------------- MODULE RootLifecycleProofs -------------------------
(***************************************************************************)
(* Proofs about RootLifecycle, for every length of the event loop.         *)
(*                                                                         *)
(* Two invariants carry the results.  The mutexes: an address is given     *)
(* only after the DHCP client was started, which the event task does just  *)
(* before node_root_start, so whoever handles "gotIp" finds them.  The     *)
(* client: its task runs only while the client does, and is over by the    *)
(* time the client is destroyed.                                           *)
(***************************************************************************)
EXTENDS RootLifecycle, TLAPS

AddressNeedsDhcp == \A i \in 1 .. Len(events) : events[i] = "gotIp" => dhcp

DhcpNeedsMutexes ==
  /\ dhcp /\ pc # "start" => mutexes # 0
  /\ pc \in {"init", "begin"} => mutexes # 0

TaskNeedsClient ==
  /\ mqtt # "none" => client = "running"
  /\ pc = "begin" => client = "made"
  /\ pc = "init" => client = "none"
  /\ pc = "destroy" => mqtt = "none"

IInv ==
  /\ TypeOK
  /\ AddressNeedsDhcp /\ DhcpNeedsMutexes /\ RootHasMutexes
  /\ TaskNeedsClient /\ ConnectedIsTrue

\* The type invariant in four parts, of which an action disturbs one or two.
TypeMesh ==
  /\ role \in {"root", "node"} /\ link \in BOOLEAN /\ ip \in BOOLEAN
  /\ events \in Seq(Kinds) /\ Len(events) <= MaxEvents
TypeTask ==
  /\ dhcp \in BOOLEAN
  /\ pc \in {"idle", "dhcp", "start", "init", "begin", "telnet", "stop", "halt", "destroy",
             "quiet", "kill"}
  /\ isRoot \in BOOLEAN /\ connected \in BOOLEAN /\ mutexes \in {0, 1}
TypeBroker ==
  /\ client \in {"none", "made", "running"}
  /\ mqtt \in {"none", "trying", "greeting", "on"}
  /\ mqttOn \in BOOLEAN /\ published \in BOOLEAN
  /\ announced \in {"no", "yes", "failed"} /\ kept \in BOOLEAN /\ failed \in BOOLEAN
TypeLog ==
  /\ holds \in {"none", "live", "dead"}
  /\ handle \in {"null", "live", "dead"}
  /\ server \in {"none", "bind", "accept", "hello", "helloInside", "serve", "bye", "byeInside"}
  /\ bound \in BOOLEAN /\ hook \in BOOLEAN
  /\ logger \in {"idle", "waiting", "inside"}
  /\ logMutex \in {"free", "telnet", "logger", "nobody"}

LEMMA TypeParts == TypeOK <=> TypeMesh /\ TypeTask /\ TypeBroker /\ TypeLog
  BY Zenon DEF TypeOK, TypeMesh, TypeTask, TypeBroker, TypeLog

LEMMA Events == MaxEvents \in Nat /\ MaxEvents >= 1
  BY LifecycleAssumption

\* Posting an event and taking one, as seen by the invariant.
LEMMA PostAdds ==
  ASSUME TypeOK, NEW kind \in Kinds, Post(kind)
  PROVE  /\ events' \in Seq(Kinds) /\ Len(events') <= MaxEvents
         /\ \A i \in 1 .. Len(events') :
              events'[i] = kind \/ (i \in 1 .. Len(events) /\ events'[i] = events[i])
  BY Events DEF TypeOK, Post

LEMMA TakeRemoves ==
  ASSUME TypeOK, NEW kind, Take(kind)
  PROVE  /\ events' \in Seq(Kinds) /\ Len(events') <= MaxEvents
         /\ \A i \in 1 .. Len(events') : i + 1 \in 1 .. Len(events) /\ events'[i] = events[i + 1]
         /\ 1 \in 1 .. Len(events) /\ events[1] = kind
         /\ pc = "idle"
  BY Events DEF TypeOK, Take

-----------------------------------------------------------------------------
(* A restart, which several actions end in, puts the initial state back *)

LEMMA InitInv == Init => IInv
<1> SUFFICES ASSUME Init PROVE IInv
  OBVIOUS
<1>1. events \in Seq(Kinds) /\ Len(events) = 0 /\ Len(events) <= MaxEvents
  BY Events DEF Init
<1>2. TypeOK
  BY <1>1, Zenon DEF Init, TypeOK
<1>3. AddressNeedsDhcp
  BY <1>1 DEF AddressNeedsDhcp
<1> QED
  BY <1>2, <1>3
     DEF Init, IInv, DhcpNeedsMutexes, RootHasMutexes, TaskNeedsClient, ConnectedIsTrue

LEMMA RestartInv == Restart => IInv'
<1> SUFFICES ASSUME Restart PROVE IInv'
  OBVIOUS
<1>1. events' \in Seq(Kinds) /\ Len(events') = 0 /\ Len(events') <= MaxEvents
  BY Events DEF Restart
<1>2. TypeOK'
  BY <1>1, Zenon DEF Restart, TypeOK
<1>3. AddressNeedsDhcp'
  BY <1>1 DEF AddressNeedsDhcp
<1> QED
  BY <1>2, <1>3
     DEF Restart, IInv, DhcpNeedsMutexes, RootHasMutexes, TaskNeedsClient, ConnectedIsTrue

-----------------------------------------------------------------------------
(* The actions, task by task *)

LEMMA MeshInv ==
  ASSUME IInv, Connect \/ Disconnect \/ SwitchRoot \/ GotIp
  PROVE  IInv'
<1>t. TypeOK
  BY DEF IInv
<1>1. PICK kind \in Kinds : Post(kind) /\ (kind = "gotIp" => dhcp)
  BY DEF Connect, Disconnect, SwitchRoot, GotIp, Kinds
<1>2. UNCHANGED <<dhcp, pc, flags, broker, holds, log, history>>
  BY DEF Connect, Disconnect, SwitchRoot, GotIp
<1>3. role' \in {"root", "node"} /\ link' \in BOOLEAN /\ ip' \in BOOLEAN
  BY <1>t DEF Connect, Disconnect, SwitchRoot, GotIp, TypeOK
<1>4. /\ events' \in Seq(Kinds) /\ Len(events') <= MaxEvents
      /\ \A i \in 1 .. Len(events') :
           events'[i] = kind \/ (i \in 1 .. Len(events) /\ events'[i] = events[i])
  BY <1>t, <1>1, PostAdds
<1>5. TypeOK'
  BY <1>t, <1>2, <1>3, <1>4 DEF TypeOK, flags, broker, log, history
<1>6. AddressNeedsDhcp'
  BY <1>1, <1>2, <1>4 DEF IInv, AddressNeedsDhcp
<1> QED
  BY <1>2, <1>5, <1>6
     DEF IInv, DhcpNeedsMutexes, RootHasMutexes, TaskNeedsClient, ConnectedIsTrue,
         flags, broker

LEMMA EventInv ==
  ASSUME IInv, OnParentConnected \/ OnParentDisconnected \/ OnRootSwitchAck \/ OnGotIp
  PROVE  IInv'
<1>t. TypeOK
  BY DEF IInv
<1>1. PICK kind \in Kinds : Take(kind) /\ (OnGotIp => kind = "gotIp")
  BY DEF OnParentConnected, OnParentDisconnected, OnRootSwitchAck, OnGotIp, Kinds
<1>2. /\ events' \in Seq(Kinds) /\ Len(events') <= MaxEvents
      /\ \A i \in 1 .. Len(events') : i + 1 \in 1 .. Len(events) /\ events'[i] = events[i + 1]
      /\ 1 \in 1 .. Len(events) /\ events[1] = kind
      /\ pc = "idle"
  BY <1>t, <1>1, TakeRemoves
<1>3. UNCHANGED <<role, link, ip, dhcp, mutexes, broker, holds, log, history>>
  BY DEF OnParentConnected, OnParentDisconnected, OnRootSwitchAck, OnGotIp
<1>4. AddressNeedsDhcp'
  BY <1>2, <1>3 DEF IInv, AddressNeedsDhcp
<1>5. /\ isRoot' \in BOOLEAN /\ connected' \in BOOLEAN
      /\ pc' \in {"idle", "dhcp", "start", "init", "telnet", "stop"}
  BY <1>t, <1>2, Zenon
     DEF OnParentConnected, OnParentDisconnected, OnRootSwitchAck, OnGotIp, TypeOK, Goto
<1>6. TypeOK'
  BY <1>t, <1>2, <1>3, <1>5 DEF TypeOK, broker, log, history
<1>7. OnGotIp => mutexes # 0
  BY <1>1, <1>2 DEF IInv, AddressNeedsDhcp, DhcpNeedsMutexes
<1>8. dhcp => mutexes # 0
  BY <1>2 DEF IInv, DhcpNeedsMutexes
<1>9. isRoot => mutexes # 0
  BY <1>2 DEF IInv, RootHasMutexes
<1>10. DhcpNeedsMutexes' /\ RootHasMutexes'
  BY <1>2, <1>3, <1>5, <1>7, <1>8, <1>9
     DEF IInv, DhcpNeedsMutexes, RootHasMutexes, broker, Goto,
         OnParentConnected, OnParentDisconnected, OnRootSwitchAck, OnGotIp
<1>11. TaskNeedsClient' /\ ConnectedIsTrue'
  BY <1>2, <1>3, <1>5
     DEF IInv, TaskNeedsClient, ConnectedIsTrue, broker, Goto,
         OnParentConnected, OnParentDisconnected, OnRootSwitchAck, OnGotIp
<1> QED BY <1>4, <1>6, <1>10, <1>11 DEF IInv

LEMMA ServiceInv ==
  ASSUME IInv,
         \/ StartDhcp \/ NodeRootStart \/ MqttInit \/ MqttStart \/ TelnetStart
         \/ NodeRootStop \/ MqttStop \/ MqttDestroy \/ TelnetStop \/ TelnetKill
  PROVE  IInv'
<1>t. TypeOK
  BY DEF IInv
<1>1. UNCHANGED mesh
  BY DEF StartDhcp, NodeRootStart, MqttInit, MqttStart, TelnetStart,
         NodeRootStop, MqttStop, MqttDestroy, TelnetStop, TelnetKill
<1>2. dhcp' = dhcp \/ dhcp' = TRUE
  BY DEF StartDhcp, NodeRootStart, MqttInit, MqttStart, TelnetStart,
         NodeRootStop, MqttStop, MqttDestroy, TelnetStop, TelnetKill
<1>3. AddressNeedsDhcp'
  BY <1>1, <1>2 DEF IInv, AddressNeedsDhcp, mesh
<1> USE DEF mesh, flags, broker, log, history, Goto
<1>p. TypeMesh /\ TypeTask /\ TypeBroker /\ TypeLog
  BY <1>t, TypeParts
<1>4. TypeOK'
  <2>1. TypeMesh'
    BY <1>1, <1>p DEF TypeMesh
  <2>2. TypeTask'
    <3>1. CASE StartDhcp \/ NodeRootStart \/ TelnetKill
      BY <1>p, <3>1 DEF TypeTask, StartDhcp, NodeRootStart, TelnetKill
    <3>2. CASE MqttInit \/ MqttStart \/ TelnetStart
      BY <1>p, <3>2 DEF TypeTask, MqttInit, MqttStart, TelnetStart
    <3>3. CASE NodeRootStop \/ MqttStop \/ MqttDestroy \/ TelnetStop
      BY <1>p, <3>3 DEF TypeTask, NodeRootStop, MqttStop, MqttDestroy, TelnetStop
    <3> QED BY <3>1, <3>2, <3>3
  <2>3. TypeBroker'
    <3>1. CASE MqttInit BY <1>p, <3>1 DEF TypeBroker, MqttInit
    <3>2. CASE MqttStart BY <1>p, <3>2 DEF TypeBroker, MqttStart
    <3>3. CASE MqttStop BY <1>p, <3>3 DEF TypeBroker, MqttStop
    <3>4. CASE MqttDestroy BY <1>p, <3>4 DEF TypeBroker, MqttDestroy
    <3>5. CASE StartDhcp \/ NodeRootStart \/ TelnetStart \/ NodeRootStop \/ TelnetStop \/ TelnetKill
      BY <1>p, <3>5
         DEF TypeBroker, StartDhcp, NodeRootStart, TelnetStart, NodeRootStop, TelnetStop, TelnetKill
    <3> QED BY <3>1, <3>2, <3>3, <3>4, <3>5
  <2>4. TypeLog'
    <3>1. CASE TelnetStart BY <1>p, <3>1 DEF TypeLog, TelnetStart
    <3>2. CASE MqttDestroy BY <1>p, <3>2 DEF TypeLog, MqttDestroy
    <3>3. CASE TelnetStop BY <1>p, <3>3 DEF TypeLog, TelnetStop
    <3>4. CASE TelnetKill BY <1>p, <3>4 DEF TypeLog, TelnetKill
    <3>5. CASE StartDhcp \/ NodeRootStart \/ MqttInit \/ MqttStart \/ NodeRootStop \/ MqttStop
      BY <1>p, <3>5
         DEF TypeLog, StartDhcp, NodeRootStart, MqttInit, MqttStart, NodeRootStop, MqttStop
    <3> QED BY <3>1, <3>2, <3>3, <3>4, <3>5
  <2> QED BY <2>1, <2>2, <2>3, <2>4, Zenon DEF TypeOK, TypeMesh, TypeTask, TypeBroker, TypeLog
<1>5. DhcpNeedsMutexes' /\ RootHasMutexes'
  BY <1>t
     DEF TypeOK, IInv, DhcpNeedsMutexes, RootHasMutexes,
         StartDhcp, NodeRootStart, MqttInit, MqttStart, TelnetStart,
         NodeRootStop, MqttStop, MqttDestroy, TelnetStop, TelnetKill
<1>6. TaskNeedsClient' /\ ConnectedIsTrue'
  BY <1>t
     DEF TypeOK, IInv, TaskNeedsClient, ConnectedIsTrue,
         StartDhcp, NodeRootStart, MqttInit, MqttStart, TelnetStart,
         NodeRootStop, MqttStop, MqttDestroy, TelnetStop, TelnetKill
<1> QED BY <1>3, <1>4, <1>5, <1>6 DEF IInv

LEMMA ClientInv ==
  ASSUME IInv, MqttConnected \/ Greet \/ MqttDisconnected
  PROVE  IInv'
<1> USE DEF mesh, flags, broker, log, history
<1>1. TypeOK'
  <2>1. TypeMesh /\ TypeTask /\ TypeBroker /\ TypeLog
    BY TypeParts DEF IInv
  <2>2. TypeMesh' /\ TypeTask' /\ TypeLog'
    BY <2>1 DEF TypeMesh, TypeTask, TypeLog, MqttConnected, Greet, MqttDisconnected
  <2>3. TypeBroker'
    <3>1. CASE MqttConnected BY <2>1, <3>1 DEF TypeBroker, MqttConnected
    <3>2. CASE Greet
      <4>1. announced' \in {"no", "yes", "failed"}
        BY <3>2 DEF Greet
      <4> QED BY <2>1, <3>2, <4>1 DEF TypeBroker, Greet
    <3>3. CASE MqttDisconnected BY <2>1, <3>3 DEF TypeBroker, MqttDisconnected
    <3> QED BY <3>1, <3>2, <3>3
  <2> QED BY <2>2, <2>3, Zenon DEF TypeOK, TypeMesh, TypeTask, TypeBroker, TypeLog
<1>2. AddressNeedsDhcp'
  BY DEF IInv, AddressNeedsDhcp, MqttConnected, Greet, MqttDisconnected
<1>3. UNCHANGED <<dhcp, pc, isRoot, mutexes, client>>
  BY DEF MqttConnected, Greet, MqttDisconnected
<1>4. DhcpNeedsMutexes' /\ RootHasMutexes'
  BY <1>3 DEF IInv, DhcpNeedsMutexes, RootHasMutexes
<1>5. TaskNeedsClient' /\ ConnectedIsTrue'
  BY <1>3 DEF IInv, TaskNeedsClient, ConnectedIsTrue, MqttConnected, Greet, MqttDisconnected
<1> QED BY <1>1, <1>2, <1>4, <1>5 DEF IInv

\* The tasks that publish and log change nothing the invariant is about.
LEMMA OthersInv ==
  ASSUME IInv,
         \/ Publish \/ PublishEnd \/ PublishNoClient
         \/ TelnetBind \/ TelnetServe \/ TelnetLog \/ Log \/ LogStep
         \/ UNCHANGED vars
  PROVE  IInv'
<1> USE DEF mesh, flags, broker, log, history
<1>1. CASE Restart
  BY <1>1, RestartInv
<1>2. CASE ~Restart
  <2>1. UNCHANGED <<mesh, dhcp, pc, flags, broker, history>>
    BY <1>2 DEF Publish, PublishEnd, PublishNoClient, TelnetBind, TelnetServe, ServerGoes,
                TelnetLog, Log, LogStep, vars
  <2>2. TypeOK'
    <3>1. CASE Publish \/ PublishEnd \/ PublishNoClient \/ UNCHANGED vars
      BY <1>2, <3>1 DEF IInv, TypeOK, Publish, PublishEnd, PublishNoClient, vars
    <3>2. CASE TelnetBind \/ TelnetServe \/ TelnetLog
      BY <3>2 DEF IInv, TypeOK, TelnetBind, TelnetServe, ServerGoes, TelnetLog
    <3>3. CASE Log \/ LogStep
      BY <3>3 DEF IInv, TypeOK, Log, LogStep
    <3> QED BY <3>1, <3>2, <3>3
  <2>3. AddressNeedsDhcp'
    BY <2>1 DEF IInv, AddressNeedsDhcp
  <2> QED
    BY <2>1, <2>2, <2>3
       DEF IInv, DhcpNeedsMutexes, RootHasMutexes, TaskNeedsClient, ConnectedIsTrue
<1> QED BY <1>1, <1>2

LEMMA NextInv == IInv /\ [Next]_vars => IInv'
<1> SUFFICES ASSUME IInv, [Next]_vars PROVE IInv'
  OBVIOUS
<1>1. CASE Restart \/ PublishNoMutex \/ TelnetKillDead
  BY <1>1, RestartInv DEF PublishNoMutex, TelnetKillDead
<1>2. CASE EventTask /\ ~TelnetKillDead
  BY <1>2, EventInv, ServiceInv DEF EventTask
<1> QED BY <1>1, <1>2, MeshInv, ClientInv, OthersInv DEF Next

THEOREM InvHolds == Spec => []IInv
  BY InitInv, NextInv, PTL DEF Spec

-----------------------------------------------------------------------------
(* The results *)

\* The types, and with them the limit of the event loop.
THEOREM TypeCorrect == Spec => []TypeOK
<1>1. IInv => TypeOK
  BY DEF IInv
<1> QED BY <1>1, InvHolds, PTL

\* node_root_start comes before anything that takes its mutexes, whichever event makes
\* the node root: outside the event task's own two steps, g_is_root and the MQTT client
\* both imply that the mutexes exist.
THEOREM MutexesExist == Spec => []RootHasMutexes
<1>1. IInv => RootHasMutexes
  BY DEF IInv
<1> QED BY <1>1, InvHolds, PTL

\* g_mqtt_connected speaks of a client whose task runs and has connected.
THEOREM ConnectedHolds == Spec => []ConnectedIsTrue
<1>1. IInv => ConnectedIsTrue
  BY DEF IInv
<1> QED BY <1>1, InvHolds, PTL
====
