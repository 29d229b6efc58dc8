----------------------------- MODULE RootRouter -----------------------------
(***************************************************************************)
(* How the root turns a button event into commands for relays              *)
(* (node_root.c), in mesh_rx_task, while the MQTT task replaces the tables *)
(* of RootTables.  A mutex section is one step.  route_button_to_relays    *)
(* keeps a pointer into g_connections after it has given the mutex back    *)
(* and reads the targets through it, one per step: a freed array yields    *)
(* any value.                                                              *)
(***************************************************************************)
EXTENDS RootTables, FiniteSets

CONSTANTS
  Devices,    \* the nodes of the mesh: the switches and the relays
  MaxRoutes   \* MAX_ROUTES_PER_BUTTON

ASSUME RouterAssumption ==
  /\ Switches \subseteq Devices /\ IsFiniteSet(Devices)
  /\ MaxRoutes \in Nat \ {0}

VARIABLES
  known,      \* the devices in node_registry, which gives each its address
  rx,         \* the event mesh_rx_task handles, how far it is, and its locals
  dangling,   \* the array the RX task's target pointer points into was freed
  sent,       \* the commands handed to mesh_queue_to_node for the event
  lost,       \* the places in sent of those it did not queue
  touched     \* a table was being replaced since the event arrived

rxVars == <<known, rx, dangling, sent, lost, touched>>
vars == <<tablesVars, rxVars>>

\* long: the release ends a press of LONG_PRESS_THRESHOLD_MS.
Events == {e \in [dev : Switches, button : Buttons, state : {0, 1}, long : BOOLEAN] :
             e.long => e.state = 0}
Outputs == {t.out : t \in Targets}
Commands == [relay : {t.relay : t \in Targets}, out : Outputs,
             form : {"toggle", "on", "off"}]

\* What the locals hold between two events.
AnyTarget == CHOOSE t \in Targets : TRUE
AnyEvent == CHOOSE e \in Events : TRUE

Labels == {"idle", "type", "copy", "pair", "blind", "find", "loop", "send", "done"}

TypeOK ==
  /\ TablesTypeOK
  /\ known \subseteq Devices /\ Cardinality(known) <= MaxNodes
  /\ rx \in [pc : Labels, ev : Events \cup {AnyEvent}, type : {-1, 0, 1}, again : BOOLEAN,
             ts : Seq(Targets), slot : 0 .. MaxNodes, j : Nat, target : Places \cup {AnyTarget}]
  /\ dangling \in BOOLEAN /\ touched \in BOOLEAN
  /\ sent \in Seq(Commands) /\ lost \subseteq 1 .. Len(sent)

RxIdle == [pc |-> "idle", ev |-> AnyEvent, type |-> 0, again |-> FALSE, ts |-> <<>>,
           slot |-> 0, j |-> 1, target |-> AnyTarget]

Init ==
  /\ TablesInit
  /\ known = {}
  /\ rx = RxIdle
  /\ dangling = FALSE /\ touched = FALSE
  /\ sent = <<>> /\ lost = {}
-----------------------------------------------------------------------------
(* Lookups *)

\* Mutation: a full registry is written past its end.
RegisterUnbounded(d) == known \cup {d}

\* registry_update: a new device gets a slot while there is one.
Register(d) ==
  IF d \in known \/ Cardinality(known) < MaxNodes THEN known \cup {d} ELSE known

\* get_button_type; -1 for a device that is not in the table.
TypeOf(ev) ==
  LET s == FirstSlot(btypes, ev.dev) IN
  IF s = 0 THEN -1 ELSE btypes[s].types[ev.button]

RoutesOf(ev) ==
  LET s == FirstSlot(conn, ev.dev) IN
  IF s = 0 THEN <<>> ELSE conn[s].routes[ev.button]

\* The targets of a list that belong to a pair, and the pair the two loops find.
HitsPair(t, p) == p.relay = t.relay /\ t.out \in {p.power, p.dir}
Hits(ts) ==
  {h \in (1 .. Len(ts)) \X (1 .. Len(pairs)) : HitsPair(ts[h[1]], pairs[h[2]])}
FirstPair(ts) ==
  LET first == CHOOSE h \in Hits(ts) :
                 \A g \in Hits(ts) : h[1] < g[1] \/ (h[1] = g[1] /\ h[2] <= g[2])
  IN pairs[first[2]]

\* The output of a pair that a press toggles.
PairTarget(p, long) == [relay |-> p.relay, out |-> IF long THEN p.dir ELSE p.power]

\* A stateful button sets its targets, a switch that closes drives them to '0'; any
\* other button toggles them.
Form(type, state) ==
  IF type # 1 THEN "toggle" ELSE IF state = 1 THEN "off" ELSE "on"

Command(t, form) == [relay |-> t.relay, out |-> t.out, form |-> form]
-----------------------------------------------------------------------------
(* root_handle_mesh_message *)

\* A message of any other kind registers its sender.
Hear(d) ==
  /\ rx.pc = "idle"
  /\ known' = Register(d)
  /\ UNCHANGED <<tablesVars, rx, dangling, sent, lost, touched>>

Receive(ev) ==
  /\ rx.pc = "idle"
  /\ known' = Register(ev.dev)
  /\ rx' = [RxIdle EXCEPT !.pc = "type", !.ev = ev]
  /\ touched' = (mq # Idle)
  /\ UNCHANGED <<tablesVars, dangling, sent, lost>>

ReadType ==
  /\ rx.pc = "type"
  /\ rx' = [rx EXCEPT !.type = TypeOf(rx.ev), !.pc = "copy"]
  /\ UNCHANGED <<tablesVars, known, dangling, sent, lost, touched>>

\* A function that returns leaves its locals.
Return == rx' = [RxIdle EXCEPT !.pc = "done", !.ev = rx.ev]

\* button_targets_blind_pair, the section under g_connections_mutex.
CopyTargets ==
  /\ rx.pc = "copy"
  /\ ~Locked
  /\ rx' = [rx EXCEPT !.ts = FirstOf(RoutesOf(rx.ev), MaxRoutes), !.pc = "pair"]
  /\ UNCHANGED <<tablesVars, known, dangling, sent, lost, touched>>

\* The section under g_blind_pairs_mutex, and what the caller makes of the result:
\* a momentary button of a blind acts on its release, and its targets are looked up
\* a second time; of the others a momentary one acts on its release too.
CheckPairs ==
  /\ rx.pc = "pair" /\ ~rx.again
  /\ LET blind == Hits(rx.ts) # {} IN
     CASE rx.type = 0 /\ rx.ev.state = 1 -> Return
       [] rx.type = 0 /\ blind /\ rx.ev.state = 0 ->
            rx' = [rx EXCEPT !.pc = "copy", !.again = TRUE]
       [] OTHER -> rx' = [RxIdle EXCEPT !.pc = "find", !.ev = rx.ev]
  /\ UNCHANGED <<tablesVars, known, dangling, sent, lost, touched>>

\* route_blind_press, which gives up when the pair is gone.
CheckPairsAgain ==
  /\ rx.pc = "pair" /\ rx.again
  /\ IF Hits(rx.ts) = {} THEN Return
     ELSE rx' = [rx EXCEPT !.pc = "blind",
                           !.target = PairTarget(FirstPair(rx.ts), rx.ev.long)]
  /\ UNCHANGED <<tablesVars, known, dangling, sent, lost, touched>>

\* mesh_queue_to_node: with no memory or no room the command is lost.
QueueCommand(c) ==
  /\ sent' = Append(sent, c)
  /\ lost' \in {lost, lost \cup {Len(sent) + 1}}

\* Nothing is done about a command that was not queued.
BlindSend ==
  /\ rx.pc = "blind"
  /\ IF rx.target.relay \in known
     THEN QueueCommand(Command(rx.target, "toggle")) ELSE UNCHANGED <<sent, lost>>
  /\ Return
  /\ UNCHANGED <<tablesVars, known, dangling, touched>>
-----------------------------------------------------------------------------
(* route_button_to_relays *)

\* The slot is found under the mutex, and used without it.
RouteFind ==
  /\ rx.pc = "find"
  /\ ~Locked
  /\ LET s == FirstSlot(conn, rx.ev.dev) IN
     IF s = 0 THEN Return ELSE rx' = [rx EXCEPT !.pc = "loop", !.slot = s, !.j = 1]
  /\ UNCHANGED <<tablesVars, known, dangling, sent, lost, touched>>

Slot == conn[rx.slot]

\* The loop test, and the address of the next target.
RouteTarget ==
  /\ rx.pc = "loop"
  /\ IF rx.j > Len(Slot.routes[rx.ev.button]) THEN Return /\ UNCHANGED dangling
     ELSE \E t \in IF Slot.freed THEN Targets ELSE {Slot.routes[rx.ev.button][rx.j]} :
            IF t.relay \in known
            THEN rx' = [rx EXCEPT !.pc = "send", !.target = t] /\ dangling' = Slot.freed
            ELSE rx' = [rx EXCEPT !.j = @ + 1] /\ UNCHANGED dangling
  /\ UNCHANGED <<tablesVars, known, sent, lost, touched>>

\* Mutation: the loop ends at a command that was not queued.
RouteSendGivesUp ==
  /\ rx.pc = "send"
  /\ \E o \in IF dangling THEN Outputs ELSE {rx.target.out} :
       QueueCommand(Command([rx.target EXCEPT !.out = o], Form(TypeOf(rx.ev), rx.ev.state)))
  /\ IF lost' = lost THEN rx' = [rx EXCEPT !.pc = "loop", !.j = @ + 1, !.target = AnyTarget]
     ELSE Return
  /\ dangling' = FALSE
  /\ UNCHANGED <<tablesVars, known, touched>>

\* The output is read through the pointer, the type looked up again; the loop goes
\* on whether or not the command was queued.
RouteSend ==
  /\ rx.pc = "send"
  /\ \E o \in IF dangling THEN Outputs ELSE {rx.target.out} :
       QueueCommand(Command([rx.target EXCEPT !.out = o], Form(TypeOf(rx.ev), rx.ev.state)))
  /\ rx' = [rx EXCEPT !.pc = "loop", !.j = @ + 1, !.target = AnyTarget]
  /\ dangling' = FALSE
  /\ UNCHANGED <<tablesVars, known, touched>>

\* mesh_rx_task goes back to esp_mesh_recv.
Finish ==
  /\ rx.pc = "done"
  /\ rx' = RxIdle /\ sent' = <<>> /\ lost' = {} /\ touched' = FALSE
  /\ UNCHANGED <<tablesVars, known, dangling>>

RxTask ==
  \/ ReadType \/ CopyTargets \/ CheckPairs \/ CheckPairsAgain \/ BlindSend
  \/ RouteFind \/ RouteTarget \/ RouteSend \/ Finish
-----------------------------------------------------------------------------
\* What the other side does to the event being handled.
Disturb ==
  /\ touched' = (rx.pc # "idle" /\ (touched \/ ~UNCHANGED <<tables, mq>>))
  /\ dangling' = (rx.pc = "send" /\ (dangling \/ conn'[rx.slot].freed))
  /\ UNCHANGED <<known, rx, sent, lost>>

Next ==
  \/ (Backend \/ MqttTask) /\ Disturb
  \/ RxTask
  \/ \E d \in Devices : Hear(d)
  \/ \E ev \in Events : Receive(ev)

Spec == Init /\ [][Next]_vars
\* Both tasks run when they can.  The priority of a mutex' waiters lets the RX task
\* have g_connections_mutex between two messages.
FairSpec ==
  /\ Spec
  /\ WF_vars(MqttTask /\ Disturb) /\ WF_vars(RxTask)
-----------------------------------------------------------------------------
\* What an event is for, told by the tables alone: the commands for the registered
\* ones among the first n targets, in their order.
CommandsTo(ts, form) ==
  LET cs[n \in 0 .. Len(ts)] ==
        IF n = 0 THEN <<>>
        ELSE IF ts[n].relay \in known THEN Append(cs[n - 1], Command(ts[n], form))
        ELSE cs[n - 1]
  IN cs
Commanded(ts, form) == CommandsTo(ts, form)[Len(ts)]

Expected(ev) ==
  LET type == TypeOf(ev)
      ts == FirstOf(RoutesOf(ev), MaxRoutes) IN
  CASE type = 0 /\ ev.state = 1 -> <<>>
    [] type = 0 /\ ev.state = 0 /\ Hits(ts) # {} ->
         Commanded(<<PairTarget(FirstPair(ts), ev.long)>>, "toggle")
    [] OTHER -> Commanded(RoutesOf(ev), Form(type, ev.state))

\* An event during which no table is replaced hands mesh_queue_to_node a command
\* for exactly the registered targets of its button, once each and in one form, or
\* for the one output of its blind pair; a command that cannot be queued is lost
\* alone (root_handle_mesh_message and the two routing functions).
EventsRouted == rx.pc = "done" /\ ~touched => sent = Expected(rx.ev)

\* mesh_rx_task gets through every event, whatever the MQTT task holds.
EventEnds == rx.pc # "idle" ~> rx.pc = "idle"

\* "Looks up the routing table for the source device and button character, then
\* sends a MSG_TYPE_COMMAND to each target relay node", refuted: with the table
\* replaced during the loop an event commands a target that no configuration ever
\* gave its button.
OwnTargets ==
  [][sent' # sent /\ sent' # <<>> =>
       LET c == sent'[Len(sent')] IN
       \E d \in Databases : \E i \in 1 .. Len(d.conn) :
         /\ d.conn[i].dev = rx.ev.dev
         /\ \E k \in 1 .. Len(d.conn[i].routes[rx.ev.button]) :
              LET t == d.conn[i].routes[rx.ev.button][k] IN
              c.relay = t.relay /\ (c.out = t.out \/ \E p \in 1 .. Len(d.pairs) :
                                                       HitsPair(t, d.pairs[p]))]_vars
====
