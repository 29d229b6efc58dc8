----------------------------- MODULE RootTables -----------------------------
(***************************************************************************)
(* The configuration of the root node and where it comes from.             *)
(*                                                                         *)
(* The backend keeps connections, button types and blind pairs in its      *)
(* database and pushes them over MQTT: everything when a root reports that *)
(* it is connected (broker.py), connections and pairs when a web page asks *)
(* for an update, button types when a web page has edited them (main.py).  *)
(* The root's MQTT task parses each message into a table of MaxNodes slots *)
(* (node_root.c), slot by slot, while the RX task looks devices up: under  *)
(* g_connections_mutex for the connections, under no mutex for the types.  *)
(***************************************************************************)
EXTENDS Integers, Sequences

CONSTANTS
  Switches,   \* devices that have buttons
  Buttons,    \* the buttons of each
  Targets,    \* what a button may be connected to: records of a relay and an output
  None,       \* device id 0, of an empty slot
  MaxNodes,   \* MAX_NODES
  MaxPairs,   \* MAX_BLIND_PAIRS
  Databases,  \* the contents the backend's database may have
  TooLong,    \* the messages that do not fit in the MQTT client's buffer
  MaxPushes   \* bound: pushes of the backend

Routes == [Buttons -> Seq(Targets)]
ButtonTypes == [Buttons -> {0, 1}]
ConnEntries == [dev : Switches, routes : Routes]
TypeEntries == [dev : Switches, types : ButtonTypes]
Pairs == [relay : {t.relay : t \in Targets}, power : {t.out : t \in Targets},
          dir : {t.out : t \in Targets}]

\* A device is a key of a JSON object: it is listed once.
Distinct(entries) ==
  \A i, j \in 1 .. Len(entries) : entries[i].dev = entries[j].dev => i = j

\* An output of a relay that is connected to something.
Places == [relay : {t.relay : t \in Targets}, out : {t.out : t \in Targets}]

ASSUME TablesAssumption ==
  /\ Targets \subseteq Places
  /\ None \notin Switches
  /\ MaxNodes \in Nat \ {0} /\ MaxPairs \in Nat \ {0} /\ MaxPushes \in Nat
  /\ Databases # {}
  /\ \A d \in Databases :
       /\ d.conn \in Seq(ConnEntries) /\ Distinct(d.conn)
       /\ d.types \in Seq(TypeEntries) /\ Distinct(d.types)
       /\ d.pairs \in Seq(Pairs)

VARIABLES
  db,       \* the backend's database
  pushes,   \* how often the backend has pushed
  inbox,    \* the messages on /switch/cmd/root the MQTT task has not taken
  conn,     \* g_connections
  btypes,   \* g_button_types
  pairs,    \* g_blind_pairs
  mq,       \* what the MQTT task is parsing, into which slot, and how far it is
  listed,   \* the last connections message parsed
  latest    \* the last blind_pairs and button_types messages parsed

tables == <<conn, btypes, pairs>>
tablesVars == <<db, pushes, inbox, conn, btypes, pairs, mq, listed, latest>>

Slots == 1 .. MaxNodes
NoRoutes == [b \in Buttons |-> <<>>]
NoTypes == [b \in Buttons |-> 0]
EmptySlot == [dev |-> None, routes |-> NoRoutes, freed |-> FALSE]
EmptyTypes == [dev |-> None, types |-> NoTypes]
Idle == [kind |-> "idle", todo |-> <<>>, slot |-> 0, stage |-> 0]

\* The slot the linear searches find: the first one that holds the device, or 0.
FirstSlot(table, d) ==
  LET held == {i \in Slots : table[i].dev = d} IN
  IF held = {} THEN 0 ELSE CHOOSE i \in held : \A j \in held : i <= j

TablesTypeOK ==
  /\ db \in Databases
  /\ pushes \in 0 .. MaxPushes
  /\ conn \in [Slots -> [dev : Switches \cup {None}, routes : Routes, freed : BOOLEAN]]
  /\ btypes \in [Slots -> [dev : Switches \cup {None}, types : ButtonTypes]]
  /\ pairs \in Seq(Pairs) /\ Len(pairs) <= MaxPairs
  /\ listed \in Seq(ConnEntries)
  /\ mq = Idle \/ (mq.slot \in Slots /\ mq.stage \in 1 .. 3 /\ mq.todo # <<>>)

TablesInit ==
  /\ db \in Databases
  /\ pushes = 0 /\ inbox = <<>>
  /\ conn = [i \in Slots |-> EmptySlot]
  /\ btypes = [i \in Slots |-> EmptyTypes]
  /\ pairs = <<>>
  /\ mq = Idle /\ listed = <<>>
  /\ latest = [blind_pairs |-> <<>>, button_types |-> <<>>]
-----------------------------------------------------------------------------
(* The backend *)

Message(k, e) == [kind |-> k, entries |-> e]
ConnMessage == Message("connections", db.conn)
PairsMessage == Message("blind_pairs", db.pairs)
TypesMessage == Message("button_types", db.types)

\* The pages edit the database row by row; a push follows when they ask for it.
EditDatabase ==
  /\ db' \in Databases \ {db}
  /\ UNCHANGED <<pushes, inbox, conn, btypes, pairs, mq, listed, latest>>

Publish(messages) ==
  /\ pushes < MaxPushes
  /\ pushes' = pushes + 1
  /\ inbox' = inbox \o messages
  /\ UNCHANGED <<conn, btypes, pairs, mq, listed, latest>>

\* handle_root_state, on "connected".
PushAll == Publish(<<ConnMessage, PairsMessage, TypesMessage>>) /\ UNCHANGED db

\* The "update" command of the configuration page.
PushUpdate == Publish(<<ConnMessage, PairsMessage>>) /\ UNCHANGED db

\* Its "button_types" command, which brings the types of all switches: they are
\* stored, and passed on as they came.
PushTypes ==
  \E d \in Databases :
    /\ d.conn = db.conn /\ d.pairs = db.pairs
    /\ db' = d
    /\ Publish(<<Message("button_types", d.types)>>)
-----------------------------------------------------------------------------
(* The MQTT task *)

FirstOf(s, n) == SubSeq(s, 1, IF Len(s) < n THEN Len(s) ELSE n)

\* Entries beyond the last slot are not parsed, and slots beyond the last entry
\* keep what they hold.
Begin(m) ==
  IF m.entries = <<>> THEN Idle
  ELSE [kind |-> m.kind, todo |-> FirstOf(m.entries, MaxNodes), slot |-> 1, stage |-> 1]

\* A message longer than the buffer comes in fragments, which nothing puts
\* together again: the first is no JSON, the others have no topic.  None of them
\* changes a table, and the backend does not hear of it.  The limit of 8192 bytes
\* in handle_mqtt_command is above the buffer, so it refuses nothing more.
RefuseMessage ==
  /\ mq = Idle /\ inbox # <<>>
  /\ Head(inbox) \in TooLong
  /\ inbox' = Tail(inbox)
  /\ UNCHANGED <<db, pushes, conn, btypes, pairs, mq, listed, latest>>

\* Mutation: the old pairs stay in front of the new ones.
TakeMessageKeepsPairs ==
  /\ mq = Idle /\ inbox # <<>>
  /\ Head(inbox) \notin TooLong
  /\ inbox' = Tail(inbox)
  /\ LET m == Head(inbox) IN
     /\ pairs' = IF m.kind = "blind_pairs" THEN FirstOf(pairs \o m.entries, MaxPairs) ELSE pairs
     /\ mq' = IF m.kind = "blind_pairs" THEN Idle ELSE Begin(m)
     /\ listed' = IF m.kind = "connections" THEN m.entries ELSE listed
     /\ latest' = [k \in DOMAIN latest |-> IF k = m.kind THEN m.entries ELSE latest[k]]
  /\ UNCHANGED <<db, pushes, conn, btypes>>

\* The pairs are replaced under their mutex, as many as there is room for; the
\* other two tables slot by slot.
TakeMessage ==
  /\ mq = Idle /\ inbox # <<>>
  /\ Head(inbox) \notin TooLong
  /\ inbox' = Tail(inbox)
  /\ LET m == Head(inbox) IN
     /\ pairs' = IF m.kind = "blind_pairs" THEN FirstOf(m.entries, MaxPairs) ELSE pairs
     /\ mq' = IF m.kind = "blind_pairs" THEN Idle ELSE Begin(m)
     /\ listed' = IF m.kind = "connections" THEN m.entries ELSE listed
     /\ latest' = [k \in DOMAIN latest |-> IF k = m.kind THEN m.entries ELSE latest[k]]
  /\ UNCHANGED <<db, pushes, conn, btypes>>

\* Mutation: every entry goes into the same slot.
NextEntrySameSlot ==
  mq' = IF Len(mq.todo) = 1 THEN Idle
        ELSE [mq EXCEPT !.todo = Tail(@), !.stage = 1]

\* Mutation: the parser returns without giving the mutex back.
NextEntryKeepsMutex ==
  /\ Len(mq.todo) > 1
  /\ mq' = [mq EXCEPT !.todo = Tail(@), !.slot = @ + 1, !.stage = 1]

NextEntry ==
  mq' = IF Len(mq.todo) = 1 THEN Idle
        ELSE [mq EXCEPT !.todo = Tail(@), !.slot = @ + 1, !.stage = 1]

At(kind, stage) == mq.kind = kind /\ mq.stage = stage
NextStage == mq' = [mq EXCEPT !.stage = @ + 1]

\* g_connections_mutex is held from the first entry to the last.
Locked == mq.kind = "connections"

\* The target arrays are freed, the memory of the slot is cleared, and the device
\* and its new arrays are filled in.
ConnFree ==
  /\ At("connections", 1)
  /\ conn' = [conn EXCEPT ![mq.slot].freed = TRUE]
  /\ NextStage
  /\ UNCHANGED <<db, pushes, inbox, btypes, pairs, listed, latest>>

ConnClear ==
  /\ At("connections", 2)
  /\ conn' = [conn EXCEPT ![mq.slot] = EmptySlot]
  /\ NextStage
  /\ UNCHANGED <<db, pushes, inbox, btypes, pairs, listed, latest>>

ConnFill ==
  /\ At("connections", 3)
  /\ conn' = [conn EXCEPT ![mq.slot] = [dev    |-> Head(mq.todo).dev,
                                        routes |-> Head(mq.todo).routes,
                                        freed  |-> FALSE]]
  /\ NextEntry
  /\ UNCHANGED <<db, pushes, inbox, btypes, pairs, listed, latest>>

\* The memory of the slot is cleared, the device gets its name, then its types.
TypesClear ==
  /\ At("button_types", 1)
  /\ btypes' = [btypes EXCEPT ![mq.slot] = EmptyTypes]
  /\ NextStage
  /\ UNCHANGED <<db, pushes, inbox, conn, pairs, listed, latest>>

TypesName ==
  /\ At("button_types", 2)
  /\ btypes' = [btypes EXCEPT ![mq.slot].dev = Head(mq.todo).dev]
  /\ NextStage
  /\ UNCHANGED <<db, pushes, inbox, conn, pairs, listed, latest>>

TypesFill ==
  /\ At("button_types", 3)
  /\ btypes' = [btypes EXCEPT ![mq.slot].types = Head(mq.todo).types]
  /\ NextEntry
  /\ UNCHANGED <<db, pushes, inbox, conn, pairs, listed, latest>>

Backend == EditDatabase \/ PushAll \/ PushUpdate \/ PushTypes

MqttTask ==
  \/ TakeMessage \/ RefuseMessage
  \/ ConnFree \/ ConnClear \/ ConnFill
  \/ TypesClear \/ TypesName \/ TypesFill

TablesSpec == TablesInit /\ [][Backend \/ MqttTask]_tablesVars
-----------------------------------------------------------------------------
\* Once a connections message has been parsed, every device it lists (as far as
\* the slots go) is routed as the message says, although older entries for the
\* same device may be left in later slots: the new ones come first.
ListedRouted ==
  ~Locked =>
    \A i \in 1 .. Len(listed) : i <= MaxNodes =>
      LET s == FirstSlot(conn, listed[i].dev) IN
      s # 0 /\ conn[s].routes = listed[i].routes /\ ~conn[s].freed

\* The pairs are those of the last message of their kind, as far as there is room.
\* Once a message of the other two kinds has been parsed, its entries fill the first
\* slots of their table, whatever was pushed, parsed or looked up in between.  A
\* message that does not fit in the MQTT buffer is never parsed and changes nothing
\* (mqtt_event_handler and the three parsers of node_root.c).
PushesApplied ==
  /\ pairs = FirstOf(latest.blind_pairs, MaxPairs)
  /\ ~Locked =>
       \A i \in 1 .. Len(listed) : i <= MaxNodes =>
         conn[i] = [dev |-> listed[i].dev, routes |-> listed[i].routes, freed |-> FALSE]
  /\ mq.kind # "button_types" =>
       \A i \in 1 .. Len(latest.button_types) : i <= MaxNodes =>
         btypes[i] = latest.button_types[i]
====
