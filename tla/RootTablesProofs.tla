-------------------------- MODULE RootTablesProofs --------------------------
(***************************************************************************)
(* Proofs about the tables of the root and the RX task that routes events  *)
(* with them (RootRouter), for any contents of the database, registry,     *)
(* event and number of slots: the table of connections routes what was     *)
(* pushed last, everything keeps its type, and an event during which no    *)
(* table is replaced commands what the tables say.                         *)
(*                                                                         *)
(* For the first the invariant says how far the parser is: the slots       *)
(* before the one it fills hold the entries of the message, and what is    *)
(* left to do are the entries from there on.  Because no device is listed  *)
(* twice, the slot of an entry is the first that holds its device,         *)
(* whatever later slots hold.                                              *)
(***************************************************************************)
EXTENDS RootRouter, SequenceTheorems, FiniteSetTheorems, WellFoundedInduction, TLAPS

Last == IF Len(listed) < MaxNodes THEN Len(listed) ELSE MaxNodes

\* Slot i holds the entry of the message.
Filled(i) ==
  conn[i].dev = listed[i].dev /\ conn[i].routes = listed[i].routes /\ ~conn[i].freed

ConnMessages == {m \in [kind : {"connections"}, entries : Seq(ConnEntries)] : Distinct(m.entries)}
TypesMessages == [kind : {"button_types"}, entries : Seq(TypeEntries)]
PairsMessages == [kind : {"blind_pairs"}, entries : Seq(Pairs)]
Messages == ConnMessages \cup TypesMessages \cup PairsMessages

ParsesConns ==
  mq \in [kind : {"connections"}, todo : Seq(ConnEntries), slot : Nat \ {0}, stage : Nat]
ParsesTypes ==
  \E T : mq \in [kind : {"button_types"}, todo : T, slot : Nat, stage : Nat]

Typed ==
  /\ db \in Databases
  /\ inbox \in Seq(Messages)
  /\ listed \in Seq(ConnEntries) /\ Distinct(listed)
  /\ DOMAIN conn = Slots
  /\ \A i \in Slots : conn[i] \in [dev : Switches \cup {None}, routes : Routes, freed : BOOLEAN]
  /\ mq = Idle \/ ParsesConns \/ ParsesTypes

Parsing ==
  IF Locked
  THEN /\ mq.slot <= Last /\ Len(mq.todo) = Last - mq.slot + 1
       /\ \A k \in 1 .. Len(mq.todo) : mq.todo[k] = listed[mq.slot + k - 1]
       /\ \A i \in 1 .. mq.slot - 1 : Filled(i)
  ELSE \A i \in 1 .. Last : Filled(i)

TableInv == Typed /\ Parsing
-----------------------------------------------------------------------------
LEMMA Constants ==
  /\ MaxNodes \in Nat \ {0} /\ Slots = 1 .. MaxNodes
  /\ \A d \in Databases :
       /\ d.conn \in Seq(ConnEntries) /\ Distinct(d.conn)
       /\ d.types \in Seq(TypeEntries) /\ d.pairs \in Seq(Pairs)
  BY TablesAssumption DEF Slots

LEMMA LastSlot ==
  ASSUME Typed
  PROVE  Last \in Nat /\ Last <= MaxNodes /\ Last <= Len(listed) /\ Len(listed) \in Nat
  BY Constants DEF Typed, Last

\* What the MQTT task is doing tells who holds the mutex.
LEMMA LockHolder ==
  /\ mq = Idle => ~Locked /\ mq.kind = "idle"
  /\ ParsesConns => Locked
  /\ ParsesTypes => ~Locked /\ mq.kind = "button_types"
  BY DEF Idle, Locked, ParsesConns, ParsesTypes

LEMMA InitHolds == Init => TableInv
<1> SUFFICES ASSUME Init PROVE TableInv
  OBVIOUS
<1> USE DEF Init, TablesInit
<1>1. listed \in Seq(ConnEntries) /\ Len(listed) = 0 /\ Distinct(listed)
  BY DEF Distinct
<1>2. inbox \in Seq(Messages) /\ db \in Databases /\ mq = Idle /\ DOMAIN conn = Slots
  OBVIOUS
<1>3. EmptySlot \in [dev : Switches \cup {None}, routes : Routes, freed : BOOLEAN]
  <2>1. NoRoutes \in Routes
    BY DEF NoRoutes, Routes
  <2> QED BY <2>1 DEF EmptySlot
<1>4. \A i \in Slots : conn[i] \in [dev : Switches \cup {None}, routes : Routes, freed : BOOLEAN]
  BY <1>3
<1>5. Typed
  BY <1>1, <1>2, <1>4 DEF Typed
<1>6. Parsing
  <2>1. Last = 0
    BY <1>1, Constants DEF Last
  <2> QED BY <1>2, <2>1, LockHolder DEF Parsing
<1> QED BY <1>5, <1>6 DEF TableInv

\* The backend changes its database and adds messages.
LEMMA BackendHolds ==
  ASSUME TableInv, Backend
  PROVE  TableInv'
<1>t. Typed /\ Parsing
  BY DEF TableInv
<1>1. db' \in Databases
  BY <1>t DEF Backend, EditDatabase, PushAll, PushUpdate, PushTypes, Typed
<1>2. UNCHANGED <<conn, mq, listed>>
  BY DEF Backend, EditDatabase, PushAll, PushUpdate, PushTypes, Publish
<1>m. /\ ConnMessage \in Messages /\ PairsMessage \in Messages /\ TypesMessage \in Messages
      /\ \A d \in Databases : Message("button_types", d.types) \in Messages
  <2>1. \A d \in Databases : Message("connections", d.conn) \in ConnMessages
    BY Constants DEF Message, ConnMessages
  <2>2. \A d \in Databases : Message("blind_pairs", d.pairs) \in PairsMessages
    BY Constants DEF Message, PairsMessages
  <2>3. \A d \in Databases : Message("button_types", d.types) \in TypesMessages
    BY Constants DEF Message, TypesMessages
  <2> QED BY <1>t, <2>1, <2>2, <2>3 DEF Typed, Messages, ConnMessage, PairsMessage, TypesMessage
<1>3. inbox' \in Seq(Messages)
  <2>1. inbox \in Seq(Messages)
    BY <1>t DEF Typed
  <2>2. CASE EditDatabase
    BY <2>1, <2>2 DEF EditDatabase
  <2>3. CASE PushAll
    <3>1. inbox' = inbox \o <<ConnMessage, PairsMessage, TypesMessage>>
      BY <2>3 DEF PushAll, Publish
    <3>2. <<ConnMessage, PairsMessage, TypesMessage>> \in Seq(Messages)
      BY <1>m
    <3> QED BY <2>1, <3>1, <3>2, ConcatProperties
  <2>4. CASE PushUpdate
    <3>1. inbox' = inbox \o <<ConnMessage, PairsMessage>>
      BY <2>4 DEF PushUpdate, Publish
    <3>2. <<ConnMessage, PairsMessage>> \in Seq(Messages)
      BY <1>m
    <3> QED BY <2>1, <3>1, <3>2, ConcatProperties
  <2>5. CASE PushTypes
    <3>1. PICK d \in Databases : inbox' = inbox \o <<Message("button_types", d.types)>>
      BY <2>5 DEF PushTypes, Publish
    <3>2. <<Message("button_types", d.types)>> \in Seq(Messages)
      BY <1>m
    <3> QED BY <2>1, <3>1, <3>2, ConcatProperties
  <2> QED BY <2>2, <2>3, <2>4, <2>5 DEF Backend
<1>4. Typed'
  BY <1>1, <1>2, <1>3, <1>t DEF Typed, ParsesConns, ParsesTypes
<1>5. Parsing'
  BY <1>2, <1>t DEF Parsing, Locked, Last, Filled
<1> QED BY <1>4, <1>5 DEF TableInv

LEMMA Prefix ==
  ASSUME NEW S, NEW s \in Seq(S), NEW n \in Nat
  PROVE  /\ FirstOf(s, n) \in Seq(S)
         /\ Len(FirstOf(s, n)) = IF Len(s) < n THEN Len(s) ELSE n
         /\ \A i \in 1 .. Len(FirstOf(s, n)) : FirstOf(s, n)[i] = s[i]
<1> DEFINE l == IF Len(s) < n THEN Len(s) ELSE n
<1>1. Len(s) \in Nat /\ l \in Nat /\ l <= Len(s)
  OBVIOUS
<1>2. FirstOf(s, n) = SubSeq(s, 1, l)
  BY DEF FirstOf
<1> HIDE DEF l
<1>3. \A i \in 1 .. l : s[i] \in S
  BY <1>1, ElementOfSeq
<1>4. /\ SubSeq(s, 1, l) \in Seq(S) /\ Len(SubSeq(s, 1, l)) = l
      /\ \A i \in 1 .. l : SubSeq(s, 1, l)[i] = s[i]
  BY <1>1, <1>3, SMTT(30)
<1> QED BY <1>2, <1>4 DEF l

\* A message is taken.
LEMMA TakeHolds ==
  ASSUME TableInv, TakeMessage
  PROVE  TableInv'
<1>t. Typed /\ Parsing
  BY DEF TableInv
<1>1. /\ mq = Idle /\ inbox # <<>> /\ inbox' = Tail(inbox) /\ UNCHANGED <<db, conn>>
      /\ mq' = IF Head(inbox).kind = "blind_pairs" THEN Idle ELSE Begin(Head(inbox))
      /\ listed' = IF Head(inbox).kind = "connections" THEN Head(inbox).entries ELSE listed
  BY DEF TakeMessage
<1>2. inbox' \in Seq(Messages) /\ Head(inbox) \in Messages
  <2>1. inbox \in Seq(Messages)
    BY <1>t DEF Typed
  <2> QED BY <1>1, <2>1, HeadTailProperties, EmptySeq
<1>3. ~Locked
  BY <1>1, LockHolder
<1>4. CASE Head(inbox).kind # "connections"
  <2>1. listed' = listed
    BY <1>1, <1>4
  <2>2. (mq = Idle \/ ParsesTypes)'
    <3>1. CASE Head(inbox) \in PairsMessages
      BY <1>1, <3>1 DEF PairsMessages
    <3>2. CASE Head(inbox) \in TypesMessages
      <4>1. Head(inbox).kind = "button_types"
        BY <3>2 DEF TypesMessages
      <4> DEFINE t == FirstOf(Head(inbox).entries, MaxNodes)
      <4>2. \/ mq' = Idle
            \/ mq' = [kind |-> "button_types", todo |-> t, slot |-> 1, stage |-> 1]
        BY <1>1, <4>1 DEF Begin
      <4> HIDE DEF t
      <4>3. mq' = Idle \/ mq' \in [kind : {"button_types"}, todo : {t}, slot : Nat, stage : Nat]
        BY <4>2
      <4> QED BY <4>3 DEF ParsesTypes
    <3> QED BY <1>2, <1>4, <3>1, <3>2 DEF Messages, ConnMessages
  <2>3. ~Locked'
    BY <2>2 DEF Idle, Locked, ParsesTypes
  <2>4. Typed'
    BY <1>1, <1>2, <1>t, <2>1, <2>2 DEF Typed
  <2>5. Parsing'
    BY <1>1, <1>3, <1>t, <2>1, <2>3 DEF Parsing, Last, Filled
  <2> QED BY <2>4, <2>5 DEF TableInv
<1>5. CASE Head(inbox).kind = "connections"
  <2> DEFINE e == Head(inbox).entries
  <2>1. e \in Seq(ConnEntries) /\ Distinct(e) /\ listed' = e
    <3>1. Head(inbox) \in ConnMessages
      BY <1>2, <1>5 DEF Messages, TypesMessages, PairsMessages
    <3> QED BY <1>1, <1>5, <3>1 DEF ConnMessages
  <2>2. mq' = IF e = <<>> THEN Idle
              ELSE [kind |-> "connections", todo |-> FirstOf(e, MaxNodes), slot |-> 1, stage |-> 1]
    BY <1>1, <1>5 DEF Begin
  <2> HIDE DEF e
  <2>3. CASE e = <<>>
    <3>1. ~Locked' /\ mq' = Idle /\ Len(listed') = 0
      BY <2>1, <2>2, <2>3 DEF Idle, Locked
    <3>2. Last' = 0
      BY <3>1, Constants DEF Last
    <3>3. Typed'
      BY <1>1, <1>2, <1>t, <2>1, <3>1 DEF Typed
    <3>4. Parsing'
      BY <3>1, <3>2 DEF Parsing
    <3> QED BY <3>3, <3>4 DEF TableInv
  <2>4. CASE e # <<>>
    <3>1. /\ FirstOf(e, MaxNodes) \in Seq(ConnEntries)
          /\ Len(FirstOf(e, MaxNodes)) = IF Len(e) < MaxNodes THEN Len(e) ELSE MaxNodes
          /\ \A i \in 1 .. Len(FirstOf(e, MaxNodes)) : FirstOf(e, MaxNodes)[i] = e[i]
      BY <2>1, Constants, Prefix
    <3>2. /\ ParsesConns' /\ Locked'
          /\ mq'.todo = FirstOf(e, MaxNodes) /\ mq'.slot = 1
      BY <2>2, <2>4, <3>1 DEF Locked, ParsesConns
    <3>3. Typed'
      BY <1>1, <1>2, <1>t, <2>1, <3>2 DEF Typed
    <3>4. Last' = Len(FirstOf(e, MaxNodes)) /\ Last' \in Nat /\ Last' >= 1
      <4>1. Len(e) \in Nat /\ Len(e) # 0
        BY <2>1, <2>4, EmptySeq
      <4> QED BY <2>1, <3>1, <4>1, Constants DEF Last
    <3>5. Parsing'
      <4>1. \A k \in 1 .. Len(mq'.todo) : mq'.todo[k] = listed'[mq'.slot + k - 1]
        BY <2>1, <3>1, <3>2
      <4> QED BY <3>2, <3>4, <4>1 DEF Parsing
    <3> QED BY <3>3, <3>5 DEF TableInv
  <2> QED BY <2>3, <2>4
<1> QED BY <1>4, <1>5

\* One step of the parser of connections.
LEMMA ConnHolds ==
  ASSUME TableInv, ConnFree \/ ConnClear \/ ConnFill
  PROVE  TableInv'
<1>t. Typed /\ Parsing
  BY DEF TableInv
<1>1. Locked /\ UNCHANGED <<db, inbox, listed>>
  BY DEF ConnFree, ConnClear, ConnFill, At, Locked
<1>2. mq \in [kind : {"connections"}, todo : Seq(ConnEntries), slot : Nat \ {0}, stage : Nat]
  BY <1>1, <1>t, LockHolder DEF Typed, ParsesConns
<1>3. mq.slot \in Nat \ {0} /\ mq.todo \in Seq(ConnEntries) /\ mq.stage \in Nat /\ Len(mq.todo) \in Nat
  BY <1>2
<1>4. /\ mq.slot <= Last /\ Len(mq.todo) = Last - mq.slot + 1
      /\ \A k \in 1 .. Len(mq.todo) : mq.todo[k] = listed[mq.slot + k - 1]
      /\ \A i \in 1 .. mq.slot - 1 : Filled(i)
  BY <1>1, <1>t DEF Parsing
<1>l. Last \in Nat /\ Last <= MaxNodes /\ Last' = Last /\ MaxNodes \in Nat
  BY <1>1, <1>t, LastSlot, Constants DEF Last
<1>5. mq.slot \in Slots /\ Len(mq.todo) >= 1
  BY <1>3, <1>4, <1>l, Constants
<1>6. \A i \in 1 .. mq.slot - 1 : i \in Slots /\ i # mq.slot
  BY <1>3, <1>5, <1>l, Constants
<1>c. \A i \in Slots : conn[i] \in [dev : Switches \cup {None}, routes : Routes, freed : BOOLEAN]
  BY <1>t DEF Typed
<1>7. CASE ConnFree \/ ConnClear
  <2>1. PICK v : /\ conn' = [conn EXCEPT ![mq.slot] = v]
                 /\ v \in [dev : Switches \cup {None}, routes : Routes, freed : BOOLEAN]
    <3>1. CASE ConnFree
      <4>1. conn' = [conn EXCEPT ![mq.slot] = [conn[mq.slot] EXCEPT !.freed = TRUE]]
        BY <3>1 DEF ConnFree
      <4>2. [conn[mq.slot] EXCEPT !.freed = TRUE]
              \in [dev : Switches \cup {None}, routes : Routes, freed : BOOLEAN]
        BY <1>5, <1>c
      <4> QED BY <4>1, <4>2
    <3>2. CASE ConnClear
      <4>1. EmptySlot \in [dev : Switches \cup {None}, routes : Routes, freed : BOOLEAN]
        <5>1. NoRoutes \in Routes
          BY DEF NoRoutes, Routes
        <5> QED BY <5>1 DEF EmptySlot
      <4> QED BY <3>2, <4>1 DEF ConnClear
    <3> QED BY <1>7, <3>1, <3>2
  <2>2. mq' = [mq EXCEPT !.stage = @ + 1]
    BY <1>7 DEF ConnFree, ConnClear, NextStage
  <2>3. /\ mq' \in [kind : {"connections"}, todo : Seq(ConnEntries), slot : Nat \ {0}, stage : Nat]
        /\ mq'.kind = "connections" /\ mq'.slot = mq.slot /\ mq'.todo = mq.todo
    BY <1>2, <1>3, <2>2
  <2>p. ParsesConns'
    BY <2>3 DEF ParsesConns
  <2>4. DOMAIN conn' = Slots /\ \A i \in Slots : conn'[i] = IF i = mq.slot THEN v ELSE conn[i]
    BY <1>t, <2>1 DEF Typed
  <2>5. Typed'
    BY <1>1, <1>t, <1>c, <2>1, <2>p, <2>4 DEF Typed
  <2>6. \A i \in 1 .. mq.slot - 1 : Filled(i)'
    BY <1>1, <1>4, <1>6, <2>4 DEF Filled
  <2>7. Parsing'
    BY <1>1, <1>4, <1>l, <2>3, <2>6 DEF Parsing, Locked
  <2> QED BY <2>5, <2>7 DEF TableInv
<1>8. CASE ConnFill
  <2> DEFINE h == Head(mq.todo)
             v == [dev |-> h.dev, routes |-> h.routes, freed |-> FALSE]
  <2>1. /\ h \in ConnEntries /\ h = mq.todo[1] /\ h = listed[mq.slot]
        /\ Tail(mq.todo) \in Seq(ConnEntries) /\ Len(Tail(mq.todo)) = Len(mq.todo) - 1
        /\ \A k \in 1 .. Len(Tail(mq.todo)) : Tail(mq.todo)[k] = mq.todo[k + 1]
    <3>1. mq.todo # <<>>
      BY <1>3, <1>5, EmptySeq
    <3>2. /\ h \in ConnEntries /\ h = mq.todo[1] /\ Tail(mq.todo) \in Seq(ConnEntries)
          /\ Len(Tail(mq.todo)) = Len(mq.todo) - 1
          /\ \A k \in 1 .. Len(Tail(mq.todo)) : Tail(mq.todo)[k] = mq.todo[k + 1]
      BY <1>3, <3>1, HeadTailProperties
    <3>3. mq.todo[1] = listed[mq.slot]
      <4>1. 1 \in 1 .. Len(mq.todo) /\ mq.slot + 1 - 1 = mq.slot
        BY <1>3, <1>5
      <4> QED BY <1>4, <4>1
    <3> QED BY <3>2, <3>3
  <2>2. v \in [dev : Switches \cup {None}, routes : Routes, freed : BOOLEAN]
    BY <2>1 DEF ConnEntries
  <2>3. conn' = [conn EXCEPT ![mq.slot] = v]
    BY <1>8 DEF ConnFill
  <2>4. DOMAIN conn' = Slots /\ \A i \in Slots : conn'[i] = IF i = mq.slot THEN v ELSE conn[i]
    BY <1>t, <2>3 DEF Typed
  <2>5. \A i \in 1 .. mq.slot : Filled(i)'
    <3> SUFFICES ASSUME NEW i \in 1 .. mq.slot
                 PROVE  /\ conn'[i].dev = listed[i].dev /\ conn'[i].routes = listed[i].routes
                        /\ ~conn'[i].freed
      BY <1>1 DEF Filled
    <3>1. CASE i = mq.slot
      BY <1>5, <2>1, <2>4, <3>1
    <3>2. CASE i # mq.slot
      <4>1. i \in 1 .. mq.slot - 1
        BY <1>3, <3>2
      <4>2. conn'[i] = conn[i]
        BY <1>6, <2>4, <4>1
      <4> QED BY <1>4, <4>1, <4>2 DEF Filled
    <3> QED BY <3>1, <3>2
  <2> HIDE DEF v, h
  <2>6. CASE Len(mq.todo) = 1
    <3>1. mq' = Idle
      BY <1>8, <2>6 DEF ConnFill, NextEntry
    <3>2. ~Locked'
      BY <3>1 DEF Idle, Locked
    <3>3. Typed'
      BY <1>1, <1>t, <1>c, <2>2, <2>4, <3>1 DEF Typed
    <3>4. mq.slot = Last
      <4>1. mq.slot \in Nat /\ Last \in Nat /\ 1 = Last - mq.slot + 1
        BY <1>3, <1>4, <1>l, <2>6
      <4> QED BY <4>1
    <3>5. Parsing'
      BY <1>l, <2>5, <3>2, <3>4 DEF Parsing
    <3> QED BY <3>3, <3>5 DEF TableInv
  <2>7. CASE Len(mq.todo) # 1
    <3>1. mq' = [mq EXCEPT !.todo = Tail(@), !.slot = @ + 1, !.stage = 1]
      BY <1>8, <2>7 DEF ConnFill, NextEntry
    <3>2. /\ mq' \in [kind : {"connections"}, todo : Seq(ConnEntries), slot : Nat \ {0}, stage : Nat]
          /\ mq'.kind = "connections" /\ mq'.slot = mq.slot + 1 /\ mq'.todo = Tail(mq.todo)
      <4>1. mq.slot + 1 \in Nat \ {0}
        BY <1>3
      <4> QED BY <1>2, <2>1, <3>1, <4>1
    <3>p. ParsesConns'
      BY <3>2 DEF ParsesConns
    <3>3. Typed'
      BY <1>1, <1>t, <1>c, <2>2, <2>4, <3>p DEF Typed
    <3>4. mq.slot + 1 <= Last /\ Len(Tail(mq.todo)) = Last - (mq.slot + 1) + 1
      BY <1>3, <1>4, <1>l, <1>5, <2>1, <2>7
    <3>5. \A k \in 1 .. Len(Tail(mq.todo)) : Tail(mq.todo)[k] = listed[(mq.slot + 1) + k - 1]
      <4> SUFFICES ASSUME NEW k \in 1 .. Len(Tail(mq.todo))
                   PROVE  Tail(mq.todo)[k] = listed[(mq.slot + 1) + k - 1]
        OBVIOUS
      <4>1. k + 1 \in 1 .. Len(mq.todo) /\ mq.slot + (k + 1) - 1 = (mq.slot + 1) + k - 1
        BY <1>3, <2>1
      <4> QED BY <1>4, <2>1, <4>1
    <3>6. \A i \in 1 .. (mq.slot + 1) - 1 : Filled(i)'
      BY <1>3, <2>5
    <3>7. Parsing'
      BY <1>1, <1>l, <3>2, <3>4, <3>5, <3>6 DEF Parsing, Locked
    <3> QED BY <3>3, <3>7 DEF TableInv
  <2> QED BY <2>6, <2>7
<1> QED BY <1>7, <1>8

\* One step of the parser of button types.
LEMMA TypesHolds ==
  ASSUME TableInv, TypesClear \/ TypesName \/ TypesFill
  PROVE  TableInv'
<1>t. Typed /\ Parsing
  BY DEF TableInv
<1>1. mq.kind = "button_types" /\ UNCHANGED <<db, inbox, conn, listed>> /\ ~Locked
  BY DEF TypesClear, TypesName, TypesFill, At, Locked
<1>2. (mq = Idle \/ ParsesTypes)'
  <2>1. PICK T : mq \in [kind : {"button_types"}, todo : T, slot : Nat, stage : Nat]
    BY <1>1, <1>t, LockHolder DEF Typed, ParsesTypes
  <2>2. mq.slot + 1 \in Nat /\ mq.stage + 1 \in Nat
    BY <2>1
  <2>3. CASE TypesClear \/ TypesName
    <3>1. mq' = [mq EXCEPT !.stage = @ + 1]
      BY <2>3 DEF TypesClear, TypesName, NextStage
    <3> QED BY <2>1, <2>2, <3>1 DEF ParsesTypes
  <2>4. CASE TypesFill
    <3> DEFINE t == Tail(mq.todo)
    <3>1. \/ mq' = Idle
          \/ mq' = [mq EXCEPT !.todo = t, !.slot = mq.slot + 1, !.stage = 1]
      BY <2>4 DEF TypesFill, NextEntry
    <3> HIDE DEF t
    <3>2. [mq EXCEPT !.todo = t, !.slot = mq.slot + 1, !.stage = 1]
            \in [kind : {"button_types"}, todo : {t}, slot : Nat, stage : Nat]
      BY <2>1, <2>2
    <3> QED BY <3>1, <3>2 DEF ParsesTypes
  <2> QED BY <2>3, <2>4
<1>3. ~Locked'
  BY <1>2 DEF Idle, Locked, ParsesTypes
<1>4. Typed'
  BY <1>1, <1>2, <1>t DEF Typed
<1>5. Parsing'
  BY <1>1, <1>3, <1>t DEF Parsing, Last, Filled
<1> QED BY <1>4, <1>5 DEF TableInv
-----------------------------------------------------------------------------
LEMMA RefuseHolds ==
  ASSUME TableInv, RefuseMessage
  PROVE  TableInv'
<1>1. inbox # <<>> /\ inbox' = Tail(inbox) /\ UNCHANGED <<db, conn, mq, listed>>
  BY DEF RefuseMessage
<1>2. inbox' \in Seq(Messages)
  <2>1. inbox \in Seq(Messages)
    BY DEF TableInv, Typed
  <2> QED BY <1>1, <2>1, HeadTailProperties, EmptySeq
<1>3. Typed'
  BY <1>1, <1>2 DEF TableInv, Typed, ParsesConns, ParsesTypes
<1>4. Parsing'
  BY <1>1 DEF TableInv, Parsing, Locked, Last, Filled
<1> QED BY <1>3, <1>4 DEF TableInv

LEMMA NextHolds == TableInv /\ [Next]_vars => TableInv'
<1> SUFFICES ASSUME TableInv, [Next]_vars PROVE TableInv'
  OBVIOUS
<1>1. CASE Backend \/ MqttTask
  BY <1>1, BackendHolds, TakeHolds, RefuseHolds, ConnHolds, TypesHolds DEF MqttTask
<1>2. CASE UNCHANGED tablesVars
  <2>1. UNCHANGED <<db, inbox, listed, conn, mq>>
    BY <1>2 DEF tablesVars
  <2>2. Typed'
    BY <2>1 DEF TableInv, Typed, ParsesConns, ParsesTypes
  <2>3. Parsing'
    BY <2>1 DEF TableInv, Parsing, Locked, Last, Filled
  <2> QED BY <2>2, <2>3 DEF TableInv
<1>3. RxTask => UNCHANGED tablesVars
  BY DEF RxTask, ReadType, CopyTargets, CheckPairs, CheckPairsAgain, BlindSend, RouteFind,
         RouteTarget, RouteSend, Finish
<1>4. ASSUME NEW d \in Devices, Hear(d) PROVE UNCHANGED tablesVars
  BY <1>4 DEF Hear
<1>5. ASSUME NEW ev \in Events, Receive(ev) PROVE UNCHANGED tablesVars
  BY <1>5 DEF Receive
<1>6. UNCHANGED vars => UNCHANGED tablesVars
  BY DEF vars
<1> QED BY <1>1, <1>2, <1>3, <1>4, <1>5, <1>6 DEF Next

\* The slot of an entry is the first that holds its device.
LEMMA FirstHit ==
  ASSUME NEW d, NEW i \in Slots, conn[i].dev = d, \A j \in Slots : conn[j].dev = d => i <= j
  PROVE  FirstSlot(conn, d) = i
<1> DEFINE held == {j \in Slots : conn[j].dev = d}
<1>1. i \in held /\ \A j \in held : i <= j
  OBVIOUS
<1>2. \A j \in held : (\A k \in held : j <= k) => j = i
  <2> SUFFICES ASSUME NEW j \in held, \A k \in held : j <= k PROVE j = i
    OBVIOUS
  <2>1. i <= j /\ j <= i
    BY <1>1
  <2>2. i \in Nat /\ j \in Nat
    BY Constants
  <2> QED BY <2>1, <2>2
<1>3. (CHOOSE j \in held : \A k \in held : j <= k) = i
  BY <1>1, <1>2, Zenon
<1> QED BY <1>1, <1>3 DEF FirstSlot

\* Once a message has been parsed, what it lists is in force, whatever is left of older
\* tables in later slots and whatever event is being routed.
THEOREM ListedHolds == Spec => []ListedRouted
<1>1. TableInv => ListedRouted
  <2> SUFFICES ASSUME TableInv, ~Locked, NEW i \in 1 .. Len(listed), i <= MaxNodes
               PROVE  LET s == FirstSlot(conn, listed[i].dev) IN
                      s # 0 /\ conn[s].routes = listed[i].routes /\ ~conn[s].freed
    BY DEF ListedRouted
  <2>t. Typed /\ Parsing /\ Len(listed) \in Nat /\ MaxNodes \in Nat /\ Slots = 1 .. MaxNodes
    BY LastSlot, Constants DEF TableInv
  <2>1. i \in 1 .. Last /\ i \in Slots /\ i # 0
    BY <2>t DEF Last
  <2>2. \A j \in 1 .. Last : Filled(j)
    BY <2>t DEF Parsing
  <2>3. \A j \in Slots : conn[j].dev = listed[i].dev => i <= j
    <3> SUFFICES ASSUME NEW j \in Slots, conn[j].dev = listed[i].dev, ~(i <= j) PROVE FALSE
      OBVIOUS
    <3>1. j \in 1 .. Last /\ j \in 1 .. Len(listed) /\ j # i
      BY <2>t, <2>1 DEF Last
    <3>2. listed[j].dev = listed[i].dev
      BY <2>2, <3>1 DEF Filled
    <3> QED BY <2>t, <3>1, <3>2 DEF Typed, Distinct
  <2>4. FirstSlot(conn, listed[i].dev) = i
    BY <2>1, <2>2, <2>3, FirstHit DEF Filled
  <2> QED BY <2>1, <2>2, <2>4 DEF Filled
<1> QED BY <1>1, InitHolds, NextHolds, PTL DEF Spec
-----------------------------------------------------------------------------
(* Type correctness.  The parser of types is like that of connections; of   *)
(* the RX task the invariant says which of its locals it may use when.      *)

TypedSlots == [Slots -> [dev : Switches \cup {None}, routes : Routes, freed : BOOLEAN]]

ParserTyped ==
  /\ pushes \in 0 .. MaxPushes
  /\ conn \in TypedSlots
  /\ btypes \in [Slots -> [dev : Switches \cup {None}, types : ButtonTypes]]
  /\ pairs \in Seq(Pairs) /\ Len(pairs) <= MaxPairs
  /\ mq # Idle => mq.stage \in 1 .. 3
  /\ mq.kind = "button_types" =>
       /\ mq.todo \in Seq(TypeEntries) /\ mq.slot \in Nat \ {0}
       /\ Len(mq.todo) >= 1 /\ mq.slot + Len(mq.todo) - 1 <= MaxNodes

RxLocals ==
  [pc : Labels, ev : Events \cup {AnyEvent}, type : {-1, 0, 1}, again : BOOLEAN,
   ts : Seq(Targets), slot : 0 .. MaxNodes, j : Nat, target : Places \cup {AnyTarget}]

RouterTyped ==
  /\ known \subseteq Devices /\ Cardinality(known) <= MaxNodes
  /\ rx \in RxLocals
  /\ dangling \in BOOLEAN /\ touched \in BOOLEAN
  /\ sent \in Seq(Commands) /\ lost \subseteq 1 .. Len(sent)
  /\ rx.pc # "idle" => rx.ev \in Events
  /\ rx.pc \in {"loop", "send"} => rx.slot \in Slots /\ rx.j >= 1
  /\ rx.pc \in {"blind", "send"} => rx.target \in Places

TypeInv == TableInv /\ ParserTyped /\ RouterTyped
-----------------------------------------------------------------------------
(* EventsRouted.  A slot is freed only while the parser of connections is   *)
(* in it, and the parser is idle throughout an event that is not touched;   *)
(* then the locals of the RX task say what the tables say, and what it has  *)
(* sent are the commands for the targets it has passed.                     *)

FreedInside == \A i \in Slots : conn[i].freed => Locked /\ mq.slot = i /\ mq.stage = 2

\* What the tables say of the event being handled: the type of its button, its slot
\* and targets, the targets that are tested for blind pairs, the output of the pair,
\* the commands for the first n targets, and all it is for.
Type == TypeOf(rx.ev)
Place == FirstSlot(conn, rx.ev.dev)
Wired == RoutesOf(rx.ev)
Tested == FirstOf(Wired, MaxRoutes)
BlindTarget == PairTarget(FirstPair(Tested), rx.ev.long)
Cmds == CommandsTo(Wired, Form(Type, rx.ev.state))
Due == Expected(rx.ev)

\* A press of a momentary button, and the release of one that drives a blind; every
\* other event goes straight to route_button_to_relays.
Press == Type = 0 /\ rx.ev.state = 1
Blind == Type = 0 /\ rx.ev.state = 0 /\ Hits(Tested) # {}

Progress ==
  /\ rx.pc \in {"type", "copy", "pair", "blind", "find"} => sent = <<>>
  /\ rx.pc = "type" => ~rx.again
  /\ rx.pc \in {"copy", "pair"} => rx.type = Type /\ (rx.again => Blind)
  /\ rx.pc = "pair" => rx.ts = Tested
  /\ rx.pc = "blind" => Blind /\ rx.target = BlindTarget
  /\ rx.pc \in {"find", "loop", "send"} => ~Press /\ ~Blind
  /\ rx.pc \in {"loop", "send"} =>
       rx.slot = Place /\ rx.j <= Len(Wired) + 1 /\ sent = Cmds[rx.j - 1]
  /\ rx.pc = "send" =>
       rx.j <= Len(Wired) /\ rx.target = Wired[rx.j] /\ rx.target.relay \in known
  /\ rx.pc = "done" => sent = Due

RouteInv ==
  /\ FreedInside
  /\ dangling => touched /\ rx.pc = "send"
  /\ rx.pc # "idle" /\ ~touched => mq = Idle /\ Progress
  /\ rx.pc = "idle" => sent = <<>>
  /\ touched => rx.pc # "idle"

RouterInv == TypeInv /\ RouteInv
-----------------------------------------------------------------------------
(* Numbers: the least of a set of them, and what holds of all of them *)

LEMMA LeastNumber ==
  ASSUME NEW S \in SUBSET Nat, S # {}
  PROVE  \E m \in S : \A k \in S : m <= k
<1> DEFINE R == OpToRel(<, Nat)
<1>1. IsWellFoundedOn(R, Nat)
  BY NatLessThanWellFounded
<1>2. \A x, y \in Nat : x < y => <<x, y>> \in R
  BY DEF OpToRel
<1> HIDE DEF R
<1>3. PICK m \in S : \A k \in S : ~(<<k, m>> \in R)
  BY <1>1, WFMin, Zenon
<1>4. ASSUME NEW k \in S PROVE m <= k
  <2>1. k \in Nat /\ m \in Nat /\ ~(k < m)
    BY <1>2, <1>3
  <2> QED BY <2>1
<1> QED BY <1>4

LEMMA AllNumbers ==
  ASSUME NEW S \in SUBSET Nat, 0 \in S, \A n \in S : n + 1 \in S
  PROVE  S = Nat
<1>1. SUFFICES ASSUME Nat \ S # {} PROVE FALSE
  OBVIOUS
<1>2. PICK m \in Nat \ S : \A k \in Nat \ S : m <= k
  BY <1>1, LeastNumber
<1>3. m - 1 \in Nat /\ m - 1 \notin S /\ m - 1 < m
  BY <1>2
<1> QED BY <1>2, <1>3
-----------------------------------------------------------------------------
(* The lookups *)

\* A device is found in a slot that holds it, or nowhere.
LEMMA FoundSlot ==
  ASSUME NEW table, NEW d
  PROVE  \/ FirstSlot(table, d) = 0
         \/ FirstSlot(table, d) \in Slots /\ table[FirstSlot(table, d)].dev = d
<1> DEFINE held == {i \in Slots : table[i].dev = d}
<1>1. CASE held = {}
  BY <1>1 DEF FirstSlot
<1>2. CASE held # {}
  <2>1. held \in SUBSET Nat
    BY Constants
  <2>2. \E m \in held : \A k \in held : m <= k
    BY <1>2, <2>1, LeastNumber
  <2>3. (CHOOSE i \in held : \A j \in held : i <= j) \in held
    BY <2>2
  <2> QED BY <1>2, <2>3 DEF FirstSlot
<1> QED BY <1>1, <1>2

\* The two loops over targets and pairs find a pair when there is one to find.
LEMMA FoundPair ==
  ASSUME NEW ts \in Seq(Targets), pairs \in Seq(Pairs), Hits(ts) # {}
  PROVE  FirstPair(ts) \in Pairs
<1> DEFINE first(h) == \A g \in Hits(ts) : h[1] < g[1] \/ (h[1] = g[1] /\ h[2] <= g[2])
<1>1. Len(ts) \in Nat /\ Len(pairs) \in Nat
  OBVIOUS
<1>2. \A h \in Hits(ts) : h[1] \in Nat /\ h[2] \in 1 .. Len(pairs) /\ h[2] \in Nat
                          /\ h = <<h[1], h[2]>>
  BY <1>1 DEF Hits
<1>3. PICK t \in {h[1] : h \in Hits(ts)} : \A k \in {h[1] : h \in Hits(ts)} : t <= k
  BY <1>2, LeastNumber
<1> DEFINE second == {h[2] : h \in {g \in Hits(ts) : g[1] = t}}
<1>4. PICK p \in second : \A k \in second : p <= k
  <2>1. second \in SUBSET Nat /\ second # {}
    BY <1>2, <1>3
  <2> HIDE DEF second
  <2> QED BY <2>1, LeastNumber
<1>5. PICK h \in Hits(ts) : h[1] = t /\ h[2] = p
  BY <1>4
<1>6. first(h)
  <2> SUFFICES ASSUME NEW g \in Hits(ts) PROVE h[1] < g[1] \/ (h[1] = g[1] /\ h[2] <= g[2])
    OBVIOUS
  <2>1. h[1] <= g[1]
    BY <1>3, <1>5
  <2>2. g[1] = t => h[2] <= g[2]
    BY <1>4, <1>5
  <2> QED BY <1>2, <1>5, <2>1, <2>2
<1> DEFINE c == CHOOSE x \in Hits(ts) : first(x)
<1>7. c \in Hits(ts)
  BY <1>5, <1>6
<1>8. FirstPair(ts) = pairs[c[2]]
  BY DEF FirstPair
<1> HIDE DEF c
<1>9. c[2] \in 1 .. Len(pairs)
  BY <1>2, <1>7
<1> QED BY <1>8, <1>9, ElementOfSeq

\* The recursion of CommandsTo is one: there is such a function.
LEMMA CommandsRec ==
  ASSUME NEW S, NEW ts \in Seq(S), NEW form
  PROVE  CommandsTo(ts, form) =
           [n \in 0 .. Len(ts) |->
              IF n = 0 THEN <<>>
              ELSE IF ts[n].relay \in known
                   THEN Append(CommandsTo(ts, form)[n - 1], Command(ts[n], form))
                   ELSE CommandsTo(ts, form)[n - 1]]
<1> DEFINE B(g, m) == [n \in 0 .. m |->
                         IF n = 0 THEN <<>>
                         ELSE IF ts[n].relay \in known
                              THEN Append(g[n - 1], Command(ts[n], form))
                              ELSE g[n - 1]]
           P == {m \in Nat : \E g : g = B(g, m)}
<1>1. 0 \in P
  <2> DEFINE g == [n \in 0 .. 0 |-> <<>>]
  <2>1. g = B(g, 0)
    OBVIOUS
  <2> QED BY <2>1
<1>2. ASSUME NEW m \in P PROVE m + 1 \in P
  <2>1. PICK g : g = B(g, m)
    BY <1>2
  <2> DEFINE h == [n \in 0 .. m + 1 |->
                     IF n <= m THEN g[n]
                     ELSE IF ts[n].relay \in known
                          THEN Append(g[n - 1], Command(ts[n], form)) ELSE g[n - 1]]
  <2>2. \A n \in 0 .. m + 1 : h[n] = B(h, m + 1)[n]
    <3> SUFFICES ASSUME NEW n \in 0 .. m + 1 PROVE h[n] = B(h, m + 1)[n]
      OBVIOUS
    <3>1. CASE n = 0
      BY <1>2, <2>1, <3>1
    <3>2. CASE n # 0
      <4>1. n - 1 \in 0 .. m /\ h[n - 1] = g[n - 1]
        BY <1>2, <3>2
      <4>2. n <= m => g[n] = B(g, m)[n]
        BY <2>1
      <4>3. n <= m => g[n] = IF ts[n].relay \in known
                             THEN Append(g[n - 1], Command(ts[n], form)) ELSE g[n - 1]
        BY <1>2, <3>2, <4>2
      <4> QED BY <1>2, <3>2, <4>1, <4>3
    <3> QED BY <3>1, <3>2
  <2>3. h = B(h, m + 1)
    BY <2>2
  <2> HIDE DEF h, B
  <2>4. (\E g_1 : g_1 = B(g_1, m + 1)) /\ m + 1 \in Nat
    BY <1>2, <2>3
  <2> QED BY <2>4
<1>3. P = Nat
  <2> HIDE DEF P
  <2>1. P \in SUBSET Nat
    BY DEF P
  <2> QED BY <1>1, <1>2, <2>1, AllNumbers
<1>4. \E g : g = B(g, Len(ts))
  <2>1. Len(ts) \in P
    BY <1>3
  <2> HIDE DEF B
  <2> QED BY <2>1
<1>5. CommandsTo(ts, form) = CHOOSE g : g = B(g, Len(ts))
  BY DEF CommandsTo
<1> QED BY <1>4, <1>5
-----------------------------------------------------------------------------
(* The parsers stay within their slots *)

LEMMA ParserState ==
  ASSUME TableInv, ParserTyped
  PROVE  \/ mq = Idle
         \/ /\ mq.kind = "connections" /\ mq.slot \in Slots /\ mq.todo \in Seq(ConnEntries)
            /\ Len(mq.todo) >= 1 /\ mq.stage \in 1 .. 3 /\ mq # Idle /\ ParsesConns
         \/ /\ mq.kind = "button_types" /\ mq.slot \in Slots /\ mq.todo \in Seq(TypeEntries)
            /\ Len(mq.todo) >= 1 /\ mq.stage \in 1 .. 3 /\ mq # Idle
            /\ \E T : mq \in [kind : {"button_types"}, todo : T, slot : Nat, stage : Nat]
<1>t. Typed /\ Parsing
  BY DEF TableInv
<1>l. Last \in Nat /\ Last <= MaxNodes /\ MaxNodes \in Nat /\ Slots = 1 .. MaxNodes
  BY <1>t, LastSlot, Constants
<1>1. CASE ParsesConns
  <2>1. /\ mq.kind = "connections" /\ mq.slot \in Nat \ {0} /\ mq.todo \in Seq(ConnEntries)
        /\ Locked /\ Len(mq.todo) \in Nat
    BY <1>1, LockHolder DEF ParsesConns
  <2>2. mq.slot <= Last /\ Len(mq.todo) = Last - mq.slot + 1
    BY <1>t, <2>1 DEF Parsing
  <2>3. mq # Idle
    BY <2>1 DEF Idle
  <2>4. mq.slot \in Slots /\ Len(mq.todo) >= 1
    BY <1>l, <2>1, <2>2
  <2> QED BY <1>1, <2>1, <2>3, <2>4 DEF ParserTyped
<1>2. CASE ParsesTypes
  <2>1. mq.kind = "button_types" /\ mq # Idle
    BY <1>2, LockHolder DEF Idle
  <2>2. /\ mq.todo \in Seq(TypeEntries) /\ mq.slot \in Nat \ {0} /\ mq.stage \in 1 .. 3
        /\ Len(mq.todo) >= 1 /\ mq.slot + Len(mq.todo) - 1 <= MaxNodes
    BY <2>1 DEF ParserTyped
  <2>3. Len(mq.todo) \in Nat
    BY <2>2
  <2>4. mq.slot \in Slots
    BY <1>l, <2>2, <2>3
  <2> QED BY <1>2, <2>1, <2>2, <2>4 DEF ParsesTypes
<1> QED BY <1>t, <1>1, <1>2 DEF Typed

LEMMA EmptyEntries ==
  /\ EmptySlot \in [dev : Switches \cup {None}, routes : Routes, freed : BOOLEAN]
  /\ EmptyTypes \in [dev : Switches \cup {None}, types : ButtonTypes]
<1>1. NoRoutes \in Routes
  BY DEF NoRoutes, Routes
<1>2. NoTypes \in ButtonTypes
  BY DEF NoTypes, ButtonTypes
<1> QED BY <1>1, <1>2 DEF EmptySlot, EmptyTypes

LEMMA InitParser == Init => ParserTyped
<1> SUFFICES ASSUME Init PROVE ParserTyped
  OBVIOUS
<1>1. conn \in TypedSlots
  BY EmptyEntries DEF Init, TablesInit, TypedSlots
<1>2. btypes \in [Slots -> [dev : Switches \cup {None}, types : ButtonTypes]]
  BY EmptyEntries DEF Init, TablesInit
<1>3. pushes \in 0 .. MaxPushes /\ pairs \in Seq(Pairs) /\ Len(pairs) <= MaxPairs
  BY TablesAssumption, EmptySeq DEF Init, TablesInit
<1>4. mq = Idle /\ mq.kind # "button_types"
  BY DEF Init, TablesInit, Idle
<1> QED BY <1>1, <1>2, <1>3, <1>4 DEF ParserTyped

LEMMA BackendParser ==
  ASSUME ParserTyped, Backend
  PROVE  ParserTyped'
<1>1. UNCHANGED <<conn, btypes, pairs, mq>>
  BY DEF Backend, EditDatabase, PushAll, PushUpdate, PushTypes, Publish
<1>2. pushes' = pushes \/ (pushes < MaxPushes /\ pushes' = pushes + 1)
  BY DEF Backend, EditDatabase, PushAll, PushUpdate, PushTypes, Publish
<1>3. pushes' \in 0 .. MaxPushes
  BY <1>2, TablesAssumption DEF ParserTyped
<1> QED BY <1>1, <1>3 DEF ParserTyped, TypedSlots

LEMMA RefuseParser ==
  ASSUME ParserTyped, RefuseMessage
  PROVE  ParserTyped'
<1>1. UNCHANGED <<pushes, conn, btypes, pairs, mq>>
  BY DEF RefuseMessage
<1> QED BY <1>1 DEF ParserTyped, TypedSlots

LEMMA TakeParser ==
  ASSUME TableInv, ParserTyped, TakeMessage
  PROVE  ParserTyped'
<1>1. /\ inbox # <<>> /\ UNCHANGED <<pushes, conn, btypes>>
      /\ pairs' = IF Head(inbox).kind = "blind_pairs" THEN FirstOf(Head(inbox).entries, MaxPairs)
                  ELSE pairs
      /\ mq' = IF Head(inbox).kind = "blind_pairs" THEN Idle ELSE Begin(Head(inbox))
  BY DEF TakeMessage
<1>2. Head(inbox) \in Messages
  <2>1. inbox \in Seq(Messages)
    BY DEF TableInv, Typed
  <2> QED BY <1>1, <2>1, HeadTailProperties, EmptySeq
<1> DEFINE m == Head(inbox)
<1>3. pairs' \in Seq(Pairs) /\ Len(pairs') <= MaxPairs
  <2>1. CASE Head(inbox).kind # "blind_pairs"
    BY <1>1, <2>1 DEF ParserTyped
  <2>2. CASE Head(inbox).kind = "blind_pairs"
    <3>1. Head(inbox).entries \in Seq(Pairs)
      BY <1>2, <2>2 DEF Messages, ConnMessages, TypesMessages, PairsMessages
    <3>2. MaxPairs \in Nat
      BY TablesAssumption
    <3>3. /\ FirstOf(Head(inbox).entries, MaxPairs) \in Seq(Pairs)
          /\ Len(FirstOf(Head(inbox).entries, MaxPairs)) =
               IF Len(Head(inbox).entries) < MaxPairs THEN Len(Head(inbox).entries) ELSE MaxPairs
      BY <3>1, <3>2, Prefix
    <3>4. Len(Head(inbox).entries) \in Nat
      BY <3>1
    <3>5. pairs' = FirstOf(Head(inbox).entries, MaxPairs)
      BY <1>1, <2>2
    <3> QED BY <3>2, <3>3, <3>4, <3>5
  <2> QED BY <2>1, <2>2
<1>4. mq' = Idle \/ (mq' = [kind |-> m.kind, todo |-> FirstOf(m.entries, MaxNodes),
                            slot |-> 1, stage |-> 1] /\ m.kind # "blind_pairs" /\ m.entries # <<>>)
  BY <1>1 DEF Begin
<1>5. CASE mq' = Idle
  <2>1. mq'.kind # "button_types"
    BY <1>5 DEF Idle
  <2> QED BY <1>1, <1>3, <1>5, <2>1 DEF ParserTyped, TypedSlots
<1>6. CASE mq' = [kind |-> m.kind, todo |-> FirstOf(m.entries, MaxNodes),
                  slot |-> 1, stage |-> 1] /\ m.entries # <<>>
  <2>1. mq'.stage = 1 /\ mq'.slot = 1 /\ mq'.kind = m.kind
        /\ mq'.todo = FirstOf(m.entries, MaxNodes)
    BY <1>6
  <2>2. m.kind = "button_types" =>
          /\ mq'.todo \in Seq(TypeEntries) /\ mq'.slot \in Nat \ {0}
          /\ Len(mq'.todo) >= 1 /\ mq'.slot + Len(mq'.todo) - 1 <= MaxNodes
    <3> SUFFICES ASSUME m.kind = "button_types"
                 PROVE  /\ mq'.todo \in Seq(TypeEntries)
                        /\ Len(mq'.todo) >= 1 /\ Len(mq'.todo) <= MaxNodes
      <4>1. mq'.todo \in Seq(TypeEntries) => Len(mq'.todo) \in Nat
        OBVIOUS
      <4> QED BY <2>1, <4>1, Constants
    <3>1. m.entries \in Seq(TypeEntries)
      BY <1>2 DEF Messages, ConnMessages, TypesMessages, PairsMessages
    <3> HIDE DEF m
    <3>2. Len(m.entries) \in Nat /\ Len(m.entries) # 0
      BY <1>6, <3>1, EmptySeq
    <3>3. /\ FirstOf(m.entries, MaxNodes) \in Seq(TypeEntries)
          /\ Len(FirstOf(m.entries, MaxNodes)) =
               IF Len(m.entries) < MaxNodes THEN Len(m.entries) ELSE MaxNodes
      BY <3>1, Constants, Prefix
    <3> QED BY <2>1, <3>2, <3>3, Constants
  <2> HIDE DEF m
  <2> QED BY <1>1, <1>3, <2>1, <2>2 DEF ParserTyped, TypedSlots
<1> QED BY <1>4, <1>5, <1>6

LEMMA ConnParser ==
  ASSUME TableInv, ParserTyped, ConnFree \/ ConnClear \/ ConnFill
  PROVE  ParserTyped'
<1>1. /\ mq.kind = "connections" /\ UNCHANGED <<pushes, btypes, pairs>>
  BY DEF ConnFree, ConnClear, ConnFill, At
<1>2. /\ mq.slot \in Slots /\ mq.todo \in Seq(ConnEntries) /\ Len(mq.todo) >= 1
      /\ mq.stage \in 1 .. 3
      /\ mq \in [kind : {"connections"}, todo : Seq(ConnEntries), slot : Nat \ {0}, stage : Nat]
  <2>1. mq # Idle
    BY <1>1 DEF Idle
  <2> QED BY <1>1, <2>1, ParserState DEF ParsesConns
<1>c. conn \in TypedSlots
  BY DEF ParserTyped
<1>3. conn' \in TypedSlots
  <2>1. CASE ConnFree
    <3>1. conn' = [conn EXCEPT ![mq.slot] = [conn[mq.slot] EXCEPT !.freed = TRUE]]
      BY <2>1 DEF ConnFree
    <3> QED BY <1>2, <1>c, <3>1 DEF TypedSlots
  <2>2. CASE ConnClear
    BY <1>2, <1>c, <2>2, EmptyEntries DEF ConnClear, TypedSlots
  <2>3. CASE ConnFill
    <3>1. Head(mq.todo) \in ConnEntries
      <4>1. mq.todo # <<>>
        BY <1>2, EmptySeq
      <4> QED BY <1>2, <4>1, HeadTailProperties
    <3>2. [dev |-> Head(mq.todo).dev, routes |-> Head(mq.todo).routes, freed |-> FALSE]
            \in [dev : Switches \cup {None}, routes : Routes, freed : BOOLEAN]
      BY <3>1 DEF ConnEntries
    <3> QED BY <1>2, <1>c, <2>3, <3>2 DEF ConnFill, TypedSlots
  <2> QED BY <2>1, <2>2, <2>3
<1>4. mq' = Idle \/ (mq'.kind = "connections" /\ mq'.stage \in 1 .. 3)
  <2>1. CASE ConnFree \/ ConnClear
    <3>1. mq' = [mq EXCEPT !.stage = mq.stage + 1] /\ mq.stage \in 1 .. 2
      BY <2>1 DEF ConnFree, ConnClear, NextStage, At
    <3> QED BY <1>1, <1>2, <3>1
  <2>2. CASE ConnFill
    BY <1>1, <1>2, <2>2 DEF ConnFill, NextEntry
  <2> QED BY <2>1, <2>2
<1>5. mq'.kind # "button_types" /\ (mq' # Idle => mq'.stage \in 1 .. 3)
  BY <1>4 DEF Idle
<1> QED BY <1>1, <1>3, <1>5 DEF ParserTyped

LEMMA TypesParser ==
  ASSUME TableInv, ParserTyped, TypesClear \/ TypesName \/ TypesFill
  PROVE  ParserTyped'
<1>1. mq.kind = "button_types" /\ UNCHANGED <<pushes, conn, pairs>>
  BY DEF TypesClear, TypesName, TypesFill, At
<1>2. /\ mq.slot \in Slots /\ mq.todo \in Seq(TypeEntries) /\ Len(mq.todo) >= 1
      /\ mq.stage \in 1 .. 3 /\ mq.slot + Len(mq.todo) - 1 <= MaxNodes
      /\ Len(mq.todo) \in Nat /\ mq.slot \in Nat \ {0} /\ MaxNodes \in Nat
  <2>1. mq # Idle
    BY <1>1 DEF Idle
  <2>2. /\ mq.slot \in Slots /\ mq.todo \in Seq(TypeEntries) /\ Len(mq.todo) >= 1
        /\ mq.stage \in 1 .. 3
    BY <1>1, <2>1, ParserState
  <2> QED BY <1>1, <2>2, Constants DEF ParserTyped
<1>3. PICK T : mq \in [kind : {"button_types"}, todo : T, slot : Nat, stage : Nat]
  <2>1. mq # Idle
    BY <1>1 DEF Idle
  <2> QED BY <1>1, <2>1, ParserState
<1>h. /\ Head(mq.todo) \in TypeEntries /\ Tail(mq.todo) \in Seq(TypeEntries)
      /\ Len(Tail(mq.todo)) = Len(mq.todo) - 1
  <2>1. mq.todo # <<>>
    BY <1>2, EmptySeq
  <2> QED BY <1>2, <2>1, HeadTailProperties
<1>b. btypes \in [Slots -> [dev : Switches \cup {None}, types : ButtonTypes]]
  BY DEF ParserTyped
<1>4. btypes' \in [Slots -> [dev : Switches \cup {None}, types : ButtonTypes]]
  <2>1. CASE TypesClear
    BY <1>2, <1>b, <2>1, EmptyEntries DEF TypesClear
  <2>2. CASE TypesName
    <3>1. Head(mq.todo).dev \in Switches
      BY <1>h DEF TypeEntries
    <3> QED BY <1>2, <1>b, <2>2, <3>1 DEF TypesName
  <2>3. CASE TypesFill
    <3>1. Head(mq.todo).types \in ButtonTypes
      BY <1>h DEF TypeEntries
    <3> QED BY <1>2, <1>b, <2>3, <3>1 DEF TypesFill
  <2> QED BY <2>1, <2>2, <2>3
<1>5. \/ mq' = Idle
      \/ /\ mq'.kind = "button_types" /\ mq'.stage \in 1 .. 3
         /\ mq'.todo \in Seq(TypeEntries) /\ mq'.slot \in Nat \ {0}
         /\ Len(mq'.todo) >= 1 /\ mq'.slot + Len(mq'.todo) - 1 <= MaxNodes
  <2>1. CASE TypesClear \/ TypesName
    <3>1. mq' = [mq EXCEPT !.stage = mq.stage + 1] /\ mq.stage \in 1 .. 2
      BY <2>1 DEF TypesClear, TypesName, NextStage, At
    <3>2. /\ mq'.kind = mq.kind /\ mq'.todo = mq.todo /\ mq'.slot = mq.slot
          /\ mq'.stage \in 1 .. 3
      BY <1>3, <3>1
    <3> QED BY <1>1, <1>2, <3>2
  <2>2. CASE TypesFill
    <3>1. CASE Len(mq.todo) = 1
      BY <2>2, <3>1 DEF TypesFill, NextEntry
    <3>2. CASE Len(mq.todo) # 1
      <4>1. mq' = [mq EXCEPT !.todo = Tail(mq.todo), !.slot = mq.slot + 1, !.stage = 1]
        BY <2>2, <3>2 DEF TypesFill, NextEntry
      <4>2. /\ mq'.kind = mq.kind /\ mq'.todo = Tail(mq.todo) /\ mq'.slot = mq.slot + 1
            /\ mq'.stage = 1
        BY <1>3, <4>1
      <4>3. mq.slot + 1 \in Nat \ {0} /\ Len(mq.todo) - 1 >= 1
            /\ mq.slot + 1 + (Len(mq.todo) - 1) - 1 <= MaxNodes
        <5>1. \A s, l \in Nat : l >= 1 /\ l # 1 /\ s + l - 1 <= MaxNodes =>
                 s + 1 \in Nat \ {0} /\ l - 1 >= 1 /\ s + 1 + (l - 1) - 1 <= MaxNodes
          BY Constants
        <5>2. mq.slot \in Nat /\ Len(mq.todo) \in Nat
          BY <1>2
        <5> QED BY <1>2, <3>2, <5>1, <5>2
      <4>4. Len(mq'.todo) = Len(mq.todo) - 1 /\ mq'.todo \in Seq(TypeEntries)
        BY <1>h, <4>2
      <4>5. mq'.slot + Len(mq'.todo) - 1 <= MaxNodes /\ Len(mq'.todo) >= 1
        BY <4>2, <4>3, <4>4
      <4> QED BY <1>1, <4>2, <4>3, <4>4, <4>5
    <3> QED BY <3>1, <3>2
  <2> QED BY <2>1, <2>2
<1>6. mq' = Idle => mq'.kind # "button_types"
  BY DEF Idle
<1> QED BY <1>1, <1>4, <1>5, <1>6 DEF ParserTyped, TypedSlots
-----------------------------------------------------------------------------
(* The RX task keeps its types *)

LEMMA EventFacts ==
  ASSUME NEW ev \in Events
  PROVE  ev.dev \in Switches /\ ev.button \in Buttons /\ ev.state \in {0, 1}
         /\ ev.long \in BOOLEAN /\ ev.dev # None /\ ev.dev \in Devices
  BY TablesAssumption, RouterAssumption DEF Events

LEMMA LookupTypes ==
  ASSUME ParserTyped, NEW ev \in Events
  PROVE  TypeOf(ev) \in {-1, 0, 1} /\ RoutesOf(ev) \in Seq(Targets)
<1>1. TypeOf(ev) \in {-1, 0, 1}
  <2> DEFINE s == FirstSlot(btypes, ev.dev)
  <2>1. s = 0 \/ s \in Slots
    BY FoundSlot
  <2>2. TypeOf(ev) = IF s = 0 THEN -1 ELSE btypes[s].types[ev.button]
    BY DEF TypeOf
  <2> HIDE DEF s
  <2>3. s \in Slots => btypes[s].types \in ButtonTypes
    BY DEF ParserTyped
  <2>4. s \in Slots => btypes[s].types[ev.button] \in {0, 1}
    BY <2>3, EventFacts DEF ButtonTypes
  <2> QED BY <2>1, <2>2, <2>4
<1>2. RoutesOf(ev) \in Seq(Targets)
  <2> DEFINE s == FirstSlot(conn, ev.dev)
  <2>1. s = 0 \/ s \in Slots
    BY FoundSlot
  <2>2. RoutesOf(ev) = IF s = 0 THEN <<>> ELSE conn[s].routes[ev.button]
    BY DEF RoutesOf
  <2> HIDE DEF s
  <2>3. s \in Slots => conn[s].routes \in Routes
    BY DEF ParserTyped, TypedSlots
  <2>4. s \in Slots => conn[s].routes[ev.button] \in Seq(Targets)
    BY <2>3, EventFacts DEF Routes
  <2> QED BY <2>1, <2>2, <2>4
<1> QED BY <1>1, <1>2

LEMMA TestedType ==
  ASSUME NEW ts \in Seq(Targets)
  PROVE  FirstOf(ts, MaxRoutes) \in Seq(Targets)
  BY Prefix, RouterAssumption

LEMMA IdleLocals ==
  /\ RxIdle \in RxLocals
  /\ \A l \in Labels, e \in Events : [RxIdle EXCEPT !.pc = l, !.ev = e] \in RxLocals
<1>1. 0 \in 0 .. MaxNodes /\ 1 \in Nat /\ "idle" \in Labels /\ <<>> \in Seq(Targets)
  BY Constants DEF Labels
<1>2. RxIdle \in RxLocals
  BY <1>1 DEF RxIdle, RxLocals
<1>3. ASSUME NEW l \in Labels, NEW e \in Events
      PROVE  [RxIdle EXCEPT !.pc = l, !.ev = e] \in RxLocals
  BY <1>2 DEF RxLocals
<1> QED BY <1>2, <1>3

LEMMA RegisterType ==
  ASSUME known \subseteq Devices, Cardinality(known) <= MaxNodes, NEW d \in Devices
  PROVE  Register(d) \subseteq Devices /\ Cardinality(Register(d)) <= MaxNodes
<1>1. IsFiniteSet(known) /\ Cardinality(known) \in Nat /\ MaxNodes \in Nat
  BY RouterAssumption, Constants, FS_Subset, FS_CardinalityType
<1>2. CASE d \in known
  <2>1. known \cup {d} = known
    BY <1>2
  <2> QED BY <1>2, <2>1 DEF Register
<1>3. CASE d \notin known /\ Cardinality(known) < MaxNodes
  <2>1. Cardinality(known \cup {d}) = Cardinality(known) + 1
    BY <1>1, <1>3, FS_AddElement
  <2> QED BY <1>1, <1>3, <2>1 DEF Register
<1>4. CASE d \notin known /\ ~(Cardinality(known) < MaxNodes)
  BY <1>4 DEF Register
<1> QED BY <1>2, <1>3, <1>4

LEMMA CommandType ==
  ASSUME NEW t \in Places, NEW form \in {"toggle", "on", "off"}
  PROVE  Command(t, form) \in Commands
  BY DEF Command, Commands, Places, Outputs

\* A command is queued or lost.
LEMMA QueueType ==
  ASSUME RouterTyped, NEW c \in Commands, QueueCommand(c)
  PROVE  sent' \in Seq(Commands) /\ lost' \subseteq 1 .. Len(sent')
<1>1. sent \in Seq(Commands) /\ Len(sent) \in Nat /\ lost \subseteq 1 .. Len(sent)
  BY DEF RouterTyped
<1>2. sent' \in Seq(Commands) /\ Len(sent') = Len(sent) + 1
  BY <1>1, AppendProperties DEF QueueCommand
<1>3. lost' = lost \/ lost' = lost \cup {Len(sent) + 1}
  BY DEF QueueCommand
<1>4. ASSUME NEW i \in lost' PROVE i \in 1 .. Len(sent')
  <2>1. i \in 1 .. Len(sent) \/ i = Len(sent) + 1
    BY <1>1, <1>3, <1>4
  <2> QED BY <1>1, <1>2, <2>1
<1> QED BY <1>2, <1>4

LEMMA FormType ==
  ASSUME NEW type, NEW state
  PROVE  Form(type, state) \in {"toggle", "on", "off"}
  BY DEF Form

LEMMA InitRouter == Init => RouterTyped
<1> SUFFICES ASSUME Init PROVE RouterTyped
  OBVIOUS
<1>1. known = {} /\ Cardinality(known) = 0
  BY FS_EmptySet DEF Init
<1>2. rx \in RxLocals /\ rx.pc = "idle"
  BY IdleLocals DEF Init, RxIdle
<1>3. sent = <<>> /\ lost = {} /\ dangling = FALSE /\ touched = FALSE
  BY DEF Init
<1>4. {} \subseteq Devices /\ 0 <= MaxNodes /\ sent \in Seq(Commands)
  BY <1>3, Constants
<1> QED BY <1>1, <1>2, <1>3, <1>4 DEF RouterTyped

LEMMA ReturnType ==
  ASSUME rx.ev \in Events, Return
  PROVE  rx' \in RxLocals /\ rx'.pc = "done" /\ rx'.ev \in Events
<1>1. rx' = [RxIdle EXCEPT !.pc = "done", !.ev = rx.ev]
  BY DEF Return
<1>2. rx'.pc = "done" /\ rx'.ev = rx.ev
  BY <1>1 DEF RxIdle
<1> QED BY <1>1, <1>2, IdleLocals DEF Labels

\* A step of the RX task before it sends anything.
LEMMA LookTyped ==
  ASSUME ParserTyped, RouterTyped, ReadType \/ CopyTargets \/ CheckPairs \/ CheckPairsAgain
  PROVE  RouterTyped'
<1>1. /\ UNCHANGED <<known, dangling, sent, lost, touched>>
      /\ rx \in RxLocals /\ rx.ev \in Events
  BY DEF ReadType, CopyTargets, CheckPairs, CheckPairsAgain, RouterTyped
<1>2. /\ rx' \in RxLocals /\ rx'.ev \in Events /\ rx'.pc \notin {"loop", "send"}
      /\ rx'.pc = "blind" => rx'.target \in Places
  <2>1. CASE ReadType
    <3>1. TypeOf(rx.ev) \in {-1, 0, 1} /\ "copy" \in Labels
      BY <1>1, LookupTypes DEF Labels
    <3>2. rx' = [rx EXCEPT !.type = TypeOf(rx.ev), !.pc = "copy"]
      BY <2>1 DEF ReadType
    <3> QED BY <1>1, <3>1, <3>2 DEF RxLocals
  <2>2. CASE CopyTargets
    <3>1. FirstOf(RoutesOf(rx.ev), MaxRoutes) \in Seq(Targets) /\ "pair" \in Labels
      BY <1>1, LookupTypes, TestedType DEF Labels
    <3>2. rx' = [rx EXCEPT !.ts = FirstOf(RoutesOf(rx.ev), MaxRoutes), !.pc = "pair"]
      BY <2>2 DEF CopyTargets
    <3> QED BY <1>1, <3>1, <3>2 DEF RxLocals
  <2>3. CASE CheckPairs
    <3>1. \/ Return
          \/ rx' = [rx EXCEPT !.pc = "copy", !.again = TRUE]
          \/ rx' = [RxIdle EXCEPT !.pc = "find", !.ev = rx.ev]
      BY <2>3 DEF CheckPairs
    <3>2. CASE Return
      BY <1>1, <3>2, ReturnType
    <3>3. CASE rx' = [rx EXCEPT !.pc = "copy", !.again = TRUE]
      BY <1>1, <3>3 DEF RxLocals, Labels
    <3>4. CASE rx' = [RxIdle EXCEPT !.pc = "find", !.ev = rx.ev]
      <4>1. rx'.pc = "find" /\ rx'.ev = rx.ev
        BY <3>4 DEF RxIdle
      <4> QED BY <1>1, <3>4, <4>1, IdleLocals DEF Labels
    <3> QED BY <3>1, <3>2, <3>3, <3>4
  <2>4. CASE CheckPairsAgain
    <3>1. CASE Return
      BY <1>1, <3>1, ReturnType
    <3>2. CASE /\ Hits(rx.ts) # {}
               /\ rx' = [rx EXCEPT !.pc = "blind",
                                   !.target = PairTarget(FirstPair(rx.ts), rx.ev.long)]
      <4>1. FirstPair(rx.ts) \in Pairs
        <5>1. rx.ts \in Seq(Targets) /\ pairs \in Seq(Pairs)
          BY <1>1 DEF RxLocals, ParserTyped
        <5> QED BY <3>2, <5>1, FoundPair
      <4>2. PairTarget(FirstPair(rx.ts), rx.ev.long) \in Places
        BY <4>1 DEF PairTarget, Pairs, Places
      <4> QED BY <1>1, <3>2, <4>2 DEF RxLocals, Labels
    <3> QED BY <2>4, <3>1, <3>2 DEF CheckPairsAgain
  <2> QED BY <2>1, <2>2, <2>3, <2>4
<1> QED BY <1>1, <1>2 DEF RouterTyped

LEMMA SendTyped ==
  ASSUME ParserTyped, RouterTyped, BlindSend \/ RouteFind \/ RouteTarget \/ RouteSend \/ Finish
  PROVE  RouterTyped'
<1>1. /\ UNCHANGED known /\ rx \in RxLocals /\ rx.ev \in Events /\ sent \in Seq(Commands)
      /\ rx.slot \in 0 .. MaxNodes /\ rx.j \in Nat
  BY DEF BlindSend, RouteFind, RouteTarget, RouteSend, Finish, RouterTyped, RxLocals
<1>2. CASE BlindSend
  <2>1. Return /\ UNCHANGED <<known, dangling, touched>> /\ rx.target \in Places
    BY <1>2 DEF BlindSend, RouterTyped
  <2>2. rx' \in RxLocals /\ rx'.pc = "done" /\ rx'.ev \in Events
    BY <1>1, <2>1, ReturnType
  <2>3. Command(rx.target, "toggle") \in Commands
    BY <2>1, CommandType
  <2>4. UNCHANGED <<sent, lost>> \/ QueueCommand(Command(rx.target, "toggle"))
    BY <1>2 DEF BlindSend
  <2>5. sent' \in Seq(Commands) /\ lost' \subseteq 1 .. Len(sent')
    BY <2>3, <2>4, QueueType DEF RouterTyped
  <2> QED BY <2>1, <2>2, <2>5 DEF RouterTyped
<1>3. CASE RouteFind
  <2> DEFINE s == FirstSlot(conn, rx.ev.dev)
  <2>1. /\ UNCHANGED <<known, dangling, touched, sent, lost>>
        /\ IF s = 0 THEN Return ELSE rx' = [rx EXCEPT !.pc = "loop", !.slot = s, !.j = 1]
    BY <1>3 DEF RouteFind
  <2>2. s = 0 \/ s \in Slots
    BY FoundSlot
  <2> HIDE DEF s
  <2>3. rx' \in RxLocals /\ rx'.pc \notin {"blind", "send"} /\ rx'.ev \in Events
        /\ (rx'.pc = "loop" => rx'.slot \in Slots /\ rx'.j >= 1)
    <3>1. CASE s = 0
      BY <1>1, <2>1, <3>1, ReturnType
    <3>2. CASE s \in Slots /\ s # 0
      <4>1. s \in 0 .. MaxNodes
        BY <3>2, Constants
      <4>2. rx' = [rx EXCEPT !.pc = "loop", !.slot = s, !.j = 1]
        BY <2>1, <3>2
      <4>3. rx'.pc = "loop" /\ rx'.slot = s /\ rx'.j = 1 /\ rx'.ev = rx.ev
        BY <1>1, <4>2 DEF RxLocals
      <4>4. rx' \in RxLocals
        BY <1>1, <4>1, <4>2 DEF RxLocals, Labels
      <4> QED BY <1>1, <3>2, <4>3, <4>4
    <3> QED BY <2>2, <3>1, <3>2
  <2> QED BY <2>1, <2>3 DEF RouterTyped
<1>4. CASE RouteTarget
  <2>1. UNCHANGED <<known, sent, lost, touched>> /\ rx.slot \in Slots /\ rx.j >= 1
    BY <1>4 DEF RouteTarget, RouterTyped
  <2>2. CASE Return /\ UNCHANGED dangling
    <3>1. rx' \in RxLocals /\ rx'.pc = "done" /\ rx'.ev \in Events
      BY <1>1, <2>2, ReturnType
    <3> QED BY <2>1, <2>2, <3>1 DEF RouterTyped
  <2>3. CASE rx.j <= Len(Slot.routes[rx.ev.button])
    <3>0. /\ Slot.routes[rx.ev.button] \in Seq(Targets) /\ Slot.freed \in BOOLEAN
      <4>1. Slot.routes \in Routes /\ Slot.freed \in BOOLEAN
        BY <2>1 DEF Slot, ParserTyped, TypedSlots
      <4> QED BY <1>1, <4>1, EventFacts DEF Routes
    <3>1. PICK t \in IF Slot.freed THEN Targets ELSE {Slot.routes[rx.ev.button][rx.j]} :
            \/ rx' = [rx EXCEPT !.pc = "send", !.target = t] /\ dangling' = Slot.freed
            \/ rx' = [rx EXCEPT !.j = @ + 1] /\ UNCHANGED dangling
      <4>1. ~(rx.j > Len(Slot.routes[rx.ev.button]))
        BY <1>1, <2>3, <3>0
      <4> QED BY <1>4, <4>1 DEF RouteTarget
    <3>2. Slot.routes[rx.ev.button][rx.j] \in Targets
      <4>1. rx.j \in 1 .. Len(Slot.routes[rx.ev.button])
        BY <1>1, <2>1, <2>3, <3>0
      <4> QED BY <3>0, <4>1, ElementOfSeq
    <3>3. t \in Places
      BY <3>1, <3>2, TablesAssumption
    <3>4. CASE rx' = [rx EXCEPT !.pc = "send", !.target = t] /\ dangling' = Slot.freed
      <4>1. /\ rx' \in RxLocals /\ rx'.ev = rx.ev /\ rx'.pc = "send" /\ rx'.target = t
            /\ rx'.slot = rx.slot /\ rx'.j = rx.j
        BY <1>1, <3>3, <3>4 DEF RxLocals, Labels
      <4> QED BY <1>1, <2>1, <3>0, <3>3, <3>4, <4>1 DEF RouterTyped
    <3>5. CASE rx' = [rx EXCEPT !.j = @ + 1] /\ UNCHANGED dangling
      <4>1. rx.j + 1 \in Nat /\ rx.j + 1 >= 1
        BY <1>1
      <4>2. /\ rx' \in RxLocals /\ rx'.ev = rx.ev /\ rx'.pc = rx.pc
            /\ rx'.slot = rx.slot /\ rx'.j = rx.j + 1
        BY <1>1, <3>5, <4>1 DEF RxLocals
      <4>3. rx.pc = "loop"
        BY <1>4 DEF RouteTarget
      <4> QED BY <1>1, <2>1, <3>5, <4>1, <4>2, <4>3 DEF RouterTyped
    <3> QED BY <3>1, <3>4, <3>5
  <2>4. Len(Slot.routes[rx.ev.button]) \in Int
    <3>1. Slot.routes \in Routes
      BY <2>1 DEF Slot, ParserTyped, TypedSlots
    <3>2. Slot.routes[rx.ev.button] \in Seq(Targets)
      BY <1>1, <3>1, EventFacts DEF Routes
    <3> QED BY <3>2
  <2>5. \/ Return /\ UNCHANGED dangling
        \/ rx.j <= Len(Slot.routes[rx.ev.button])
    <3>1. rx.j > Len(Slot.routes[rx.ev.button]) => Return /\ UNCHANGED dangling
      BY <1>4 DEF RouteTarget
    <3>2. rx.j \in Int
      BY <1>1
    <3>3. \A n, l \in Int : n > l \/ n <= l
      OBVIOUS
    <3> QED BY <2>4, <3>1, <3>2, <3>3
  <2> QED BY <2>2, <2>3, <2>5
<1>5. CASE RouteSend
  <2>1. /\ UNCHANGED <<known, touched>> /\ dangling' = FALSE /\ rx.target \in Places
        /\ rx.slot \in Slots
        /\ rx' = [rx EXCEPT !.pc = "loop", !.j = @ + 1, !.target = AnyTarget]
    BY <1>5 DEF RouteSend, RouterTyped
  <2>2. PICK o \in IF dangling THEN Outputs ELSE {rx.target.out} :
          QueueCommand(Command([rx.target EXCEPT !.out = o], Form(TypeOf(rx.ev), rx.ev.state)))
    BY <1>5 DEF RouteSend
  <2>3. [rx.target EXCEPT !.out = o] \in Places
    BY <2>1, <2>2 DEF Places, Outputs
  <2>c. Command([rx.target EXCEPT !.out = o], Form(TypeOf(rx.ev), rx.ev.state)) \in Commands
    BY <2>3, FormType, CommandType
  <2>4. sent' \in Seq(Commands) /\ lost' \subseteq 1 .. Len(sent')
    BY <2>2, <2>c, QueueType
  <2>5. rx.j + 1 \in Nat /\ rx.j + 1 >= 1
    BY <1>1
  <2>6. /\ rx' \in RxLocals /\ rx'.pc = "loop" /\ rx'.ev = rx.ev /\ rx'.slot = rx.slot
        /\ rx'.j = rx.j + 1
    BY <1>1, <2>1, <2>5 DEF RxLocals, Labels
  <2> QED BY <1>1, <2>1, <2>4, <2>5, <2>6 DEF RouterTyped
<1>6. CASE Finish
  <2>1. UNCHANGED <<known, dangling>> /\ rx' = RxIdle /\ sent' = <<>> /\ lost' = {}
        /\ touched' = FALSE
    BY <1>6 DEF Finish
  <2>2. rx' \in RxLocals /\ rx'.pc = "idle"
    BY <2>1, IdleLocals DEF RxIdle
  <2>3. sent' \in Seq(Commands) /\ lost' \subseteq 1 .. Len(sent')
    BY <2>1
  <2> QED BY <2>1, <2>2, <2>3 DEF RouterTyped
<1> QED BY <1>2, <1>3, <1>4, <1>5, <1>6

LEMMA HearTyped ==
  ASSUME RouterTyped, (\E d \in Devices : Hear(d)) \/ (\E ev \in Events : Receive(ev))
  PROVE  RouterTyped'
<1>1. ASSUME NEW d \in Devices, Hear(d) PROVE RouterTyped'
  <2>1. known' = Register(d) /\ UNCHANGED <<rx, dangling, sent, lost, touched>>
    BY <1>1 DEF Hear
  <2> QED BY <2>1, RegisterType DEF RouterTyped
<1>2. ASSUME NEW ev \in Events, Receive(ev) PROVE RouterTyped'
  <2>1. /\ known' = Register(ev.dev) /\ UNCHANGED <<dangling, sent, lost>>
        /\ rx' = [RxIdle EXCEPT !.pc = "type", !.ev = ev] /\ touched' \in BOOLEAN
    BY <1>2 DEF Receive
  <2>2. rx' \in RxLocals /\ rx'.pc = "type" /\ rx'.ev = ev
    <3>1. rx' \in RxLocals
      BY <2>1, IdleLocals DEF Labels
    <3> QED BY <2>1, <3>1 DEF RxIdle
  <2>3. known' \subseteq Devices /\ Cardinality(known') <= MaxNodes
    BY <2>1, RegisterType, EventFacts DEF RouterTyped
  <2> QED BY <2>1, <2>2, <2>3 DEF RouterTyped
<1> QED BY <1>1, <1>2

LEMMA TypeStep == TypeInv /\ [Next]_vars => TypeInv'
<1> SUFFICES ASSUME TypeInv, [Next]_vars PROVE TypeInv'
  OBVIOUS
<1>0. TableInv /\ ParserTyped /\ RouterTyped /\ TableInv'
  BY NextHolds DEF TypeInv
<1>1. ASSUME Backend \/ MqttTask, Disturb PROVE TypeInv'
  <2>1. ParserTyped'
    BY <1>0, <1>1, BackendParser, TakeParser, RefuseParser, ConnParser, TypesParser
       DEF MqttTask
  <2>2. UNCHANGED <<known, rx, sent, lost>> /\ touched' \in BOOLEAN /\ dangling' \in BOOLEAN
    BY <1>1 DEF Disturb
  <2>3. RouterTyped'
    BY <1>0, <2>2 DEF RouterTyped
  <2> QED BY <1>0, <2>1, <2>3 DEF TypeInv
<1>2. ASSUME UNCHANGED tablesVars, RouterTyped' PROVE TypeInv'
  <2>1. ParserTyped'
    BY <1>0, <1>2 DEF tablesVars, ParserTyped, TypedSlots
  <2> QED BY <1>0, <1>2, <2>1 DEF TypeInv
<1>3. CASE RxTask
  <2>1. UNCHANGED tablesVars
    BY <1>3 DEF RxTask, ReadType, CopyTargets, CheckPairs, CheckPairsAgain, BlindSend,
       RouteFind, RouteTarget, RouteSend, Finish
  <2> QED BY <1>0, <1>2, <1>3, <2>1, LookTyped, SendTyped DEF RxTask
<1>4. CASE (\E d \in Devices : Hear(d)) \/ (\E ev \in Events : Receive(ev))
  <2>1. UNCHANGED tablesVars
    BY <1>4 DEF Hear, Receive
  <2> QED BY <1>0, <1>2, <1>4, <2>1, HearTyped
<1>5. CASE UNCHANGED vars
  <2>1. RouterTyped'
    BY <1>0, <1>5 DEF vars, rxVars, RouterTyped
  <2> QED BY <1>2, <1>5, <2>1 DEF vars
<1> QED BY <1>1, <1>3, <1>4, <1>5 DEF Next

LEMMA TypesHold == Spec => []TypeInv
<1>1. Init => TypeInv
  BY InitHolds, InitParser, InitRouter DEF TypeInv
<1> QED BY <1>1, TypeStep, PTL DEF Spec

\* Tables, events, routes and commands keep their types, the registry and the parsers
\* stay within MAX_NODES, for any databases, events, switches and numbers of slots.
THEOREM RouterTypes == Spec => []TypeOK
<1>1. TypeInv => TypeOK
  <2> SUFFICES ASSUME TypeInv PROVE TypeOK
    OBVIOUS
  <2>1. TableInv /\ ParserTyped /\ RouterTyped
    BY DEF TypeInv
  <2>2. mq = Idle \/ (mq.slot \in Slots /\ mq.stage \in 1 .. 3 /\ mq.todo # <<>>)
    <3>1. ASSUME NEW S, mq.todo \in Seq(S), Len(mq.todo) >= 1 PROVE mq.todo # <<>>
      BY <3>1, EmptySeq
    <3> QED BY <2>1, <3>1, ParserState
  <2>3. TablesTypeOK
    BY <2>1, <2>2 DEF TableInv, Typed, ParserTyped, TypedSlots, TablesTypeOK
  <2> QED BY <2>1, <2>3 DEF RouterTyped, RxLocals, TypeOK
<1> QED BY <1>1, TypesHold, PTL
-----------------------------------------------------------------------------
(* What an event is for *)

\* It stays the same while the tables and the registry do.
LEMMA EventSame ==
  ASSUME UNCHANGED <<tables, known>>, rx'.ev = rx.ev
  PROVE  /\ UNCHANGED <<Type, Place, Wired, Tested, BlindTarget, Cmds, Due>>
         /\ (Press' <=> Press) /\ (Blind' <=> Blind)
<1>1. conn' = conn /\ btypes' = btypes /\ pairs' = pairs /\ known' = known
  BY DEF tables
<1>2. Type' = Type
  BY <1>1 DEF Type, TypeOf, FirstSlot
<1>3. Place' = Place
  BY <1>1 DEF Place, FirstSlot
<1>4. Wired' = Wired
  BY <1>1 DEF Wired, RoutesOf, FirstSlot
<1>5. Tested' = Tested /\ Hits(Tested)' = Hits(Tested)
  BY <1>1, <1>4 DEF Tested, Hits, HitsPair, FirstOf
<1>6. BlindTarget' = BlindTarget
  BY <1>1, <1>5 DEF BlindTarget, FirstPair, PairTarget, Hits, HitsPair
<1>7. Cmds' = Cmds
  BY <1>1, <1>2, <1>4 DEF Cmds, CommandsTo, Form, Command
<1>8. Due' = Due
  BY <1>1 DEF Due, Expected, Commanded, CommandsTo, Form, Command, TypeOf, RoutesOf, FirstSlot,
     FirstPair, PairTarget, Hits, HitsPair, FirstOf
<1>9. (Press' <=> Press) /\ (Blind' <=> Blind)
  BY <1>2, <1>5 DEF Press, Blind
<1> QED BY <1>2, <1>3, <1>4, <1>5, <1>6, <1>7, <1>8, <1>9

\* A press of a momentary button is for nothing.
LEMMA DuePress == Press => Due = <<>>
  BY DEF Press, Due, Expected, Type

\* The release of one that drives a blind is for one output of its pair.
LEMMA DueBlind ==
  ASSUME Blind
  PROVE  Due = IF BlindTarget.relay \in known
               THEN Append(<<>>, Command(BlindTarget, "toggle")) ELSE <<>>
<1> DEFINE ts == <<BlindTarget>>
<1>1. Due = CommandsTo(ts, "toggle")[1]
  <2>1. Due = Commanded(ts, "toggle")
    BY DEF Blind, Due, Expected, Type, BlindTarget, Tested, Wired
  <2> QED BY <2>1 DEF Commanded
<1>2. ts \in Seq({BlindTarget}) /\ Len(ts) = 1 /\ ts[1] = BlindTarget
  OBVIOUS
<1> HIDE DEF ts
<1> DEFINE cs == CommandsTo(ts, "toggle")
<1>3. cs = [n \in 0 .. Len(ts) |->
              IF n = 0 THEN <<>>
              ELSE IF ts[n].relay \in known
                   THEN Append(cs[n - 1], Command(ts[n], "toggle"))
                   ELSE cs[n - 1]]
  BY <1>2, CommandsRec
<1> HIDE DEF cs
<1>4. cs[0] = <<>> /\ cs[1] = IF BlindTarget.relay \in known
                              THEN Append(cs[0], Command(BlindTarget, "toggle")) ELSE cs[0]
  BY <1>2, <1>3
<1> QED BY <1>1, <1>4 DEF cs

\* Every other event is for all targets of its button.
LEMMA DueOther == ~Press /\ ~Blind => Due = Cmds[Len(Wired)]
  BY DEF Press, Blind, Due, Expected, Commanded, Cmds, Type, Tested, Wired

LEMMA CommandStep ==
  ASSUME Wired \in Seq(Targets)
  PROVE  /\ Cmds[0] = <<>>
         /\ \A n \in 1 .. Len(Wired) :
              Cmds[n] = IF Wired[n].relay \in known
                        THEN Append(Cmds[n - 1], Command(Wired[n], Form(Type, rx.ev.state)))
                        ELSE Cmds[n - 1]
<1> DEFINE form == Form(Type, rx.ev.state)
<1> HIDE DEF form
<1>1. CommandsTo(Wired, form) =
        [n \in 0 .. Len(Wired) |->
           IF n = 0 THEN <<>>
           ELSE IF Wired[n].relay \in known
                THEN Append(CommandsTo(Wired, form)[n - 1], Command(Wired[n], form))
                ELSE CommandsTo(Wired, form)[n - 1]]
  BY CommandsRec, Zenon
<1>2. Cmds = CommandsTo(Wired, form) /\ Len(Wired) \in Nat
  BY DEF Cmds, form
<1>3. Cmds = [n \in 0 .. Len(Wired) |->
                IF n = 0 THEN <<>>
                ELSE IF Wired[n].relay \in known
                     THEN Append(Cmds[n - 1], Command(Wired[n], form)) ELSE Cmds[n - 1]]
  BY <1>1, <1>2
<1>4. Cmds[0] = <<>>
  BY <1>2, <1>3
<1>5. \A n \in 1 .. Len(Wired) :
        Cmds[n] = IF Wired[n].relay \in known
                  THEN Append(Cmds[n - 1], Command(Wired[n], form)) ELSE Cmds[n - 1]
  <2> SUFFICES ASSUME NEW n \in 1 .. Len(Wired)
               PROVE  Cmds[n] = IF Wired[n].relay \in known
                                THEN Append(Cmds[n - 1], Command(Wired[n], form))
                                ELSE Cmds[n - 1]
    OBVIOUS
  <2>1. n \in 0 .. Len(Wired) /\ n # 0
    BY <1>2
  <2> QED BY <1>3, <2>1
<1> QED BY <1>4, <1>5 DEF form

\* The slot that was found holds the targets of the button.
LEMMA WiredSlot ==
  /\ Place = 0 => Wired = <<>>
  /\ Place # 0 => Wired = conn[Place].routes[rx.ev.button]
  BY DEF Place, Wired, RoutesOf
-----------------------------------------------------------------------------
(* The MQTT task disturbs only an event that is touched *)

LEMMA FreedHolds ==
  ASSUME TableInv, ParserTyped, FreedInside, Backend \/ MqttTask
  PROVE  FreedInside'
<1>c. conn \in TypedSlots
  BY DEF ParserTyped
<1>1. CASE Backend
  BY <1>1 DEF Backend, EditDatabase, PushAll, PushUpdate, PushTypes, Publish, FreedInside, Locked
<1>2. CASE TakeMessage \/ RefuseMessage
  <2>1. mq = Idle /\ conn' = conn
    BY <1>2 DEF TakeMessage, RefuseMessage
  <2>2. \A i \in Slots : ~conn[i].freed
    BY <2>1 DEF FreedInside, Locked, Idle
  <2> QED BY <2>1, <2>2 DEF FreedInside
<1>3. CASE TypesClear \/ TypesName \/ TypesFill
  <2>1. mq.kind = "button_types" /\ conn' = conn
    BY <1>3 DEF TypesClear, TypesName, TypesFill, At
  <2>2. \A i \in Slots : ~conn[i].freed
    BY <2>1 DEF FreedInside, Locked
  <2> QED BY <2>1, <2>2 DEF FreedInside
<1>4. CASE ConnFree
  <2>1. /\ mq.kind = "connections" /\ mq.stage = 1
        /\ conn' = [conn EXCEPT ![mq.slot] = [conn[mq.slot] EXCEPT !.freed = TRUE]]
        /\ mq' = [mq EXCEPT !.stage = mq.stage + 1]
    BY <1>4 DEF ConnFree, At, NextStage
  <2>2. \A i \in Slots : ~conn[i].freed
    BY <2>1 DEF FreedInside
  <2>3. mq.slot \in Slots /\ mq \in [kind : {"connections"}, todo : Seq(ConnEntries),
                                     slot : Nat \ {0}, stage : Nat]
    <3>1. mq # Idle
      BY <2>1 DEF Idle
    <3> QED BY <2>1, <3>1, ParserState DEF ParsesConns
  <2>4. mq'.kind = "connections" /\ mq'.slot = mq.slot /\ mq'.stage = 2
    BY <2>1, <2>3
  <2>5. \A i \in Slots : i # mq.slot => conn'[i] = conn[i]
    BY <2>1, <1>c DEF TypedSlots
  <2> QED BY <2>2, <2>4, <2>5 DEF FreedInside, Locked
<1>5. CASE ConnClear \/ ConnFill
  <2>1. mq.slot \in Slots
    <3>1. mq.kind = "connections"
      BY <1>5 DEF ConnClear, ConnFill, At
    <3>2. mq # Idle
      BY <3>1 DEF Idle
    <3> QED BY <3>1, <3>2, ParserState
  <2>2. /\ \A i \in Slots : i # mq.slot => conn'[i] = conn[i]
        /\ conn'[mq.slot].freed = FALSE
    BY <1>5, <1>c, <2>1 DEF ConnClear, ConnFill, EmptySlot, TypedSlots
  <2>3. \A i \in Slots : ~conn'[i].freed
    BY <2>2 DEF FreedInside
  <2> QED BY <2>3 DEF FreedInside
<1> QED BY <1>1, <1>2, <1>3, <1>4, <1>5 DEF MqttTask

\* A table that is at rest has no freed slot.
LEMMA NoneFreed == FreedInside /\ mq = Idle => \A i \in Slots : ~conn[i].freed
  BY DEF FreedInside, Locked, Idle

LEMMA DisturbRoute ==
  ASSUME TypeInv, RouteInv, Backend \/ MqttTask, Disturb
  PROVE  RouteInv'
<1>1. /\ UNCHANGED <<known, rx, sent>>
      /\ touched' = (rx.pc # "idle" /\ (touched \/ ~UNCHANGED <<tables, mq>>))
      /\ dangling' = (rx.pc = "send" /\ (dangling \/ conn'[rx.slot].freed))
  BY DEF Disturb
<1>2. FreedInside'
  BY FreedHolds DEF TypeInv, RouteInv
<1>3. ASSUME rx.pc # "idle", ~touched'
      PROVE  ~touched /\ UNCHANGED <<tables, mq, known, rx, sent>> /\ mq = Idle /\ Progress
  <2>1. ~touched /\ UNCHANGED <<tables, mq>>
    BY <1>1, <1>3
  <2> QED BY <1>1, <1>3, <2>1 DEF RouteInv
<1>4. dangling' => touched' /\ rx'.pc = "send"
  <2> SUFFICES ASSUME dangling', ~touched' PROVE FALSE
    BY <1>1
  <2>1. rx.pc = "send" /\ (dangling \/ conn'[rx.slot].freed)
    BY <1>1
  <2>2. ~touched /\ conn' = conn /\ mq = Idle
    BY <1>3, <2>1 DEF tables
  <2>3. ~dangling
    BY <2>2 DEF RouteInv
  <2>4. rx.slot \in Slots
    BY <2>1 DEF TypeInv, RouterTyped
  <2> QED BY <2>1, <2>2, <2>3, <2>4, NoneFreed DEF RouteInv
<1>5. ASSUME rx'.pc # "idle", ~touched' PROVE mq' = Idle /\ Progress'
  <2>1. UNCHANGED <<tables, mq, known, rx, sent>> /\ mq = Idle /\ Progress
    BY <1>1, <1>3, <1>5
  <2>2. /\ UNCHANGED <<Type, Place, Wired, Tested, BlindTarget, Cmds, Due>>
        /\ (Press' <=> Press) /\ (Blind' <=> Blind)
    BY <2>1, EventSame
  <2> QED BY <2>1, <2>2 DEF Progress
<1> QED BY <1>1, <1>2, <1>4, <1>5 DEF RouteInv
-----------------------------------------------------------------------------
(* The RX task follows the tables when nothing touches them *)

\* What every step of an event has to go on.
Quiet == TypeInv /\ RouteInv /\ rx.pc # "idle" /\ ~touched

LEMMA QuietFacts ==
  ASSUME Quiet
  PROVE  /\ mq = Idle /\ Progress /\ ~dangling /\ rx \in RxLocals /\ rx.ev \in Events
         /\ Type \in {-1, 0, 1} /\ Wired \in Seq(Targets) /\ Len(Wired) \in Nat
         /\ \A i \in Slots : ~conn[i].freed
<1>1. rx \in RxLocals /\ rx.ev \in Events
  BY DEF Quiet, TypeInv, RouterTyped
<1>2. mq = Idle /\ Progress /\ ~dangling
  BY DEF Quiet, RouteInv
<1>3. Type \in {-1, 0, 1} /\ Wired \in Seq(Targets)
  BY <1>1, LookupTypes DEF Type, Wired, Quiet, TypeInv
<1>4. \A i \in Slots : ~conn[i].freed
  BY <1>2, NoneFreed DEF Quiet, RouteInv
<1> QED BY <1>1, <1>2, <1>3, <1>4

\* A step that changes only the locals leaves what the event is for as it was.
LEMMA StepSame ==
  ASSUME UNCHANGED <<tablesVars, known>>, rx'.ev = rx.ev
  PROVE  /\ UNCHANGED <<Type, Place, Wired, Tested, BlindTarget, Cmds, Due>>
         /\ (Press' <=> Press) /\ (Blind' <=> Blind)
<1>1. UNCHANGED <<tables, known>>
  BY DEF tablesVars, tables
<1> QED BY <1>1, EventSame

LEMMA LookProgress ==
  ASSUME Quiet, ReadType \/ CopyTargets \/ CheckPairs \/ CheckPairsAgain
  PROVE  Progress'
<1>1. /\ UNCHANGED <<tablesVars, known, sent>> /\ Progress /\ rx \in RxLocals
      /\ Type \in {-1, 0, 1}
  BY QuietFacts DEF ReadType, CopyTargets, CheckPairs, CheckPairsAgain
<1>s. ASSUME rx'.ev = rx.ev
      PROVE  /\ UNCHANGED <<Type, Place, Wired, Tested, BlindTarget, Cmds, Due>>
             /\ (Press' <=> Press) /\ (Blind' <=> Blind)
  BY <1>1, <1>s, StepSame
<1>d. ASSUME Return, sent = Due PROVE Progress'
  <2>1. rx'.pc = "done" /\ rx'.ev = rx.ev
    BY <1>d DEF Return, RxIdle
  <2> QED BY <1>1, <1>s, <1>d, <2>1 DEF Progress
<1>2. CASE ReadType
  <2>1. rx.pc = "type" /\ rx' = [rx EXCEPT !.type = Type, !.pc = "copy"]
    BY <1>2 DEF ReadType, Type
  <2>2. rx'.pc = "copy" /\ rx'.ev = rx.ev /\ rx'.type = Type /\ rx'.again = rx.again
    BY <1>1, <2>1 DEF RxLocals
  <2>3. sent = <<>> /\ ~rx.again
    BY <1>1, <2>1 DEF Progress
  <2> QED BY <1>1, <1>s, <2>2, <2>3 DEF Progress
<1>3. CASE CopyTargets
  <2>1. rx.pc = "copy" /\ rx' = [rx EXCEPT !.ts = Tested, !.pc = "pair"]
    BY <1>3 DEF CopyTargets, Tested, Wired
  <2>2. /\ rx'.pc = "pair" /\ rx'.ev = rx.ev /\ rx'.type = rx.type /\ rx'.again = rx.again
        /\ rx'.ts = Tested
    BY <1>1, <2>1 DEF RxLocals
  <2>3. sent = <<>> /\ rx.type = Type /\ (rx.again => Blind)
    BY <1>1, <2>1 DEF Progress
  <2> QED BY <1>1, <1>s, <2>2, <2>3 DEF Progress
<1>4. CASE CheckPairs
  <2>1. rx.pc = "pair" /\ sent = <<>> /\ rx.type = Type /\ rx.ts = Tested
    BY <1>1, <1>4 DEF CheckPairs, Progress
  <2>2. \/ Press /\ Return
        \/ Blind /\ rx' = [rx EXCEPT !.pc = "copy", !.again = TRUE]
        \/ ~Press /\ ~Blind /\ rx' = [RxIdle EXCEPT !.pc = "find", !.ev = rx.ev]
    BY <1>4, <2>1 DEF CheckPairs, Press, Blind
  <2>3. CASE Press /\ Return
    BY <1>d, <2>1, <2>3, DuePress
  <2>4. CASE Blind /\ rx' = [rx EXCEPT !.pc = "copy", !.again = TRUE]
    <3>1. rx'.pc = "copy" /\ rx'.ev = rx.ev /\ rx'.type = rx.type
      BY <1>1, <2>4 DEF RxLocals
    <3> QED BY <1>1, <1>s, <2>1, <2>4, <3>1 DEF Progress
  <2>5. CASE ~Press /\ ~Blind /\ rx' = [RxIdle EXCEPT !.pc = "find", !.ev = rx.ev]
    <3>1. rx'.pc = "find" /\ rx'.ev = rx.ev
      BY <2>5 DEF RxIdle
    <3> QED BY <1>1, <1>s, <2>1, <2>5, <3>1 DEF Progress
  <2> QED BY <2>2, <2>3, <2>4, <2>5
<1>5. CASE CheckPairsAgain
  <2>1. rx.pc = "pair" /\ sent = <<>> /\ rx.type = Type /\ rx.ts = Tested /\ Blind
    BY <1>1, <1>5 DEF CheckPairsAgain, Progress
  <2>2. Hits(rx.ts) # {}
    BY <2>1 DEF Blind
  <2>3. rx' = [rx EXCEPT !.pc = "blind", !.target = BlindTarget]
    BY <1>5, <2>1, <2>2 DEF CheckPairsAgain, BlindTarget
  <2>4. rx'.pc = "blind" /\ rx'.ev = rx.ev /\ rx'.target = BlindTarget
    BY <1>1, <2>3 DEF RxLocals
  <2> QED BY <1>1, <1>s, <2>1, <2>4 DEF Progress
<1> QED BY <1>2, <1>3, <1>4, <1>5

LEMMA SendProgress ==
  ASSUME Quiet, BlindSend \/ RouteFind \/ RouteTarget \/ RouteSend
  PROVE  Progress' /\ ~dangling'
<1>1. /\ UNCHANGED <<tablesVars, known>> /\ Progress /\ rx \in RxLocals /\ rx.ev \in Events
      /\ Wired \in Seq(Targets) /\ Len(Wired) \in Nat /\ ~dangling
      /\ rx.j \in Nat
  BY QuietFacts DEF BlindSend, RouteFind, RouteTarget, RouteSend, RxLocals
<1>s. ASSUME rx'.ev = rx.ev
      PROVE  /\ UNCHANGED <<Type, Place, Wired, Tested, BlindTarget, Cmds, Due>>
             /\ (Press' <=> Press) /\ (Blind' <=> Blind)
  BY <1>1, <1>s, StepSame
<1>d. ASSUME Return, sent' = Due PROVE Progress'
  <2>1. rx'.pc = "done" /\ rx'.ev = rx.ev
    BY <1>d DEF Return, RxIdle
  <2> QED BY <1>1, <1>s, <1>d, <2>1 DEF Progress
<1>2. CASE BlindSend
  <2>1. Blind /\ rx.target = BlindTarget /\ sent = <<>>
    BY <1>1, <1>2 DEF BlindSend, Progress
  <2>2. /\ sent' = IF rx.target.relay \in known
                   THEN Append(sent, Command(rx.target, "toggle")) ELSE sent
        /\ Return /\ UNCHANGED dangling
    BY <1>2 DEF BlindSend, QueueCommand
  <2>3. sent' = Due
    BY <2>1, <2>2, DueBlind
  <2> QED BY <1>1, <1>d, <2>2, <2>3
<1>3. CASE RouteFind
  <2>1. ~Press /\ ~Blind /\ sent = <<>> /\ sent' = sent /\ UNCHANGED dangling
    BY <1>1, <1>3 DEF RouteFind, Progress
  <2>2. IF Place = 0 THEN Return ELSE rx' = [rx EXCEPT !.pc = "loop", !.slot = Place, !.j = 1]
    BY <1>3 DEF RouteFind, Place
  <2>3. CASE Place = 0
    <3>1. Wired = <<>> /\ Len(Wired) = 0
      BY <2>3, WiredSlot
    <3>2. Due = <<>>
      BY <1>1, <2>1, <3>1, DueOther, CommandStep
    <3> QED BY <1>1, <1>d, <2>1, <2>2, <2>3, <3>2
  <2>4. CASE Place # 0
    <3>1. rx' = [rx EXCEPT !.pc = "loop", !.slot = Place, !.j = 1]
      BY <2>2, <2>4
    <3>2. rx'.pc = "loop" /\ rx'.ev = rx.ev /\ rx'.slot = Place /\ rx'.j = 1
      BY <1>1, <3>1 DEF RxLocals
    <3>3. sent = Cmds[1 - 1] /\ 1 <= Len(Wired) + 1
      BY <1>1, <2>1, CommandStep
    <3>s. /\ UNCHANGED <<Type, Place, Wired, Tested, BlindTarget, Cmds, Due>>
          /\ (Press' <=> Press) /\ (Blind' <=> Blind)
      BY <1>s, <3>2
    <3> QED BY <1>1, <2>1, <3>s, <3>2, <3>3 DEF Progress
  <2> QED BY <2>3, <2>4
<1>4. CASE RouteTarget
  <2>1. /\ rx.pc = "loop" /\ ~Press /\ ~Blind /\ rx.slot = Place /\ rx.j <= Len(Wired) + 1
        /\ sent = Cmds[rx.j - 1] /\ sent' = sent
    BY <1>1, <1>4 DEF RouteTarget, Progress
  <2>2. Place \in Slots /\ rx.j >= 1 /\ Place # 0
    <3>1. rx.slot \in Slots /\ rx.j >= 1
      BY <2>1 DEF Quiet, TypeInv, RouterTyped
    <3> QED BY <2>1, <3>1, Constants
  <2>3. Slot.routes[rx.ev.button] = Wired /\ ~Slot.freed
    BY <2>1, <2>2, WiredSlot, QuietFacts DEF Slot
  <2>4. IF rx.j > Len(Wired) THEN Return /\ UNCHANGED dangling
        ELSE IF Wired[rx.j].relay \in known
             THEN rx' = [rx EXCEPT !.pc = "send", !.target = Wired[rx.j]] /\ dangling' = FALSE
             ELSE rx' = [rx EXCEPT !.j = @ + 1] /\ UNCHANGED dangling
    <3>1. IF rx.j > Len(Wired) THEN Return /\ UNCHANGED dangling
          ELSE \E t \in {Wired[rx.j]} :
                 IF t.relay \in known
                 THEN rx' = [rx EXCEPT !.pc = "send", !.target = t] /\ dangling' = Slot.freed
                 ELSE rx' = [rx EXCEPT !.j = @ + 1] /\ UNCHANGED dangling
      BY <1>4, <2>3 DEF RouteTarget
    <3>2. Slot.freed = FALSE
      <4>1. Slot.freed \in BOOLEAN
        BY <2>1, <2>2 DEF Slot, Quiet, TypeInv, ParserTyped, TypedSlots
      <4> QED BY <2>3, <4>1
    <3> QED BY <3>1, <3>2
  <2>5. CASE rx.j > Len(Wired)
    <3>1. rx.j - 1 = Len(Wired)
      BY <1>1, <2>1, <2>5
    <3>2. sent' = Due
      BY <2>1, <3>1, DueOther
    <3> QED BY <1>1, <1>d, <2>4, <2>5, <3>2
  <2>6. CASE rx.j <= Len(Wired) /\ Wired[rx.j].relay \in known
    <3>1. rx' = [rx EXCEPT !.pc = "send", !.target = Wired[rx.j]] /\ dangling' = FALSE
      BY <1>1, <2>4, <2>6
    <3>2. /\ rx'.pc = "send" /\ rx'.ev = rx.ev /\ rx'.slot = rx.slot /\ rx'.j = rx.j
          /\ rx'.target = Wired[rx.j]
      BY <1>1, <3>1 DEF RxLocals
    <3>s. /\ UNCHANGED <<Type, Place, Wired, Tested, BlindTarget, Cmds, Due>>
          /\ (Press' <=> Press) /\ (Blind' <=> Blind)
      BY <1>s, <3>2
    <3> QED BY <1>1, <2>1, <2>6, <3>1, <3>s, <3>2 DEF Progress
  <2>7. CASE rx.j <= Len(Wired) /\ Wired[rx.j].relay \notin known
    <3>1. rx' = [rx EXCEPT !.j = rx.j + 1] /\ UNCHANGED dangling
      BY <1>1, <2>4, <2>7
    <3>2. rx'.pc = "loop" /\ rx'.ev = rx.ev /\ rx'.slot = rx.slot /\ rx'.j = rx.j + 1
      BY <1>1, <2>1, <3>1 DEF RxLocals
    <3>3. rx.j \in 1 .. Len(Wired)
      BY <1>1, <2>2, <2>7
    <3>4. Cmds[rx.j] = Cmds[rx.j - 1]
      BY <1>1, <2>7, <3>3, CommandStep
    <3>5. rx.j + 1 <= Len(Wired) + 1 /\ rx.j + 1 - 1 = rx.j
      BY <1>1, <2>7
    <3>s. /\ UNCHANGED <<Type, Place, Wired, Tested, BlindTarget, Cmds, Due>>
          /\ (Press' <=> Press) /\ (Blind' <=> Blind)
      BY <1>s, <3>2
    <3> QED BY <1>1, <2>1, <3>1, <3>2, <3>4, <3>5, <3>s DEF Progress
  <2> QED BY <1>1, <2>5, <2>6, <2>7
<1>5. CASE RouteSend
  <2>1. /\ rx.pc = "send" /\ ~Press /\ ~Blind /\ rx.slot = Place /\ rx.j <= Len(Wired)
        /\ sent = Cmds[rx.j - 1] /\ rx.target = Wired[rx.j] /\ rx.target.relay \in known
    BY <1>1, <1>5 DEF RouteSend, Progress
  <2>2. rx.j \in 1 .. Len(Wired)
    <3>1. rx.j >= 1
      BY <2>1 DEF Quiet, TypeInv, RouterTyped
    <3> QED BY <1>1, <2>1, <3>1
  <2>3. /\ rx' = [rx EXCEPT !.pc = "loop", !.j = rx.j + 1, !.target = AnyTarget]
        /\ dangling' = FALSE
    BY <1>5 DEF RouteSend
  <2>4. sent' = Append(sent, Command(Wired[rx.j], Form(Type, rx.ev.state)))
    <3>1. sent' = Append(sent, Command([rx.target EXCEPT !.out = rx.target.out],
                                       Form(TypeOf(rx.ev), rx.ev.state)))
      BY <1>1, <1>5 DEF RouteSend, QueueCommand
    <3>2. [rx.target EXCEPT !.out = rx.target.out] = rx.target
      <4>1. rx.target \in Places
        BY <2>1 DEF Quiet, TypeInv, RouterTyped
      <4> QED BY <4>1 DEF Places
    <3> QED BY <2>1, <3>1, <3>2 DEF Type
  <2>5. sent' = Cmds[rx.j]
    BY <1>1, <2>1, <2>2, <2>4, CommandStep
  <2>6. rx'.pc = "loop" /\ rx'.ev = rx.ev /\ rx'.slot = rx.slot /\ rx'.j = rx.j + 1
    BY <1>1, <2>3 DEF RxLocals
  <2>7. rx.j + 1 <= Len(Wired) + 1 /\ rx.j + 1 - 1 = rx.j
    BY <1>1, <2>1
  <2>s. /\ UNCHANGED <<Type, Place, Wired, Tested, BlindTarget, Cmds, Due>>
        /\ (Press' <=> Press) /\ (Blind' <=> Blind)
    BY <1>s, <2>6
  <2> QED BY <1>1, <2>1, <2>3, <2>5, <2>6, <2>7, <2>s DEF Progress
<1> QED BY <1>2, <1>3, <1>4, <1>5

\* An event ends only when the task is back at esp_mesh_recv, and the pointer is in
\* use only between its two reads, which are apart only in an event that is touched.
LEMMA StepRoute ==
  ASSUME TypeInv, RouteInv, RxTask, ~Finish
  PROVE  /\ UNCHANGED <<tablesVars, known, touched>> /\ rx.pc # "idle" /\ rx'.pc # "idle"
         /\ (dangling' => touched /\ rx'.pc = "send") /\ (~touched => Progress')
<1>1. UNCHANGED <<tablesVars, known, touched>> /\ rx.pc # "idle" /\ rx \in RxLocals
  BY DEF RxTask, ReadType, CopyTargets, CheckPairs, CheckPairsAgain, BlindSend,
     RouteFind, RouteTarget, RouteSend, TypeInv, RouterTyped
<1>r. Return => rx'.pc = "done"
  BY DEF Return, RxIdle
<1>2. rx'.pc # "idle" /\ (dangling' /\ ~dangling => rx'.pc = "send")
      /\ (dangling' /\ dangling => rx.pc # "send")
  <2>1. CASE ReadType \/ CopyTargets
    <3>1. \/ \E t : rx' = [rx EXCEPT !.type = t, !.pc = "copy"]
          \/ \E s : rx' = [rx EXCEPT !.ts = s, !.pc = "pair"]
      BY <2>1 DEF ReadType, CopyTargets
    <3>2. rx'.pc \in {"copy", "pair"}
      BY <1>1, <3>1 DEF RxLocals
    <3>3. rx.pc # "send" /\ UNCHANGED dangling
      BY <2>1 DEF ReadType, CopyTargets
    <3> QED BY <3>2, <3>3
  <2>2. CASE CheckPairs
    <3>1. \/ Return
          \/ rx' = [rx EXCEPT !.pc = "copy", !.again = TRUE]
          \/ rx' = [RxIdle EXCEPT !.pc = "find", !.ev = rx.ev]
      BY <2>2 DEF CheckPairs
    <3>2. rx'.pc # "idle"
      <4>1. rx' = [rx EXCEPT !.pc = "copy", !.again = TRUE] => rx'.pc = "copy"
        BY <1>1 DEF RxLocals
      <4>2. rx' = [RxIdle EXCEPT !.pc = "find", !.ev = rx.ev] => rx'.pc = "find"
        BY DEF RxIdle
      <4> QED BY <1>r, <3>1, <4>1, <4>2
    <3> QED BY <2>2, <3>2 DEF CheckPairs
  <2>3. CASE CheckPairsAgain
    <3>1. Return \/ \E t : rx' = [rx EXCEPT !.pc = "blind", !.target = t]
      BY <2>3 DEF CheckPairsAgain
    <3>2. rx'.pc # "idle"
      BY <1>1, <1>r, <3>1 DEF RxLocals
    <3> QED BY <2>3, <3>2 DEF CheckPairsAgain
  <2>4. CASE BlindSend
    BY <1>r, <2>4 DEF BlindSend
  <2>5. CASE RouteFind
    BY <1>1, <1>r, <2>5 DEF RouteFind, RxLocals
  <2>6. CASE RouteTarget
    <3>1. \/ Return /\ UNCHANGED dangling
          \/ \E t : rx' = [rx EXCEPT !.pc = "send", !.target = t]
          \/ rx' = [rx EXCEPT !.j = @ + 1] /\ UNCHANGED dangling
      BY <2>6 DEF RouteTarget
    <3>2. rx.pc = "loop"
      BY <2>6 DEF RouteTarget
    <3>3. CASE Return /\ UNCHANGED dangling
      BY <1>r, <3>2, <3>3
    <3>4. CASE \E t : rx' = [rx EXCEPT !.pc = "send", !.target = t]
      <4>1. rx'.pc = "send"
        BY <1>1, <3>4 DEF RxLocals
      <4> QED BY <3>2, <4>1
    <3>5. CASE rx' = [rx EXCEPT !.j = @ + 1] /\ UNCHANGED dangling
      <4>1. rx'.pc = "loop"
        BY <1>1, <3>2, <3>5 DEF RxLocals
      <4> QED BY <3>2, <3>5, <4>1
    <3> QED BY <3>1, <3>3, <3>4, <3>5
  <2>7. CASE RouteSend
    BY <1>1, <2>7 DEF RouteSend, RxLocals
  <2> QED BY <2>1, <2>2, <2>3, <2>4, <2>5, <2>6, <2>7 DEF RxTask
<1>3. ASSUME ~touched PROVE Progress' /\ ~dangling'
  <2>1. Quiet
    BY <1>1, <1>3 DEF Quiet
  <2>2. CASE ReadType \/ CopyTargets \/ CheckPairs \/ CheckPairsAgain
    <3>1. UNCHANGED dangling
      BY <2>2 DEF ReadType, CopyTargets, CheckPairs, CheckPairsAgain
    <3> QED BY <2>1, <2>2, <3>1, LookProgress, QuietFacts
  <2>3. CASE BlindSend \/ RouteFind \/ RouteTarget \/ RouteSend
    BY <2>1, <2>3, SendProgress
  <2> QED BY <2>2, <2>3 DEF RxTask
<1>4. dangling' => rx'.pc = "send"
  <2> SUFFICES ASSUME dangling', dangling PROVE FALSE
    BY <1>2
  <2>1. rx.pc = "send" /\ rx.pc # "send"
    BY <1>2 DEF RouteInv
  <2> QED BY <2>1
<1> QED BY <1>1, <1>2, <1>3, <1>4

LEMMA RxRoute ==
  ASSUME TypeInv, RouteInv, RxTask
  PROVE  RouteInv'
<1>1. CASE ~Finish
  <2>1. /\ UNCHANGED <<tablesVars, known, touched>> /\ rx.pc # "idle" /\ rx'.pc # "idle"
        /\ (dangling' => touched /\ rx'.pc = "send") /\ (~touched => Progress')
    BY <1>1, StepRoute
  <2>2. UNCHANGED <<conn, mq>>
    BY <2>1 DEF tablesVars
  <2> QED BY <2>1, <2>2 DEF RouteInv, FreedInside, Locked
<1>2. CASE Finish
  <2>1. /\ rx.pc = "done" /\ rx' = RxIdle /\ sent' = <<>> /\ touched' = FALSE
        /\ UNCHANGED <<conn, mq, dangling>>
    BY <1>2 DEF Finish, tablesVars
  <2>2. rx'.pc = "idle" /\ ~dangling
    BY <2>1 DEF RxIdle, RouteInv
  <2> QED BY <2>1, <2>2 DEF RouteInv, FreedInside, Locked
<1> QED BY <1>1, <1>2

LEMMA HearRoute ==
  ASSUME TypeInv, RouteInv, (\E d \in Devices : Hear(d)) \/ (\E ev \in Events : Receive(ev))
  PROVE  RouteInv'
<1>0. rx.pc = "idle" /\ ~dangling /\ ~touched /\ sent = <<>>
  BY DEF Hear, Receive, RouteInv
<1>1. CASE \E d \in Devices : Hear(d)
  <2>1. UNCHANGED <<conn, mq, rx, dangling, sent, touched>>
    BY <1>1 DEF Hear, tablesVars
  <2> QED BY <1>0, <2>1 DEF RouteInv, FreedInside, Locked
<1>2. CASE \E ev \in Events : Receive(ev)
  <2>1. PICK ev \in Events : Receive(ev)
    BY <1>2
  <2>2. /\ rx' = [RxIdle EXCEPT !.pc = "type", !.ev = ev] /\ touched' = (mq # Idle)
        /\ UNCHANGED <<conn, mq, dangling, sent>>
    BY <2>1 DEF Receive, tablesVars
  <2>3. rx'.pc = "type" /\ ~rx'.again
    BY <2>2 DEF RxIdle
  <2>4. Progress'
    BY <1>0, <2>2, <2>3 DEF Progress
  <2> QED BY <1>0, <2>2, <2>3, <2>4 DEF RouteInv, FreedInside, Locked
<1> QED BY <1>1, <1>2

LEMMA InitRoute == Init => RouteInv
<1> SUFFICES ASSUME Init PROVE RouteInv
  OBVIOUS
<1>1. /\ conn = [i \in Slots |-> EmptySlot] /\ rx = RxIdle /\ dangling = FALSE
      /\ touched = FALSE /\ sent = <<>>
  BY DEF Init, TablesInit
<1>2. rx.pc = "idle" /\ \A i \in Slots : ~conn[i].freed
  BY <1>1 DEF RxIdle, EmptySlot
<1> QED BY <1>1, <1>2 DEF RouteInv, FreedInside

LEMMA RouteStep == RouterInv /\ [Next]_vars => RouterInv'
<1> SUFFICES ASSUME RouterInv, [Next]_vars PROVE RouterInv'
  OBVIOUS
<1>0. TypeInv /\ RouteInv /\ TypeInv'
  BY TypeStep DEF RouterInv
<1>1. CASE Next
  <2>1. RouteInv'
    BY <1>0, <1>1, DisturbRoute, RxRoute, HearRoute DEF Next
  <2> QED BY <1>0, <2>1 DEF RouterInv
<1>2. CASE UNCHANGED vars
  <2>1. UNCHANGED <<tables, conn, mq, rx, known, dangling, sent, touched>>
    BY <1>2 DEF vars, rxVars, tablesVars, tables
  <2>2. /\ UNCHANGED <<Type, Place, Wired, Tested, BlindTarget, Cmds, Due>>
        /\ (Press' <=> Press) /\ (Blind' <=> Blind)
    BY <2>1, EventSame
  <2>3. Progress' <=> Progress
    BY <2>1, <2>2 DEF Progress
  <2>4. RouteInv'
    BY <1>0, <2>1, <2>3 DEF RouteInv, FreedInside, Locked
  <2> QED BY <1>0, <2>4 DEF RouterInv
<1> QED BY <1>1, <1>2

\* An event during which no table is replaced commands exactly the registered targets
\* of its button, once each, in order and in one form, or the one output of its blind
\* pair, whatever the tables, the registry and the events, and for any MAX_NODES and
\* MAX_ROUTES_PER_BUTTON.
THEOREM EventsRoutedHolds == Spec => []EventsRouted
<1>1. Init => RouterInv
  BY InitHolds, InitParser, InitRouter, InitRoute DEF RouterInv, TypeInv
<1>2. RouterInv => EventsRouted
  <2> SUFFICES ASSUME RouterInv, rx.pc = "done", ~touched PROVE sent = Expected(rx.ev)
    BY DEF EventsRouted
  <2>1. Progress
    BY DEF RouterInv, RouteInv
  <2> QED BY <2>1 DEF Progress, Due
<1> QED BY <1>1, <1>2, RouteStep, PTL DEF Spec
====
