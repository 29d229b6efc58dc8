-------------------------- MODULE RelayBoardProofs --------------------------
(***************************************************************************)
(* Proofs about RelayBoard, for every number of relays, every set of       *)
(* commands and every length of the two queues.                            *)
(***************************************************************************)
EXTENDS RelayBoard, SequenceTheorems, TLAPS

\* The first relay exists.
LEMMA ZeroIsARelay == 0 \in Relays /\ NumRelays - 1 \in Relays
  BY BoardAssumption, SMT DEF Relays

\* What a task is left with when it is done is well typed.
LEMMA DoneType ==
  ASSUME LocalsOK, NEW t \in Tasks, Done(t)
  PROVE  LocalsOK'
  BY ZeroIsARelay DEF LocalsOK, Done, AllOff, Labels, Operations

\* A task that starts an operation, or goes on with one, stays well typed.
LEMMA EnterType ==
  ASSUME LocalsOK, NEW t \in Tasks, NEW o \in Operations, NEW r \in Relays,
         NEW last \in Relays, NEW v \in BOOLEAN, NEW label \in Labels,
         Enter(t, o, r, last, v, label)
  PROVE  LocalsOK'
  BY DEF LocalsOK, Enter, Goto

LEMMA JumpType ==
  ASSUME LocalsOK, NEW t \in Tasks, NEW label \in Labels, Jump(t, label)
  PROVE  LocalsOK'
  BY DEF LocalsOK, Jump, Goto

\* The loop over the relays never leaves the relays.
LEMMA NextRelayType ==
  ASSUME LocalsOK, NEW t \in Tasks, NEW label \in Labels, NextRelay(t, label)
  PROVE  LocalsOK'
<1>1. CASE cur[t] < upto[t]
  <2>1. cur[t] \in Relays /\ upto[t] \in Relays
    BY DEF LocalsOK
  <2>2. cur[t] + 1 \in Relays
    BY <1>1, <2>1, BoardAssumption DEF Relays
  <2>3. cur' = [cur EXCEPT ![t] = cur[t] + 1] /\ pc' = [pc EXCEPT ![t] = label]
        /\ UNCHANGED <<op, upto, val, img>>
    BY <1>1 DEF NextRelay, Goto
  <2> QED BY <2>2, <2>3 DEF LocalsOK
<1>2. CASE ~(cur[t] < upto[t])
  BY <1>2, DoneType DEF NextRelay
<1> QED BY <1>1, <1>2

LEMMA AfterTimerType ==
  ASSUME LocalsOK, NEW t \in Tasks, AfterTimer(t)
  PROVE  LocalsOK'
<1>1. Jump(t, "read") \/ NextRelay(t, "get") \/ Done(t)
  BY DEF AfterTimer
<1> QED BY <1>1, JumpType, NextRelayType, DoneType DEF Labels

LEMMA AfterSendType ==
  ASSUME LocalsOK, NEW t \in Tasks, AfterSend(t)
  PROVE  LocalsOK'
<1>1. Jump(t, "save") \/ NextRelay(t, "read")
  BY DEF AfterSend
<1> QED BY <1>1, JumpType, NextRelayType DEF Labels

\* A command posted to the timer service leaves a queue of the right type and
\* length, whether the queue had room for it or not.
LEMMA PostType ==
  ASSUME TypeOK, NEW c \in {"stop", "period", "start"}, NEW r \in Relays,
         NEW p \in Seconds, Post(c, r, p)
  PROVE  timerQ' \in Seq(TimerCmds) /\ Len(timerQ') <= TimerQueueLen
<1>1. [cmd |-> c, relay |-> r, period |-> p] \in TimerCmds
  BY DEF TimerCmds
<1>2. timerQ \in Seq(TimerCmds) /\ Len(timerQ) <= TimerQueueLen
  BY DEF TypeOK
<1> HIDE DEF TimerCmds
<1>3. CASE Len(timerQ) < TimerQueueLen
  <2>1. timerQ' = Append(timerQ, [cmd |-> c, relay |-> r, period |-> p])
    BY <1>3 DEF Post
  <2>2. timerQ' \in Seq(TimerCmds) /\ Len(timerQ') = Len(timerQ) + 1
    BY <1>1, <1>2, <2>1, AppendProperties
  <2> QED BY <1>2, <1>3, <2>2, LenProperties, BoardAssumption
<1>4. CASE ~(Len(timerQ) < TimerQueueLen)
  BY <1>2, <1>4 DEF Post
<1> QED BY <1>3, <1>4

\* No timeout survives the clamp above MAX_AUTO_OFF_SECONDS.
LEMMA ClampType ==
  ASSUME NEW s \in Nat
  PROVE  Clamp(s) \in Seconds
  BY BoardAssumption DEF Clamp, Seconds
-----------------------------------------------------------------------------
(* Type correctness *)

LEMMA CommandType ==
  ASSUME NEW c \in Commands
  PROVE  /\ c.op \in {"toggle", "set", "auto", "sync"} /\ c.relay \in Relays
         /\ c.on \in BOOLEAN /\ c.secs \in Nat
  BY BoardAssumption DEF Relays

LEMMA InitType == Init => TypeOK
<1> SUFFICES ASSUME Init PROVE TypeOK
  OBVIOUS
<1>1. nvsAuto \in [Relays -> Seconds]
  <2>1. \A c \in Commands : Clamp(c.secs) \in Seconds
    BY CommandType, ClampType
  <2>2. {0} \cup {Clamp(c.secs) : c \in Commands} \subseteq Seconds
    BY <2>1, BoardAssumption DEF Seconds
  <2>3. nvsAuto \in [Relays -> {0} \cup {Clamp(c.secs) : c \in Commands}]
    BY DEF Init
  <2> QED BY <2>2, <2>3
<1>2. /\ timer \in [Relays -> [running : BOOLEAN, period : Seconds \cup {DefaultPeriod}]]
      /\ autoOff \in [Relays -> Seconds]
  BY BoardAssumption DEF Init, NoTimers, Seconds
<1>3. timerQ \in Seq(TimerCmds) /\ Len(timerQ) <= TimerQueueLen
  BY BoardAssumption DEF Init
<1>4. txQ \in Seq(Reports) /\ Len(txQ) <= TxQueueLen
  BY BoardAssumption DEF Init
<1>5. LocalsOK
  BY ZeroIsARelay DEF Init, LocalsOK, NoTask, AllOff, Labels, Operations
<1> QED BY <1>1, <1>2, <1>3, <1>4, <1>5 DEF Init, TypeOK, AllOff

LEMMA RxCommandType == TypeOK /\ RxCommand => TypeOK'
<1> SUFFICES ASSUME TypeOK, RxCommand PROVE TypeOK'
  OBVIOUS
<1>1. PICK c \in Commands : RxToggle(c) \/ RxSet(c) \/ RxSync(c) \/ RxAutoOff(c)
  BY DEF RxCommand
<1>2. /\ c.relay \in Relays /\ c.on \in BOOLEAN /\ c.secs \in Nat
  BY CommandType
<1>3. LocalsOK' /\ autoOff' \in [Relays -> Seconds]
  <2> USE DEF TypeOK
  <2>1. CASE RxToggle(c)
    BY <1>2, <2>1, EnterType, Zenon DEF RxToggle, Tasks, Labels, Operations
  <2>2. CASE RxSet(c)
    <3>1. Enter("rx", "set", c.relay, c.relay, c.on, "set") /\ UNCHANGED autoOff
      BY <2>2 DEF RxSet
    <3>2. LocalsOK'
      BY <1>2, <3>1, EnterType DEF Tasks, Labels, Operations
    <3> QED BY <3>1, <3>2
  <2>3. CASE RxSync(c)
    BY <2>3, EnterType, ZeroIsARelay, Zenon DEF RxSync, Tasks, Labels, Operations
  <2>4. CASE RxAutoOff(c)
    <3>1. LocalsOK'
      BY <1>2, <2>4, EnterType, Zenon DEF RxAutoOff, Tasks, Labels, Operations
    <3>2. autoOff' \in [Relays -> Seconds]
      BY <1>2, <2>4, ClampType DEF RxAutoOff
    <3> QED BY <3>1, <3>2
  <2> QED BY <1>1, <2>1, <2>2, <2>3, <2>4
<1> QED BY <1>3 DEF RxCommand, TypeOK

LEMMA RxStepType == TypeOK /\ (SaveAuto \/ ToggleRead) => TypeOK'
<1>1. ASSUME TypeOK, SaveAuto PROVE TypeOK'
  <2>1. LocalsOK'
    BY <1>1, JumpType, Zenon DEF SaveAuto, TypeOK, Tasks, Labels
  <2>2. nvsAuto' \in [Relays -> Seconds]
    BY <1>1 DEF SaveAuto, TypeOK, LocalsOK, Tasks
  <2> QED BY <1>1, <2>1, <2>2 DEF SaveAuto, TypeOK
<1>2. ASSUME TypeOK, ToggleRead PROVE TypeOK'
  <2>1. LocalsOK'
    BY <1>2 DEF ToggleRead, Goto, TypeOK, LocalsOK, Tasks, Labels
  <2> QED BY <1>2, <2>1 DEF ToggleRead, TypeOK
<1> QED BY <1>1, <1>2

LEMMA StepType ==
  ASSUME TypeOK, NEW t \in Tasks, Step(t)
  PROVE  TypeOK'
<1> USE DEF TypeOK
<1>0. /\ cur[t] \in Relays /\ val[t] \in BOOLEAN /\ img[t] \in [Relays -> BOOLEAN]
      /\ outputs[cur[t]] \in BOOLEAN /\ autoOff[cur[t]] \in Seconds /\ 0 \in Seconds
  BY BoardAssumption DEF LocalsOK, Seconds
<1>1. CASE SetRelay(t)
  <2>1. LocalsOK'
    BY <1>1, JumpType, Zenon DEF SetRelay, Labels
  <2>2. outputs' \in [Relays -> BOOLEAN]
    BY <1>0, <1>1 DEF SetRelay
  <2> QED BY <1>1, <2>1, <2>2 DEF SetRelay
<1>2. CASE StopTimer(t)
  <2>1. LocalsOK'
    BY <1>2, JumpType, AfterTimerType DEF StopTimer, Labels
  <2>2. timerQ' \in Seq(TimerCmds) /\ Len(timerQ') <= TimerQueueLen
    BY <1>0, <1>2, PostType, Zenon DEF StopTimer
  <2> QED BY <1>2, <2>1, <2>2 DEF StopTimer
<1>3. CASE ChangePeriod(t)
  <2>1. LocalsOK'
    BY <1>3, JumpType, Zenon DEF ChangePeriod, Labels
  <2>2. timerQ' \in Seq(TimerCmds) /\ Len(timerQ') <= TimerQueueLen
    BY <1>0, <1>3, PostType, Zenon DEF ChangePeriod
  <2> QED BY <1>3, <2>1, <2>2 DEF ChangePeriod
<1>4. CASE StartTimer(t)
  <2>1. LocalsOK'
    BY <1>4, AfterTimerType DEF StartTimer
  <2>2. timerQ' \in Seq(TimerCmds) /\ Len(timerQ') <= TimerQueueLen
    BY <1>0, <1>4, PostType, Zenon DEF StartTimer
  <2> QED BY <1>4, <2>1, <2>2 DEF StartTimer
<1>5. CASE GetState(t)
  <2>1. \/ /\ pc' = [pc EXCEPT ![t] = "stop"]
           /\ val' = [val EXCEPT ![t] = outputs[cur[t]]]
           /\ UNCHANGED <<op, cur, upto, img>>
        \/ Jump(t, "stop") \/ Jump(t, "set") \/ NextRelay(t, "get") \/ Done(t)
    BY <1>5 DEF GetState, Goto
  <2>2. LocalsOK'
    <3>1. CASE /\ pc' = [pc EXCEPT ![t] = "stop"]
               /\ val' = [val EXCEPT ![t] = outputs[cur[t]]]
               /\ UNCHANGED <<op, cur, upto, img>>
      BY <1>0, <3>1 DEF LocalsOK, Labels
    <3> QED BY <2>1, <3>1, JumpType, NextRelayType, DoneType DEF Labels
  <2> QED BY <1>5, <2>2 DEF GetState
<1>6. CASE ReadState(t)
  <2>1. LocalsOK'
    BY <1>0, <1>6 DEF ReadState, Goto, LocalsOK, Labels
  <2> QED BY <1>6, <2>1 DEF ReadState
<1>7. CASE SendReport(t)
  <2>1. LocalsOK'
    BY <1>7, AfterSendType DEF SendReport
  <2>2. [relay |-> cur[t], on |-> val[t]] \in Reports
    BY <1>0 DEF Reports
  <2>3. txQ' \in Seq(Reports) /\ Len(txQ') = Len(txQ) + 1 /\ Len(txQ) < TxQueueLen
    BY <1>7, <2>2, AppendProperties, Zenon DEF SendReport
  <2>4. Len(txQ') <= TxQueueLen
    BY <2>3, LenProperties, BoardAssumption
  <2> QED BY <1>7, <2>1, <2>3, <2>4 DEF SendReport
<1>8. CASE DropReport(t)
  BY <1>8, AfterSendType DEF DropReport
<1>9. CASE WriteOutputs(t)
  <2>1. LocalsOK'
    BY <1>9, DoneType DEF WriteOutputs
  <2> QED BY <1>0, <1>9, <2>1 DEF WriteOutputs
<1>10. CASE WriteFails(t)
  BY <1>10, DoneType DEF WriteFails
<1> QED BY <1>1, <1>2, <1>3, <1>4, <1>5, <1>6, <1>7, <1>8, <1>9, <1>10 DEF Step

LEMMA CallbackType ==
  TypeOK /\ (CallbackCheck \/ CallbackSave \/ CallbackSaveSkipped) => TypeOK'
<1>0. "tmr" \in Tasks
  BY DEF Tasks
<1>1. ASSUME TypeOK, CallbackCheck PROVE TypeOK'
  <2>1. LocalsOK'
    BY <1>0, <1>1, JumpType, DoneType DEF CallbackCheck, TypeOK, Labels
  <2> QED BY <1>1, <2>1 DEF CallbackCheck, TypeOK
<1>2. ASSUME TypeOK, CallbackSave PROVE TypeOK'
  <2>1. LocalsOK'
    BY <1>0, <1>2 DEF CallbackSave, CompareAndCopy, Goto, TypeOK, LocalsOK, Labels
  <2> QED BY <1>2, <2>1 DEF CallbackSave, CompareAndCopy, TypeOK
<1>3. ASSUME TypeOK, CallbackSaveSkipped PROVE TypeOK'
  <2>1. LocalsOK'
    BY <1>0, <1>3, DoneType DEF CallbackSaveSkipped, TypeOK
  <2> QED BY <1>3, <2>1 DEF CallbackSaveSkipped, TypeOK
<1> QED BY <1>1, <1>2, <1>3

LEMMA HealthTickType == TypeOK /\ HealthTick => TypeOK'
<1> SUFFICES ASSUME TypeOK, HealthTick PROVE TypeOK'
  OBVIOUS
<1>1. LocalsOK'
  BY DEF HealthTick, CompareAndCopy, Goto, TypeOK, LocalsOK, Labels, Operations, Tasks
<1> QED BY <1>1 DEF HealthTick, CompareAndCopy, TypeOK

\* The command the timer service takes is one that was posted.
LEMMA TimerCommandType == TypeOK /\ TimerCommand => TypeOK'
<1> SUFFICES ASSUME TypeOK, TimerCommand PROVE TypeOK'
  OBVIOUS
<1> DEFINE c == Head(timerQ)
<1>1. c \in TimerCmds /\ timerQ' \in Seq(TimerCmds) /\ Len(timerQ') = Len(timerQ) - 1
  BY HeadTailProperties DEF TimerCommand, TypeOK
<1>2. c.relay \in Relays /\ c.period \in Seconds /\ c.cmd \in {"stop", "period", "start"}
  BY <1>1 DEF TimerCmds
<1>3. timer' = [timer EXCEPT ![c.relay] =
                  [running |-> c.cmd # "stop",
                   period  |-> IF c.cmd = "period" THEN c.period
                               ELSE timer[c.relay].period]]
  BY DEF TimerCommand
<1> HIDE DEF c
<1>4. timer' \in [Relays -> [running : BOOLEAN, period : Seconds \cup {DefaultPeriod}]]
  <2>1. timer[c.relay] \in [running : BOOLEAN, period : Seconds \cup {DefaultPeriod}]
    BY <1>2 DEF TypeOK
  <2>2. [running |-> c.cmd # "stop",
         period  |-> IF c.cmd = "period" THEN c.period ELSE timer[c.relay].period]
          \in [running : BOOLEAN, period : Seconds \cup {DefaultPeriod}]
    BY <1>2, <2>1
  <2> QED BY <1>2, <1>3, <2>2 DEF TypeOK
<1>5. Len(timerQ') <= TimerQueueLen
  BY <1>1, LenProperties, BoardAssumption DEF TypeOK
<1>6. LocalsOK'
  BY DEF TimerCommand, TypeOK, LocalsOK, locals
<1> QED BY <1>1, <1>4, <1>5, <1>6 DEF TimerCommand, TypeOK

LEMMA ExpireType ==
  ASSUME TypeOK, NEW r \in Relays, Expire(r)
  PROVE  TypeOK'
<1>1. LocalsOK'
  BY EnterType, Zenon DEF Expire, TypeOK, Tasks, Labels, Operations
<1>2. timer' \in [Relays -> [running : BOOLEAN, period : Seconds \cup {DefaultPeriod}]]
  BY DEF Expire, TypeOK
<1> QED BY <1>1, <1>2 DEF Expire, TypeOK

LEMMA SendType == TypeOK /\ (Deliver \/ SendFails) => TypeOK'
<1> SUFFICES ASSUME TypeOK, Deliver \/ SendFails PROVE TypeOK'
  OBVIOUS
<1>1. txQ # <<>> /\ txQ' = Tail(txQ)
  BY DEF Deliver, SendFails
<1>2. Head(txQ) \in Reports /\ txQ' \in Seq(Reports) /\ Len(txQ') = Len(txQ) - 1
  BY <1>1, HeadTailProperties DEF TypeOK
<1>3. Len(txQ') <= TxQueueLen
  BY <1>2, LenProperties, BoardAssumption DEF TypeOK
<1>4. LocalsOK'
  BY DEF Deliver, SendFails, TypeOK, LocalsOK, locals
<1>5. rootView' \in [Relays -> BOOLEAN]
  BY <1>2 DEF Deliver, SendFails, TypeOK, Reports
<1> QED BY <1>2, <1>3, <1>4, <1>5 DEF Deliver, SendFails, TypeOK

LEMMA CrashType == TypeOK /\ Crash => TypeOK'
<1> SUFFICES ASSUME TypeOK, Crash PROVE TypeOK'
  OBVIOUS
<1>1. LocalsOK'
  BY ZeroIsARelay DEF Crash, LocalsOK, NoTask, AllOff, Labels, Operations
<1>2. /\ timer' \in [Relays -> [running : BOOLEAN, period : Seconds \cup {DefaultPeriod}]]
      /\ autoOff' \in [Relays -> Seconds] /\ outputs' \in [Relays -> BOOLEAN]
  BY BoardAssumption DEF Crash, NoTimers, Seconds, AllOff
<1>3. timerQ' = <<>> /\ txQ' = <<>> /\ up' = FALSE /\ UNCHANGED <<nvs, nvsAuto, rootView>>
  BY DEF Crash
<1>4. /\ timerQ' \in Seq(TimerCmds) /\ Len(timerQ') <= TimerQueueLen
      /\ txQ' \in Seq(Reports) /\ Len(txQ') <= TxQueueLen
  <2> HIDE DEF TimerCmds, Reports
  <2> QED BY <1>3, EmptySeq, BoardAssumption
<1> QED BY <1>1, <1>2, <1>3, <1>4 DEF TypeOK

LEMMA BootType == TypeOK /\ Boot => TypeOK'
<1> SUFFICES ASSUME TypeOK, Boot PROVE TypeOK'
  OBVIOUS
<1>1. LocalsOK'
  BY EnterType, ZeroIsARelay, Zenon DEF Boot, TypeOK, Tasks, Labels, Operations
<1>2. PICK n \in 0 .. NumRelays :
        /\ n <= TimerQueueLen
        /\ timerQ' = [i \in 1 .. n |-> [cmd |-> "stop", relay |-> NumRelays - n + i - 1,
                                         period |-> 0]]
  BY DEF Boot
<1>3. n \in Nat /\ n <= NumRelays
  BY BoardAssumption
<1>4. \A i \in 1 .. n : NumRelays - n + i - 1 \in Relays
  BY <1>3, BoardAssumption DEF Relays
<1>5. \A r \in Relays : [cmd |-> "stop", relay |-> r, period |-> 0] \in TimerCmds
  BY BoardAssumption DEF TimerCmds, Seconds
<1>6. timerQ' \in [1 .. n -> TimerCmds]
  <2> HIDE DEF TimerCmds
  <2> QED BY <1>2, <1>4, <1>5
<1> HIDE DEF TimerCmds
<1>7. timerQ' \in Seq(TimerCmds)
  BY <1>3, <1>6, SeqDef
<1>8. Len(timerQ') = n
  BY <1>3, <1>6, <1>7, LenProperties
<1> QED BY <1>1, <1>2, <1>7, <1>8 DEF Boot, TypeOK

LEMMA NextType == TypeOK /\ [Next]_vars => TypeOK'
<1> SUFFICES ASSUME TypeOK, [Next]_vars PROVE TypeOK'
  OBVIOUS
<1>1. CASE UNCHANGED vars
  BY <1>1 DEF vars, TypeOK, LocalsOK
<1>2. CASE Next
  <2>1. {"main", "rx", "tmr", "health"} \subseteq Tasks
    BY DEF Tasks
  <2> QED
    BY <1>2, <2>1, RxCommandType, RxStepType, StepType, CallbackType, HealthTickType,
       TimerCommandType, ExpireType, SendType, CrashType, BootType, Zenon
       DEF Next, RxStep, TmrStep
<1> QED BY <1>1, <1>2

\* Every value of the board has its type: in particular no timeout above
\* MAX_AUTO_OFF_SECONDS reaches RAM, flash or a timer, and neither queue grows
\* beyond its length.
THEOREM TypeCorrect == Spec => []TypeOK
BY InitType, NextType, PTL DEF Spec
====
