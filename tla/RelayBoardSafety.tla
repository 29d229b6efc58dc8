-------------------------- MODULE RelayBoardSafety --------------------------
(***************************************************************************)
(* The proofs of the board's safety properties.  ToggleNeverMisses and     *)
(* OffStays, about the two mutex sections of relay_toggle and the          *)
(* callback, hold because of which task may be where in the shared code    *)
(* and with which argument: the strengthening Roles.  CoverageKept and     *)
(* ReportKept, about what a change of a relay owes the timer and the root, *)
(* also need what the tasks have in hand, Loops, and what one more command *)
(* or report does to the two queues.                                       *)
(***************************************************************************)
EXTENDS RelayBoardProofs

\* The RX task: a toggle and a set concern one relay, only the auto-off setter
\* goes through relay_get_state, and only toggle and set through relay_set.
RxRole ==
  /\ pc["rx"] \in {"idle", "toggle", "set", "saveAuto", "get", "stop", "period",
                   "start", "read", "send"}
  /\ op["rx"] \in {"none", "toggle", "set", "auto", "sync"}
  /\ pc["rx"] = "toggle" => op["rx"] = "toggle"
  /\ pc["rx"] \in {"saveAuto", "get"} => op["rx"] = "auto"
  /\ op["rx"] \in {"toggle", "set"} => upto["rx"] = cur["rx"]

\* The timer service task: the callback only ever switches a relay OFF.
TmrRole ==
  /\ pc["tmr"] \in {"idle", "check", "get", "set", "stop", "period", "start", "read",
                    "send", "save", "write"}
  /\ pc["tmr"] # "idle" => op["tmr"] = "off"
  /\ pc["tmr"] \in {"check", "get", "set", "stop"} => ~val["tmr"]

\* The boot loop and the health monitor never call relay_set.
MainRole ==
  /\ pc["main"] \in {"idle", "get", "stop", "period", "start"}
  /\ pc["main"] # "idle" => op["main"] = "boot"
HealthRole == pc["health"] \in {"idle", "write"}

Roles ==
  /\ ~up => \A t \in Tasks : pc[t] = "idle"
  /\ RxRole /\ TmrRole /\ MainRole /\ HealthRole

Safe == ToggleNeverMisses /\ OffStays
IInv == TypeOK /\ Roles /\ Safe
-----------------------------------------------------------------------------
(* A task changes nothing but its own locals *)

SameTask(t) ==
  /\ pc'[t] = pc[t] /\ op'[t] = op[t] /\ cur'[t] = cur[t]
  /\ upto'[t] = upto[t] /\ val'[t] = val[t]

LEMMA DoneLocal ==
  ASSUME LocalsOK, NEW t \in Tasks, NEW u \in Tasks, u # t, Done(t)
  PROVE  SameTask(u)
  BY DEF LocalsOK, Done, SameTask

LEMMA JumpLocal ==
  ASSUME LocalsOK, NEW t \in Tasks, NEW u \in Tasks, u # t, NEW label, Jump(t, label)
  PROVE  SameTask(u)
  BY DEF LocalsOK, Jump, Goto, SameTask

LEMMA NextRelayLocal ==
  ASSUME LocalsOK, NEW t \in Tasks, NEW u \in Tasks, u # t, NEW label,
         NextRelay(t, label)
  PROVE  SameTask(u)
<1>1. CASE cur[t] < upto[t]
  BY <1>1 DEF LocalsOK, NextRelay, Goto, SameTask
<1>2. CASE ~(cur[t] < upto[t])
  BY <1>2, DoneLocal DEF NextRelay
<1> QED BY <1>1, <1>2

LEMMA EnterLocal ==
  ASSUME LocalsOK, NEW t \in Tasks, NEW u \in Tasks, u # t,
         NEW o, NEW r, NEW last, NEW v, NEW label, Enter(t, o, r, last, v, label)
  PROVE  SameTask(u)
  BY DEF LocalsOK, Enter, Goto, SameTask

LEMMA AfterTimerLocal ==
  ASSUME LocalsOK, NEW t \in Tasks, NEW u \in Tasks, u # t, AfterTimer(t)
  PROVE  SameTask(u)
<1>1. Jump(t, "read") \/ NextRelay(t, "get") \/ Done(t)
  BY DEF AfterTimer
<1> QED BY <1>1, JumpLocal, NextRelayLocal, DoneLocal

LEMMA AfterSendLocal ==
  ASSUME LocalsOK, NEW t \in Tasks, NEW u \in Tasks, u # t, AfterSend(t)
  PROVE  SameTask(u)
<1>1. Jump(t, "save") \/ NextRelay(t, "read")
  BY DEF AfterSend
<1> QED BY <1>1, JumpLocal, NextRelayLocal

LEMMA StepLocal ==
  ASSUME LocalsOK, NEW t \in Tasks, NEW u \in Tasks, u # t, Step(t)
  PROVE  SameTask(u)
<1>1. CASE SetRelay(t) BY <1>1, JumpLocal DEF SetRelay
<1>2. CASE StopTimer(t) BY <1>2, JumpLocal, AfterTimerLocal DEF StopTimer
<1>3. CASE ChangePeriod(t) BY <1>3, JumpLocal DEF ChangePeriod
<1>4. CASE StartTimer(t) BY <1>4, AfterTimerLocal DEF StartTimer
<1>5. CASE GetState(t)
  <2>1. \/ /\ pc' = [pc EXCEPT ![t] = "stop"]
           /\ val' = [val EXCEPT ![t] = outputs[cur[t]]]
           /\ UNCHANGED <<op, cur, upto, img>>
        \/ Jump(t, "stop") \/ Jump(t, "set") \/ NextRelay(t, "get") \/ Done(t)
    BY <1>5 DEF GetState, Goto
  <2>2. CASE /\ pc' = [pc EXCEPT ![t] = "stop"]
             /\ val' = [val EXCEPT ![t] = outputs[cur[t]]]
             /\ UNCHANGED <<op, cur, upto, img>>
    BY <2>2 DEF LocalsOK, SameTask
  <2> QED BY <2>1, <2>2, JumpLocal, NextRelayLocal, DoneLocal
<1>6. CASE ReadState(t) BY <1>6 DEF ReadState, Goto, LocalsOK, SameTask
<1>7. CASE SendReport(t) BY <1>7, AfterSendLocal DEF SendReport
<1>8. CASE DropReport(t) BY <1>8, AfterSendLocal DEF DropReport
<1>9. CASE WriteOutputs(t) BY <1>9, DoneLocal DEF WriteOutputs
<1>10. CASE WriteFails(t) BY <1>10, DoneLocal DEF WriteFails
<1> QED BY <1>1, <1>2, <1>3, <1>4, <1>5, <1>6, <1>7, <1>8, <1>9, <1>10 DEF Step

\* What the RX task has to fear from the others: nothing, as long as they leave
\* its locals alone and switch no relay ON.
LEMMA RxUndisturbed ==
  ASSUME TypeOK, TypeOK', RxRole, Safe, SameTask("rx"),
         \A r \in Relays : outputs'[r] => outputs[r]
  PROVE  RxRole' /\ Safe'
<1>1. cur["rx"] \in Relays
  BY DEF TypeOK, LocalsOK, Tasks
<1>2. RxRole'
  BY DEF SameTask, RxRole
<1>3. ToggleNeverMisses' /\ OffStays'
  BY <1>1 DEF SameTask, Safe, ToggleNeverMisses, OffStays
<1> QED BY <1>2, <1>3 DEF Safe

LEMMA OthersKeepRoles ==
  ASSUME NEW t \in Tasks, TmrRole, MainRole, HealthRole,
         \A u \in Tasks \ {t} : SameTask(u)
  PROVE  /\ t # "tmr" => TmrRole'
         /\ t # "main" => MainRole'
         /\ t # "health" => HealthRole'
  BY DEF Tasks, SameTask, TmrRole, MainRole, HealthRole
-----------------------------------------------------------------------------
(* What a task does to its own locals *)

LEMMA JumpOwn ==
  ASSUME LocalsOK, NEW t \in Tasks, NEW label, Jump(t, label)
  PROVE  /\ pc'[t] = label /\ op'[t] = op[t] /\ cur'[t] = cur[t]
         /\ upto'[t] = upto[t] /\ val'[t] = val[t]
  BY DEF LocalsOK, Jump, Goto

LEMMA DoneOwn ==
  ASSUME LocalsOK, NEW t \in Tasks, Done(t)
  PROVE  pc'[t] = "idle" /\ op'[t] = "none"
  BY DEF LocalsOK, Done

LEMMA EnterOwn ==
  ASSUME LocalsOK, NEW t \in Tasks,
         NEW o, NEW r, NEW last, NEW v, NEW label, Enter(t, o, r, last, v, label)
  PROVE  /\ pc'[t] = label /\ op'[t] = o /\ cur'[t] = r
         /\ upto'[t] = last /\ val'[t] = v
  BY DEF LocalsOK, Enter, Goto

LEMMA NextRelayOwn ==
  ASSUME LocalsOK, NEW t \in Tasks, NEW label, NextRelay(t, label)
  PROVE  \/ cur[t] < upto[t] /\ pc'[t] = label /\ op'[t] = op[t]
         \/ cur[t] >= upto[t] /\ pc'[t] = "idle" /\ op'[t] = "none"
<1>1. cur[t] \in Int /\ upto[t] \in Int
  BY BoardAssumption DEF LocalsOK, Relays
<1>2. CASE cur[t] < upto[t]
  BY <1>2 DEF LocalsOK, NextRelay, Goto
<1>3. CASE ~(cur[t] < upto[t])
  BY <1>1, <1>3, DoneOwn DEF NextRelay
<1> QED BY <1>2, <1>3

\* Only relay_set changes the outputs while the board is up.
LEMMA StepOutputs ==
  ASSUME TypeOK, NEW t \in Tasks, Step(t)
  PROVE  /\ UNCHANGED up
         /\ \/ UNCHANGED outputs
            \/ /\ pc[t] = "set"
               /\ outputs' = [outputs EXCEPT ![cur[t]] = val[t]]
  BY DEF Step, SetRelay, StopTimer, ChangePeriod, StartTimer, GetState, ReadState,
         SendReport, DropReport, WriteOutputs, WriteFails

LEMMA StepBusy ==
  ASSUME NEW t \in Tasks, Step(t)
  PROVE  pc[t] # "idle"
  BY DEF Step, SetRelay, StopTimer, ChangePeriod, StartTimer, GetState, ReadState,
         SendReport, DropReport, WriteOutputs, WriteFails
-----------------------------------------------------------------------------
(* The steps of the RX task *)

LEMMA RxSharedStep ==
  ASSUME TypeOK, TypeOK', RxRole, Safe, Step("rx")
  PROVE  RxRole' /\ Safe'
<1>0. /\ "rx" \in Tasks /\ LocalsOK
      /\ cur["rx"] \in Relays /\ upto["rx"] \in Relays
      /\ val["rx"] \in BOOLEAN /\ outputs \in [Relays -> BOOLEAN]
  BY DEF Tasks, TypeOK, LocalsOK
<1>1. CASE SetRelay("rx")
  <2>1. /\ pc["rx"] = "set" /\ pc'["rx"] = "stop" /\ op'["rx"] = op["rx"]
        /\ cur'["rx"] = cur["rx"] /\ upto'["rx"] = upto["rx"] /\ val'["rx"] = val["rx"]
    BY <1>0, <1>1, JumpOwn DEF SetRelay
  <2>2. outputs'[cur["rx"]] = val["rx"]
    BY <1>0, <1>1 DEF SetRelay
  <2> QED BY <2>1, <2>2 DEF RxRole, Safe, ToggleNeverMisses, OffStays
<1>2. CASE StopTimer("rx")
  <2>1. UNCHANGED outputs /\ pc["rx"] = "stop"
    BY <1>2 DEF StopTimer
  <2>2. CASE Jump("rx", "period") \/ Jump("rx", "read")
    <3>1. /\ pc'["rx"] \in {"period", "read"} /\ op'["rx"] = op["rx"]
          /\ cur'["rx"] = cur["rx"] /\ upto'["rx"] = upto["rx"] /\ val'["rx"] = val["rx"]
      BY <1>0, <2>2, JumpOwn
    <3> QED BY <2>1, <3>1 DEF RxRole, Safe, ToggleNeverMisses, OffStays
  <2>3. CASE Done("rx")
    BY <1>0, <2>3, DoneOwn DEF RxRole, Safe, ToggleNeverMisses, OffStays
  <2>4. op["rx"] # "boot"
    BY DEF RxRole
  <2>5. Jump("rx", "period") \/ Jump("rx", "read") \/ Done("rx")
    BY <1>2, <2>4 DEF StopTimer, AfterTimer
  <2> QED BY <2>2, <2>3, <2>5
<1>3. CASE ChangePeriod("rx")
  <2>1. /\ UNCHANGED outputs /\ pc["rx"] = "period"
        /\ pc'["rx"] = "start" /\ op'["rx"] = op["rx"]
        /\ cur'["rx"] = cur["rx"] /\ upto'["rx"] = upto["rx"] /\ val'["rx"] = val["rx"]
    BY <1>0, <1>3, JumpOwn DEF ChangePeriod
  <2> QED BY <2>1 DEF RxRole, Safe, ToggleNeverMisses, OffStays
<1>4. CASE StartTimer("rx")
  <2>1. UNCHANGED outputs /\ pc["rx"] = "start"
    BY <1>4 DEF StartTimer
  <2>2. CASE Jump("rx", "read")
    <3>1. /\ pc'["rx"] = "read" /\ op'["rx"] = op["rx"]
          /\ cur'["rx"] = cur["rx"] /\ upto'["rx"] = upto["rx"] /\ val'["rx"] = val["rx"]
      BY <1>0, <2>2, JumpOwn
    <3> QED BY <2>1, <3>1 DEF RxRole, Safe, ToggleNeverMisses, OffStays
  <2>3. CASE Done("rx")
    BY <1>0, <2>3, DoneOwn DEF RxRole, Safe, ToggleNeverMisses, OffStays
  <2>4. op["rx"] # "boot"
    BY DEF RxRole
  <2>5. Jump("rx", "read") \/ Done("rx")
    BY <1>4, <2>4 DEF StartTimer, AfterTimer
  <2> QED BY <2>2, <2>3, <2>5
<1>5. CASE GetState("rx")
  <2>1. op["rx"] = "auto"
    BY <1>5 DEF GetState, RxRole
  <2>2. /\ pc' = [pc EXCEPT !["rx"] = "stop"]
        /\ val' = [val EXCEPT !["rx"] = outputs[cur["rx"]]]
        /\ UNCHANGED <<op, cur, upto, img>>
    BY <1>5, <2>1 DEF GetState, Goto
  <2>3. pc'["rx"] = "stop" /\ op'["rx"] = "auto"
    BY <1>0, <2>1, <2>2 DEF LocalsOK
  <2> QED BY <2>3 DEF RxRole, Safe, ToggleNeverMisses, OffStays
<1>6. CASE ReadState("rx")
  <2>1. /\ pc'["rx"] = "send" /\ op'["rx"] = op["rx"]
        /\ cur'["rx"] = cur["rx"] /\ upto'["rx"] = upto["rx"]
    BY <1>0, <1>6 DEF ReadState, Goto, LocalsOK
  <2> QED BY <2>1 DEF RxRole, Safe, ToggleNeverMisses, OffStays
<1>7. CASE SendReport("rx") \/ DropReport("rx")
  <2>1. pc["rx"] = "send" /\ AfterSend("rx")
    BY <1>7 DEF SendReport, DropReport
  <2>2. NextRelay("rx", "read")
    BY <2>1 DEF AfterSend, RxRole
  <2>3. CASE cur["rx"] < upto["rx"] /\ pc'["rx"] = "read" /\ op'["rx"] = op["rx"]
    <3>1. op["rx"] \notin {"toggle", "set"}
      BY <1>0, <2>3, BoardAssumption DEF RxRole, Relays
    <3> QED BY <2>3, <3>1 DEF RxRole, Safe, ToggleNeverMisses, OffStays
  <2>4. CASE pc'["rx"] = "idle" /\ op'["rx"] = "none"
    BY <2>4 DEF RxRole, Safe, ToggleNeverMisses, OffStays
  <2> QED BY <1>0, <2>2, <2>3, <2>4, NextRelayOwn
<1>8. CASE WriteOutputs("rx") \/ WriteFails("rx")
  BY <1>8 DEF WriteOutputs, WriteFails, RxRole
<1> QED BY <1>1, <1>2, <1>3, <1>4, <1>5, <1>6, <1>7, <1>8 DEF Step

LEMMA RxOwnStep ==
  ASSUME TypeOK, TypeOK', RxRole, Safe, SaveAuto \/ ToggleRead
  PROVE  RxRole' /\ Safe'
<1>0. "rx" \in Tasks /\ LocalsOK /\ cur["rx"] \in Relays /\ outputs \in [Relays -> BOOLEAN]
  BY DEF Tasks, TypeOK, LocalsOK
<1>1. CASE SaveAuto
  <2>1. pc["rx"] = "saveAuto" /\ pc'["rx"] = "get" /\ op'["rx"] = op["rx"]
    BY <1>0, <1>1, JumpOwn DEF SaveAuto
  <2> QED BY <2>1 DEF RxRole, Safe, ToggleNeverMisses, OffStays
<1>2. CASE ToggleRead
  <2>1. /\ pc["rx"] = "toggle" /\ pc'["rx"] = "set" /\ op'["rx"] = op["rx"]
        /\ cur'["rx"] = cur["rx"] /\ upto'["rx"] = upto["rx"]
        /\ val'["rx"] = ~outputs[cur["rx"]] /\ UNCHANGED outputs
    BY <1>0, <1>2 DEF ToggleRead, Goto, LocalsOK
  <2> QED BY <2>1 DEF RxRole, Safe, ToggleNeverMisses, OffStays
<1> QED BY <1>1, <1>2

LEMMA RxCommandSafe ==
  ASSUME TypeOK, TypeOK', RxRole, Safe, RxCommand
  PROVE  RxRole' /\ Safe'
<1>1. PICK c \in Commands : RxToggle(c) \/ RxSet(c) \/ RxSync(c) \/ RxAutoOff(c)
  BY DEF RxCommand
<1>2. "rx" \in Tasks /\ LocalsOK
  BY DEF Tasks, TypeOK
<1>3. \/ /\ pc'["rx"] \in {"toggle", "set"} /\ op'["rx"] = pc'["rx"]
         /\ cur'["rx"] = upto'["rx"]
      \/ pc'["rx"] = "read" /\ op'["rx"] = "sync"
      \/ pc'["rx"] = "saveAuto" /\ op'["rx"] = "auto"
  <2>1. CASE RxToggle(c)
    <3>1. Enter("rx", "toggle", c.relay, c.relay, FALSE, "toggle")
      BY <2>1 DEF RxToggle
    <3> QED BY <1>2, <3>1, EnterOwn
  <2>2. CASE RxSet(c)
    <3>1. Enter("rx", "set", c.relay, c.relay, c.on, "set")
      BY <2>2 DEF RxSet
    <3> QED BY <1>2, <3>1, EnterOwn
  <2>3. CASE RxSync(c)
    <3>1. Enter("rx", "sync", 0, NumRelays - 1, FALSE, "read")
      BY <2>3 DEF RxSync
    <3> QED BY <1>2, <3>1, EnterOwn
  <2>4. CASE RxAutoOff(c)
    <3>1. Enter("rx", "auto", c.relay, c.relay, FALSE, "saveAuto")
      BY <2>4 DEF RxAutoOff
    <3> QED BY <1>2, <3>1, EnterOwn
  <2> QED BY <1>1, <2>1, <2>2, <2>3, <2>4
<1> QED BY <1>3 DEF RxRole, Safe, ToggleNeverMisses, OffStays
-----------------------------------------------------------------------------
(* The steps of the other tasks *)

LEMMA TmrSharedStep ==
  ASSUME TypeOK, TmrRole, Step("tmr")
  PROVE  /\ TmrRole'
         /\ \A r \in Relays : outputs'[r] => outputs[r]
<1>0. /\ "tmr" \in Tasks /\ LocalsOK
      /\ cur["tmr"] \in Relays /\ outputs \in [Relays -> BOOLEAN]
  BY DEF Tasks, TypeOK, LocalsOK
<1>1. \A r \in Relays : outputs'[r] => outputs[r]
  <2>1. CASE UNCHANGED outputs
    BY <2>1
  <2>2. CASE /\ pc["tmr"] = "set"
             /\ outputs' = [outputs EXCEPT ![cur["tmr"]] = val["tmr"]]
    BY <1>0, <2>2 DEF TmrRole
  <2> QED BY <1>0, <2>1, <2>2, StepOutputs
<1>2. op["tmr"] = "off"
  BY <1>0, StepBusy DEF TmrRole
<1>3. TmrRole'
  <2>1. CASE SetRelay("tmr")
    BY <1>0, <2>1, JumpOwn DEF SetRelay, TmrRole
  <2>2. CASE StopTimer("tmr")
    <3>1. Jump("tmr", "period") \/ Jump("tmr", "read")
      BY <1>2, <2>2 DEF StopTimer, AfterTimer
    <3>2. pc'["tmr"] \in {"period", "read"} /\ op'["tmr"] = "off"
      BY <1>0, <1>2, <3>1, JumpOwn
    <3> QED BY <3>2 DEF TmrRole
  <2>3. CASE ChangePeriod("tmr")
    BY <1>0, <1>2, <2>3, JumpOwn DEF ChangePeriod, TmrRole
  <2>4. CASE StartTimer("tmr")
    <3>1. Jump("tmr", "read")
      BY <1>2, <2>4 DEF StartTimer, AfterTimer
    <3>2. pc'["tmr"] = "read" /\ op'["tmr"] = "off"
      BY <1>0, <1>2, <3>1, JumpOwn
    <3> QED BY <3>2 DEF TmrRole
  <2>5. CASE GetState("tmr")
    <3>1. pc["tmr"] = "get" /\ ~val["tmr"] /\ (Jump("tmr", "set") \/ Done("tmr"))
      BY <1>2, <2>5 DEF GetState, TmrRole
    <3>2. CASE Jump("tmr", "set")
      BY <1>0, <1>2, <3>1, <3>2, JumpOwn DEF TmrRole
    <3>3. CASE Done("tmr")
      BY <1>0, <3>3, DoneOwn DEF TmrRole
    <3> QED BY <3>1, <3>2, <3>3
  <2>6. CASE ReadState("tmr")
    <3>1. pc'["tmr"] = "send" /\ op'["tmr"] = "off"
      BY <1>0, <1>2, <2>6 DEF ReadState, Goto, LocalsOK
    <3> QED BY <3>1 DEF TmrRole
  <2>7. CASE SendReport("tmr") \/ DropReport("tmr")
    <3>1. Jump("tmr", "save")
      BY <1>2, <2>7 DEF SendReport, DropReport, AfterSend
    <3>2. pc'["tmr"] = "save" /\ op'["tmr"] = "off"
      BY <1>0, <1>2, <3>1, JumpOwn
    <3> QED BY <3>2 DEF TmrRole
  <2>8. CASE WriteOutputs("tmr") \/ WriteFails("tmr")
    <3>1. Done("tmr")
      BY <2>8 DEF WriteOutputs, WriteFails
    <3> QED BY <1>0, <3>1, DoneOwn DEF TmrRole
  <2> QED BY <2>1, <2>2, <2>3, <2>4, <2>5, <2>6, <2>7, <2>8 DEF Step
<1> QED BY <1>1, <1>3

LEMMA TmrOwnStep ==
  ASSUME TypeOK, TmrRole, CallbackCheck \/ CallbackSave \/ CallbackSaveSkipped
  PROVE  TmrRole' /\ UNCHANGED outputs /\ \A u \in Tasks \ {"tmr"} : SameTask(u)
<1>0. "tmr" \in Tasks /\ LocalsOK
  BY DEF Tasks, TypeOK
<1>1. CASE CallbackCheck
  <2>1. /\ pc["tmr"] = "check" /\ UNCHANGED outputs
        /\ Done("tmr") \/ Jump("tmr", "get")
    BY <1>1 DEF CallbackCheck
  <2>2. \A u \in Tasks \ {"tmr"} : SameTask(u)
    BY <1>0, <2>1, JumpLocal, DoneLocal
  <2>3. CASE Done("tmr")
    BY <1>0, <2>1, <2>2, <2>3, DoneOwn DEF TmrRole
  <2>4. CASE Jump("tmr", "get")
    <3>1. /\ pc'["tmr"] = "get" /\ op'["tmr"] = op["tmr"] /\ val'["tmr"] = val["tmr"]
      BY <1>0, <2>4, JumpOwn
    <3> QED BY <2>1, <2>2, <3>1 DEF TmrRole
  <2> QED BY <2>1, <2>3, <2>4
<1>2. CASE CallbackSave
  <2>1. /\ pc["tmr"] = "save" /\ UNCHANGED <<outputs, cur, upto, val>>
        /\ pc' = [pc EXCEPT !["tmr"] = "write"] /\ op' = [op EXCEPT !["tmr"] = op["tmr"]]
    BY <1>2 DEF CallbackSave, CompareAndCopy, Goto
  <2> QED BY <1>0, <2>1 DEF LocalsOK, SameTask, TmrRole
<1>3. CASE CallbackSaveSkipped
  <2>1. UNCHANGED outputs /\ Done("tmr")
    BY <1>3 DEF CallbackSaveSkipped
  <2> QED BY <1>0, <2>1, DoneOwn, DoneLocal DEF TmrRole
<1> QED BY <1>1, <1>2, <1>3

LEMMA MainStep ==
  ASSUME TypeOK, MainRole, Step("main")
  PROVE  MainRole' /\ UNCHANGED outputs
<1>0. "main" \in Tasks /\ LocalsOK
  BY DEF Tasks, TypeOK
<1>1. op["main"] = "boot"
  BY <1>0, StepBusy DEF MainRole
<1>2. UNCHANGED outputs
  BY <1>0, StepOutputs DEF MainRole
<1>3. Jump("main", "stop") \/ Jump("main", "period") \/ Jump("main", "start")
      \/ NextRelay("main", "get")
  BY <1>1 DEF Step, SetRelay, StopTimer, ChangePeriod, StartTimer, GetState, ReadState,
       SendReport, DropReport, WriteOutputs, WriteFails, AfterTimer, MainRole
<1>4. \/ pc'["main"] \in {"stop", "period", "start", "get"} /\ op'["main"] = "boot"
      \/ pc'["main"] = "idle"
  BY <1>0, <1>1, <1>3, JumpOwn, NextRelayOwn
<1> QED BY <1>2, <1>4 DEF MainRole

LEMMA HealthStep ==
  ASSUME TypeOK, HealthRole, Step("health")
  PROVE  HealthRole' /\ UNCHANGED outputs
<1>0. "health" \in Tasks /\ LocalsOK
  BY DEF Tasks, TypeOK
<1>1. UNCHANGED outputs
  BY <1>0, StepOutputs DEF HealthRole
<1>2. Done("health")
  BY DEF Step, SetRelay, StopTimer, ChangePeriod, StartTimer, GetState, ReadState,
       SendReport, DropReport, WriteOutputs, WriteFails, HealthRole
<1> QED BY <1>0, <1>1, <1>2, DoneOwn DEF HealthRole
-----------------------------------------------------------------------------
(* The inductive invariant *)

LEMMA InitInv == Init => IInv
<1> SUFFICES ASSUME Init PROVE Roles /\ Safe
  BY InitType DEF IInv
<1>1. \A t \in Tasks : pc[t] = "idle" /\ op[t] = "none"
  BY DEF Init, NoTask
<1> QED
  BY <1>1 DEF Tasks, Roles, RxRole, TmrRole, MainRole, HealthRole, Safe,
     ToggleNeverMisses, OffStays

LEMMA RxInv ==
  ASSUME IInv, TypeOK', RxCommand \/ RxStep
  PROVE  Roles' /\ Safe'
<1>0. /\ TypeOK /\ LocalsOK /\ "rx" \in Tasks
      /\ Roles /\ RxRole /\ TmrRole /\ MainRole /\ HealthRole /\ Safe
  BY DEF IInv, Roles, TypeOK, Tasks
<1>1. \A u \in Tasks \ {"rx"} : SameTask(u)
  <2>1. CASE RxCommand
    <3>1. PICK c \in Commands : RxToggle(c) \/ RxSet(c) \/ RxSync(c) \/ RxAutoOff(c)
      BY <2>1 DEF RxCommand
    <3>2. \/ Enter("rx", "toggle", c.relay, c.relay, FALSE, "toggle")
          \/ Enter("rx", "set", c.relay, c.relay, c.on, "set")
          \/ Enter("rx", "sync", 0, NumRelays - 1, FALSE, "read")
          \/ Enter("rx", "auto", c.relay, c.relay, FALSE, "saveAuto")
      BY <3>1 DEF RxToggle, RxSet, RxSync, RxAutoOff
    <3> QED BY <1>0, <3>2, EnterLocal
  <2>2. CASE SaveAuto
    BY <1>0, <2>2, JumpLocal DEF SaveAuto
  <2>3. CASE ToggleRead
    BY <1>0, <2>3 DEF ToggleRead, Goto, LocalsOK, SameTask
  <2>4. CASE Step("rx")
    BY <1>0, <2>4, StepLocal
  <2> QED BY <2>1, <2>2, <2>3, <2>4 DEF RxStep
<1>2. TmrRole' /\ MainRole' /\ HealthRole'
  BY <1>0, <1>1, OthersKeepRoles
<1>3. RxRole' /\ Safe'
  BY <1>0, RxSharedStep, RxOwnStep, RxCommandSafe DEF RxStep
<1>4. up /\ up'
  <2>1. CASE RxCommand
    BY <2>1 DEF RxCommand, RxReady
  <2>2. CASE SaveAuto \/ ToggleRead
    BY <1>0, <2>2 DEF SaveAuto, ToggleRead, Roles
  <2>3. CASE Step("rx")
    BY <1>0, <2>3, StepBusy, StepOutputs DEF Roles
  <2> QED BY <2>1, <2>2, <2>3 DEF RxStep
<1> QED BY <1>2, <1>3, <1>4 DEF Roles

\* A step of another task keeps the invariant if it keeps the roles of its own
\* task and switches nothing ON.
LEMMA OtherInv ==
  ASSUME IInv, TypeOK', NEW t \in Tasks, t # "rx", up, up',
         \A u \in Tasks \ {t} : SameTask(u),
         t = "tmr" => TmrRole', t = "main" => MainRole', t = "health" => HealthRole',
         \A r \in Relays : outputs'[r] => outputs[r]
  PROVE  Roles' /\ Safe'
<1>1. SameTask("rx")
  BY DEF Tasks
<1>2. RxRole' /\ Safe'
  BY <1>1, RxUndisturbed DEF IInv, Roles
<1>3. TmrRole' /\ MainRole' /\ HealthRole'
  BY OthersKeepRoles DEF IInv, Roles
<1> QED BY <1>2, <1>3 DEF Roles

LEMMA TmrInv ==
  ASSUME IInv, TypeOK', TmrStep \/ \E r \in Relays : Expire(r)
  PROVE  Roles' /\ Safe'
<1>0. TypeOK /\ LocalsOK /\ "tmr" \in Tasks /\ Roles /\ TmrRole
  BY DEF IInv, Roles, TypeOK, Tasks
<1>1. CASE Step("tmr")
  <2>1. up /\ up'
    BY <1>0, <1>1, StepBusy, StepOutputs DEF Roles
  <2>2. TmrRole' /\ \A r \in Relays : outputs'[r] => outputs[r]
    BY <1>0, <1>1, TmrSharedStep
  <2>3. \A u \in Tasks \ {"tmr"} : SameTask(u)
    BY <1>0, <1>1, StepLocal
  <2> QED BY <1>0, <2>1, <2>2, <2>3, OtherInv
<1>2. CASE CallbackCheck \/ CallbackSave \/ CallbackSaveSkipped
  <2>1. up /\ up'
    BY <1>0, <1>2 DEF CallbackCheck, CallbackSave, CallbackSaveSkipped, CompareAndCopy, Roles
  <2>2. TmrRole' /\ UNCHANGED outputs /\ \A u \in Tasks \ {"tmr"} : SameTask(u)
    BY <1>0, <1>2, TmrOwnStep
  <2> QED BY <1>0, <2>1, <2>2, OtherInv
<1>3. ASSUME NEW r \in Relays, Expire(r) PROVE Roles' /\ Safe'
  <2>1. up /\ up' /\ UNCHANGED outputs /\ Enter("tmr", "off", r, r, FALSE, "check")
    BY <1>3 DEF Expire
  <2>2. \A u \in Tasks \ {"tmr"} : SameTask(u)
    BY <1>0, <2>1, EnterLocal
  <2>3. pc'["tmr"] = "check" /\ op'["tmr"] = "off" /\ val'["tmr"] = FALSE
    BY <1>0, <2>1, EnterOwn
  <2>4. TmrRole'
    BY <2>3 DEF TmrRole
  <2> QED BY <1>0, <2>1, <2>2, <2>4, OtherInv
<1> QED BY <1>1, <1>2, <1>3 DEF TmrStep

LEMMA MainHealthInv ==
  ASSUME IInv, TypeOK', Step("main") \/ Step("health") \/ HealthTick
  PROVE  Roles' /\ Safe'
<1>0. /\ TypeOK /\ LocalsOK /\ "main" \in Tasks /\ "health" \in Tasks
      /\ Roles /\ MainRole /\ HealthRole
  BY DEF IInv, Roles, TypeOK, Tasks
<1>1. CASE Step("main")
  <2>1. up /\ up'
    BY <1>0, <1>1, StepBusy, StepOutputs DEF Roles
  <2>2. MainRole' /\ UNCHANGED outputs /\ \A u \in Tasks \ {"main"} : SameTask(u)
    BY <1>0, <1>1, MainStep, StepLocal
  <2> QED BY <1>0, <2>1, <2>2, OtherInv
<1>2. CASE Step("health")
  <2>1. up /\ up'
    BY <1>0, <1>2, StepBusy, StepOutputs DEF Roles
  <2>2. HealthRole' /\ UNCHANGED outputs /\ \A u \in Tasks \ {"health"} : SameTask(u)
    BY <1>0, <1>2, HealthStep, StepLocal
  <2> QED BY <1>0, <2>1, <2>2, OtherInv
<1>3. CASE HealthTick
  <2>1. /\ up /\ up' /\ UNCHANGED <<outputs, cur, upto, val>>
        /\ pc' = [pc EXCEPT !["health"] = "write"] /\ op' = [op EXCEPT !["health"] = "save"]
    BY <1>3 DEF HealthTick, CompareAndCopy, Goto
  <2>2. HealthRole' /\ \A u \in Tasks \ {"health"} : SameTask(u)
    BY <1>0, <2>1 DEF LocalsOK, SameTask, HealthRole
  <2> QED BY <1>0, <2>1, <2>2, OtherInv
<1> QED BY <1>1, <1>2, <1>3

LEMMA EnvironmentInv ==
  ASSUME IInv, TypeOK', TimerCommand \/ Deliver \/ SendFails \/ Crash \/ Boot
  PROVE  Roles' /\ Safe'
<1>0. TypeOK /\ LocalsOK /\ "main" \in Tasks /\ Roles /\ Safe
  BY DEF IInv, TypeOK, Tasks
<1>1. CASE TimerCommand \/ Deliver \/ SendFails
  <2>1. up /\ up' /\ UNCHANGED <<outputs, locals>>
    BY <1>1 DEF TimerCommand, Deliver, SendFails
  <2> QED
    BY <1>0, <2>1 DEF locals, Roles, RxRole, TmrRole, MainRole, HealthRole, Safe,
       ToggleNeverMisses, OffStays
<1>2. CASE Crash
  <2>1. \A t \in Tasks : pc'[t] = "idle" /\ op'[t] = "none"
    BY <1>2 DEF Crash, NoTask
  <2> QED
    BY <2>1 DEF Tasks, Roles, RxRole, TmrRole, MainRole, HealthRole, Safe,
       ToggleNeverMisses, OffStays
<1>3. CASE Boot
  <2>1. \A t \in Tasks : pc[t] = "idle"
    BY <1>0, <1>3 DEF Boot, Roles
  <2>2. up' /\ Enter("main", "boot", 0, NumRelays - 1, TRUE, "get")
    BY <1>3 DEF Boot
  <2>3. \A u \in Tasks \ {"main"} : SameTask(u)
    BY <1>0, <2>2, EnterLocal
  <2>4. pc'["main"] = "get" /\ op'["main"] = "boot"
    BY <1>0, <2>2, EnterOwn
  <2>5. MainRole'
    BY <2>4 DEF MainRole
  <2>6. TmrRole' /\ HealthRole'
    BY <1>0, <2>3, OthersKeepRoles DEF Roles
  <2>7. pc'["rx"] = "idle" /\ op'["rx"] = op["rx"] /\ cur'["rx"] = cur["rx"]
        /\ upto'["rx"] = upto["rx"]
    BY <2>1, <2>3 DEF Tasks, SameTask
  <2>8. RxRole' /\ Safe'
    BY <1>0, <2>7 DEF Roles, RxRole, Safe, ToggleNeverMisses, OffStays
  <2> QED BY <2>2, <2>5, <2>6, <2>8 DEF Roles
<1> QED BY <1>1, <1>2, <1>3

LEMMA NextInv == IInv /\ [Next]_vars => IInv'
<1> SUFFICES ASSUME IInv, [Next]_vars PROVE IInv'
  OBVIOUS
<1>1. TypeOK'
  BY NextType DEF IInv
<1>2. CASE UNCHANGED vars
  BY <1>1, <1>2 DEF vars, IInv, Roles, RxRole, TmrRole, MainRole, HealthRole, Safe,
     ToggleNeverMisses, OffStays
<1>3. CASE Next
  BY <1>1, <1>3, RxInv, TmrInv, MainHealthInv, EnvironmentInv DEF Next, IInv
<1> QED BY <1>2, <1>3

THEOREM InductiveInvariant == Spec => []IInv
BY InitInv, NextInv, PTL DEF Spec

\* Between the two mutex sections of relay_toggle no other task switches the
\* relay ON, on any board and whatever the commands.
THEOREM ToggleNeverMissesHolds == Spec => []ToggleNeverMisses
<1>1. IInv => ToggleNeverMisses
  BY DEF IInv, Safe
<1> QED BY <1>1, InductiveInvariant, PTL

\* A relay that a command has switched OFF is OFF until the command is done with
\* its timer, on any board and whatever the commands.
THEOREM OffStaysHolds == Spec => []OffStays
<1>1. IInv => OffStays
  BY DEF IInv, Safe
<1> QED BY <1>1, InductiveInvariant, PTL
-----------------------------------------------------------------------------
(* One step of the shared code, as its task sees it.  What follows relates  *)
(* the tasks' locals to the queues, and needs no more of the code.          *)

Moved(t, label) ==
  /\ pc'[t] = label /\ op'[t] = op[t] /\ cur'[t] = cur[t]
  /\ upto'[t] = upto[t] /\ val'[t] = val[t]
Ended(t) == pc'[t] = "idle" /\ op'[t] = "none"
Advanced(t, label) ==
  \/ /\ cur[t] < upto[t]
     /\ pc'[t] = label /\ op'[t] = op[t] /\ cur'[t] = cur[t] + 1
     /\ upto'[t] = upto[t] /\ val'[t] = val[t]
  \/ cur[t] >= upto[t] /\ Ended(t)

TimerDone(t) ==
  \/ op[t] \in {"toggle", "set", "off"} /\ Moved(t, "read")
  \/ op[t] = "boot" /\ Advanced(t, "get")
  \/ op[t] \notin {"toggle", "set", "off", "boot"} /\ Ended(t)

Sets(t) ==
  /\ pc[t] = "set" /\ Moved(t, "stop")
  /\ outputs' = [outputs EXCEPT ![cur[t]] = val[t]]
  /\ UNCHANGED <<timerQ, txQ>>
Stops(t) ==
  /\ pc[t] = "stop" /\ Post("stop", cur[t], 0)
  /\ \/ val[t] /\ autoOff[cur[t]] > 0 /\ Moved(t, "period")
     \/ ~(val[t] /\ autoOff[cur[t]] > 0) /\ TimerDone(t)
  /\ UNCHANGED <<outputs, txQ>>
Changes(t) ==
  /\ pc[t] = "period" /\ Post("period", cur[t], autoOff[cur[t]])
  /\ Moved(t, "start")
  /\ UNCHANGED <<outputs, txQ>>
Starts(t) ==
  /\ pc[t] = "start" /\ Post("start", cur[t], 0)
  /\ TimerDone(t)
  /\ UNCHANGED <<outputs, txQ>>
Gets(t) ==
  /\ pc[t] = "get"
  /\ \/ /\ op[t] = "auto" /\ pc'[t] = "stop" /\ val'[t] = outputs[cur[t]]
        /\ op'[t] = op[t] /\ cur'[t] = cur[t] /\ upto'[t] = upto[t]
     \/ op[t] = "boot" /\ outputs[cur[t]] /\ Moved(t, "stop")
     \/ op[t] = "boot" /\ ~outputs[cur[t]] /\ Advanced(t, "get")
     \/ op[t] \notin {"auto", "boot"} /\ outputs[cur[t]] /\ Moved(t, "set")
     \/ op[t] \notin {"auto", "boot"} /\ ~outputs[cur[t]] /\ Ended(t)
  /\ UNCHANGED <<outputs, timerQ, txQ>>
Reads(t) ==
  /\ pc[t] = "read" /\ pc'[t] = "send" /\ val'[t] = outputs[cur[t]]
  /\ op'[t] = op[t] /\ cur'[t] = cur[t] /\ upto'[t] = upto[t]
  /\ UNCHANGED <<outputs, timerQ, txQ>>
Sends(t) ==
  /\ pc[t] = "send"
  /\ txQ' \in {txQ, Append(txQ, [relay |-> cur[t], on |-> val[t]])}
  /\ \/ op[t] = "off" /\ Moved(t, "save")
     \/ op[t] # "off" /\ Advanced(t, "read")
  /\ UNCHANGED <<outputs, timerQ>>
Writes(t) ==
  /\ pc[t] = "write" /\ Ended(t)
  /\ UNCHANGED <<outputs, timerQ, txQ>>

Move(t) ==
  \/ Sets(t) \/ Stops(t) \/ Changes(t) \/ Starts(t)
  \/ Gets(t) \/ Reads(t) \/ Sends(t) \/ Writes(t)

LEMMA AdvancedOwn ==
  ASSUME LocalsOK, NEW t \in Tasks, NEW label, NextRelay(t, label)
  PROVE  Advanced(t, label)
<1>1. cur[t] \in Int /\ upto[t] \in Int
  BY BoardAssumption DEF LocalsOK, Relays
<1>2. CASE cur[t] < upto[t]
  BY <1>2 DEF LocalsOK, NextRelay, Goto, Advanced
<1>3. CASE ~(cur[t] < upto[t])
  BY <1>1, <1>3, DoneOwn DEF NextRelay, Advanced, Ended
<1> QED BY <1>2, <1>3

LEMMA TimerDoneOwn ==
  ASSUME LocalsOK, NEW t \in Tasks, AfterTimer(t)
  PROVE  TimerDone(t)
<1>1. CASE op[t] \in {"toggle", "set", "off"}
  BY <1>1, JumpOwn DEF AfterTimer, TimerDone, Moved
<1>2. CASE op[t] = "boot"
  BY <1>2, AdvancedOwn DEF AfterTimer, TimerDone
<1>3. CASE op[t] \notin {"toggle", "set", "off", "boot"}
  BY <1>3, DoneOwn DEF AfterTimer, TimerDone, Ended
<1> QED BY <1>1, <1>2, <1>3

LEMMA StepMoves ==
  ASSUME TypeOK, NEW t \in Tasks, Step(t)
  PROVE  /\ Move(t)
         /\ UNCHANGED <<up, autoOff, timer, rootView>>
         /\ \A u \in Tasks \ {t} : SameTask(u)
<1>0. LocalsOK
  BY DEF TypeOK
<1>9. UNCHANGED <<up, autoOff, timer, rootView>>
  BY DEF Step, SetRelay, StopTimer, ChangePeriod, StartTimer, GetState, ReadState,
         SendReport, DropReport, WriteOutputs, WriteFails
<1>10. \A u \in Tasks \ {t} : SameTask(u)
  BY <1>0, StepLocal
<1> SUFFICES Move(t)
  BY <1>9, <1>10
<1>1. CASE SetRelay(t)
  BY <1>0, <1>1, JumpOwn DEF SetRelay, Move, Sets, Moved
<1>2. CASE StopTimer(t)
  BY <1>0, <1>2, JumpOwn, TimerDoneOwn DEF StopTimer, Move, Stops, Moved
<1>3. CASE ChangePeriod(t)
  BY <1>0, <1>3, JumpOwn DEF ChangePeriod, Move, Changes, Moved
<1>4. CASE StartTimer(t)
  BY <1>0, <1>4, TimerDoneOwn DEF StartTimer, Move, Starts
<1>5. CASE GetState(t)
  <2>1. CASE op[t] = "auto"
    BY <1>0, <1>5, <2>1 DEF GetState, Goto, LocalsOK, Move, Gets
  <2>2. CASE op[t] = "boot"
    BY <1>0, <1>5, <2>2, JumpOwn, AdvancedOwn DEF GetState, Move, Gets, Moved
  <2>3. CASE op[t] \notin {"auto", "boot"}
    BY <1>0, <1>5, <2>3, JumpOwn, DoneOwn DEF GetState, Move, Gets, Moved, Ended
  <2> QED BY <2>1, <2>2, <2>3
<1>6. CASE ReadState(t)
  BY <1>0, <1>6 DEF ReadState, Goto, LocalsOK, Move, Reads
<1>7. CASE SendReport(t) \/ DropReport(t)
  <2>1. AfterSend(t) /\ UNCHANGED <<outputs, timerQ>>
    BY <1>7 DEF SendReport, DropReport
  <2>2. \/ op[t] = "off" /\ Moved(t, "save")
        \/ op[t] # "off" /\ Advanced(t, "read")
    BY <1>0, <2>1, JumpOwn, AdvancedOwn DEF AfterSend, Moved
  <2> QED BY <1>7, <2>1, <2>2 DEF SendReport, DropReport, Move, Sends
<1>8. CASE WriteOutputs(t) \/ WriteFails(t)
  BY <1>0, <1>8, DoneOwn DEF WriteOutputs, WriteFails, Move, Writes, Ended
<1> QED BY <1>1, <1>2, <1>3, <1>4, <1>5, <1>6, <1>7, <1>8 DEF Step
-----------------------------------------------------------------------------
(* What the loops and calls of the three tasks have in hand: the boot loop *)
(* runs alone and to the last relay, the timer of a relay that is ON is    *)
(* never stopped for good by a command, and the callback arms nothing.     *)

RxLoops ==
  /\ pc["rx"] = "idle" <=> op["rx"] = "none"
  /\ op["rx"] = "sync" => upto["rx"] = NumRelays - 1 /\ pc["rx"] \in {"read", "send"}
  /\ op["rx"] = "auto" => pc["rx"] \in {"saveAuto", "get", "stop", "period", "start"}
  /\ op["rx"] \in {"toggle", "set"} =>
       pc["rx"] \in {"toggle", "set", "stop", "period", "start", "read", "send"}
  /\ pc["rx"] \in {"stop", "period", "start"} /\ outputs[cur["rx"]] => val["rx"]
MainLoops ==
  /\ pc["main"] = "idle" <=> op["main"] = "none"
  /\ op["main"] = "boot" =>
       val["main"] /\ upto["main"] = NumRelays - 1 /\ pc["rx"] = "idle"
TmrLoops ==
  /\ pc["tmr"] = "idle" <=> op["tmr"] = "none"
  /\ pc["tmr"] \notin {"period", "start"}

Loops == RxLoops /\ MainLoops /\ TmrLoops
LInv == IInv /\ Loops

LEMMA LoopsFacts ==
  ASSUME LInv
  PROVE  /\ TypeOK /\ LocalsOK /\ Roles /\ RxRole /\ TmrRole /\ MainRole /\ HealthRole
         /\ RxLoops /\ MainLoops /\ TmrLoops
         /\ outputs \in [Relays -> BOOLEAN] /\ autoOff \in [Relays -> Seconds]
         /\ \A t \in Tasks : /\ cur[t] \in Relays /\ upto[t] \in Relays
                             /\ cur[t] \in Int /\ upto[t] \in Int /\ val[t] \in BOOLEAN
  BY BoardAssumption DEF LInv, IInv, Loops, Roles, TypeOK, LocalsOK, Relays

LEMMA TaskNames ==
  "rx" \in Tasks /\ "main" \in Tasks /\ "tmr" \in Tasks /\ "health" \in Tasks
  BY DEF Tasks

LEMMA RxLoopsStep ==
  ASSUME LInv, Step("rx")
  PROVE  Loops'
<1>0. LocalsOK /\ RxRole /\ RxLoops /\ MainLoops /\ TmrLoops /\ TypeOK /\ Roles
      /\ outputs \in [Relays -> BOOLEAN] /\ cur["rx"] \in Relays
      /\ cur["rx"] \in Int /\ upto["rx"] \in Int /\ val["rx"] \in BOOLEAN
  BY LoopsFacts, TaskNames
<1>1. Move("rx") /\ SameTask("main") /\ SameTask("tmr")
  BY <1>0, StepMoves, TaskNames
<1>2. op["main"] # "boot" /\ op["rx"] # "boot" /\ op["rx"] # "off"
  BY <1>0, StepBusy, TaskNames DEF MainLoops, RxRole
<1>3. MainLoops' /\ TmrLoops'
  BY <1>0, <1>1, <1>2 DEF MainLoops, TmrLoops, SameTask
<1>4. RxLoops'
  <2>1. CASE Sets("rx")
    BY <1>0, <2>1 DEF Sets, Moved, RxLoops, RxRole
  <2>2. CASE Stops("rx")
    BY <1>0, <1>2, <2>2 DEF Stops, Moved, TimerDone, Ended, RxLoops, RxRole
  <2>3. CASE Changes("rx")
    BY <1>0, <2>3 DEF Changes, Moved, RxLoops, RxRole
  <2>4. CASE Starts("rx")
    BY <1>0, <1>2, <2>4 DEF Starts, Moved, TimerDone, Ended, RxLoops, RxRole
  <2>5. CASE Gets("rx")
    BY <1>0, <1>2, <2>5 DEF Gets, Moved, Ended, RxLoops, RxRole
  <2>6. CASE Reads("rx")
    BY <1>0, <2>6 DEF Reads, RxLoops, RxRole
  <2>7. CASE Sends("rx")
    BY <1>0, <1>2, <2>7 DEF Sends, Advanced, Ended, RxLoops, RxRole
  <2>8. CASE Writes("rx")
    BY <1>0, <2>8 DEF Writes, RxRole
  <2> QED BY <1>1, <2>1, <2>2, <2>3, <2>4, <2>5, <2>6, <2>7, <2>8 DEF Move
<1> QED BY <1>3, <1>4 DEF Loops

LEMMA MainLoopsStep ==
  ASSUME LInv, Step("main")
  PROVE  Loops'
<1>0. LocalsOK /\ MainRole /\ RxLoops /\ MainLoops /\ TmrLoops /\ TypeOK
      /\ op["main"] = "boot"
  BY LoopsFacts, TaskNames, StepBusy DEF MainRole
<1>1. Move("main") /\ SameTask("rx") /\ SameTask("tmr") /\ UNCHANGED outputs
  BY <1>0, StepMoves, TaskNames, MainStep
<1>2. RxLoops' /\ TmrLoops'
  BY <1>0, <1>1 DEF RxLoops, TmrLoops, SameTask
<1>3. Moved("main", "stop") \/ Moved("main", "period") \/ Moved("main", "start")
      \/ Advanced("main", "get")
  BY <1>0, <1>1 DEF Move, Sets, Stops, Changes, Starts, Gets, Reads, Sends, Writes,
     TimerDone, MainRole
<1>4. MainLoops'
  BY <1>0, <1>1, <1>3 DEF Moved, Advanced, Ended, MainLoops, SameTask
<1> QED BY <1>2, <1>4 DEF Loops

\* A step of the callback or of the timer service, or one that is no task's.
LEMMA RestLoops ==
  ASSUME LInv, SameTask("rx"), SameTask("main"), TmrLoops',
         \A r \in Relays : outputs'[r] => outputs[r]
  PROVE  Loops'
<1>1. RxLoops /\ MainLoops /\ cur["rx"] \in Relays
  BY LoopsFacts, TaskNames
<1>2. RxLoops'
  BY <1>1 DEF RxLoops, SameTask
<1>3. MainLoops'
  BY <1>1 DEF MainLoops, SameTask
<1> QED BY <1>2, <1>3 DEF Loops

LEMMA TmrLoopsStep ==
  ASSUME LInv, TmrStep \/ \E r \in Relays : Expire(r)
  PROVE  Loops'
<1>0. LocalsOK /\ TmrRole /\ TmrLoops /\ TypeOK
  BY LoopsFacts
<1>1. CASE Step("tmr")
  <2>1. Move("tmr") /\ SameTask("rx") /\ SameTask("main")
    BY <1>0, <1>1, StepMoves, TaskNames
  <2>2. \A r \in Relays : outputs'[r] => outputs[r]
    BY <1>0, <1>1, TmrSharedStep
  <2>3. op["tmr"] = "off"
    BY <1>0, <1>1, StepBusy, TaskNames DEF TmrRole
  <2>4. TmrLoops'
    BY <1>0, <2>1, <2>3 DEF Move, Sets, Stops, Changes, Starts, Gets, Reads, Sends,
       Writes, TimerDone, Moved, Ended, TmrLoops, TmrRole
  <2> QED BY <2>1, <2>2, <2>4, RestLoops
<1>2. CASE CallbackCheck \/ CallbackSave \/ CallbackSaveSkipped
  <2>1. /\ TmrRole' /\ UNCHANGED outputs
        /\ \A u \in Tasks \ {"tmr"} : SameTask(u)
    BY <1>0, <1>2, TmrOwnStep
  <2>2. \/ pc'["tmr"] = "idle" /\ op'["tmr"] = "none"
        \/ pc'["tmr"] \in {"get", "write"}
    BY <1>0, <1>2, DoneOwn, JumpOwn, TaskNames
       DEF CallbackCheck, CallbackSave, CallbackSaveSkipped, CompareAndCopy, Goto, LocalsOK
  <2>3. TmrLoops'
    BY <2>1, <2>2 DEF TmrLoops, TmrRole
  <2> QED BY <2>1, <2>3, RestLoops, TaskNames
<1>3. ASSUME NEW r \in Relays, Expire(r) PROVE Loops'
  <2>1. UNCHANGED outputs /\ Enter("tmr", "off", r, r, FALSE, "check")
    BY <1>3 DEF Expire
  <2>2. \A u \in Tasks \ {"tmr"} : SameTask(u)
    BY <1>0, <2>1, EnterLocal, TaskNames
  <2>3. pc'["tmr"] = "check" /\ op'["tmr"] = "off"
    BY <1>0, <2>1, EnterOwn, TaskNames
  <2>4. TmrLoops'
    BY <2>3 DEF TmrLoops
  <2> QED BY <2>1, <2>2, <2>4, RestLoops, TaskNames
<1> QED BY <1>1, <1>2, <1>3 DEF TmrStep

LEMMA RxOwnLoops ==
  ASSUME LInv, RxCommand \/ SaveAuto \/ ToggleRead
  PROVE  Loops'
<1>0. LocalsOK /\ RxRole /\ RxLoops /\ MainLoops /\ TmrLoops
  BY LoopsFacts
<1>1. CASE RxCommand
  <2>1. PICK c \in Commands : RxToggle(c) \/ RxSet(c) \/ RxSync(c) \/ RxAutoOff(c)
    BY <1>1 DEF RxCommand
  <2>2. \/ Enter("rx", "toggle", c.relay, c.relay, FALSE, "toggle")
        \/ Enter("rx", "set", c.relay, c.relay, c.on, "set")
        \/ Enter("rx", "sync", 0, NumRelays - 1, FALSE, "read")
        \/ Enter("rx", "auto", c.relay, c.relay, FALSE, "saveAuto")
    BY <2>1 DEF RxToggle, RxSet, RxSync, RxAutoOff
  <2>3. \/ pc'["rx"] \in {"toggle", "set"} /\ op'["rx"] = pc'["rx"]
        \/ pc'["rx"] = "read" /\ op'["rx"] = "sync" /\ upto'["rx"] = NumRelays - 1
        \/ pc'["rx"] = "saveAuto" /\ op'["rx"] = "auto"
    <3>1. CASE Enter("rx", "toggle", c.relay, c.relay, FALSE, "toggle")
      BY <1>0, <3>1, EnterOwn, TaskNames
    <3>2. CASE Enter("rx", "set", c.relay, c.relay, c.on, "set")
      BY <1>0, <3>2, EnterOwn, TaskNames
    <3>3. CASE Enter("rx", "sync", 0, NumRelays - 1, FALSE, "read")
      BY <1>0, <3>3, TaskNames DEF Enter, Goto, LocalsOK
    <3>4. CASE Enter("rx", "auto", c.relay, c.relay, FALSE, "saveAuto")
      BY <1>0, <3>4, EnterOwn, TaskNames
    <3> QED BY <2>2, <3>1, <3>2, <3>3, <3>4
  <2>4. SameTask("main") /\ SameTask("tmr")
    BY <1>0, <2>2, EnterLocal, TaskNames
  <2>5. op["main"] = "none"
    BY <1>0, <1>1 DEF RxCommand, RxReady, MainLoops
  <2>6. RxLoops'
    BY <2>3 DEF RxLoops
  <2> QED BY <1>0, <2>4, <2>5, <2>6 DEF Loops, MainLoops, TmrLoops, SameTask
<1>2. CASE SaveAuto \/ ToggleRead
  <2>1. /\ \A u \in Tasks \ {"rx"} : SameTask(u)
        /\ pc["rx"] # "idle" /\ op'["rx"] = op["rx"]
        /\ \/ pc["rx"] = "saveAuto" /\ pc'["rx"] = "get"
           \/ pc["rx"] = "toggle" /\ pc'["rx"] = "set"
    <3>1. CASE SaveAuto
      BY <1>0, <3>1, JumpLocal, JumpOwn, TaskNames DEF SaveAuto
    <3>2. CASE ToggleRead
      BY <1>0, <3>2, TaskNames DEF ToggleRead, Goto, LocalsOK, SameTask
    <3> QED BY <1>2, <3>1, <3>2
  <2>2. op["main"] # "boot"
    BY <1>0, <2>1 DEF MainLoops
  <2>3. RxLoops'
    BY <1>0, <2>1 DEF RxLoops, RxRole
  <2>4. MainLoops' /\ TmrLoops'
    BY <1>0, <2>1, <2>2, TaskNames DEF MainLoops, TmrLoops, SameTask
  <2> QED BY <2>3, <2>4 DEF Loops
<1> QED BY <1>1, <1>2

LEMMA OtherLoops ==
  ASSUME LInv,
         \/ Step("health") \/ HealthTick \/ TimerCommand \/ Deliver \/ SendFails
         \/ Crash \/ Boot
  PROVE  Loops'
<1>0. LocalsOK /\ TypeOK /\ HealthRole /\ RxLoops /\ MainLoops /\ TmrLoops /\ Roles
  BY LoopsFacts
<1>1. CASE Step("health") \/ HealthTick \/ TimerCommand \/ Deliver \/ SendFails
  <2>1. UNCHANGED outputs /\ \A u \in Tasks \ {"health"} : SameTask(u)
    <3>1. CASE Step("health")
      BY <1>0, <3>1, StepLocal, HealthStep, TaskNames
    <3>2. CASE HealthTick
      BY <1>0, <3>2, TaskNames DEF HealthTick, CompareAndCopy, Goto, LocalsOK, SameTask
    <3>3. CASE TimerCommand \/ Deliver \/ SendFails
      BY <3>3 DEF TimerCommand, Deliver, SendFails, locals, SameTask
    <3> QED BY <1>1, <3>1, <3>2, <3>3
  <2>2. TmrLoops'
    BY <1>0, <2>1, TaskNames DEF TmrLoops, SameTask
  <2> QED BY <2>1, <2>2, RestLoops, TaskNames
<1>2. CASE Crash
  <2>1. \A t \in Tasks : pc'[t] = "idle" /\ op'[t] = "none"
    BY <1>2 DEF Crash, NoTask
  <2> QED BY <2>1, TaskNames DEF Loops, RxLoops, MainLoops, TmrLoops
<1>3. CASE Boot
  <2>1. Enter("main", "boot", 0, NumRelays - 1, TRUE, "get")
    BY <1>3 DEF Boot
  <2>4. pc["rx"] = "idle" /\ pc["tmr"] = "idle"
    BY <1>0, <1>3, TaskNames DEF Boot, Roles
  <2>2. SameTask("rx") /\ SameTask("tmr")
    BY <1>0, <2>1, EnterLocal, TaskNames
  <2>3. /\ pc'["main"] = "get" /\ op'["main"] = "boot" /\ val'["main"] = TRUE
        /\ upto'["main"] = NumRelays - 1
    BY <1>0, <2>1, TaskNames DEF Enter, Goto, LocalsOK
  <2> QED
    BY <1>0, <2>2, <2>3, <2>4 DEF Loops, RxLoops, MainLoops, TmrLoops, SameTask
<1> QED BY <1>1, <1>2, <1>3

LEMMA LoopsInv == LInv /\ [Next]_vars => LInv'
<1> SUFFICES ASSUME LInv, [Next]_vars PROVE LInv'
  OBVIOUS
<1>1. IInv'
  BY NextInv DEF LInv
<1>2. CASE UNCHANGED vars
  BY <1>1, <1>2 DEF vars, LInv, Loops, RxLoops, MainLoops, TmrLoops
<1>3. CASE Next
  BY <1>1, <1>3, RxLoopsStep, MainLoopsStep, TmrLoopsStep, RxOwnLoops, OtherLoops
     DEF Next, RxStep, LInv
<1> QED BY <1>2, <1>3

LEMMA LoopsInit == Init => LInv
<1> SUFFICES ASSUME Init PROVE Loops
  BY InitInv DEF LInv
<1>1. \A t \in Tasks : pc[t] = "idle" /\ op[t] = "none"
  BY DEF Init, NoTask
<1> QED BY <1>1, TaskNames DEF Loops, RxLoops, MainLoops, TmrLoops

THEOREM LoopsHold == Spec => []LInv
BY LoopsInit, LoopsInv, PTL DEF Spec
-----------------------------------------------------------------------------
(* What posting a command, and executing one, does to the future of a timer *)

LEMMA PostFacts ==
  ASSUME TypeOK, NEW c \in {"stop", "period", "start"}, NEW q \in Relays,
         NEW p \in Seconds, Post(c, q, p)
  PROVE  /\ Len(timerQ) \in Nat
         /\ \/ Len(timerQ) = TimerQueueLen /\ timerQ' = timerQ
            \/ /\ Len(timerQ') = Len(timerQ) + 1
               /\ \A i \in 1 .. Len(timerQ) : timerQ'[i] = timerQ[i]
               /\ timerQ'[Len(timerQ) + 1] = [cmd |-> c, relay |-> q, period |-> p]
<1>1. timerQ \in Seq(TimerCmds) /\ Len(timerQ) <= TimerQueueLen /\ Len(timerQ) \in Nat
  BY LenProperties DEF TypeOK
<1>2. [cmd |-> c, relay |-> q, period |-> p] \in TimerCmds
  BY DEF TimerCmds
<1> HIDE DEF TimerCmds
<1>3. CASE Len(timerQ) < TimerQueueLen
  <2>1. timerQ' = Append(timerQ, [cmd |-> c, relay |-> q, period |-> p])
    BY <1>3 DEF Post
  <2> QED BY <1>1, <1>2, <2>1, AppendProperties
<1>4. CASE ~(Len(timerQ) < TimerQueueLen)
  BY <1>1, <1>4, BoardAssumption DEF Post
<1> QED BY <1>1, <1>3, <1>4

LEMMA PostElsewhere ==
  ASSUME TypeOK, NEW c \in {"stop", "period", "start"}, NEW q \in Relays,
         NEW p \in Seconds, Post(c, q, p), UNCHANGED timer, NEW r, r # q
  PROVE  /\ WillRun(r) => WillRun(r)'
         /\ \A x : WillHavePeriod(r, x) => WillHavePeriod(r, x)'
<1>1. CASE timerQ' = timerQ
  BY <1>1 DEF WillRun, WillHavePeriod
<1>2. CASE /\ Len(timerQ) \in Nat /\ Len(timerQ') = Len(timerQ) + 1
           /\ \A i \in 1 .. Len(timerQ) : timerQ'[i] = timerQ[i]
           /\ timerQ'[Len(timerQ) + 1] = [cmd |-> c, relay |-> q, period |-> p]
  <2>1. WillRun(r) => WillRun(r)'
    <3>1. ASSUME NEW i \in 1 .. Len(timerQ), timerQ[i].relay = r, timerQ[i].cmd # "stop",
                 \A j \in i + 1 .. Len(timerQ) : timerQ[j].relay # r
          PROVE  WillRun(r)'
      <4>1. i \in 1 .. Len(timerQ') /\ timerQ'[i].relay = r /\ timerQ'[i].cmd # "stop"
        BY <1>2, <3>1
      <4>2. \A j \in i + 1 .. Len(timerQ') : timerQ'[j].relay # r
        BY <1>2, <3>1
      <4> QED BY <4>1, <4>2 DEF WillRun
    <3>2. ASSUME timer[r].running, \A i \in 1 .. Len(timerQ) : timerQ[i].relay # r
          PROVE  WillRun(r)'
      <4>1. \A i \in 1 .. Len(timerQ') : timerQ'[i].relay # r
        BY <1>2, <3>2
      <4> QED BY <3>2, <4>1 DEF WillRun
    <3> QED BY <3>1, <3>2 DEF WillRun
  <2>2. ASSUME NEW x, WillHavePeriod(r, x) PROVE WillHavePeriod(r, x)'
    <3>1. ASSUME NEW i \in 1 .. Len(timerQ), timerQ[i].relay = r, timerQ[i].cmd = "period",
                 timerQ[i].period = x,
                 \A j \in i + 1 .. Len(timerQ) : ~(timerQ[j].relay = r /\ timerQ[j].cmd = "period")
          PROVE  WillHavePeriod(r, x)'
      <4>1. i \in 1 .. Len(timerQ') /\ timerQ'[i].relay = r /\ timerQ'[i].cmd = "period"
            /\ timerQ'[i].period = x
        BY <1>2, <3>1
      <4>2. \A j \in i + 1 .. Len(timerQ') : ~(timerQ'[j].relay = r /\ timerQ'[j].cmd = "period")
        BY <1>2, <3>1
      <4> QED BY <4>1, <4>2 DEF WillHavePeriod
    <3>2. ASSUME timer[r].period = x,
                 \A i \in 1 .. Len(timerQ) : ~(timerQ[i].relay = r /\ timerQ[i].cmd = "period")
          PROVE  WillHavePeriod(r, x)'
      <4>1. \A i \in 1 .. Len(timerQ') : ~(timerQ'[i].relay = r /\ timerQ'[i].cmd = "period")
        BY <1>2, <3>2
      <4> QED BY <3>2, <4>1 DEF WillHavePeriod
    <3> QED BY <2>2, <3>1, <3>2 DEF WillHavePeriod
  <2> QED BY <2>1, <2>2
<1> QED BY <1>1, <1>2, PostFacts

LEMMA PostHere ==
  ASSUME TypeOK, NEW c \in {"stop", "period", "start"}, NEW r \in Relays,
         NEW p \in Seconds, Post(c, r, p), UNCHANGED timer, Len(timerQ) # TimerQueueLen
  PROVE  /\ c # "stop" => WillRun(r)'
         /\ c = "period" => WillHavePeriod(r, p)'
         /\ c # "period" => \A x : WillHavePeriod(r, x) => WillHavePeriod(r, x)'
<1> DEFINE n == Len(timerQ)
<1>1. /\ n \in Nat /\ Len(timerQ') = n + 1
      /\ \A i \in 1 .. n : timerQ'[i] = timerQ[i]
      /\ timerQ'[n + 1] = [cmd |-> c, relay |-> r, period |-> p]
  BY PostFacts
<1>2. n + 1 \in 1 .. Len(timerQ') /\ \A j \in n + 1 + 1 .. Len(timerQ') : FALSE
  BY <1>1
<1>3. c # "stop" => WillRun(r)'
  BY <1>1, <1>2 DEF WillRun
<1>4. c = "period" => WillHavePeriod(r, p)'
  BY <1>1, <1>2 DEF WillHavePeriod
<1>5. ASSUME c # "period", NEW x, WillHavePeriod(r, x)
      PROVE  WillHavePeriod(r, x)'
  <2>1. ASSUME NEW i \in 1 .. n, timerQ[i].relay = r, timerQ[i].cmd = "period",
               timerQ[i].period = x,
               \A j \in i + 1 .. n : ~(timerQ[j].relay = r /\ timerQ[j].cmd = "period")
        PROVE  WillHavePeriod(r, x)'
    <3>1. i \in 1 .. Len(timerQ') /\ timerQ'[i].relay = r /\ timerQ'[i].cmd = "period"
          /\ timerQ'[i].period = x
      BY <1>1, <2>1
    <3>2. \A j \in i + 1 .. Len(timerQ') : ~(timerQ'[j].relay = r /\ timerQ'[j].cmd = "period")
      BY <1>1, <1>5, <2>1
    <3> QED BY <3>1, <3>2 DEF WillHavePeriod
  <2>2. ASSUME timer[r].period = x,
               \A i \in 1 .. n : ~(timerQ[i].relay = r /\ timerQ[i].cmd = "period")
        PROVE  WillHavePeriod(r, x)'
    <3>1. \A i \in 1 .. Len(timerQ') : ~(timerQ'[i].relay = r /\ timerQ'[i].cmd = "period")
      BY <1>1, <1>5, <2>2
    <3> QED BY <2>2, <3>1 DEF WillHavePeriod
  <2> QED BY <1>5, <2>1, <2>2 DEF WillHavePeriod
<1> QED BY <1>3, <1>4, <1>5

LEMMA TimerCommandKeeps ==
  ASSUME TypeOK, TimerCommand, NEW r \in Relays
  PROVE  /\ WillRun(r) => WillRun(r)'
         /\ \A x : WillHavePeriod(r, x) => WillHavePeriod(r, x)'
<1> DEFINE n == Len(timerQ)
<1>1. timerQ \in Seq(TimerCmds) /\ timerQ # <<>>
      /\ timer \in [Relays -> [running : BOOLEAN, period : Seconds \cup {DefaultPeriod}]]
  BY DEF TypeOK, TimerCommand
<1>2. /\ n \in Nat /\ n > 0 /\ Head(timerQ) = timerQ[1] /\ Len(timerQ') = n - 1
      /\ \A i \in 1 .. n - 1 : timerQ'[i] = timerQ[i + 1]
  BY <1>1 DEF TimerCommand
<1>3. /\ timer'[r].running = IF timerQ[1].relay = r THEN timerQ[1].cmd # "stop"
                             ELSE timer[r].running
      /\ timer'[r].period = IF timerQ[1].relay = r /\ timerQ[1].cmd = "period"
                            THEN timerQ[1].period ELSE timer[r].period
  BY <1>1, <1>2 DEF TimerCommand
<1>4. WillRun(r) => WillRun(r)'
  <2>1. ASSUME NEW i \in 1 .. n, timerQ[i].relay = r, timerQ[i].cmd # "stop",
               \A j \in i + 1 .. n : timerQ[j].relay # r
        PROVE  WillRun(r)'
    <3>1. CASE i = 1
      <4>1. \A j \in 1 .. Len(timerQ') : timerQ'[j].relay # r
        BY <1>2, <2>1, <3>1
      <4> QED BY <1>3, <2>1, <3>1, <4>1 DEF WillRun
    <3>2. CASE i # 1
      <4>1. i - 1 \in 1 .. Len(timerQ') /\ timerQ'[i - 1] = timerQ[i]
        BY <1>2, <3>2
      <4>2. \A j \in i - 1 + 1 .. Len(timerQ') : timerQ'[j].relay # r
        BY <1>2, <2>1
      <4> QED BY <2>1, <4>1, <4>2 DEF WillRun
    <3> QED BY <3>1, <3>2
  <2>2. ASSUME timer[r].running, \A i \in 1 .. n : timerQ[i].relay # r
        PROVE  WillRun(r)'
    <3>1. \A i \in 1 .. Len(timerQ') : timerQ'[i].relay # r
      BY <1>2, <2>2
    <3> QED BY <1>2, <1>3, <2>2, <3>1 DEF WillRun
  <2> QED BY <2>1, <2>2 DEF WillRun
<1>5. ASSUME NEW x, WillHavePeriod(r, x) PROVE WillHavePeriod(r, x)'
  <2>1. ASSUME NEW i \in 1 .. n, timerQ[i].relay = r, timerQ[i].cmd = "period",
               timerQ[i].period = x,
               \A j \in i + 1 .. n : ~(timerQ[j].relay = r /\ timerQ[j].cmd = "period")
        PROVE  WillHavePeriod(r, x)'
    <3>1. CASE i = 1
      <4>1. \A j \in 1 .. Len(timerQ') : ~(timerQ'[j].relay = r /\ timerQ'[j].cmd = "period")
        BY <1>2, <2>1, <3>1
      <4> QED BY <1>3, <2>1, <3>1, <4>1 DEF WillHavePeriod
    <3>2. CASE i # 1
      <4>1. i - 1 \in 1 .. Len(timerQ') /\ timerQ'[i - 1] = timerQ[i]
        BY <1>2, <3>2
      <4>2. \A j \in i - 1 + 1 .. Len(timerQ') :
              ~(timerQ'[j].relay = r /\ timerQ'[j].cmd = "period")
        BY <1>2, <2>1
      <4> QED BY <2>1, <4>1, <4>2 DEF WillHavePeriod
    <3> QED BY <3>1, <3>2
  <2>2. ASSUME timer[r].period = x,
               \A i \in 1 .. n : ~(timerQ[i].relay = r /\ timerQ[i].cmd = "period")
        PROVE  WillHavePeriod(r, x)'
    <3>1. \A i \in 1 .. Len(timerQ') : ~(timerQ'[i].relay = r /\ timerQ'[i].cmd = "period")
      BY <1>2, <2>2
    <3>2. 1 \in 1 .. n
      BY <1>2
    <3> QED BY <1>3, <2>2, <3>1, <3>2 DEF WillHavePeriod
  <2> QED BY <1>5, <2>1, <2>2 DEF WillHavePeriod
<1> QED BY <1>4, <1>5
-----------------------------------------------------------------------------
(* CoverageKept, one lemma per task: a step keeps r covered, or is one of   *)
(* the two that may take its timer away.                                    *)

QueueFull(r) ==
  \E t \in {"main", "rx"} :
    cur[t] = r /\ pc[t] \in {"period", "start"} /\ Len(timerQ) = TimerQueueLen
StoppedLate(r) ==
  cur["tmr"] = r /\ pc["tmr"] = "stop" /\ pc'["tmr"] = "read" /\ outputs[r]

QueueKeeps(r) ==
  /\ WillRun(r) => WillRun(r)'
  /\ \A x : WillHavePeriod(r, x) => WillHavePeriod(r, x)'

\* Who covers r is not disturbed by a step that is nobody's who covers it.
LEMMA CoveredKept ==
  ASSUME NEW r, Covered(r), outputs'[r] => outputs[r], autoOff'[r] = autoOff[r],
         QueueKeeps(r),
         Starting(r) => Starting(r)' \/ Arming(r)' \/ WillRun(r)',
         Arming(r) => Arming(r)',
         TurningOff(r) => TurningOff(r)' \/ ~outputs'[r]
  PROVE  Covered(r)'
  BY DEF Covered, QueueKeeps

LEMMA QueueSame ==
  ASSUME NEW r, UNCHANGED <<timerQ, timer>>
  PROVE  QueueKeeps(r)
  BY DEF QueueKeeps, WillRun, WillHavePeriod

LEMMA PostAwayKeeps ==
  ASSUME TypeOK, NEW c \in {"stop", "period", "start"}, NEW q \in Relays,
         NEW p \in Seconds, Post(c, q, p), UNCHANGED timer, NEW r, r # q
  PROVE  QueueKeeps(r)
  BY PostElsewhere DEF QueueKeeps

\* Nobody but the timer itself covers r, so the queue has to.
LEMMA CoveredByQueue ==
  ASSUME NEW r, Covered(r), outputs[r], autoOff[r] > 0, UNCHANGED autoOff,
         ~Arming(r), ~Starting(r), ~TurningOff(r), QueueKeeps(r)
  PROVE  WillRun(r)' /\ WillHavePeriod(r, autoOff[r])'
  BY DEF Covered, QueueKeeps

LEMMA RxCoverage ==
  ASSUME LInv, Step("rx"), NEW r \in Relays, Covered(r), ~Covered(r)'
  PROVE  QueueFull(r)
<1>0. /\ TypeOK /\ RxRole /\ TmrRole /\ RxLoops /\ MainLoops
      /\ outputs \in [Relays -> BOOLEAN] /\ cur["rx"] \in Relays /\ val["rx"] \in BOOLEAN
      /\ autoOff \in [Relays -> Seconds]
  BY LoopsFacts, TaskNames
<1>1. Move("rx") /\ SameTask("main") /\ SameTask("tmr") /\ UNCHANGED <<autoOff, timer>>
  BY <1>0, StepMoves, TaskNames
<1>2. op["main"] # "boot" /\ pc["main"] = "idle" /\ op["rx"] \notin {"boot", "off"}
  <2>1. pc["rx"] # "idle"
    BY StepBusy, TaskNames
  <2>2. op["main"] # "boot"
    BY <1>0, <2>1 DEF MainLoops
  <2> QED BY <1>0, <2>2, LoopsFacts DEF RxRole, MainRole
<1>3. TurningOff(r) => TurningOff(r)'
  BY <1>1 DEF TurningOff, SameTask
<1>4. ~Arming(r)' /\ ~(\/ WillRun(r)' /\ WillHavePeriod(r, autoOff[r])'
                       \/ Starting(r)' /\ WillHavePeriod(r, autoOff[r])')
      /\ ~TurningOff(r) /\ outputs'[r] /\ autoOff[r] > 0
  BY <1>1, <1>3 DEF Covered
<1>5. CASE Sets("rx")
  <2>1. cur["rx"] = r => val["rx"]
    BY <1>0, <1>4, <1>5 DEF Sets
  <2>2. cur["rx"] # r
    BY <1>4, <1>5, <2>1 DEF Sets, Moved, Arming
  <2>3. ~Arming(r) /\ ~Starting(r) /\ outputs[r]
    BY <1>0, <1>2, <1>4, <1>5, <2>2 DEF Arming, Starting, Sets
  <2>4. QueueKeeps(r)
    BY <1>1, <1>5, QueueSame DEF Sets
  <2> QED BY <1>1, <1>4, <2>3, <2>4, CoveredByQueue
<1>6. CASE Stops("rx")
  <2>0. outputs[r] /\ 0 \in Seconds
    BY <1>4, <1>6, BoardAssumption DEF Stops, Seconds
  <2>1. cur["rx"] = r => val["rx"]
    BY <1>0, <1>6, <2>0 DEF Stops, RxLoops
  <2>2. cur["rx"] # r
    BY <1>4, <1>6, <2>1 DEF Stops, Moved, Arming
  <2>3. ~Arming(r) /\ ~Starting(r)
    BY <1>2, <2>2 DEF Arming, Starting
  <2>4. QueueKeeps(r)
    BY <1>0, <1>1, <1>6, <2>0, <2>2, PostAwayKeeps DEF Stops
  <2> QED BY <1>1, <1>4, <2>0, <2>3, <2>4, CoveredByQueue
<1>7. CASE Changes("rx")
  <2>0. outputs[r] /\ autoOff[cur["rx"]] \in Seconds
    BY <1>0, <1>4, <1>7 DEF Changes
  <2>1. CASE cur["rx"] = r
    <3>1. Starting(r)'
      BY <1>7, <2>1 DEF Changes, Moved, Starting
    <3>2. Len(timerQ) # TimerQueueLen => WillHavePeriod(r, autoOff[r])'
      BY <1>0, <1>1, <1>7, <2>0, <2>1, PostHere DEF Changes
    <3> QED BY <1>4, <1>7, <2>1, <3>1, <3>2 DEF Changes, QueueFull
  <2>2. CASE cur["rx"] # r
    <3>1. ~Arming(r) /\ ~Starting(r)
      BY <1>2, <2>2 DEF Arming, Starting
    <3>2. QueueKeeps(r)
      BY <1>0, <1>1, <1>7, <2>0, <2>2, PostAwayKeeps DEF Changes
    <3> QED BY <1>1, <1>4, <2>0, <3>1, <3>2, CoveredByQueue
  <2> QED BY <2>1, <2>2
<1>8. CASE Starts("rx")
  <2>0. outputs[r] /\ 0 \in Seconds /\ ~Arming(r)
    BY <1>2, <1>4, <1>8, BoardAssumption DEF Starts, Seconds, Arming
  <2>1. CASE cur["rx"] = r
    <3>1. WillHavePeriod(r, autoOff[r])
      BY <1>4, <2>0 DEF Covered
    <3>2. Len(timerQ) # TimerQueueLen => WillRun(r)' /\ WillHavePeriod(r, autoOff[r])'
      BY <1>0, <1>1, <1>8, <2>0, <2>1, <3>1, PostHere DEF Starts
    <3> QED BY <1>4, <1>8, <2>1, <3>2 DEF Starts, QueueFull
  <2>2. CASE cur["rx"] # r
    <3>1. ~Starting(r)
      BY <1>2, <2>2 DEF Starting
    <3>2. QueueKeeps(r)
      BY <1>0, <1>1, <1>8, <2>0, <2>2, PostAwayKeeps DEF Starts
    <3> QED BY <1>1, <1>4, <2>0, <3>1, <3>2, CoveredByQueue
  <2> QED BY <2>1, <2>2
<1>9. CASE Gets("rx")
  <2>0. outputs[r] /\ op["rx"] = "auto"
    BY <1>0, <1>4, <1>9 DEF Gets, RxRole
  <2>1. cur["rx"] # r
    BY <1>4, <1>9, <2>0 DEF Gets, Arming
  <2>2. ~Arming(r) /\ ~Starting(r)
    BY <1>2, <2>1 DEF Arming, Starting
  <2>3. QueueKeeps(r)
    BY <1>1, <1>9, QueueSame DEF Gets
  <2> QED BY <1>1, <1>4, <2>0, <2>2, <2>3, CoveredByQueue
<1>10. CASE Reads("rx") \/ Sends("rx")
  <2>0. outputs[r] /\ ~Arming(r) /\ ~Starting(r)
    BY <1>2, <1>4, <1>10 DEF Reads, Sends, Arming, Starting
  <2>1. QueueKeeps(r)
    BY <1>1, <1>10, QueueSame DEF Reads, Sends
  <2> QED BY <1>1, <1>4, <2>0, <2>1, CoveredByQueue
<1>11. CASE Writes("rx")
  BY <1>0, <1>11 DEF Writes, RxRole
<1> QED BY <1>1, <1>5, <1>6, <1>7, <1>8, <1>9, <1>10, <1>11 DEF Move

LEMMA MainCoverage ==
  ASSUME LInv, Step("main"), NEW r \in Relays, Covered(r), ~Covered(r)'
  PROVE  QueueFull(r)
<1>0. /\ TypeOK /\ MainRole /\ MainLoops /\ RxLoops /\ op["main"] = "boot"
      /\ outputs \in [Relays -> BOOLEAN] /\ cur["main"] \in Relays
      /\ cur["main"] \in Int /\ upto["main"] \in Int /\ r \in Int /\ NumRelays \in Int
      /\ r <= NumRelays - 1
      /\ autoOff \in [Relays -> Seconds]
  BY LoopsFacts, TaskNames, StepBusy, BoardAssumption DEF MainRole, Relays
<1>1. /\ Move("main") /\ SameTask("rx") /\ SameTask("tmr")
      /\ UNCHANGED <<autoOff, timer, outputs>>
  BY <1>0, StepMoves, MainStep, TaskNames
<1>2. val["main"] /\ upto["main"] = NumRelays - 1 /\ pc["rx"] = "idle"
  BY <1>0 DEF MainLoops
<1>3. TurningOff(r) => TurningOff(r)'
  BY <1>1 DEF TurningOff, SameTask
<1>4. ~Arming(r)' /\ ~(\/ WillRun(r)' /\ WillHavePeriod(r, autoOff[r])'
                       \/ Starting(r)' /\ WillHavePeriod(r, autoOff[r])')
      /\ ~TurningOff(r) /\ outputs[r] /\ autoOff[r] > 0
  BY <1>1, <1>3 DEF Covered
<1>5. cur["main"] >= r
  <2>1. SUFFICES ASSUME cur["main"] < r PROVE Arming(r)'
    BY <1>0, <1>4
  <2>2. \/ Moved("main", "stop") \/ Moved("main", "period") \/ Moved("main", "start")
        \/ Advanced("main", "get")
    BY <1>0, <1>1 DEF Move, Sets, Stops, Changes, Starts, Gets, Reads, Sends, Writes,
       TimerDone, MainRole
  <2>3. \/ cur'["main"] = cur["main"] /\ op'["main"] = "boot"
        \/ cur'["main"] = cur["main"] + 1 /\ op'["main"] = "boot" /\ pc'["main"] = "get"
    <3>1. cur["main"] < upto["main"]
      BY <1>0, <1>2, <2>1
    <3> QED BY <1>0, <2>2, <3>1 DEF Moved, Advanced
  <2> QED BY <1>0, <2>1, <2>3 DEF Arming
<1>6. CASE Stops("main")
  <2>0. 0 \in Seconds
    BY BoardAssumption DEF Seconds
  <2>1. cur["main"] # r
    BY <1>0, <1>2, <1>4, <1>6 DEF Stops, Moved, Arming
  <2>2. ~Arming(r) /\ ~Starting(r)
    BY <1>0, <1>2, <1>5, <1>6, <2>1, TaskNames DEF Arming, Starting, Stops, RxLoops
  <2>3. QueueKeeps(r)
    BY <1>0, <1>1, <1>6, <2>0, <2>1, PostAwayKeeps DEF Stops
  <2> QED BY <1>1, <1>4, <2>2, <2>3, CoveredByQueue
<1>7. CASE Changes("main")
  <2>0. autoOff[cur["main"]] \in Seconds
    BY <1>0
  <2>1. CASE cur["main"] = r
    <3>1. Starting(r)'
      BY <1>7, <2>1 DEF Changes, Moved, Starting
    <3>2. Len(timerQ) # TimerQueueLen => WillHavePeriod(r, autoOff[r])'
      BY <1>0, <1>1, <1>7, <2>0, <2>1, PostHere DEF Changes
    <3> QED BY <1>4, <1>7, <2>1, <3>1, <3>2 DEF Changes, QueueFull
  <2>2. CASE cur["main"] # r
    <3>1. ~Arming(r) /\ ~Starting(r)
      BY <1>0, <1>2, <1>5, <2>2 DEF Arming, Starting, RxLoops
    <3>2. QueueKeeps(r)
      BY <1>0, <1>1, <1>7, <2>0, <2>2, PostAwayKeeps DEF Changes
    <3> QED BY <1>1, <1>4, <3>1, <3>2, CoveredByQueue
  <2> QED BY <2>1, <2>2
<1>8. CASE Starts("main")
  <2>0. 0 \in Seconds /\ ~Arming(r)
    BY <1>0, <1>2, <1>5, <1>8, BoardAssumption DEF Starts, Seconds, Arming
  <2>1. CASE cur["main"] = r
    <3>1. WillHavePeriod(r, autoOff[r])
      BY <1>4, <2>0 DEF Covered
    <3>2. Len(timerQ) # TimerQueueLen => WillRun(r)' /\ WillHavePeriod(r, autoOff[r])'
      BY <1>0, <1>1, <1>8, <2>0, <2>1, <3>1, PostHere DEF Starts
    <3> QED BY <1>4, <1>8, <2>1, <3>2 DEF Starts, QueueFull
  <2>2. CASE cur["main"] # r
    <3>1. ~Starting(r)
      BY <1>2, <2>2 DEF Starting
    <3>2. QueueKeeps(r)
      BY <1>0, <1>1, <1>8, <2>0, <2>2, PostAwayKeeps DEF Starts
    <3> QED BY <1>1, <1>4, <2>0, <3>1, <3>2, CoveredByQueue
  <2> QED BY <2>1, <2>2
<1>9. CASE Gets("main")
  <2>1. cur["main"] # r
    BY <1>0, <1>4, <1>9 DEF Gets, Moved, Arming
  <2>2. ~Arming(r) /\ ~Starting(r)
    BY <1>0, <1>2, <1>5, <2>1 DEF Arming, Starting
  <2>3. QueueKeeps(r)
    BY <1>1, <1>9, QueueSame DEF Gets
  <2> QED BY <1>1, <1>4, <2>2, <2>3, CoveredByQueue
<1>10. CASE Sets("main") \/ Reads("main") \/ Sends("main") \/ Writes("main")
  BY <1>0, <1>10 DEF Sets, Reads, Sends, Writes, MainRole
<1> QED BY <1>1, <1>6, <1>7, <1>8, <1>9, <1>10 DEF Move

LEMMA TmrCoverage ==
  ASSUME LInv, Step("tmr"), NEW r \in Relays, Covered(r), ~Covered(r)'
  PROVE  StoppedLate(r)
<1>0. /\ TypeOK /\ TmrRole /\ TmrLoops /\ op["tmr"] = "off"
      /\ outputs \in [Relays -> BOOLEAN] /\ cur["tmr"] \in Relays
  BY LoopsFacts, TaskNames, StepBusy DEF TmrRole
<1>1. /\ Move("tmr") /\ SameTask("rx") /\ SameTask("main")
      /\ UNCHANGED <<autoOff, timer>> /\ (outputs'[r] => outputs[r])
  BY <1>0, StepMoves, TmrSharedStep, TaskNames
<1>2. (Arming(r) => Arming(r)') /\ (Starting(r) => Starting(r)')
  BY <1>1 DEF Arming, Starting, SameTask
<1>3. outputs'[r] /\ outputs[r] /\ (QueueKeeps(r) => TurningOff(r) /\ ~TurningOff(r)')
  BY <1>1, <1>2 DEF Covered, QueueKeeps
<1>4. CASE Sets("tmr")
  <2>1. QueueKeeps(r)
    BY <1>1, <1>4, QueueSame DEF Sets
  <2> QED BY <1>0, <1>3, <1>4, <2>1 DEF Sets, TurningOff, TmrRole
<1>5. CASE Stops("tmr")
  <2>1. Moved("tmr", "read")
    BY <1>0, <1>5 DEF Stops, TmrRole, TimerDone
  <2>2. 0 \in Seconds
    BY BoardAssumption DEF Seconds
  <2>3. cur["tmr"] # r => QueueKeeps(r)
    BY <1>0, <1>1, <1>5, <2>2, PostAwayKeeps DEF Stops
  <2>4. ~TurningOff(r)
    BY <1>5 DEF Stops, TurningOff
  <2> QED BY <1>3, <1>5, <2>1, <2>3, <2>4 DEF Stops, Moved, StoppedLate
<1>6. CASE Changes("tmr") \/ Starts("tmr")
  BY <1>0, <1>6 DEF Changes, Starts, TmrLoops
<1>7. CASE Gets("tmr")
  <2>1. QueueKeeps(r)
    BY <1>1, <1>7, QueueSame DEF Gets
  <2> QED BY <1>0, <1>3, <1>7, <2>1 DEF Gets, Moved, TurningOff
<1>8. CASE Reads("tmr") \/ Sends("tmr") \/ Writes("tmr")
  <2>1. QueueKeeps(r) /\ ~TurningOff(r)
    BY <1>1, <1>8, QueueSame DEF Reads, Sends, Writes, TurningOff
  <2> QED BY <1>3, <2>1
<1> QED BY <1>1, <1>4, <1>5, <1>6, <1>7, <1>8 DEF Move

LEMMA RxOwnCoverage ==
  ASSUME LInv, RxCommand \/ SaveAuto \/ ToggleRead, NEW r \in Relays, Covered(r)
  PROVE  Covered(r)'
<1>0. LocalsOK /\ RxRole /\ RxLoops /\ MainRole /\ MainLoops
      /\ autoOff \in [Relays -> Seconds]
  BY LoopsFacts
<1>1. CASE RxCommand
  <2>1. PICK c \in Commands : RxToggle(c) \/ RxSet(c) \/ RxSync(c) \/ RxAutoOff(c)
    BY <1>1 DEF RxCommand
  <2>2. /\ UNCHANGED <<outputs, timer, timerQ>> /\ pc["rx"] = "idle"
        /\ op["rx"] = "none" /\ op["main"] = "none" /\ pc["main"] = "idle"
    BY <1>0, <1>1 DEF RxCommand, RxReady, RxLoops, MainLoops
  <2>3. CASE RxAutoOff(c) /\ c.relay = r
    <3>1. Enter("rx", "auto", r, r, FALSE, "saveAuto")
      BY <2>3 DEF RxAutoOff
    <3>2. Arming(r)'
      BY <1>0, <3>1, EnterOwn, TaskNames DEF Arming
    <3> QED BY <3>2 DEF Covered
  <2>4. CASE ~(RxAutoOff(c) /\ c.relay = r)
    <3>1. /\ autoOff'[r] = autoOff[r]
          /\ \/ Enter("rx", "toggle", c.relay, c.relay, FALSE, "toggle")
             \/ Enter("rx", "set", c.relay, c.relay, c.on, "set")
             \/ Enter("rx", "sync", 0, NumRelays - 1, FALSE, "read")
             \/ Enter("rx", "auto", c.relay, c.relay, FALSE, "saveAuto")
      BY <1>0, <2>1, <2>4 DEF RxToggle, RxSet, RxSync, RxAutoOff
    <3>2. SameTask("main") /\ SameTask("tmr")
      BY <1>0, <3>1, EnterLocal, TaskNames
    <3>3. ~Arming(r) /\ ~Starting(r) /\ (TurningOff(r) => TurningOff(r)')
      BY <2>2, <3>2 DEF Arming, Starting, TurningOff, SameTask
    <3> QED BY <2>2, <3>1, <3>3, QueueSame, CoveredKept
  <2> QED BY <2>3, <2>4
<1>2. CASE SaveAuto
  <2>1. UNCHANGED <<outputs, autoOff, timer, timerQ>> /\ Jump("rx", "get")
    BY <1>2 DEF SaveAuto
  <2>2. /\ pc["rx"] = "saveAuto" /\ pc'["rx"] = "get" /\ op["rx"] = "auto"
        /\ op'["rx"] = "auto" /\ cur'["rx"] = cur["rx"]
    BY <1>0, <1>2, <2>1, JumpOwn, TaskNames DEF SaveAuto, RxRole
  <2>3. SameTask("main") /\ SameTask("tmr")
    BY <1>0, <2>1, JumpLocal, TaskNames
  <2>4. /\ Starting(r) => Starting(r)'
        /\ Arming(r) => Arming(r)'
        /\ TurningOff(r) => TurningOff(r)'
    BY <2>2, <2>3 DEF Arming, Starting, TurningOff, SameTask
  <2> QED BY <2>1, <2>4, QueueSame, CoveredKept
<1>3. CASE ToggleRead
  <2>1. UNCHANGED <<outputs, autoOff, timer, timerQ>> /\ pc["rx"] = "toggle"
        /\ SameTask("main") /\ SameTask("tmr")
    BY <1>0, <1>3, TaskNames DEF ToggleRead, Goto, LocalsOK, SameTask
  <2>2. /\ Starting(r) => Starting(r)'
        /\ Arming(r) => Arming(r)'
        /\ TurningOff(r) => TurningOff(r)'
    BY <1>0, <2>1 DEF Arming, Starting, TurningOff, SameTask, RxRole
  <2> QED BY <2>1, <2>2, QueueSame, CoveredKept
<1> QED BY <1>1, <1>2, <1>3

LEMMA TmrOwnCoverage ==
  ASSUME LInv, NEW r \in Relays, Covered(r),
         \/ CallbackCheck \/ CallbackSave \/ CallbackSaveSkipped
         \/ \E q \in Relays : Expire(q)
  PROVE  Covered(r)'
<1>0. LocalsOK /\ TypeOK /\ TmrRole /\ TmrLoops /\ autoOff \in [Relays -> Seconds]
  BY LoopsFacts
<1>1. CASE CallbackCheck \/ CallbackSave \/ CallbackSaveSkipped
  <2>1. /\ UNCHANGED <<outputs, autoOff, timer, timerQ>>
        /\ SameTask("rx") /\ SameTask("main")
    BY <1>0, <1>1, TmrOwnStep, TaskNames
       DEF CallbackCheck, CallbackSave, CallbackSaveSkipped, CompareAndCopy
  <2>2. CASE TurningOff(r) /\ autoOff[r] > 0
    <3>1. CallbackCheck
      BY <1>1, <2>2 DEF CallbackSave, CallbackSaveSkipped, TurningOff
    <3>2. Jump("tmr", "get")
      BY <2>2, <3>1 DEF CallbackCheck, TurningOff
    <3>3. TurningOff(r)'
      BY <1>0, <2>2, <3>2, JumpOwn, TaskNames DEF TurningOff
    <3> QED BY <3>3 DEF Covered
  <2>3. CASE ~(TurningOff(r) /\ autoOff[r] > 0)
    <3>1. (Starting(r) => Starting(r)') /\ (Arming(r) => Arming(r)')
      BY <2>1 DEF Arming, Starting, SameTask
    <3>2. QueueKeeps(r)
      BY <2>1, QueueSame
    <3> QED BY <2>1, <2>3, <3>1, <3>2 DEF Covered, QueueKeeps
  <2> QED BY <2>2, <2>3
<1>2. ASSUME NEW q \in Relays, Expire(q) PROVE Covered(r)'
  <2>1. /\ UNCHANGED <<outputs, autoOff, timerQ>> /\ pc["tmr"] = "idle"
        /\ Enter("tmr", "off", q, q, FALSE, "check")
        /\ timer' = [timer EXCEPT ![q].running = FALSE]
    BY <1>2 DEF Expire
  <2>2. SameTask("rx") /\ SameTask("main")
    BY <1>0, <2>1, EnterLocal, TaskNames
  <2>3. CASE q = r
    <3>1. TurningOff(r)'
      BY <1>0, <2>1, <2>3, TaskNames DEF Enter, Goto, LocalsOK, TurningOff
    <3> QED BY <3>1 DEF Covered
  <2>4. CASE q # r
    <3>1. timer'[r] = timer[r]
      BY <1>0, <2>1, <2>4 DEF TypeOK
    <3>2. QueueKeeps(r)
      BY <2>1, <3>1 DEF QueueKeeps, WillRun, WillHavePeriod
    <3>3. (Starting(r) => Starting(r)') /\ (Arming(r) => Arming(r)') /\ ~TurningOff(r)
      BY <2>1, <2>2 DEF Arming, Starting, TurningOff, SameTask
    <3> QED BY <2>1, <3>2, <3>3, CoveredKept
  <2> QED BY <2>3, <2>4
<1> QED BY <1>1, <1>2

LEMMA OtherCoverage ==
  ASSUME LInv, NEW r \in Relays, Covered(r),
         \/ Step("health") \/ HealthTick \/ TimerCommand \/ Deliver \/ SendFails
         \/ Crash \/ Boot
  PROVE  Covered(r)'
<1>0. LocalsOK /\ TypeOK /\ HealthRole
  BY LoopsFacts
<1>1. CASE Step("health") \/ HealthTick \/ TimerCommand \/ Deliver \/ SendFails
  <2>1. /\ UNCHANGED <<outputs, autoOff>> /\ \A u \in Tasks \ {"health"} : SameTask(u)
        /\ QueueKeeps(r)
    <3>1. CASE Step("health")
      <4>1. UNCHANGED <<timerQ, timer>>
        BY <1>0, <3>1, StepMoves, TaskNames
           DEF Move, Sets, Stops, Changes, Starts, Gets, Reads, Sends, Writes, HealthRole
      <4> QED BY <1>0, <3>1, <4>1, StepMoves, HealthStep, QueueSame, TaskNames
    <3>2. CASE HealthTick
      <4>1. UNCHANGED <<outputs, autoOff, timerQ, timer>>
            /\ \A u \in Tasks \ {"health"} : SameTask(u)
        BY <1>0, <3>2, TaskNames DEF HealthTick, CompareAndCopy, Goto, LocalsOK, SameTask
      <4> QED BY <4>1, QueueSame
    <3>3. CASE TimerCommand
      BY <1>0, <3>3, TimerCommandKeeps DEF TimerCommand, locals, SameTask, QueueKeeps
    <3>4. CASE Deliver \/ SendFails
      <4>1. UNCHANGED <<outputs, autoOff, timerQ, timer, locals>>
        BY <3>4 DEF Deliver, SendFails
      <4> QED BY <4>1, QueueSame DEF locals, SameTask
    <3> QED BY <1>1, <3>1, <3>2, <3>3, <3>4
  <2>2. SameTask("rx") /\ SameTask("main") /\ SameTask("tmr")
    BY <2>1, TaskNames
  <2>3. /\ Starting(r) => Starting(r)'
        /\ Arming(r) => Arming(r)'
        /\ TurningOff(r) => TurningOff(r)'
    BY <2>2 DEF Arming, Starting, TurningOff, SameTask
  <2> QED BY <2>1, <2>3, CoveredKept
<1>2. CASE Crash
  BY <1>2 DEF Crash, AllOff, Covered
<1>3. CASE Boot
  <2>1. Enter("main", "boot", 0, NumRelays - 1, TRUE, "get")
    BY <1>3 DEF Boot
  <2>2. op'["main"] = "boot" /\ pc'["main"] = "get" /\ cur'["main"] = 0
    BY <1>0, <2>1, TaskNames DEF Enter, Goto, LocalsOK
  <2>3. 0 < r \/ 0 = r
    BY BoardAssumption DEF Relays
  <2> QED BY <2>2, <2>3 DEF Arming, Covered
<1> QED BY <1>1, <1>2, <1>3

LEMMA CoverageStep ==
  ASSUME LInv, [Next]_vars, NEW r \in Relays, Covered(r), ~Covered(r)'
  PROVE  QueueFull(r) \/ StoppedLate(r)
<1>1. CASE UNCHANGED vars
  BY <1>1 DEF vars, Covered, WillRun, WillHavePeriod, Arming, Starting, TurningOff
<1>2. CASE Next
  BY <1>2, RxCoverage, MainCoverage, TmrCoverage, RxOwnCoverage, TmrOwnCoverage,
     OtherCoverage DEF Next, RxStep, TmrStep
<1> QED BY <1>1, <1>2

\* A relay that is ON with auto-off configured loses its timer only to a full
\* timer queue, or to a callback that stops it after a command has switched the
\* relay ON again: on any board, whatever the commands and however the tasks
\* interleave.
THEOREM CoverageKeptHolds == Spec => CoverageKept
<1>1. LInv /\ [Next]_vars =>
        \A r \in Relays :
          Covered(r) /\ ~Covered(r)' =>
            \/ \E t \in {"main", "rx"} :
                 cur[t] = r /\ pc[t] \in {"period", "start"} /\ Len(timerQ) = TimerQueueLen
            \/ cur["tmr"] = r /\ pc["tmr"] = "stop" /\ pc'["tmr"] = "read" /\ outputs[r]
  BY CoverageStep DEF QueueFull, StoppedLate
<1> QED BY <1>1, LoopsHold, PTL DEF Spec, CoverageKept
-----------------------------------------------------------------------------
(* ReportKept: what queueing a report, and sending one, does to the last    *)
(* report of a relay; then one lemma per task.                              *)

LEMMA SendFacts ==
  ASSUME TypeOK, NEW q \in Relays, NEW v \in BOOLEAN,
         txQ' = Append(txQ, [relay |-> q, on |-> v])
  PROVE  /\ Len(txQ) \in Nat /\ Len(txQ') = Len(txQ) + 1
         /\ \A i \in 1 .. Len(txQ) : txQ'[i] = txQ[i]
         /\ txQ'[Len(txQ) + 1] = [relay |-> q, on |-> v]
<1>1. txQ \in Seq(Reports) /\ [relay |-> q, on |-> v] \in Reports
  BY DEF TypeOK, Reports
<1> HIDE DEF Reports
<1> QED BY <1>1, AppendProperties, LenProperties

LEMMA SentHere ==
  ASSUME TypeOK, NEW r \in Relays, NEW v \in BOOLEAN,
         txQ' = Append(txQ, [relay |-> r, on |-> v])
  PROVE  LastReport(r, v)'
<1>1. /\ Len(txQ) \in Nat /\ Len(txQ') = Len(txQ) + 1
      /\ txQ'[Len(txQ) + 1] = [relay |-> r, on |-> v]
  BY SendFacts
<1>2. /\ Len(txQ) + 1 \in 1 .. Len(txQ')
      /\ \A j \in Len(txQ) + 1 + 1 .. Len(txQ') : txQ'[j].relay # r
  BY <1>1
<1> QED BY <1>1, <1>2 DEF LastReport

LEMMA SentElsewhere ==
  ASSUME TypeOK, NEW q \in Relays, NEW v \in BOOLEAN, UNCHANGED rootView,
         txQ' = Append(txQ, [relay |-> q, on |-> v]), NEW r, r # q, NEW x,
         LastReport(r, x)
  PROVE  LastReport(r, x)'
<1> DEFINE n == Len(txQ)
<1>1. /\ n \in Nat /\ Len(txQ') = n + 1
      /\ \A i \in 1 .. n : txQ'[i] = txQ[i]
      /\ txQ'[n + 1] = [relay |-> q, on |-> v]
  BY SendFacts
<1>2. ASSUME NEW i \in 1 .. n, txQ[i] = [relay |-> r, on |-> x],
             \A j \in i + 1 .. n : txQ[j].relay # r
      PROVE  LastReport(r, x)'
  <2>1. i \in 1 .. Len(txQ') /\ txQ'[i] = [relay |-> r, on |-> x]
    BY <1>1, <1>2
  <2>2. \A j \in i + 1 .. Len(txQ') : txQ'[j].relay # r
    BY <1>1, <1>2
  <2> QED BY <2>1, <2>2 DEF LastReport
<1>3. ASSUME rootView[r] = x, \A i \in 1 .. n : txQ[i].relay # r
      PROVE  LastReport(r, x)'
  <2>1. \A i \in 1 .. Len(txQ') : txQ'[i].relay # r
    BY <1>1, <1>3
  <2> QED BY <1>3, <2>1 DEF LastReport
<1> QED BY <1>2, <1>3 DEF LastReport

\* The head of the queue leaves it: the last report of r is the same one, unless
\* it was the head and got lost.
LEMMA HeadLeaves ==
  ASSUME TypeOK, txQ # <<>>, txQ' = Tail(txQ), NEW r \in Relays, NEW x, LastReport(r, x),
         \/ rootView' = [rootView EXCEPT ![Head(txQ).relay] = Head(txQ).on]
         \/ UNCHANGED rootView /\ Head(txQ).relay # r
  PROVE  LastReport(r, x)'
<1> DEFINE n == Len(txQ)
<1>1. txQ \in Seq(Reports) /\ rootView \in [Relays -> BOOLEAN]
  BY DEF TypeOK
<1>2. /\ n \in Nat /\ n > 0 /\ Head(txQ) = txQ[1] /\ Len(txQ') = n - 1
      /\ \A i \in 1 .. n - 1 : txQ'[i] = txQ[i + 1]
  BY <1>1
<1>3. /\ txQ[1].relay # r => rootView'[r] = rootView[r]
      /\ txQ[1].relay = r => rootView'[r] = txQ[1].on
  BY <1>1, <1>2
<1>4. ASSUME NEW i \in 1 .. n, txQ[i] = [relay |-> r, on |-> x],
             \A j \in i + 1 .. n : txQ[j].relay # r
      PROVE  LastReport(r, x)'
  <2>1. CASE i = 1
    <3>1. \A j \in 1 .. Len(txQ') : txQ'[j].relay # r
      BY <1>2, <1>4, <2>1
    <3> QED BY <1>3, <1>4, <2>1, <3>1 DEF LastReport
  <2>2. CASE i # 1
    <3>1. i - 1 \in 1 .. Len(txQ') /\ txQ'[i - 1] = [relay |-> r, on |-> x]
      BY <1>2, <1>4, <2>2
    <3>2. \A j \in i - 1 + 1 .. Len(txQ') : txQ'[j].relay # r
      BY <1>2, <1>4
    <3> QED BY <3>1, <3>2 DEF LastReport
  <2> QED BY <2>1, <2>2
<1>5. ASSUME rootView[r] = x, \A i \in 1 .. n : txQ[i].relay # r
      PROVE  LastReport(r, x)'
  <2>1. \A i \in 1 .. Len(txQ') : txQ'[i].relay # r
    BY <1>2, <1>5
  <2>2. 1 \in 1 .. n
    BY <1>2
  <2> QED BY <1>3, <1>5, <2>1, <2>2 DEF LastReport
<1> QED BY <1>4, <1>5 DEF LastReport

LEMMA LastReportSame ==
  ASSUME UNCHANGED <<txQ, rootView>>, NEW r, NEW x, LastReport(r, x)
  PROVE  LastReport(r, x)'
  BY DEF LastReport

\* A report that another task owes is still owed while the relay stays as it is.
LEMMA OwedByOther ==
  ASSUME NEW u, SameTask(u), NEW r, outputs'[r] = outputs[r], WillReport(u, r)
  PROVE  WillReport(u, r)'
  BY DEF WillReport, SameTask

\* The RX task and the callback: t is either, u the other.
LEMMA ReporterStep ==
  ASSUME LInv, NEW t \in {"rx", "tmr"}, Step(t), NEW r \in Relays,
         Reported(r), ~Reported(r)'
  PROVE  ReportLost(r)
<1>0. /\ TypeOK /\ LocalsOK /\ RxRole /\ TmrRole /\ RxLoops /\ TmrLoops /\ t \in Tasks
      /\ outputs \in [Relays -> BOOLEAN] /\ cur[t] \in Relays /\ val[t] \in BOOLEAN
      /\ cur[t] \in Int /\ upto[t] \in Int /\ r \in Int /\ NumRelays \in Int
      /\ r <= NumRelays - 1
  BY LoopsFacts, TaskNames, BoardAssumption DEF Relays
<1>1. /\ Move(t) /\ UNCHANGED rootView
      /\ \A u \in {"rx", "tmr"} : u # t => SameTask(u)
  BY <1>0, StepMoves, TaskNames
<1>2. ~LastReport(r, outputs[r])' /\ \A u \in {"rx", "tmr"} : ~WillReport(u, r)'
  BY DEF Reported
<1>3. /\ op[t] \in {"toggle", "set", "auto", "sync", "off"}
      /\ pc[t] = "set" => op[t] \in {"toggle", "set", "off"}
      /\ op[t] = "sync" => upto[t] = NumRelays - 1 /\ pc[t] \in {"read", "send"}
      /\ pc[t] = "get" => op[t] \in {"auto", "off"}
  BY <1>0, StepBusy DEF RxRole, TmrRole, RxLoops
<1>4. CASE Sets(t)
  <2>1. cur[t] # r
    BY <1>2, <1>3, <1>4 DEF Sets, Moved, WillReport
  <2>2. outputs'[r] = outputs[r] /\ UNCHANGED <<txQ, rootView>>
    BY <1>0, <1>1, <1>4, <2>1 DEF Sets
  <2>3. ~WillReport(t, r)
    BY <1>3, <1>4, <2>1 DEF Sets, WillReport
  <2> QED BY <1>1, <1>2, <2>2, <2>3, LastReportSame, OwedByOther DEF Reported
<1>5. CASE Stops(t) \/ Changes(t) \/ Starts(t) \/ Gets(t) \/ Reads(t) \/ Writes(t)
  <2>1. UNCHANGED <<outputs, txQ, rootView>>
    BY <1>1, <1>5 DEF Stops, Changes, Starts, Gets, Reads, Writes
  <2>2. WillReport(t, r) => WillReport(t, r)'
    <3>1. CASE Stops(t) \/ Starts(t)
      BY <1>3, <3>1 DEF Stops, Starts, TimerDone, Moved, WillReport
    <3>2. CASE Changes(t)
      BY <1>3, <3>2 DEF Changes, Moved, WillReport
    <3>3. CASE Gets(t) \/ Writes(t)
      BY <1>3, <3>3 DEF Gets, Writes, WillReport
    <3>4. CASE Reads(t)
      BY <3>4, <2>1 DEF Reads, WillReport
    <3> QED BY <1>5, <3>1, <3>2, <3>3, <3>4
  <2> QED BY <1>1, <1>2, <2>1, <2>2, LastReportSame, OwedByOther DEF Reported
<1>6. CASE Sends(t)
  <2>1. UNCHANGED <<outputs, rootView>> /\ pc[t] = "send" /\ pc'[t] # "send"
    BY <1>1, <1>6 DEF Sends, Moved, Advanced, Ended
  <2>2. CASE cur[t] = r
    <3>1. CASE UNCHANGED txQ \/ val[t] # outputs[r]
      BY <2>1, <2>2, <3>1 DEF ReportLost
    <3>2. CASE ~UNCHANGED txQ /\ val[t] = outputs[r]
      <4>1. txQ' = Append(txQ, [relay |-> r, on |-> val[t]])
        BY <1>6, <2>2, <3>2 DEF Sends
      <4>2. \A x : x = val[t] => LastReport(r, x)'
        BY <1>0, <2>2, <4>1, SentHere
      <4>3. outputs'[r] = val[t]
        BY <2>1, <3>2
      <4> QED BY <1>2, <4>2, <4>3 DEF LastReport
    <3> QED BY <3>1, <3>2
  <2>3. CASE cur[t] # r
    <3>1. LastReport(r, outputs[r]) => LastReport(r, outputs[r])'
      <4>1. CASE UNCHANGED txQ
        BY <2>1, <4>1 DEF LastReport
      <4>2. CASE txQ' = Append(txQ, [relay |-> cur[t], on |-> val[t]])
        <5>1. ASSUME LastReport(r, outputs[r]) PROVE LastReport(r, outputs[r])'
          <6>1. \A x : LastReport(r, x) => LastReport(r, x)'
            BY <1>0, <2>1, <2>3, <4>2, SentElsewhere
          <6> QED BY <2>1, <5>1, <6>1 DEF LastReport
        <5> QED BY <5>1
      <4> QED BY <1>6, <4>1, <4>2 DEF Sends
    <3>2. WillReport(t, r) => WillReport(t, r)'
      <4>1. SUFFICES ASSUME op[t] = "sync", cur[t] < r PROVE WillReport(t, r)'
        BY <2>1, <2>3 DEF WillReport
      <4>2. cur[t] < upto[t]
        BY <1>0, <1>3, <4>1
      <4>3. /\ op'[t] = "sync" /\ pc'[t] = "read" /\ cur'[t] = cur[t] + 1
        BY <1>0, <1>6, <4>1, <4>2 DEF Sends, Advanced
      <4> QED BY <1>0, <4>1, <4>3 DEF WillReport
    <3> QED BY <1>1, <1>2, <2>1, <3>1, <3>2, OwedByOther DEF Reported
  <2> QED BY <2>2, <2>3
<1> QED BY <1>1, <1>4, <1>5, <1>6 DEF Move

\* Every other step leaves the relays and the reports alone, except that the head
\* of the queue may leave it.
LEMMA OtherReports ==
  ASSUME LInv, NEW r \in Relays, Reported(r), ~Reported(r)', up, up',
         \/ RxCommand \/ SaveAuto \/ ToggleRead
         \/ CallbackCheck \/ CallbackSave \/ CallbackSaveSkipped
         \/ Step("main") \/ Step("health") \/ HealthTick
         \/ TimerCommand \/ (\E q \in Relays : Expire(q))
         \/ Deliver \/ SendFails \/ Crash \/ Boot
  PROVE  ReportLost(r)
<1>0. /\ TypeOK /\ LocalsOK /\ RxRole /\ TmrRole /\ MainRole /\ HealthRole
      /\ RxLoops /\ TmrLoops
  BY LoopsFacts
<1>1. ASSUME UNCHANGED <<outputs, txQ, rootView>>,
             WillReport("rx", r) => SameTask("rx"),
             WillReport("tmr", r) => SameTask("tmr")
      PROVE  FALSE
  BY <1>1, LastReportSame, OwedByOther DEF Reported
<1>2. CASE RxCommand
  <2>1. PICK c \in Commands : RxToggle(c) \/ RxSet(c) \/ RxSync(c) \/ RxAutoOff(c)
    BY <1>2 DEF RxCommand
  <2>2. /\ UNCHANGED <<outputs, txQ, rootView>> /\ pc["rx"] = "idle" /\ op["rx"] = "none"
    BY <1>0, <1>2 DEF RxCommand, RxReady, RxLoops
  <2>3. \/ Enter("rx", "toggle", c.relay, c.relay, FALSE, "toggle")
        \/ Enter("rx", "set", c.relay, c.relay, c.on, "set")
        \/ Enter("rx", "sync", 0, NumRelays - 1, FALSE, "read")
        \/ Enter("rx", "auto", c.relay, c.relay, FALSE, "saveAuto")
    BY <2>1 DEF RxToggle, RxSet, RxSync, RxAutoOff
  <2>4. SameTask("tmr")
    BY <1>0, <2>3, EnterLocal, TaskNames
  <2>5. ~WillReport("rx", r)
    BY <2>2 DEF WillReport
  <2> QED BY <1>1, <2>2, <2>4, <2>5
<1>3. CASE SaveAuto \/ ToggleRead
  <2>1. UNCHANGED <<outputs, txQ, rootView>> /\ SameTask("tmr")
        /\ pc["rx"] \in {"saveAuto", "toggle"}
    BY <1>0, <1>3, JumpLocal, TaskNames
       DEF SaveAuto, ToggleRead, Goto, LocalsOK, SameTask
  <2>2. ~WillReport("rx", r)
    BY <1>0, <2>1 DEF WillReport, RxRole
  <2> QED BY <1>1, <2>1, <2>2
<1>4. CASE CallbackCheck \/ CallbackSave \/ CallbackSaveSkipped
  <2>1. UNCHANGED <<outputs, txQ, rootView>> /\ SameTask("rx")
        /\ pc["tmr"] \in {"check", "save"}
    BY <1>0, <1>4, TmrOwnStep, TaskNames
       DEF CallbackCheck, CallbackSave, CallbackSaveSkipped, CompareAndCopy
  <2>2. ~WillReport("tmr", r)
    BY <1>0, <2>1 DEF WillReport, TmrRole
  <2> QED BY <1>1, <2>1, <2>2
<1>5. CASE Step("main") \/ Step("health")
  <2>1. UNCHANGED <<outputs, rootView>> /\ SameTask("rx") /\ SameTask("tmr")
    BY <1>0, <1>5, StepMoves, MainStep, HealthStep, TaskNames
  <2>2. UNCHANGED txQ
    BY <1>0, <1>5, StepMoves, TaskNames DEF Move, Sets, Stops, Changes, Starts, Gets,
       Reads, Sends, Writes, MainRole, HealthRole
  <2> QED BY <1>1, <2>1, <2>2
<1>6. CASE HealthTick
  <2>1. UNCHANGED <<outputs, txQ, rootView>> /\ SameTask("rx") /\ SameTask("tmr")
    BY <1>0, <1>6, TaskNames DEF HealthTick, CompareAndCopy, Goto, LocalsOK, SameTask
  <2> QED BY <1>1, <2>1
<1>7. CASE TimerCommand
  BY <1>1, <1>7 DEF TimerCommand, locals, SameTask
<1>8. ASSUME NEW q \in Relays, Expire(q) PROVE FALSE
  <2>1. /\ UNCHANGED <<outputs, txQ, rootView>> /\ op["tmr"] = "none" /\ pc["tmr"] = "idle"
        /\ Enter("tmr", "off", q, q, FALSE, "check")
    BY <1>0, <1>8 DEF Expire, TmrLoops
  <2>2. SameTask("rx")
    BY <1>0, <2>1, EnterLocal, TaskNames
  <2>3. ~WillReport("tmr", r)
    BY <2>1 DEF WillReport
  <2> QED BY <1>1, <2>1, <2>2, <2>3
<1>9. CASE Deliver \/ SendFails
  <2>1. /\ UNCHANGED <<outputs, locals>> /\ txQ # <<>> /\ txQ' = Tail(txQ)
        /\ \/ rootView' = [rootView EXCEPT ![Head(txQ).relay] = Head(txQ).on]
           \/ UNCHANGED rootView
    BY <1>9 DEF Deliver, SendFails
  <2>2. SameTask("rx") /\ SameTask("tmr")
    BY <2>1 DEF locals, SameTask
  <2>3. LastReport(r, outputs[r])
    BY <2>1, <2>2, OwedByOther DEF Reported
  <2>4. ASSUME ~ReportLost(r) PROVE FALSE
    <3>1. \/ rootView' = [rootView EXCEPT ![Head(txQ).relay] = Head(txQ).on]
          \/ UNCHANGED rootView /\ Head(txQ).relay # r
      BY <2>1, <2>4 DEF ReportLost
    <3>2. \A x : LastReport(r, x) => LastReport(r, x)'
      BY <1>0, <2>1, <3>1, HeadLeaves
    <3>3. LastReport(r, outputs[r])'
      BY <2>1, <2>3, <3>2 DEF LastReport
    <3> QED BY <3>3 DEF Reported
  <2> QED BY <2>4
<1>10. CASE Crash \/ Boot
  BY <1>10 DEF Crash, Boot
<1> QED BY <1>2, <1>3, <1>4, <1>5, <1>6, <1>7, <1>8, <1>9, <1>10

LEMMA ReportStep ==
  ASSUME LInv, [Next]_vars, NEW r \in Relays, up, up', Reported(r), ~Reported(r)'
  PROVE  ReportLost(r)
<1>1. CASE UNCHANGED vars
  BY <1>1 DEF vars, Reported, LastReport, WillReport
<1>2. CASE Next
  BY <1>2, ReporterStep, OtherReports DEF Next, RxStep, TmrStep
<1> QED BY <1>1, <1>2

\* Every change of a relay is followed by a report of its state: the root's
\* picture goes wrong only in a step that loses a report, on any board, whatever
\* the commands and however the tasks interleave.
THEOREM ReportKeptHolds == Spec => ReportKept
<1>1. LInv /\ [Next]_vars =>
        \A r \in Relays : up /\ up' /\ Reported(r) /\ ~Reported(r)' => ReportLost(r)
  BY ReportStep
<1> QED BY <1>1, LoopsHold, PTL DEF Spec, ReportKept
====
