----------------------------- MODULE RelayBoard -----------------------------
(***************************************************************************)
(* The relay board of uc/buttonsMeshIDF (node_relay.c): the output word,   *)
(* one auto-off software timer per relay, the copy of both kept in NVS     *)
(* flash, and the state reports sent to the root.                          *)
(*                                                                         *)
(* Four FreeRTOS tasks touch that state.  "main" is app_main, which        *)
(* restores the outputs and arms the timers before the other tasks exist;  *)
(* "rx" is mesh_rx_task, which executes the commands one at a time; "tmr"  *)
(* is the FreeRTOS timer service task, which both drains the timer command *)
(* queue and runs the auto-off callback; "health" is health_monitor_task,  *)
(* which saves the outputs every 5 s.  A section under g_relay_mutex is    *)
(* one step; whatever the code does after giving the mutex back is another *)
(* step, so every interleaving of the tasks between two sections happens.  *)
(***************************************************************************)
EXTENDS Integers, Sequences

CONSTANTS
  NumRelays,      \* MAX_RELAYS_8 or MAX_RELAYS_16
  MaxAutoOff,     \* MAX_AUTO_OFF_SECONDS
  Commands,       \* the commands the root may send
  DefaultPeriod,  \* the period the timers are created with
  TimerQueueLen,  \* length of FreeRTOS' timer command queue
  TxQueueLen      \* length of the queue of mesh_comm.c

ASSUME BoardAssumption ==
  /\ NumRelays \in Nat \ {0}
  /\ MaxAutoOff \in Nat \ {0}
  /\ Commands \subseteq [op : {"toggle", "set", "auto", "sync"},
                          relay : 0 .. NumRelays - 1, on : BOOLEAN, secs : Nat]
  /\ DefaultPeriod \in Nat \ {0}
  /\ TimerQueueLen \in Nat \ {0}
  /\ TxQueueLen \in Nat \ {0}

VARIABLES
  up,        \* the board has booted and not crashed since
  outputs,   \* g_relay_outputs, equal to the pins outside a mutex section
  autoOff,   \* g_auto_off_seconds
  timer,     \* each software timer: is it running, and its period
  timerQ,    \* FreeRTOS' timer command queue
  nvs,       \* the "outputs" word in flash (a missing key reads as all OFF)
  nvsAuto,   \* the "to_x" words in flash (a missing key reads as 0)
  txQ,       \* the RELAY_STATE messages waiting in the TX queue
  rootView,  \* the last state of each relay that reached the root
  pc, op, cur, upto, val, img   \* where each task is, and its locals

vars == <<up, outputs, autoOff, timer, timerQ, nvs, nvsAuto, txQ, rootView,
          pc, op, cur, upto, val, img>>
locals == <<pc, op, cur, upto, val, img>>

Relays == 0 .. NumRelays - 1
Tasks == {"main", "rx", "tmr", "health"}
AllOff == [r \in Relays |-> FALSE]
Seconds == 0 .. MaxAutoOff
TimerCmds == [cmd : {"stop", "period", "start"}, relay : Relays, period : Seconds]
Reports == [relay : Relays, on : BOOLEAN]

Labels == {"idle", "toggle", "set", "saveAuto", "check", "get", "stop", "period",
           "start", "read", "send", "save", "write"}
Operations == {"none", "toggle", "set", "auto", "sync", "off", "boot", "save"}

LocalsOK ==
  /\ pc \in [Tasks -> Labels]
  /\ op \in [Tasks -> Operations]
  /\ cur \in [Tasks -> Relays]
  /\ upto \in [Tasks -> Relays]
  /\ val \in [Tasks -> BOOLEAN]
  /\ img \in [Tasks -> [Relays -> BOOLEAN]]

\* Types of all state; the timeouts stay within MAX_AUTO_OFF_SECONDS, in RAM, in
\* flash and on their way to the timers, and the queues within their lengths.
TypeOK ==
  /\ up \in BOOLEAN
  /\ outputs \in [Relays -> BOOLEAN]
  /\ autoOff \in [Relays -> Seconds]
  /\ timer \in [Relays -> [running : BOOLEAN, period : Seconds \cup {DefaultPeriod}]]
  /\ timerQ \in Seq(TimerCmds) /\ Len(timerQ) <= TimerQueueLen
  /\ nvs \in [Relays -> BOOLEAN]
  /\ nvsAuto \in [Relays -> Seconds]
  /\ txQ \in Seq(Reports) /\ Len(txQ) <= TxQueueLen
  /\ rootView \in [Relays -> BOOLEAN]
  /\ LocalsOK
-----------------------------------------------------------------------------
(* The control of a task *)

Goto(t, label) == pc' = [pc EXCEPT ![t] = label]

\* The task is done: back to waiting, with its locals gone.
Done(t) ==
  /\ pc' = [pc EXCEPT ![t] = "idle"]
  /\ op' = [op EXCEPT ![t] = "none"]
  /\ cur' = [cur EXCEPT ![t] = 0]
  /\ upto' = [upto EXCEPT ![t] = 0]
  /\ val' = [val EXCEPT ![t] = FALSE]
  /\ img' = [img EXCEPT ![t] = AllOff]

\* The task starts operation o on relay r, at the given label.
Enter(t, o, r, last, v, label) ==
  /\ Goto(t, label)
  /\ op' = [op EXCEPT ![t] = o]
  /\ cur' = [cur EXCEPT ![t] = r]
  /\ upto' = [upto EXCEPT ![t] = last]
  /\ val' = [val EXCEPT ![t] = v]
  /\ UNCHANGED img

Jump(t, label) == Goto(t, label) /\ UNCHANGED <<op, cur, upto, val, img>>

\* The next relay of a loop over the relays, or the end of the loop.
NextRelay(t, label) ==
  IF cur[t] < upto[t]
  THEN /\ Goto(t, label)
       /\ cur' = [cur EXCEPT ![t] = @ + 1]
       /\ UNCHANGED <<op, upto, val, img>>
  ELSE Done(t)

\* Mutation: the callback does not confirm the state it has set.
AfterTimerSilentCallback(t) ==
  CASE op[t] \in {"toggle", "set"} -> Jump(t, "read")
    [] op[t] = "off" -> Jump(t, "save")
    [] op[t] = "boot" -> NextRelay(t, "get")
    [] OTHER -> Done(t)

\* What follows relay_update_auto_off_timer in each of its callers.
AfterTimer(t) ==
  CASE op[t] \in {"toggle", "set", "off"} -> Jump(t, "read")
    [] op[t] = "boot" -> NextRelay(t, "get")
    [] OTHER -> Done(t)

\* xTimerStop, xTimerChangePeriod, xTimerStart with no ticks to wait: a command
\* that finds the timer queue full is lost, and no caller looks at the result.
Post(c, r, p) ==
  timerQ' = IF Len(timerQ) < TimerQueueLen
            THEN Append(timerQ, [cmd |-> c, relay |-> r, period |-> p])
            ELSE timerQ
-----------------------------------------------------------------------------
(* relay_handle_command and SYNC_REQUEST, in mesh_rx_task *)

RxReady == up /\ pc["main"] = "idle" /\ pc["rx"] = "idle"

RxToggle(c) ==
  /\ c.op = "toggle"
  /\ Enter("rx", "toggle", c.relay, c.relay, FALSE, "toggle")
  /\ UNCHANGED autoOff

RxSet(c) ==
  /\ c.op = "set"
  /\ Enter("rx", "set", c.relay, c.relay, c.on, "set")
  /\ UNCHANGED autoOff

RxSync(c) ==
  /\ c.op = "sync"
  /\ Enter("rx", "sync", 0, NumRelays - 1, FALSE, "read")
  /\ UNCHANGED autoOff

\* Mutation: the timeout is stored as it came.
ClampForgotten(s) == s

\* "T": clamp, return when nothing changes, else store and go on to save it.
Clamp(s) == IF s > MaxAutoOff THEN MaxAutoOff ELSE s

RxAutoOff(c) ==
  /\ c.op = "auto"
  /\ autoOff[c.relay] # Clamp(c.secs)
  /\ autoOff' = [autoOff EXCEPT ![c.relay] = Clamp(c.secs)]
  /\ Enter("rx", "auto", c.relay, c.relay, FALSE, "saveAuto")

RxCommand ==
  /\ RxReady
  /\ \E c \in Commands : RxToggle(c) \/ RxSet(c) \/ RxSync(c) \/ RxAutoOff(c)
  /\ UNCHANGED <<up, outputs, timer, timerQ, nvs, nvsAuto, txQ, rootView>>

\* relay_save_auto_off_to_nvs; a flash error is only logged.
SaveAuto ==
  /\ pc["rx"] = "saveAuto"
  /\ nvsAuto' \in {nvsAuto, [nvsAuto EXCEPT ![cur["rx"]] = autoOff[cur["rx"]]]}
  /\ Jump("rx", "get")
  /\ UNCHANGED <<up, outputs, autoOff, timer, timerQ, nvs, txQ, rootView>>

\* relay_toggle reads the state in one mutex section and sets it in another.
ToggleRead ==
  /\ pc["rx"] = "toggle"
  /\ val' = [val EXCEPT !["rx"] = ~outputs[cur["rx"]]]
  /\ Goto("rx", "set")
  /\ UNCHANGED <<up, outputs, autoOff, timer, timerQ, nvs, nvsAuto, txQ, rootView,
                 op, cur, upto, img>>
-----------------------------------------------------------------------------
(* relay_set, relay_update_auto_off_timer, relay_send_state_confirmation:   *)
(* run by whichever task called them                                        *)

\* The mutex section of relay_set.
SetRelay(t) ==
  /\ pc[t] = "set"
  /\ outputs' = [outputs EXCEPT ![cur[t]] = val[t]]
  /\ Jump(t, "stop")
  /\ UNCHANGED <<up, autoOff, timer, timerQ, nvs, nvsAuto, txQ, rootView>>

StopTimer(t) ==
  /\ pc[t] = "stop"
  /\ Post("stop", cur[t], 0)
  /\ IF val[t] /\ autoOff[cur[t]] > 0 THEN Jump(t, "period") ELSE AfterTimer(t)
  /\ UNCHANGED <<up, outputs, autoOff, timer, nvs, nvsAuto, txQ, rootView>>

ChangePeriod(t) ==
  /\ pc[t] = "period"
  /\ Post("period", cur[t], autoOff[cur[t]])
  /\ Jump(t, "start")
  /\ UNCHANGED <<up, outputs, autoOff, timer, nvs, nvsAuto, txQ, rootView>>

StartTimer(t) ==
  /\ pc[t] = "start"
  /\ Post("start", cur[t], 0)
  /\ AfterTimer(t)
  /\ UNCHANGED <<up, outputs, autoOff, timer, nvs, nvsAuto, txQ, rootView>>

\* Mutation: a new timeout does not restart the timer of a relay that is ON.
GetStateWithoutRestart(t) ==
  /\ pc[t] = "get"
  /\ CASE op[t] = "auto" -> Done(t)
       [] op[t] = "boot" -> IF outputs[cur[t]] THEN Jump(t, "stop") ELSE NextRelay(t, "get")
       [] OTHER          -> IF outputs[cur[t]] THEN Jump(t, "set") ELSE Done(t)
  /\ UNCHANGED <<up, outputs, autoOff, timer, timerQ, nvs, nvsAuto, txQ, rootView>>

\* relay_get_state, in each of its callers: the auto-off setter passes the state
\* on to the timer, the boot loop arms only relays that are ON, the callback
\* gives up on a relay that is OFF.
GetState(t) ==
  /\ pc[t] = "get"
  /\ LET on == outputs[cur[t]] IN
     CASE op[t] = "auto" -> /\ val' = [val EXCEPT ![t] = on]
                            /\ Goto(t, "stop")
                            /\ UNCHANGED <<op, cur, upto, img>>
       [] op[t] = "boot" -> IF on THEN Jump(t, "stop") ELSE NextRelay(t, "get")
       [] OTHER          -> IF on THEN Jump(t, "set") ELSE Done(t)
  /\ UNCHANGED <<up, outputs, autoOff, timer, timerQ, nvs, nvsAuto, txQ, rootView>>

\* The confirmation reads the state, and only then enters the message.
ReadState(t) ==
  /\ pc[t] = "read"
  /\ val' = [val EXCEPT ![t] = outputs[cur[t]]]
  /\ Goto(t, "send")
  /\ UNCHANGED <<up, outputs, autoOff, timer, timerQ, nvs, nvsAuto, txQ, rootView,
                 op, cur, upto, img>>

AfterSend(t) == IF op[t] = "off" THEN Jump(t, "save") ELSE NextRelay(t, "read")

\* mesh_queue_to_node with normal priority: to the back of the queue.
SendReport(t) ==
  /\ pc[t] = "send"
  /\ Len(txQ) < TxQueueLen
  /\ txQ' = Append(txQ, [relay |-> cur[t], on |-> val[t]])
  /\ AfterSend(t)
  /\ UNCHANGED <<up, outputs, autoOff, timer, timerQ, nvs, nvsAuto, rootView>>

\* It queues nothing when a malloc fails, whatever the room, and when no place
\* comes free in time; no caller looks at the result.
DropReport(t) ==
  /\ pc[t] = "send"
  /\ AfterSend(t)
  /\ UNCHANGED <<up, outputs, autoOff, timer, timerQ, nvs, nvsAuto, txQ, rootView>>
-----------------------------------------------------------------------------
(* relay_save_states_to_nvs, in the callback and in health_monitor_task *)

\* The word is compared with flash and passed by value, without the mutex.
CompareAndCopy(t, next) ==
  /\ nvs # outputs
  /\ img' = [img EXCEPT ![t] = outputs]
  /\ Goto(t, "write")
  /\ op' = [op EXCEPT ![t] = next]
  /\ UNCHANGED <<up, outputs, autoOff, timer, timerQ, nvs, nvsAuto, txQ, rootView,
                 cur, upto, val>>

\* Mutation: an all-OFF board is taken for one that has nothing to save.
HealthTickWhenOn ==
  /\ up /\ pc["main"] = "idle" /\ pc["health"] = "idle"
  /\ outputs # AllOff
  /\ CompareAndCopy("health", "save")

\* The health task wakes up every 5 s; with nothing to save it does nothing.
HealthTick ==
  /\ up /\ pc["main"] = "idle" /\ pc["health"] = "idle"
  /\ CompareAndCopy("health", "save")

CallbackSave ==
  /\ pc["tmr"] = "save"
  /\ CompareAndCopy("tmr", op["tmr"])

CallbackSaveSkipped ==
  /\ pc["tmr"] = "save"
  /\ nvs = outputs
  /\ Done("tmr")
  /\ UNCHANGED <<up, outputs, autoOff, timer, timerQ, nvs, nvsAuto, txQ, rootView>>

WriteOutputs(t) ==
  /\ pc[t] = "write"
  /\ nvs' = img[t]
  /\ Done(t)
  /\ UNCHANGED <<up, outputs, autoOff, timer, timerQ, nvsAuto, txQ, rootView>>

\* A flash error: logged, and forgotten.
WriteFails(t) ==
  /\ pc[t] = "write"
  /\ Done(t)
  /\ UNCHANGED <<up, outputs, autoOff, timer, timerQ, nvs, nvsAuto, txQ, rootView>>
-----------------------------------------------------------------------------
(* The timer service task *)

\* One command of the queue.  Changing the period of a timer also starts it.
TimerCommand ==
  /\ up /\ pc["tmr"] = "idle" /\ timerQ # <<>>
  /\ LET c == Head(timerQ) IN
     timer' = [timer EXCEPT ![c.relay] =
                 [running |-> c.cmd # "stop",
                  period  |-> IF c.cmd = "period" THEN c.period ELSE @.period]]
  /\ timerQ' = Tail(timerQ)
  /\ UNCHANGED <<up, outputs, autoOff, nvs, nvsAuto, txQ, rootView, locals>>

\* Mutation: the callback drives its relay ON.
ExpireOn(r) ==
  /\ up /\ pc["tmr"] = "idle" /\ timer[r].running
  /\ timer' = [timer EXCEPT ![r].running = FALSE]
  /\ Enter("tmr", "off", r, r, TRUE, "check")
  /\ UNCHANGED <<up, outputs, autoOff, timerQ, nvs, nvsAuto, txQ, rootView>>

\* A running one-shot timer expires: it is dormant again, and its callback runs.
Expire(r) ==
  /\ up /\ pc["tmr"] = "idle" /\ timer[r].running
  /\ timer' = [timer EXCEPT ![r].running = FALSE]
  /\ Enter("tmr", "off", r, r, FALSE, "check")
  /\ UNCHANGED <<up, outputs, autoOff, timerQ, nvs, nvsAuto, txQ, rootView>>

\* Mutation: the test for a disabled auto-off is inverted.
CallbackCheckInverted ==
  /\ pc["tmr"] = "check"
  /\ IF autoOff[cur["tmr"]] > 0 THEN Done("tmr") ELSE Jump("tmr", "get")
  /\ UNCHANGED <<up, outputs, autoOff, timer, timerQ, nvs, nvsAuto, txQ, rootView>>

\* relay_auto_off_timer_callback: nothing to do when auto-off is now disabled.
CallbackCheck ==
  /\ pc["tmr"] = "check"
  /\ IF autoOff[cur["tmr"]] = 0 THEN Done("tmr") ELSE Jump("tmr", "get")
  /\ UNCHANGED <<up, outputs, autoOff, timer, timerQ, nvs, nvsAuto, txQ, rootView>>
-----------------------------------------------------------------------------
(* The TX task and the way to the root *)

Deliver ==
  /\ up /\ txQ # <<>>
  /\ rootView' = [rootView EXCEPT ![Head(txQ).relay] = Head(txQ).on]
  /\ txQ' = Tail(txQ)
  /\ UNCHANGED <<up, outputs, autoOff, timer, timerQ, nvs, nvsAuto, locals>>

\* esp_mesh_send fails: the message is freed and not sent again.
SendFails ==
  /\ up /\ txQ # <<>>
  /\ txQ' = Tail(txQ)
  /\ UNCHANGED <<up, outputs, autoOff, timer, timerQ, nvs, nvsAuto, rootView, locals>>
-----------------------------------------------------------------------------
(* Power loss, watchdog or OTA restart, and relay_init *)

NoTask(v) == [t \in Tasks |-> v]
NoTimers == [r \in Relays |-> [running |-> FALSE, period |-> DefaultPeriod]]

\* Flash holds whatever an earlier life of the board left there.
Init ==
  /\ up = FALSE
  /\ outputs = AllOff
  /\ autoOff = [r \in Relays |-> 0]
  /\ timer = NoTimers
  /\ timerQ = <<>>
  /\ txQ = <<>>
  /\ pc = NoTask("idle") /\ op = NoTask("none")
  /\ cur = NoTask(0) /\ upto = NoTask(0)
  /\ val = NoTask(FALSE) /\ img = NoTask(AllOff)
  /\ nvs \in [Relays -> BOOLEAN]
  /\ nvsAuto \in [Relays -> {0} \cup {Clamp(c.secs) : c \in Commands}]
  /\ \A r \in Relays : nvsAuto[r] > 0 => \E c \in Commands : c.relay = r
  /\ rootView = AllOff

Crash ==
  /\ up
  /\ up' = FALSE
  /\ outputs' = AllOff
  /\ autoOff' = [r \in Relays |-> 0]
  /\ timer' = NoTimers
  /\ timerQ' = <<>>
  /\ txQ' = <<>>
  /\ pc' = NoTask("idle") /\ op' = NoTask("none")
  /\ cur' = NoTask(0) /\ upto' = NoTask(0)
  /\ val' = NoTask(FALSE) /\ img' = NoTask(AllOff)
  /\ UNCHANGED <<nvs, nvsAuto, rootView>>

\* relay_load_states_from_nvs calls relay_set for every relay while
\* g_auto_off_seconds is still 0, which posts one stop per relay; n of them are
\* still queued when the auto-off values have been loaded and the loop that arms
\* the timers begins.
Boot ==
  /\ ~up
  /\ up' = TRUE
  /\ outputs' = nvs
  /\ autoOff' = nvsAuto
  /\ \E n \in 0 .. NumRelays :
       /\ n <= TimerQueueLen
       /\ timerQ' = [i \in 1 .. n |-> [cmd |-> "stop", relay |-> NumRelays - n + i - 1,
                                       period |-> 0]]
  /\ Enter("main", "boot", 0, NumRelays - 1, TRUE, "get")
  /\ UNCHANGED <<timer, nvs, nvsAuto, txQ, rootView>>
-----------------------------------------------------------------------------
\* A step inside a handler: it needs nothing but the processor.
Step(t) ==
  \/ SetRelay(t) \/ StopTimer(t) \/ ChangePeriod(t) \/ StartTimer(t)
  \/ GetState(t) \/ ReadState(t) \/ SendReport(t) \/ DropReport(t)
  \/ WriteOutputs(t) \/ WriteFails(t)

RxStep == SaveAuto \/ ToggleRead \/ Step("rx")
TmrStep == CallbackCheck \/ CallbackSave \/ CallbackSaveSkipped \/ Step("tmr")

Next ==
  \/ RxCommand \/ RxStep \/ TmrStep \/ Step("main") \/ Step("health")
  \/ HealthTick \/ TimerCommand \/ (\E r \in Relays : Expire(r))
  \/ Deliver \/ SendFails \/ Crash \/ Boot

Spec == Init /\ [][Next]_vars
\* The tasks run whenever they can; the health monitor ticks for ever; a running
\* timer expires and a queued message is sent, or fails to be; flash works again
\* at some point.  Nothing makes a command come, the board crash, or boot.
Fairness ==
  /\ WF_vars(RxStep) /\ WF_vars(TmrStep)
  /\ WF_vars(Step("main")) /\ WF_vars(Step("health"))
  /\ WF_vars(HealthTick) /\ SF_vars(WriteOutputs("health"))
  /\ WF_vars(TimerCommand) /\ \A r \in Relays : WF_vars(Expire(r))
  /\ WF_vars(Deliver \/ SendFails)

FairSpec == Spec /\ Fairness
-----------------------------------------------------------------------------
(* Toggle and set against the auto-off callback *)

\* A toggle that goes on to switch its relay ON still finds it OFF: between the
\* two mutex sections of relay_toggle the callback may switch a relay OFF and
\* nobody else may switch it ON, so a toggle never leaves a relay ON as it was.
ToggleNeverMisses ==
  pc["rx"] = "set" /\ op["rx"] = "toggle" /\ val["rx"] => ~outputs[cur["rx"]]

\* From the moment a command has switched a relay OFF until the command is
\* through with its timer, nothing switches the relay back ON (relay_set and its
\* two callers, the RX task and the callback).
OffStays ==
  /\ pc["rx"] \in {"stop", "period", "start", "read"}
  /\ op["rx"] \in {"toggle", "set"}
  /\ ~val["rx"]
  => ~outputs[cur["rx"]]
-----------------------------------------------------------------------------
(* Reports: "Send state confirmation messages to the root after every change" *)

\* The state of r at the root once the messages already queued have arrived.
LastReport(r, on) ==
  \/ \E i \in 1 .. Len(txQ) :
       /\ txQ[i] = [relay |-> r, on |-> on]
       /\ \A j \in i + 1 .. Len(txQ) : txQ[j].relay # r
  \/ rootView[r] = on /\ \A i \in 1 .. Len(txQ) : txQ[i].relay # r

\* Task t will yet read the state of r for a report, or is about to queue it.
WillReport(t, r) ==
  \/ /\ op[t] \in {"toggle", "set", "off"} /\ cur[t] = r
     /\ pc[t] \in {"stop", "period", "start", "read"}
  \/ op[t] = "sync" /\ cur[t] < r
  \/ op[t] = "sync" /\ cur[t] = r /\ pc[t] = "read"
  \/ pc[t] = "send" /\ cur[t] = r /\ val[t] = outputs[r]

Reported(r) ==
  \/ LastReport(r, outputs[r])
  \/ \E t \in {"rx", "tmr"} : WillReport(t, r)

\* This step loses the last report of r: a failed send, a report that is not
\* queued (no memory, or a full TX queue), or one queued after the state it
\* carries was changed by the other task.
ReportLost(r) ==
  \/ txQ # <<>> /\ txQ' = Tail(txQ) /\ Head(txQ).relay = r /\ UNCHANGED rootView
  \/ \E t \in {"rx", "tmr"} :
       /\ pc[t] = "send" /\ pc'[t] # "send" /\ cur[t] = r
       /\ (UNCHANGED txQ \/ val[t] # outputs[r])

\* Every change of a relay is followed by a report of its state: while the board
\* is up, the root's picture of a relay goes wrong only in a step that loses a
\* report (relay_handle_command, the callback, relay_send_state_confirmation).
ReportKept ==
  [][\A r \in Relays :
       up /\ up' /\ Reported(r) /\ ~Reported(r)' => ReportLost(r)]_vars
-----------------------------------------------------------------------------
(* Auto-off: a relay that is ON with auto-off configured has its timer *)

\* r's timer once the commands already queued have been executed.
WillRun(r) ==
  \/ \E i \in 1 .. Len(timerQ) :
       /\ timerQ[i].relay = r /\ timerQ[i].cmd # "stop"
       /\ \A j \in i + 1 .. Len(timerQ) : timerQ[j].relay # r
  \/ timer[r].running /\ \A i \in 1 .. Len(timerQ) : timerQ[i].relay # r

WillHavePeriod(r, p) ==
  LET sets(i) == timerQ[i].relay = r /\ timerQ[i].cmd = "period" IN
  \/ \E i \in 1 .. Len(timerQ) :
       /\ sets(i) /\ timerQ[i].period = p
       /\ \A j \in i + 1 .. Len(timerQ) : ~sets(j)
  \/ timer[r].period = p /\ \A i \in 1 .. Len(timerQ) : ~sets(i)

\* A task is on its way to start r's timer with the period configured now.
Arming(r) ==
  \/ /\ cur["rx"] = r
     /\ \/ op["rx"] = "auto" /\ pc["rx"] \in {"saveAuto", "get"}
        \/ pc["rx"] \in {"set", "stop"} /\ val["rx"]
        \/ pc["rx"] = "period"
  \/ /\ op["main"] = "boot"
     /\ \/ cur["main"] < r
        \/ cur["main"] = r /\ pc["main"] \in {"get", "stop", "period"}

Starting(r) == \E t \in {"main", "rx"} : cur[t] = r /\ pc[t] = "start"

\* The callback is on its way to switch r OFF.
TurningOff(r) == cur["tmr"] = r /\ pc["tmr"] \in {"check", "get", "set"}

Covered(r) ==
  outputs[r] /\ autoOff[r] > 0 =>
    \/ (WillRun(r) \/ Starting(r)) /\ WillHavePeriod(r, autoOff[r])
    \/ Arming(r)
    \/ TurningOff(r)

\* A relay that is ON with auto-off configured loses its timer in two ways only:
\* the timer queue is full when its start is posted, or the callback, which has
\* switched it OFF, stops the timer after a command has switched it ON again
\* (relay_set updates the timer after it has given the mutex back).
CoverageKept ==
  [][\A r \in Relays :
       Covered(r) /\ ~Covered(r)' =>
         \/ \E t \in {"main", "rx"} :
              cur[t] = r /\ pc[t] \in {"period", "start"} /\ Len(timerQ) = TimerQueueLen
         \/ cur["tmr"] = r /\ pc["tmr"] = "stop" /\ pc'["tmr"] = "read" /\ outputs[r]]_vars

\* What the auto-off setting of the user interface promises, refuted: with room
\* in the timer queue, a relay that is ON with auto-off configured has a timer
\* that will switch it OFF.
TimerNeverLost ==
  [][\A r \in Relays :
       Covered(r) /\ ~Covered(r)' => Len(timerQ) = TimerQueueLen]_vars

\* The tasks that could take the timer away again are all waiting.
Settled == up /\ \A t \in {"main", "rx", "tmr"} : pc[t] = "idle"

\* A relay that is ON and covered by its timer is eventually switched OFF by the
\* callback, unless a command or a restart comes first.
AutoOffHappens ==
  \A r \in Relays :
    (Settled /\ outputs[r] /\ autoOff[r] > 0 /\ Covered(r))
      ~> (~outputs[r] \/ pc["rx"] # "idle" \/ ~up)
-----------------------------------------------------------------------------
(* Persistence *)

\* Once the outputs stop changing and the board stays up, flash holds them: a
\* stale image that the callback writes late is overwritten by the health task.
SavedEventually ==
  <>[]up /\ <>[][UNCHANGED outputs]_vars => <>[](nvs = outputs)
====
