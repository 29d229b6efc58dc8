---------------------------- MODULE SwitchButtons ----------------------------
(***************************************************************************)
(* The buttons of a switch (node_switch.c) and of a relay board, whose     *)
(* task is the same (node_relay.c).  The interrupt handler of a pin only   *)
(* sets the button's bit in the notification value of the button task; the *)
(* task takes all bits, and for each of them reads the level and the time  *)
(* as they are by then.  It reports a change to the root unless the one    *)
(* before it was at most Debounce ago, and recognises the gesture that     *)
(* asks for an update: release, press again at once, hold for long.        *)
(*                                                                         *)
(* Times are uint32_t milliseconds: they wrap, and so do the differences   *)
(* the code takes.  The ages of the specification do not: they count ticks *)
(* up to Wrap, which stands for "a turn of the clock ago, or never".       *)
(***************************************************************************)
EXTENDS Integers

CONSTANTS
  Buttons,       \* the buttons, numbered; the task goes through them in order
  Debounce,      \* BUTTON_DEBOUNCE_MS
  OtaInterval,   \* BUTTON_PRESS_OTA_INTERVAL_MS
  LongPress,     \* LONG_PRESS_THRESHOLD_MS
  OtaThreshold,  \* BUTTON_PRESS_OTA_THRESHOLD_MS
  Wrap           \* 2^32, the number of values of the clock

ASSUME ButtonAssumption ==
  /\ Buttons \subseteq Nat
  /\ Debounce \in Nat /\ OtaInterval \in Nat /\ LongPress \in Nat
  /\ OtaThreshold \in Nat /\ Wrap \in Nat
  /\ Debounce + 1 < Wrap /\ OtaInterval < Wrap /\ LongPress < Wrap /\ OtaThreshold < Wrap

VARIABLES
  task,         \* where the button task is; "none" until it is created
  paused,       \* g_ota_in_progress
  now,          \* esp_timer_get_time() / 1000, as uint32_t
  level,        \* the level of each pin
  bits,         \* the notification value
  todo,         \* the bits taken and not yet looked at (notified_value)
  last,         \* last_state
  bounce,       \* last_bounce_time
  pressStart,   \* press_start_time
  lastRelease,  \* last_release_time
  requested,    \* g_ota_requested
  reported,     \* the level last reported to the root
  long,         \* the third byte of that report, which releases have
  isolated,     \* the last edge came alone: see Edge
  sinceSeen,    \* age of the last change the task has seen
  sincePress,   \* age of the last press reported
  sinceRelease, \* age of the last release reported
  again         \* the last press reported may have followed a release at once

times == <<bounce, pressStart, lastRelease>>
told == <<reported, long>>
ages == <<sinceSeen, sincePress, sinceRelease>>
vars == <<task, paused, now, level, bits, todo, last, times, requested, told,
          isolated, ages, again>>

Clock == 0 .. Wrap - 1
Level == {0, 1}

\* Mutation: signed arithmetic, as with int instead of uint32_t.
MinusSigned(a, b) == a - b

\* The difference of two uint32_t.
Minus(a, b) == IF a >= b THEN a - b ELSE a - b + Wrap

TypeOK ==
  /\ task \in {"none", "top", "wait", "work"}
  /\ paused \in BOOLEAN /\ requested \in BOOLEAN
  /\ now \in Clock
  /\ level \in [Buttons -> Level] /\ last \in [Buttons -> Level]
  /\ reported \in [Buttons -> Level] /\ long \in [Buttons -> BOOLEAN]
  /\ bits \subseteq Buttons /\ todo \subseteq Buttons
  /\ bounce \in [Buttons -> Clock]
  /\ pressStart \in [Buttons -> Clock] /\ lastRelease \in [Buttons -> Clock]
  /\ isolated \in [Buttons -> BOOLEAN] /\ again \in [Buttons -> BOOLEAN]
  /\ sinceSeen \in [Buttons -> 0 .. Wrap]
  /\ sincePress \in [Buttons -> 0 .. Wrap]
  /\ sinceRelease \in [Buttons -> 0 .. Wrap]

All(x) == [b \in Buttons |-> x]

\* button_init, the first milliseconds after power-on being over, with the buttons
\* as somebody left them.  What the root was told before is not known.
Init ==
  /\ task = "none" /\ paused = FALSE /\ requested = FALSE
  /\ now = Debounce + 1
  /\ bits = {} /\ todo = {}
  /\ level \in [Buttons -> Level] /\ last = level
  /\ bounce = All(0) /\ pressStart = All(0) /\ lastRelease = All(0)
  /\ isolated = All(FALSE) /\ again = All(TRUE)
  /\ sinceSeen = All(Debounce + 1)
  /\ sincePress = All(Wrap) /\ sinceRelease = All(Wrap)
  /\ reported \in [Buttons -> Level] /\ long = All(FALSE)

\* A restart: after an update, or because the power was cut.
Restart ==
  /\ task' = "none" /\ paused' = FALSE /\ requested' = FALSE
  /\ now' = Debounce + 1
  /\ bits' = {} /\ todo' = {}
  /\ \E levels \in [Buttons -> Level] : level' = levels /\ last' = levels
  /\ bounce' = All(0) /\ pressStart' = All(0) /\ lastRelease' = All(0)
  /\ isolated' = All(FALSE) /\ again' = All(TRUE)
  /\ sinceSeen' = All(Debounce + 1)
  /\ sincePress' = All(Wrap) /\ sinceRelease' = All(Wrap)
  /\ UNCHANGED told
-----------------------------------------------------------------------------
(* Time, hands, and the update *)

Older(age) == [b \in Buttons |-> IF age[b] = Wrap THEN Wrap ELSE age[b] + 1]

Pending(b) == b \in bits \cup todo

\* Mutation: the clock does not wrap.
TickOn ==
  /\ now < 2 * Wrap
  /\ now' = now + 1
  /\ UNCHANGED <<task, paused, level, bits, todo, last, times, requested, told, isolated,
                 ages, again>>

\* An edge the task leaves waiting for a turn of the clock is not isolated any more.
Tick ==
  /\ now' = IF now = Wrap - 1 THEN 0 ELSE now + 1
  /\ sinceSeen' = Older(sinceSeen)
  /\ sincePress' = Older(sincePress)
  /\ sinceRelease' = Older(sinceRelease)
  /\ isolated' = [b \in Buttons |->
                   isolated[b] /\ (Pending(b) => sinceSeen[b] < Wrap - 1)]
  /\ UNCHANGED <<task, paused, level, bits, todo, last, times, requested, told, again>>

\* An edge, with its interrupt.  It is isolated when the task has dealt with every
\* edge before it and saw the last of them more than Debounce ago.  An interrupt
\* before the task exists finds a null handle: an assertion, and a restart.
Edge(b) ==
  IF task = "none"
  THEN Restart
  ELSE /\ level' = [level EXCEPT ![b] = 1 - @]
       /\ bits' = bits \cup {b}
       /\ isolated' = [isolated EXCEPT ![b] =
                         ~Pending(b) /\ Debounce < sinceSeen[b] /\ sinceSeen[b] < Wrap]
       /\ UNCHANGED <<task, paused, now, todo, last, times, requested, told, ages, again>>

\* ota_task takes this node's request, or one from the root.
Pause ==
  /\ task # "none" /\ ~paused
  /\ paused' = TRUE /\ requested' = FALSE
  /\ UNCHANGED <<task, now, level, bits, todo, last, times, told, isolated, ages, again>>
-----------------------------------------------------------------------------
(* button_task, relay_button_task *)

Create ==
  /\ task = "none"
  /\ task' = "top"
  /\ UNCHANGED <<paused, now, level, bits, todo, last, times, requested, told, isolated, ages, again>>

\* Mutation: the bits that came while the task was busy are cleared on entry.
TopClears ==
  /\ task = "top" /\ ~paused
  /\ task' = "wait" /\ bits' = {}
  /\ UNCHANGED <<paused, now, level, todo, last, times, requested, told, isolated, ages, again>>

\* The pause is looked at here only: a task that already waits handles what comes next.
Top ==
  /\ task = "top" /\ ~paused
  /\ task' = "wait"
  /\ UNCHANGED <<paused, now, level, bits, todo, last, times, requested, told, isolated, ages, again>>

\* xTaskNotifyWait returns the bits and clears them.
Wake ==
  /\ task = "wait" /\ bits # {}
  /\ todo' = bits /\ bits' = {}
  /\ task' = "work"
  /\ UNCHANGED <<paused, now, level, last, times, requested, told, isolated, ages, again>>

\* The bits are looked at in the order of the buttons.
Turn(b) == task = "work" /\ b \in todo /\ \A c \in todo : b <= c

Done(b) == todo' = todo \ {b} /\ task' = IF todo = {b} THEN "top" ELSE "work"

\* The level is back where the task saw it last.
NothingSeen(b) ==
  /\ Turn(b) /\ level[b] = last[b]
  /\ Done(b)
  /\ UNCHANGED <<paused, now, level, bits, last, times, requested, told, isolated, ages, again>>

\* Mutation: a change a tick later is too close as well.
TooCloseByOne(b) == Minus(now, bounce[b]) <= Debounce + 1

\* Mutation: no debouncing.
NeverTooClose(b) == FALSE

TooClose(b) == Minus(now, bounce[b]) <= Debounce

\* A change too close to the one before it.
Bounce(b) ==
  /\ Turn(b) /\ level[b] # last[b]
  /\ TooClose(b)
  /\ Done(b)
  /\ last' = [last EXCEPT ![b] = level[b]]
  /\ bounce' = [bounce EXCEPT ![b] = now]
  /\ sinceSeen' = [sinceSeen EXCEPT ![b] = 0]
  /\ UNCHANGED <<paused, now, level, bits, pressStart, lastRelease, requested, told,
                 isolated, sincePress, sinceRelease, again>>

\* A change to report.
Seen(b) ==
  /\ Turn(b) /\ level[b] # last[b]
  /\ ~TooClose(b)
  /\ Done(b)
  /\ last' = [last EXCEPT ![b] = level[b]]
  /\ bounce' = [bounce EXCEPT ![b] = now]
  /\ sinceSeen' = [sinceSeen EXCEPT ![b] = 0]
  /\ reported' = [reported EXCEPT ![b] = level[b]]
  /\ UNCHANGED <<paused, now, level, bits, isolated>>

Press(b) ==
  /\ level[b] = 1 /\ Seen(b)
  /\ pressStart' = [pressStart EXCEPT ![b] = now]
  /\ sincePress' = [sincePress EXCEPT ![b] = 0]
  /\ again' = [again EXCEPT ![b] = sinceRelease[b] < OtaInterval \/ sinceRelease[b] = Wrap]
  /\ long' = [long EXCEPT ![b] = FALSE]
  /\ UNCHANGED <<lastRelease, requested, sinceRelease>>

\* Mutation: a long hold is enough for an update.
GestureOneHold(b) == Minus(now, pressStart[b]) > OtaThreshold

\* Held for long, after a press that followed a release at once.
Gesture(b) ==
  /\ Minus(now, pressStart[b]) > OtaThreshold
  /\ Minus(pressStart[b], lastRelease[b]) < OtaInterval

Release(b) ==
  /\ level[b] = 0 /\ Seen(b)
  /\ requested' = (requested \/ Gesture(b))
  /\ lastRelease' = [lastRelease EXCEPT ![b] = now]
  /\ long' = [long EXCEPT ![b] = Minus(now, pressStart[b]) >= LongPress]
  /\ sinceRelease' = [sinceRelease EXCEPT ![b] = 0]
  /\ again' = [again EXCEPT ![b] = sincePress[b] > Wrap - OtaInterval]
  /\ UNCHANGED <<pressStart, sincePress>>

Handle(b) == NothingSeen(b) \/ Bounce(b) \/ Press(b) \/ Release(b)

TaskStep == Create \/ Top \/ Wake \/ \E b \in Buttons : Handle(b)

Next ==
  \/ Tick \/ Pause \/ Restart
  \/ \E b \in Buttons : Edge(b)
  \/ TaskStep

Spec == Init /\ [][Next]_vars
\* The button task has the highest priority but one; nobody has to press a button.
FairSpec == Spec /\ WF_vars(TaskStep)
-----------------------------------------------------------------------------
\* The root knows how a button is that was left alone: once the task has dealt with
\* the last edge, and it was isolated, the level it reported is the level of the pin,
\* whatever taps, bounces and missed pulses came before.
RestReported ==
  \A b \in Buttons :
    isolated[b] /\ ~Pending(b) => reported[b] = level[b] /\ last[b] = level[b]

\* An isolated edge is reported in the end, though the task may have been busy with
\* other buttons when it came; unless the button moves again, the node restarts, or an
\* update begins.
EdgeReported ==
  \A b \in Buttons :
    isolated[b] /\ Pending(b) ~> ~isolated[b] \/ paused \/ reported[b] = level[b]

\* The contacts of a button may bounce for as long as they like: two reports of a
\* button are more than Debounce apart.
NoChatter ==
  [][\A b \in Buttons :
       /\ sincePress'[b] < sincePress[b] /\ task' # "none"
            => sincePress[b] > Debounce /\ sinceRelease[b] > Debounce
       /\ sinceRelease'[b] < sinceRelease[b] /\ task' # "none"
            => sincePress[b] > Debounce /\ sinceRelease[b] > Debounce]_vars

\* A release that follows a reported press is told as long exactly when that press was
\* reported LongPress ago or more, also when the clock wraps in between.
LongIsLong ==
  [][\A b \in Buttons :
       /\ sinceRelease'[b] < sinceRelease[b] /\ task' # "none"
       /\ sincePress[b] < Wrap
       => (long'[b] <=> sincePress[b] >= LongPress)]_vars

\* Nobody starts an update by accident: it takes a release, a press less than
\* OtaInterval after it, and a release more than OtaThreshold after that; or times
\* that never were set, or are a turn of the clock old: the first release of a
\* button that was closed when the node started is enough.
UpdateNeedsGesture ==
  [][~requested /\ requested' =>
       \E b \in Buttons :
         /\ level[b] = 0 /\ last[b] = 1
         /\ sincePress[b] > OtaThreshold
         /\ again[b]]_vars
====
