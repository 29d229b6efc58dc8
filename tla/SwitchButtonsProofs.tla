------------------------- MODULE SwitchButtonsProofs -------------------------
(***************************************************************************)
(* Proofs about SwitchButtons, for any buttons, any thresholds and any     *)
(* width of the clock that is larger than they are.                        *)
(*                                                                         *)
(* The code has times that wrap, the properties speak of ages that do not. *)
(* The invariant AgesTrue ties the two: as long as less than a turn of the *)
(* clock has passed, the difference the code takes is the age.             *)
(***************************************************************************)
EXTENDS SwitchButtons, TLAPS

\* The differences are the ages, while the clock has not come round.
AgesTrue ==
  \A b \in Buttons :
    /\ sinceSeen[b] < Wrap => Minus(now, bounce[b]) = sinceSeen[b]
    /\ sincePress[b] < Wrap => Minus(now, pressStart[b]) = sincePress[b]
    /\ sinceRelease[b] < Wrap => Minus(now, lastRelease[b]) = sinceRelease[b]

\* What is reported was seen, so it is no younger than what was seen last.
SeenFirst ==
  \A b \in Buttons : sinceSeen[b] <= sincePress[b] /\ sinceSeen[b] <= sinceRelease[b]

\* A button nobody has to look at is where the task saw it last; an isolated edge is
\* one that will be reported when it is looked at.
Settled ==
  \A b \in Buttons :
    /\ ~Pending(b) => last[b] = level[b]
    /\ isolated[b] /\ Pending(b) =>
         /\ level[b] # last[b]
         /\ Debounce < sinceSeen[b] /\ sinceSeen[b] < Wrap
         /\ ~(b \in bits /\ b \in todo)
    /\ isolated[b] /\ ~Pending(b) => reported[b] = level[b]

\* The second half of the gesture is recognised only after its first half.
GestureTold ==
  \A b \in Buttons : Minus(pressStart[b], lastRelease[b]) < OtaInterval => again[b]

\* The bits taken belong to one pass of the task.
OnePass == task # "work" => todo = {}

IInv == TypeOK /\ AgesTrue /\ SeenFirst /\ Settled /\ GestureTold /\ OnePass

LEMMA Bounds ==
  /\ Debounce \in Nat /\ OtaInterval \in Nat /\ LongPress \in Nat /\ OtaThreshold \in Nat
  /\ Wrap \in Nat /\ Debounce + 1 < Wrap /\ OtaInterval < Wrap /\ LongPress < Wrap
  /\ OtaThreshold < Wrap
  BY ButtonAssumption

\* Each button on its own.
LEMMA TypeOf ==
  ASSUME TypeOK, NEW b \in Buttons
  PROVE  /\ now \in Nat /\ now < Wrap
         /\ bounce[b] \in Nat /\ bounce[b] < Wrap
         /\ pressStart[b] \in Nat /\ pressStart[b] < Wrap
         /\ lastRelease[b] \in Nat /\ lastRelease[b] < Wrap
         /\ sinceSeen[b] \in Nat /\ sinceSeen[b] <= Wrap
         /\ sincePress[b] \in Nat /\ sincePress[b] <= Wrap
         /\ sinceRelease[b] \in Nat /\ sinceRelease[b] <= Wrap
<1>1. Wrap \in Nat
  BY Bounds
<1> QED BY <1>1 DEF TypeOK, Clock

\* The difference of two times grows by one with the clock, until it wraps.
LEMMA MinusTick ==
  ASSUME NEW n \in Nat, NEW t \in Nat, n < Wrap, t < Wrap,
         NEW a \in Nat, a + 1 < Wrap, Minus(n, t) = a
  PROVE  Minus(IF n = Wrap - 1 THEN 0 ELSE n + 1, t) = a + 1
  BY Bounds DEF Minus

LEMMA MinusSelf == \A n \in Nat : Minus(n, n) = 0
  BY DEF Minus

LEMMA MinusType ==
  ASSUME NEW n \in Nat, NEW t \in Nat, n < Wrap, t < Wrap
  PROVE  Minus(n, t) \in Nat /\ Minus(n, t) < Wrap
  BY Bounds DEF Minus

\* The other way round the clock.
LEMMA MinusBack ==
  ASSUME NEW n \in Nat, NEW t \in Nat, n < Wrap, t < Wrap, n # t
  PROVE  Minus(t, n) = Wrap - Minus(n, t)
  BY Bounds DEF Minus

-----------------------------------------------------------------------------
(* The initial state, and a restart *)

LEMMA InitInv == Init => IInv
<1> SUFFICES ASSUME Init PROVE IInv
  OBVIOUS
<1>1. Debounce + 1 \in Clock /\ 0 \in Clock /\ Debounce + 1 \in 0 .. Wrap /\ Wrap \in 0 .. Wrap
  BY Bounds DEF Clock
<1>2. TypeOK
  BY <1>1 DEF Init, TypeOK, All
<1>b. ASSUME NEW b \in Buttons
      PROVE  /\ now = Debounce + 1 /\ bounce[b] = 0 /\ sinceSeen[b] = Debounce + 1
             /\ sincePress[b] = Wrap /\ sinceRelease[b] = Wrap
  BY DEF Init, All
<1>m. Minus(Debounce + 1, 0) = Debounce + 1
  BY Bounds DEF Minus
<1>w. ~(Wrap < Wrap) /\ Debounce + 1 <= Wrap
  BY Bounds
<1>3. AgesTrue
  BY <1>b, <1>m, <1>w, Zenon DEF AgesTrue
<1>4. SeenFirst
  BY <1>b, <1>w, Zenon DEF SeenFirst
<1>5. Settled
  BY DEF Init, Settled, All
<1>6. GestureTold
  BY DEF Init, GestureTold, All
<1> QED BY <1>2, <1>3, <1>4, <1>5, <1>6 DEF IInv, OnePass, Init

LEMMA RestartInv == IInv /\ Restart => IInv'
<1> SUFFICES ASSUME IInv, Restart PROVE IInv'
  OBVIOUS
<1>1. Debounce + 1 \in Clock /\ 0 \in Clock /\ Debounce + 1 \in 0 .. Wrap /\ Wrap \in 0 .. Wrap
  BY Bounds DEF Clock
<1>2. TypeOK'
  BY <1>1 DEF IInv, Restart, TypeOK, All, told
<1>3. AgesTrue'
  BY Bounds DEF Restart, AgesTrue, All, Minus
<1>4. SeenFirst'
  BY Bounds DEF Restart, SeenFirst, All
<1>5. Settled'
  BY DEF Restart, Settled, All
<1>6. GestureTold'
  BY DEF Restart, GestureTold, All
<1> QED BY <1>2, <1>3, <1>4, <1>5, <1>6 DEF IInv, OnePass, Restart

-----------------------------------------------------------------------------
(* Time and hands *)

LEMMA TickInv == IInv /\ Tick => IInv'
<1> SUFFICES ASSUME IInv, Tick PROVE IInv'
  OBVIOUS
<1>t. TypeOK
  BY DEF IInv
<1>1. UNCHANGED <<task, paused, level, bits, todo, last, bounce, pressStart, lastRelease,
                  requested, reported, long, again>>
  BY DEF Tick, times, told
<1>2. ASSUME NEW b \in Buttons
      PROVE  /\ sinceSeen'[b] = IF sinceSeen[b] = Wrap THEN Wrap ELSE sinceSeen[b] + 1
             /\ sincePress'[b] = IF sincePress[b] = Wrap THEN Wrap ELSE sincePress[b] + 1
             /\ sinceRelease'[b] = IF sinceRelease[b] = Wrap THEN Wrap ELSE sinceRelease[b] + 1
             /\ isolated'[b] = (isolated[b] /\ (Pending(b) => sinceSeen[b] < Wrap - 1))
  BY DEF Tick, Older
<1>3. now' = IF now = Wrap - 1 THEN 0 ELSE now + 1
  BY DEF Tick
<1>4. TypeOK'
  <2>1. now' \in Clock
    BY <1>t, <1>3, Bounds DEF TypeOK, Clock
  <2>2. \A age \in [Buttons -> 0 .. Wrap] : Older(age) \in [Buttons -> 0 .. Wrap]
    BY Bounds DEF Older
  <2>3. /\ sinceSeen' \in [Buttons -> 0 .. Wrap] /\ sincePress' \in [Buttons -> 0 .. Wrap]
        /\ sinceRelease' \in [Buttons -> 0 .. Wrap]
    BY <1>t, <2>2 DEF Tick, TypeOK
  <2>4. isolated' \in [Buttons -> BOOLEAN]
    <3>1. \A b \in Buttons : (isolated[b] /\ (Pending(b) => sinceSeen[b] < Wrap - 1)) \in BOOLEAN
      OBVIOUS
    <3> QED BY <3>1, Zenon DEF Tick
  <2> QED BY <1>t, <1>1, <2>1, <2>3, <2>4, Zenon DEF TypeOK
<1>5. ASSUME NEW b \in Buttons, NEW t \in Nat, t < Wrap, NEW a \in Nat, a <= Wrap,
             a < Wrap => Minus(now, t) = a,
             (IF a = Wrap THEN Wrap ELSE a + 1) < Wrap
      PROVE  Minus(now', t) = IF a = Wrap THEN Wrap ELSE a + 1
  <2>1. now \in Nat /\ now < Wrap
    BY <1>t, TypeOf
  <2>2. a # Wrap /\ a < Wrap /\ a + 1 < Wrap
    BY <1>5, Bounds
  <2> QED BY <1>3, <1>5, <2>1, <2>2, MinusTick
<1>6. AgesTrue'
  <2> SUFFICES ASSUME NEW b \in Buttons
               PROVE  /\ sinceSeen'[b] < Wrap => Minus(now', bounce[b]) = sinceSeen'[b]
                      /\ sincePress'[b] < Wrap => Minus(now', pressStart[b]) = sincePress'[b]
                      /\ sinceRelease'[b] < Wrap => Minus(now', lastRelease[b]) = sinceRelease'[b]
    BY <1>1 DEF AgesTrue, Minus
  <2>1. /\ sinceSeen[b] < Wrap => Minus(now, bounce[b]) = sinceSeen[b]
        /\ sincePress[b] < Wrap => Minus(now, pressStart[b]) = sincePress[b]
        /\ sinceRelease[b] < Wrap => Minus(now, lastRelease[b]) = sinceRelease[b]
    BY DEF IInv, AgesTrue
  <2> QED BY <1>t, <1>2, <1>5, <2>1, TypeOf
<1>7. SeenFirst'
  <2> SUFFICES ASSUME NEW b \in Buttons
               PROVE  sinceSeen'[b] <= sincePress'[b] /\ sinceSeen'[b] <= sinceRelease'[b]
    BY DEF SeenFirst
  <2> QED BY <1>t, <1>2, TypeOf, Bounds DEF IInv, SeenFirst
<1>8. Settled'
  <2> SUFFICES ASSUME NEW b \in Buttons
               PROVE  /\ ~Pending(b) => last[b] = level[b]
                      /\ isolated'[b] /\ Pending(b) =>
                           /\ level[b] # last[b]
                           /\ Debounce < sinceSeen'[b] /\ sinceSeen'[b] < Wrap
                           /\ ~(b \in bits /\ b \in todo)
                      /\ isolated'[b] /\ ~Pending(b) => reported[b] = level[b]
    BY <1>1 DEF Settled, Pending
  <2>1. /\ ~Pending(b) => last[b] = level[b]
        /\ isolated[b] /\ Pending(b) =>
             /\ level[b] # last[b]
             /\ Debounce < sinceSeen[b] /\ sinceSeen[b] < Wrap
             /\ ~(b \in bits /\ b \in todo)
        /\ isolated[b] /\ ~Pending(b) => reported[b] = level[b]
    BY DEF IInv, Settled
  <2>2. isolated'[b] => isolated[b] /\ (Pending(b) => sinceSeen[b] < Wrap - 1)
    BY <1>2
  <2>3. ASSUME isolated'[b], Pending(b)
        PROVE  Debounce < sinceSeen'[b] /\ sinceSeen'[b] < Wrap
    <3>1. Debounce < sinceSeen[b] /\ sinceSeen[b] < Wrap - 1
      BY <2>1, <2>2, <2>3
    <3>2. sinceSeen'[b] = IF sinceSeen[b] = Wrap THEN Wrap ELSE sinceSeen[b] + 1
      BY <1>2
    <3> QED BY <1>t, <3>1, <3>2, TypeOf, Bounds
  <2> QED BY <2>1, <2>2, <2>3
<1>9. GestureTold'
  BY <1>1 DEF IInv, GestureTold, Minus
<1> QED BY <1>1, <1>4, <1>6, <1>7, <1>8, <1>9 DEF IInv, OnePass

\* What neither the clock nor the task's record of a button changes keeps the ages.
LEMMA AgesStay ==
  ASSUME IInv, UNCHANGED <<now, bounce, pressStart, lastRelease, ages, again>>
  PROVE  AgesTrue' /\ SeenFirst' /\ GestureTold'
  BY DEF IInv, AgesTrue, SeenFirst, GestureTold, ages, Minus

LEMMA EdgeInv ==
  ASSUME IInv, NEW b \in Buttons, Edge(b), task # "none"
  PROVE  IInv'
<1>t. TypeOK
  BY DEF IInv
<1>1. /\ level' = [level EXCEPT ![b] = 1 - @]
      /\ bits' = bits \cup {b}
      /\ isolated' = [isolated EXCEPT ![b] =
                        ~Pending(b) /\ Debounce < sinceSeen[b] /\ sinceSeen[b] < Wrap]
      /\ UNCHANGED <<task, paused, now, todo, last, bounce, pressStart, lastRelease, requested,
                     reported, long, ages, again>>
  BY DEF Edge, times, told
<1>2. TypeOK'
  <2>1. level' \in [Buttons -> Level]
    BY <1>t, <1>1 DEF TypeOK, Level
  <2>2. isolated' \in [Buttons -> BOOLEAN] /\ bits' \subseteq Buttons
    BY <1>t, <1>1 DEF TypeOK
  <2> QED BY <1>t, <1>1, <2>1, <2>2, Zenon DEF TypeOK, ages
<1>3. Settled'
  <2> SUFFICES ASSUME NEW c \in Buttons
               PROVE  /\ ~Pending(c)' => last[c] = level'[c]
                      /\ isolated'[c] /\ Pending(c)' =>
                           /\ level'[c] # last[c]
                           /\ Debounce < sinceSeen[c] /\ sinceSeen[c] < Wrap
                           /\ ~(c \in bits' /\ c \in todo)
                      /\ isolated'[c] /\ ~Pending(c)' => reported[c] = level'[c]
    BY <1>1 DEF Settled, Pending, ages
  <2>1. CASE c = b
    <3>1. Pending(c)' /\ level'[c] = 1 - level[c]
      BY <1>t, <1>1, <2>1 DEF Pending, TypeOK
    <3>2. ASSUME isolated'[c]
          PROVE  ~Pending(c) /\ Debounce < sinceSeen[c] /\ sinceSeen[c] < Wrap
      BY <1>t, <1>1, <2>1, <3>2 DEF TypeOK
    <3>3. ASSUME isolated'[c] PROVE last[c] = level[c] /\ level'[c] # last[c] /\ c \notin todo
      <4>1. last[c] = level[c] /\ c \notin todo
        BY <3>2, <3>3 DEF IInv, Settled, Pending
      <4>2. level[c] \in {0, 1}
        BY <1>t DEF TypeOK, Level
      <4> QED BY <3>1, <4>1, <4>2
    <3> QED BY <3>1, <3>2, <3>3
  <2>2. CASE c # b
    <3>1. level'[c] = level[c] /\ isolated'[c] = isolated[c] /\ Pending(c)' = Pending(c)
      BY <1>t, <1>1, <2>2 DEF TypeOK, Pending
    <3>2. c \in bits' <=> c \in bits
      BY <1>1, <2>2
    <3> QED BY <3>1, <3>2 DEF IInv, Settled
  <2> QED BY <2>1, <2>2
<1> QED BY <1>1, <1>2, <1>3, AgesStay DEF IInv, OnePass

-----------------------------------------------------------------------------
(* The task *)

LEMMA QuietInv ==
  ASSUME IInv, Create \/ Top \/ Wake \/ Pause \/ UNCHANGED vars
  PROVE  IInv'
<1>t. TypeOK
  BY DEF IInv
<1>1. UNCHANGED <<now, level, last, times, told, isolated, ages, again>>
  BY DEF Create, Top, Wake, Pause, vars
<1>2. \/ UNCHANGED <<bits, todo>>
      \/ todo' = bits /\ bits' = {} /\ task = "wait"
  BY DEF Create, Top, Wake, Pause, vars
<1>3. task' \in {"none", "top", "wait", "work"} /\ paused' \in BOOLEAN /\ requested' \in BOOLEAN
  BY <1>t DEF TypeOK, Create, Top, Wake, Pause, vars
<1>4. TypeOK'
  <2>1. bits' \subseteq Buttons /\ todo' \subseteq Buttons
    BY <1>t, <1>2 DEF TypeOK
  <2> QED BY <1>t, <1>1, <1>3, <2>1 DEF TypeOK, times, told, ages
<1>5. OnePass' /\ bits' \cup todo' = bits \cup todo
  BY DEF IInv, OnePass, Create, Top, Wake, Pause, vars
<1>6. Settled'
  <2>1. \A b \in Buttons : Pending(b)' <=> Pending(b)
    BY <1>5 DEF Pending
  <2>2. \A b \in Buttons : b \in bits' /\ b \in todo' => b \in bits /\ b \in todo
    BY <1>2
  <2> QED BY <1>1, <2>1, <2>2 DEF IInv, Settled, ages, told
<1> QED BY <1>1, <1>4, <1>5, <1>6, AgesStay DEF IInv, times, ages

\* What the task makes of a button it has looked at: the button is settled, whether it
\* reports the change, or drops it as a bounce, in which case the edge was not isolated.
LEMMA HandleSettles ==
  ASSUME IInv, NEW b \in Buttons, Turn(b), Done(b),
         UNCHANGED <<level, bits, isolated>>,
         last' = [last EXCEPT ![b] = level[b]],
         \A c \in Buttons : c # b => reported'[c] = reported[c] /\ sinceSeen'[c] = sinceSeen[c],
         isolated[b] => reported'[b] = level[b]
  PROVE  Settled' /\ OnePass'
<1>t. TypeOK
  BY DEF IInv
<1>1. b \in todo /\ todo' = todo \ {b} /\ task' = IF todo = {b} THEN "top" ELSE "work"
  BY DEF Turn, Done
<1>2. OnePass'
  BY <1>1 DEF OnePass
<1>3. Settled'
  <2> SUFFICES ASSUME NEW c \in Buttons
               PROVE  /\ ~Pending(c)' => last'[c] = level[c]
                      /\ isolated[c] /\ Pending(c)' =>
                           /\ level[c] # last'[c]
                           /\ Debounce < sinceSeen'[c] /\ sinceSeen'[c] < Wrap
                           /\ ~(c \in bits /\ c \in todo')
                      /\ isolated[c] /\ ~Pending(c)' => reported'[c] = level[c]
    BY DEF Settled, Pending
  <2>1. CASE c = b
    <3>1. last'[c] = level[c]
      BY <1>t, <2>1 DEF TypeOK
    <3>2. isolated[c] => c \notin bits
      BY <1>1, <2>1 DEF IInv, Settled, Pending
    <3>3. isolated[c] => ~Pending(c)'
      BY <1>1, <2>1, <3>2 DEF Pending
    <3> QED BY <2>1, <3>1, <3>3
  <2>2. CASE c # b
    <3>1. last'[c] = last[c] /\ (Pending(c)' <=> Pending(c)) /\ (c \in todo' <=> c \in todo)
      BY <1>t, <1>1, <2>2 DEF TypeOK, Pending
    <3> QED BY <2>2, <3>1 DEF IInv, Settled
  <2> QED BY <2>1, <2>2
<1> QED BY <1>2, <1>3

LEMMA NothingSeenInv ==
  ASSUME IInv, NEW b \in Buttons, NothingSeen(b)
  PROVE  IInv'
<1>t. TypeOK
  BY DEF IInv
<1>1. /\ Turn(b) /\ Done(b) /\ level[b] = last[b]
      /\ UNCHANGED <<paused, now, level, bits, last, bounce, pressStart, lastRelease, requested,
                     reported, long, isolated, ages, again>>
  BY DEF NothingSeen, times, told
<1>2. last' = [last EXCEPT ![b] = level[b]]
  BY <1>t, <1>1 DEF TypeOK
<1>3. isolated[b] => reported'[b] = level[b]
  BY <1>1 DEF IInv, Settled, Turn, Pending
<1>4. Settled' /\ OnePass'
  BY <1>1, <1>2, <1>3, HandleSettles DEF ages
<1>5. TypeOK'
  <2>1. todo' \subseteq Buttons /\ task' \in {"none", "top", "wait", "work"}
    BY <1>t, <1>1 DEF TypeOK, Done
  <2> QED BY <1>t, <1>1, <2>1, Zenon DEF TypeOK, ages
<1> QED BY <1>1, <1>4, <1>5, AgesStay DEF IInv

\* The age of what the task saw last, and the difference it takes: the same, or it saw
\* nothing for a turn of the clock.
LEMMA TooCloseMeans ==
  ASSUME IInv, NEW b \in Buttons
  PROVE  /\ TooClose(b) /\ sinceSeen[b] < Wrap => sinceSeen[b] <= Debounce
         /\ ~TooClose(b) => sinceSeen[b] > Debounce
<1>1. sinceSeen[b] \in Nat /\ sinceSeen[b] <= Wrap
  BY TypeOf DEF IInv
<1>2. sinceSeen[b] < Wrap => Minus(now, bounce[b]) = sinceSeen[b]
  BY DEF IInv, AgesTrue
<1> QED BY <1>1, <1>2, Bounds DEF TooClose

LEMMA BounceInv ==
  ASSUME IInv, NEW b \in Buttons, Bounce(b)
  PROVE  IInv'
<1>t. TypeOK
  BY DEF IInv
<1>1. /\ Turn(b) /\ Done(b) /\ level[b] # last[b] /\ TooClose(b)
      /\ last' = [last EXCEPT ![b] = level[b]]
      /\ bounce' = [bounce EXCEPT ![b] = now]
      /\ sinceSeen' = [sinceSeen EXCEPT ![b] = 0]
      /\ UNCHANGED <<paused, now, level, bits, pressStart, lastRelease, requested, reported, long,
                     isolated, sincePress, sinceRelease, again>>
  BY DEF Bounce, told
<1>2. ~isolated[b]
  BY <1>1, TooCloseMeans, TypeOf, Bounds DEF IInv, Settled, Turn, Pending
<1>3. \A c \in Buttons :
        /\ sinceSeen'[c] = IF c = b THEN 0 ELSE sinceSeen[c]
        /\ bounce'[c] = IF c = b THEN now ELSE bounce[c]
  BY <1>t, <1>1 DEF TypeOK
<1>4. Settled' /\ OnePass'
  BY <1>1, <1>2, <1>3, HandleSettles
<1>5. TypeOK'
  <2>1. todo' \subseteq Buttons /\ task' \in {"none", "top", "wait", "work"}
    BY <1>t, <1>1 DEF TypeOK, Done
  <2>2. last' \in [Buttons -> Level] /\ bounce' \in [Buttons -> Clock]
    BY <1>t, <1>1 DEF TypeOK
  <2>3. sinceSeen' \in [Buttons -> 0 .. Wrap]
    BY <1>t, <1>1, Bounds DEF TypeOK
  <2> QED BY <1>t, <1>1, <2>1, <2>2, <2>3, Zenon DEF TypeOK
<1>6. AgesTrue'
  <2> SUFFICES ASSUME NEW c \in Buttons
               PROVE  /\ sinceSeen'[c] < Wrap => Minus(now, bounce'[c]) = sinceSeen'[c]
                      /\ sincePress[c] < Wrap => Minus(now, pressStart[c]) = sincePress[c]
                      /\ sinceRelease[c] < Wrap => Minus(now, lastRelease[c]) = sinceRelease[c]
    BY <1>1 DEF AgesTrue, Minus
  <2>1. Minus(now, now) = 0
    BY <1>t, MinusSelf, TypeOf
  <2> QED BY <1>3, <2>1 DEF IInv, AgesTrue
<1>7. SeenFirst'
  <2> SUFFICES ASSUME NEW c \in Buttons
               PROVE  sinceSeen'[c] <= sincePress[c] /\ sinceSeen'[c] <= sinceRelease[c]
    BY <1>1 DEF SeenFirst
  <2> QED BY <1>t, <1>3, TypeOf DEF IInv, SeenFirst
<1>8. GestureTold'
  BY <1>1 DEF IInv, GestureTold, Minus
<1> QED BY <1>4, <1>5, <1>6, <1>7, <1>8 DEF IInv

\* A change that is reported, up to what a press and a release do of their own.
LEMMA SeenInv ==
  ASSUME IInv, NEW b \in Buttons, Seen(b)
  PROVE  /\ Settled' /\ OnePass'
         /\ \A c \in Buttons :
              /\ sinceSeen'[c] = IF c = b THEN 0 ELSE sinceSeen[c]
              /\ bounce'[c] = IF c = b THEN now ELSE bounce[c]
              /\ sinceSeen'[c] < Wrap => Minus(now', bounce'[c]) = sinceSeen'[c]
         /\ sinceSeen[b] > Debounce
         /\ UNCHANGED <<paused, now, level, bits, isolated>>
         /\ todo' \subseteq Buttons /\ task' \in {"none", "top", "wait", "work"}
         /\ last' \in [Buttons -> Level] /\ bounce' \in [Buttons -> Clock]
         /\ reported' \in [Buttons -> Level] /\ sinceSeen' \in [Buttons -> 0 .. Wrap]
<1>t. TypeOK
  BY DEF IInv
<1>1. /\ Turn(b) /\ Done(b) /\ level[b] # last[b] /\ ~TooClose(b)
      /\ last' = [last EXCEPT ![b] = level[b]]
      /\ bounce' = [bounce EXCEPT ![b] = now]
      /\ sinceSeen' = [sinceSeen EXCEPT ![b] = 0]
      /\ reported' = [reported EXCEPT ![b] = level[b]]
      /\ UNCHANGED <<paused, now, level, bits, isolated>>
  BY DEF Seen
<1>2. \A c \in Buttons :
        /\ sinceSeen'[c] = IF c = b THEN 0 ELSE sinceSeen[c]
        /\ bounce'[c] = IF c = b THEN now ELSE bounce[c]
        /\ reported'[c] = IF c = b THEN level[b] ELSE reported[c]
  BY <1>t, <1>1 DEF TypeOK
<1>3. Settled' /\ OnePass'
  BY <1>1, <1>2, HandleSettles
<1>4. sinceSeen[b] > Debounce
  BY <1>1, TooCloseMeans
<1>5. todo' \subseteq Buttons /\ task' \in {"none", "top", "wait", "work"}
  BY <1>t, <1>1 DEF TypeOK, Done
<1>6. /\ last' \in [Buttons -> Level] /\ bounce' \in [Buttons -> Clock]
      /\ reported' \in [Buttons -> Level]
  BY <1>t, <1>1 DEF TypeOK
<1>7. sinceSeen' \in [Buttons -> 0 .. Wrap]
  BY <1>t, <1>1, Bounds DEF TypeOK
<1>8. Minus(now, now) = 0
  BY <1>t, MinusSelf, TypeOf
<1>9. ASSUME NEW c \in Buttons, sinceSeen'[c] < Wrap
      PROVE  Minus(now', bounce'[c]) = sinceSeen'[c]
  <2>1. Minus(now', bounce'[c]) = Minus(now, bounce'[c])
    BY <1>1
  <2> QED BY <1>2, <1>8, <1>9, <2>1 DEF IInv, AgesTrue
<1> QED BY <1>1, <1>2, <1>3, <1>4, <1>5, <1>6, <1>7, <1>9

LEMMA PressInv ==
  ASSUME IInv, NEW b \in Buttons, Press(b)
  PROVE  IInv'
<1>t. TypeOK
  BY DEF IInv
<1>1. /\ Seen(b)
      /\ pressStart' = [pressStart EXCEPT ![b] = now]
      /\ sincePress' = [sincePress EXCEPT ![b] = 0]
      /\ again' = [again EXCEPT ![b] = sinceRelease[b] < OtaInterval \/ sinceRelease[b] = Wrap]
      /\ long' = [long EXCEPT ![b] = FALSE]
      /\ UNCHANGED <<lastRelease, requested, sinceRelease>>
  BY DEF Press
<1>2. /\ Settled' /\ OnePass'
      /\ \A c \in Buttons :
           /\ sinceSeen'[c] = IF c = b THEN 0 ELSE sinceSeen[c]
           /\ sinceSeen'[c] < Wrap => Minus(now', bounce'[c]) = sinceSeen'[c]
      /\ UNCHANGED <<paused, now, level, bits, isolated>>
      /\ todo' \subseteq Buttons /\ task' \in {"none", "top", "wait", "work"}
      /\ last' \in [Buttons -> Level] /\ bounce' \in [Buttons -> Clock]
      /\ reported' \in [Buttons -> Level] /\ sinceSeen' \in [Buttons -> 0 .. Wrap]
  BY <1>1, SeenInv
<1>3. \A c \in Buttons :
        /\ pressStart'[c] = IF c = b THEN now ELSE pressStart[c]
        /\ sincePress'[c] = IF c = b THEN 0 ELSE sincePress[c]
        /\ again'[c] = IF c = b THEN sinceRelease[b] < OtaInterval \/ sinceRelease[b] = Wrap
                       ELSE again[c]
  BY <1>t, <1>1 DEF TypeOK
<1>4. TypeOK'
  <2>1. pressStart' \in [Buttons -> Clock] /\ long' \in [Buttons -> BOOLEAN]
    BY <1>t, <1>1 DEF TypeOK
  <2>2. sincePress' \in [Buttons -> 0 .. Wrap]
    BY <1>t, <1>1, Bounds DEF TypeOK
  <2>3. again' \in [Buttons -> BOOLEAN]
    BY <1>t, <1>1 DEF TypeOK
  <2> QED BY <1>t, <1>1, <1>2, <2>1, <2>2, <2>3, Zenon DEF TypeOK
<1>5. AgesTrue'
  <2>1. Minus(now, now) = 0
    BY <1>t, MinusSelf, TypeOf
  <2>2. ASSUME NEW c \in Buttons, sincePress'[c] < Wrap
        PROVE  Minus(now', pressStart'[c]) = sincePress'[c]
    <3>1. Minus(now', pressStart'[c]) = Minus(now, pressStart'[c])
      BY <1>2
    <3> QED BY <1>3, <2>1, <2>2, <3>1 DEF IInv, AgesTrue
  <2>3. ASSUME NEW c \in Buttons, sinceRelease'[c] < Wrap
        PROVE  Minus(now', lastRelease'[c]) = sinceRelease'[c]
    <3>1. Minus(now', lastRelease'[c]) = Minus(now, lastRelease[c])
      BY <1>1, <1>2
    <3> QED BY <1>1, <2>3, <3>1 DEF IInv, AgesTrue
  <2>4. \A c \in Buttons : sinceSeen'[c] < Wrap => Minus(now', bounce'[c]) = sinceSeen'[c]
    BY <1>2
  <2> QED BY <2>2, <2>3, <2>4 DEF AgesTrue, Minus
<1>6. SeenFirst'
  <2> SUFFICES ASSUME NEW c \in Buttons
               PROVE  sinceSeen'[c] <= sincePress'[c] /\ sinceSeen'[c] <= sinceRelease[c]
    BY <1>1 DEF SeenFirst
  <2> QED BY <1>t, <1>2, <1>3, TypeOf DEF IInv, SeenFirst
<1>7. GestureTold'
  <2> SUFFICES ASSUME NEW c \in Buttons, Minus(pressStart'[c], lastRelease[c]) < OtaInterval
               PROVE  again'[c]
    BY <1>1 DEF GestureTold, Minus
  <2>1. CASE c = b
    <3>1. Minus(now, lastRelease[b]) < OtaInterval
      BY <1>3, <2>1
    <3>2. sinceRelease[b] < Wrap => sinceRelease[b] < OtaInterval
      BY <3>1 DEF IInv, AgesTrue
    <3>3. sinceRelease[b] < Wrap \/ sinceRelease[b] = Wrap
      BY <1>t, TypeOf, Bounds
    <3> QED BY <1>3, <2>1, <3>2, <3>3
  <2>2. CASE c # b
    BY <1>3, <2>2 DEF IInv, GestureTold
  <2> QED BY <2>1, <2>2
<1> QED BY <1>2, <1>4, <1>5, <1>6, <1>7 DEF IInv

LEMMA ReleaseInv ==
  ASSUME IInv, NEW b \in Buttons, Release(b)
  PROVE  IInv'
<1>t. TypeOK
  BY DEF IInv
<1>1. /\ Seen(b)
      /\ requested' = (requested \/ Gesture(b))
      /\ lastRelease' = [lastRelease EXCEPT ![b] = now]
      /\ long' = [long EXCEPT ![b] = Minus(now, pressStart[b]) >= LongPress]
      /\ sinceRelease' = [sinceRelease EXCEPT ![b] = 0]
      /\ again' = [again EXCEPT ![b] = sincePress[b] > Wrap - OtaInterval]
      /\ UNCHANGED <<pressStart, sincePress>>
  BY DEF Release
<1>2. /\ Settled' /\ OnePass'
      /\ \A c \in Buttons :
           /\ sinceSeen'[c] = IF c = b THEN 0 ELSE sinceSeen[c]
           /\ sinceSeen'[c] < Wrap => Minus(now', bounce'[c]) = sinceSeen'[c]
      /\ sinceSeen[b] > Debounce
      /\ UNCHANGED <<paused, now, level, bits, isolated>>
      /\ todo' \subseteq Buttons /\ task' \in {"none", "top", "wait", "work"}
      /\ last' \in [Buttons -> Level] /\ bounce' \in [Buttons -> Clock]
      /\ reported' \in [Buttons -> Level] /\ sinceSeen' \in [Buttons -> 0 .. Wrap]
  BY <1>1, SeenInv
<1>3. \A c \in Buttons :
        /\ lastRelease'[c] = IF c = b THEN now ELSE lastRelease[c]
        /\ sinceRelease'[c] = IF c = b THEN 0 ELSE sinceRelease[c]
        /\ again'[c] = IF c = b THEN sincePress[b] > Wrap - OtaInterval ELSE again[c]
  BY <1>t, <1>1 DEF TypeOK
<1>4. TypeOK'
  <2>1. lastRelease' \in [Buttons -> Clock]
    BY <1>t, <1>1 DEF TypeOK
  <2>2. sinceRelease' \in [Buttons -> 0 .. Wrap]
    BY <1>t, <1>1, Bounds DEF TypeOK
  <2>3. again' \in [Buttons -> BOOLEAN] /\ long' \in [Buttons -> BOOLEAN]
    BY <1>t, <1>1 DEF TypeOK
  <2>4. requested' \in BOOLEAN
    BY <1>t, <1>1, Zenon DEF TypeOK, Gesture
  <2> QED BY <1>t, <1>1, <1>2, <2>1, <2>2, <2>3, <2>4, Zenon DEF TypeOK
<1>5. AgesTrue'
  <2>1. Minus(now, now) = 0
    BY <1>t, MinusSelf, TypeOf
  <2>2. ASSUME NEW c \in Buttons, sincePress'[c] < Wrap
        PROVE  Minus(now', pressStart'[c]) = sincePress'[c]
    <3>1. Minus(now', pressStart'[c]) = Minus(now, pressStart[c])
      BY <1>1, <1>2
    <3> QED BY <1>1, <2>2, <3>1 DEF IInv, AgesTrue
  <2>3. ASSUME NEW c \in Buttons, sinceRelease'[c] < Wrap
        PROVE  Minus(now', lastRelease'[c]) = sinceRelease'[c]
    <3>1. Minus(now', lastRelease'[c]) = Minus(now, lastRelease'[c])
      BY <1>2
    <3> QED BY <1>3, <2>1, <2>3, <3>1 DEF IInv, AgesTrue
  <2>4. \A c \in Buttons : sinceSeen'[c] < Wrap => Minus(now', bounce'[c]) = sinceSeen'[c]
    BY <1>2
  <2> QED BY <2>2, <2>3, <2>4 DEF AgesTrue, Minus
<1>6. SeenFirst'
  <2> SUFFICES ASSUME NEW c \in Buttons
               PROVE  sinceSeen'[c] <= sincePress[c] /\ sinceSeen'[c] <= sinceRelease'[c]
    BY <1>1 DEF SeenFirst
  <2> QED BY <1>t, <1>2, <1>3, TypeOf DEF IInv, SeenFirst
<1>7. GestureTold'
  <2> SUFFICES ASSUME NEW c \in Buttons, Minus(pressStart[c], lastRelease'[c]) < OtaInterval
               PROVE  again'[c]
    BY <1>1 DEF GestureTold, Minus
  <2>1. CASE c = b
    <3>1. Minus(pressStart[b], now) < OtaInterval
      BY <1>3, <2>1
    <3>2. /\ sincePress[b] \in Nat /\ sincePress[b] > 0 /\ sincePress[b] <= Wrap
          /\ now \in Nat /\ now < Wrap /\ pressStart[b] \in Nat /\ pressStart[b] < Wrap
      BY <1>t, <1>2, TypeOf, Bounds DEF IInv, SeenFirst
    <3>3. CASE sincePress[b] < Wrap
      <4>1. Minus(now, pressStart[b]) = sincePress[b]
        BY <3>3 DEF IInv, AgesTrue
      <4>2. now # pressStart[b]
        BY <3>2, <4>1, MinusSelf
      <4>3. Minus(pressStart[b], now) = Wrap - sincePress[b]
        BY <3>2, <4>1, <4>2, MinusBack
      <4>4. sincePress[b] > Wrap - OtaInterval
        BY <3>1, <3>2, <4>3, Bounds
      <4> QED BY <1>3, <2>1, <4>4
    <3>4. CASE sincePress[b] = Wrap
      <4>1. OtaInterval > 0
        BY <3>1, <3>2, MinusType, Bounds
      <4>2. sincePress[b] > Wrap - OtaInterval
        BY <3>4, <4>1, Bounds
      <4> QED BY <1>3, <2>1, <4>2
    <3> QED BY <3>2, <3>3, <3>4, Bounds
  <2>2. CASE c # b
    BY <1>3, <2>2 DEF IInv, GestureTold
  <2> QED BY <2>1, <2>2
<1> QED BY <1>2, <1>4, <1>5, <1>6, <1>7 DEF IInv

LEMMA NextInv == IInv /\ [Next]_vars => IInv'
<1> SUFFICES ASSUME IInv, [Next]_vars PROVE IInv'
  OBVIOUS
<1>1. ASSUME NEW b \in Buttons, Edge(b) PROVE IInv'
  <2>1. CASE task = "none" BY <1>1, <2>1, RestartInv DEF Edge
  <2>2. CASE task # "none" BY <1>1, <2>2, EdgeInv
  <2> QED BY <2>1, <2>2
<1>2. ASSUME NEW b \in Buttons, Handle(b) PROVE IInv'
  BY <1>2, NothingSeenInv, BounceInv, PressInv, ReleaseInv DEF Handle
<1> QED BY <1>1, <1>2, TickInv, RestartInv, QuietInv DEF Next, TaskStep

THEOREM InvHolds == Spec => []IInv
  BY InitInv, NextInv, PTL DEF Spec

-----------------------------------------------------------------------------
(* The results *)

\* The types: the times of the task stay within the clock.
THEOREM TypeCorrect == Spec => []TypeOK
<1>1. IInv => TypeOK
  BY DEF IInv
<1> QED BY <1>1, InvHolds, PTL

\* A button left alone after an isolated edge is, to the root, as it is: button_task
\* has reported the level of its pin.
THEOREM RestIsReported == Spec => []RestReported
<1>1. IInv => RestReported
  BY DEF IInv, Settled, RestReported
<1> QED BY <1>1, InvHolds, PTL

\* Only a press makes sincePress younger, only a release sinceRelease, and a restart.
LEMMA Younger ==
  ASSUME IInv, [Next]_vars, task' # "none", NEW b \in Buttons
  PROVE  /\ sincePress'[b] < sincePress[b] => Press(b)
         /\ sinceRelease'[b] < sinceRelease[b] => Release(b)
<1>t. TypeOK
  BY DEF IInv
<1>n. /\ sincePress[b] \in Nat /\ sinceRelease[b] \in Nat
      /\ sincePress[b] <= Wrap /\ sinceRelease[b] <= Wrap
  BY <1>t, TypeOf
<1>r. ~Restart
  BY DEF Restart
<1>1. CASE Tick
  <2>1. /\ sincePress'[b] = IF sincePress[b] = Wrap THEN Wrap ELSE sincePress[b] + 1
        /\ sinceRelease'[b] = IF sinceRelease[b] = Wrap THEN Wrap ELSE sinceRelease[b] + 1
    BY <1>1 DEF Tick, Older
  <2> QED BY <1>n, <2>1, Bounds
<1>2. ASSUME NEW c \in Buttons, Press(c)
      PROVE  /\ sincePress'[b] < sincePress[b] => Press(b)
             /\ sinceRelease'[b] < sinceRelease[b] => Release(b)
  <2>1. sincePress' = [sincePress EXCEPT ![c] = 0] /\ sinceRelease' = sinceRelease
    BY <1>2 DEF Press
  <2>2. CASE c = b BY <1>2, <1>n, <2>1, <2>2
  <2>3. CASE c # b
    <3>1. sincePress'[b] = sincePress[b]
      BY <1>t, <2>1, <2>3 DEF TypeOK
    <3> QED BY <1>n, <2>1, <3>1
  <2> QED BY <2>2, <2>3
<1>3. ASSUME NEW c \in Buttons, Release(c)
      PROVE  /\ sincePress'[b] < sincePress[b] => Press(b)
             /\ sinceRelease'[b] < sinceRelease[b] => Release(b)
  <2>1. sinceRelease' = [sinceRelease EXCEPT ![c] = 0] /\ sincePress' = sincePress
    BY <1>3 DEF Release
  <2>2. CASE c = b BY <1>3, <1>n, <2>1, <2>2
  <2>3. CASE c # b
    <3>1. sinceRelease'[b] = sinceRelease[b]
      BY <1>t, <2>1, <2>3 DEF TypeOK
    <3> QED BY <1>n, <2>1, <3>1
  <2> QED BY <2>2, <2>3
<1>4. ASSUME sincePress' = sincePress, sinceRelease' = sinceRelease
      PROVE  /\ sincePress'[b] < sincePress[b] => Press(b)
             /\ sinceRelease'[b] < sinceRelease[b] => Release(b)
  BY <1>4, <1>n
<1> QED BY <1>r, <1>1, <1>2, <1>3, <1>4
        DEF Next, Edge, TaskStep, Handle, Pause, Create, Top, Wake, NothingSeen, Bounce, vars, ages

\* Contacts that bounce do not reach the root: its last press and its last release of
\* the button are both more than Debounce old when it reports another.
THEOREM NoChatterHolds == Spec => NoChatter
<1> DEFINE Step ==
      \A b \in Buttons :
        /\ sincePress'[b] < sincePress[b] /\ task' # "none"
             => sincePress[b] > Debounce /\ sinceRelease[b] > Debounce
        /\ sinceRelease'[b] < sinceRelease[b] /\ task' # "none"
             => sincePress[b] > Debounce /\ sinceRelease[b] > Debounce
<1>1. IInv /\ [Next]_vars => Step
  <2> SUFFICES ASSUME IInv, [Next]_vars, task' # "none", NEW b \in Buttons,
                      sincePress'[b] < sincePress[b] \/ sinceRelease'[b] < sinceRelease[b]
               PROVE  sincePress[b] > Debounce /\ sinceRelease[b] > Debounce
    OBVIOUS
  <2>1. Seen(b)
    BY Younger DEF Press, Release
  <2>2. sinceSeen[b] > Debounce
    BY <2>1, SeenInv
  <2> QED BY <2>2, TypeOf, Bounds DEF IInv, SeenFirst
<1> QED BY <1>1, InvHolds, PTL DEF Spec, NoChatter

\* The third byte of a release says whether the button was held for LongPress, also
\* when uint32_t milliseconds wrap while it is held.
THEOREM LongIsLongHolds == Spec => LongIsLong
<1> DEFINE Step ==
      \A b \in Buttons :
        /\ sinceRelease'[b] < sinceRelease[b] /\ task' # "none"
        /\ sincePress[b] < Wrap
        => (long'[b] <=> sincePress[b] >= LongPress)
<1>1. IInv /\ [Next]_vars => Step
  <2> SUFFICES ASSUME IInv, [Next]_vars, task' # "none", NEW b \in Buttons,
                      sinceRelease'[b] < sinceRelease[b], sincePress[b] < Wrap
               PROVE  long'[b] <=> sincePress[b] >= LongPress
    OBVIOUS
  <2>1. Release(b)
    BY Younger
  <2>2. long'[b] = (Minus(now, pressStart[b]) >= LongPress)
    BY <2>1 DEF Release, IInv, TypeOK
  <2>3. Minus(now, pressStart[b]) = sincePress[b]
    BY DEF IInv, AgesTrue
  <2> QED BY <2>2, <2>3
<1> QED BY <1>1, InvHolds, PTL DEF Spec, LongIsLong

\* g_ota_requested is set only by the whole gesture on one button, or by times that
\* mean nothing: those of a node just started, or a turn of the clock old.
THEOREM UpdateNeedsGestureHolds == Spec => UpdateNeedsGesture
<1> DEFINE Step ==
      ~requested /\ requested' =>
        \E b \in Buttons :
          /\ level[b] = 0 /\ last[b] = 1
          /\ sincePress[b] > OtaThreshold
          /\ again[b]
<1>1. IInv /\ [Next]_vars => Step
  <2> SUFFICES ASSUME IInv, [Next]_vars, ~requested, requested' PROVE Step
    OBVIOUS
  <2>1. PICK b \in Buttons : Release(b)
    BY DEF Next, Tick, Pause, Restart, Edge, TaskStep, Handle, Create, Top, Wake, NothingSeen,
           Bounce, Press, vars
  <2>2. Gesture(b) /\ level[b] = 0 /\ level[b] # last[b]
    BY <2>1 DEF Release, Seen
  <2>3. last[b] = 1
    BY <2>2 DEF IInv, TypeOK, Level
  <2>4. again[b]
    BY <2>2 DEF Gesture, IInv, GestureTold
  <2>5. sincePress[b] > OtaThreshold
    <3>1. sincePress[b] \in Nat /\ sincePress[b] <= Wrap
      BY TypeOf DEF IInv
    <3>2. sincePress[b] < Wrap => Minus(now, pressStart[b]) = sincePress[b]
      BY DEF IInv, AgesTrue
    <3> QED BY <2>2, <3>1, <3>2, Bounds DEF Gesture
  <2> QED BY <2>2, <2>3, <2>4, <2>5
<1> QED BY <1>1, InvHolds, PTL DEF Spec, UpdateNeedsGesture
====
