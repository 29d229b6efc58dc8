--------------------------- MODULE OtaUpdateProofs ---------------------------
(***************************************************************************)
(* Proofs about OtaUpdate, for every failure limit and number of retries.  *)
(*                                                                         *)
(* RollbackEarned is about a step; it follows from an invariant that says  *)
(* what the counter in NVS, the local copy of it and the real number of    *)
(* failed downloads have to do with each other in every phase.             *)
(***************************************************************************)
EXTENDS OtaUpdate, TLAPS

\* A count says no more than the downloads that failed.
Earned(c) == c <= failed \/ failed = MaxFailures \/ resetLost

CountEarned ==
  /\ phase # "done" => Earned(count)
  /\ phase = "failed" => Earned(newCount)
  /\ phase = "limit" => failed = MaxFailures \/ resetLost
  /\ phase = "rollback" => count = 0 \/ resetLost
  /\ phase = "done" => failed = 0 /\ (count = 0 \/ up)
  /\ phase # "idle" => up

IInv == TypeOK /\ CountEarned

LEMMA Limit == MaxFailures \in Nat /\ MaxFailures >= 1 /\ WifiRetries \in Nat
  BY OtaAssumption

LEMMA InitInv == Init => IInv
<1> SUFFICES ASSUME Init PROVE IInv
  OBVIOUS
<1>1. TypeOK
  <2>1. 0 \in Count /\ 0 \in 0 .. WifiRetries /\ 0 \in 0 .. MaxFailures
    BY Limit DEF Count
  <2> QED BY <2>1, Zenon DEF Init, TypeOK
<1>2. CountEarned
  BY Limit DEF Init, CountEarned, Earned
<1> QED BY <1>1, <1>2 DEF IInv

\* The types.
LEMMA NextType == TypeOK /\ [Next]_vars => TypeOK'
<1> SUFFICES ASSUME TypeOK, [Next]_vars PROVE TypeOK'
  OBVIOUS
<1> USE Limit DEF TypeOK, Count, Goto, ram, history, ReadCounts
<1>1. CASE Request BY <1>1 DEF Request
<1>2. CASE TakeRequest BY <1>2 DEF TakeRequest
<1>3. CASE BlockedReset \/ SuccessReset \/ LimitReset
  <2>1. count' \in Count /\ resetLost' \in BOOLEAN
    <3>1. ResetCount
      BY <1>3 DEF BlockedReset, SuccessReset, LimitReset
    <3>2. count' = 0 \/ count' = count
      BY <3>1 DEF ResetCount
    <3>3. resetLost' = FALSE \/ resetLost' = (count # 0)
      BY <3>1 DEF ResetCount
    <3>4. resetLost' \in BOOLEAN
      BY <3>3, Zenon
    <3>5. count' \in Count
      BY <3>2
    <3> QED BY <3>4, <3>5
  <2> QED BY <1>3, <2>1 DEF BlockedReset, SuccessReset, LimitReset
<1>4. CASE StartUpdate BY <1>4 DEF StartUpdate
<1>5. CASE StopMesh \/ SetUpWifi BY <1>5 DEF StopMesh, SetUpWifi
<1>6. CASE WifiLost \/ WifiUp \/ WifiTimeout BY <1>6 DEF WifiLost, WifiUp, WifiTimeout
<1>7. CASE DownloadOk BY <1>7 DEF DownloadOk
<1>8. CASE DownloadFails
  <2>1. PICK c \in {count, 0} : newCount' = (c + 1) % 256
    BY <1>8 DEF DownloadFails
  <2>2. c + 1 \in Nat
    BY <2>1
  <2>3. newCount' \in Count
    BY <2>1, <2>2
  <2> QED BY <1>8, <2>3 DEF DownloadFails
<1>9. CASE StoreCount BY <1>9 DEF StoreCount
<1>10. CASE RollBack \/ RollBackRefused \/ Restart
  <2>1. ASSUME Down
        PROVE  /\ up' = FALSE /\ requested' = FALSE /\ inProgress' = FALSE
               /\ countdown' = FALSE /\ phase' = "idle" /\ newCount' = 0 /\ retries' = 0
    BY <2>1 DEF Down
  <2>2. CASE RollBack \/ Restart
    <3>1. Down /\ UNCHANGED <<count, resetLost>> /\ (failed' = 0 \/ failed' = failed)
      BY <2>2 DEF RollBack, Restart
    <3> QED BY <2>1, <3>1
  <2>3. CASE RollBackRefused
    BY <2>3 DEF RollBackRefused
  <2> QED BY <1>10, <2>2, <2>3
<1>11. CASE Crash
  <2>1. /\ up' = FALSE /\ requested' = FALSE /\ inProgress' = FALSE
        /\ countdown' = FALSE /\ phase' = "idle" /\ newCount' = 0 /\ retries' = 0
        /\ UNCHANGED <<count, failed>>
    BY <1>11 DEF Crash, Down
  <2>2. resetLost' \in BOOLEAN
    BY <1>11, Zenon DEF Crash
  <2>3. 0 \in Count /\ 0 \in 0 .. WifiRetries
    OBVIOUS
  <2>4. /\ up' \in BOOLEAN /\ requested' \in BOOLEAN /\ inProgress' \in BOOLEAN
        /\ countdown' \in BOOLEAN /\ count' \in Count /\ failed' \in 0 .. MaxFailures
    BY <2>1
  <2> QED BY <2>1, <2>2, <2>3, <2>4, Zenon
<1>13. CASE Boot BY <1>13 DEF Boot
<1>12. CASE UNCHANGED vars BY <1>12 DEF vars
<1> QED
  BY <1>1, <1>2, <1>3, <1>4, <1>5, <1>6, <1>7, <1>8, <1>9, <1>10, <1>11, <1>12, <1>13
     DEF Next, OtaStep

\* A reset that reaches NVS leaves 0, one that does not is remembered.
LEMMA ResetEarned ==
  ASSUME TypeOK, ResetCount
  PROVE  count' = 0 \/ resetLost'
  BY DEF ResetCount, TypeOK

LEMMA NextEarned == IInv /\ [Next]_vars => CountEarned'
<1> SUFFICES ASSUME IInv, [Next]_vars PROVE CountEarned'
  OBVIOUS
<1> USE Limit DEF IInv, TypeOK, CountEarned, Earned, Count, Goto, ram, history
<1>1. CASE Request BY <1>1 DEF Request
<1>2. CASE TakeRequest BY <1>2 DEF TakeRequest
<1>3. CASE BlockedReset \/ SuccessReset \/ LimitReset
  BY <1>3, ResetEarned DEF BlockedReset, SuccessReset, LimitReset
<1>4. CASE StartUpdate BY <1>4 DEF StartUpdate
<1>5. CASE StopMesh \/ SetUpWifi BY <1>5 DEF StopMesh, SetUpWifi
<1>6. CASE WifiLost \/ WifiUp \/ WifiTimeout BY <1>6 DEF WifiLost, WifiUp, WifiTimeout
<1>7. CASE DownloadOk BY <1>7 DEF DownloadOk
<1>8. CASE DownloadFails
  <2>1. PICK c \in {count, 0} : newCount' = (c + 1) % 256
    BY <1>8 DEF DownloadFails, ReadCounts
  <2>2. newCount' <= c + 1
    BY <2>1
  <2>3. c <= failed \/ failed = MaxFailures \/ resetLost
    BY <1>8, <2>1 DEF DownloadFails
  <2>4. newCount' <= failed' \/ failed' = MaxFailures \/ resetLost
    BY <1>8, <2>1, <2>2, <2>3 DEF DownloadFails
  <2> QED BY <1>8, <2>4 DEF DownloadFails
<1>9. CASE StoreCount BY <1>9 DEF StoreCount
<1>10. CASE RollBack \/ RollBackRefused \/ Restart
  BY <1>10 DEF RollBack, RollBackRefused, Restart, Down
<1>11. CASE Crash \/ Boot BY <1>11 DEF Crash, Boot, Down
<1>12. CASE UNCHANGED vars BY <1>12 DEF vars
<1> QED
  BY <1>1, <1>2, <1>3, <1>4, <1>5, <1>6, <1>7, <1>8, <1>9, <1>10, <1>11, <1>12
     DEF Next, OtaStep

LEMMA NextInv == IInv /\ [Next]_vars => IInv'
  BY NextType, NextEarned DEF IInv

\* The counter and its local copy stay bytes, and every phase is one of the code's.
THEOREM TypeCorrect == Spec => []TypeOK
<1>1. IInv => TypeOK
  BY DEF IInv
<1> QED BY <1>1, InitInv, NextInv, PTL DEF Spec

\* Whatever accesses to NVS fail and wherever the power is cut, the node decides on
\* a rollback only after MaxFailures failed downloads, unless a reset was lost.
THEOREM RollbackEarnedHolds == Spec => RollbackEarned
<1>1. IInv /\ [Next]_vars =>
        (phase' \in {"blocked", "limit"} /\ phase' # phase
           => failed = MaxFailures \/ resetLost)
  <2> SUFFICES ASSUME IInv, [Next]_vars, phase' \in {"blocked", "limit"}, phase' # phase
               PROVE  failed = MaxFailures \/ resetLost
    OBVIOUS
  <2>1. TakeRequest \/ StoreCount
    BY DEF Next, OtaStep, vars, Request, TakeRequest, BlockedReset, StartUpdate, StopMesh,
       SetUpWifi, WifiLost, WifiUp, WifiTimeout, DownloadOk, SuccessReset, DownloadFails,
       StoreCount, LimitReset, RollBack, RollBackRefused, Restart, Crash, Boot, Down, Goto,
       ram, history
  <2>2. CASE TakeRequest
    <3>1. PICK c \in ReadCounts : c >= MaxFailures
      BY <2>2 DEF TakeRequest, Goto
    <3> QED
      BY <2>2, <3>1, Limit
         DEF TakeRequest, ReadCounts, IInv, TypeOK, CountEarned, Earned, Count
  <2>3. CASE StoreCount
    BY <2>3, Limit DEF StoreCount, Goto, IInv, TypeOK, CountEarned, Earned, Count
  <2> QED BY <2>1, <2>2, <2>3
<1> QED BY <1>1, InitInv, NextInv, PTL DEF Spec, RollbackEarned
====
