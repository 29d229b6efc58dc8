------------------------------ MODULE OtaUpdate ------------------------------
(***************************************************************************)
(* Over-the-air updates of one node (health_ota.c): ota_task, which waits  *)
(* for a request and counts down, mesh_disconnect_and_ota, which takes the *)
(* mesh down and downloads the firmware, and the failure counter in NVS    *)
(* that decides on a rollback.                                             *)
(*                                                                         *)
(* Flash and RAM are kept apart: a restart or a power loss forgets the     *)
(* request, the countdown and g_ota_in_progress, and keeps the counter.    *)
(* Every access to NVS may fail, as the code allows for.                   *)
(***************************************************************************)
EXTENDS Integers

CONSTANTS
  MaxFailures,   \* OTA_MAX_FAILURES
  WifiRetries    \* WIFI_MAX_RETRIES

ASSUME OtaAssumption == MaxFailures \in 1 .. 255 /\ WifiRetries \in Nat

VARIABLES
  up,            \* the node is running
  requested,     \* g_ota_requested
  inProgress,    \* g_ota_in_progress, which pauses every other task
  countdown,     \* ota_countdown_active
  phase,         \* where ota_task is
  count,         \* the failure counter in NVS
  newCount,      \* fail_count, the local of mesh_disconnect_and_ota
  retries,       \* s_retry_count
  failed,        \* downloads failed since the last success or rollback (saturated)
  resetLost      \* the counter in NVS outlived a success or a rollback

vars == <<up, requested, inProgress, countdown, phase, count, newCount, retries,
          failed, resetLost>>
ram == <<up, requested, inProgress, countdown>>
history == <<failed, resetLost>>

\* uint8_t
Count == 0 .. 255

TypeOK ==
  /\ up \in BOOLEAN /\ requested \in BOOLEAN
  /\ inProgress \in BOOLEAN /\ countdown \in BOOLEAN
  /\ phase \in {"idle", "blocked", "stop", "setup", "wifi", "download", "done", "failed",
                "limit", "rollback", "restart"}
  /\ count \in Count /\ newCount \in Count
  /\ retries \in 0 .. WifiRetries
  /\ failed \in 0 .. MaxFailures
  /\ resetLost \in BOOLEAN

Init ==
  /\ up = TRUE /\ requested = FALSE /\ inProgress = FALSE /\ countdown = FALSE
  /\ phase = "idle" /\ count = 0 /\ newCount = 0 /\ retries = 0
  /\ failed = 0 /\ resetLost = FALSE

Goto(label) == phase' = label

\* ota_get_fail_count: 0 when NVS cannot be read.
ReadCounts == {count, 0}

\* ota_reset_fail_count; when the write fails the counter stays, and the caller
\* does not know.
ResetCount ==
  \/ count' = 0 /\ resetLost' = FALSE
  \/ count' = count /\ resetLost' = (count # 0)

\* esp_restart: RAM is gone.
Down ==
  /\ up' = FALSE
  /\ requested' = FALSE /\ inProgress' = FALSE /\ countdown' = FALSE
  /\ Goto("idle") /\ newCount' = 0 /\ retries' = 0
-----------------------------------------------------------------------------
(* ota_task *)

\* A mesh message, MQTT or the button gesture; the tasks that receive them pause
\* during an update.
Request ==
  /\ up /\ ~inProgress /\ ~requested
  /\ requested' = TRUE
  /\ UNCHANGED <<up, inProgress, countdown, phase, count, newCount, retries, history>>

\* The request is taken: too many failures block it, else the countdown begins.
TakeRequest ==
  /\ up /\ phase = "idle" /\ ~inProgress /\ requested
  /\ requested' = FALSE
  /\ \E c \in ReadCounts :
       IF c >= MaxFailures
       THEN Goto("blocked") /\ UNCHANGED countdown
       ELSE countdown' = TRUE /\ UNCHANGED phase
  /\ UNCHANGED <<up, inProgress, count, newCount, retries, history>>

\* A blocked request resets the counter and rolls back.
BlockedReset ==
  /\ phase = "blocked"
  /\ ResetCount
  /\ Goto("rollback")
  /\ UNCHANGED <<ram, newCount, retries, failed>>

\* OTA_COUNTDOWN_MS have passed: mesh_disconnect_and_ota is called.
StartUpdate ==
  /\ up /\ phase = "idle" /\ ~inProgress /\ countdown
  /\ countdown' = FALSE /\ inProgress' = TRUE
  /\ Goto("stop")
  /\ UNCHANGED <<up, requested, count, newCount, retries, history>>
-----------------------------------------------------------------------------
(* mesh_disconnect_and_ota *)

\* esp_mesh_stop succeeds, or the function returns.
StopMesh ==
  /\ phase = "stop"
  /\ Goto("setup") \/ Goto("idle")
  /\ UNCHANGED <<ram, count, newCount, retries, history>>

\* The station interface and the WiFi driver come up, or the function returns.
SetUpWifi ==
  /\ phase = "setup"
  /\ \/ Goto("wifi") /\ retries' = 0
     \/ Goto("idle") /\ UNCHANGED retries
  /\ UNCHANGED <<ram, count, newCount, history>>

\* wifi_event_handler, on a disconnection: try again, or set WIFI_FAIL_BIT, on
\* which the waiting task restarts the node.
WifiLost ==
  /\ phase = "wifi"
  /\ IF retries < WifiRetries
     THEN retries' = retries + 1 /\ UNCHANGED phase
     ELSE Goto("restart") /\ UNCHANGED retries
  /\ UNCHANGED <<ram, count, newCount, history>>

\* wifi_event_handler, on an address: WIFI_CONNECTED_BIT.
WifiUp ==
  /\ phase = "wifi"
  /\ Goto("download") /\ retries' = 0
  /\ UNCHANGED <<ram, count, newCount, history>>

\* No bit within 30 s.
WifiTimeout ==
  /\ phase = "wifi"
  /\ Goto("restart")
  /\ UNCHANGED <<ram, count, newCount, retries, history>>

DownloadOk ==
  /\ phase = "download"
  /\ Goto("done") /\ failed' = 0
  /\ UNCHANGED <<ram, count, newCount, retries, resetLost>>

SuccessReset ==
  /\ phase = "done"
  /\ ResetCount
  /\ Goto("restart")
  /\ UNCHANGED <<ram, newCount, retries, failed>>

\* Mutation: the counter is wider than the byte it is stored in.
DownloadFailsWide ==
  /\ phase = "download"
  /\ \E c \in ReadCounts : newCount' = c + 1
  /\ failed' = IF failed < MaxFailures THEN failed + 1 ELSE failed
  /\ Goto("failed")
  /\ UNCHANGED <<ram, count, retries, resetLost>>

\* The failure is counted in a local of eight bits.
DownloadFails ==
  /\ phase = "download"
  /\ \E c \in ReadCounts : newCount' = (c + 1) % 256
  /\ failed' = IF failed < MaxFailures THEN failed + 1 ELSE failed
  /\ Goto("failed")
  /\ UNCHANGED <<ram, count, retries, resetLost>>

\* Mutation: the limit rolls back without resetting the counter first.
StoreCountWithoutReset ==
  /\ phase = "failed"
  /\ count' \in {newCount, count}
  /\ Goto(IF newCount >= MaxFailures THEN "rollback" ELSE "restart")
  /\ UNCHANGED <<ram, newCount, retries, history>>

\* ota_set_fail_count, whose write may fail, and the test against the limit.
StoreCount ==
  /\ phase = "failed"
  /\ count' \in {newCount, count}
  /\ Goto(IF newCount >= MaxFailures THEN "limit" ELSE "restart")
  /\ UNCHANGED <<ram, newCount, retries, history>>

LimitReset ==
  /\ phase = "limit"
  /\ ResetCount
  /\ Goto("rollback")
  /\ UNCHANGED <<ram, newCount, retries, failed>>

\* esp_ota_mark_app_invalid_rollback_and_reboot boots the other slot.
RollBack ==
  /\ phase = "rollback"
  /\ Down
  /\ failed' = 0
  /\ UNCHANGED <<count, resetLost>>

\* Mutation: nothing restarts the node that cannot roll back.
RollBackRefusedReturns ==
  /\ phase = "rollback"
  /\ Goto("idle")
  /\ UNCHANGED <<ram, count, newCount, retries, history>>

\* With no other workable slot it returns: mesh_disconnect_and_ota restarts the
\* node, ota_task goes on.
RollBackRefused ==
  /\ phase = "rollback"
  /\ Goto(IF inProgress THEN "restart" ELSE "idle")
  /\ UNCHANGED <<ram, count, newCount, retries, history>>

Restart ==
  /\ phase = "restart"
  /\ Down
  /\ UNCHANGED <<count, history>>
-----------------------------------------------------------------------------
\* Power loss: one that hits between a finished download and the reset of the
\* counter leaves the counter of the firmware that was replaced.
Crash ==
  /\ up
  /\ Down
  /\ resetLost' = (resetLost \/ (phase = "done" /\ count # 0))
  /\ UNCHANGED <<count, failed>>

\* app_main does not look at the counter.
Boot ==
  /\ ~up
  /\ up' = TRUE
  /\ UNCHANGED <<requested, inProgress, countdown, phase, count, newCount, retries, history>>

OtaStep ==
  \/ TakeRequest \/ BlockedReset \/ StartUpdate
  \/ StopMesh \/ SetUpWifi \/ WifiLost \/ WifiUp \/ WifiTimeout
  \/ DownloadOk \/ SuccessReset \/ DownloadFails \/ StoreCount \/ LimitReset
  \/ RollBack \/ RollBackRefused \/ Restart

Next == Request \/ OtaStep \/ Crash \/ Boot

Spec == Init /\ [][Next]_vars
\* ota_task runs when it can; every wait in it has a timeout.  Nobody has to
\* request an update, and nothing but the bootloader boots the node.
FairSpec == Spec /\ WF_vars(OtaStep) /\ WF_vars(Boot)
-----------------------------------------------------------------------------
\* A rollback is decided on, by ota_task or by mesh_disconnect_and_ota, only after
\* MaxFailures downloads have failed since the last success or rollback; whatever
\* reads and writes of the counter are lost and wherever power is cut, unless it
\* was the reset of the counter that was lost.
RollbackEarned ==
  [][phase' \in {"blocked", "limit"} /\ phase' # phase
       => failed = MaxFailures \/ resetLost]_vars

\* "On WiFi connection failure or OTA error, the device also restarts": once it
\* waits for WiFi an update ends in a restart, whatever becomes of the download.
UpdateRestarts == phase = "wifi" ~> ~up

\* "Pauses during OTA", says each of the tasks that wait on g_ota_in_progress,
\* refuted: the pause of an update that gave up before it had WiFi never ends.
PauseEnds == inProgress ~> ~inProgress
====
