----------------------------- MODULE DeviceState -----------------------------
(***************************************************************************)
(* What the backend knows of the devices (state_manager.py): the states of *)
(* the outputs, and which devices run the newest firmware of their kind.   *)
(* The handlers run in the event loop and store before they first await: a *)
(* message is one step.  The root publishes all outputs of a relay on one  *)
(* retained topic, of which the broker keeps the last message.             *)
(***************************************************************************)
EXTENDS Integers

CONSTANTS
  Nodes,        \* the devices below the root
  Relays,       \* those that switch outputs; the others are switches
  Outputs,      \* the outputs
  Board,        \* the relay each output belongs to
  MaxFirmware   \* bound: versions of the firmware

ASSUME DevicesAssumption ==
  Relays \subseteq Nodes /\ Board \in [Outputs -> Relays] /\ MaxFirmware \in Nat

Kind(n) == IF n \in Relays THEN "relay" ELSE "switch"
Kinds == {"relay", "switch"}
States == {"on", "off", "unknown"}

VARIABLES
  states,     \* _states
  retained,   \* the output the retained message of each relay is about, if there is one
  newest,     \* _up_to_date_firmware_versions, 0 for a kind not heard of
  upToDate,   \* _up_to_date_devices
  versions    \* _firmware_versions, 0 for a device not heard of

deviceVars == <<states, retained, newest, upToDate, versions>>
firmware == <<newest, upToDate, versions>>

DeviceTypeOK ==
  /\ states \in [Outputs -> States] /\ retained \in [Relays -> SUBSET Outputs]
  /\ newest \in [Kinds -> 0 .. MaxFirmware] /\ versions \in [Nodes -> 0 .. MaxFirmware]
  /\ upToDate \in [Nodes -> BOOLEAN]

DeviceInit ==
  /\ states = [o \in Outputs |-> "unknown"] /\ retained = [r \in Relays |-> {}]
  /\ newest = [k \in Kinds |-> 0] /\ versions = [n \in Nodes |-> 0]
  /\ upToDate = [n \in Nodes |-> FALSE]

\* What the root publishes, and handle_relay_state, update_state.
UpdateState(o, state) ==
  /\ states' = [states EXCEPT ![o] = state]
  /\ retained' = [retained EXCEPT ![Board[o]] = {o}]

\* Mutation: a newer version leaves the other devices up to date.
SetFirmwareVersionAlone(n, version) ==
  /\ newest' = [newest EXCEPT ![Kind(n)] = IF version > @ THEN version ELSE @]
  /\ upToDate' = [upToDate EXCEPT ![n] = version >= newest[Kind(n)]]
  /\ versions' = [versions EXCEPT ![n] = version]

\* A newer version makes every device out of date, those of other kinds too, until it
\* reports again.
SetFirmwareVersion(n, version) ==
  /\ newest' = [newest EXCEPT ![Kind(n)] = IF version > @ THEN version ELSE @]
  /\ upToDate' = IF version > newest[Kind(n)] THEN [m \in Nodes |-> m = n]
                 ELSE [upToDate EXCEPT ![n] = version = newest[Kind(n)]]
  /\ versions' = [versions EXCEPT ![n] = version]

\* The backend starts again; subscribing brings back the retained messages, of one
\* output for each relay.
BackendRestart ==
  /\ newest' = [k \in Kinds |-> 0] /\ upToDate' = [n \in Nodes |-> FALSE]
  /\ versions' = [n \in Nodes |-> 0]
  /\ states' = [o \in Outputs |-> IF o \in retained[Board[o]] THEN states[o] ELSE "unknown"]
  /\ UNCHANGED retained
====
