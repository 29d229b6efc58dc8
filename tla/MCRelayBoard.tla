---------------------------- MODULE MCRelayBoard ----------------------------
(***************************************************************************)
(* Instances of RelayBoard for TLC.  A timeout of 9 s is above MaxAutoOff  *)
(* in every instance, and 0 disables auto-off.                             *)
(***************************************************************************)
EXTENDS RelayBoard

Cmd(o, r, v, s) == [op |-> o, relay |-> r, on |-> v, secs |-> s]

\* Two relays: the outputs share a word, and the loops over the relays turn twice.
TwoRelayCommands ==
  {Cmd("set", 0, TRUE, 0), Cmd("auto", 0, FALSE, 9)}

\* One relay, switched both ways, whose auto-off starts at DefaultPeriod and may
\* be disabled, and whose state the root may ask for.
LiveCommands ==
  {Cmd("toggle", 0, FALSE, 9), Cmd("auto", 0, FALSE, 0), Cmd("sync", 0, FALSE, 0)}

\* One relay that is only ever switched ON or OFF, with auto-off from flash.
RaceCommands ==
  {Cmd("toggle", 0, FALSE, 9), Cmd("set", 0, TRUE, 0)}
====
