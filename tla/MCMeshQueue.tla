---------------------------- MODULE MCMeshQueue ----------------------------
(***************************************************************************)
(* An instance of MeshQueue for TLC: the RX task queues pongs, the button  *)
(* and the status task queue normal messages, into a queue that three      *)
(* callers overfill.                                                       *)
(***************************************************************************)
EXTENDS MeshQueue

AllSenders == {"rx", "button", "status"}
HighSenders == {"rx"}
====
