--------------------------- MODULE MCRootRegistry ---------------------------
(***************************************************************************)
(* An instance of RootRegistry for TLC: a relay with two outputs, one with *)
(* one output and the newer firmware, and a switch; a table of auto-off    *)
(* times that lists an output of each relay.                               *)
(***************************************************************************)
EXTENDS RootRegistry, TLC

CONSTANTS A, B
Same == Permutations(Roots)

BoardOf == [o \in {"x", "y", "z"} |-> IF o = "z" THEN "r2" ELSE "r1"]
LetterOf == [o \in {"x", "y", "z"} |-> IF o = "y" THEN 2 ELSE 1]
OneTable == {<<[of |-> "x", time |-> 2], [of |-> "z", time |-> 2]>>}
TimesInFlash == [o \in {"x", "y", "z"} |-> IF o = "z" THEN 0 ELSE 1]
FirstFirmware == [n \in {"r1", "r2", "s1"} |-> IF n = "r2" THEN 1 ELSE 0]
====
