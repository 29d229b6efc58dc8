---------------------------- MODULE MCRootRouter ----------------------------
(***************************************************************************)
(* An instance of RootRouter for TLC: two switches of one button, a relay  *)
(* with two outputs and one that never joins the mesh, and two slots, so   *)
(* that the registry cannot hold the three nodes.                          *)
(***************************************************************************)
EXTENDS RootRouter

T(r, o) == [relay |-> r, out |-> o]
C(s, ts) == [dev |-> s, routes |-> [b \in {"a"} |-> ts]]
B(s, type) == [dev |-> s, types |-> [b \in {"a"} |-> type]]

AllTargets == {T("r1", "x"), T("r1", "y"), T("r2", "x")}
AllDevices == {"s1", "s2", "r1"}
AllSwitches == {"s1", "s2"}

Full == [conn  |-> <<C("s1", <<T("r2", "x"), T("r1", "x"), T("r1", "y")>>),
                     C("s2", <<T("r1", "y")>>)>>,
         types |-> <<B("s1", 0), B("s2", 1)>>,
         pairs |-> <<>>]

\* The other switch moves to the first slot, the types change, and two outputs
\* drive a blind; there is room for one of the two pairs.
SecondLeft == [conn  |-> <<C("s2", <<T("r1", "y")>>)>>,
               types |-> <<B("s2", 0), B("s1", 1)>>,
               pairs |-> <<[relay |-> "r1", power |-> "x", dir |-> "y"],
                           [relay |-> "r2", power |-> "x", dir |-> "y"]>>]

\* The second switch loses its last connection.
FirstLeft == [Full EXCEPT !.conn = <<Head(@)>>]

TwoDatabases == {Full, SecondLeft}

\* How long a message is depends on its ids and on the buttons it lists: the
\* types of the second database are the ones that do not fit.
TypesOfSecond == {Message("button_types", SecondLeft.types)}
NothingLong == {}

FirstStays == {Full, FirstLeft}
====
