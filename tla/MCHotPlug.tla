------------------------------ MODULE MCHotPlug ------------------------------
(* Instances of HotPlug for TLC. *)
EXTENDS HotPlug

(* Two versions of plugin A, a plugin B, a second category's plugin P, a   *)
(* plugin X whose source does not run, a plugin of an unknown category and *)
(* two configurations.                                                     *)
MCHash == {"a1", "a2", "b1", "p1", "x1", "f1", "j0", "j1"}
MCCategory == {"input", "output"}
MCKind == [h \in MCHash |->
  CASE h \in {"j0", "j1"} -> "config" [] h = "f1" -> "foreign" [] OTHER -> "plugin"]
MCCat == [h \in MCHash |->
  CASE h = "p1" -> "output" [] h = "f1" -> "filter" [] OTHER -> "input"]
MCName == [h \in MCHash |->
  CASE h \in {"a1", "a2"} -> "A" [] h = "b1" -> "B" [] h = "p1" -> "P"
    [] h = "x1" -> "X" [] OTHER -> h]
MCLoads == [h \in MCHash |-> h # "x1"]
MCRank == [c \in MCCategory |-> IF c = "input" THEN 1 ELSE 4]

(* What the agent delivers when the centre's list goes through the lists   *)
(* of ls: the difference of each list and the one before.                  *)
Diffs(ls) ==
  [i \in 1..(Len(ls) - 1) |-> [add |-> ls[i + 1] \ ls[i], del |-> ls[i] \ ls[i + 1]]]

(* Upgrade, downgrade, reinstallation, a broken plugin, a configuration.   *)
AnyLists ==
  { <<{"a1", "b1"}, {"a2", "b1"}, {"a2", "b1", "p1", "f1"}, {"b1", "j1"}>>,
    <<{"a1", "b1"}, {"a2", "b1"}, {"a1", "b1"}, {"a2", "b1"}>>,
    <<{"a1", "b1"}, {"b1"}, {"a1", "b1"}, {"b1"}, {"b1", "p1"}>>,
    <<{"a1", "b1"}, {"a2", "b1", "x1"}, {"a2", "b1", "p1", "x1"}, {"a2"}>>,
    <<{"a1", "b1"}, {"x1"}, {"a1"}>>,
    <<{"a1", "b1"}, {"a1"}, {"a1", "b1"}, {"a2", "b1"}, {"a2"}>> }
AnyHistories == {Diffs(ls) : ls \in AnyLists}

(* Lists in which a plugin that left never comes back and every plugin     *)
(* loads; some of them only remove plugins.                                *)
ForwardLists ==
  { <<{"a1", "b1"}, {"a2", "b1"}, {"a2", "b1", "p1", "f1"}, {"b1", "j1", "p1"}>>,
    <<{"a1", "b1"}, {"a2", "p1"}, {"a2"}>>,
    <<{"a1"}, {"a1", "b1", "p1"}, {"a2", "j1"}, {}>>,
    <<{"a1", "b1"}, {"a2", "p1"}, {"j1"}>>,
    <<{"a1"}, {"a1", "b1", "p1"}, {"a2", "j1"}>> }

(* B left the list while the collector was down: the list asked for at the *)
(* start removes it, and the first list that is watched once more.         *)
StartHistories ==
  { <<[add |-> {"p1"}, del |-> {"b1"}], [add |-> {"a1", "p1"}, del |-> {"b1"}],
      [add |-> {"a2"}, del |-> {"a1"}]>> }

ForwardHistories == StartHistories \cup {Diffs(ls) : ls \in ForwardLists}

(* P is installed, and uninstalled. *)
UninstallHistories == {Diffs(<<{"a1", "b1"}, {"a1", "b1", "p1"}, {"a1", "b1"}>>)}

(* The centre goes back to the version it has just replaced. *)
RollbackHistories == {Diffs(<<{"a1", "b1"}, {"a2", "b1"}, {"a1", "b1"}>>)}

(* B is removed, installed again and removed again, A upgraded meanwhile.  *)
ReinstallHistories ==
  {Diffs(<<{"a1", "b1"}, {"a1"}, {"a1", "b1"}, {"a2", "b1"}, {"a2"}>>)}

(* Only the configuration changes. *)
ConfigHistories == {<<[add |-> {"j1"}, del |-> {"j0"}]>>}
=============================================================================
