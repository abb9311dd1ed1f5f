----------------------------- MODULE MCExecutor -----------------------------
(* A pipeline: the processors p and r read the input, the aggregator reads *)
(* both, the output what the processors and the aggregator store.  r and   *)
(* o run every second round, and p reads what the aggregator stores in     *)
(* the round before.                                                       *)
EXTENDS Executor

MCPlugin == {"i", "p", "r", "g", "o"}
MCOrder  == <<"i", "p", "r", "g", "o">>
MCCat == [q \in MCPlugin |->
  CASE q = "i" -> "input" [] q \in {"p", "r"} -> "processor"
    [] q = "g" -> "aggregator" [] OTHER -> "output"]
MCPluginInterval == [q \in MCPlugin |-> IF q \in {"r", "o"} THEN 2 * Interval ELSE 0]
MCFeeds == [q \in MCPlugin |->
  CASE q = "i" -> {"p", "r"} [] q \in {"p", "r"} -> {"g", "o"}
    [] q = "g" -> {"o", "p"} [] OTHER -> {}]
MCNewPlugins == {{"i", "p", "g"}}
=============================================================================
