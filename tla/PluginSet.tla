------------------------------ MODULE PluginSet ------------------------------
(***************************************************************************)
(* What hot replacement promises, without configuration lists, loading,    *)
(* indices, locks or handshakes: the set of active plugins changes only by *)
(* whole published batches, and nothing stops being active unless a newer  *)
(* plugin takes its name, its removal was ordered, or the process dies.    *)
(***************************************************************************)
EXTENDS Sequences

CONSTANTS Hash, Plugin, Cat, Name

VARIABLES
  updates,  \* batches published and not taken yet
  orders,   \* removals ordered and not taken yet
  staged,   \* plugins taken, to be activated together
  doomed,   \* active plugins whose removal was taken
  active    \* the plugins that run

pvars == <<updates, orders, staged, doomed, active>>

SameName(g, h) == Cat[g] = Cat[h] /\ Name[g] = Name[h]

Init ==
  /\ updates = <<>> /\ orders = <<>>
  /\ staged = {} /\ doomed = {} /\ active = {}

Publish(S) == updates = <<>> /\ updates' = <<S>> /\ UNCHANGED <<orders, staged, doomed, active>>
Order(S)   == orders = <<>> /\ orders' = <<S>> /\ UNCHANGED <<updates, staged, doomed, active>>

(* Some of the batch is new; the rest is running already or no plugin. *)
Stage(S) ==
  /\ updates # <<>> /\ S \subseteq Head(updates) \cap Plugin
  /\ staged' = staged \cup S /\ updates' = <<>>
  /\ UNCHANGED <<orders, doomed, active>>

Activate ==
  /\ active' = {h \in active : \A s \in staged : ~SameName(h, s)} \cup staged
  /\ staged' = {}
  /\ UNCHANGED <<updates, orders, doomed>>

Condemn ==
  /\ orders # <<>>
  /\ doomed' = active \cap Head(orders) /\ orders' = <<>>
  /\ UNCHANGED <<updates, staged, active>>

Deactivate ==
  /\ active' = active \ doomed /\ doomed' = {}
  /\ UNCHANGED <<updates, orders, staged>>

OnePerName(S) == \A g, h \in S : SameName(g, h) => g = h

Start(S) ==
  /\ active = {} /\ OnePerName(S) /\ active' = S
  /\ UNCHANGED <<updates, orders, staged, doomed>>

Halt ==
  /\ updates' = <<>> /\ orders' = <<>>
  /\ staged' = {} /\ doomed' = {} /\ active' = {}

Next ==
  \/ \E S \in SUBSET Hash : Publish(S) \/ Order(S)
  \/ \E S \in SUBSET Plugin : Stage(S) \/ Start(S)
  \/ Activate \/ Condemn \/ Deactivate \/ Halt

Spec == Init /\ [][Next]_pvars
=============================================================================
