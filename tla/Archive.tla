------------------------------ MODULE Archive ------------------------------
(***************************************************************************)
(* What a plugin may rely on when it calls add_field of the store, without *)
(* mutex, buckets, lists of keys or a stop in several steps.  A value is   *)
(* taken if its timestamp is free and goes to the archive, or is lost on   *)
(* the way, before the next one is taken.  Nothing is archived of an item  *)
(* that is not described.  What goes has expired, but for what the process *)
(* has in memory at its end.                                               *)
(***************************************************************************)
EXTENDS Integers

CONSTANTS Item, Time, Value, None, CacheExpiration, DbExpiration

VARIABLES
  clock,
  taken,      \* the values plugins can read, by item and timestamp
  flight,     \* the value that is on its way to the archive, if any
  described,  \* the items with metadata
  stored      \* the archive

avars == <<clock, taken, flight, described, stored>>

Empty == [i \in Item |-> [t \in Time |-> None]]

Init == clock = 1 /\ taken = Empty /\ flight = {} /\ described = {} /\ stored = Empty

Pass == clock' = clock + 1 /\ UNCHANGED <<taken, flight, described, stored>>

Take(i, t, v) ==
  /\ flight = {} /\ taken[i][t] = None /\ t <= clock
  /\ taken' = [taken EXCEPT ![i][t] = v] /\ flight' = {<<i, t, v>>}
  /\ UNCHANGED <<clock, described, stored>>

Describe(e) ==
  /\ described' = described \cup {e[1]}
  /\ UNCHANGED <<clock, taken, flight, stored>>

Store(e) ==
  /\ e[1] \in described
  /\ stored' = [stored EXCEPT ![e[1]][e[2]] = e[3]] /\ flight' = {}
  /\ UNCHANGED <<clock, taken, described>>

Lose == flight' = {} /\ UNCHANGED <<clock, taken, described, stored>>

(* Plugins lose sight of what has expired, all at once,                    *)
Forget(d) ==
  /\ flight = {} /\ d <= clock - CacheExpiration
  /\ taken' = [i \in Item |-> [t \in Time |-> IF t <= d THEN None ELSE taken[i][t]]]
  /\ UNCHANGED <<clock, flight, described, stored>>

(* the archive one value at a time.                                        *)
Expire(i, t) ==
  /\ t < clock - DbExpiration
  /\ stored' = [stored EXCEPT ![i][t] = None]
  /\ UNCHANGED <<clock, taken, flight, described>>

End == taken' = Empty /\ flight' = {} /\ UNCHANGED <<clock, described, stored>>

Next ==
  \/ Pass \/ Lose \/ End
  \/ \E i \in Item, t \in Time : Expire(i, t) \/ \E v \in Value : Take(i, t, v)
  \/ \E e \in flight : Describe(e) \/ Store(e)
  \/ \E d \in Time : Forget(d)

Spec == Init /\ [][Next]_avars
=============================================================================
