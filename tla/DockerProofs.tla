---------------------------- MODULE DockerProofs ----------------------------
(***************************************************************************)
(* Proofs about Docker for any set of containers, any number of events,    *)
(* failures and deaths, and any capacity of the channel.                   *)
(***************************************************************************)
EXTENDS Docker, SequenceTheorems, TLAPS

(* What is under way of a container.                                       *)
UnderWay == Range(stream) \cup Range(msgChannel) \cup cache
News(c) == {e \in UnderWay : e.id = c /\ e.status \in Tracked}

Sorted(s) == \A i, j \in DOMAIN s : i < j => s[i].time < s[j].time

(* Events travel in the order of their times.                              *)
Ordered ==
  /\ Sorted(stream) /\ Sorted(msgChannel)
  /\ \A e \in Range(msgChannel), d \in Range(stream) : e.time < d.time
  /\ \A e \in cache, d \in Range(msgChannel) \cup Range(stream) : e.time < d.time
  /\ \A e, d \in cache : e.time = d.time => e = d
  /\ \A e \in UnderWay : e.time <= clock
  /\ \A e \in cache : e.status \in Tracked
  /\ \A c \in Container : \A t \in lost[c] : t <= clock

(* Which goroutines run, and what they find at their start.                *)
Shape ==
  /\ method = "polling" => rcv = "off"
  /\ method = "events" => op \in {"create", "first", "done"}
  /\ op \in {"create", "first"} => rcv = "off"
  /\ op = "create" => inspects = None /\ pausing = None /\ todo = {} /\ attempts < Attempts
  /\ op = "idle" => todo = {}
  /\ rcv \in {"off", "start"} => UnderWay = {}
  /\ \A c \in Container : real[c] # "stopped" => starts[c] >= 1
  /\ \A c \in Container : starts[c] <= clock

After(status) ==
  CASE status \in {"start", "unpause"} -> "running"
    [] status = "pause" -> "paused"
    [] OTHER -> "stopped"

Trusted(c, e) == \A t \in lost[c] : t <= e.time

(* The last news of a container tells its state, if nothing after it was   *)
(* lost.                                                                   *)
LastTells(c) ==
  \A e \in News(c) :
    (Trusted(c, e) /\ \A d \in News(c) : d.time <= e.time) => real[c] = After(e.status)

(* What follows an end begins with a start.                                *)
EndThenStart(c) ==
  \A e, d \in News(c) :
    (e.status \in {"die", "stop"} /\ Trusted(c, e) /\ e.time < d.time)
      => \/ d.status = "stop"
         \/ \E s \in News(c) : s.status = "start" /\ e.time < s.time /\ s.time <= d.time

EndStays(c) ==
  \A e \in News(c) :
    (e.status \in {"die", "stop"} /\ Trusted(c, e)
     /\ \A s \in News(c) : s.status = "start" => s.time < e.time) => real[c] = "stopped"

StartStays(c) ==
  \A e \in News(c) :
    (e.status = "start" /\ Trusted(c, e)
     /\ \A s \in News(c) : s.status \in {"die", "stop"} => s.time < e.time) => real[c] # "stopped"

Follows(c) == LastTells(c) /\ EndThenStart(c) /\ EndStays(c) /\ StartStays(c)

(* A pass over the list: those still to inspect run, the others have been  *)
(* inspected.                                                              *)
Pass(c) ==
  (op \in {"first", "poll", "idle"} /\ lost[c] = {}) =>
    /\ real[c] # "paused"
    /\ c \in todo => real[c] = "running"
    /\ c \notin todo /\ real[c] = "running" => inspects[c] = starts[c]
    /\ method = "events" => pausing[c] = 0 /\ (real[c] = "stopped" => inspects[c] = 0)

Resets == {"start", "die", "stop"}

(* A container of which no start and no end is under way, and nothing was  *)
(* lost, is in one of the two maps if it is not stopped.                   *)
View(c) ==
  (method = "events" /\ op = "done" /\ lost[c] = {} /\ \A e \in News(c) : e.status \notin Resets) =>
    /\ real[c] = "stopped" => inspects[c] = 0 /\ pausing[c] = 0 /\ News(c) = {}
    /\ real[c] # "stopped" => \/ inspects[c] = starts[c] /\ pausing[c] = 0
                              \/ inspects[c] = 0 /\ pausing[c] = starts[c]
    /\ (News(c) = {} /\ real[c] = "running") => inspects[c] = starts[c]
    /\ (News(c) = {} /\ real[c] = "paused") => inspects[c] = 0

IInv ==
  /\ TypeOK /\ Ordered /\ Shape
  /\ \A c \in Container : Follows(c) /\ Pass(c) /\ View(c)

-----------------------------------------------------------------------------
(* Lemmas about sequences of events *)

(* What a sequence holds after an Append, and whether it is sorted.        *)
LEMMA AppendLemma ==
  ASSUME NEW s \in Seq(Event), NEW e \in Event
  PROVE  /\ Append(s, e) \in Seq(Event)
         /\ Range(Append(s, e)) = Range(s) \cup {e}
         /\ Sorted(s) /\ (\A d \in Range(s) : d.time < e.time) => Sorted(Append(s, e))
<1>1. /\ Append(s, e) \in Seq(Event) /\ Len(Append(s, e)) = Len(s) + 1
      /\ \A i \in 1..Len(s) : Append(s, e)[i] = s[i]
      /\ Append(s, e)[Len(s) + 1] = e
  BY AppendProperties
<1>2. DOMAIN s = 1..Len(s) /\ DOMAIN Append(s, e) = 1..Len(s) + 1 /\ Len(s) \in Nat
  BY <1>1, LenProperties
<1>3. Range(Append(s, e)) = Range(s) \cup {e}
  BY <1>1, <1>2 DEF Range
<1>4. ASSUME Sorted(s), \A d \in Range(s) : d.time < e.time PROVE Sorted(Append(s, e))
  BY <1>1, <1>2, <1>4 DEF Sorted, Range
<1> QED
  BY <1>1, <1>3, <1>4

(* What a sequence holds is its head and what its tail holds.              *)
LEMMA TailLemma ==
  ASSUME NEW s \in Seq(Event), s # <<>>
  PROVE  /\ Head(s) \in Event /\ Tail(s) \in Seq(Event) /\ Len(Tail(s)) < Len(s)
         /\ Range(s) = {Head(s)} \cup Range(Tail(s))
         /\ Sorted(s) => Sorted(Tail(s)) /\ \A d \in Range(Tail(s)) : Head(s).time < d.time
<1>1. /\ Head(s) \in Event /\ Tail(s) \in Seq(Event)
      /\ Len(Tail(s)) = Len(s) - 1 /\ Head(s) = s[1]
      /\ \A i \in 1..Len(s) - 1 : Tail(s)[i] = s[i + 1]
  BY HeadTailProperties
<1>2. /\ DOMAIN s = 1..Len(s) /\ DOMAIN Tail(s) = 1..Len(s) - 1
      /\ Len(s) \in Nat \ {0}
  BY <1>1, LenProperties, EmptySeq
<1>3. Range(s) = {Head(s)} \cup Range(Tail(s))
  <2>1. \A e \in Range(Tail(s)) : e \in Range(s)
    <3> SUFFICES ASSUME NEW i \in 1..Len(s) - 1 PROVE Tail(s)[i] \in Range(s)
      BY <1>2 DEF Range
    <3> QED
      BY <1>1, <1>2, i + 1 \in 1..Len(s) DEF Range
  <2>2. \A i \in 1..Len(s) : s[i] \in {Head(s)} \cup Range(Tail(s))
    <3> SUFFICES ASSUME NEW i \in 1..Len(s), i # 1 PROVE s[i] \in Range(Tail(s))
      BY <1>1
    <3>1. i - 1 \in 1..Len(s) - 1 /\ (i - 1) + 1 = i
      BY <1>2
    <3> QED
      BY <1>1, <1>2, <3>1 DEF Range
  <2>3. Head(s) \in Range(s)
    BY <1>1, <1>2, 1 \in 1..Len(s) DEF Range
  <2> QED
    BY <1>2, <2>1, <2>2, <2>3 DEF Range
<1>4. ASSUME Sorted(s) PROVE Sorted(Tail(s)) /\ \A d \in Range(Tail(s)) : Head(s).time < d.time
  <2>1. ASSUME NEW i \in 1..Len(s) - 1, NEW j \in 1..Len(s) - 1, i < j
        PROVE  Tail(s)[i].time < Tail(s)[j].time
    BY <1>1, <1>2, <1>4, <2>1, i + 1 \in 1..Len(s), j + 1 \in 1..Len(s) DEF Sorted
  <2>2. ASSUME NEW i \in 1..Len(s) - 1 PROVE s[1].time < Tail(s)[i].time
    BY <1>1, <1>2, <1>4, i + 1 \in 1..Len(s), 1 \in 1..Len(s) DEF Sorted
  <2> QED
    BY <1>1, <1>2, <2>1, <2>2 DEF Sorted, Range
<1> QED
  BY <1>1, <1>2, <1>3, <1>4

(* The empty sequence.                                                     *)
LEMMA EmptyLemma == Range(<<>>) = {} /\ Sorted(<<>>) /\ <<>> \in Seq(Event) /\ Len(<<>>) = 0
  BY EmptySeq DEF Range, Sorted

(* What is under way are events.                                           *)
LEMMA UnderWayLemma == TypeOK => UnderWay \subseteq Event
<1> SUFFICES ASSUME TypeOK, NEW s \in Seq(Event) PROVE Range(s) \subseteq Event
  BY DEF TypeOK, UnderWay
<1> QED
  BY RangeOfSeq

-----------------------------------------------------------------------------
(* Types *)

(* Something happens at the daemon.                                        *)
Daemon(c) == Start(c) \/ Pause(c) \/ Unpause(c) \/ Exit(c) \/ Stopped(c) \/ Other(c)

(* The event, and the state of the container before and after.             *)
Tells(e, before, after) ==
  \/ e.status = "start" /\ before = "stopped" /\ after = "running"
  \/ e.status = "pause" /\ before = "running" /\ after = "paused"
  \/ e.status = "unpause" /\ before = "paused" /\ after = "running"
  \/ e.status = "die" /\ before # "stopped" /\ after = "stopped"
  \/ e.status = "stop" /\ before = "stopped" /\ after = "stopped"
  \/ e.status = "other" /\ before = "running" /\ after = "running"

(* What happens to c at the daemon, as facts about the event.              *)
Happened(c, e, st) ==
  /\ e.id = c /\ e.time = clock + 1
  /\ Tells(e, real[c], st)
  /\ clock' = clock + 1 /\ clock' \in 1..MaxEvents
  /\ real' = [real EXCEPT ![c] = st]
  /\ starts' = [starts EXCEPT ![c] = IF e.status = "start" THEN @ + 1 ELSE @]
  /\ rcv = "loop" => stream' = Append(stream, e) /\ lost' = lost
  /\ rcv # "loop" => /\ stream' = stream
                     /\ lost' = [k \in Container |-> lost[k] \cup Times(k, {e})]
  /\ UNCHANGED <<boundVars, method, proc, listVars, mapVars, goVars, msgChannel, cache, reader>>

(* Something that happens is one of these.                                 *)
LEMMA DaemonLemma ==
  ASSUME TypeOK, NEW c \in Container, Daemon(c)
  PROVE  \E e \in Event, st \in {"stopped", "running", "paused"} : Happened(c, e, st)
<1>1. PICK st \in {"stopped", "running", "paused"}, x \in Tracked \cup {"other"} :
        /\ Happens(c, st, x)
        /\ Tells([id |-> c, status |-> x, time |-> clock + 1], real[c], st)
  BY DEF Daemon, Start, Pause, Unpause, Exit, Stopped, Other, Tracked, Tells, TypeOK
<1> DEFINE e == [id |-> c, status |-> x, time |-> clock + 1]
<1>2. clock + 1 \in 1..MaxEvents
  BY <1>1, DockerAssumption DEF TypeOK, Happens
<1>3. e \in Event /\ e.id = c /\ e.time = clock + 1 /\ e.status = x
  BY <1>2 DEF Event
<1>4. /\ clock' = clock + 1 /\ clock' \in 1..MaxEvents
      /\ real' = [real EXCEPT ![c] = st]
      /\ starts' = [starts EXCEPT ![c] = IF x = "start" THEN @ + 1 ELSE @]
      /\ rcv = "loop" => stream' = Append(stream, e) /\ lost' = lost
      /\ rcv # "loop" => /\ stream' = stream
                         /\ lost' = [k \in Container |-> lost[k] \cup Times(k, {e})]
      /\ UNCHANGED <<boundVars, method, proc, listVars, mapVars, goVars, msgChannel, cache, reader>>
  BY <1>1, <1>2 DEF Happens, Lose
<1>5. Tells(e, real[c], st)
  BY <1>1
<1> HIDE DEF e
<1> QED
  BY <1>3, <1>4, <1>5 DEF Happened

(* Losing events keeps the type of lost.                                   *)
LEMMA LoseLemma ==
  ASSUME TypeOK, NEW E \in SUBSET Event
  PROVE  [k \in Container |-> lost[k] \cup Times(k, E)] \in [Container -> SUBSET (1..MaxEvents)]
<1>1. ASSUME NEW k \in Container PROVE lost[k] \cup Times(k, E) \subseteq 1..MaxEvents
  BY DEF TypeOK, Times, Event
<1> QED
  BY <1>1

(* Every step keeps the types.                                             *)
THEOREM StepType == TypeOK /\ Ordered /\ Shape /\ [Next]_vars => TypeOK'
<1> SUFFICES ASSUME TypeOK, Ordered, Shape, [Next]_vars PROVE TypeOK'
  OBVIOUS
<1> USE DockerAssumption
<1>0. /\ Range(stream) \subseteq Event /\ <<>> \in Seq(Event) /\ Len(<<>>) = 0
      /\ 0 \in 0..MaxEvents /\ 0 \in 0..Attempts
  BY EmptyLemma, RangeOfSeq DEF TypeOK
<1>1. ASSUME NEW c \in Container, Daemon(c) PROVE TypeOK'
  <2>1. PICK e \in Event, st \in {"stopped", "running", "paused"} : Happened(c, e, st)
    BY <1>1, DaemonLemma
  <2>2. stream' \in Seq(Event)
    <3>1. stream \in Seq(Event)
      BY DEF TypeOK
    <3>2. Append(stream, e) \in Seq(Event)
      BY <2>1, <3>1, AppendLemma
    <3> QED
      BY <2>1, <3>1, <3>2 DEF Happened
  <2>3. lost' \in [Container -> SUBSET (1..MaxEvents)]
    <3>1. [k \in Container |-> lost[k] \cup Times(k, {e})] \in [Container -> SUBSET (1..MaxEvents)]
      BY <2>1, {e} \in SUBSET Event, LoseLemma
    <3>2. lost \in [Container -> SUBSET (1..MaxEvents)]
      BY DEF TypeOK
    <3> QED
      BY <2>1, <3>1, <3>2 DEF Happened
  <2>4. starts' \in [Container -> 0..MaxEvents]
    BY <2>1 DEF Happened, TypeOK, Shape
  <2> QED
    BY <2>1, <2>2, <2>3, <2>4
       DEF Happened, TypeOK, boundVars, listVars, mapVars, goVars
<1>2. CASE List
  <2>1. lost' \in [Container -> SUBSET (1..MaxEvents)]
    BY <1>2 DEF TypeOK, List
  <2> QED
    BY <1>2, <2>1 DEF TypeOK, List, Listed, CallSucceeds, daemonVars, mapVars, goVars, eventVars
<1>3. CASE ListFail
  <2>1. lost' \in [Container -> SUBSET (1..MaxEvents)]
    BY <1>3 DEF TypeOK, ListFail
  <2>2. failures' \in 0..MaxFailures
    BY <1>3 DEF TypeOK, ListFail, CallFails
  <2>3. attempts' \in 0..Attempts
    BY <1>3 DEF TypeOK, ListFail, Shape
  <2> QED
    BY <1>3, <2>1, <2>2, <2>3 DEF TypeOK, ListFail, RunOperator, daemonVars, mapVars, goVars, eventVars
<1>4. CASE PassEnd
  BY <1>4 DEF TypeOK, PassEnd, RunOperator, daemonVars, boundVars, mapVars, goVars, eventVars
<1>5. CASE PollQuit
  BY <1>5 DEF TypeOK, PollQuit, daemonVars, boundVars, mapVars, goVars, eventVars
<1>6. ASSUME NEW c \in todo, Inspect(c) PROVE TypeOK'
  BY <1>6 DEF TypeOK, Inspect, CallSucceeds, daemonVars, mapVars, goVars, eventVars
<1>7. ASSUME NEW c \in todo, InspectFail(c) PROVE TypeOK'
  <2>1. failures' \in 0..MaxFailures
    BY <1>7 DEF TypeOK, InspectFail, CallFails
  <2>2. lost' \in [Container -> SUBSET (1..MaxEvents)]
    BY <1>7 DEF TypeOK, InspectFail
  <2> QED
    BY <1>7, <2>1, <2>2 DEF TypeOK, InspectFail, daemonVars, mapVars, goVars, eventVars
<1>8. CASE Subscribe
  BY <1>8 DEF TypeOK, Subscribe, daemonVars, boundVars, listVars, mapVars, eventVars
<1>9. CASE Receive
  <2>1. stream' \in Seq(Event) /\ Head(stream) \in Event
    BY <1>9, TailLemma DEF TypeOK, Receive, Receiving
  <2>2. msgChannel' \in Seq(Event) /\ Len(msgChannel') <= Capacity
    <3>1. CASE Room
      <4>1. Append(msgChannel, Head(stream)) \in Seq(Event)
            /\ Len(Append(msgChannel, Head(stream))) = Len(msgChannel) + 1
        BY <2>1, AppendProperties DEF TypeOK
      <4>2. Len(msgChannel) \in Nat /\ Len(msgChannel) < Capacity
        BY <3>1, LenProperties DEF TypeOK, Room
      <4>3. msgChannel' = Append(msgChannel, Head(stream))
        BY <1>9, <3>1 DEF Receive
      <4>4. Len(msgChannel') <= Capacity
        BY <4>1, <4>2, <4>3
      <4> QED
        BY <4>1, <4>3, <4>4
    <3>2. CASE ~Room
      BY <1>9, <3>2 DEF TypeOK, Receive
    <3> QED
      BY <3>1, <3>2
  <2>3. lost' \in [Container -> SUBSET (1..MaxEvents)]
    BY <1>9, <2>1, LoseLemma DEF TypeOK, Receive, Lose
  <2> QED
    BY <1>9, <2>1, <2>2, <2>3 DEF TypeOK, Receive, daemonVars, boundVars, listVars, mapVars, goVars
<1>10. CASE StreamEnd
  <2>1. failures' \in 0..MaxFailures
    BY <1>10 DEF TypeOK, StreamEnd, CallFails
  <2>2. lost' \in [Container -> SUBSET (1..MaxEvents)]
    BY <1>0, <1>10, LoseLemma DEF StreamEnd, Lose
  <2> QED
    BY <1>0, <1>10, <2>1, <2>2 DEF TypeOK, StreamEnd, daemonVars, listVars, mapVars
<1>11. CASE Filter
  <2>1. Head(msgChannel) \in Event /\ Tail(msgChannel) \in Seq(Event)
        /\ Len(Tail(msgChannel)) < Len(msgChannel)
    BY <1>11, TailLemma DEF TypeOK, Filter
  <2>2. Len(Tail(msgChannel)) <= Capacity
    BY <2>1, LenProperties DEF TypeOK
  <2> QED
    BY <1>11, <2>1, <2>2 DEF TypeOK, Filter, daemonVars, boundVars, listVars, mapVars, goVars
<1>12. ASSUME NEW m \in Latest, UpdateDie(m) \/ UpdatePause(m) \/ UpdateUnpause(m) \/ UpdateStart(m)
       PROVE  TypeOK'
  <2>1. m \in Event /\ m.id \in Container /\ Overtaken(m) \in SUBSET Event
    BY DEF TypeOK, Latest, Overtaken, Event
  <2>2. m.time \in 1..MaxEvents /\ {m} \in SUBSET Event
    BY <2>1 DEF Event
  <2>3. /\ lost \in [Container -> SUBSET (1..MaxEvents)]
        /\ inspects \in [Container -> 0..MaxEvents] /\ pausing \in [Container -> 0..MaxEvents]
        /\ starts \in [Container -> 0..MaxEvents] /\ failures \in 0..MaxFailures
    BY DEF TypeOK
  <2>4. lost' \in [Container -> SUBSET (1..MaxEvents)]
    <3>1. [lost EXCEPT ![m.id] = {t \in @ : t > m.time}] \in [Container -> SUBSET (1..MaxEvents)]
      BY <2>3
    <3>2. /\ [k \in Container |-> lost[k] \cup Times(k, {m})] \in [Container -> SUBSET (1..MaxEvents)]
          /\ [k \in Container |-> lost[k] \cup Times(k, Overtaken(m))]
               \in [Container -> SUBSET (1..MaxEvents)]
      BY <2>1, <2>2, LoseLemma
    <3> QED
      BY <1>12, <3>1, <3>2 DEF UpdateDie, UpdatePause, UpdateUnpause, UpdateStart, Lose, SetRight
  <2>5. failures' \in 0..MaxFailures
    BY <1>12, <2>3 DEF UpdateDie, UpdatePause, UpdateUnpause, UpdateStart, CallFails, CallSucceeds
  <2>6. inspects' \in [Container -> 0..MaxEvents] /\ pausing' \in [Container -> 0..MaxEvents]
    <3>1. CASE UpdateDie(m)
      BY <1>0, <2>1, <2>3, <3>1 DEF UpdateDie
    <3>2. CASE UpdatePause(m)
      BY <1>0, <2>1, <2>3, <3>2 DEF UpdatePause
    <3>3. CASE UpdateUnpause(m)
      BY <1>0, <2>1, <2>3, <3>3 DEF UpdateUnpause
    <3>4. CASE UpdateStart(m)
      BY <1>0, <2>1, <2>3, <3>4 DEF UpdateStart
    <3> QED
      BY <1>12, <3>1, <3>2, <3>3, <3>4
  <2>7. Apply(m)
    BY <1>12 DEF UpdateDie, UpdatePause, UpdateUnpause, UpdateStart
  <2> QED
    BY <2>4, <2>5, <2>6, <2>7 DEF TypeOK, Apply, daemonVars, listVars
<1>13. CASE DispatchQuit
  BY <1>13 DEF TypeOK, DispatchQuit, daemonVars, boundVars, listVars, mapVars, eventVars
<1>14. CASE Acquire \/ Marshalled
  BY <1>14 DEF TypeOK, Acquire, Marshalled, Read, daemonVars, boundVars, listVars, mapVars, goVars, eventVars
<1>15. CASE MapRace \/ ReceiveClosed \/ Stop \/ Close \/ Finish
  BY <1>15 DEF TypeOK, MapRace, ReceiveClosed, Die, Stop, Close, Finish, Becomes,
               daemonVars, listVars, mapVars, goVars, eventVars
<1>16. CASE Boot
  <2>1. None \in [Container -> 0..MaxEvents] /\ Nothing \in [Container -> SUBSET (1..MaxEvents)]
    BY <1>0 DEF None, Nothing
  <2> QED
    BY <1>0, <1>16, <2>1 DEF TypeOK, Boot, daemonVars, boundVars
<1>17. CASE UNCHANGED vars
  BY <1>17 DEF TypeOK, vars, daemonVars, boundVars, listVars, mapVars, goVars, eventVars
<1> QED
  BY <1>1, <1>2, <1>3, <1>4, <1>5, <1>6, <1>7, <1>8, <1>9, <1>10, <1>11, <1>12, <1>13, <1>14, <1>15,
     <1>16, <1>17 DEF Next, Daemon, Operator, Receiver, Dispatcher


-----------------------------------------------------------------------------
(* The order of events *)

(* The steps that neither concern the containers nor the events on their   *)
(* way.                                                                    *)
Aside ==
  \/ List \/ ListFail \/ PassEnd \/ PollQuit \/ \E c \in todo : Inspect(c) \/ InspectFail(c)
  \/ Subscribe \/ DispatchQuit \/ Acquire \/ Marshalled
  \/ MapRace \/ ReceiveClosed \/ Stop \/ Close \/ Finish \/ UNCHANGED vars

LEMMA AsideLemma == Aside => UNCHANGED <<daemonVars, eventVars>>
  BY DEF Aside, List, ListFail, PassEnd, PollQuit, Inspect, InspectFail, Subscribe, DispatchQuit, Acquire,
         Marshalled, Read, MapRace, ReceiveClosed, Die, Stop, Close, Finish, Becomes, vars

(* The four ways to apply an event.                                        *)
Update(m) == UpdateDie(m) \/ UpdatePause(m) \/ UpdateUnpause(m) \/ UpdateStart(m)

LEMMA UpdateLemma ==
  ASSUME TypeOK, NEW m \in Latest, Update(m)
  PROVE  /\ m \in cache /\ m \in Event /\ m.id \in Container /\ m.time \in 1..MaxEvents
         /\ m.status \in Tracked
         /\ cache' = {e \in cache : e.id # m.id}
         /\ UNCHANGED <<daemonVars, ends, method, proc, listVars, rcv, stream, msgChannel, reader>>
         /\ \/ lost' = [lost EXCEPT ![m.id] = {t \in @ : t > m.time}]
            \/ lost' = [k \in Container |-> lost[k] \cup Times(k, Overtaken(m))]
            \/ lost' = [k \in Container |-> lost[k] \cup Times(k, {m})]
<1>1. m \in cache /\ m \in Event /\ m.id \in Container /\ m.time \in 1..MaxEvents
  BY DEF TypeOK, Latest, Event
<1> QED
  BY <1>1 DEF Update, UpdateDie, UpdatePause, UpdateUnpause, UpdateStart, Apply, SetRight, Lose, Tracked

(* A step is one of these.                                                 *)
LEMMA Kinds ==
  ASSUME [Next]_vars
  PROVE  \/ \E c \in Container : Daemon(c)
         \/ Aside \/ Receive \/ StreamEnd \/ Filter
         \/ \E m \in Latest : Update(m)
         \/ Boot
  BY DEF Next, Daemon, Operator, Receiver, Dispatcher, Aside, Update

(* No two events under way have the same time.                             *)
LEMMA UniqueTimes ==
  ASSUME TypeOK, Ordered, NEW e \in UnderWay, NEW d \in UnderWay, e.time = d.time
  PROVE  e = d
<1>1. \A x \in UnderWay : x.time \in Int
  BY UnderWayLemma DEF Event
<1>2. ASSUME NEW s, Sorted(s), s \in Seq(Event), e \in Range(s), d \in Range(s) PROVE e = d
  <2>1. DOMAIN s = 1..Len(s) /\ Len(s) \in Nat
    BY <1>2, LenProperties
  <2>2. PICK i \in 1..Len(s), j \in 1..Len(s) : s[i] = e /\ s[j] = d
    BY <1>2, <2>1 DEF Range
  <2>3. ~(i < j) /\ ~(j < i)
    BY <1>1, <1>2, <2>1, <2>2 DEF Sorted
  <2> QED
    BY <2>1, <2>2, <2>3
<1>3. CASE e \in Range(stream) /\ d \in Range(stream)
  BY <1>2, <1>3 DEF Ordered, TypeOK
<1>4. CASE e \in Range(msgChannel) /\ d \in Range(msgChannel)
  BY <1>2, <1>4 DEF Ordered, TypeOK
<1> QED
  BY <1>1, <1>3, <1>4 DEF Ordered, UnderWay

(* Every step keeps the order.                                             *)
THEOREM StepOrdered == TypeOK /\ Ordered /\ [Next]_vars => Ordered'
<1> SUFFICES ASSUME TypeOK, Ordered, [Next]_vars PROVE Ordered'
  OBVIOUS
<1>0. /\ clock \in Nat
      /\ \A x \in UnderWay : x \in Event /\ x.time \in Nat
      /\ \A c \in Container : \A t \in lost[c] : t \in Nat
      /\ stream \in Seq(Event) /\ msgChannel \in Seq(Event)
  BY UnderWayLemma DEF TypeOK, Event
<1>1. ASSUME NEW c \in Container, Daemon(c) PROVE Ordered'
  <2>1. PICK e \in Event, st \in {"stopped", "running", "paused"} : Happened(c, e, st)
    BY <1>1, DaemonLemma
  <2>2. CASE rcv = "loop"
    <3>1. \A d \in Range(stream) : d.time < e.time
      BY <1>0, <2>1 DEF Happened, Ordered, UnderWay
    <3>2. Sorted(Append(stream, e)) /\ Range(Append(stream, e)) = Range(stream) \cup {e}
      BY <1>0, <2>1, <3>1, AppendLemma DEF Happened, Ordered
    <3>3. Sorted(stream') /\ Range(stream') = Range(stream) \cup {e} /\ lost' = lost
      BY <2>1, <2>2, <3>2 DEF Happened
    <3> QED
      BY <1>0, <2>1, <3>3 DEF Happened, Ordered, UnderWay
  <2>3. CASE rcv # "loop"
    <3>1. ASSUME NEW k \in Container, NEW t \in lost'[k] PROVE t <= clock'
      BY <1>0, <2>1, <2>3, <3>1 DEF Happened, Ordered, Times
    <3> QED
      BY <1>0, <2>1, <2>3, <3>1 DEF Happened, Ordered, UnderWay
  <2> QED
    BY <2>2, <2>3
<1>2. CASE Aside
  <2>1. clock' = clock /\ stream' = stream /\ msgChannel' = msgChannel /\ cache' = cache
    BY <1>2, AsideLemma DEF daemonVars, eventVars
  <2>2. ASSUME NEW k \in Container, NEW t \in lost'[k] PROVE t \in lost[k] \/ t = clock
    <3>1. lost \in [Container -> SUBSET (1..MaxEvents)]
      BY DEF TypeOK
    <3>2. CASE List \/ ListFail \/ \E c \in todo : InspectFail(c)
      BY <2>2, <3>1, <3>2 DEF List, ListFail, InspectFail
    <3>3. CASE PassEnd \/ PollQuit \/ (\E c \in todo : Inspect(c)) \/ Subscribe \/ DispatchQuit
      BY <2>2, <3>3 DEF PassEnd, PollQuit, Inspect, Subscribe, DispatchQuit
    <3>4. CASE Acquire \/ Marshalled \/ MapRace \/ ReceiveClosed \/ Stop \/ Close \/ Finish
               \/ UNCHANGED vars
      BY <2>2, <3>4 DEF Acquire, Marshalled, Read, MapRace, ReceiveClosed, Die, Stop, Close, Finish, Becomes,
                        vars
    <3> QED
      BY <1>2, <3>2, <3>3, <3>4 DEF Aside
  <2> QED
    BY <1>0, <2>1, <2>2 DEF Ordered, UnderWay
<1>3. CASE Receive
  <2>1. Receiving /\ stream' = Tail(stream) /\ cache' = cache /\ clock' = clock
    BY <1>3 DEF Receive, daemonVars
  <2> DEFINE h == Head(stream)
  <2>2. /\ h \in Event /\ Range(stream) = {h} \cup Range(stream')
        /\ Sorted(stream') /\ \A d \in Range(stream') : h.time < d.time
    BY <1>0, <2>1, TailLemma DEF Receiving, Ordered
  <2>3. CASE Room
    <3>1. msgChannel' = Append(msgChannel, h) /\ lost' = lost
      BY <1>3, <2>3 DEF Receive
    <3>2. \A d \in Range(msgChannel) : d.time < h.time
      BY <2>2 DEF Ordered
    <3> HIDE DEF h
    <3>3. Range(msgChannel') = Range(msgChannel) \cup {h} /\ Sorted(msgChannel')
      BY <1>0, <2>2, <3>1, <3>2, AppendLemma DEF Ordered
    <3> QED
      BY <2>1, <2>2, <3>1, <3>3 DEF Ordered, UnderWay
  <2>4. CASE ~Room
    <3>1. msgChannel' = msgChannel /\ lost' = [k \in Container |-> lost[k] \cup Times(k, {h})]
      BY <1>3, <2>4 DEF Receive, Lose
    <3> HIDE DEF h
    <3>2. ASSUME NEW k \in Container, NEW t \in lost'[k] PROVE t <= clock
      BY <2>2, <3>1, <3>2 DEF Ordered, UnderWay, Times
    <3> QED
      BY <2>1, <2>2, <3>1, <3>2 DEF Ordered, UnderWay
  <2> QED
    BY <2>3, <2>4
<1>4. CASE StreamEnd
  <2>1. /\ stream' = <<>> /\ msgChannel' = msgChannel /\ cache' = cache /\ clock' = clock
        /\ lost' = [k \in Container |-> lost[k] \cup Times(k, Range(stream))]
    BY <1>4 DEF StreamEnd, Lose, daemonVars
  <2>2. ASSUME NEW k \in Container, NEW t \in lost'[k] PROVE t <= clock
    BY <2>1, <2>2 DEF Ordered, UnderWay, Times
  <2>3. Range(stream') = {} /\ Sorted(stream')
    BY <2>1, EmptyLemma
  <2> QED
    BY <2>1, <2>2, <2>3 DEF Ordered, UnderWay
<1>5. CASE Filter
  <2>1. /\ msgChannel # <<>> /\ msgChannel' = Tail(msgChannel) /\ stream' = stream
        /\ cache' = IF Head(msgChannel).status \in Tracked THEN cache \cup {Head(msgChannel)} ELSE cache
        /\ clock' = clock /\ lost' = lost
    BY <1>5 DEF Filter, daemonVars
  <2> DEFINE h == Head(msgChannel)
  <2>2. /\ h \in Event /\ Range(msgChannel) = {h} \cup Range(msgChannel')
        /\ Sorted(msgChannel') /\ \A d \in Range(msgChannel') : h.time < d.time
    BY <1>0, <2>1, TailLemma DEF Ordered
  <2>3. cache' \subseteq cache \cup {h} /\ (h.status \notin Tracked => cache' = cache)
    BY <2>1
  <2> HIDE DEF h
  <2>4. h.time \in Nat /\ \A d \in cache : d.time < h.time
    BY <2>2 DEF Ordered, Event
  <2>5. \A e, d \in cache' : e.time = d.time => e = d
    BY <1>0, <2>3, <2>4 DEF Ordered, UnderWay
  <2>6. \A e \in cache' : e.status \in Tracked
    BY <2>3 DEF Ordered
  <2> QED
    BY <2>1, <2>2, <2>3, <2>5, <2>6 DEF Ordered, UnderWay
<1>6. ASSUME NEW m \in Latest, Update(m) PROVE Ordered'
  <2>1. /\ cache' \subseteq cache /\ stream' = stream /\ msgChannel' = msgChannel /\ clock' = clock
        /\ m \in cache /\ m \in UnderWay
    BY <1>6, UpdateLemma DEF daemonVars, UnderWay
  <2>2. ASSUME NEW k \in Container, NEW t \in lost'[k] PROVE t <= clock
    <3>1. \A e \in Overtaken(m) \cup {m} : e.time <= clock
      BY <2>1 DEF Ordered, UnderWay, Overtaken
    <3>2. lost \in [Container -> SUBSET (1..MaxEvents)]
      BY DEF TypeOK
    <3>3. \/ lost' = [lost EXCEPT ![m.id] = {u \in @ : u > m.time}]
          \/ lost' = [j \in Container |-> lost[j] \cup Times(j, Overtaken(m))]
          \/ lost' = [j \in Container |-> lost[j] \cup Times(j, {m})]
      BY <1>6, UpdateLemma
    <3>4. \/ t \in lost[k] \/ t \in Times(k, Overtaken(m)) \/ t \in Times(k, {m})
      BY <2>2, <3>2, <3>3
    <3> QED
      BY <3>1, <3>4 DEF Ordered, Times
  <2> QED
    BY <2>1, <2>2 DEF Ordered, UnderWay
<1>7. CASE Boot
  <2>1. stream' = <<>> /\ msgChannel' = <<>> /\ cache' = {} /\ lost' = Nothing
    BY <1>7 DEF Boot
  <2> QED
    BY <2>1, EmptyLemma DEF Ordered, UnderWay, Nothing
<1> QED
  BY <1>1, <1>2, <1>3, <1>4, <1>5, <1>6, <1>7, Kinds

-----------------------------------------------------------------------------
(* Which goroutines run *)

(* Every step keeps the shape of the process.                              *)
THEOREM StepShape == TypeOK /\ Ordered /\ Shape /\ [Next]_vars => Shape'
<1> SUFFICES ASSUME TypeOK, Ordered, Shape, [Next]_vars PROVE Shape'
  OBVIOUS
<1>0. /\ clock \in Nat /\ starts \in [Container -> Nat] /\ attempts \in Nat
      /\ real \in [Container -> {"stopped", "running", "paused"}]
      /\ stream \in Seq(Event) /\ msgChannel \in Seq(Event) /\ todo \subseteq Container
  BY DEF TypeOK
<1>1. ASSUME NEW c \in Container, Daemon(c) PROVE Shape'
  <2>1. PICK e \in Event, st \in {"stopped", "running", "paused"} : Happened(c, e, st)
    BY <1>1, DaemonLemma
  <2>2. \A k \in Container : real'[k] # "stopped" => starts'[k] >= 1
    BY <1>0, <2>1 DEF Happened, Tells, Shape
  <2>3. \A k \in Container : starts'[k] <= clock'
    BY <1>0, <2>1 DEF Happened, Shape
  <2>4. rcv # "loop" => UnderWay' = UnderWay
    BY <2>1 DEF Happened, UnderWay
  <2> QED
    BY <2>1, <2>2, <2>3, <2>4 DEF Happened, Shape, listVars, mapVars, goVars
<1>2. CASE Aside
  <2>1. /\ \A c \in Container : real'[c] # "stopped" => starts'[c] >= 1
        /\ \A c \in Container : starts'[c] <= clock'
        /\ UnderWay' = UnderWay
    BY <1>2, AsideLemma DEF Shape, UnderWay, daemonVars, eventVars
  <2>2. CASE List
    BY <2>1, <2>2 DEF List, Shape, goVars
  <2>3. CASE ListFail
    BY <1>0, <2>1, <2>3 DEF ListFail, RunOperator, Shape, goVars, mapVars, TypeOK
  <2>4. CASE PassEnd
    BY <2>1, <2>4, DockerAssumption DEF PassEnd, Locked, RunOperator, Shape, goVars, mapVars, TypeOK
  <2>5. CASE PollQuit
    BY <2>1, <2>5 DEF PollQuit, Shape, goVars, mapVars
  <2>6. CASE \E c \in todo : Inspect(c) \/ InspectFail(c)
    BY <2>1, <2>6 DEF Inspect, InspectFail, Locked, Shape, goVars, mapVars
  <2>7. CASE Subscribe \/ DispatchQuit
    BY <2>1, <2>7 DEF Subscribe, DispatchQuit, Shape, listVars, mapVars
  <2>8. CASE Acquire \/ Marshalled \/ MapRace \/ ReceiveClosed \/ Stop \/ Close \/ Finish
             \/ UNCHANGED vars
    BY <2>1, <2>8 DEF Acquire, Marshalled, Read, MapRace, ReceiveClosed, Die, Stop, Close, Finish, Becomes,
                      vars, Shape, listVars, mapVars, goVars
  <2> QED
    BY <1>2, <2>2, <2>3, <2>4, <2>5, <2>6, <2>7, <2>8 DEF Aside
<1>3. CASE Receive
  BY <1>3 DEF Receive, Receiving, Shape, daemonVars, listVars, mapVars, goVars
<1>4. CASE StreamEnd
  BY <1>4 DEF StreamEnd, Shape, daemonVars, listVars, mapVars
<1>5. CASE Filter
  <2>1. UnderWay # {}
    BY <1>0, <1>5, TailLemma DEF Filter, UnderWay
  <2> QED
    BY <1>5, <2>1 DEF Filter, Shape, daemonVars, listVars, mapVars, goVars
<1>6. ASSUME NEW m \in Latest, Update(m) PROVE Shape'
  <2>1. UnderWay # {}
    BY <1>6, UpdateLemma DEF UnderWay
  <2>2. UNCHANGED <<daemonVars, ends, method, proc, listVars, rcv, stream, msgChannel, reader>>
    BY <1>6, UpdateLemma
  <2> QED
    BY <2>1, <2>2 DEF Shape, daemonVars, listVars
<1>7. CASE Boot
  <2>1. UnderWay' = {}
    BY <1>7, EmptyLemma DEF Boot, UnderWay
  <2> QED
    BY <1>7, <2>1, DockerAssumption DEF Boot, Shape, daemonVars
<1> QED
  BY <1>1, <1>2, <1>3, <1>4, <1>5, <1>6, <1>7, Kinds

-----------------------------------------------------------------------------
(* What the news of a container tell *)

(* News are events with times, and no two have the same.                   *)
LEMMA NewsLemma ==
  ASSUME TypeOK, Ordered, NEW c \in Container
  PROVE  /\ \A e \in News(c) : e \in Event /\ e.time \in Nat /\ e.time <= clock
         /\ \A e, d \in News(c) : e.time = d.time => e = d
         /\ lost[c] \subseteq Nat /\ clock \in Nat
<1>1. \A e \in News(c) : e \in UnderWay /\ e \in Event /\ e.time \in Nat
  BY UnderWayLemma DEF News, Event
<1>2. \A e \in News(c) : e.time <= clock
  BY <1>1 DEF Ordered
<1> QED
  BY <1>1, <1>2, UniqueTimes DEF TypeOK

(* Less news, of which those that are trusted are later than what is gone. *)
LEMMA FewerNews ==
  ASSUME TypeOK, Ordered, NEW c \in Container, Follows(c),
         News(c)' \subseteq News(c), real'[c] = real[c],
         \A e \in News(c)' : Trusted(c, e)' =>
           Trusted(c, e) /\ \A r \in News(c) \ News(c)' : r.time < e.time
  PROVE  Follows(c)'
<1>1. /\ \A e \in News(c) : e.time \in Nat
      /\ \A e, d \in News(c) : e.time = d.time => e = d
  BY NewsLemma
<1>2. LastTells(c)'
  <2> SUFFICES ASSUME NEW e \in News(c)', Trusted(c, e)', \A d \in News(c)' : d.time <= e.time
               PROVE  real'[c] = After(e.status)
    BY DEF LastTells, After
  <2>1. \A d \in News(c) : d.time <= e.time
    BY <1>1
  <2> QED
    BY <2>1 DEF Follows, LastTells
<1>3. EndThenStart(c)'
  <2> SUFFICES ASSUME NEW e \in News(c)', NEW d \in News(c)', e.status \in {"die", "stop"},
                      Trusted(c, e)', e.time < d.time, d.status # "stop"
               PROVE  \E s \in News(c)' : s.status = "start" /\ e.time < s.time /\ s.time <= d.time
    BY DEF EndThenStart
  <2>1. PICK s \in News(c) : s.status = "start" /\ e.time < s.time /\ s.time <= d.time
    BY DEF Follows, EndThenStart
  <2> QED
    BY <1>1, <2>1
<1>4. EndStays(c)'
  <2> SUFFICES ASSUME NEW e \in News(c)', e.status \in {"die", "stop"}, Trusted(c, e)',
                      \A s \in News(c)' : s.status = "start" => s.time < e.time
               PROVE  real'[c] = "stopped"
    BY DEF EndStays
  <2>1. \A s \in News(c) : s.status = "start" => s.time < e.time
    OBVIOUS
  <2> QED
    BY <2>1 DEF Follows, EndStays
<1>5. StartStays(c)'
  <2> SUFFICES ASSUME NEW e \in News(c)', e.status = "start", Trusted(c, e)',
                      \A s \in News(c)' : s.status \in {"die", "stop"} => s.time < e.time
               PROVE  real'[c] # "stopped"
    BY DEF StartStays
  <2>1. \A s \in News(c) : s.status \in {"die", "stop"} => s.time < e.time
    OBVIOUS
  <2> QED
    BY <2>1 DEF Follows, StartStays
<1> QED
  BY <1>2, <1>3, <1>4, <1>5 DEF Follows

(* One more piece of news, later than all the others.                      *)
LEMMA OneMore ==
  ASSUME TypeOK, Ordered, NEW c \in Container, Follows(c),
         NEW e, e.status \in Tracked, e.time = clock + 1,
         News(c)' = News(c) \cup {e}, lost'[c] = lost[c], Tells(e, real[c], real'[c])
  PROVE  Follows(c)'
<1>1. /\ e.time \in Nat /\ \A d \in News(c) : d.time \in Nat /\ d.time < e.time
      /\ \A x, d \in News(c) : x.time = d.time => x = d
  BY NewsLemma
<1>2. \A d \in News(c) : Trusted(c, d)' <=> Trusted(c, d)
  BY DEF Trusted
<1>3. LastTells(c)'
  <2> SUFFICES ASSUME NEW d \in News(c)', e.time <= d.time PROVE real'[c] = After(d.status)
    BY DEF LastTells
  <2>1. d = e
    BY <1>1
  <2> QED
    BY <2>1 DEF Tells, After, Tracked
<1>4. EndThenStart(c)'
  <2> SUFFICES ASSUME NEW x \in News(c)', NEW d \in News(c)', x.status \in {"die", "stop"},
                      Trusted(c, x)', x.time < d.time, d.status # "stop"
               PROVE  \E s \in News(c)' : s.status = "start" /\ x.time < s.time /\ s.time <= d.time
    BY DEF EndThenStart
  <2>1. x \in News(c) /\ Trusted(c, x)
    BY <1>1, <1>2
  <2>2. CASE d \in News(c)
    BY <2>1, <2>2 DEF Follows, EndThenStart
  <2>3. CASE d = e
    <3>1. CASE \E s \in News(c) : s.status = "start" /\ ~(s.time < x.time)
      <4>1. PICK s \in News(c) : s.status = "start" /\ ~(s.time < x.time)
        BY <3>1
      <4> QED
        BY <1>1, <2>1, <2>3, <4>1
    <3>2. CASE ~\E s \in News(c) : s.status = "start" /\ ~(s.time < x.time)
      <4>1. real[c] = "stopped"
        BY <2>1, <3>2 DEF Follows, EndStays
      <4> QED
        BY <1>1, <2>1, <2>3, <4>1 DEF Tells
    <3> QED
      BY <3>1, <3>2
  <2> QED
    BY <2>2, <2>3
<1>5. EndStays(c)'
  <2> SUFFICES ASSUME NEW x \in News(c)', x.status \in {"die", "stop"}, Trusted(c, x)',
                      \A s \in News(c)' : s.status = "start" => s.time < x.time
               PROVE  real'[c] = "stopped"
    BY DEF EndStays
  <2>1. CASE x = e
    BY <2>1 DEF Tells
  <2>2. CASE x \in News(c)
    <3>1. real[c] = "stopped"
      BY <1>2, <2>2 DEF Follows, EndStays
    <3>2. e.status # "start"
      BY <1>1, <2>2
    <3> QED
      BY <3>1, <3>2 DEF Tells
  <2> QED
    BY <2>1, <2>2
<1>6. StartStays(c)'
  <2> SUFFICES ASSUME NEW x \in News(c)', x.status = "start", Trusted(c, x)',
                      \A s \in News(c)' : s.status \in {"die", "stop"} => s.time < x.time
               PROVE  real'[c] # "stopped"
    BY DEF StartStays
  <2>1. CASE x = e
    BY <2>1 DEF Tells
  <2>2. CASE x \in News(c)
    <3>1. real[c] # "stopped"
      BY <1>2, <2>2 DEF Follows, StartStays
    <3>2. e.status \notin {"die", "stop"}
      BY <1>1, <2>2
    <3> QED
      BY <3>1, <3>2 DEF Tells
  <2> QED
    BY <2>1, <2>2
<1> QED
  BY <1>3, <1>4, <1>5, <1>6 DEF Follows

(* Every step keeps what the news tell.                                    *)
THEOREM StepFollows ==
  ASSUME TypeOK, Ordered, Shape, Shape', [Next]_vars, NEW c \in Container, Follows(c)
  PROVE  Follows(c)'
<1>0. /\ \A e \in News(c) : e \in Event /\ e.time \in Nat /\ e.time <= clock
      /\ \A e, d \in News(c) : e.time = d.time => e = d
      /\ lost[c] \subseteq Nat /\ clock \in Nat
      /\ lost \in [Container -> SUBSET (1..MaxEvents)]
      /\ real \in [Container -> {"stopped", "running", "paused"}]
      /\ stream \in Seq(Event) /\ msgChannel \in Seq(Event)
  BY NewsLemma DEF TypeOK
<1>1. CASE UnderWay' = {}
  BY <1>1 DEF Follows, LastTells, EndThenStart, EndStays, StartStays, News
\* Nothing is gone, and not less is lost.
<1>2. ASSUME News(c)' = News(c), real'[c] = real[c], lost[c] \subseteq lost'[c]
      PROVE  Follows(c)'
  <2>1. \A e \in News(c)' : Trusted(c, e)' => Trusted(c, e)
    BY <1>2 DEF Trusted
  <2> QED
    BY <1>2, <2>1, FewerNews
<1>3. ASSUME NEW k \in Container, Daemon(k), UnderWay' # {} PROVE Follows(c)'
  <2>1. PICK e \in Event, st \in {"stopped", "running", "paused"} : Happened(k, e, st)
    BY <1>3, DaemonLemma
  <2>2. /\ e.id = k /\ e.time = clock + 1 /\ Tells(e, real[k], st)
        /\ real' = [real EXCEPT ![k] = st] /\ msgChannel' = msgChannel /\ cache' = cache
        /\ rcv = "loop" => stream' = Append(stream, e) /\ lost' = lost
        /\ rcv # "loop" => /\ stream' = stream
                           /\ lost' = [j \in Container |-> lost[j] \cup Times(j, {e})]
    BY <2>1 DEF Happened
  <2>3. rcv = "loop" => UnderWay' = UnderWay \cup {e}
    <3>1. Range(Append(stream, e)) = Range(stream) \cup {e}
      BY <1>0, AppendLemma
    <3> QED
      BY <2>2, <3>1 DEF UnderWay
  <2>4. rcv # "loop" => UnderWay' = UnderWay
    BY <2>2 DEF UnderWay
  <2>5. CASE k # c \/ e.status \notin Tracked
    <3>1. News(c)' = News(c)
      BY <2>2, <2>3, <2>4, <2>5 DEF News
    <3>2. real'[c] = real[c]
      BY <1>0, <2>2, <2>5 DEF Tells, Tracked
    <3>3. lost[c] \subseteq lost'[c]
      BY <1>0, <2>2
    <3> QED
      BY <1>2, <3>1, <3>2, <3>3
  <2>6. CASE k = c /\ e.status \in Tracked /\ rcv = "loop"
    <3>1. News(c)' = News(c) \cup {e}
      BY <2>2, <2>3, <2>6 DEF News
    <3>2. lost'[c] = lost[c] /\ Tells(e, real[c], real'[c])
      BY <1>0, <2>2, <2>6
    <3> QED
      BY <2>2, <2>6, <3>1, <3>2, OneMore
  <2>7. CASE k = c /\ e.status \in Tracked /\ rcv # "loop"
    <3>1. News(c)' = News(c)
      BY <2>4, <2>7 DEF News
    <3>2. clock + 1 \in lost'[c]
      BY <1>0, <2>2, <2>7 DEF Times
    <3>3. \A d \in News(c)' : ~Trusted(c, d)'
      BY <1>0, <3>1, <3>2 DEF Trusted
    <3> QED
      BY <3>3 DEF Follows, LastTells, EndThenStart, EndStays, StartStays
  <2> QED
    BY <2>5, <2>6, <2>7
<1>4. ASSUME Aside, UnderWay' # {} PROVE Follows(c)'
  <2>1. UnderWay' = UnderWay /\ News(c)' = News(c) /\ real' = real
    BY <1>4, AsideLemma DEF UnderWay, News, daemonVars, eventVars
  <2>2. rcv \notin {"off", "start"}
    BY <1>4, <2>1 DEF Shape
  <2>3. op \notin {"create", "first", "idle", "poll"}
    BY <2>2, DockerAssumption DEF Shape, TypeOK
  <2>4. lost' = lost
    BY <1>4, <2>2, <2>3
       DEF Aside, List, ListFail, PassEnd, PollQuit, Inspect, InspectFail, Locked, Subscribe, DispatchQuit, Acquire,
           Marshalled, Read, MapRace, ReceiveClosed, Die, Stop, Close, Finish, Becomes, vars
  <2> QED
    BY <1>2, <2>1, <2>4
<1>5. ASSUME Receive PROVE Follows(c)'
  <2> DEFINE h == Head(stream)
  <2>1. /\ stream # <<>> /\ stream' = Tail(stream) /\ cache' = cache /\ real' = real
        /\ Room => msgChannel' = Append(msgChannel, h) /\ lost' = lost
        /\ ~Room => msgChannel' = msgChannel /\ lost' = [j \in Container |-> lost[j] \cup Times(j, {h})]
    BY <1>5 DEF Receive, Receiving, daemonVars, Lose
  <2>2. h \in Event /\ Range(stream) = {h} \cup Range(stream')
    BY <1>0, <2>1, TailLemma
  <2> HIDE DEF h
  <2>3. CASE Room
    <3>1. UnderWay' = UnderWay
      <4>1. Range(Append(msgChannel, h)) = Range(msgChannel) \cup {h}
        BY <1>0, <2>2, AppendLemma
      <4> QED
        BY <2>1, <2>2, <2>3, <4>1 DEF UnderWay
    <3> QED
      BY <1>2, <2>1, <2>3, <3>1 DEF News
  <2>4. CASE ~Room
    <3>1. UnderWay' \subseteq UnderWay /\ UnderWay \subseteq UnderWay' \cup {h}
      BY <2>1, <2>2, <2>4 DEF UnderWay
    <3>2. News(c)' \subseteq News(c) /\ News(c) \ News(c)' \subseteq {h}
      BY <3>1 DEF News
    <3>3. ASSUME NEW e \in News(c)', Trusted(c, e)'
          PROVE  Trusted(c, e) /\ \A r \in News(c) \ News(c)' : r.time < e.time
      <4>1. Trusted(c, e)
        BY <1>0, <2>1, <2>4, <3>3 DEF Trusted
      <4>2. ASSUME NEW r \in News(c) \ News(c)' PROVE r.time < e.time
        <5>1. r.time \in lost'[c]
          BY <1>0, <2>1, <2>4, <3>2, <4>2 DEF News, Times
        <5>2. r.time <= e.time
          BY <3>3, <5>1 DEF Trusted
        <5> QED
          BY <1>0, <3>2, <5>2
      <4> QED
        BY <4>1, <4>2
    <3> QED
      BY <2>1, <3>2, <3>3, FewerNews
  <2> QED
    BY <2>3, <2>4
<1>6. ASSUME StreamEnd PROVE Follows(c)'
  <2>1. /\ stream' = <<>> /\ msgChannel' = msgChannel /\ cache' = cache /\ real' = real
        /\ lost' = [j \in Container |-> lost[j] \cup Times(j, Range(stream))]
    BY <1>6 DEF StreamEnd, Lose, daemonVars
  <2>2. /\ News(c)' \subseteq News(c)
        /\ \A r \in News(c) \ News(c)' : r \in Range(stream) /\ r.id = c /\ r.status \in Tracked
    BY <2>1, EmptyLemma DEF News, UnderWay
  <2>3. ASSUME NEW e \in News(c)', Trusted(c, e)'
        PROVE  Trusted(c, e) /\ \A r \in News(c) \ News(c)' : r.time < e.time
    <3>1. Trusted(c, e)
      BY <1>0, <2>1, <2>3 DEF Trusted
    <3>2. ASSUME NEW r \in News(c) \ News(c)' PROVE r.time < e.time
      <4>1. r.time \in lost'[c]
        BY <1>0, <2>1, <2>2, <3>2 DEF Times
      <4>2. r.time <= e.time
        BY <2>3, <4>1 DEF Trusted
      <4> QED
        BY <1>0, <2>2, <4>2
    <3> QED
      BY <3>1, <3>2
  <2> QED
    BY <2>1, <2>2, <2>3, FewerNews
<1>7. ASSUME Filter PROVE Follows(c)'
  <2> DEFINE h == Head(msgChannel)
  <2>1. /\ msgChannel # <<>> /\ msgChannel' = Tail(msgChannel) /\ stream' = stream
        /\ cache' = IF h.status \in Tracked THEN cache \cup {h} ELSE cache
        /\ real' = real /\ lost' = lost
    BY <1>7 DEF Filter, daemonVars
  <2>2. Range(msgChannel) = {h} \cup Range(msgChannel')
    BY <1>0, <2>1, TailLemma
  <2> HIDE DEF h
  <2>3. News(c)' = News(c)
    BY <2>1, <2>2 DEF News, UnderWay
  <2> QED
    BY <1>2, <2>1, <2>3
<1>8. ASSUME NEW m \in Latest, Update(m) PROVE Follows(c)'
  <2>1. /\ m \in cache /\ m.id \in Container /\ m.time \in 1..MaxEvents
        /\ cache' = {e \in cache : e.id # m.id} /\ stream' = stream /\ msgChannel' = msgChannel
        /\ real' = real
        /\ \/ lost' = [lost EXCEPT ![m.id] = {t \in @ : t > m.time}]
           \/ lost' = [k \in Container |-> lost[k] \cup Times(k, Overtaken(m))]
           \/ lost' = [k \in Container |-> lost[k] \cup Times(k, {m})]
    BY <1>8, UpdateLemma DEF daemonVars
  <2>2. CASE m.id # c
    <3>1. News(c)' = News(c)
      BY <2>1, <2>2 DEF News, UnderWay
    <3>2. lost[c] \subseteq lost'[c]
      BY <1>0, <2>1, <2>2
    <3> QED
      BY <1>2, <2>1, <3>1, <3>2
  <2>3. CASE m.id = c
    <3>1. News(c)' \subseteq News(c) /\ News(c) \ News(c)' \subseteq cache
      BY <2>1 DEF News, UnderWay
    <3>2. ASSUME NEW e \in News(c)' PROVE e \in Range(stream) \cup Range(msgChannel)
      BY <2>1, <2>3 DEF News, UnderWay
    <3>3. ASSUME NEW e \in News(c)', NEW d \in cache PROVE d.time < e.time
      BY <3>2 DEF Ordered
    <3>4. ASSUME NEW e \in News(c)', Trusted(c, e)' PROVE Trusted(c, e)
      <4>1. m.time < e.time /\ e.time \in Nat
        BY <1>0, <2>1, <3>1, <3>3
      <4>2. ASSUME NEW t \in lost[c] PROVE t <= e.time
        <5>1. t \in lost'[c] \/ t <= m.time
          BY <1>0, <2>1, <2>3
        <5> QED
          BY <1>0, <2>1, <3>4, <4>1, <5>1 DEF Trusted
      <4> QED
        BY <4>2 DEF Trusted
    <3> QED
      BY <2>1, <3>1, <3>3, <3>4, FewerNews
  <2> QED
    BY <2>2, <2>3
<1>9. CASE Boot
  BY <1>1, <1>9 DEF Boot, Shape
<1> QED
  BY <1>1, <1>3, <1>4, <1>5, <1>6, <1>7, <1>8, <1>9, Kinds

-----------------------------------------------------------------------------
(* The passes over the list *)

(* Every step keeps what a pass has seen.                                  *)
THEOREM StepPass ==
  ASSUME TypeOK, Ordered, Shape, [Next]_vars, NEW c \in Container, Pass(c)
  PROVE  Pass(c)'
<1> SUFFICES ASSUME op' \in {"first", "poll", "idle"}, lost'[c] = {} PROVE Pass(c)'
  BY DEF Pass
<1>0. /\ lost \in [Container -> SUBSET (1..MaxEvents)]
      /\ real \in [Container -> {"stopped", "running", "paused"}]
      /\ starts \in [Container -> 0..MaxEvents]
      /\ inspects \in [Container -> 0..MaxEvents] /\ pausing \in [Container -> 0..MaxEvents]
      /\ method \in {"polling", "events"} /\ todo \subseteq Container
  BY DockerAssumption DEF TypeOK
<1>1. ASSUME op \in {"first", "poll", "idle"} PROVE rcv = "off" /\ UnderWay = {}
  BY <1>0, <1>1 DEF Shape
<1>2. ASSUME NEW k \in Container, Daemon(k) PROVE Pass(c)'
  <2>1. PICK e \in Event, st \in {"stopped", "running", "paused"} : Happened(k, e, st)
    BY <1>2, DaemonLemma
  <2>2. /\ e.id = k /\ Tells(e, real[k], st)
        /\ real' = [real EXCEPT ![k] = st]
        /\ starts' = [starts EXCEPT ![k] = IF e.status = "start" THEN @ + 1 ELSE @]
        /\ rcv # "loop" => lost' = [j \in Container |-> lost[j] \cup Times(j, {e})]
        /\ method' = method /\ op' = op /\ todo' = todo /\ inspects' = inspects /\ pausing' = pausing
    BY <2>1 DEF Happened, listVars, mapVars
  <2>3. lost[c] = {} /\ Times(c, {e}) = {}
    BY <1>0, <1>1, <2>2
  <2>4. k # c \/ e.status \notin Tracked
    BY <2>2, <2>3 DEF Times
  <2>5. real'[c] = real[c] /\ starts'[c] = starts[c]
    BY <1>0, <2>2, <2>4 DEF Tells, Tracked
  <2> QED
    BY <2>2, <2>3, <2>5 DEF Pass
<1>3. CASE Aside
  <2>1. real' = real /\ starts' = starts
    BY <1>3, AsideLemma DEF daemonVars
  <2>2. CASE List
    <3>1. CASE op = "create"
      BY <1>0, <2>1, <2>2, <3>1 DEF List, Listed, Shape, None, Pass, mapVars
    <3>2. CASE op = "idle"
      <4>1. method # "events"
        BY <3>2 DEF Shape
      <4> QED
        BY <1>0, <2>1, <2>2, <4>1 DEF List, Listed, Pass, mapVars
    <3> QED
      BY <2>2, <3>1, <3>2 DEF List
  <2>3. CASE ListFail
    <3>1. op = "idle" \/ attempts' < Attempts
      <4>1. clock \in [k \in Container |-> {clock}][c]
        OBVIOUS
      <4> QED
        BY <2>3, <4>1 DEF ListFail
    <3>2. UNCHANGED <<method, op, todo, lost, mapVars>>
      BY <2>3, <3>1 DEF ListFail
    <3>3. op = "idle"
      BY <2>3, <3>2 DEF ListFail
    <3> QED
      BY <2>1, <3>2, <3>3 DEF Pass, mapVars
  <2>4. CASE PassEnd
    <3>1. /\ op \in {"first", "poll"} /\ todo = {}
          /\ UNCHANGED <<method, todo, lost, inspects, pausing>>
      BY <2>4 DEF PassEnd, Locked, mapVars
    <3> QED
      BY <2>1, <3>1 DEF Pass
  <2>5. ASSUME NEW k \in todo, Inspect(k) PROVE Pass(c)'
    <3>1. /\ op \in {"first", "poll"} /\ todo' = todo \ {k}
          /\ inspects' = [inspects EXCEPT ![k] = starts[k]]
          /\ UNCHANGED <<method, op, lost, pausing>>
      BY <2>5 DEF Inspect, Locked
    <3> QED
      BY <1>0, <2>1, <2>5, <3>1 DEF Pass
  <2>6. ASSUME NEW k \in todo, InspectFail(k) PROVE Pass(c)'
    <3>1. /\ op \in {"first", "poll"} /\ todo' = todo \ {k}
          /\ lost' = [lost EXCEPT ![k] = @ \cup {clock}]
          /\ UNCHANGED <<method, op, inspects, pausing>>
      BY <2>6 DEF InspectFail, Locked, mapVars
    <3>2. c # k
      BY <1>0, <3>1
    <3> QED
      BY <1>0, <2>1, <3>1, <3>2 DEF Pass
  <2>7. CASE PollQuit
    BY <2>7 DEF PollQuit
  <2>8. CASE Subscribe \/ DispatchQuit \/ Acquire \/ Marshalled \/ MapRace \/ ReceiveClosed \/ Stop \/ Close
             \/ Finish \/ UNCHANGED vars
    <3>1. UNCHANGED <<method, op, todo, lost, inspects, pausing>>
      BY <2>8 DEF Subscribe, DispatchQuit, Acquire, Marshalled, Read, MapRace, ReceiveClosed, Die, Stop, Close,
                  Finish, Becomes, vars, listVars, mapVars
    <3> QED
      BY <2>1, <3>1 DEF Pass
  <2> QED
    BY <1>3, <2>2, <2>3, <2>4, <2>5, <2>6, <2>7, <2>8 DEF Aside
<1>4. ASSUME Receive \/ StreamEnd PROVE FALSE
  <2>1. op' = op /\ rcv = "loop"
    BY <1>4 DEF Receive, Receiving, StreamEnd, listVars
  <2> QED
    BY <1>1, <2>1
<1>5. ASSUME Filter PROVE FALSE
  <2>1. op' = op /\ msgChannel # <<>>
    BY <1>5 DEF Filter, listVars
  <2>2. Range(msgChannel) # {}
    BY <2>1, TailLemma DEF TypeOK
  <2> QED
    BY <1>1, <2>1, <2>2 DEF UnderWay
<1>6. ASSUME NEW m \in Latest, Update(m) PROVE FALSE
  <2>1. op' = op /\ m \in cache
    BY <1>6, UpdateLemma DEF listVars
  <2> QED
    BY <1>1, <2>1 DEF UnderWay
<1>7. ~Boot
  BY DEF Boot
<1> QED
  BY <1>2, <1>3, <1>4, <1>5, <1>6, <1>7, Kinds

-----------------------------------------------------------------------------
(* The view of the events method *)

(* Nothing that concerns the view of c changes.                            *)
LEMMA SameView ==
  ASSUME NEW c \in Container, View(c), op = "done", lost[c] = {},
         News(c)' = News(c), method' = method,
         real'[c] = real[c], starts'[c] = starts[c],
         inspects'[c] = inspects[c], pausing'[c] = pausing[c]
  PROVE  View(c)'
  BY DEF View

(* Every step keeps the view.                                              *)
THEOREM StepView ==
  ASSUME TypeOK, Ordered, Shape, Shape', [Next]_vars, NEW c \in Container, Follows(c), Pass(c), View(c)
  PROVE  View(c)'
<1> SUFFICES ASSUME method' = "events", op' = "done", lost'[c] = {},
                    \A e \in News(c)' : e.status \notin Resets
             PROVE  View(c)'
  BY DEF View
<1>0. /\ lost \in [Container -> SUBSET (1..MaxEvents)]
      /\ real \in [Container -> {"stopped", "running", "paused"}]
      /\ starts \in [Container -> 0..MaxEvents]
      /\ inspects \in [Container -> 0..MaxEvents] /\ pausing \in [Container -> 0..MaxEvents]
      /\ method \in {"polling", "events"}
      /\ stream \in Seq(Event) /\ msgChannel \in Seq(Event) /\ clock \in Nat
  BY DockerAssumption DEF TypeOK
<1>news. /\ \A e \in News(c) : e.time \in Nat
      /\ \A e, d \in News(c) : e.time = d.time => e = d
      /\ lost[c] \subseteq Nat
  BY NewsLemma
<1>1. ASSUME NEW k \in Container, Daemon(k) PROVE View(c)'
  <2>1. PICK e \in Event, st \in {"stopped", "running", "paused"} : Happened(k, e, st)
    BY <1>1, DaemonLemma
  <2>2. /\ e.id = k /\ e.time = clock + 1 /\ Tells(e, real[k], st)
        /\ real' = [real EXCEPT ![k] = st]
        /\ starts' = [starts EXCEPT ![k] = IF e.status = "start" THEN @ + 1 ELSE @]
        /\ msgChannel' = msgChannel /\ cache' = cache
        /\ rcv = "loop" => stream' = Append(stream, e) /\ lost' = lost
        /\ rcv # "loop" => /\ stream' = stream
                           /\ lost' = [j \in Container |-> lost[j] \cup Times(j, {e})]
        /\ method' = method /\ op' = op /\ inspects' = inspects /\ pausing' = pausing
    BY <2>1 DEF Happened, listVars, mapVars
  <2>3. rcv = "loop" => UnderWay' = UnderWay \cup {e}
    <3>1. Range(Append(stream, e)) = Range(stream) \cup {e}
      BY <1>0, AppendLemma
    <3> QED
      BY <2>2, <3>1 DEF UnderWay
  <2>4. rcv # "loop" => UnderWay' = UnderWay
    BY <2>2 DEF UnderWay
  <2>5. lost[c] = {}
    BY <1>0, <2>2
  <2>6. CASE k # c \/ e.status \notin Tracked
    <3>1. News(c)' = News(c)
      BY <2>2, <2>3, <2>4, <2>6 DEF News
    <3>2. real'[c] = real[c] /\ starts'[c] = starts[c]
      BY <1>0, <2>2, <2>6 DEF Tells, Tracked
    <3> QED
      BY <2>2, <2>5, <3>1, <3>2, SameView
  <2>7. CASE k = c /\ e.status \in Tracked
    <3>1. rcv = "loop"
      <4>1. e.time \in Times(c, {e})
        BY <2>2, <2>7 DEF Times
      <4> QED
        BY <1>0, <2>2, <4>1
    <3>2. News(c)' = News(c) \cup {e}
      BY <2>2, <2>3, <2>7, <3>1 DEF News
    <3>3. e.status \notin Resets
      BY <3>2
    <3>4. real[c] # "stopped" /\ real'[c] # "stopped" /\ starts'[c] = starts[c]
      BY <1>0, <2>2, <2>7, <3>3 DEF Tells, Resets, Tracked
    <3>5. \/ inspects[c] = starts[c] /\ pausing[c] = 0
          \/ inspects[c] = 0 /\ pausing[c] = starts[c]
      BY <2>2, <2>5, <3>2, <3>4 DEF View
    <3> QED
      BY <2>2, <3>2, <3>4, <3>5 DEF View
  <2> QED
    BY <2>6, <2>7
<1>2. CASE Aside
  <2>1. real' = real /\ starts' = starts /\ News(c)' = News(c)
    BY <1>2, AsideLemma DEF daemonVars, eventVars, News, UnderWay
  <2>2. CASE List \/ PollQuit \/ \E k \in todo : Inspect(k) \/ InspectFail(k)
    BY <1>0, <2>2 DEF List, PollQuit, Inspect, InspectFail, Locked, Shape
  <2>3. CASE ListFail
    BY <1>0, <2>3 DEF ListFail
  <2>4. CASE PassEnd
    <3>1. /\ op \in {"first", "poll"} /\ todo = {}
          /\ UNCHANGED <<method, lost, inspects, pausing>>
      BY <2>4 DEF PassEnd, Locked, mapVars
    <3>2. rcv = "off" /\ News(c) = {}
      BY <3>1 DEF Shape, News
    <3>3. /\ real[c] # "paused" /\ pausing[c] = 0
          /\ real[c] = "running" => inspects[c] = starts[c]
          /\ real[c] = "stopped" => inspects[c] = 0
      BY <3>1 DEF Pass
    <3> QED
      BY <1>0, <2>1, <3>1, <3>2, <3>3 DEF View
  <2>5. CASE Subscribe \/ DispatchQuit \/ Acquire \/ Marshalled \/ MapRace \/ ReceiveClosed \/ Stop \/ Close
             \/ Finish \/ UNCHANGED vars
    <3>1. UNCHANGED <<method, op, lost, inspects, pausing>>
      BY <2>5 DEF Subscribe, DispatchQuit, Acquire, Marshalled, Read, MapRace, ReceiveClosed, Die, Stop, Close,
                  Finish, Becomes, vars, listVars, mapVars
    <3> QED
      BY <2>1, <3>1, SameView
  <2> QED
    BY <1>2, <2>2, <2>3, <2>4, <2>5 DEF Aside
<1>3. CASE Receive
  <2> DEFINE h == Head(stream)
  <2>1. /\ stream # <<>> /\ stream' = Tail(stream) /\ cache' = cache
        /\ Room => msgChannel' = Append(msgChannel, h) /\ lost' = lost
        /\ ~Room => msgChannel' = msgChannel /\ lost' = [j \in Container |-> lost[j] \cup Times(j, {h})]
        /\ UNCHANGED <<real, starts, method, op, inspects, pausing>>
    BY <1>3 DEF Receive, Receiving, daemonVars, listVars, mapVars, Lose
  <2>2. h \in Event /\ Range(stream) = {h} \cup Range(stream')
    BY <1>0, <2>1, TailLemma
  <2>3. Range(Append(msgChannel, h)) = Range(msgChannel) \cup {h}
    BY <1>0, <2>2, AppendLemma
  <2> HIDE DEF h
  <2>4. CASE Room
    BY <2>1, <2>2, <2>3, <2>4, SameView DEF News, UnderWay
  <2>5. CASE ~Room
    <3>1. lost[c] = {} /\ Times(c, {h}) = {}
      BY <1>0, <2>1, <2>5
    <3>2. h.id # c \/ h.status \notin Tracked
      BY <3>1 DEF Times
    <3>3. News(c)' = News(c)
      BY <2>1, <2>2, <2>5, <3>2 DEF News, UnderWay
    <3> QED
      BY <2>1, <3>1, <3>3, SameView
  <2> QED
    BY <2>4, <2>5
<1>4. CASE StreamEnd
  <2>1. /\ stream' = <<>> /\ msgChannel' = msgChannel /\ cache' = cache
        /\ lost' = [j \in Container |-> lost[j] \cup Times(j, Range(stream))]
        /\ UNCHANGED <<real, starts, method, op, inspects, pausing>>
    BY <1>4 DEF StreamEnd, daemonVars, listVars, mapVars, Lose
  <2>2. lost[c] = {} /\ Times(c, Range(stream)) = {}
    BY <1>0, <2>1
  <2>3. ASSUME NEW e \in Range(stream), e.id = c, e.status \in Tracked PROVE FALSE
    <3>1. e.time \in Times(c, Range(stream))
      BY <2>3 DEF Times
    <3> QED
      BY <2>2, <3>1
  <2>4. Range(stream') = {}
    BY <2>1, EmptyLemma
  <2>5. News(c)' = News(c)
    BY <2>1, <2>3, <2>4 DEF News, UnderWay
  <2> QED
    BY <2>1, <2>2, <2>5, SameView
<1>5. CASE Filter
  <2> DEFINE h == Head(msgChannel)
  <2>1. /\ msgChannel # <<>> /\ msgChannel' = Tail(msgChannel) /\ stream' = stream
        /\ cache' = IF h.status \in Tracked THEN cache \cup {h} ELSE cache
        /\ UNCHANGED <<real, starts, lost, method, op, inspects, pausing>>
    BY <1>5 DEF Filter, daemonVars, listVars, mapVars
  <2>2. Range(msgChannel) = {h} \cup Range(msgChannel')
    BY <1>0, <2>1, TailLemma
  <2> HIDE DEF h
  <2>3. News(c)' = News(c)
    BY <2>1, <2>2 DEF News, UnderWay
  <2> QED
    BY <2>1, <2>3, SameView
<1>6. ASSUME NEW m \in Latest, Update(m) PROVE View(c)'
  <2>1. /\ m \in cache /\ m.id \in Container /\ m.time \in 1..MaxEvents /\ m.status \in Tracked
        /\ cache' = {e \in cache : e.id # m.id}
        /\ UNCHANGED <<real, starts, method, op, stream, msgChannel>>
    BY <1>6, UpdateLemma DEF daemonVars, listVars
  <2>2. CASE m.id # c
    <3>1. News(c)' = News(c)
      BY <2>1, <2>2 DEF News, UnderWay
    <3>2. lost[c] = {}
      BY <1>0, <1>6, <2>1, <2>2, UpdateLemma
    <3>3. inspects'[c] = inspects[c] /\ pausing'[c] = pausing[c]
      BY <1>0, <1>6, <2>2 DEF Update, UpdateDie, UpdatePause, UpdateUnpause, UpdateStart
    <3> QED
      BY <2>1, <3>1, <3>2, <3>3, SameView
  <2>3. CASE m.id = c
    \* m is news, the rest of the cache is older, and what stays is newer.
    <3>1. m \in News(c) /\ News(c)' \subseteq News(c)
      BY <2>1, <2>3 DEF News, UnderWay
    <3>2. ASSUME NEW e \in News(c), e \notin News(c)', e # m PROVE e \in cache /\ e.time < m.time
      <4>1. e \in cache
        BY <2>1, <3>2 DEF News, UnderWay
      <4>2. e.time <= m.time
        BY <2>3, <4>1 DEF Latest, News
      <4> QED
        BY <1>news, <3>1, <3>2, <4>1, <4>2
    <3>3. ASSUME NEW e \in News(c)' PROVE m.time < e.time /\ e.status \notin Resets /\ e # m
      <4>1. e \in Range(stream) \cup Range(msgChannel)
        BY <2>1, <2>3 DEF News, UnderWay
      <4>2. m.time < e.time
        BY <2>1, <4>1 DEF Ordered
      <4> QED
        BY <1>news, <3>1, <4>2
    <3>4. News(c)' = {} => \A d \in News(c) : d.time <= m.time
      BY <1>news, <3>1, <3>2
    \* A start after m would still be under way.
    <3>5. ASSUME NEW s \in News(c), s.status = "start" PROVE ~(m.time < s.time)
      <4>1. s \notin News(c)'
        BY <3>3, <3>5 DEF Resets
      <4> QED
        BY <1>news, <3>1, <3>2, <3>5, <4>1
    <3>6. CASE UpdateDie(m)
      <4>1. /\ m.status \in {"die", "stop"} /\ inspects'[c] = 0 /\ pausing'[c] = 0
            /\ lost'[c] = {t \in lost[c] : t > m.time}
        BY <1>0, <2>3, <3>6 DEF UpdateDie, SetRight
      <4>2. Trusted(c, m)
        <5>1. ASSUME NEW t \in lost[c] PROVE t <= m.time
          BY <1>news, <3>1, <4>1
        <5> QED
          BY <5>1 DEF Trusted
      <4>3. News(c)' = {}
        <5> SUFFICES ASSUME NEW d \in News(c)' PROVE FALSE
          OBVIOUS
        <5>1. d.status # "stop" /\ m.time < d.time
          BY <3>3 DEF Resets
        <5>2. PICK s \in News(c) : s.status = "start" /\ m.time < s.time
          BY <3>1, <4>1, <4>2, <5>1 DEF Follows, EndThenStart
        <5> QED
          BY <3>5, <5>2
      <4>4. \A s \in News(c) : s.status = "start" => s.time < m.time
        BY <3>2, <4>1, <4>3
      <4>5. real[c] = "stopped"
        BY <3>1, <4>1, <4>2, <4>4 DEF Follows, EndStays
      <4> QED
        BY <2>1, <4>1, <4>3, <4>5 DEF View
    <3>7. CASE UpdateStart(m)
      <4>1. m.status = "start" /\ pausing'[c] = 0
        BY <1>0, <2>3, <3>7 DEF UpdateStart
      <4>2. inspects'[c] = starts[c] /\ lost'[c] = {t \in lost[c] : t > m.time}
        <5>1. CASE CallSucceeds /\ inspects' = [inspects EXCEPT ![m.id] = starts[m.id]] /\ SetRight(m)
          BY <1>0, <2>3, <5>1 DEF SetRight
        <5>2. CASE Lose({m})
          <6>1. m.time \in Times(c, {m})
            BY <2>1, <2>3 DEF Times
          <6> QED
            BY <1>0, <5>2, <6>1 DEF Lose
        <5> QED
          BY <3>7, <5>1, <5>2 DEF UpdateStart
      <4>3. Trusted(c, m)
        <5>1. ASSUME NEW t \in lost[c] PROVE t <= m.time
          BY <1>news, <3>1, <4>2
        <5> QED
          BY <5>1 DEF Trusted
      <4>4. \A d \in News(c) : d.status \in {"die", "stop"} => d.time < m.time
        BY <3>2, <3>3, <4>1 DEF Resets
      <4>5. real[c] # "stopped"
        BY <3>1, <4>1, <4>3, <4>4 DEF Follows, StartStays
      <4>6. News(c)' = {} => real[c] = "running"
        BY <3>1, <3>4, <4>1, <4>3 DEF Follows, LastTells, After
      <4> QED
        BY <2>1, <4>1, <4>2, <4>5, <4>6 DEF View
    <3>8. CASE UpdatePause(m) \/ UpdateUnpause(m)
      <4>1. m.status \in {"pause", "unpause"} /\ lost' = [k \in Container |-> lost[k] \cup Times(k, Overtaken(m))]
        BY <3>8 DEF UpdatePause, UpdateUnpause, Lose
      <4>2. lost[c] = {} /\ Times(c, Overtaken(m)) = {}
        BY <1>0, <4>1
      <4>3. Trusted(c, m) /\ \A e \in News(c) : Trusted(c, e)
        BY <4>2 DEF Trusted
      \* No start is passed over, and an end would be followed by one.
      <4>4. ASSUME NEW e \in News(c) PROVE e.status # "start"
        <5> SUFFICES ASSUME e.status = "start" PROVE FALSE
          OBVIOUS
        <5>1. e \in cache /\ e # m
          BY <3>2, <3>3, <4>1 DEF Resets
        <5>2. e \in Overtaken(m) /\ e.id = c /\ e.status \in Tracked
          BY <2>3, <5>1 DEF Overtaken, News
        <5> QED
          BY <4>2, <5>2 DEF Times
      <4>5. ASSUME NEW e \in News(c) PROVE e.status \notin Resets
        <5> SUFFICES ASSUME e.status \in {"die", "stop"} PROVE FALSE
          BY <4>4 DEF Resets
        <5>1. e.time < m.time
          BY <3>2, <3>3, <4>1 DEF Resets
        <5>2. \E s \in News(c) : s.status = "start"
          BY <3>1, <4>1, <4>3, <5>1 DEF Follows, EndThenStart
        <5> QED
          BY <4>4, <5>2
      <4>6. /\ real[c] # "stopped"
            /\ \/ inspects[c] = starts[c] /\ pausing[c] = 0
               \/ inspects[c] = 0 /\ pausing[c] = starts[c]
        BY <2>1, <3>1, <4>2, <4>5 DEF View
      <4>7. starts[c] \in Nat /\ starts[c] >= 1
        BY <1>0, <4>6 DEF Shape
      <4>8. News(c)' = {} => real[c] = After(m.status)
        BY <3>1, <3>4, <4>3 DEF Follows, LastTells
      <4>9. CASE UpdatePause(m)
        <5>1. inspects'[c] = 0 /\ pausing'[c] = starts[c]
          BY <1>0, <2>3, <4>6, <4>7, <4>9 DEF UpdatePause
        <5>2. News(c)' = {} => real[c] = "paused"
          BY <4>8, <4>9 DEF After, UpdatePause
        <5> QED
          BY <2>1, <4>6, <5>1, <5>2 DEF View
      <4>10. CASE UpdateUnpause(m)
        <5>1. inspects'[c] = starts[c] /\ pausing'[c] = 0
          BY <1>0, <2>3, <4>6, <4>7, <4>10 DEF UpdateUnpause
        <5>2. News(c)' = {} => real[c] = "running"
          BY <4>8, <4>10 DEF After, UpdateUnpause
        <5> QED
          BY <2>1, <4>6, <5>1, <5>2 DEF View
      <4> QED
        BY <3>8, <4>9, <4>10
    <3> QED
      BY <1>6, <3>6, <3>7, <3>8 DEF Update
  <2> QED
    BY <2>2, <2>3
<1>7. ~Boot
  BY DEF Boot
<1> QED
  BY <1>1, <1>2, <1>3, <1>4, <1>5, <1>6, <1>7, Kinds

-----------------------------------------------------------------------------
(* The theorems *)

(* The invariant holds.                                                    *)
THEOREM Invariant == Spec => []IInv
<1>1. ASSUME Init PROVE IInv
  <2>1. UnderWay = {} /\ stream \in Seq(Event) /\ msgChannel \in Seq(Event) /\ Len(msgChannel) = 0
    BY <1>1, EmptyLemma DEF Init, UnderWay
  <2>2. None \in [Container -> 0..MaxEvents] /\ Nothing \in [Container -> SUBSET (1..MaxEvents)]
    BY DockerAssumption DEF None, Nothing
  <2>3. TypeOK
    BY <1>1, <2>1, <2>2, DockerAssumption DEF Init, TypeOK
  <2>4. Ordered
    BY <1>1, <2>1, EmptyLemma DEF Init, Ordered, UnderWay, Nothing
  <2>5. Shape
    BY <1>1, <2>1, DockerAssumption DEF Init, Shape
  <2>6. ASSUME NEW c \in Container PROVE Follows(c) /\ Pass(c) /\ View(c)
    BY <1>1, <2>1
       DEF Init, Follows, LastTells, EndThenStart, EndStays, StartStays, News, Pass, View
  <2> QED
    BY <2>3, <2>4, <2>5, <2>6 DEF IInv
<1>2. ASSUME IInv, [Next]_vars PROVE IInv'
  <2>1. TypeOK /\ Ordered /\ Shape /\ \A c \in Container : Follows(c) /\ Pass(c) /\ View(c)
    BY <1>2 DEF IInv
  <2>2. TypeOK' /\ Ordered' /\ Shape'
    BY <1>2, <2>1, StepType, StepOrdered, StepShape
  <2>3. ASSUME NEW c \in Container PROVE Follows(c)' /\ Pass(c)' /\ View(c)'
    BY <1>2, <2>1, <2>2, StepFollows, StepPass, StepView
  <2> QED
    BY <2>2, <2>3 DEF IInv
<1> QED
  BY <1>1, <1>2, PTL DEF Spec

(* The types of the state, in every behaviour.                             *)
THEOREM TypeCorrect == Spec => []TypeOK
<1>1. IInv => TypeOK
  BY DEF IInv
<1> QED
  BY <1>1, Invariant, PTL

(* What is reported of a container agrees with the daemon once nothing of  *)
(* it is under way, unless something of it was lost.                       *)
THEOREM ReportsTheTruth == Spec => []Agrees
<1>1. ASSUME IInv PROVE Agrees
  <2> SUFFICES ASSUME NEW c \in Container, Quiet(c), lost[c] = {}
               PROVE  IF real[c] = "running" THEN inspects[c] = starts[c]
                                             ELSE method = "events" => inspects[c] = 0
    BY DEF Agrees
  <2>1. /\ real[c] \in {"stopped", "running", "paused"} /\ method \in {"polling", "events"}
        /\ Shape /\ Pass(c) /\ View(c)
    BY <1>1, DockerAssumption DEF IInv, TypeOK
  <2>2. CASE method = "polling"
    <3>1. op = "idle" /\ todo = {}
      BY <2>1, <2>2 DEF Quiet, Shape
    <3> QED
      BY <2>2, <3>1, <2>1 DEF Pass
  <2>3. CASE method = "events"
    <3>1. rcv = "loop" /\ op = "done"
      BY <2>1, <2>3 DEF Quiet, Shape
    <3>2. News(c) = {}
      BY <2>3 DEF Quiet, News, UnderWay
    <3> QED
      BY <2>1, <2>3, <3>1, <3>2 DEF View
  <2> QED
    BY <2>1, <2>2, <2>3
<1> QED
  BY <1>1, Invariant, PTL
=============================================================================
