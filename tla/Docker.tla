------------------------------- MODULE Docker -------------------------------
(***************************************************************************)
(* The docker operator (pkg/docker_operator): what the collector knows of  *)
(* the running containers.  Both of its methods list them first; then one  *)
(* polls the list, the other follows the daemon's events through a channel *)
(* that drops what it cannot hold and a cache that is applied at a tick.   *)
(* The input plugins read the map while it is written.                     *)
(***************************************************************************)
EXTENDS Integers, Sequences, FiniteSets, Functions

CONSTANTS
  Container,
  Method,           \* of "polling" and "events"
  Attempts,         \* lists tried by create
  Capacity,         \* of msgChannel
  MaxEvents,        \* bound on what happens to the containers
  MaxFailures,      \* bound on calls of the daemon that fail while the process is up
  MaxEnds           \* bound on deaths and stops of the process

ASSUME DockerAssumption ==
  /\ IsFiniteSet(Container)
  /\ Method \subseteq {"polling", "events"}
  /\ Attempts \in Nat \ {0} /\ Capacity \in Nat \ {0}
  /\ MaxEvents \in Nat \ {0} /\ MaxFailures \in Nat /\ MaxEnds \in Nat

VARIABLES
  real,        \* what the daemon knows: the containers' states
  starts,      \* how often each was started: the version of what an inspect returns
  clock,       \* the time of the daemon's last event
  failures, ends,
  method,
  proc,        \* "up", how far a stop has come, or "down" after a death
  op,          \* where create and poll are
  attempts, todo,
  inspects,    \* the version known of each container, 0 for none
  pausing,
  rcv, disp,   \* where receiveEvents and eventsDispatcher are
  stream,      \* the daemon's events on their way
  msgChannel, cache,
  reader,      \* is a plugin inside json.Marshal?
  lost         \* history: the times of events of a container it will never hear of, since the
               \* last news that could set it right

daemonVars == <<real, starts, clock>>
boundVars  == <<failures, ends>>
listVars   == <<op, attempts, todo>>
mapVars    == <<inspects, pausing>>
goVars     == <<rcv, disp>>
eventVars  == <<stream, msgChannel, cache>>
vars == <<daemonVars, boundVars, method, proc, listVars, mapVars, goVars, eventVars, reader, lost>>

Tracked == {"die", "stop", "pause", "unpause", "start"}
Event == [id : Container, status : Tracked \cup {"other"}, time : 1..MaxEvents]
None == [c \in Container |-> 0]
Nothing == [c \in Container |-> {}]

TypeOK ==
  /\ real \in [Container -> {"stopped", "running", "paused"}]
  /\ starts \in [Container -> 0..MaxEvents] /\ clock \in 1..MaxEvents
  /\ failures \in 0..MaxFailures /\ ends \in 0..MaxEnds
  /\ method \in Method
  /\ proc \in {"up", "cancelled", "closed", "ended", "down"}
  /\ op \in {"create", "first", "idle", "poll", "done"}
  /\ attempts \in 0..Attempts /\ todo \subseteq Container
  /\ inspects \in [Container -> 0..MaxEvents] /\ pausing \in [Container -> 0..MaxEvents]
  /\ rcv \in {"off", "start", "loop", "done"} /\ disp \in {"off", "loop", "update", "done"}
  /\ stream \in Seq(Event)
  /\ msgChannel \in Seq(Event) /\ Len(msgChannel) <= Capacity
  /\ cache \subseteq Event
  /\ reader \in {"idle", "marshal"}
  /\ lost \in [Container -> SUBSET (1..MaxEvents)]

Init ==
  /\ real \in [Container -> {"stopped", "running", "paused"}]
  /\ starts = [c \in Container |-> IF real[c] = "stopped" THEN 0 ELSE 1]
  /\ clock = 1 /\ failures = 0 /\ ends = 0
  /\ method \in Method /\ proc = "up"
  /\ op = "create" /\ attempts = 0 /\ todo = {}
  /\ inspects = None /\ pausing = None
  /\ rcv = "off" /\ disp = "off" /\ stream = <<>> /\ msgChannel = <<>> /\ cache = {}
  /\ reader = "idle" /\ lost = Nothing

Running   == proc \notin {"ended", "down"}
Cancelled == proc \in {"cancelled", "closed"}

\* Mutant: the daemon is called with a context that a stop does not cancel.
CallFailsAlone == Running /\ failures < MaxFailures /\ failures' = failures + 1

\* A call of the daemon fails by itself, and always once its context has been cancelled.
CallFails ==
  /\ Running
  /\ IF Cancelled THEN UNCHANGED failures
     ELSE failures < MaxFailures /\ failures' = failures + 1

CallSucceeds == Running /\ ~Cancelled /\ UNCHANGED failures

-----------------------------------------------------------------------------
(* The daemon.  Nobody hears of an event before Events has been called.    *)

Times(c, events) == {e.time : e \in {x \in events : x.id = c /\ x.status \in Tracked}}

Lose(events) == lost' = [c \in Container |-> lost[c] \cup Times(c, events)]

\* What becomes of c, and the event that says so.
Happens(c, state, status) ==
  LET event == [id |-> c, status |-> status, time |-> clock + 1]
  IN /\ clock < MaxEvents /\ clock' = clock + 1
     /\ real' = [real EXCEPT ![c] = state]
     /\ starts' = [starts EXCEPT ![c] = IF status = "start" THEN @ + 1 ELSE @]
     /\ IF rcv = "loop"
        THEN stream' = Append(stream, event) /\ UNCHANGED lost
        ELSE Lose({event}) /\ UNCHANGED stream
     /\ UNCHANGED <<boundVars, method, proc, listVars, mapVars, goVars, msgChannel, cache, reader>>

Start(c)   == real[c] = "stopped" /\ Happens(c, "running", "start")
Pause(c)   == real[c] = "running" /\ Happens(c, "paused", "pause")
Unpause(c) == real[c] = "paused" /\ Happens(c, "running", "unpause")
Exit(c)    == real[c] # "stopped" /\ Happens(c, "stopped", "die")

\* After the end of one that was told to stop.
Stopped(c) == real[c] = "stopped" /\ Happens(c, "stopped", "stop")

\* An event of another kind: the commands of a health check make many.
Other(c)   == real[c] = "running" /\ Happens(c, "running", "other")

-----------------------------------------------------------------------------
(* create and poll: allContainersInfo holds the lock from the list to the  *)
(* end of the pass.  create runs the operator even if no list succeeded.   *)

Locked == op \in {"first", "poll"}

\* Mutant: a container that is known is not looked at again.
ListedNew == {c \in Container : real[c] = "running" /\ inspects[c] = 0}

Listed == {c \in Container : real[c] = "running"}

RunOperator ==
  IF method = "polling"
  THEN op' = "idle" /\ UNCHANGED goVars
  ELSE op' = "done" /\ rcv' = "start" /\ disp' = "loop"

List ==
  /\ op \in {"create", "idle"} /\ CallSucceeds
  /\ op' = IF op = "create" THEN "first" ELSE "poll"
  /\ todo' = Listed
  /\ lost' = [c \in Container |-> IF real[c] = "paused" THEN {clock} ELSE {}]
  /\ UNCHANGED <<daemonVars, ends, method, proc, attempts, mapVars, goVars, eventVars, reader>>

ListFail ==
  /\ op \in {"create", "idle"} /\ CallFails
  /\ attempts' = IF op = "create" THEN attempts + 1 ELSE attempts
  /\ IF op = "idle" \/ attempts' < Attempts THEN UNCHANGED <<op, goVars, lost>>
     ELSE RunOperator /\ lost' = [c \in Container |-> {clock}]
  /\ UNCHANGED <<daemonVars, ends, method, proc, todo, mapVars, eventVars, reader>>

Inspect(c) ==
  /\ Locked /\ CallSucceeds
  /\ todo' = todo \ {c}
  /\ inspects' = [inspects EXCEPT ![c] = starts[c]]
  /\ UNCHANGED <<daemonVars, ends, method, proc, op, attempts, pausing, goVars, eventVars, reader,
                 lost>>

InspectFail(c) ==
  /\ Locked /\ CallFails
  /\ todo' = todo \ {c}
  /\ lost' = [lost EXCEPT ![c] = @ \cup {clock}]
  /\ UNCHANGED <<daemonVars, ends, method, proc, op, attempts, mapVars, goVars, eventVars, reader>>

PassEnd ==
  /\ Locked /\ Running /\ todo = {} /\ RunOperator
  /\ UNCHANGED <<daemonVars, boundVars, method, proc, attempts, todo, mapVars, eventVars, reader,
                 lost>>

PollQuit ==
  /\ op = "idle" /\ Cancelled /\ op' = "done"
  /\ UNCHANGED <<daemonVars, boundVars, method, proc, attempts, todo, mapVars, goVars, eventVars,
                 reader, lost>>

-----------------------------------------------------------------------------
(* receiveEvents *)

Subscribe ==
  /\ rcv = "start" /\ Running /\ rcv' = "loop"
  /\ UNCHANGED <<daemonVars, boundVars, method, proc, listVars, mapVars, disp, eventVars, reader,
                 lost>>

Receiving == rcv = "loop" /\ Running /\ stream # <<>>

\* Mutant: the channel is taken to have room.
RoomAlways == TRUE

Room == Len(msgChannel) < Capacity

\* A full channel drops the event.
Receive ==
  /\ Receiving /\ proc # "closed"
  /\ stream' = Tail(stream)
  /\ IF Room THEN msgChannel' = Append(msgChannel, Head(stream)) /\ UNCHANGED lost
             ELSE Lose({Head(stream)}) /\ UNCHANGED msgChannel
  /\ UNCHANGED <<daemonVars, boundVars, method, proc, listVars, mapVars, goVars, cache, reader>>

\* The stream ends with an error and then with nil: nobody subscribes again.
StreamEnd ==
  /\ rcv = "loop" /\ CallFails
  /\ rcv' = "done" /\ stream' = <<>> /\ Lose(Range(stream))
  /\ UNCHANGED <<daemonVars, ends, method, proc, listVars, mapVars, disp, msgChannel, cache,
                 reader>>

-----------------------------------------------------------------------------
(* eventsDispatcher: an event at a time, or at a tick the whole cache, the *)
(* containers in any order.                                                *)

Filter ==
  /\ disp = "loop" /\ Running /\ msgChannel # <<>>
  /\ msgChannel' = Tail(msgChannel)
  /\ cache' = IF Head(msgChannel).status \in Tracked THEN cache \cup {Head(msgChannel)} ELSE cache
  /\ UNCHANGED <<daemonVars, boundVars, method, proc, listVars, mapVars, goVars, stream, reader,
                 lost>>

\* Mutant: the first event of the period counts.
Earliest == {m \in cache : \A e \in cache : e.id = m.id => m.time <= e.time}

Latest == {m \in cache : \A e \in cache : e.id = m.id => e.time <= m.time}

\* A start that the update passes over is lost.
Overtaken(m) == {e \in cache : e.id = m.id /\ e.status = "start" /\ e # m}

Apply(m) ==
  /\ disp \in {"loop", "update"} /\ Running
  /\ cache' = {e \in cache : e.id # m.id}
  /\ disp' = IF cache' = {} THEN "loop" ELSE "update"
  /\ UNCHANGED <<daemonVars, ends, method, proc, listVars, rcv, stream, msgChannel, reader>>

SetRight(m) == lost' = [lost EXCEPT ![m.id] = {t \in @ : t > m.time}]

UpdateDie(m) ==
  /\ m.status \in {"die", "stop"} /\ Apply(m)
  /\ inspects' = [inspects EXCEPT ![m.id] = 0] /\ pausing' = [pausing EXCEPT ![m.id] = 0]
  /\ SetRight(m)
  /\ UNCHANGED failures

UpdatePause(m) ==
  /\ m.status = "pause" /\ Apply(m)
  /\ pausing' = [pausing EXCEPT ![m.id] = IF @ = 0 THEN inspects[m.id] ELSE @]
  /\ inspects' = [inspects EXCEPT ![m.id] = 0]
  /\ Lose(Overtaken(m))
  /\ UNCHANGED failures

\* What is not in pausing is not inspected either.
UpdateUnpause(m) ==
  /\ m.status = "unpause" /\ Apply(m)
  /\ pausing' = [pausing EXCEPT ![m.id] = 0]
  /\ \/ pausing[m.id] = 0 /\ UNCHANGED <<inspects, failures>>
     \/ pausing[m.id] # 0 /\ CallSucceeds /\ inspects' = [inspects EXCEPT ![m.id] = starts[m.id]]
     \/ pausing[m.id] # 0 /\ CallFails
        /\ inspects' = [inspects EXCEPT ![m.id] = IF @ = 0 THEN pausing[m.id] ELSE @]
  /\ Lose(Overtaken(m))

UpdateStart(m) ==
  /\ m.status = "start" /\ Apply(m)
  /\ pausing' = [pausing EXCEPT ![m.id] = 0]
  /\ \/ CallSucceeds /\ inspects' = [inspects EXCEPT ![m.id] = starts[m.id]] /\ SetRight(m)
     \/ CallFails /\ Lose({m}) /\ UNCHANGED inspects

DispatchQuit ==
  /\ disp = "loop" /\ Cancelled /\ disp' = "done"
  /\ UNCHANGED <<daemonVars, boundVars, method, proc, listVars, mapVars, rcv, eventVars, reader,
                 lost>>

-----------------------------------------------------------------------------
(* The plugins: acquireInspect hands out the map, and json.Marshal walks   *)
(* through it without the lock.                                            *)

Read(from, to) ==
  /\ Running /\ reader = from /\ reader' = to
  /\ UNCHANGED <<daemonVars, boundVars, method, proc, listVars, mapVars, goVars, eventVars, lost>>

Acquire    == ~Locked /\ Read("idle", "marshal")
Marshalled == Read("marshal", "idle")

-----------------------------------------------------------------------------
(* The process *)

Becomes(state) ==
  /\ proc' = state
  /\ UNCHANGED <<daemonVars, failures, method, listVars, mapVars, goVars, eventVars, reader, lost>>

Die ==
  /\ ends < MaxEnds /\ ends' = ends + 1
  /\ Becomes(IF Cancelled THEN "ended" ELSE "down")

\* "concurrent map iteration and map write" is fatal.
MapRace ==
  /\ Running /\ reader = "marshal"
  /\ (Locked /\ todo # {}) \/ (disp \in {"loop", "update"} /\ cache # {})
  /\ Die

\* An event for the closed channel: the send panics.
ReceiveClosed == Receiving /\ proc = "closed" /\ Die

\* systemd starts a process again that nobody has stopped.
Boot ==
  /\ proc = "down" /\ proc' = "up"
  /\ op' = "create" /\ attempts' = 0 /\ todo' = {}
  /\ inspects' = None /\ pausing' = None
  /\ rcv' = "off" /\ disp' = "off" /\ stream' = <<>> /\ msgChannel' = <<>> /\ cache' = {}
  /\ reader' = "idle" /\ lost' = Nothing
  /\ UNCHANGED <<daemonVars, boundVars, method>>

Stop == proc = "up" /\ ends < MaxEnds /\ Becomes("cancelled") /\ UNCHANGED ends

\* instance.close closes msgChannel too.
Close == proc = "cancelled" /\ Becomes("closed") /\ UNCHANGED ends

\* wg.Wait returns.
Finish ==
  /\ proc = "closed"
  /\ op = "done" /\ rcv \in {"off", "done"} /\ disp \in {"off", "done"}
  /\ Becomes("ended") /\ UNCHANGED ends

-----------------------------------------------------------------------------
Operator ==
  \/ List \/ ListFail \/ PassEnd \/ PollQuit
  \/ \E c \in todo : Inspect(c) \/ InspectFail(c)

Receiver == Subscribe \/ Receive \/ StreamEnd \/ ReceiveClosed

Dispatcher ==
  \/ Filter \/ DispatchQuit
  \/ \E m \in Latest : UpdateDie(m) \/ UpdatePause(m) \/ UpdateUnpause(m) \/ UpdateStart(m)

Next ==
  \/ \E c \in Container : Start(c) \/ Pause(c) \/ Unpause(c) \/ Exit(c) \/ Stopped(c) \/ Other(c)
  \/ Operator \/ Receiver \/ Dispatcher
  \/ Acquire \/ Marshalled \/ MapRace
  \/ Boot \/ Stop \/ Close \/ Finish

Spec == Init /\ [][Next]_vars

(* The goroutines run, the daemon answers in the end, a stop goes on, and  *)
(* systemd starts the process again.                                       *)
Fairness ==
  /\ WF_vars(Operator) /\ WF_vars(Receiver) /\ WF_vars(Dispatcher)
  /\ WF_vars(Boot) /\ WF_vars(Close) /\ WF_vars(Finish)

FairSpec == Spec /\ Fairness

-----------------------------------------------------------------------------
(* Properties *)

\* No pass and no event of c is under way.
Quiet(c) ==
  IF method = "polling" THEN op = "idle"
  ELSE /\ rcv = "loop"
       /\ \A e \in Range(stream) \cup Range(msgChannel) \cup cache :
            e.id # c \/ e.status \notin Tracked

(* Once nothing of a container is under way, the plugins are told of a     *)
(* running one, as of its last start, and the events method of no other.   *)
(* It may fail only for a container of which something was lost after the  *)
(* last news that could set it right: between two polls, before Events was *)
(* called, in a full channel, by a failed call, or a start passed over by  *)
(* an update.                                                              *)
Agrees ==
  \A c \in Container :
    (Quiet(c) /\ lost[c] = {})
      => IF real[c] = "running" THEN inspects[c] = starts[c]
                                ELSE method = "events" => inspects[c] = 0

(* In both methods, and through deaths of the process: a container that    *)
(* goes on running is reported, as of its last start, except by the events *)
(* method when it has lost an event of it.                                 *)
Appears ==
  \A c \in Container :
    <>[](proc = "up" /\ real[c] = "running")
      => <>[](inspects[c] = starts[c] \/ (method = "events" /\ lost[c] # {}))

(* A stop ends all three goroutines, wherever they are, or the process.    *)
StopEnds == proc = "cancelled" ~> proc = "ended"
=============================================================================
