------------------------------ MODULE Executor ------------------------------
(***************************************************************************)
(* The executor (executor/executor.go, executor/tick.go) with the plugins  *)
(* it runs (models/luaplugin): the wait for the first whole interval, the  *)
(* ticker, the time range of a round, the triggers of the plugins, the hot *)
(* replacement as far as it disturbs these, and the stop of the process    *)
(* beside the goroutines that are still at work.  HotPlug models what a    *)
(* batch does to the plugins; here a batch replaces plugins and keeps      *)
(* their number, their order and their own intervals.                      *)
(*                                                                         *)
(* Time is counted in seconds, as in the code.  No step of a goroutine is  *)
(* ever on time.  After the stop signal the clock is not followed any      *)
(* more, a tick may come whenever it likes.                                *)
(***************************************************************************)
EXTENDS Integers, Sequences, FiniteSets

CONSTANTS
  Plugin,
  Order,          \* the running plugins: inputs, processors, aggregators, outputs
  Cat,            \* the category of a plugin
  PluginInterval, \* PluginConfig.PluginInterval, in seconds
  Feeds,          \* the plugins that read what a plugin stores
  Interval,       \* Global.Interval at the start, and Ticker.interval
  NewIntervals,   \* intervals a new configuration may bring
  NewPlugins,     \* sets of plugins a new configuration may bring
  Categories,     \* len(Global.PluginCategory)
  MaxStart,       \* bound on the second at which the ticker is started
  MaxNow,         \* bound on the clock
  MaxBatches,     \* bound on the hot replacements
  BatchTimes,     \* the seconds at which a batch may be taken up
  StopTimes       \* the seconds at which a stop signal may come

Consumer == {p \in Plugin : Cat[p] # "input"}
Inputs   == Cardinality({i \in DOMAIN Order : Cat[Order[i]] = "input"})

ASSUME ExecutorAssumption ==
  /\ Order \in Seq(Plugin) /\ \A p \in Plugin : \E i \in DOMAIN Order : Order[i] = p
  /\ \A i, j \in DOMAIN Order : Order[i] = Order[j] => i = j
  /\ Cat \in [Plugin -> {"input", "processor", "aggregator", "output"}]
  /\ \A i \in DOMAIN Order : Cat[Order[i]] = "input" <=> i <= Inputs
  /\ PluginInterval \in [Plugin -> Nat]
  /\ Feeds \in [Plugin -> SUBSET Consumer]
  /\ \A i, j \in DOMAIN Order :
       Cat[Order[i]] = "processor" /\ Cat[Order[j]] \in {"aggregator", "output"} => i < j
  /\ \A p \in Plugin : Cat[p] = "processor" =>
       \A q \in Feeds[p] : Cat[q] # "processor"
  /\ Categories \in Nat \ {0} /\ Interval \in Nat /\ Interval >= Categories
  /\ NewIntervals \subseteq Nat /\ NewPlugins \subseteq SUBSET Plugin
  /\ MaxStart \in Nat /\ MaxNow \in Nat /\ MaxBatches \in Nat
  /\ BatchTimes \subseteq Nat /\ StopTimes \subseteq Nat

VARIABLES
  now,       \* the clock
  next,      \* the second at which the ticker fires next; 0: not started
  pend,      \* a tick waits in ticker.C, capacity 1
  mark,      \* adjustmentTime: the second read; then the second to wait for
  pc,        \* where Execute and firstCollect are
  pos,       \* position in Order of the plugin each runs
  lock,      \* LuaPluginManager.Lock
  called,    \* the second at which the plugin that runs was called
  low,       \* lower limit of the time range of the round
  interval,  \* pluginConfig.Global.Interval
  trigger,   \* triggerInterval of the running instance of a plugin
  count,     \* executeCount of the running instance
  closed,    \* plugins whose running instance's Lua state is closed
  recv,      \* where the receiver goroutine is
  batch,     \* plugins of the batch it works on
  fresh,     \* the Update* instances: "none", "open" or "closed"
  batches,   \* number of batches so far
  ready,     \* PluginReady: "empty", "full", "closed", or "left": closed with
             \* a signal in it
  finish,    \* PluginUpdateFinish: "empty", "full" or "closed"
  stop,      \* how far main has got with the stop
  proc,      \* "up", "dead" (a goroutine has panicked) or "exited"
  begun,     \* history: the start of the first tick's interval
  book,      \* history: what each consumer still has to read
  calm       \* history: at the stop signal nothing was under way, and
             \* nothing was taken up after it

clockVars  == <<now, next, pend, mark>>
runVars    == <<pc, pos, lock, called>>
planVars   == <<low, interval, trigger, count>>
dataVars   == <<planVars, begun, book>>
recvVars   == <<recv, batch, batches>>
chanVars   == <<ready, finish>>
stopVars   == <<stop, calm>>
vars == <<clockVars, runVars, dataVars, closed, recvVars, fresh, chanVars,
          stopVars, proc>>

Caller == {"exec", "first"}
Executing  == {"adjust", "adjust2", "wait", "start", "select", "lock", "round",
               "call", "stored", "swap", "swapConf", "reply", "done"}
Collecting == {"idle", "spawned", "lock", "round", "call", "stored", "done"}
Stopping   == {"no", "cancelled", "update", "ready", "finish", "ticker", "waiting"}

(* unread: the seconds of the stored values a consumer has not read yet;   *)
(* from: the lower limit of the last range it was given; firm: it can      *)
(* afford one slip; lost: something has happened that loses it values.     *)
Book == [unread : SUBSET Nat, from : Int, firm : BOOLEAN, lost : BOOLEAN]
Lost == [unread |-> {}, from |-> 0, firm |-> FALSE, lost |-> TRUE]

ClockTypeOK ==
  now \in Nat /\ next \in Nat /\ pend \in BOOLEAN /\ mark \in Int

RunTypeOK ==
  /\ pc \in [Caller -> Executing \cup Collecting]
  /\ pc["exec"] \in Executing /\ pc["first"] \in Collecting
  /\ pos \in [Caller -> Nat \ {0}] /\ lock \in {"free"} \cup Caller
  /\ called \in Nat

DataTypeOK ==
  /\ low \in Int /\ interval \in Nat
  /\ trigger \in [Plugin -> Nat \ {0}] /\ count \in [Plugin -> Nat]
  /\ begun \in Nat /\ book \in [Consumer -> Book]

HandTypeOK ==
  /\ recv \in {"select", "load", "send", "wait", "done"}
  /\ batch \subseteq Plugin /\ batches \in 0..MaxBatches
  /\ closed \subseteq Plugin /\ fresh \in {"none", "open", "closed"}
  /\ ready \in {"empty", "full", "closed", "left"}
  /\ finish \in {"empty", "full", "closed"}

ProcTypeOK ==
  stop \in Stopping /\ calm \in BOOLEAN /\ proc \in {"up", "dead", "exited"}

TypeOK ==
  ClockTypeOK /\ RunTypeOK /\ DataTypeOK /\ HandTypeOK /\ ProcTypeOK

(* parseConfig, the same in the four categories. *)
TriggerUnguarded(p, global) == PluginInterval[p] \div global

TriggerInterval(p, global) ==
  IF PluginInterval[p] > global /\ global > 0
    THEN PluginInterval[p] \div global ELSE 1

(* time.Truncate, of seconds. *)
Truncate(t, i) == IF i = 0 THEN t ELSE t - (t % i)

Timeout == interval \div Categories

-----------------------------------------------------------------------------
Init ==
  /\ now \in Interval .. 2 * Interval - 1
  /\ next = 0 /\ pend = FALSE /\ mark = 0
  /\ pc = [c \in Caller |-> IF c = "exec" THEN "adjust" ELSE "idle"]
  /\ pos = [c \in Caller |-> 1] /\ lock = "free" /\ called = 0
  /\ low = 0 /\ interval = Interval
  /\ trigger = [p \in Plugin |-> TriggerInterval(p, Interval)]
  /\ count = [p \in Plugin |-> 0] /\ closed = {}
  /\ recv = "select" /\ batch = {} /\ fresh = "none" /\ batches = 0
  /\ ready = "empty" /\ finish = "empty"
  /\ stop = "no" /\ proc = "up"
  /\ begun = 0 /\ calm = FALSE
  /\ book = [p \in Consumer |->
       IF trigger[p] > 2 THEN Lost ELSE [Lost EXCEPT !.lost = FALSE]]

(* A goroutine panics. *)
Panic ==
  /\ proc' = "dead"
  /\ UNCHANGED <<clockVars, runVars, dataVars, closed, recvVars, fresh, chanVars,
                 stopVars>>

Go(c, p) == pc' = [pc EXCEPT ![c] = p]

(* Nothing is promised to the consumers of S any more. *)
Lose(S) == book' = [q \in Consumer |-> IF q \in S THEN Lost ELSE book[q]]

-----------------------------------------------------------------------------
(* The clock and the ticker *)

(* Time passes where a goroutine waits, looks at the clock or is in a      *)
(* plugin that has not stored yet; any other delay is counted there.       *)
Slow == {"adjust", "adjust2", "wait", "select", "lock", "call", "swap",
         "idle", "spawned", "done"}
Pass ==
  /\ proc = "up" /\ stop = "no" /\ now # next
  /\ now < IF next = 0 THEN MaxStart ELSE MaxNow
  /\ \A c \in Caller : pc[c] \in Slow
  /\ recv \in {"select", "wait"}
  /\ now' = now + 1
  /\ UNCHANGED <<next, pend, mark, runVars, dataVars, closed, recvVars, fresh,
                 chanVars, stopVars, proc>>

(* The ticker fires every Ticker.interval seconds, whatever Global.Interval *)
(* is by then; a tick that finds the channel full is dropped.              *)
Fire ==
  /\ proc = "up" /\ next # 0 /\ stop # "waiting"
  /\ IF stop = "no"
       THEN /\ now = next /\ next' = next + Interval
            /\ Lose(IF pend THEN Consumer ELSE {})
       ELSE ~pend /\ UNCHANGED <<next, book>>
  /\ pend' = TRUE
  /\ UNCHANGED <<now, mark, runVars, planVars, begun, closed, recvVars, fresh, chanVars, stopVars, proc>>

-----------------------------------------------------------------------------
(* Execute: adjustmentTime, firstCollect, the ticker *)

(* adjustmentTime reads the clock a first time, *)
ReadNow ==
  /\ proc = "up" /\ pc["exec"] = "adjust"
  /\ mark' = now /\ Go("exec", "adjust2")
  /\ UNCHANGED <<now, next, pend, pos, lock, called, dataVars, closed, recvVars, fresh,
                 chanVars, stopVars, proc>>

(* and a second time for the start of the interval.                        *)
Adjust ==
  /\ proc = "up" /\ pc["exec"] = "adjust2"
  /\ LET integralNow == Truncate(now, interval)
     IN IF mark - integralNow >= interval \/ mark = integralNow
          THEN Go("exec", "start") /\ UNCHANGED mark
          ELSE /\ Go("exec", "wait")
               /\ mark' = now + (integralNow + interval - mark)
  /\ UNCHANGED <<now, next, pend, pos, lock, called, dataVars, closed, recvVars, fresh,
                 chanVars, stopVars, proc>>

WaitGapTicker ==
  /\ proc = "up" /\ pc["exec"] = "wait" /\ (now >= mark \/ stop # "no")
  /\ Go("exec", "start")
  /\ UNCHANGED <<clockVars, pos, lock, called, dataVars, closed, recvVars, fresh,
                 chanVars, stopVars, proc>>

(* The clock is set back by whole intervals: only the place of the start   *)
(* in its interval matters from here on, nothing refers to an earlier time. *)
Start ==
  /\ proc = "up" /\ pc["exec"] = "start"
  /\ pc' = [c \in Caller |-> IF c = "exec" THEN "select" ELSE "spawned"]
  /\ now' = Interval + (now % Interval) /\ next' = now' + Interval /\ mark' = 0
  /\ UNCHANGED <<pend, pos, lock, called, dataVars, closed, recvVars, fresh,
                 chanVars, stopVars, proc>>

(* firstCollect looks at the context once, before the lock. *)
FirstCheckNot ==
  /\ proc = "up" /\ pc["first"] = "spawned" /\ Go("first", "lock")
  /\ UNCHANGED <<clockVars, pos, lock, called, dataVars, closed, recvVars, fresh, chanVars,
                 stopVars, proc>>

FirstCheck ==
  /\ proc = "up" /\ pc["first"] = "spawned"
  /\ Go("first", IF stop = "no" THEN "lock" ELSE "done")
  /\ UNCHANGED <<clockVars, pos, lock, called, dataVars, closed, recvVars, fresh,
                 chanVars, stopVars, proc>>

(* generateTimeRange *)
LowerLimitNow(t) == Truncate(t, interval)
LowerLimit(t)    == Truncate(t, interval) - interval

(* A tick: the range is computed before the lock is taken.  A tick is late *)
(* when the next interval has begun since it fired; then a consumer that   *)
(* is not firm may have missed one.  firstCollect is started an interval   *)
(* before the first tick; if it has not collected by then, no promise is   *)
(* left.                                                                   *)
Late == Truncate(now, interval) # Truncate(next - Interval, interval)

Tick ==
  /\ proc = "up" /\ pc["exec"] = "select" /\ pend
  /\ pend' = FALSE
  /\ low' = LowerLimit(now)
  /\ Lose(IF pc["first"] \in {"spawned", "lock"} THEN Consumer
          ELSE IF Late THEN {p \in Consumer : ~book[p].firm} ELSE {})
  /\ begun' = IF begun = 0 THEN Truncate(now, interval) ELSE begun
  /\ calm' = (calm /\ stop = "no")
  /\ Go("exec", "lock")
  /\ UNCHANGED <<now, next, mark, pos, lock, called, interval, trigger, count, closed,
                 recvVars, fresh, chanVars, stop, proc>>

Done ==
  /\ proc = "up" /\ pc["exec"] = "select" /\ stop # "no"
  /\ Go("exec", "done")
  /\ UNCHANGED <<clockVars, pos, lock, called, dataVars, closed, recvVars, fresh,
                 chanVars, stopVars, proc>>

-----------------------------------------------------------------------------
(* A round: onceExecute over all plugins, firstCollect over the inputs,    *)
(* under LuaPluginManager.Lock from the first plugin to the last.          *)

Length(c) == IF c = "exec" THEN Len(Order) ELSE Inputs
At(c)     == Order[pos[c]]
Due(p)    == count[p] + 1 >= trigger[p]

Lock(c) ==
  /\ proc = "up" /\ pc[c] = "lock" /\ lock = "free"
  /\ lock' = c /\ pos' = [pos EXCEPT ![c] = 1] /\ Go(c, "round")
  /\ UNCHANGED <<clockVars, called, dataVars, closed, recvVars, fresh, chanVars, stopVars,
                 proc>>

Unlock(c) ==
  /\ proc = "up" /\ pc[c] = "round" /\ pos[c] > Length(c)
  /\ lock' = "free" /\ Go(c, IF c = "exec" THEN "select" ELSE "done")
  /\ UNCHANGED <<clockVars, pos, called, dataVars, closed, recvVars, fresh, chanVars,
                 stopVars, proc>>

(* The plugin's turn has not come. *)
Skip(c) ==
  /\ proc = "up" /\ pc[c] = "round" /\ pos[c] <= Length(c) /\ ~Due(At(c))
  /\ count' = [count EXCEPT ![At(c)] = @ + 1]
  /\ pos' = [pos EXCEPT ![c] = @ + 1]
  /\ UNCHANGED <<clockVars, pc, lock, called, low, interval, trigger, begun, book, closed,
                 recvVars, fresh, chanVars, stopVars, proc>>

(* The call of a closed Lua state panics, and so does time.NewTicker(0),   *)
(* which Collect runs when the interval is shorter than there are          *)
(* categories.                                                             *)
Fatal(p) == p \in closed \/ (Cat[p] = "input" /\ Timeout = 0)

Call(c) ==
  /\ proc = "up" /\ pc[c] = "round" /\ pos[c] <= Length(c) /\ Due(At(c))
  /\ ~Fatal(At(c))
  /\ count' = [count EXCEPT ![At(c)] = 0] /\ called' = now /\ Go(c, "call")
  /\ UNCHANGED <<clockVars, pos, lock, low, interval, trigger, begun, book, closed,
                 recvVars, fresh, chanVars, stopVars, proc>>

CallPanic(c) ==
  /\ proc = "up" /\ pc[c] = "round" /\ pos[c] <= Length(c) /\ Due(At(c))
  /\ Fatal(At(c)) /\ Panic

(* The consumer has had its turn in the round under way.                   *)
Behind(q) ==
  /\ pc["exec"] \in {"round", "call", "stored"}
  /\ \E i \in 1..(pos["exec"] - 1) : Order[i] = q

(* A consumer finds the values of S; old: they come an interval late.  It   *)
(* can afford no other slip until it has read them.                        *)
Add(q, S, old) ==
  IF book[q].lost THEN Lost
  ELSE [unread |-> book[q].unread \cup S, from |-> book[q].from,
        firm |-> book[q].firm /\ ~(old /\ S # {}), lost |-> FALSE]

(* A value that comes after the consumer's turn waits for the next round.  *)
(* One that runs every second round may miss it, and what a processor makes *)
(* of it comes late for its readers.                                       *)
Store(q, t) ==
  IF Behind(q) /\ (trigger[q] > 1 \/ Cat[q] = "processor") THEN Lost
  ELSE Add(q, {t}, Behind(q))

(* Inputs and aggregators stamp what they store with os.time, most of them  *)
(* as soon as they are called.                                             *)
AddField(c) ==
  /\ proc = "up" /\ pc[c] = "call" /\ Cat[At(c)] \in {"input", "aggregator"}
  /\ Feeds[At(c)] # {}
  /\ \E t \in called .. now :
       book' = [q \in Consumer |->
         IF q \in Feeds[At(c)] THEN Store(q, t) ELSE book[q]]
  /\ Go(c, "stored")
  /\ UNCHANGED <<clockVars, pos, lock, called, planVars, begun, closed, recvVars,
                 fresh, chanVars, stopVars, proc>>

(* The range of the round is [low, low + 2 * interval). *)
InRange(S) == {v \in S : low <= v /\ v < low + 2 * interval}

(* A call comes to its end, unless its state was closed meanwhile. *)
End(c) ==
  /\ proc = "up" /\ pc[c] \in {"call", "stored"} /\ At(c) \notin closed
  /\ pos' = [pos EXCEPT ![c] = @ + 1] /\ called' = 0 /\ Go(c, "round")
  /\ UNCHANGED <<clockVars, lock, low, interval, trigger, count, begun, closed,
                 recvVars, fresh, chanVars, stopVars, proc>>

Collect(c) == End(c) /\ Cat[At(c)] = "input" /\ UNCHANGED book

(* A consumer has read its range; one that reads every range has seen the  *)
(* overlap with the next by now.                                           *)
Read(p) ==
  IF book[p].lost THEN Lost
  ELSE [unread |-> book[p].unread \ InRange(book[p].unread), from |-> low,
        firm |-> book[p].firm \/ trigger[p] = 1, lost |-> FALSE]

(* A processor stores its results under the seconds of its data; those of  *)
(* one that is not firm may be an interval old.                            *)
Dispose(c) ==
  /\ End(c) /\ Cat[At(c)] = "processor"
  /\ book' = [q \in Consumer |->
       IF q = At(c) THEN Read(q)
       ELSE IF q \in Feeds[At(c)]
         THEN Add(q, InRange(book[At(c)].unread), ~book[At(c)].firm)
       ELSE book[q]]

Converge(c) ==
  /\ End(c) /\ Cat[At(c)] = "aggregator"
  /\ book' = [book EXCEPT ![At(c)] = Read(At(c))]

Write(c) ==
  /\ End(c) /\ Cat[At(c)] = "output"
  /\ book' = [book EXCEPT ![At(c)] = Read(At(c))]

(* A call fails, by an error of the script or the time-out of an input,    *)
(* and is logged.  The range is lost to a consumer that is not firm, and   *)
(* the results of a processor come too late for those it feeds.            *)
Fail(c) ==
  /\ End(c)
  /\ book' = [q \in Consumer |->
       IF q = At(c)
         THEN IF book[q].firm THEN [book[q] EXCEPT !.from = low, !.firm = FALSE] ELSE Lost
       ELSE IF Cat[At(c)] = "processor" /\ q \in Feeds[At(c)] THEN Lost ELSE book[q]]

(* The state was closed while the script ran: the end of the call finds no *)
(* stack.                                                                  *)
ReturnPanic(c) ==
  /\ proc = "up" /\ pc[c] \in {"call", "stored"} /\ At(c) \in closed /\ Panic

-----------------------------------------------------------------------------
(* Hot replacement: LuaPluginManager.Receive and Execute, one batch of     *)
(* plugins with or without a configuration.                                *)

RecvBatch(S) ==
  /\ proc = "up" /\ recv = "select" /\ batches < MaxBatches /\ now \in BatchTimes
  /\ recv' = "load" /\ batch' = S /\ batches' = batches + 1
  /\ calm' = (calm /\ stop = "no")
  /\ UNCHANGED <<clockVars, runVars, dataVars, closed, fresh, chanVars, stop, proc>>

(* The states RemovePlugins has closed are in the pool: the next plugin    *)
(* gets one of them, and DoString panics.                                  *)
RecvLoad ==
  /\ proc = "up" /\ recv = "load" /\ closed = {}
  /\ fresh' = "open" /\ recv' = "send"
  /\ UNCHANGED <<clockVars, runVars, dataVars, closed, batch, batches, chanVars,
                 stopVars, proc>>

RecvLoadPanic ==
  /\ proc = "up" /\ recv = "load" /\ closed # {} /\ Panic

(* notify: the signal, then the wait for the answer or the close. *)
RecvSend ==
  /\ proc = "up" /\ recv = "send" /\ ready = "empty"
  /\ ready' = "full" /\ recv' = "wait"
  /\ UNCHANGED <<clockVars, runVars, dataVars, closed, batch, batches, fresh, finish,
                 stopVars, proc>>

RecvSendPanic ==
  /\ proc = "up" /\ recv = "send" /\ ready \in {"closed", "left"} /\ Panic

RecvFinish ==
  /\ proc = "up" /\ recv = "wait" /\ finish # "empty"
  /\ finish' = IF finish = "full" THEN "empty" ELSE finish
  /\ recv' = "select"
  /\ UNCHANGED <<clockVars, runVars, dataVars, closed, batch, batches, fresh, ready,
                 stopVars, proc>>

RecvDone ==
  /\ proc = "up" /\ recv = "select" /\ stop # "no"
  /\ recv' = "done"
  /\ UNCHANGED <<clockVars, runVars, dataVars, closed, batch, batches, fresh,
                 chanVars, stopVars, proc>>

(* A signal is taken off PluginReady, also a closed one; the closed and    *)
(* empty channel only makes Execute go round.                              *)
Signal ==
  /\ proc = "up" /\ pc["exec"] = "select" /\ ready \in {"full", "left"}
  /\ ready' = IF ready = "full" THEN "empty" ELSE "closed"
  /\ Go("exec", "swap")
  /\ UNCHANGED <<clockVars, pos, lock, called, dataVars, closed, recvVars, fresh, finish,
                 stopVars, proc>>

(* ReplaceRunningPlugin, under the lock, closes the instances of the       *)
(* batch's names and puts the new ones in their places: they count from    *)
(* zero.  A call under way in an old instance would meet its closed state. *)
(* A plugin that reads every second range loses one by the swap.           *)
SwapWaitsNot == TRUE
SwapWaits    == lock = "free"

SwapCloses ==
  LET inUse == {At(c) : c \in {d \in Caller : pc[d] \in {"call", "stored"}}}
  IN (IF fresh = "closed" THEN batch ELSE {}) \cup (inUse \cap batch)

Swap ==
  /\ proc = "up" /\ pc["exec"] = "swap" /\ SwapWaits /\ batch \cap closed = {}
  /\ trigger' = [p \in Plugin |->
       IF p \in batch THEN TriggerInterval(p, interval) ELSE trigger[p]]
  /\ count' = [p \in Plugin |-> IF p \in batch THEN 0 ELSE count[p]]
  /\ closed' = closed \cup SwapCloses
  /\ fresh' = "none" /\ batch' = {}
  /\ Lose({p \in batch \cap Consumer : trigger[p] > 1})
  /\ Go("exec", "swapConf")
  /\ UNCHANGED <<clockVars, pos, lock, called, low, interval, begun, recv, batches,
                 chanVars, stopVars, proc>>

(* The instance to replace was closed before. *)
SwapPanic ==
  /\ proc = "up" /\ pc["exec"] = "swap" /\ SwapWaits /\ batch \cap closed # {}
  /\ Panic

(* ReplaceRunningConfig: Global.Interval changes, Ticker.interval does not. *)
SwapConf(i) ==
  /\ proc = "up" /\ pc["exec"] = "swapConf"
  /\ interval' = i
  /\ Lose(IF i # interval THEN Consumer ELSE {})
  /\ Go("exec", "reply")
  /\ UNCHANGED <<clockVars, pos, lock, called, low, trigger, count, begun, closed,
                 recvVars, fresh, chanVars, stopVars, proc>>

Reply ==
  /\ proc = "up" /\ pc["exec"] = "reply" /\ finish = "empty"
  /\ finish' = "full" /\ Go("exec", "select")
  /\ UNCHANGED <<clockVars, pos, lock, called, dataVars, closed, recvVars, fresh, ready,
                 stopVars, proc>>

ReplyPanic ==
  /\ proc = "up" /\ pc["exec"] = "reply" /\ finish = "closed" /\ Panic

-----------------------------------------------------------------------------
(* The stop: runCollect's signal, Stop, wg.Wait *)

Idle ==
  /\ pc["exec"] \in {"adjust", "adjust2", "wait", "start", "select"}
  /\ pc["first"] \in {"idle", "spawned", "done"}
  /\ recv = "select"

Cancel ==
  /\ proc = "up" /\ stop = "no" /\ now \in StopTimes
  /\ stop' = "cancelled" /\ calm' = Idle /\ Lose(Consumer)
  /\ UNCHANGED <<clockVars, runVars, planVars, begun, closed, recvVars, fresh, chanVars, proc>>

(* RemovePlugins closes the running instances in their order, without the  *)
(* lock.                                                                   *)
RemoveRunning(i) ==
  /\ proc = "up" /\ stop = "cancelled" /\ Order[i] \notin closed
  /\ \A j \in 1..(i - 1) : Order[j] \in closed
  /\ closed' = closed \cup {Order[i]}
  /\ stop' = IF i = Len(Order) THEN "update" ELSE stop
  /\ UNCHANGED <<clockVars, runVars, dataVars, recvVars, fresh, chanVars, calm, proc>>

RemoveUpdate ==
  /\ proc = "up" /\ stop = "update"
  /\ fresh' = IF fresh = "open" THEN "closed" ELSE fresh
  /\ stop' = "ready"
  /\ UNCHANGED <<clockVars, runVars, dataVars, closed, recvVars, chanVars, calm, proc>>

CloseReady ==
  /\ proc = "up" /\ stop = "ready"
  /\ ready' = IF ready = "full" THEN "left" ELSE "closed"
  /\ stop' = "finish"
  /\ UNCHANGED <<clockVars, runVars, dataVars, closed, recvVars, fresh, finish, calm,
                 proc>>

(* An answer that waits in the channel is still received: it and the close *)
(* mean the same to the receiver.                                          *)
CloseFinishLeft ==
  /\ proc = "up" /\ stop = "finish" /\ stop' = "ticker"
  /\ UNCHANGED <<clockVars, runVars, dataVars, closed, recvVars, fresh, chanVars, calm,
                 proc>>

CloseFinish ==
  /\ proc = "up" /\ stop = "finish"
  /\ finish' = "closed" /\ stop' = "ticker"
  /\ UNCHANGED <<clockVars, runVars, dataVars, closed, recvVars, fresh, ready, calm,
                 proc>>

CloseTicker ==
  /\ proc = "up" /\ stop = "ticker" /\ stop' = "waiting"
  /\ UNCHANGED <<clockVars, runVars, dataVars, closed, recvVars, fresh, chanVars, calm,
                 proc>>

(* wg.Wait waits for the receiver, not for Execute or firstCollect; the    *)
(* others it waits for end by themselves (Report, Docker).                 *)
Quit ==
  /\ proc = "up" /\ stop = "waiting" /\ recv = "done"
  /\ proc' = "exited"
  /\ UNCHANGED <<clockVars, runVars, dataVars, closed, recvVars, fresh, chanVars,
                 stopVars>>

-----------------------------------------------------------------------------
Time == Pass \/ Fire

Execute ==
  \/ ReadNow \/ Adjust \/ WaitGapTicker \/ Start \/ Tick \/ Done
  \/ Signal \/ Swap \/ SwapPanic \/ Reply \/ ReplyPanic
  \/ \E i \in NewIntervals \cup {interval} : SwapConf(i)

Run(c) ==
  \/ Lock(c) \/ Unlock(c) \/ Skip(c) \/ Call(c) \/ CallPanic(c) \/ AddField(c)
  \/ Collect(c) \/ Dispose(c) \/ Converge(c) \/ Write(c) \/ Fail(c) \/ ReturnPanic(c)

Receive ==
  \/ RecvLoad \/ RecvLoadPanic \/ RecvSend \/ RecvSendPanic \/ RecvFinish \/ RecvDone
  \/ \E S \in NewPlugins : RecvBatch(S)

Stop ==
  \/ RemoveUpdate \/ CloseReady \/ CloseFinish \/ CloseTicker \/ Quit
  \/ \E i \in DOMAIN Order : RemoveRunning(i)

Next ==
  \/ Time \/ Execute \/ FirstCheck \/ Receive \/ Cancel \/ Stop
  \/ \E c \in Caller : Run(c)

Spec == Init /\ [][Next]_vars

(* main and the receiver run; nothing is asked of Execute, firstCollect or *)
(* the plugins.                                                            *)
Fairness == WF_vars(Receive) /\ WF_vars(Stop)

FairSpec == Spec /\ Fairness

-----------------------------------------------------------------------------
(* Properties *)

(* While none of its ticks was dropped no plugin misses a stored value:    *)
(* every second lies in a range it is given.  A plugin that runs every     *)
(* round can afford one late tick or failed call, because two ranges       *)
(* overlap; one that runs every second round can afford none.  What is     *)
(* older than its last range will never be read.                           *)
NothingMissed ==
  \A p \in Consumer : \A v \in book[p].unread :
    v >= book[p].from \/ (trigger[p] > 1 /\ v < begun)

(* Before a stop the executor never brings the process down: no plugin is  *)
(* called or swapped whose state is closed, nothing is sent on a closed    *)
(* channel.  The exception is an interval shorter than there are plugin    *)
(* categories, which a new configuration may bring.                        *)
NeverDiesByItself == proc = "dead" => stop # "no" \/ Timeout = 0

(* A stop that finds the collector at rest, and after which no tick and no *)
(* batch is taken up, never panics, although everything is closed without  *)
(* the lock and without waiting for Execute.                               *)
CalmStopIsClean == calm => proc # "dead"

(* A stop always ends, in an exit or in a panic: the receiver is released  *)
(* from its wait though Execute never answers.                             *)
StopEnds == stop # "no" ~> proc # "up"
=============================================================================
