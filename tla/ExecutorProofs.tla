--------------------------- MODULE ExecutorProofs ---------------------------
(***************************************************************************)
(* Proofs about Executor for every list of plugins, every interval and any *)
(* number of ticks, replacements and failures.                             *)
(***************************************************************************)
EXTENDS Executor, FiniteSetTheorems, TLAPS

(* A caller that is in a plugin is at one of its plugins. *)
InPlace == \A c \in Caller : pc[c] \in {"call", "stored"} => pos[c] <= Length(c)

Typed == TypeOK /\ InPlace

(* Whoever is in a round holds the lock, and nobody else does. *)
Held == \A c \in Caller : pc[c] \in {"round", "call", "stored"} <=> lock = c

(* firstCollect is started once, when the wait is over. *)
FirstOnce == pc["exec"] \in {"adjust", "adjust2", "wait", "start"} => pc["first"] = "idle"

Rounds == Held /\ FirstOnce

(* Between the signal and the answer the receiver waits; there is one of   *)
(* them on its way at a time, unless the answer is the close.              *)
Applying == {"swap", "swapConf", "reply"}

OneSignal ==
  /\ recv # "wait" /\ finish # "closed" =>
       ready \notin {"full", "left"} /\ pc["exec"] \notin Applying /\ finish = "empty"
  /\ pc["exec"] \in Applying => ready \notin {"full", "left"}
  /\ finish = "full" => ready \notin {"full", "left"} /\ pc["exec"] \notin Applying

(* PluginReady is closed before PluginUpdateFinish. *)
StopOrder ==
  /\ stop \in {"finish", "ticker", "waiting"} => ready \in {"closed", "left"}
  /\ finish = "closed" => ready \in {"closed", "left"}

(* Nothing is closed before the stop. *)
AtPeace ==
  stop = "no" => /\ closed = {} /\ fresh # "closed"
                 /\ ready \in {"empty", "full"} /\ finish # "closed"

(* After a calm stop nobody comes to use a plugin or a channel. *)
Calm ==
  calm => /\ stop # "no" /\ proc # "dead"
          /\ recv \in {"select", "done"} /\ ready \notin {"full", "left"}
          /\ pc["exec"] \in {"adjust", "adjust2", "wait", "start", "select", "done"}
          /\ pc["first"] \in {"idle", "spawned", "done"}

Safe == OneSignal /\ StopOrder /\ AtPeace /\ Calm /\ NeverDiesByItself

IInv == Typed /\ Rounds /\ Safe

-----------------------------------------------------------------------------
(* Lemmas on the helpers *)

(* parseConfig never yields a trigger below 1. *)
LEMMA TriggerType ==
  ASSUME NEW p \in Plugin, NEW g \in Nat
  PROVE  TriggerInterval(p, g) \in Nat \ {0}
<1>1. PluginInterval[p] \in Nat
  BY ExecutorAssumption
<1>2. CASE PluginInterval[p] > g /\ g > 0
  <2>1. \A n, m \in Nat : m > 0 /\ n > m => n \div m \in Nat /\ n \div m >= 1
    OBVIOUS
  <2> QED
    BY <1>1, <1>2, <2>1 DEF TriggerInterval
<1>3. CASE ~(PluginInterval[p] > g /\ g > 0)
  BY <1>3 DEF TriggerInterval
<1> QED
  BY <1>2, <1>3

(* The start of an interval is a second. *)
LEMMA TruncateType ==
  ASSUME NEW t \in Nat, NEW g \in Nat
  PROVE  Truncate(t, g) \in Nat
<1>1. CASE g = 0
  BY <1>1 DEF Truncate
<1>2. CASE g # 0
  <2>1. t % g \in 0..(g - 1)
    BY <1>2
  <2>2. t % g <= t
    <3>1. t = g * (t \div g) + (t % g) /\ t \div g \in Nat
      BY <1>2
    <3>2. \A a, b \in Nat : a * b \in Nat
      OBVIOUS
    <3> QED
      BY <2>1, <3>1, <3>2
  <2> QED
    BY <1>2, <2>1, <2>2 DEF Truncate
<1> QED
  BY <1>1, <1>2

(* The inputs are no more than the plugins. *)
LEMMA InputsType == Inputs \in 0..Len(Order)
<1> DEFINE S == {i \in DOMAIN Order : Cat[Order[i]] = "input"}
<1>1. Len(Order) \in Nat /\ DOMAIN Order = 1..Len(Order)
  BY ExecutorAssumption
<1>2. IsFiniteSet(1..Len(Order)) /\ Cardinality(1..Len(Order)) = Len(Order)
  <2>1. /\ IsFiniteSet(1..Len(Order))
        /\ Cardinality(1..Len(Order)) = IF 1 > Len(Order) THEN 0 ELSE Len(Order) - 1 + 1
    BY <1>1, FS_Interval
  <2> QED
    BY <1>1, <2>1
<1>3. S \subseteq 1..Len(Order)
  BY <1>1
<1>4. Cardinality(S) <= Cardinality(1..Len(Order)) /\ IsFiniteSet(S)
  BY <1>2, <1>3, FS_Subset
<1>5. Cardinality(S) \in Nat
  BY <1>4, FS_CardinalityType
<1>6. Inputs = Cardinality(S)
  BY DEF Inputs
<1> QED
  BY <1>1, <1>2, <1>4, <1>5, <1>6

(* The plugin at a place is one of the plugins. *)
LEMMA AtType ==
  ASSUME RunTypeOK, NEW c \in Caller, pos[c] <= Length(c)
  PROVE  At(c) \in Plugin
<1>1. Len(Order) \in Nat /\ Order \in [1..Len(Order) -> Plugin]
  BY ExecutorAssumption
<1>2. pos[c] \in 1..Len(Order)
  BY <1>1, InputsType DEF RunTypeOK, Length
<1> QED
  BY <1>1, <1>2 DEF At

(* What is entered in a book leaves a book. *)
LEMMA BookType ==
  ASSUME DataTypeOK
  PROVE  /\ Lost \in Book
         /\ \A q \in Consumer : book[q] \in Book /\ Read(q) \in Book
         /\ \A q \in Consumer : \A S \in SUBSET Nat : \A old \in BOOLEAN :
              Add(q, S, old) \in Book
         /\ \A S : [q \in Consumer |-> IF q \in S THEN Lost ELSE book[q]]
                  \in [Consumer -> Book]
<1>1. Lost \in Book
  BY DEF Lost, Book
<1>2. ASSUME NEW q \in Consumer PROVE book[q] \in Book
  BY DEF DataTypeOK
<1>3. ASSUME NEW q \in Consumer PROVE Read(q) \in Book
  BY <1>1, <1>2 DEF Read, Book, InRange, DataTypeOK, Consumer
<1>4. ASSUME NEW q \in Consumer, NEW S \in SUBSET Nat, NEW old \in BOOLEAN
      PROVE  Add(q, S, old) \in Book
  <2>1. CASE book[q].lost
    BY <1>1, <2>1 DEF Add
  <2>2. CASE ~book[q].lost
    BY <1>2, <2>2 DEF Add, Book
  <2> QED
    BY <2>1, <2>2
<1> QED
  BY <1>1, <1>2, <1>3, <1>4

(* A step that leaves a group of variables alone keeps its types. *)
LEMMA ClockFrame == ClockTypeOK /\ UNCHANGED clockVars => ClockTypeOK'
  BY DEF ClockTypeOK, clockVars
(* The same of the rounds, *)
LEMMA RunFrame == RunTypeOK /\ UNCHANGED runVars => RunTypeOK'
  BY DEF RunTypeOK, runVars
(* of the books, *)
LEMMA DataFrame == DataTypeOK /\ UNCHANGED dataVars => DataTypeOK'
  BY DEF DataTypeOK, dataVars, planVars
(* of the hot replacement, *)
LEMMA HandFrame ==
  HandTypeOK /\ UNCHANGED <<recvVars, closed, fresh, chanVars>> => HandTypeOK'
  BY DEF HandTypeOK, recvVars, chanVars
(* and of the stop. *)
LEMMA ProcFrame == ProcTypeOK /\ UNCHANGED <<stopVars, proc>> => ProcTypeOK'
  BY DEF ProcTypeOK, stopVars

-----------------------------------------------------------------------------
(* The types *)

(* The end of a call leaves everything alone but the place of the caller.  *)
LEMMA EndType ==
  ASSUME TypeOK, InPlace, NEW c \in Caller, End(c)
  PROVE  /\ At(c) \in Plugin
         /\ ClockTypeOK' /\ RunTypeOK' /\ HandTypeOK' /\ ProcTypeOK'
<1>1. pos[c] <= Length(c)
  BY DEF End, InPlace
<1>2. At(c) \in Plugin
  BY <1>1, AtType DEF TypeOK
<1>3. pos' \in [Caller -> Nat \ {0}]
  BY DEF TypeOK, RunTypeOK, End
<1>4. RunTypeOK'
  BY <1>3 DEF TypeOK, RunTypeOK, Executing, Collecting, Caller, End, Go
<1> QED
  BY <1>2, <1>4, ClockFrame, HandFrame, ProcFrame DEF TypeOK, End

(* Every step keeps the types. *)
THEOREM StepType == Typed /\ [Next]_vars => TypeOK'
<1> SUFFICES ASSUME TypeOK, InPlace, [Next]_vars PROVE TypeOK'
  BY DEF Typed
<1>1. CASE Pass
  BY <1>1, RunFrame, DataFrame, HandFrame, ProcFrame DEF TypeOK, Pass,
     ClockTypeOK, clockVars
<1>2. CASE Fire
  BY <1>2, RunFrame, HandFrame, ProcFrame, BookType, ExecutorAssumption DEF
     TypeOK, Fire, Lose, ClockTypeOK, clockVars, DataTypeOK, dataVars, planVars
<1>3. CASE ReadNow
  BY <1>3, DataFrame, HandFrame, ProcFrame DEF TypeOK, ReadNow, ClockTypeOK,
     clockVars, RunTypeOK, Executing, Collecting, Caller, Go
<1>4. CASE Adjust
  <2>1. ClockTypeOK'
    BY <1>4, TruncateType DEF TypeOK, ClockTypeOK, DataTypeOK, Adjust
  <2>2. RunTypeOK'
    BY <1>4 DEF TypeOK, RunTypeOK, Executing, Collecting, Caller, Adjust, Go
  <2> QED
    BY <1>4, <2>1, <2>2, DataFrame, HandFrame, ProcFrame DEF TypeOK, Adjust
<1>5. CASE WaitGapTicker
  BY <1>5, ClockFrame, DataFrame, HandFrame, ProcFrame DEF TypeOK,
     WaitGapTicker, RunTypeOK, Executing, Collecting, Caller, Go
<1>6. CASE Start
  <2>1. Interval \in Nat /\ Interval > 0
    BY ExecutorAssumption
  <2>2. now % Interval \in Nat
    BY <2>1 DEF TypeOK, ClockTypeOK
  <2>3. ClockTypeOK'
    BY <1>6, <2>1, <2>2 DEF TypeOK, ClockTypeOK, Start
  <2>4. RunTypeOK'
    BY <1>6 DEF TypeOK, RunTypeOK, Executing, Collecting, Caller, Start
  <2> QED
    BY <1>6, <2>3, <2>4, DataFrame, HandFrame, ProcFrame DEF TypeOK, Start
<1>7. CASE FirstCheck
  BY <1>7, ClockFrame, DataFrame, HandFrame, ProcFrame DEF TypeOK,
     FirstCheck, RunTypeOK, Executing, Collecting, Caller, Go
<1>8. CASE Tick
  <2>1. ClockTypeOK' /\ RunTypeOK' /\ ProcTypeOK'
    BY <1>8 DEF TypeOK, ClockTypeOK, RunTypeOK, ProcTypeOK, Executing, Collecting, Caller, Tick, Go
  <2>2. low' \in Int /\ begun' \in Nat
    BY <1>8, TruncateType DEF TypeOK, ClockTypeOK, DataTypeOK, Tick, LowerLimit
  <2>3. book' \in [Consumer -> Book]
    BY <1>8, BookType DEF TypeOK, Tick, Lose
  <2>4. DataTypeOK'
    BY <1>8, <2>2, <2>3 DEF TypeOK, DataTypeOK, Tick
  <2> QED
    BY <1>8, <2>1, <2>4, HandFrame DEF TypeOK, Tick
<1>9. CASE Done
  BY <1>9, ClockFrame, DataFrame, HandFrame, ProcFrame DEF TypeOK, Done,
     RunTypeOK, Executing, Collecting, Caller, Go
<1>10. CASE Signal
  BY <1>10, ClockFrame, DataFrame, ProcFrame DEF TypeOK, Signal, RunTypeOK,
     Executing, Collecting, Caller, Go, HandTypeOK, recvVars, chanVars
<1>11. CASE Swap
  <2>1. RunTypeOK'
    BY <1>11 DEF TypeOK, RunTypeOK, Executing, Collecting, Caller, Swap, Go
  <2>2. trigger' \in [Plugin -> Nat \ {0}] /\ count' \in [Plugin -> Nat]
    BY <1>11, TriggerType DEF TypeOK, DataTypeOK, Swap
  <2>3. DataTypeOK'
    BY <1>11, <2>2, BookType DEF TypeOK, DataTypeOK, Swap, Lose
  <2>4. HandTypeOK'
    BY <1>11 DEF TypeOK, HandTypeOK, Swap, SwapCloses, chanVars
  <2> QED
    BY <1>11, <2>1, <2>3, <2>4, ClockFrame, ProcFrame DEF TypeOK, Swap
<1>12. CASE SwapPanic
  BY <1>12, ClockFrame, RunFrame, DataFrame, HandFrame DEF TypeOK,
     SwapPanic, Panic, ProcTypeOK, stopVars, Stopping
<1>13. CASE Reply
  BY <1>13, ClockFrame, DataFrame, ProcFrame DEF TypeOK, Reply, RunTypeOK,
     Executing, Collecting, Caller, Go, HandTypeOK, recvVars, chanVars
<1>14. CASE ReplyPanic
  BY <1>14, ClockFrame, RunFrame, DataFrame, HandFrame DEF TypeOK,
     ReplyPanic, Panic, ProcTypeOK, stopVars, Stopping
<1>15. ASSUME NEW i \in NewIntervals \cup {interval}, SwapConf(i) PROVE TypeOK'
  BY <1>15, ClockFrame, HandFrame, ProcFrame, BookType, ExecutorAssumption
     DEF TypeOK, SwapConf, Lose, RunTypeOK, Executing, Collecting, Caller, Go,
     DataTypeOK, dataVars, planVars
<1>16. ASSUME NEW c \in Caller, Lock(c) PROVE TypeOK'
  BY <1>16, ClockFrame, DataFrame, HandFrame, ProcFrame DEF TypeOK, Lock,
     RunTypeOK, Executing, Collecting, Caller, Go
<1>17. ASSUME NEW c \in Caller, Unlock(c) PROVE TypeOK'
  BY <1>17, ClockFrame, DataFrame, HandFrame, ProcFrame DEF TypeOK, Unlock,
     RunTypeOK, Executing, Collecting, Caller, Go
<1>18. ASSUME NEW c \in Caller, Skip(c) PROVE TypeOK'
  BY <1>18, ClockFrame, HandFrame, ProcFrame, AtType DEF TypeOK, Skip,
     RunTypeOK, Executing, Collecting, Caller, Go, DataTypeOK, dataVars,
     planVars
<1>19. ASSUME NEW c \in Caller, Call(c) PROVE TypeOK'
  <2>1. RunTypeOK'
    BY <1>19 DEF TypeOK, ClockTypeOK, RunTypeOK, Executing, Collecting, Caller, Call, Go
  <2>2. DataTypeOK'
    BY <1>19 DEF TypeOK, DataTypeOK, Call
  <2> QED
    BY <1>19, <2>1, <2>2, ClockFrame, HandFrame, ProcFrame DEF TypeOK, Call
<1>20. ASSUME NEW c \in Caller, CallPanic(c) PROVE TypeOK'
  BY <1>20, ClockFrame, RunFrame, DataFrame, HandFrame DEF TypeOK,
     CallPanic, Panic, ProcTypeOK, stopVars, Stopping
<1>21. ASSUME NEW c \in Caller, AddField(c) PROVE TypeOK'
  <2>1. RunTypeOK'
    BY <1>21 DEF TypeOK, RunTypeOK, Executing, Collecting, Caller, AddField, Go
  <2>2. \A t \in called .. now : {t} \in SUBSET Nat
    BY DEF TypeOK, ClockTypeOK, RunTypeOK
  <2>3. PICK t \in called .. now : book' = [q \in Consumer |->
                 IF q \in Feeds[At(c)] THEN Store(q, t) ELSE book[q]]
    BY <1>21 DEF AddField
  <2>4. ASSUME NEW q \in Consumer PROVE Store(q, t) \in Book
    <3>1. Behind(q) \in BOOLEAN
      BY DEF Behind
    <3> QED
      BY <2>2, <3>1, BookType DEF TypeOK, Store
  <2>5. book' \in [Consumer -> Book]
    BY <2>3, <2>4, BookType DEF TypeOK
  <2>6. DataTypeOK'
    BY <1>21, <2>5 DEF TypeOK, DataTypeOK, AddField, planVars
  <2> QED
    BY <1>21, <2>1, <2>6, ClockFrame, HandFrame, ProcFrame DEF TypeOK, AddField
<1>22. ASSUME NEW c \in Caller, Collect(c) PROVE TypeOK'
  <2>1. DataTypeOK'
    BY <1>22 DEF TypeOK, DataTypeOK, Collect, End
  <2> QED
    BY <1>22, <2>1, EndType DEF TypeOK, Collect
<1>23. ASSUME NEW c \in Caller, Dispose(c) PROVE TypeOK'
  <2>1. End(c) /\ At(c) \in Consumer
    BY <1>23, EndType DEF Dispose, Consumer
  <2>2. InRange(book[At(c)].unread) \in SUBSET Nat
    BY <2>1, BookType DEF TypeOK, InRange, Book
  <2>3. book' \in [Consumer -> Book]
    BY <1>23, <2>1, <2>2, BookType DEF TypeOK, DataTypeOK, Dispose
  <2>4. DataTypeOK'
    BY <2>1, <2>3 DEF TypeOK, DataTypeOK, End
  <2> QED
    BY <2>1, <2>4, EndType DEF TypeOK
<1>24. ASSUME NEW c \in Caller, Converge(c) PROVE TypeOK'
  <2>1. End(c) /\ At(c) \in Consumer
    BY <1>24, EndType DEF Converge, Consumer
  <2>2. book' \in [Consumer -> Book]
    BY <1>24, <2>1, BookType DEF TypeOK, DataTypeOK, Converge
  <2>3. DataTypeOK'
    BY <2>1, <2>2 DEF TypeOK, DataTypeOK, End
  <2> QED
    BY <2>1, <2>3, EndType DEF TypeOK
<1>25. ASSUME NEW c \in Caller, Write(c) PROVE TypeOK'
  <2>1. End(c) /\ At(c) \in Consumer
    BY <1>25, EndType DEF Write, Consumer
  <2>2. book' \in [Consumer -> Book]
    BY <1>25, <2>1, BookType DEF TypeOK, DataTypeOK, Write
  <2>3. DataTypeOK'
    BY <2>1, <2>2 DEF TypeOK, DataTypeOK, End
  <2> QED
    BY <2>1, <2>3, EndType DEF TypeOK
<1>26. ASSUME NEW c \in Caller, Fail(c) PROVE TypeOK'
  <2>1. End(c)
    BY <1>26 DEF Fail
  <2>2. ASSUME NEW q \in Consumer
        PROVE [book[q] EXCEPT !.from = low, !.firm = FALSE] \in Book
    <3>1. book[q] \in Book /\ low \in Int
      BY BookType DEF TypeOK, DataTypeOK
    <3> QED
      BY <3>1 DEF Book
  <2>3. book' \in [Consumer -> Book]
    BY <1>26, <2>2, BookType DEF TypeOK, Fail
  <2>4. DataTypeOK'
    BY <2>1, <2>3 DEF TypeOK, DataTypeOK, End
  <2> QED
    BY <2>1, <2>4, EndType DEF TypeOK
<1>27. ASSUME NEW c \in Caller, ReturnPanic(c) PROVE TypeOK'
  BY <1>27, ClockFrame, RunFrame, DataFrame, HandFrame DEF TypeOK,
     ReturnPanic, Panic, ProcTypeOK, stopVars, Stopping
<1>28. CASE RecvLoad
  BY <1>28, ClockFrame, RunFrame, DataFrame, ProcFrame DEF TypeOK, RecvLoad,
     HandTypeOK, recvVars, chanVars
<1>29. CASE RecvLoadPanic
  BY <1>29, ClockFrame, RunFrame, DataFrame, HandFrame DEF TypeOK,
     RecvLoadPanic, Panic, ProcTypeOK, stopVars, Stopping
<1>30. CASE RecvSend
  BY <1>30, ClockFrame, RunFrame, DataFrame, ProcFrame DEF TypeOK, RecvSend,
     HandTypeOK, recvVars, chanVars
<1>31. CASE RecvSendPanic
  BY <1>31, ClockFrame, RunFrame, DataFrame, HandFrame DEF TypeOK,
     RecvSendPanic, Panic, ProcTypeOK, stopVars, Stopping
<1>32. CASE RecvFinish
  BY <1>32, ClockFrame, RunFrame, DataFrame, ProcFrame DEF TypeOK,
     RecvFinish, HandTypeOK, recvVars, chanVars
<1>33. CASE RecvDone
  BY <1>33, ClockFrame, RunFrame, DataFrame, ProcFrame DEF TypeOK, RecvDone,
     HandTypeOK, recvVars, chanVars
<1>34. ASSUME NEW S \in NewPlugins, RecvBatch(S) PROVE TypeOK'
  BY <1>34, ClockFrame, RunFrame, DataFrame, ExecutorAssumption DEF TypeOK,
     RecvBatch, HandTypeOK, recvVars, chanVars, ProcTypeOK, stopVars, Stopping
<1>35. CASE Cancel
  <2>1. book' \in [Consumer -> Book]
    BY <1>35, BookType DEF TypeOK, Cancel, Lose
  <2>2. DataTypeOK'
    BY <1>35, <2>1 DEF TypeOK, DataTypeOK, Cancel, planVars
  <2>3. ProcTypeOK'
    BY <1>35 DEF TypeOK, ProcTypeOK, Stopping, Cancel, Idle
  <2> QED
    BY <1>35, <2>2, <2>3, ClockFrame, RunFrame, HandFrame DEF TypeOK, Cancel
<1>36. ASSUME NEW i \in DOMAIN Order, RemoveRunning(i) PROVE TypeOK'
  BY <1>36, ClockFrame, RunFrame, DataFrame, ExecutorAssumption DEF TypeOK,
     RemoveRunning, HandTypeOK, recvVars, chanVars, ProcTypeOK, stopVars,
     Stopping
<1>37. CASE RemoveUpdate
  BY <1>37, ClockFrame, RunFrame, DataFrame DEF TypeOK, RemoveUpdate,
     HandTypeOK, recvVars, chanVars, ProcTypeOK, stopVars, Stopping
<1>38. CASE CloseReady
  BY <1>38, ClockFrame, RunFrame, DataFrame DEF TypeOK, CloseReady,
     HandTypeOK, recvVars, chanVars, ProcTypeOK, stopVars, Stopping
<1>39. CASE CloseFinish
  BY <1>39, ClockFrame, RunFrame, DataFrame DEF TypeOK, CloseFinish,
     HandTypeOK, recvVars, chanVars, ProcTypeOK, stopVars, Stopping
<1>40. CASE CloseTicker
  BY <1>40, ClockFrame, RunFrame, DataFrame, HandFrame DEF TypeOK,
     CloseTicker, ProcTypeOK, stopVars, Stopping
<1>41. CASE Quit
  BY <1>41, ClockFrame, RunFrame, DataFrame, HandFrame DEF TypeOK, Quit,
     ProcTypeOK, stopVars, Stopping
<1>42. CASE UNCHANGED vars
  BY <1>42, ClockFrame, RunFrame, DataFrame, HandFrame, ProcFrame DEF
     TypeOK, vars
<1> QED
  BY <1>1, <1>2, <1>3, <1>4, <1>5, <1>6, <1>7, <1>8, <1>9, <1>10, <1>11, <1>12, <1>13, <1>14, <1>15, <1>16, <1>17, <1>18, <1>19, <1>20, <1>21, <1>22, <1>23, <1>24, <1>25, <1>26, <1>27, <1>28, <1>29, <1>30, <1>31, <1>32, <1>33, <1>34, <1>35, <1>36, <1>37, <1>38, <1>39, <1>40, <1>41, <1>42
  DEF Next, Time, Execute, Run, Receive, Stop

(* A caller enters a plugin at its place in the list, and keeps the place  *)
(* while it is in it.                                                      *)
THEOREM StepInPlace == Typed /\ [Next]_vars => InPlace'
<1> SUFFICES ASSUME TypeOK, InPlace, [Next]_vars PROVE InPlace'
  BY DEF Typed
<1>1. CASE Pass
  BY <1>1 DEF InPlace, Length, RunTypeOK, TypeOK, Caller, Pass, runVars
<1>2. CASE Fire
  BY <1>2 DEF InPlace, Length, RunTypeOK, TypeOK, Caller, Fire, runVars
<1>3. CASE ReadNow
  BY <1>3 DEF InPlace, Length, RunTypeOK, TypeOK, Caller, ReadNow, Go
<1>4. CASE Adjust
  BY <1>4 DEF InPlace, Length, RunTypeOK, TypeOK, Caller, Adjust, Go
<1>5. CASE WaitGapTicker
  BY <1>5 DEF InPlace, Length, RunTypeOK, TypeOK, Caller, WaitGapTicker, Go
<1>6. CASE Start
  BY <1>6 DEF InPlace, Length, RunTypeOK, TypeOK, Caller, Start, Go
<1>7. CASE FirstCheck
  BY <1>7 DEF InPlace, Length, RunTypeOK, TypeOK, Caller, FirstCheck, Go
<1>8. CASE Tick
  BY <1>8 DEF InPlace, Length, RunTypeOK, TypeOK, Caller, Tick, Go
<1>9. CASE Done
  BY <1>9 DEF InPlace, Length, RunTypeOK, TypeOK, Caller, Done, Go
<1>10. CASE Signal
  BY <1>10 DEF InPlace, Length, RunTypeOK, TypeOK, Caller, Signal, Go
<1>11. CASE Swap
  BY <1>11 DEF InPlace, Length, RunTypeOK, TypeOK, Caller, Swap, Go
<1>12. CASE SwapPanic
  BY <1>12 DEF InPlace, Length, RunTypeOK, TypeOK, Caller, SwapPanic,
     runVars, Panic
<1>13. CASE Reply
  BY <1>13 DEF InPlace, Length, RunTypeOK, TypeOK, Caller, Reply, Go
<1>14. CASE ReplyPanic
  BY <1>14 DEF InPlace, Length, RunTypeOK, TypeOK, Caller, ReplyPanic,
     runVars, Panic
<1>15. ASSUME NEW i \in NewIntervals \cup {interval}, SwapConf(i) PROVE InPlace'
  BY <1>15 DEF InPlace, Length, RunTypeOK, TypeOK, Caller, SwapConf, Go
<1>16. ASSUME NEW c \in Caller, Lock(c) PROVE InPlace'
  BY <1>16 DEF InPlace, Length, RunTypeOK, TypeOK, Caller, Lock, Go
<1>17. ASSUME NEW c \in Caller, Unlock(c) PROVE InPlace'
  BY <1>17 DEF InPlace, Length, RunTypeOK, TypeOK, Caller, Unlock, Go
<1>18. ASSUME NEW c \in Caller, Skip(c) PROVE InPlace'
  BY <1>18 DEF InPlace, Length, RunTypeOK, TypeOK, Caller, Skip, Go
<1>19. ASSUME NEW c \in Caller, Call(c) PROVE InPlace'
  BY <1>19 DEF InPlace, Length, RunTypeOK, TypeOK, Caller, Call, Go
<1>20. ASSUME NEW c \in Caller, CallPanic(c) PROVE InPlace'
  BY <1>20 DEF InPlace, Length, RunTypeOK, TypeOK, Caller, CallPanic,
     runVars, Panic
<1>21. ASSUME NEW c \in Caller, AddField(c) PROVE InPlace'
  BY <1>21 DEF InPlace, Length, RunTypeOK, TypeOK, Caller, AddField, Go
<1>22. ASSUME NEW c \in Caller, Collect(c) PROVE InPlace'
  BY <1>22 DEF InPlace, Length, RunTypeOK, TypeOK, Caller, Collect, Go, End
<1>23. ASSUME NEW c \in Caller, Dispose(c) PROVE InPlace'
  BY <1>23 DEF InPlace, Length, RunTypeOK, TypeOK, Caller, Dispose, Go, End
<1>24. ASSUME NEW c \in Caller, Converge(c) PROVE InPlace'
  BY <1>24 DEF InPlace, Length, RunTypeOK, TypeOK, Caller, Converge, Go, End
<1>25. ASSUME NEW c \in Caller, Write(c) PROVE InPlace'
  BY <1>25 DEF InPlace, Length, RunTypeOK, TypeOK, Caller, Write, Go, End
<1>26. ASSUME NEW c \in Caller, Fail(c) PROVE InPlace'
  BY <1>26 DEF InPlace, Length, RunTypeOK, TypeOK, Caller, Fail, Go, End
<1>27. ASSUME NEW c \in Caller, ReturnPanic(c) PROVE InPlace'
  BY <1>27 DEF InPlace, Length, RunTypeOK, TypeOK, Caller, ReturnPanic,
     runVars, Panic
<1>28. CASE RecvLoad
  BY <1>28 DEF InPlace, Length, RunTypeOK, TypeOK, Caller, RecvLoad, runVars
<1>29. CASE RecvLoadPanic
  BY <1>29 DEF InPlace, Length, RunTypeOK, TypeOK, Caller, RecvLoadPanic,
     runVars, Panic
<1>30. CASE RecvSend
  BY <1>30 DEF InPlace, Length, RunTypeOK, TypeOK, Caller, RecvSend, runVars
<1>31. CASE RecvSendPanic
  BY <1>31 DEF InPlace, Length, RunTypeOK, TypeOK, Caller, RecvSendPanic,
     runVars, Panic
<1>32. CASE RecvFinish
  BY <1>32 DEF InPlace, Length, RunTypeOK, TypeOK, Caller, RecvFinish,
     runVars
<1>33. CASE RecvDone
  BY <1>33 DEF InPlace, Length, RunTypeOK, TypeOK, Caller, RecvDone, runVars
<1>34. ASSUME NEW S \in NewPlugins, RecvBatch(S) PROVE InPlace'
  BY <1>34 DEF InPlace, Length, RunTypeOK, TypeOK, Caller, RecvBatch,
     runVars
<1>35. CASE Cancel
  BY <1>35 DEF InPlace, Length, RunTypeOK, TypeOK, Caller, Cancel, runVars
<1>36. ASSUME NEW i \in DOMAIN Order, RemoveRunning(i) PROVE InPlace'
  BY <1>36 DEF InPlace, Length, RunTypeOK, TypeOK, Caller, RemoveRunning,
     runVars
<1>37. CASE RemoveUpdate
  BY <1>37 DEF InPlace, Length, RunTypeOK, TypeOK, Caller, RemoveUpdate,
     runVars
<1>38. CASE CloseReady
  BY <1>38 DEF InPlace, Length, RunTypeOK, TypeOK, Caller, CloseReady,
     runVars
<1>39. CASE CloseFinish
  BY <1>39 DEF InPlace, Length, RunTypeOK, TypeOK, Caller, CloseFinish,
     runVars
<1>40. CASE CloseTicker
  BY <1>40 DEF InPlace, Length, RunTypeOK, TypeOK, Caller, CloseTicker,
     runVars
<1>41. CASE Quit
  BY <1>41 DEF InPlace, Length, RunTypeOK, TypeOK, Caller, Quit, runVars
<1>42. CASE UNCHANGED vars
  BY <1>42 DEF InPlace, Length, vars, runVars
<1> QED
  BY <1>1, <1>2, <1>3, <1>4, <1>5, <1>6, <1>7, <1>8, <1>9, <1>10, <1>11, <1>12, <1>13, <1>14, <1>15, <1>16, <1>17, <1>18, <1>19, <1>20, <1>21, <1>22, <1>23, <1>24, <1>25, <1>26, <1>27, <1>28, <1>29, <1>30, <1>31, <1>32, <1>33, <1>34, <1>35, <1>36, <1>37, <1>38, <1>39, <1>40, <1>41, <1>42
  DEF Next, Time, Execute, Run, Receive, Stop

(* The lock is taken with the first plugin and given up after the last.    *)
THEOREM StepRounds == TypeOK /\ Rounds /\ [Next]_vars => Rounds'
<1> SUFFICES ASSUME TypeOK /\ Rounds, [Next]_vars PROVE Rounds'
  OBVIOUS
<1>1. CASE Pass
  BY <1>1 DEF Rounds, Held, FirstOnce, RunTypeOK, TypeOK, Caller, Executing,
     Collecting, Pass, runVars
<1>2. CASE Fire
  BY <1>2 DEF Rounds, Held, FirstOnce, RunTypeOK, TypeOK, Caller, Executing,
     Collecting, Fire, runVars
<1>3. CASE ReadNow
  BY <1>3 DEF Rounds, Held, FirstOnce, RunTypeOK, TypeOK, Caller, Executing,
     Collecting, ReadNow, Go
<1>4. CASE Adjust
  BY <1>4 DEF Rounds, Held, FirstOnce, RunTypeOK, TypeOK, Caller, Executing,
     Collecting, Adjust, Go
<1>5. CASE WaitGapTicker
  BY <1>5 DEF Rounds, Held, FirstOnce, RunTypeOK, TypeOK, Caller, Executing,
     Collecting, WaitGapTicker, Go
<1>6. CASE Start
  BY <1>6 DEF Rounds, Held, FirstOnce, RunTypeOK, TypeOK, Caller, Executing,
     Collecting, Start, Go
<1>7. CASE FirstCheck
  BY <1>7 DEF Rounds, Held, FirstOnce, RunTypeOK, TypeOK, Caller, Executing,
     Collecting, FirstCheck, Go
<1>8. CASE Tick
  BY <1>8 DEF Rounds, Held, FirstOnce, RunTypeOK, TypeOK, Caller, Executing,
     Collecting, Tick, Go
<1>9. CASE Done
  BY <1>9 DEF Rounds, Held, FirstOnce, RunTypeOK, TypeOK, Caller, Executing,
     Collecting, Done, Go
<1>10. CASE Signal
  BY <1>10 DEF Rounds, Held, FirstOnce, RunTypeOK, TypeOK, Caller,
     Executing, Collecting, Signal, Go
<1>11. CASE Swap
  BY <1>11 DEF Rounds, Held, FirstOnce, RunTypeOK, TypeOK, Caller,
     Executing, Collecting, Swap, Go
<1>12. CASE SwapPanic
  BY <1>12 DEF Rounds, Held, FirstOnce, RunTypeOK, TypeOK, Caller,
     Executing, Collecting, SwapPanic, runVars, Panic
<1>13. CASE Reply
  BY <1>13 DEF Rounds, Held, FirstOnce, RunTypeOK, TypeOK, Caller,
     Executing, Collecting, Reply, Go
<1>14. CASE ReplyPanic
  BY <1>14 DEF Rounds, Held, FirstOnce, RunTypeOK, TypeOK, Caller,
     Executing, Collecting, ReplyPanic, runVars, Panic
<1>15. ASSUME NEW i \in NewIntervals \cup {interval}, SwapConf(i) PROVE Rounds'
  BY <1>15 DEF Rounds, Held, FirstOnce, RunTypeOK, TypeOK, Caller,
     Executing, Collecting, SwapConf, Go
<1>16. ASSUME NEW c \in Caller, Lock(c) PROVE Rounds'
  BY <1>16 DEF Rounds, Held, FirstOnce, RunTypeOK, TypeOK, Caller,
     Executing, Collecting, Lock, Go
<1>17. ASSUME NEW c \in Caller, Unlock(c) PROVE Rounds'
  BY <1>17 DEF Rounds, Held, FirstOnce, RunTypeOK, TypeOK, Caller,
     Executing, Collecting, Unlock, Go
<1>18. ASSUME NEW c \in Caller, Skip(c) PROVE Rounds'
  BY <1>18 DEF Rounds, Held, FirstOnce, RunTypeOK, TypeOK, Caller,
     Executing, Collecting, Skip, Go
<1>19. ASSUME NEW c \in Caller, Call(c) PROVE Rounds'
  BY <1>19 DEF Rounds, Held, FirstOnce, RunTypeOK, TypeOK, Caller,
     Executing, Collecting, Call, Go
<1>20. ASSUME NEW c \in Caller, CallPanic(c) PROVE Rounds'
  BY <1>20 DEF Rounds, Held, FirstOnce, RunTypeOK, TypeOK, Caller,
     Executing, Collecting, CallPanic, runVars, Panic
<1>21. ASSUME NEW c \in Caller, AddField(c) PROVE Rounds'
  BY <1>21 DEF Rounds, Held, FirstOnce, RunTypeOK, TypeOK, Caller,
     Executing, Collecting, AddField, Go
<1>22. ASSUME NEW c \in Caller, Collect(c) PROVE Rounds'
  BY <1>22 DEF Rounds, Held, FirstOnce, RunTypeOK, TypeOK, Caller,
     Executing, Collecting, Collect, Go, End
<1>23. ASSUME NEW c \in Caller, Dispose(c) PROVE Rounds'
  BY <1>23 DEF Rounds, Held, FirstOnce, RunTypeOK, TypeOK, Caller,
     Executing, Collecting, Dispose, Go, End
<1>24. ASSUME NEW c \in Caller, Converge(c) PROVE Rounds'
  BY <1>24 DEF Rounds, Held, FirstOnce, RunTypeOK, TypeOK, Caller,
     Executing, Collecting, Converge, Go, End
<1>25. ASSUME NEW c \in Caller, Write(c) PROVE Rounds'
  BY <1>25 DEF Rounds, Held, FirstOnce, RunTypeOK, TypeOK, Caller,
     Executing, Collecting, Write, Go, End
<1>26. ASSUME NEW c \in Caller, Fail(c) PROVE Rounds'
  BY <1>26 DEF Rounds, Held, FirstOnce, RunTypeOK, TypeOK, Caller,
     Executing, Collecting, Fail, Go, End
<1>27. ASSUME NEW c \in Caller, ReturnPanic(c) PROVE Rounds'
  BY <1>27 DEF Rounds, Held, FirstOnce, RunTypeOK, TypeOK, Caller,
     Executing, Collecting, ReturnPanic, runVars, Panic
<1>28. CASE RecvLoad
  BY <1>28 DEF Rounds, Held, FirstOnce, RunTypeOK, TypeOK, Caller,
     Executing, Collecting, RecvLoad, runVars
<1>29. CASE RecvLoadPanic
  BY <1>29 DEF Rounds, Held, FirstOnce, RunTypeOK, TypeOK, Caller,
     Executing, Collecting, RecvLoadPanic, runVars, Panic
<1>30. CASE RecvSend
  BY <1>30 DEF Rounds, Held, FirstOnce, RunTypeOK, TypeOK, Caller,
     Executing, Collecting, RecvSend, runVars
<1>31. CASE RecvSendPanic
  BY <1>31 DEF Rounds, Held, FirstOnce, RunTypeOK, TypeOK, Caller,
     Executing, Collecting, RecvSendPanic, runVars, Panic
<1>32. CASE RecvFinish
  BY <1>32 DEF Rounds, Held, FirstOnce, RunTypeOK, TypeOK, Caller,
     Executing, Collecting, RecvFinish, runVars
<1>33. CASE RecvDone
  BY <1>33 DEF Rounds, Held, FirstOnce, RunTypeOK, TypeOK, Caller,
     Executing, Collecting, RecvDone, runVars
<1>34. ASSUME NEW S \in NewPlugins, RecvBatch(S) PROVE Rounds'
  BY <1>34 DEF Rounds, Held, FirstOnce, RunTypeOK, TypeOK, Caller,
     Executing, Collecting, RecvBatch, runVars
<1>35. CASE Cancel
  BY <1>35 DEF Rounds, Held, FirstOnce, RunTypeOK, TypeOK, Caller,
     Executing, Collecting, Cancel, runVars
<1>36. ASSUME NEW i \in DOMAIN Order, RemoveRunning(i) PROVE Rounds'
  BY <1>36 DEF Rounds, Held, FirstOnce, RunTypeOK, TypeOK, Caller,
     Executing, Collecting, RemoveRunning, runVars
<1>37. CASE RemoveUpdate
  BY <1>37 DEF Rounds, Held, FirstOnce, RunTypeOK, TypeOK, Caller,
     Executing, Collecting, RemoveUpdate, runVars
<1>38. CASE CloseReady
  BY <1>38 DEF Rounds, Held, FirstOnce, RunTypeOK, TypeOK, Caller,
     Executing, Collecting, CloseReady, runVars
<1>39. CASE CloseFinish
  BY <1>39 DEF Rounds, Held, FirstOnce, RunTypeOK, TypeOK, Caller,
     Executing, Collecting, CloseFinish, runVars
<1>40. CASE CloseTicker
  BY <1>40 DEF Rounds, Held, FirstOnce, RunTypeOK, TypeOK, Caller,
     Executing, Collecting, CloseTicker, runVars
<1>41. CASE Quit
  BY <1>41 DEF Rounds, Held, FirstOnce, RunTypeOK, TypeOK, Caller,
     Executing, Collecting, Quit, runVars
<1>42. CASE UNCHANGED vars
  BY <1>42 DEF Rounds, Held, FirstOnce, vars, runVars
<1> QED
  BY <1>1, <1>2, <1>3, <1>4, <1>5, <1>6, <1>7, <1>8, <1>9, <1>10, <1>11, <1>12, <1>13, <1>14, <1>15, <1>16, <1>17, <1>18, <1>19, <1>20, <1>21, <1>22, <1>23, <1>24, <1>25, <1>26, <1>27, <1>28, <1>29, <1>30, <1>31, <1>32, <1>33, <1>34, <1>35, <1>36, <1>37, <1>38, <1>39, <1>40, <1>41, <1>42
  DEF Next, Time, Execute, Run, Receive, Stop, Caller

(* The rest of the invariant. *)
THEOREM StepSafe == TypeOK /\ Rounds /\ Safe /\ [Next]_vars => Safe'
<1> SUFFICES ASSUME TypeOK /\ Rounds /\ Safe, [Next]_vars PROVE Safe'
  OBVIOUS
<1>1. CASE Pass
  BY <1>1 DEF Safe, OneSignal, StopOrder, AtPeace, Calm, NeverDiesByItself,
     Applying, Timeout, Rounds, Held, Caller, TypeOK, RunTypeOK, HandTypeOK,
     ProcTypeOK, Pass, runVars, dataVars, planVars, recvVars, chanVars,
     stopVars
<1>2. CASE Fire
  BY <1>2 DEF Safe, OneSignal, StopOrder, AtPeace, Calm, NeverDiesByItself,
     Applying, Timeout, Rounds, Held, Caller, TypeOK, RunTypeOK, HandTypeOK,
     ProcTypeOK, Fire, runVars, dataVars, planVars, recvVars, chanVars,
     stopVars
<1>3. CASE ReadNow
  BY <1>3 DEF Safe, OneSignal, StopOrder, AtPeace, Calm, NeverDiesByItself,
     Applying, Timeout, Rounds, Held, Caller, TypeOK, RunTypeOK, HandTypeOK,
     ProcTypeOK, ReadNow, dataVars, planVars, recvVars, chanVars, stopVars, Go
<1>4. CASE Adjust
  BY <1>4 DEF Safe, OneSignal, StopOrder, AtPeace, Calm, NeverDiesByItself,
     Applying, Timeout, Rounds, Held, Caller, TypeOK, RunTypeOK, HandTypeOK,
     ProcTypeOK, Adjust, dataVars, planVars, recvVars, chanVars, stopVars, Go
<1>5. CASE WaitGapTicker
  BY <1>5 DEF Safe, OneSignal, StopOrder, AtPeace, Calm, NeverDiesByItself,
     Applying, Timeout, Rounds, Held, Caller, TypeOK, RunTypeOK, HandTypeOK,
     ProcTypeOK, WaitGapTicker, dataVars, planVars, recvVars, chanVars,
     stopVars, Go
<1>6. CASE Start
  BY <1>6 DEF Safe, OneSignal, StopOrder, AtPeace, Calm, NeverDiesByItself,
     Applying, Timeout, Rounds, Held, Caller, TypeOK, RunTypeOK, HandTypeOK,
     ProcTypeOK, Start, dataVars, planVars, recvVars, chanVars, stopVars, Go
<1>7. CASE FirstCheck
  BY <1>7 DEF Safe, OneSignal, StopOrder, AtPeace, Calm, NeverDiesByItself,
     Applying, Timeout, Rounds, Held, Caller, TypeOK, RunTypeOK, HandTypeOK,
     ProcTypeOK, FirstCheck, dataVars, planVars, recvVars, chanVars, stopVars,
     Go
<1>8. CASE Tick
  BY <1>8 DEF Safe, OneSignal, StopOrder, AtPeace, Calm, NeverDiesByItself,
     Applying, Timeout, Rounds, Held, Caller, TypeOK, RunTypeOK, HandTypeOK,
     ProcTypeOK, Tick, dataVars, planVars, recvVars, chanVars, stopVars, Go
<1>9. CASE Done
  BY <1>9 DEF Safe, OneSignal, StopOrder, AtPeace, Calm, NeverDiesByItself,
     Applying, Timeout, Rounds, Held, Caller, TypeOK, RunTypeOK, HandTypeOK,
     ProcTypeOK, Done, dataVars, planVars, recvVars, chanVars, stopVars, Go
<1>10. CASE Signal
  BY <1>10 DEF Safe, OneSignal, StopOrder, AtPeace, Calm, NeverDiesByItself,
     Applying, Timeout, Rounds, Held, Caller, TypeOK, RunTypeOK, HandTypeOK,
     ProcTypeOK, Signal, dataVars, planVars, recvVars, chanVars, stopVars, Go
<1>11. CASE Swap
  BY <1>11 DEF Safe, OneSignal, StopOrder, AtPeace, Calm, NeverDiesByItself,
     Applying, Timeout, Rounds, Held, Caller, TypeOK, RunTypeOK, HandTypeOK,
     ProcTypeOK, Swap, dataVars, planVars, recvVars, chanVars, stopVars, Go,
     SwapWaits, SwapCloses
<1>12. CASE SwapPanic
  BY <1>12 DEF Safe, OneSignal, StopOrder, AtPeace, Calm, NeverDiesByItself,
     Applying, Timeout, Rounds, Held, Caller, TypeOK, RunTypeOK, HandTypeOK,
     ProcTypeOK, SwapPanic, runVars, dataVars, planVars, recvVars, chanVars,
     stopVars, Panic, SwapWaits
<1>13. CASE Reply
  BY <1>13 DEF Safe, OneSignal, StopOrder, AtPeace, Calm, NeverDiesByItself,
     Applying, Timeout, Rounds, Held, Caller, TypeOK, RunTypeOK, HandTypeOK,
     ProcTypeOK, Reply, dataVars, planVars, recvVars, chanVars, stopVars, Go
<1>14. CASE ReplyPanic
  BY <1>14 DEF Safe, OneSignal, StopOrder, AtPeace, Calm, NeverDiesByItself,
     Applying, Timeout, Rounds, Held, Caller, TypeOK, RunTypeOK, HandTypeOK,
     ProcTypeOK, ReplyPanic, runVars, dataVars, planVars, recvVars, chanVars,
     stopVars, Panic
<1>15. ASSUME NEW i \in NewIntervals \cup {interval}, SwapConf(i) PROVE Safe'
  BY <1>15 DEF Safe, OneSignal, StopOrder, AtPeace, Calm, NeverDiesByItself,
     Applying, Timeout, Rounds, Held, Caller, TypeOK, RunTypeOK, HandTypeOK,
     ProcTypeOK, SwapConf, dataVars, planVars, recvVars, chanVars, stopVars, Go
<1>16. ASSUME NEW c \in Caller, Lock(c) PROVE Safe'
  BY <1>16 DEF Safe, OneSignal, StopOrder, AtPeace, Calm, NeverDiesByItself,
     Applying, Timeout, Rounds, Held, Caller, TypeOK, RunTypeOK, HandTypeOK,
     ProcTypeOK, Lock, dataVars, planVars, recvVars, chanVars, stopVars, Go
<1>17. ASSUME NEW c \in Caller, Unlock(c) PROVE Safe'
  BY <1>17 DEF Safe, OneSignal, StopOrder, AtPeace, Calm, NeverDiesByItself,
     Applying, Timeout, Rounds, Held, Caller, TypeOK, RunTypeOK, HandTypeOK,
     ProcTypeOK, Unlock, dataVars, planVars, recvVars, chanVars, stopVars, Go
<1>18. ASSUME NEW c \in Caller, Skip(c) PROVE Safe'
  BY <1>18 DEF Safe, OneSignal, StopOrder, AtPeace, Calm, NeverDiesByItself,
     Applying, Timeout, Rounds, Held, Caller, TypeOK, RunTypeOK, HandTypeOK,
     ProcTypeOK, Skip, dataVars, planVars, recvVars, chanVars, stopVars, Go
<1>19. ASSUME NEW c \in Caller, Call(c) PROVE Safe'
  BY <1>19 DEF Safe, OneSignal, StopOrder, AtPeace, Calm, NeverDiesByItself,
     Applying, Timeout, Rounds, Held, Caller, TypeOK, RunTypeOK, HandTypeOK,
     ProcTypeOK, Call, dataVars, planVars, recvVars, chanVars, stopVars, Go
<1>20. ASSUME NEW c \in Caller, CallPanic(c) PROVE Safe'
  BY <1>20 DEF Safe, OneSignal, StopOrder, AtPeace, Calm, NeverDiesByItself,
     Applying, Timeout, Rounds, Held, Caller, TypeOK, RunTypeOK, HandTypeOK,
     ProcTypeOK, CallPanic, runVars, dataVars, planVars, recvVars, chanVars,
     stopVars, Panic, Fatal
<1>21. ASSUME NEW c \in Caller, AddField(c) PROVE Safe'
  BY <1>21 DEF Safe, OneSignal, StopOrder, AtPeace, Calm, NeverDiesByItself,
     Applying, Timeout, Rounds, Held, Caller, TypeOK, RunTypeOK, HandTypeOK,
     ProcTypeOK, AddField, dataVars, planVars, recvVars, chanVars, stopVars, Go
<1>22. ASSUME NEW c \in Caller, Collect(c) PROVE Safe'
  BY <1>22 DEF Safe, OneSignal, StopOrder, AtPeace, Calm, NeverDiesByItself,
     Applying, Timeout, Rounds, Held, Caller, TypeOK, RunTypeOK, HandTypeOK,
     ProcTypeOK, Collect, dataVars, planVars, recvVars, chanVars, stopVars, Go,
     End
<1>23. ASSUME NEW c \in Caller, Dispose(c) PROVE Safe'
  BY <1>23 DEF Safe, OneSignal, StopOrder, AtPeace, Calm, NeverDiesByItself,
     Applying, Timeout, Rounds, Held, Caller, TypeOK, RunTypeOK, HandTypeOK,
     ProcTypeOK, Dispose, dataVars, planVars, recvVars, chanVars, stopVars, Go,
     End
<1>24. ASSUME NEW c \in Caller, Converge(c) PROVE Safe'
  BY <1>24 DEF Safe, OneSignal, StopOrder, AtPeace, Calm, NeverDiesByItself,
     Applying, Timeout, Rounds, Held, Caller, TypeOK, RunTypeOK, HandTypeOK,
     ProcTypeOK, Converge, dataVars, planVars, recvVars, chanVars, stopVars,
     Go, End
<1>25. ASSUME NEW c \in Caller, Write(c) PROVE Safe'
  BY <1>25 DEF Safe, OneSignal, StopOrder, AtPeace, Calm, NeverDiesByItself,
     Applying, Timeout, Rounds, Held, Caller, TypeOK, RunTypeOK, HandTypeOK,
     ProcTypeOK, Write, dataVars, planVars, recvVars, chanVars, stopVars, Go,
     End
<1>26. ASSUME NEW c \in Caller, Fail(c) PROVE Safe'
  BY <1>26 DEF Safe, OneSignal, StopOrder, AtPeace, Calm, NeverDiesByItself,
     Applying, Timeout, Rounds, Held, Caller, TypeOK, RunTypeOK, HandTypeOK,
     ProcTypeOK, Fail, dataVars, planVars, recvVars, chanVars, stopVars, Go,
     End
<1>27. ASSUME NEW c \in Caller, ReturnPanic(c) PROVE Safe'
  BY <1>27 DEF Safe, OneSignal, StopOrder, AtPeace, Calm, NeverDiesByItself,
     Applying, Timeout, Rounds, Held, Caller, TypeOK, RunTypeOK, HandTypeOK,
     ProcTypeOK, ReturnPanic, runVars, dataVars, planVars, recvVars, chanVars,
     stopVars, Panic
<1>28. CASE RecvLoad
  BY <1>28 DEF Safe, OneSignal, StopOrder, AtPeace, Calm, NeverDiesByItself,
     Applying, Timeout, Rounds, Held, Caller, TypeOK, RunTypeOK, HandTypeOK,
     ProcTypeOK, RecvLoad, runVars, dataVars, planVars, recvVars, chanVars,
     stopVars
<1>29. CASE RecvLoadPanic
  BY <1>29 DEF Safe, OneSignal, StopOrder, AtPeace, Calm, NeverDiesByItself,
     Applying, Timeout, Rounds, Held, Caller, TypeOK, RunTypeOK, HandTypeOK,
     ProcTypeOK, RecvLoadPanic, runVars, dataVars, planVars, recvVars,
     chanVars, stopVars, Panic
<1>30. CASE RecvSend
  BY <1>30 DEF Safe, OneSignal, StopOrder, AtPeace, Calm, NeverDiesByItself,
     Applying, Timeout, Rounds, Held, Caller, TypeOK, RunTypeOK, HandTypeOK,
     ProcTypeOK, RecvSend, runVars, dataVars, planVars, recvVars, chanVars,
     stopVars
<1>31. CASE RecvSendPanic
  BY <1>31 DEF Safe, OneSignal, StopOrder, AtPeace, Calm, NeverDiesByItself,
     Applying, Timeout, Rounds, Held, Caller, TypeOK, RunTypeOK, HandTypeOK,
     ProcTypeOK, RecvSendPanic, runVars, dataVars, planVars, recvVars,
     chanVars, stopVars, Panic
<1>32. CASE RecvFinish
  BY <1>32 DEF Safe, OneSignal, StopOrder, AtPeace, Calm, NeverDiesByItself,
     Applying, Timeout, Rounds, Held, Caller, TypeOK, RunTypeOK, HandTypeOK,
     ProcTypeOK, RecvFinish, runVars, dataVars, planVars, recvVars, chanVars,
     stopVars
<1>33. CASE RecvDone
  BY <1>33 DEF Safe, OneSignal, StopOrder, AtPeace, Calm, NeverDiesByItself,
     Applying, Timeout, Rounds, Held, Caller, TypeOK, RunTypeOK, HandTypeOK,
     ProcTypeOK, RecvDone, runVars, dataVars, planVars, recvVars, chanVars,
     stopVars
<1>34. ASSUME NEW S \in NewPlugins, RecvBatch(S) PROVE Safe'
  BY <1>34 DEF Safe, OneSignal, StopOrder, AtPeace, Calm, NeverDiesByItself,
     Applying, Timeout, Rounds, Held, Caller, TypeOK, RunTypeOK, HandTypeOK,
     ProcTypeOK, RecvBatch, runVars, dataVars, planVars, recvVars, chanVars,
     stopVars
<1>35. CASE Cancel
  BY <1>35 DEF Safe, OneSignal, StopOrder, AtPeace, Calm, NeverDiesByItself,
     Applying, Timeout, Rounds, Held, Caller, TypeOK, RunTypeOK, HandTypeOK,
     ProcTypeOK, Cancel, runVars, dataVars, planVars, recvVars, chanVars,
     stopVars, Idle
<1>36. ASSUME NEW i \in DOMAIN Order, RemoveRunning(i) PROVE Safe'
  BY <1>36 DEF Safe, OneSignal, StopOrder, AtPeace, Calm, NeverDiesByItself,
     Applying, Timeout, Rounds, Held, Caller, TypeOK, RunTypeOK, HandTypeOK,
     ProcTypeOK, RemoveRunning, runVars, dataVars, planVars, recvVars,
     chanVars, stopVars
<1>37. CASE RemoveUpdate
  BY <1>37 DEF Safe, OneSignal, StopOrder, AtPeace, Calm, NeverDiesByItself,
     Applying, Timeout, Rounds, Held, Caller, TypeOK, RunTypeOK, HandTypeOK,
     ProcTypeOK, RemoveUpdate, runVars, dataVars, planVars, recvVars, chanVars,
     stopVars
<1>38. CASE CloseReady
  BY <1>38 DEF Safe, OneSignal, StopOrder, AtPeace, Calm, NeverDiesByItself,
     Applying, Timeout, Rounds, Held, Caller, TypeOK, RunTypeOK, HandTypeOK,
     ProcTypeOK, CloseReady, runVars, dataVars, planVars, recvVars, chanVars,
     stopVars
<1>39. CASE CloseFinish
  BY <1>39 DEF Safe, OneSignal, StopOrder, AtPeace, Calm, NeverDiesByItself,
     Applying, Timeout, Rounds, Held, Caller, TypeOK, RunTypeOK, HandTypeOK,
     ProcTypeOK, CloseFinish, runVars, dataVars, planVars, recvVars, chanVars,
     stopVars
<1>40. CASE CloseTicker
  BY <1>40 DEF Safe, OneSignal, StopOrder, AtPeace, Calm, NeverDiesByItself,
     Applying, Timeout, Rounds, Held, Caller, TypeOK, RunTypeOK, HandTypeOK,
     ProcTypeOK, CloseTicker, runVars, dataVars, planVars, recvVars, chanVars,
     stopVars
<1>41. CASE Quit
  BY <1>41 DEF Safe, OneSignal, StopOrder, AtPeace, Calm, NeverDiesByItself,
     Applying, Timeout, Rounds, Held, Caller, TypeOK, RunTypeOK, HandTypeOK,
     ProcTypeOK, Quit, runVars, dataVars, planVars, recvVars, chanVars,
     stopVars
<1>42. CASE UNCHANGED vars
  BY <1>42 DEF Safe, OneSignal, StopOrder, AtPeace, Calm, NeverDiesByItself,
     Applying, Timeout, vars, runVars, recvVars, chanVars, stopVars, dataVars,
     planVars
<1> QED
  BY <1>1, <1>2, <1>3, <1>4, <1>5, <1>6, <1>7, <1>8, <1>9, <1>10, <1>11, <1>12, <1>13, <1>14, <1>15, <1>16, <1>17, <1>18, <1>19, <1>20, <1>21, <1>22, <1>23, <1>24, <1>25, <1>26, <1>27, <1>28, <1>29, <1>30, <1>31, <1>32, <1>33, <1>34, <1>35, <1>36, <1>37, <1>38, <1>39, <1>40, <1>41, <1>42
  DEF Next, Time, Execute, Run, Receive, Stop, Caller

-----------------------------------------------------------------------------
(* Initially the invariant holds. *)
THEOREM InitIInv == Init => IInv
<1> SUFFICES ASSUME Init PROVE IInv
  OBVIOUS
<1>1. Interval \in Nat /\ Interval > 0 /\ MaxBatches \in Nat
  BY ExecutorAssumption
<1>2. ClockTypeOK /\ HandTypeOK /\ ProcTypeOK
  <2>1. ClockTypeOK
    <3>1. now \in Int /\ now >= Interval
      BY <1>1 DEF Init
    <3>2. now \in Nat
      BY <1>1, <3>1
    <3>3. pend \in BOOLEAN
      BY DEF Init
    <3>4. next \in Nat /\ mark \in Int
      BY DEF Init
    <3> QED
      BY <3>2, <3>3, <3>4 DEF ClockTypeOK
  <2>2. HandTypeOK
    BY <1>1 DEF Init, HandTypeOK
  <2>3. ProcTypeOK
    BY DEF Init, ProcTypeOK, Stopping
  <2> QED
    BY <2>1, <2>2, <2>3
<1>3. RunTypeOK
  BY DEF Init, RunTypeOK, Executing, Collecting, Caller
<1>4. DataTypeOK
  <2>1. Lost \in Book
    BY DEF Lost, Book
  <2>2. [Lost EXCEPT !.lost = FALSE] \in Book
    BY <2>1 DEF Book
  <2>3. book \in [Consumer -> Book]
    BY <2>1, <2>2 DEF Init
  <2>4. trigger \in [Plugin -> Nat \ {0}]
    BY <1>1, TriggerType DEF Init
  <2>5. count \in [Plugin -> Nat]
    BY DEF Init
  <2>6. low \in Int /\ interval \in Nat /\ begun \in Nat
    BY <1>1 DEF Init
  <2> QED
    BY <2>3, <2>4, <2>5, <2>6 DEF DataTypeOK
<1>5. InPlace /\ Rounds
  BY DEF Init, InPlace, Rounds, Held, FirstOnce, Caller
<1>6. pc["exec"] = "adjust"
  BY DEF Init, Caller
<1>7. Safe
  BY <1>6 DEF Init, Safe, OneSignal, StopOrder, AtPeace, Calm, NeverDiesByItself, Applying
<1> QED
  BY <1>2, <1>3, <1>4, <1>5, <1>7 DEF IInv, Typed, TypeOK

(* The invariant is inductive. *)
THEOREM Invariance == Spec => []IInv
<1>1. IInv /\ [Next]_vars => IInv'
  BY StepType, StepInPlace, StepRounds, StepSafe DEF IInv, Typed
<1> QED
  BY InitIInv, <1>1, PTL DEF Spec

(* Every variable keeps its type: a trigger is never 0, whatever interval   *)
(* and plugins a configuration brings (parseConfig).                       *)
THEOREM TypeCorrect == Spec => []TypeOK
<1>1. IInv => TypeOK
  BY DEF IInv, Typed
<1> QED
  BY Invariance, <1>1, PTL

(* LuaPluginManager.Lock: Execute and firstCollect are never in a round    *)
(* together, and the swap waits for both.                                  *)
THEOREM RoundsExclude == Spec => []Held
<1>1. IInv => Held
  BY DEF IInv, Rounds
<1> QED
  BY Invariance, <1>1, PTL

(* Before a stop the executor brings the process down only with an         *)
(* interval shorter than there are plugin categories.                      *)
THEOREM NeverDies == Spec => []NeverDiesByItself
<1>1. IInv => NeverDiesByItself
  BY DEF IInv, Safe
<1> QED
  BY Invariance, <1>1, PTL

(* A calm stop is clean, though nothing waits for Execute. *)
THEOREM CalmStop == Spec => []CalmStopIsClean
<1>1. IInv => CalmStopIsClean
  BY DEF IInv, Safe, Calm, CalmStopIsClean
<1> QED
  BY Invariance, <1>1, PTL

-----------------------------------------------------------------------------
(* Lemmas on whole intervals *)

(* A positive factor may be cancelled. *)
LEMMA Cancellation ==
  ASSUME NEW i \in Nat, i > 0, NEW x \in Int, NEW y \in Int, i * x < i * y
  PROVE  x < y
<1>1. CASE x < y
  BY <1>1
<1>2. CASE x >= y
  <2>1. PICK d \in Nat : x = y + d
    BY <1>2
  <2>2. i * x = i * y + i * d
    BY <2>1
  <2>3. i * d \in Nat
    BY <2>1
  <2> QED
    BY <2>2, <2>3
<1> QED
  BY <1>1, <1>2

(* Truncate gives the whole multiple of the interval at or before t. *)
LEMMA TruncateMultiple ==
  ASSUME NEW i \in Nat, i > 0, NEW t \in Nat
  PROVE  /\ Truncate(t, i) = i * (t \div i) /\ t \div i \in Int
         /\ Truncate(t, i) <= t /\ t < Truncate(t, i) + i
<1>1. t % i \in 0..(i - 1) /\ t = i * (t \div i) + (t % i) /\ t \div i \in Int
  OBVIOUS
<1> QED
  BY <1>1 DEF Truncate

(* There is only one such multiple. *)
LEMMA MultipleBelow ==
  ASSUME NEW i \in Nat, i > 0, NEW t \in Nat, NEW k \in Int, i * k <= t, t < i * k + i
  PROVE  Truncate(t, i) = i * k
<1> DEFINE m == t \div i
<1>1. m \in Int /\ Truncate(t, i) = i * m /\ i * m <= t /\ t < i * m + i
  BY TruncateMultiple
<1> HIDE DEF m
<1>2. i * (m + 1) = i * m + i /\ i * (k + 1) = i * k + i
  BY <1>1
<1>3. m < k + 1 /\ k < m + 1
  BY <1>1, <1>2, Cancellation
<1>4. m = k
  BY <1>1, <1>3
<1> QED
  BY <1>1, <1>4

(* The whole intervals: one begins where the other ends. *)
LEMMA TruncateNext ==
  ASSUME NEW i \in Nat, i > 0, NEW t \in Nat
  PROVE  Truncate(t + i, i) = Truncate(t, i) + i
<1> DEFINE m == t \div i
<1>1. m \in Int /\ Truncate(t, i) = i * m /\ i * m <= t /\ t < i * m + i
  BY TruncateMultiple
<1> HIDE DEF m
<1>2. i * (m + 1) = i * m + i /\ m + 1 \in Int /\ t + i \in Nat /\ i * m \in Int
  BY <1>1
<1>3. i * (m + 1) <= t + i /\ t + i < i * (m + 1) + i
  BY <1>1, <1>2
<1>4. Truncate(t + i, i) = i * (m + 1)
  BY <1>2, <1>3, MultipleBelow
<1> QED
  BY <1>1, <1>2, <1>4

(* A second less than an interval before another is in the same interval   *)
(* or in the one before it.                                                *)
LEMMA TruncateNear ==
  ASSUME NEW i \in Nat, i > 0, NEW t \in Nat, NEW u \in Nat, u - i <= t, t <= u
  PROVE  Truncate(t, i) \in {Truncate(u, i) - i, Truncate(u, i)}
<1> DEFINE a == t \div i
           b == u \div i
<1>1. a \in Int /\ Truncate(t, i) = i * a /\ i * a <= t /\ t < i * a + i
  BY TruncateMultiple
<1>2. b \in Int /\ Truncate(u, i) = i * b /\ i * b <= u /\ u < i * b + i
  BY TruncateMultiple
<1> HIDE DEF a, b
<1>3. /\ i * (a + 1) = i * a + i /\ i * (a + 2) = i * a + i + i
      /\ i * (b + 1) = i * b + i /\ i * (b - 1) = i * b - i
      /\ i * a \in Int /\ i * b \in Int
  BY <1>1, <1>2
<1>4. i * a < i * (b + 1) /\ i * b < i * (a + 2)
  BY <1>1, <1>2, <1>3
<1>5. a < b + 1
  BY <1>1, <1>2, <1>4, Cancellation
<1>6. b < a + 2
  BY <1>1, <1>2, <1>4, Cancellation
<1>7. a = b \/ a = b - 1
  BY <1>1, <1>2, <1>5, <1>6
<1> QED
  BY <1>1, <1>2, <1>3, <1>7

-----------------------------------------------------------------------------
(* What a consumer still has to read *)

(* The start of the interval of the tick that Execute takes next: the one  *)
(* that waits in the channel, or the next to be fired.                     *)
Base == Truncate(next, Interval) - (IF pend THEN Interval ELSE 0)

Waiting == {"adjust", "adjust2", "wait", "start"}
InCall  == {"call", "stored"}
InRound == {"round", "call", "stored"}

Promised(q) == ~book[q].lost

(* The consumer's turn in the round is still to come or under way, *)
Ahead(q) ==
  pc["exec"] = "lock" \/ (pc["exec"] \in InRound /\ ~Behind(q))

(* it runs when it comes, *)
Turn(q) == Due(q) \/ (pc["exec"] \in InCall /\ At("exec") = q)

(* and it has not been through its first round. *)
Young(q) == begun = 0 \/ (begun = Base - Interval /\ Ahead(q))

(* A round moves the edge of a consumer by an interval, when its turn is   *)
(* over.  What it has not read begins at the edge, or an interval before   *)
(* it when it must be read in its next turn; seconds before the first      *)
(* tick's interval are no concern of those that run every second round.    *)
Edge(q)      == IF Ahead(q) THEN Base - Interval ELSE Base
Slack(q, f)  == IF ~f /\ Turn(q) THEN Interval ELSE 0
Exempt(q, v) == trigger[q] > 1 /\ (begun = 0 \/ v < begun)

Kept(q) == Promised(q) =>
  /\ trigger[q] = TriggerInterval(q, Interval) /\ trigger[q] <= 2
  /\ trigger[q] > 1 \/ Young(q) => ~book[q].firm
  /\ Ahead(q) /\ ~book[q].firm => low = Base - 2 * Interval
  /\ next = 0 => book[q].unread = {} /\ book[q].from = 0
  /\ next # 0 => book[q].from <= Edge(q) - Interval
  /\ \A v \in book[q].unread :
       v >= Edge(q) - Slack(q, book[q].firm) \/ Exempt(q, v)

(* The clock is never more than an interval before the next tick. *)
Clocked == (stop = "no") =>
  \/ /\ next = 0 /\ ~pend
     /\ pc["exec"] \in Waiting /\ pc["first"] = "idle"
  \/ /\ next # 0 /\ next - Interval <= now /\ now <= next /\ Base >= 2 * Interval
     /\ pc["exec"] \notin Waiting /\ pc["first"] # "idle"

(* As long as anything is promised: the interval is that of the ticker; a  *)
(* round's range begins one or two intervals before the next tick's, and   *)
(* nothing is stored in it that is older than its tick; firstCollect is    *)
(* through before the first round.                                         *)
Course == (\E q \in Consumer : Promised(q)) =>
  /\ stop = "no" /\ interval = Interval
  /\ IF next = 0 THEN begun = 0 ELSE begun <= Base - Interval
  /\ pc["first"] \in {"idle", "spawned", "lock"} => begun = 0
  /\ pc["first"] \in InRound =>
       begun = 0 \/ (pc["exec"] = "lock" /\ begun = Base - Interval)
  /\ pc["first"] \in InCall =>
       called >= Base - (IF pc["exec"] = "lock" THEN 2 * Interval ELSE Interval)
  /\ pc["exec"] \in InRound \cup {"lock"} =>
       /\ begun # 0 /\ now >= low + Interval
       /\ low = Base - 2 * Interval \/ low = Base - Interval
  /\ pc["exec"] \in InCall => called >= low + Interval

(* A plugin that is called counts from zero. *)
Counted == pc["exec"] \in InCall => count[At("exec")] = 0

(* All that run every second round run in the same rounds. *)
RoundTurn(q) ==
  IF pc["exec"] \in InRound /\ Behind(q) THEN ~Due(q) ELSE Turn(q)

InPhase == \A p, q \in Consumer :
  Promised(p) /\ Promised(q) /\ trigger[p] > 1 /\ trigger[q] > 1 =>
    (RoundTurn(p) <=> RoundTurn(q))

(* A processor that has slipped has no readers left to be late for. *)
Slipped == \A p \in Consumer :
  /\ Promised(p) /\ ~book[p].firm /\ trigger[p] = 1 /\ Cat[p] = "processor"
  => Young(p) \/ \A q \in Feeds[p] : ~Promised(q)

Reads == Clocked /\ Course /\ Counted /\ InPhase /\ Slipped /\ \A q \in Consumer : Kept(q)

-----------------------------------------------------------------------------
(* Lemmas on the promises *)

(* The numbers the promises are about. *)
LEMMA Numbers ==
  ASSUME TypeOK
  PROVE  /\ now \in Nat /\ next \in Nat /\ low \in Int /\ begun \in Nat /\ called \in Nat
         /\ Interval \in Nat /\ Interval > 0 /\ Base \in Int /\ pend \in BOOLEAN
         /\ \A q \in Consumer :
              /\ q \in Plugin /\ Cat[q] # "input"
              /\ trigger[q] \in Nat \ {0} /\ count[q] \in Nat
              /\ book[q].unread \in SUBSET Nat /\ book[q].from \in Int
              /\ book[q].firm \in BOOLEAN /\ book[q].lost \in BOOLEAN
<1>1. Interval \in Nat /\ Interval > 0
  BY ExecutorAssumption
<1>2. ClockTypeOK /\ RunTypeOK /\ DataTypeOK
  BY DEF TypeOK
<1>3. now \in Nat /\ next \in Nat /\ pend \in BOOLEAN /\ called \in Nat
  BY <1>2 DEF ClockTypeOK, RunTypeOK
<1>4. Truncate(next, Interval) \in Nat
  BY <1>1, <1>3, TruncateType
<1>5. Base \in Int
  BY <1>1, <1>4 DEF Base
<1>6. ASSUME NEW q \in Consumer
      PROVE  /\ q \in Plugin /\ Cat[q] # "input"
             /\ trigger[q] \in Nat \ {0} /\ count[q] \in Nat
             /\ book[q].unread \in SUBSET Nat /\ book[q].from \in Int
             /\ book[q].firm \in BOOLEAN /\ book[q].lost \in BOOLEAN
  <2>1. q \in Plugin /\ Cat[q] # "input"
    BY DEF Consumer
  <2>2. book[q] \in Book
    BY <1>2 DEF DataTypeOK
  <2> QED
    BY <1>2, <2>1, <2>2 DEF DataTypeOK, Book
<1> QED
  BY <1>1, <1>2, <1>3, <1>5, <1>6 DEF DataTypeOK

(* Nothing of what a promise refers to has changed for q. *)
Same(q) ==
  /\ Base' = Base /\ begun' = begun /\ low' = low /\ trigger'[q] = trigger[q]
  /\ (next' = 0) <=> (next = 0)
  /\ Ahead(q)' <=> Ahead(q)
  /\ Turn(q)' <=> Turn(q)

(* Then what is promised to q stays promised, or is lost. *)
LEMMA KeptSame ==
  ASSUME NEW q \in Consumer, Kept(q), Same(q), book'[q] = book[q] \/ book'[q].lost
  PROVE  Kept(q)'
<1>1. CASE book'[q].lost
  BY <1>1 DEF Kept, Promised
<1>2. CASE book'[q] = book[q]
  BY <1>2 DEF Kept, Same, Promised, Young, Edge, Slack, Exempt
<1> QED
  BY <1>1, <1>2

(* New values, none of them older than the consumer can still read. *)
LEMMA KeptAdd ==
  ASSUME TypeOK, NEW q \in Consumer, Kept(q), Same(q), Promised(q), next # 0,
         NEW S \in SUBSET Nat,
         book'[q].unread = book[q].unread \cup S, book'[q].from = book[q].from,
         book'[q].firm => book[q].firm,
         ~book'[q].firm /\ Ahead(q) => low = Base - 2 * Interval,
         \A v \in S :
           v >= Edge(q) - (IF ~book'[q].firm /\ Turn(q) THEN Interval ELSE 0) \/ Exempt(q, v)
  PROVE  Kept(q)'
<1>1. /\ Interval \in Nat /\ Interval > 0 /\ Base \in Int
      /\ book[q].unread \in SUBSET Nat
  BY Numbers
<1>2. Edge(q) \in Int /\ Edge(q)' = Edge(q)
  BY <1>1 DEF Edge, Same
<1>3. Slack(q, book[q].firm)' = IF ~book'[q].firm /\ Turn(q) THEN Interval ELSE 0
  BY DEF Slack, Same
<1>4. ASSUME NEW v \in book'[q].unread
      PROVE  v >= Edge(q)' - Slack(q, book[q].firm)' \/ Exempt(q, v)'
  <2>1. Exempt(q, v)' <=> Exempt(q, v)
    BY DEF Exempt, Same
  <2>2. CASE v \in S
    BY <1>2, <1>3, <2>1, <2>2
  <2>3. CASE v \in book[q].unread
    <3>1. v >= Edge(q) - Slack(q, book[q].firm) \/ Exempt(q, v)
      BY <2>3 DEF Kept
    <3>2. /\ Slack(q, book[q].firm) \in {0, Interval} /\ Slack(q, book[q].firm)' \in {0, Interval}
          /\ Slack(q, book[q].firm) = Interval => Slack(q, book[q].firm)' = Interval
      BY <1>1, <1>3 DEF Slack
    <3> QED
      BY <1>1, <1>2, <2>1, <2>3, <3>1, <3>2
  <2> QED
    BY <1>4, <2>2, <2>3
<1>5. /\ trigger'[q] = TriggerInterval(q, Interval) /\ trigger'[q] <= 2
      /\ trigger'[q] > 1 \/ Young(q)' => ~book'[q].firm
      /\ Ahead(q)' /\ ~book'[q].firm => low' = Base' - 2 * Interval
      /\ next' # 0 /\ book'[q].from <= Edge(q)' - Interval
  BY <1>2 DEF Kept, Same, Young
<1> QED
  BY <1>4, <1>5 DEF Kept

(* What a consumer's turn refers to. *)
Turning(q) ==
  /\ Base' = Base /\ begun' = begun /\ low' = low /\ trigger'[q] = trigger[q]
  /\ (next' = 0) <=> (next = 0)
  /\ Ahead(q) /\ ~Ahead(q)'

InBounds ==
  /\ next # 0 /\ begun # 0 /\ interval = Interval
  /\ low = Base - 2 * Interval \/ low = Base - Interval

(* The turn is over; all that is left of the range is not in it. *)
LEMMA KeptRead ==
  ASSUME TypeOK, NEW q \in Consumer, Kept(q), Turning(q), Turn(q),
         Promised(q) => InBounds, Turn(q)' => trigger[q] = 1, book'[q] = Read(q)
  PROVE  Kept(q)'
<1>1. CASE book[q].lost
  BY <1>1 DEF Kept, Promised, Read, Lost
<1>2. CASE ~book[q].lost
  <2>1. /\ book'[q].unread = book[q].unread \ InRange(book[q].unread)
        /\ book'[q].from = low /\ book'[q].firm = (book[q].firm \/ trigger[q] = 1)
    BY <1>2 DEF Read
  <2>2. /\ Interval \in Nat /\ Interval > 0 /\ Base \in Int /\ low \in Int
        /\ book[q].unread \in SUBSET Nat /\ begun \in Nat
        /\ trigger[q] \in Nat \ {0}
    BY Numbers
  <2>3. InBounds /\ Edge(q) = Base - Interval /\ Edge(q)' = Base
    BY <1>2 DEF Promised, Turning, Edge
  <2>4. ASSUME NEW v \in book'[q].unread PROVE v >= Base \/ Exempt(q, v)
    <3>1. v \in book[q].unread /\ v \in Int /\ (v < low \/ v >= low + 2 * Interval)
      BY <2>1, <2>2, <2>3 DEF InRange, InBounds
    <3>2. v >= Base - Interval - Slack(q, book[q].firm) \/ Exempt(q, v)
      BY <1>2, <2>3, <3>1 DEF Kept, Promised
    <3>3. ~book[q].firm => low = Base - 2 * Interval
      BY <1>2 DEF Kept, Promised, Turning
    <3>4. v >= low \/ Exempt(q, v)
      BY <2>2, <2>3, <3>1, <3>2, <3>3 DEF Slack, InBounds
    <3> QED
      BY <2>2, <2>3, <3>1, <3>4 DEF InBounds
  <2>5. Slack(q, book[q].firm)' = 0
    <3>1. trigger[q] = 1 \/ ~Turn(q)'
      OBVIOUS
    <3> QED
      BY <2>1, <3>1 DEF Slack
  <2>6. \A v \in book'[q].unread :
          v >= Edge(q)' - Slack(q, book[q].firm)' \/ Exempt(q, v)'
    BY <2>2, <2>3, <2>4, <2>5 DEF Exempt, Turning
  <2>7. /\ trigger'[q] = TriggerInterval(q, Interval) /\ trigger'[q] <= 2
        /\ trigger'[q] > 1 => ~book'[q].firm
    <3>1. /\ trigger[q] = TriggerInterval(q, Interval) /\ trigger[q] <= 2
          /\ trigger[q] > 1 => ~book[q].firm
      BY <1>2 DEF Kept, Promised
    <3>2. trigger[q] > 1 /\ ~book[q].firm => ~book'[q].firm
      <4>1. trigger[q] > 1 => ~(trigger[q] = 1)
        BY <2>2
      <4> QED
        BY <2>1, <4>1, Zenon
    <3> QED
      BY <3>1, <3>2 DEF Turning
  <2>8. ~Young(q)' /\ ~Ahead(q)' /\ next' # 0 /\ book'[q].from <= Edge(q)' - Interval
    BY <2>1, <2>2, <2>3 DEF Young, Turning, InBounds
  <2> QED
    BY <2>6, <2>7, <2>8 DEF Kept
<1> QED
  BY <1>1, <1>2

(* One that is firm has an interval to spare. *)
LEMMA KeptFail ==
  ASSUME TypeOK, NEW q \in Consumer, Kept(q), Turning(q), Promised(q) => InBounds,
         trigger[q] = 1 => Turn(q)',
         book'[q] = IF book[q].firm
                      THEN [book[q] EXCEPT !.from = low, !.firm = FALSE] ELSE Lost
  PROVE  Kept(q)'
<1>1. CASE book[q].lost
  <2>1. book'[q].lost
    <3>1. book[q] \in Book
      BY DEF TypeOK, DataTypeOK
    <3> QED
      BY <1>1, <3>1 DEF Book, Lost
  <2> QED
    BY <2>1 DEF Kept, Promised
<1>2. CASE ~book[q].firm
  BY <1>2 DEF Kept, Promised, Lost
<1>3. CASE ~book[q].lost /\ book[q].firm
  <2>1. /\ book'[q].unread = book[q].unread /\ book'[q].from = low
        /\ ~book'[q].firm
    <3>1. book[q] \in Book
      BY DEF TypeOK, DataTypeOK
    <3> QED
      BY <1>3, <3>1 DEF Book
  <2>2. /\ Interval \in Nat /\ Interval > 0 /\ Base \in Int /\ low \in Int
        /\ book[q].unread \in SUBSET Nat /\ begun \in Nat
        /\ trigger[q] \in Nat \ {0}
    BY Numbers
  <2>3. InBounds /\ Edge(q) = Base - Interval /\ Edge(q)' = Base
    BY <1>3 DEF Promised, Turning, Edge
  <2>4. /\ trigger[q] = TriggerInterval(q, Interval) /\ trigger[q] = 1
    <3>1. /\ trigger[q] = TriggerInterval(q, Interval)
          /\ trigger[q] > 1 => ~book[q].firm
      BY <1>3 DEF Kept, Promised
    <3> QED
      BY <1>3, <2>2, <3>1
  <2>5. \A v \in book[q].unread : v >= Base - Interval
    BY <1>3, <2>2, <2>3, <2>4 DEF Kept, Promised, Slack, Exempt
  <2>6. \A v \in book'[q].unread : v >= Edge(q)' - Slack(q, book[q].firm)'
    <3>1. Slack(q, book[q].firm)' = Interval
      BY <2>1, <2>4 DEF Slack
    <3>2. ASSUME NEW v \in book'[q].unread PROVE v >= Base - Interval /\ v \in Int
      BY <2>1, <2>2, <2>5
    <3> QED
      BY <2>2, <2>3, <3>1, <3>2
  <2>7. next' # 0 /\ book'[q].from <= Edge(q)' - Interval
    BY <2>1, <2>2, <2>3 DEF Turning, InBounds
  <2>8. trigger'[q] = TriggerInterval(q, Interval) /\ trigger'[q] <= 2 /\ ~Ahead(q)'
    BY <2>4 DEF Turning
  <2> QED
    BY <2>1, <2>6, <2>7, <2>8 DEF Kept
<1> QED
  BY <1>1, <1>2, <1>3

(* A plugin that is not due this time is due the next. *)
LEMMA KeptSkip ==
  ASSUME TypeOK, NEW q \in Consumer, Kept(q), Turning(q), Promised(q) => InBounds,
         ~Turn(q), book'[q] = book[q], Promised(q) => Turn(q)' /\ trigger[q] > 1
  PROVE  Kept(q)'
<1>1. CASE book[q].lost
  BY <1>1 DEF Kept, Promised
<1>2. CASE ~book[q].lost
  <2>1. /\ Interval \in Nat /\ Interval > 0 /\ Base \in Int /\ low \in Int
        /\ book[q].unread \in SUBSET Nat /\ book[q].from \in Int
    BY Numbers
  <2>2. InBounds /\ Edge(q) = Base - Interval /\ Edge(q)' = Base
    BY <1>2 DEF Promised, Turning, Edge
  <2>3. ~book[q].firm
    BY <1>2 DEF Kept, Promised
  <2>4. Slack(q, book[q].firm) = 0 /\ Slack(q, book[q].firm)' = Interval
    BY <1>2, <2>3 DEF Slack, Promised
  <2>5. \A v \in book[q].unread :
          v >= Edge(q)' - Slack(q, book[q].firm)' \/ Exempt(q, v)'
    BY <1>2, <2>1, <2>2, <2>4 DEF Kept, Promised, Exempt, Turning
  <2>6. next' # 0 /\ book[q].from <= Edge(q)' - Interval
    BY <1>2, <2>1, <2>2 DEF Kept, Promised, Turning, InBounds
  <2> QED
    BY <1>2, <2>3, <2>5, <2>6 DEF Kept, Promised, Turning
<1> QED
  BY <1>1, <1>2

(* The order of the plugins. *)
LEMMA AtAhead ==
  ASSUME TypeOK, pc["exec"] \in InRound, pos["exec"] <= Len(Order)
  PROVE  At("exec") \in Plugin /\ ~Behind(At("exec")) /\ Ahead(At("exec"))
<1>1. Len(Order) \in Nat /\ DOMAIN Order = 1..Len(Order)
  BY ExecutorAssumption
<1>2. pos["exec"] \in Nat \ {0} /\ pos["exec"] \in DOMAIN Order
  BY <1>1 DEF TypeOK, RunTypeOK, Caller
<1>3. At("exec") \in Plugin
  BY <1>2, ExecutorAssumption DEF At
<1>4. ~Behind(At("exec"))
  <2>1. ASSUME NEW i \in 1..(pos["exec"] - 1), Order[i] = Order[pos["exec"]] PROVE FALSE
    <3>1. i \in DOMAIN Order /\ i # pos["exec"]
      BY <1>1, <1>2
    <3> QED
      BY <1>2, <2>1, <3>1, ExecutorAssumption
  <2> QED
    BY <2>1 DEF Behind, At
<1> QED
  BY <1>3, <1>4 DEF Ahead

(* When the round moves on, the plugin that has run is behind it. *)
LEMMA Advance ==
  ASSUME TypeOK, pc["exec"] \in InRound, pc'["exec"] \in InRound,
         pos'["exec"] = pos["exec"] + 1, NEW q
  PROVE  Behind(q)' <=> (Behind(q) \/ q = At("exec"))
<1>1. pos["exec"] \in Nat \ {0}
  BY DEF TypeOK, RunTypeOK, Caller
<1>2. 1..(pos'["exec"] - 1) = (1..(pos["exec"] - 1)) \cup {pos["exec"]}
  BY <1>1
<1> QED
  BY <1>2 DEF Behind, At, InRound

(* When the round is over every plugin has had its turn, *)
LEMMA RoundOver ==
  ASSUME TypeOK, pc["exec"] \in InRound, pos["exec"] > Len(Order), NEW q \in Plugin
  PROVE  Behind(q)
<1>1. Len(Order) \in Nat /\ DOMAIN Order = 1..Len(Order)
  BY ExecutorAssumption
<1>2. PICK i \in DOMAIN Order : Order[i] = q
  BY ExecutorAssumption
<1>3. i \in 1..(pos["exec"] - 1)
  BY <1>1 DEF TypeOK, RunTypeOK, Caller
<1> QED
  BY <1>2, <1>3 DEF Behind, InRound

(* and firstCollect only runs the inputs. *)
LEMMA AtFirst ==
  ASSUME TypeOK, pos["first"] <= Length("first")
  PROVE  At("first") \in Plugin /\ Cat[At("first")] = "input"
<1>1. Len(Order) \in Nat /\ DOMAIN Order = 1..Len(Order) /\ Order \in [1..Len(Order) -> Plugin]
  BY ExecutorAssumption
<1>2. pos["first"] \in DOMAIN Order /\ pos["first"] <= Inputs
  BY <1>1, InputsType DEF TypeOK, RunTypeOK, Caller, Length
<1> QED
  BY <1>1, <1>2, ExecutorAssumption DEF At

(* What is left alone keeps the phases, *)
LEMMA PhaseSame ==
  ASSUME InPhase,
         \A q \in Consumer : Promised(q)' =>
           /\ Promised(q) /\ trigger'[q] = trigger[q]
           /\ trigger[q] > 1 => (RoundTurn(q)' <=> RoundTurn(q))
  PROVE  InPhase'
BY DEF InPhase

(* the processors, *)
LEMMA SlippedSame ==
  ASSUME Slipped,
         \A p \in Consumer : Promised(p)' =>
           /\ Promised(p) /\ trigger'[p] = trigger[p]
           /\ Cat[p] = "processor" /\ trigger[p] = 1 =>
                \/ book'[p].firm
                \/ book'[p].firm = book[p].firm /\ (Young(p) => Young(p)')
                \/ \A q \in Feeds[p] : ~Promised(q)'
  PROVE  Slipped'
<1>1. ASSUME NEW p \in Consumer, Promised(p)', ~book'[p].firm, trigger'[p] = 1,
             Cat[p] = "processor", ~Young(p)', NEW q \in Feeds[p], Promised(q)'
      PROVE  FALSE
  <2>1. q \in Consumer /\ p \in Consumer
    BY <1>1, ExecutorAssumption DEF Consumer
  <2>2. ~Promised(q)
    BY <1>1, <2>1 DEF Slipped
  <2> QED
    BY <1>1, <2>1, <2>2
<1> QED
  BY <1>1 DEF Slipped

(* and all three. *)
LEMMA ReadsSame ==
  ASSUME Reads,
         \A q \in Consumer : Promised(q)' =>
           Same(q) /\ (RoundTurn(q)' <=> RoundTurn(q)) /\ book'[q] = book[q]
  PROVE  /\ \A q \in Consumer : Kept(q)' /\ (Promised(q)' => Promised(q))
         /\ InPhase' /\ Slipped'
<1>1. ASSUME NEW q \in Consumer, Promised(q)'
      PROVE  /\ Promised(q) /\ book'[q] = book[q]
             /\ Young(q)' <=> Young(q)
             /\ trigger'[q] = trigger[q]
  BY <1>1 DEF Promised, Same, Young
<1>2. ASSUME NEW q \in Consumer PROVE Kept(q)'
  <2>1. CASE Promised(q)'
    BY <2>1, KeptSame DEF Reads
  <2>2. CASE ~Promised(q)'
    BY <2>2 DEF Kept
  <2> QED
    BY <2>1, <2>2
<1>3. InPhase'
  BY <1>1, PhaseSame DEF Reads
<1>4. Slipped'
  BY <1>1, SlippedSame DEF Reads
<1> QED
  BY <1>1, <1>2, <1>3, <1>4

(* Outside the rounds it does not matter where Execute is. *)
Resting == {"select", "swap", "swapConf", "reply", "done"}

Elsewhere ==
  \/ pc'["exec"] = pc["exec"]
  \/ pc["exec"] \in Waiting /\ pc'["exec"] \in Waiting
  \/ pc["exec"] \in Resting /\ pc'["exec"] \in Resting

(* A step that leaves the round and the counts alone leaves the turns.     *)
LEMMA TurnsSame ==
  ASSUME TypeOK, Elsewhere, next # 0 \/ next' = next, pos'["exec"] = pos["exec"],
         next' # 0 \/ next' = next, Base' = Base,
         UNCHANGED <<low, begun>>, NEW q \in Consumer,
         trigger'[q] = trigger[q], count'[q] = count[q]
  PROVE  Same(q) /\ (RoundTurn(q)' <=> RoundTurn(q))
<1>1. /\ pc'["exec"] \in InRound <=> pc["exec"] \in InRound
      /\ pc'["exec"] \in InCall <=> pc["exec"] \in InCall
      /\ pc'["exec"] = "lock" <=> pc["exec"] = "lock"
  BY DEF Elsewhere, InRound, InCall, Waiting, Resting
<1>2. Behind(q)' <=> Behind(q)
  BY <1>1 DEF Behind, InRound
<1>3. At("exec")' = At("exec") /\ (Due(q)' <=> Due(q))
  BY DEF At, Due
<1>4. (Ahead(q)' <=> Ahead(q)) /\ (Turn(q)' <=> Turn(q))
  BY <1>1, <1>2, <1>3 DEF Ahead, Turn
<1> QED
  BY <1>1, <1>2, <1>3, <1>4 DEF Same, RoundTurn

(* A step that leaves the clock, the round and the books alone keeps the    *)
(* promises.                                                               *)
LEMMA Still ==
  ASSUME TypeOK, Reads, Elsewhere, pc'["first"] = pc["first"],
         UNCHANGED <<now, next, pend, pos, called, dataVars>>,
         (stop' = "no") <=> (stop = "no")
  PROVE  Reads'
<1>1. Base' = Base
  BY DEF Base
<1>2. UNCHANGED <<low, begun, trigger, count, interval, book>>
  BY DEF dataVars, planVars
<1>3. \A q \in Consumer : Same(q) /\ (RoundTurn(q)' <=> RoundTurn(q))
  BY <1>1, <1>2, TurnsSame
<1>4. InPhase' /\ Slipped' /\ \A q \in Consumer : Kept(q)' /\ (Promised(q)' => Promised(q))
  BY <1>2, <1>3, ReadsSame
<1>5. Clocked'
  BY <1>1 DEF Reads, Clocked, Elsewhere, Waiting, Resting
<1>6. Course'
  BY <1>1, <1>2, <1>4 DEF Reads, Course, Elsewhere, Waiting, Resting, InRound, InCall
<1>7. Counted'
  BY <1>2 DEF Reads, Counted, Elsewhere, Waiting, Resting, InCall, At
<1> QED
  BY <1>4, <1>5, <1>6, <1>7 DEF Reads

-----------------------------------------------------------------------------
(* Every step keeps the promises. *)

(* Most steps are none of the plugins' business. *)
Aside ==
  \/ ReadNow \/ Adjust \/ WaitGapTicker \/ Done \/ Signal \/ Reply
  \/ SwapPanic \/ ReplyPanic \/ RecvLoadPanic \/ RecvSendPanic
  \/ RecvLoad \/ RecvSend \/ RecvFinish \/ RecvDone
  \/ RemoveUpdate \/ CloseReady \/ CloseFinish \/ CloseTicker \/ Quit
  \/ UNCHANGED vars
  \/ \E c \in Caller : CallPanic(c) \/ ReturnPanic(c)
  \/ \E S \in NewPlugins : RecvBatch(S)
  \/ \E i \in DOMAIN Order : RemoveRunning(i)

(* None of them touches a promise: the waits, the panics, the receiver and  *)
(* what main closes.                                                       *)
LEMMA StepAside == TypeOK /\ Reads /\ Aside => Reads'
<1> SUFFICES ASSUME TypeOK, Reads, Aside PROVE Reads'
  OBVIOUS
<1> USE DEF Elsewhere, Waiting, Resting, Go, clockVars, runVars, dataVars, stopVars
<1>1. CASE ReadNow
  BY <1>1, Still DEF ReadNow, TypeOK, RunTypeOK, Caller
<1>2. CASE Adjust
  BY <1>2, Still DEF Adjust, TypeOK, RunTypeOK, Caller
<1>3. CASE WaitGapTicker
  BY <1>3, Still DEF WaitGapTicker, TypeOK, RunTypeOK, Caller
<1>4. CASE Done
  BY <1>4, Still DEF Done, TypeOK, RunTypeOK, Caller
<1>5. CASE Signal
  BY <1>5, Still DEF Signal, TypeOK, RunTypeOK, Caller
<1>6. CASE Reply
  BY <1>6, Still DEF Reply, TypeOK, RunTypeOK, Caller
<1>7. CASE SwapPanic
  BY <1>7, Still DEF SwapPanic, Panic, TypeOK, RunTypeOK, Caller
<1>8. CASE ReplyPanic
  BY <1>8, Still DEF ReplyPanic, Panic, TypeOK, RunTypeOK, Caller
<1>9. ASSUME NEW c \in Caller, CallPanic(c) PROVE Reads'
  BY <1>9, Still DEF CallPanic, Panic, TypeOK, RunTypeOK, Caller
<1>10. ASSUME NEW c \in Caller, ReturnPanic(c) PROVE Reads'
  BY <1>10, Still DEF ReturnPanic, Panic, TypeOK, RunTypeOK, Caller
<1>11. CASE RecvLoad
  BY <1>11, Still DEF RecvLoad, TypeOK, RunTypeOK, Caller
<1>12. CASE RecvLoadPanic
  BY <1>12, Still DEF RecvLoadPanic, Panic, TypeOK, RunTypeOK, Caller
<1>13. CASE RecvSend
  BY <1>13, Still DEF RecvSend, TypeOK, RunTypeOK, Caller
<1>14. CASE RecvSendPanic
  BY <1>14, Still DEF RecvSendPanic, Panic, TypeOK, RunTypeOK, Caller
<1>15. CASE RecvFinish
  BY <1>15, Still DEF RecvFinish, TypeOK, RunTypeOK, Caller
<1>16. CASE RecvDone
  BY <1>16, Still DEF RecvDone, TypeOK, RunTypeOK, Caller
<1>17. ASSUME NEW S \in NewPlugins, RecvBatch(S) PROVE Reads'
  BY <1>17, Still DEF RecvBatch, TypeOK, RunTypeOK, Caller
<1>18. ASSUME NEW i \in DOMAIN Order, RemoveRunning(i) PROVE Reads'
  BY <1>18, Still DEF RemoveRunning, TypeOK, RunTypeOK, Caller
<1>19. CASE RemoveUpdate
  BY <1>19, Still DEF RemoveUpdate, TypeOK, RunTypeOK, Caller
<1>20. CASE CloseReady
  BY <1>20, Still DEF CloseReady, TypeOK, RunTypeOK, Caller
<1>21. CASE CloseFinish
  BY <1>21, Still DEF CloseFinish, TypeOK, RunTypeOK, Caller
<1>22. CASE CloseTicker
  BY <1>22, Still DEF CloseTicker, TypeOK, RunTypeOK, Caller
<1>23. CASE Quit
  BY <1>23, Still DEF Quit, TypeOK, RunTypeOK, Caller
<1>24. CASE UNCHANGED vars
  BY <1>24, Still DEF vars, TypeOK, RunTypeOK, Caller
<1> QED
  BY <1>1, <1>2, <1>3, <1>4, <1>5, <1>6, <1>7, <1>8, <1>9, <1>10, <1>11, <1>12, <1>13, <1>14, <1>15, <1>16, <1>17, <1>18, <1>19, <1>20, <1>21, <1>22, <1>23, <1>24 DEF Aside

(* Time passes, up to the next tick. *)
LEMMA StepPass == TypeOK /\ Reads /\ Pass => Reads'
<1> SUFFICES ASSUME TypeOK, Reads, Pass PROVE Reads'
  OBVIOUS
<1>1. /\ now' = now + 1 /\ now # next /\ stop = "no"
      /\ UNCHANGED <<next, pend, pc, pos, lock, called, stop>>
      /\ UNCHANGED <<low, begun, trigger, count, interval, book>>
  BY DEF Pass, runVars, dataVars, planVars, stopVars
<1>2. Base' = Base
  BY <1>1 DEF Base
<1>3. \A q \in Consumer : Same(q) /\ (RoundTurn(q)' <=> RoundTurn(q))
  BY <1>1, <1>2, TurnsSame DEF Elsewhere
<1>4. InPhase' /\ Slipped' /\ \A q \in Consumer : Kept(q)' /\ (Promised(q)' => Promised(q))
  BY <1>1, <1>3, ReadsSame
<1>5. Clocked'
  BY <1>1, <1>2, Numbers DEF Reads, Clocked
<1>6. Course'
  BY <1>1, <1>2, <1>4, Numbers DEF Reads, Course
<1>7. Counted'
  BY <1>1 DEF Reads, Counted, At
<1> QED
  BY <1>4, <1>5, <1>6, <1>7 DEF Reads

(* A tick that is fired is the one expected next; a dropped one ends all   *)
(* promises.                                                               *)
LEMMA StepFire == TypeOK /\ Reads /\ Fire => Reads'
<1> SUFFICES ASSUME TypeOK, Reads, Fire PROVE Reads'
  OBVIOUS
<1>1. /\ UNCHANGED <<now, pc, pos, lock, called, stop>> /\ pend' = TRUE
      /\ UNCHANGED <<low, begun, trigger, count, interval>>
  BY DEF Fire, runVars, planVars, stopVars
<1>2. Counted'
  BY <1>1 DEF Reads, Counted, At
<1>3. /\ now \in Nat /\ next \in Nat /\ Interval \in Nat /\ Interval > 0 /\ Base \in Int
      /\ pend \in BOOLEAN
  BY Numbers
<1>4. CASE stop # "no"
  <2>1. \A q \in Consumer : ~Promised(q) /\ ~Promised(q)'
    BY <1>1, <1>4 DEF Fire, Reads, Course, Promised
  <2> QED
    BY <1>1, <1>2, <1>4, <2>1 DEF Reads, Clocked, Course, InPhase, Slipped, Kept
<1>5. CASE stop = "no"
  <2>1. now = next /\ next' = next + Interval /\ next # 0
    BY <1>5 DEF Fire
  <2>2. Truncate(next', Interval) = Truncate(next, Interval) + Interval
    BY <1>3, <2>1, TruncateNext
  <2>3. Truncate(next, Interval) \in Nat
    BY <1>3, TruncateType
  <2>4. Base' = IF pend THEN Base + Interval ELSE Base
    BY <1>1, <1>3, <2>2, <2>3 DEF Base
  <2>5. Clocked'
    BY <1>1, <1>3, <1>5, <2>1, <2>4 DEF Reads, Clocked
  <2>6. CASE pend
    <3>1. \A q \in Consumer : ~Promised(q)'
      BY <1>5, <2>6 DEF Fire, Lose, Promised, Lost
    <3> QED
      BY <1>2, <2>5, <3>1 DEF Reads, Course, InPhase, Slipped, Kept
  <2>7. CASE ~pend
    <3>1. \A q \in Consumer : book'[q] = book[q]
      BY <1>5, <2>7 DEF Fire, Lose
    <3>2. \A q \in Consumer : Same(q) /\ (RoundTurn(q)' <=> RoundTurn(q))
      BY <1>1, <1>3, <2>1, <2>4, <2>7, TurnsSame DEF Elsewhere
    <3>3. InPhase' /\ Slipped' /\ \A q \in Consumer : Kept(q)' /\ (Promised(q)' => Promised(q))
      BY <3>1, <3>2, ReadsSame
    <3>4. Course'
      BY <1>1, <1>3, <2>1, <2>4, <2>7, <3>3 DEF Reads, Course
    <3> QED
      BY <1>2, <2>5, <3>3, <3>4 DEF Reads
  <2> QED
    BY <1>3, <2>6, <2>7
<1> QED
  BY <1>4, <1>5

(* The ticker is started: the first tick comes an interval later. *)
LEMMA StepStart == TypeOK /\ Reads /\ Start => Reads'
<1> SUFFICES ASSUME TypeOK, Reads, Start PROVE Reads'
  OBVIOUS
<1>1. /\ pc["exec"] = "start" /\ pc'["exec"] = "select" /\ pc'["first"] = "spawned"
      /\ now' = Interval + (now % Interval) /\ next' = now' + Interval
      /\ UNCHANGED <<pend, pos, lock, called, stop>>
      /\ UNCHANGED <<low, begun, trigger, count, interval, book>>
  BY DEF Start, dataVars, planVars, stopVars, Caller
<1>2. /\ now \in Nat /\ Interval \in Nat /\ Interval > 0
      /\ \A q \in Consumer : book[q].from \in Int
  BY Numbers
<1>3. now % Interval \in 0..(Interval - 1)
  BY <1>2
<1>4. Counted'
  BY <1>1 DEF Counted, InCall
<1>5. CASE stop # "no"
  <2>1. \A q \in Consumer : ~Promised(q)'
    BY <1>1, <1>5 DEF Reads, Course, Promised
  <2> QED
    BY <1>1, <1>4, <1>5, <2>1 DEF Reads, Clocked, Course, InPhase, Slipped, Kept
<1>6. CASE stop = "no"
  <2>1. next = 0 /\ ~pend
    BY <1>1, <1>6 DEF Reads, Clocked, Waiting
  <2>2. Base' = 2 * Interval
    <3>1. next' \in Nat /\ Interval * 2 <= next' /\ next' < Interval * 2 + Interval
      BY <1>1, <1>2, <1>3
    <3>2. Truncate(next', Interval) = Interval * 2
      BY <1>2, <3>1, MultipleBelow
    <3> QED
      BY <1>1, <1>2, <2>1, <3>2 DEF Base
  <2>3. Clocked'
    BY <1>1, <1>2, <1>3, <2>2 DEF Clocked, Waiting
  <2>4. Course'
    BY <1>1, <1>2, <2>1, <2>2 DEF Reads, Course, InRound, InCall, Promised
  <2>5. ASSUME NEW q \in Consumer
        PROVE  /\ ~Ahead(q) /\ ~Ahead(q)'
               /\ Turn(q)' <=> Turn(q)
               /\ RoundTurn(q)' <=> RoundTurn(q)
    BY <1>1 DEF Ahead, InRound, Turn, Due, InCall, RoundTurn
  <2>6. ASSUME NEW q \in Consumer, Promised(q) PROVE begun = 0 /\ begun' = 0
    BY <1>1, <2>1, <2>6 DEF Reads, Course
  <2>7. InPhase' /\ Slipped'
    <3>1. \A q \in Consumer : Promised(q) => Young(q)'
      BY <2>6 DEF Young
    <3>2. InPhase'
      BY <1>1, <2>5, PhaseSame DEF Reads, Promised
    <3>3. Slipped'
      BY <1>1, <3>1 DEF Slipped, Promised
    <3> QED
      BY <3>2, <3>3
  <2>8. ASSUME NEW q \in Consumer PROVE Kept(q)'
    BY <1>1, <1>2, <2>1, <2>2, <2>5, <2>6 DEF Reads, Kept, Promised, Young, Edge
  <2> QED
    BY <1>4, <2>3, <2>4, <2>7, <2>8 DEF Reads
<1> QED
  BY <1>5, <1>6

(* firstCollect gets by the context. *)
LEMMA StepFirstCheck == TypeOK /\ Reads /\ FirstCheck => Reads'
<1> SUFFICES ASSUME TypeOK, Reads, FirstCheck PROVE Reads'
  OBVIOUS
<1>1. /\ pc["first"] = "spawned" /\ pc'["exec"] = pc["exec"]
      /\ pc'["first"] = IF stop = "no" THEN "lock" ELSE "done"
      /\ UNCHANGED <<now, next, pend, pos, called, stop>>
      /\ UNCHANGED <<low, begun, trigger, count, interval, book>>
  BY DEF FirstCheck, Go, TypeOK, RunTypeOK, Caller, clockVars, dataVars, planVars, stopVars
<1>2. Base' = Base
  BY <1>1 DEF Base
<1>3. \A q \in Consumer : Same(q) /\ (RoundTurn(q)' <=> RoundTurn(q))
  BY <1>1, <1>2, TurnsSame DEF Elsewhere
<1>4. InPhase' /\ Slipped' /\ \A q \in Consumer : Kept(q)' /\ (Promised(q)' => Promised(q))
  BY <1>1, <1>3, ReadsSame
<1>5. Clocked'
  BY <1>1, <1>2 DEF Reads, Clocked
<1>6. Course'
  BY <1>1, <1>2, <1>4 DEF Reads, Course, InRound, InCall
<1>7. Counted'
  BY <1>1 DEF Reads, Counted, At
<1> QED
  BY <1>4, <1>5, <1>6, <1>7 DEF Reads

(* A tick is taken: the range of the round begins two intervals before the *)
(* next tick's, or one if the tick is late.                                *)
LEMMA StepTick == TypeOK /\ Reads /\ Tick => Reads'
<1> SUFFICES ASSUME TypeOK, Reads, Tick PROVE Reads'
  OBVIOUS
<1>1. /\ pc["exec"] = "select" /\ pc'["exec"] = "lock" /\ pc'["first"] = pc["first"]
      /\ pend /\ ~pend' /\ UNCHANGED <<now, next, pos, called, stop, interval, trigger, count>>
      /\ low' = Truncate(now, interval) - interval
      /\ begun' = IF begun = 0 THEN Truncate(now, interval) ELSE begun
  BY DEF Tick, LowerLimit, Go, TypeOK, RunTypeOK, Caller
<1>2. /\ now \in Nat /\ next \in Nat /\ begun \in Nat /\ Interval \in Nat /\ Interval > 0
      /\ Base \in Int
  BY Numbers
<1>3. /\ Base' = Base + Interval /\ Base = Truncate(next, Interval) - Interval
      /\ Truncate(next, Interval) \in Nat
  <2>1. Truncate(next, Interval) \in Nat
    BY <1>2, TruncateType
  <2> QED
    BY <1>1, <1>2, <2>1 DEF Base
<1>4. Clocked'
  BY <1>1, <1>2, <1>3 DEF Reads, Clocked, Waiting
<1>5. Counted'
  BY <1>1 DEF Counted, InCall
<1>6. ASSUME NEW q \in Consumer
      PROVE  /\ Promised(q)' => /\ Promised(q) /\ pc["first"] \notin {"spawned", "lock"}
                                /\ Late => book[q].firm
             /\ Promised(q)' => book'[q] = book[q]
  BY DEF Tick, Lose, Lost, Promised
<1>7. CASE \A q \in Consumer : ~Promised(q)'
  BY <1>4, <1>5, <1>7 DEF Reads, Course, InPhase, Slipped, Kept
<1>8. ASSUME NEW r \in Consumer, Promised(r)' PROVE Reads'
  <2>1. /\ stop = "no" /\ interval = Interval
        /\ pc["first"] \notin {"idle", "spawned", "lock"}
        /\ pc["first"] \in InRound => begun = 0
    BY <1>1, <1>6, <1>8 DEF Reads, Course, Clocked, Waiting
  <2>2. /\ next # 0 /\ next - Interval <= now /\ now <= next /\ Base >= 2 * Interval
        /\ begun <= Base - Interval
    BY <1>1, <1>6, <1>8, <2>1 DEF Reads, Clocked, Course, Waiting
  <2>3. Truncate(now, Interval) \in {Base, Base + Interval} /\ Truncate(now, Interval) <= now
    <3>1. Truncate(now, Interval) \in {Truncate(next, Interval) - Interval, Truncate(next, Interval)}
      BY <1>2, <2>2, TruncateNear
    <3>2. Truncate(now, Interval) <= now
      BY <1>2, TruncateMultiple
    <3> QED
      BY <1>2, <1>3, <3>1, <3>2
  <2>4. ~Late => Truncate(now, Interval) = Base
    <3>1. next - Interval \in Nat
      <4>1. Truncate(next, Interval) <= next
        BY <1>2, TruncateMultiple
      <4> QED
        BY <1>2, <1>3, <2>2, <4>1
    <3>2. Truncate(next, Interval) = Truncate(next - Interval, Interval) + Interval
      <4>1. (next - Interval) + Interval = next
        BY <1>2
      <4> QED
        BY <1>2, <3>1, <4>1, TruncateNext
    <3>3. Truncate(next - Interval, Interval) \in Nat
      BY <1>2, <3>1, TruncateType
    <3> QED
      BY <1>2, <1>3, <2>1, <3>2, <3>3 DEF Late
  <2>5. ASSUME NEW q \in Consumer, Promised(q)'
        PROVE  /\ begun = 0 => ~Late
               /\ ~book[q].firm => ~Late
    BY <1>6, <2>5 DEF Reads, Kept, Young
  <2>6. /\ begun' # 0 /\ begun' <= Base' - Interval
        /\ begun = 0 => begun' = Base
        /\ begun # 0 => begun' = begun
    BY <1>1, <1>2, <1>3, <1>8, <2>1, <2>2, <2>4, <2>5
  <2>7. ASSUME NEW q \in Consumer
        PROVE  /\ Ahead(q)' /\ ~Ahead(q)
               /\ Turn(q)' <=> Due(q)
               /\ Turn(q) <=> Due(q)
               /\ RoundTurn(q)' <=> RoundTurn(q)
    BY <1>1 DEF Ahead, InRound, Turn, Due, InCall, RoundTurn
  <2>8. Course'
    <3>1. \E q \in Consumer : Promised(q)
      BY <1>6, <1>8
    <3>2. pc["first"] \in InCall => called >= Base - Interval
      BY <1>1, <3>1 DEF Reads, Course
    <3>3. low' + Interval <= now /\ (low' = Base' - 2 * Interval \/ low' = Base' - Interval)
      BY <1>1, <1>2, <1>3, <2>1, <2>3
    <3>4. pc["first"] \in InCall => called >= Base' - 2 * Interval
      BY <1>2, <1>3, <3>2, Numbers
    <3>5. pc["first"] \in InRound => begun' = Base' - Interval
      BY <1>2, <1>3, <2>1, <2>6
    <3> QED
      BY <1>1, <2>1, <2>2, <2>6, <3>3, <3>4, <3>5 DEF Course, InRound, InCall
  <2>9. InPhase'
    BY <1>1, <1>6, <2>7, PhaseSame DEF Reads
  <2>10. Slipped'
    <3>1. \A q \in Consumer : Young(q) => Young(q)'
      BY <1>2, <1>3, <2>6, <2>7 DEF Young
    <3> QED
      BY <1>1, <1>6, <3>1, SlippedSame DEF Reads, Slipped, Promised
  <2>11. ASSUME NEW q \in Consumer, Promised(q)' PROVE Kept(q)'
    <3>1. Kept(q) /\ Promised(q) /\ book'[q] = book[q]
      BY <1>6, <2>11 DEF Reads
    <3>2. Edge(q)' = Base /\ Edge(q) = Base
      BY <1>2, <1>3, <2>7 DEF Edge
    <3>3. Slack(q, book[q].firm)' = Slack(q, book[q].firm) /\ Slack(q, book[q].firm) \in {0, Interval}
      BY <2>7, <3>1 DEF Slack
    <3>4. Young(q)' => ~book[q].firm
      <4>1. Young(q)' => begun = 0
        BY <1>2, <1>3, <2>2, <2>6 DEF Young
      <4> QED
        BY <3>1, <4>1 DEF Kept, Young
    <3>5. ~book[q].firm => low' = Base' - 2 * Interval
      BY <1>1, <1>2, <1>3, <2>1, <2>4, <2>5, <2>11
    <3>6. ASSUME NEW v \in book'[q].unread
          PROVE  v >= Edge(q)' - Slack(q, book[q].firm)' \/ Exempt(q, v)'
      <4>1. v \in Nat /\ (v >= Base - Slack(q, book[q].firm) \/ Exempt(q, v))
        BY <3>1, <3>2, Numbers DEF Kept
      <4>2. Exempt(q, v) => v >= Base - Slack(q, book[q].firm) \/ Exempt(q, v)'
        BY <1>1, <1>2, <2>6, <3>3, <4>1 DEF Exempt
      <4> QED
        BY <3>2, <3>3, <4>1, <4>2
    <3>7. /\ trigger[q] = TriggerInterval(q, Interval) /\ trigger[q] <= 2
          /\ trigger[q] > 1 => ~book[q].firm
          /\ book[q].from <= Edge(q)' - Interval
      BY <2>2, <3>1, <3>2 DEF Kept
    <3> QED
      BY <1>1, <2>2, <3>1, <3>4, <3>5, <3>6, <3>7 DEF Kept
  <2> QED
    BY <1>4, <1>5, <2>8, <2>9, <2>10, <2>11 DEF Reads, Kept
<1> QED
  BY <1>7, <1>8

(* The stop ends all promises. *)
LEMMA StepCancel == TypeOK /\ Reads /\ Cancel => Reads'
<1> SUFFICES ASSUME TypeOK, Reads, Cancel PROVE Reads'
  OBVIOUS
<1>1. \A q \in Consumer : ~Promised(q)'
  BY DEF Cancel, Lose, Lost, Promised
<1>2. stop' # "no"
  BY DEF Cancel
<1>3. Counted'
  BY DEF Reads, Counted, Cancel, runVars, planVars, At
<1> QED
  BY <1>1, <1>2, <1>3 DEF Reads, Clocked, Course, InPhase, Slipped, Kept

(* A new interval ends all promises: the ticker keeps the old one. *)
LEMMA StepSwapConf ==
  ASSUME TypeOK, Reads, NEW i \in NewIntervals \cup {interval}, SwapConf(i)
  PROVE  Reads'
<1>1. /\ pc["exec"] = "swapConf" /\ pc'["exec"] = "reply" /\ pc'["first"] = pc["first"]
      /\ UNCHANGED <<now, next, pend, pos, called, stop, low, trigger, count, begun>>
      /\ interval' = i
  BY DEF SwapConf, Go, TypeOK, RunTypeOK, Caller, clockVars, stopVars
<1>2. Base' = Base
  BY <1>1 DEF Base
<1>3. Clocked' /\ Counted'
  BY <1>1, <1>2 DEF Reads, Clocked, Counted, Waiting, InCall
<1>4. CASE i # interval
  <2>1. \A q \in Consumer : ~Promised(q)'
    BY <1>4 DEF SwapConf, Lose, Lost, Promised
  <2> QED
    BY <1>3, <2>1 DEF Reads, Course, InPhase, Slipped, Kept
<1>5. CASE i = interval
  <2>1. \A q \in Consumer : book'[q] = book[q]
    BY <1>5 DEF SwapConf, Lose
  <2>2. \A q \in Consumer : Same(q) /\ (RoundTurn(q)' <=> RoundTurn(q))
    BY <1>1, <1>2, TurnsSame DEF Elsewhere, Resting
  <2>3. InPhase' /\ Slipped' /\ \A q \in Consumer : Kept(q)' /\ (Promised(q)' => Promised(q))
    BY <2>1, <2>2, ReadsSame
  <2>4. Course'
    BY <1>1, <1>2, <1>5, <2>3 DEF Reads, Course, InRound, InCall
  <2> QED
    BY <1>3, <2>3, <2>4 DEF Reads
<1> QED
  BY <1>4, <1>5

(* A replaced plugin keeps its trigger and, if it runs every round, loses  *)
(* nothing by the counter.                                                 *)
LEMMA StepSwap == TypeOK /\ Reads /\ Swap => Reads'
<1> SUFFICES ASSUME TypeOK, Reads, Swap PROVE Reads'
  OBVIOUS
<1>1. /\ pc["exec"] = "swap" /\ pc'["exec"] = "swapConf" /\ pc'["first"] = pc["first"]
      /\ UNCHANGED <<now, next, pend, pos, called, stop, low, interval, begun>>
  BY DEF Swap, Go, TypeOK, RunTypeOK, Caller, clockVars, stopVars
<1>2. Base' = Base
  BY <1>1 DEF Base
<1>3. Clocked' /\ Counted'
  BY <1>1, <1>2 DEF Reads, Clocked, Counted, Waiting, InCall
<1>4. ASSUME NEW q \in Consumer, Promised(q)'
      PROVE  /\ Promised(q) /\ book'[q] = book[q] /\ trigger'[q] = trigger[q]
             /\ Due(q)' <=> Due(q)
  <2>1. q \in Plugin /\ trigger[q] \in Nat \ {0} /\ count[q] \in Nat
    BY Numbers
  <2>2. Promised(q) /\ book'[q] = book[q] /\ (q \in batch => ~(trigger[q] > 1))
    BY <1>4 DEF Swap, Lose, Lost, Promised
  <2>3. trigger[q] = TriggerInterval(q, interval)
    BY <2>2 DEF Reads, Kept, Course
  <2>4. trigger'[q] = trigger[q] /\ count'[q] = IF q \in batch THEN 0 ELSE count[q]
    BY <2>1, <2>3 DEF Swap
  <2>5. CASE q \in batch
    <3>1. trigger[q] = 1
      BY <2>1, <2>2, <2>5
    <3> QED
      BY <2>1, <2>2, <2>4, <2>5, <3>1 DEF Due
  <2>6. CASE q \notin batch
    BY <2>2, <2>4, <2>6 DEF Due
  <2> QED
    BY <2>5, <2>6
<1>5. ASSUME NEW q \in Consumer, Promised(q)'
      PROVE  Same(q) /\ (RoundTurn(q)' <=> RoundTurn(q))
  BY <1>1, <1>2, <1>4, <1>5 DEF Same, RoundTurn, Turn, Ahead, InRound, InCall
<1>6. InPhase' /\ Slipped' /\ \A q \in Consumer : Kept(q)' /\ (Promised(q)' => Promised(q))
  BY <1>4, <1>5, ReadsSame
<1>7. Course'
  BY <1>1, <1>2, <1>6 DEF Reads, Course, InRound, InCall
<1> QED
  BY <1>3, <1>6, <1>7 DEF Reads

(* A round begins before the first plugin, *)
LEMMA StepLock == ASSUME TypeOK, Reads, Held, NEW c \in Caller, Lock(c) PROVE Reads'
<1>1. /\ pc[c] = "lock" /\ pc' = [pc EXCEPT ![c] = "round"] /\ pos' = [pos EXCEPT ![c] = 1]
      /\ UNCHANGED <<now, next, pend, called, stop>>
      /\ UNCHANGED <<low, interval, trigger, count, begun, book>>
  BY DEF Lock, Go, clockVars, dataVars, planVars, stopVars
<1>2. Base' = Base
  BY <1>1 DEF Base
<1>3. pc \in [Caller -> Executing \cup Collecting] /\ pos \in [Caller -> Nat \ {0}]
  BY DEF TypeOK, RunTypeOK
<1>4. CASE c = "exec"
  <2>1. pc["exec"] = "lock" /\ pc'["exec"] = "round" /\ pos'["exec"] = 1 /\ pc'["first"] = pc["first"]
    BY <1>1, <1>3, <1>4 DEF Caller
  <2>2. ASSUME NEW q \in Consumer
        PROVE  /\ Ahead(q) /\ Ahead(q)' /\ ~Behind(q)'
               /\ Turn(q)' <=> Turn(q)
    BY <1>1, <2>1 DEF Ahead, InRound, Behind, Turn, InCall, Due
  <2>3. \A q \in Consumer : Same(q) /\ (RoundTurn(q)' <=> RoundTurn(q))
    BY <1>1, <1>2, <2>1, <2>2 DEF Same, RoundTurn, InRound
  <2>4. InPhase' /\ Slipped' /\ \A q \in Consumer : Kept(q)' /\ (Promised(q)' => Promised(q))
    BY <1>1, <2>3, ReadsSame
  <2>5. Clocked' /\ Counted'
    BY <1>1, <1>2, <2>1 DEF Reads, Clocked, Counted, Waiting, InCall
  <2>6. Course'
    <3>1. pc["first"] \notin InRound
      BY DEF Lock, Held, Caller, InRound
    <3> QED
      BY <1>1, <1>2, <2>1, <2>4, <3>1 DEF Reads, Course, InRound, InCall
  <2> QED
    BY <2>4, <2>5, <2>6 DEF Reads
<1>5. CASE c = "first"
  <2>1. /\ pc["first"] = "lock" /\ pc'["first"] = "round"
        /\ pc'["exec"] = pc["exec"] /\ pos'["exec"] = pos["exec"]
    BY <1>1, <1>3, <1>5 DEF Caller
  <2>2. \A q \in Consumer : Same(q) /\ (RoundTurn(q)' <=> RoundTurn(q))
    BY <1>1, <1>2, <2>1, TurnsSame DEF Elsewhere
  <2>3. InPhase' /\ Slipped' /\ \A q \in Consumer : Kept(q)' /\ (Promised(q)' => Promised(q))
    BY <1>1, <2>2, ReadsSame
  <2>4. Clocked' /\ Counted'
    BY <1>1, <1>2, <2>1 DEF Reads, Clocked, Counted, At
  <2>5. Course'
    BY <1>1, <1>2, <2>1, <2>3 DEF Reads, Course, InRound, InCall
  <2> QED
    BY <2>3, <2>4, <2>5 DEF Reads
<1> QED
  BY <1>4, <1>5 DEF Caller

(* and ends when all have had their turn: the others run in the next.      *)
LEMMA StepUnlock == ASSUME TypeOK, Reads, Held, NEW c \in Caller, Unlock(c) PROVE Reads'
<1>1. /\ pc[c] = "round" /\ pos[c] > Length(c)
      /\ pc' = [pc EXCEPT ![c] = IF c = "exec" THEN "select" ELSE "done"]
      /\ UNCHANGED <<now, next, pend, pos, called, stop>>
      /\ UNCHANGED <<low, interval, trigger, count, begun, book>>
  BY DEF Unlock, Go, clockVars, dataVars, planVars, stopVars
<1>2. Base' = Base
  BY <1>1 DEF Base
<1>3. pc \in [Caller -> Executing \cup Collecting]
  BY DEF TypeOK, RunTypeOK
<1>4. CASE c = "exec"
  <2>1. /\ pc["exec"] = "round" /\ pc'["exec"] = "select" /\ pc'["first"] = pc["first"]
        /\ pos["exec"] > Len(Order) /\ pc["first"] \notin InRound
    BY <1>1, <1>3, <1>4 DEF Caller, Length, Held, InRound
  <2>2. ASSUME NEW q \in Consumer
        PROVE  /\ ~Ahead(q) /\ ~Ahead(q)' /\ Behind(q)
               /\ Turn(q)' <=> Turn(q)
               /\ RoundTurn(q) <=> ~Due(q)
               /\ RoundTurn(q)' <=> Due(q)
    <3>1. Behind(q)
      BY <2>1, RoundOver DEF InRound, Consumer
    <3> QED
      BY <1>1, <2>1, <3>1 DEF Ahead, InRound, Turn, InCall, Due, RoundTurn
  <2>3. \A q \in Consumer : Same(q) /\ Kept(q)' /\ (Promised(q)' <=> Promised(q))
    BY <1>1, <1>2, <2>2, KeptSame DEF Same, Reads, Promised
  <2>4. InPhase'
    BY <1>1, <2>2, <2>3 DEF Reads, InPhase
  <2>5. Slipped'
    BY <1>1, <2>3, SlippedSame DEF Reads, Same, Young
  <2>6. Clocked' /\ Counted'
    BY <1>1, <1>2, <2>1 DEF Reads, Clocked, Counted, Waiting, InCall
  <2>7. Course'
    BY <1>1, <1>2, <2>1, <2>3 DEF Reads, Course, InRound, InCall
  <2> QED
    BY <2>3, <2>4, <2>5, <2>6, <2>7 DEF Reads
<1>5. CASE c = "first"
  <2>1. pc["first"] = "round" /\ pc'["first"] = "done" /\ pc'["exec"] = pc["exec"]
    BY <1>1, <1>3, <1>5 DEF Caller
  <2>2. \A q \in Consumer : Same(q) /\ (RoundTurn(q)' <=> RoundTurn(q))
    BY <1>1, <1>2, <2>1, TurnsSame DEF Elsewhere
  <2>3. InPhase' /\ Slipped' /\ \A q \in Consumer : Kept(q)' /\ (Promised(q)' => Promised(q))
    BY <1>1, <2>2, ReadsSame
  <2>4. Clocked' /\ Counted'
    BY <1>1, <1>2, <2>1 DEF Reads, Clocked, Counted, At
  <2>5. Course'
    BY <1>1, <1>2, <2>1, <2>3 DEF Reads, Course, InRound, InCall
  <2> QED
    BY <2>3, <2>4, <2>5 DEF Reads
<1> QED
  BY <1>4, <1>5 DEF Caller

-----------------------------------------------------------------------------
(* The rounds *)

(* The ranges of a round, while anything is promised. *)
LEMMA Bounds ==
  ASSUME TypeOK, Reads, pc["exec"] \in InRound, NEW q \in Consumer, Promised(q)
  PROVE  InBounds /\ now >= low + Interval /\ stop = "no"
BY DEF Reads, Course, Clocked, InBounds, InRound, Waiting

(* firstCollect calls inputs, while Execute is not in a round. *)
LEMMA StepFirst ==
  ASSUME TypeOK, Reads, Held, InPlace,
         Skip("first") \/ Call("first") \/ Collect("first") \/ Fail("first")
  PROVE  Reads'
<1>1. /\ pc["first"] \in InRound /\ pos["first"] <= Length("first")
      /\ pc'["exec"] = pc["exec"] /\ pos'["exec"] = pos["exec"]
      /\ UNCHANGED <<now, next, pend, stop, low, interval, trigger, begun>>
  BY DEF Skip, Call, Collect, Fail, End, InPlace, InRound, Go, TypeOK, RunTypeOK, Caller,
     clockVars, stopVars
<1>2. At("first") \in Plugin /\ Cat[At("first")] = "input"
  BY <1>1, AtFirst
<1>3. ASSUME NEW q \in Consumer PROVE book'[q] = book[q] /\ count'[q] = count[q]
  <2>1. q # At("first") /\ q \in Plugin
    BY <1>2 DEF Consumer
  <2> QED
    BY <1>2, <2>1 DEF Skip, Call, Collect, Fail, End, TypeOK, DataTypeOK
<1>4. Base' = Base
  BY <1>1 DEF Base
<1>5. pc["exec"] \notin InRound
  BY <1>1 DEF Held, InRound, Caller
<1>6. \A q \in Consumer : Same(q) /\ (RoundTurn(q)' <=> RoundTurn(q))
  BY <1>1, <1>3, <1>4, TurnsSame DEF Elsewhere
<1>7. InPhase' /\ Slipped' /\ \A q \in Consumer : Kept(q)' /\ (Promised(q)' => Promised(q))
  BY <1>3, <1>6, ReadsSame
<1>8. /\ pc'["first"] \in InRound
      /\ pc'["first"] \in InCall => called' = now
  BY DEF Skip, Call, Collect, Fail, End, Go, TypeOK, RunTypeOK, Caller, InRound, InCall
<1>9. Clocked'
  BY <1>1, <1>4, <1>8 DEF Reads, Clocked, InRound
<1>10. Counted'
  BY <1>1, <1>5 DEF Counted, InRound, InCall
<1>11. ASSUME NEW q \in Consumer, Promised(q)
       PROVE  now >= Base - Interval /\ now >= Base - 2 * Interval
  <2>1. next # 0 /\ next - Interval <= now
    BY <1>1, <1>11 DEF Reads, Clocked, Course, InRound
  <2>2. Truncate(next, Interval) <= next /\ Truncate(next, Interval) \in Nat
    BY Numbers, TruncateMultiple, TruncateType
  <2> QED
    BY <2>1, <2>2, Numbers DEF Base
<1>12. Course'
  BY <1>1, <1>4, <1>5, <1>7, <1>8, <1>11 DEF Reads, Course, InRound, InCall
<1> QED
  BY <1>7, <1>9, <1>10, <1>12 DEF Reads

(* A plugin whose turn has not come runs in the next round. *)
LEMMA StepSkip == ASSUME TypeOK, Reads, Held, Skip("exec") PROVE Reads'
<1>0. PICK a : a = At("exec")
  OBVIOUS
<1>1. /\ pc["exec"] = "round" /\ pos["exec"] <= Len(Order)
      /\ pos'["exec"] = pos["exec"] + 1 /\ ~Due(a)
      /\ UNCHANGED <<now, next, pend, pc, called, stop, low, interval, trigger, begun, book>>
      /\ count' = [count EXCEPT ![a] = @ + 1]
  BY <1>0 DEF Skip, Length, TypeOK, RunTypeOK, Caller, clockVars, stopVars
<1>2. Base' = Base /\ pc["exec"] \in InRound /\ pc'["exec"] \in InRound
  BY <1>1 DEF Base, InRound
<1>3. a \in Plugin /\ ~Behind(a) /\ Ahead(a)
  BY <1>0, <1>1, <1>2, AtAhead
<1>4. \A q \in Plugin : count'[q] = IF q = a THEN count[a] + 1 ELSE count[q]
  BY <1>1, <1>3 DEF TypeOK, DataTypeOK
<1>5. ASSUME NEW q PROVE Behind(q)' <=> (Behind(q) \/ q = a)
  BY <1>0, <1>1, <1>2, Advance
<1>6. ASSUME NEW q \in Consumer
      PROVE  /\ Turn(q) <=> Due(q)
             /\ Turn(q)' <=> Due(q)'
             /\ Ahead(q) <=> ~Behind(q)
             /\ Ahead(q)' <=> ~Behind(q)'
  BY <1>1, <1>2 DEF Turn, Ahead, InRound, InCall
<1>7. ASSUME NEW q \in Consumer, q # a
      PROVE  Same(q) /\ (RoundTurn(q)' <=> RoundTurn(q))
  <2>1. Due(q)' <=> Due(q)
    BY <1>1, <1>4, <1>7 DEF Due, Consumer
  <2> QED
    BY <1>1, <1>2, <1>5, <1>6, <1>7, <2>1 DEF Same, RoundTurn
<1>8. ASSUME a \in Consumer, Promised(a)
      PROVE  /\ trigger[a] > 1 /\ Due(a)'
             /\ RoundTurn(a)' <=> RoundTurn(a)
  <2>1. trigger[a] \in Nat \ {0} /\ trigger[a] <= 2 /\ count[a] \in Nat
    BY <1>8, Numbers DEF Reads, Kept
  <2>2. trigger[a] = 2 /\ count[a] = 0
    BY <1>1, <2>1 DEF Due
  <2>3. Due(a)'
    BY <1>1, <1>3, <1>4, <2>2 DEF Due
  <2> QED
    BY <1>1, <1>2, <1>3, <1>5, <1>6, <1>8, <2>2, <2>3 DEF RoundTurn
<1>9. ASSUME NEW q \in Consumer PROVE Kept(q)'
  <2>1. CASE q # a
    BY <1>1, <1>7, <2>1, KeptSame DEF Reads
  <2>2. CASE q = a
    <3>1. Turning(q) /\ ~Turn(q) /\ (Promised(q) => Turn(q)' /\ trigger[q] > 1)
      BY <1>1, <1>2, <1>3, <1>5, <1>6, <1>8, <2>2 DEF Turning
    <3>2. Promised(q) => InBounds
      BY <1>2, Bounds
    <3> QED
      BY <1>1, <3>1, <3>2, KeptSkip DEF Reads
  <2> QED
    BY <2>1, <2>2
<1>10. InPhase'
  BY <1>1, <1>7, <1>8, PhaseSame DEF Reads, Promised
<1>11. Slipped'
  <2>1. ASSUME NEW p \in Consumer, Promised(p), trigger[p] = 1 PROVE Young(p) => Young(p)'
    <3>1. p # a
      BY <1>8, <2>1
    <3> QED
      BY <1>7, <3>1 DEF Same, Young
  <2> QED
    BY <1>1, <2>1, SlippedSame DEF Reads, Promised
<1>12. Clocked' /\ Counted'
  BY <1>1, <1>2 DEF Reads, Clocked, Counted, InCall
<1>13. Course'
  BY <1>1, <1>2 DEF Reads, Course, Promised
<1> QED
  BY <1>9, <1>10, <1>11, <1>12, <1>13 DEF Reads

(* A plugin is called. *)
LEMMA StepCall == ASSUME TypeOK, Reads, Held, Call("exec") PROVE Reads'
<1>0. PICK a : a = At("exec")
  OBVIOUS
<1>1. /\ pc["exec"] = "round" /\ pos["exec"] <= Len(Order) /\ Due(a)
      /\ pc'["exec"] = "call" /\ pc'["first"] = pc["first"] /\ called' = now
      /\ UNCHANGED <<now, next, pend, pos, stop, low, interval, trigger, begun, book>>
      /\ count' = [count EXCEPT ![a] = 0]
  BY <1>0 DEF Call, Length, Go, TypeOK, RunTypeOK, Caller, clockVars, stopVars
<1>2. Base' = Base /\ pc["exec"] \in InRound /\ pc'["exec"] \in InRound
  BY <1>1 DEF Base, InRound
<1>3. a \in Plugin /\ ~Behind(a) /\ Ahead(a) /\ At("exec")' = a
  BY <1>0, <1>1, <1>2, AtAhead DEF At
<1>4. \A q \in Plugin : count'[q] = IF q = a THEN 0 ELSE count[q]
  BY <1>1, <1>3 DEF TypeOK, DataTypeOK
<1>5. ASSUME NEW q PROVE Behind(q)' <=> Behind(q)
  BY <1>1, <1>2 DEF Behind, InRound
<1>6. ASSUME NEW q \in Consumer
      PROVE  Same(q) /\ (RoundTurn(q)' <=> RoundTurn(q))
  <2>1. Ahead(q)' <=> Ahead(q)
    BY <1>1, <1>2, <1>5 DEF Ahead
  <2>2. Turn(q)' <=> Turn(q)
    <3>1. CASE q = a
      BY <1>1, <1>3, <3>1 DEF Turn, InCall
    <3>2. CASE q # a
      BY <1>1, <1>3, <1>4, <3>2 DEF Turn, Due, InCall, Consumer
    <3> QED
      BY <3>1, <3>2
  <2>3. q # a => (Due(q)' <=> Due(q))
    BY <1>1, <1>4 DEF Due, Consumer
  <2> QED
    BY <1>1, <1>2, <1>3, <1>5, <2>1, <2>2, <2>3 DEF Same, RoundTurn
<1>7. InPhase' /\ Slipped' /\ \A q \in Consumer : Kept(q)' /\ (Promised(q)' => Promised(q))
  BY <1>1, <1>6, ReadsSame
<1>8. Clocked' /\ Counted'
  BY <1>1, <1>2, <1>3, <1>4 DEF Reads, Clocked, Counted, Waiting
<1>9. pc["first"] \notin InRound
  BY <1>1 DEF Held, InRound, Caller
<1>10. Course'
  BY <1>1, <1>2, <1>7, <1>9 DEF Reads, Course, InRound, InCall
<1> QED
  BY <1>7, <1>8, <1>10 DEF Reads

(* What is stored in a round is no older than its tick, what firstCollect  *)
(* stores no older than the interval before the first.                     *)
LEMMA StepAddField ==
  ASSUME TypeOK, Reads, Held, InPlace, NEW c \in Caller, AddField(c)
  PROVE  Reads'
<1>1. PICK t \in called .. now : book' = [q \in Consumer |->
             IF q \in Feeds[At(c)] THEN Store(q, t) ELSE book[q]]
  BY DEF AddField
<1>2. /\ pc[c] = "call" /\ pc' = [pc EXCEPT ![c] = "stored"]
      /\ UNCHANGED <<now, next, pend, pos, called, stop>>
      /\ UNCHANGED <<low, interval, trigger, count, begun>>
  BY DEF AddField, Go, clockVars, planVars, stopVars
<1>3. /\ pc["exec"] \in InRound <=> pc'["exec"] \in InRound
      /\ pc["exec"] \in InCall <=> pc'["exec"] \in InCall
      /\ pc["first"] \in InRound <=> pc'["first"] \in InRound
      /\ pc["first"] \in InCall <=> pc'["first"] \in InCall
      /\ \A x \in {"idle", "spawned", "lock"} :
           (pc'["exec"] = x <=> pc["exec"] = x) /\ (pc'["first"] = x <=> pc["first"] = x)
      /\ pc["exec"] \in Waiting <=> pc'["exec"] \in Waiting
  BY <1>2 DEF TypeOK, RunTypeOK, Caller, InRound, InCall, Waiting
<1>4. Base' = Base
  BY <1>2 DEF Base
<1>5. ASSUME NEW q \in Consumer
      PROVE  Same(q) /\ (RoundTurn(q)' <=> RoundTurn(q))
  <2>1. Behind(q)' <=> Behind(q)
    BY <1>2, <1>3 DEF Behind, InRound
  <2>2. At("exec")' = At("exec") /\ (Due(q)' <=> Due(q))
    BY <1>2 DEF At, Due
  <2>3. (Ahead(q)' <=> Ahead(q)) /\ (Turn(q)' <=> Turn(q))
    BY <1>3, <2>1, <2>2 DEF Ahead, Turn
  <2> QED
    BY <1>2, <1>3, <1>4, <2>1, <2>2, <2>3 DEF Same, RoundTurn
<1>6. /\ called \in Nat /\ now \in Nat /\ low \in Int /\ begun \in Nat /\ t \in Nat /\ t >= called
      /\ Base \in Int /\ Interval \in Nat /\ Interval > 0
  <2>1. called \in Nat /\ now \in Nat
    BY Numbers
  <2> QED
    BY <2>1, Numbers
<1>7. ASSUME NEW q \in Consumer, Promised(q)'
      PROVE  /\ Promised(q) /\ next # 0
             /\ \/ book'[q] = book[q]
                \/ /\ ~Behind(q) /\ book'[q] = Add(q, {t}, FALSE)
                \/ /\ Behind(q) /\ trigger[q] = 1 /\ Cat[q] # "processor"
                   /\ book'[q] = Add(q, {t}, TRUE)
  <2>1. \/ book'[q] = book[q]
        \/ /\ ~Behind(q) /\ book'[q] = Add(q, {t}, FALSE)
        \/ /\ Behind(q) /\ ~(trigger[q] > 1) /\ Cat[q] # "processor"
           /\ book'[q] = Add(q, {t}, TRUE)
    <3>1. CASE q \notin Feeds[At(c)]
      BY <1>1, <3>1
    <3>2. CASE q \in Feeds[At(c)] /\ ~Behind(q)
      <4>1. book'[q] = Add(q, {t}, Behind(q)) /\ (Behind(q) <=> FALSE)
        BY <1>1, <3>2 DEF Store
      <4>2. Behind(q) = FALSE
        BY <4>1 DEF Behind
      <4> QED
        BY <3>2, <4>1, <4>2
    <3>3. CASE q \in Feeds[At(c)] /\ Behind(q)
      <4>1. ~(trigger[q] > 1 \/ Cat[q] = "processor")
        BY <1>1, <1>7, <3>3 DEF Store, Lost, Promised
      <4>2. book'[q] = Add(q, {t}, Behind(q))
        BY <1>1, <3>3, <4>1 DEF Store
      <4>3. Behind(q) = TRUE
        BY <3>3 DEF Behind
      <4> QED
        BY <3>3, <4>1, <4>2, <4>3
    <3> QED
      BY <3>1, <3>2, <3>3
  <2>2. Promised(q)
    BY <1>7, <2>1 DEF Add, Lost, Promised
  <2>3. next # 0
    <3>1. pc["exec"] \in InRound \/ pc["first"] \in InRound
      BY <1>2 DEF Caller, InRound
    <3> QED
      BY <2>2, <3>1 DEF Reads, Course, Clocked, InRound, Waiting
  <2>4. ~(trigger[q] > 1) => trigger[q] = 1
    BY Numbers
  <2> QED
    BY <2>1, <2>2, <2>3, <2>4
<1>8. ASSUME NEW q \in Consumer, Promised(q), ~Behind(q)
      PROVE  Exempt(q, t) \/ t >= Edge(q) - Slack(q, book[q].firm)
  <2>1. CASE c = "exec"
    <3>1. pc["exec"] \in InRound /\ pc["exec"] \in InCall /\ Ahead(q)
      BY <1>2, <1>8, <2>1 DEF InRound, InCall, Ahead
    <3>2. called >= low + Interval /\ InBounds
      BY <1>8, <3>1, Bounds DEF Reads, Course
    <3> QED
      BY <1>6, <3>1, <3>2 DEF Edge, Slack, InBounds
  <2>2. CASE c = "first"
    <3>1. pc["exec"] \notin InRound /\ pc["first"] \in InRound /\ pc["first"] \in InCall
      BY <1>2, <2>2 DEF Held, InRound, InCall, Caller
    <3>2. /\ begun = 0 \/ (pc["exec"] = "lock" /\ begun = Base - Interval)
          /\ called >= Base - (IF pc["exec"] = "lock" THEN 2 * Interval ELSE Interval)
          /\ pc["exec"] = "lock" => begun # 0
      BY <1>8, <3>1 DEF Reads, Course
    <3>3. /\ Ahead(q) <=> pc["exec"] = "lock"
          /\ Young(q)
      BY <3>1, <3>2 DEF Ahead, Young
    <3>4. ~book[q].firm /\ trigger[q] \in Nat \ {0} /\ count[q] \in Nat
      BY <1>8, <3>3, Numbers DEF Reads, Kept
    <3>5. trigger[q] = 1 => Turn(q)
      BY <3>4 DEF Turn, Due
    <3>6. CASE trigger[q] = 1
      BY <1>6, <3>2, <3>3, <3>4, <3>5, <3>6 DEF Edge, Slack
    <3>7. CASE trigger[q] # 1
      <4>1. trigger[q] > 1 /\ Slack(q, book[q].firm) \in {0, Interval}
        BY <3>4, <3>7 DEF Slack
      <4> QED
        BY <1>6, <3>2, <3>3, <4>1 DEF Edge, Exempt
    <3> QED
      BY <3>6, <3>7
  <2> QED
    BY <2>1, <2>2 DEF Caller
<1>9. ASSUME NEW q \in Consumer, Promised(q), Behind(q), trigger[q] = 1
      PROVE  ~Ahead(q) /\ t >= Edge(q) - Slack(q, FALSE)
  <2>1. pc["exec"] \in InRound /\ pc["first"] \notin InRound
    BY <1>9 DEF Behind, InRound, Held, Caller
  <2>2. c = "exec" /\ pc["exec"] \in InCall
    BY <1>2, <2>1 DEF Caller, InRound, InCall
  <2>3. called >= low + Interval /\ InBounds
    BY <1>9, <2>1, <2>2, Bounds DEF Reads, Course
  <2>4. ~Ahead(q)
    BY <1>9, <2>1 DEF Ahead, InRound
  <2>5. Turn(q)
    BY <1>9, Numbers DEF Turn, Due
  <2> QED
    BY <1>6, <2>3, <2>4, <2>5 DEF Edge, Slack, InBounds
<1>10. ASSUME NEW q \in Consumer PROVE Kept(q)'
  <2>1. CASE ~Promised(q)'
    BY <2>1 DEF Kept
  <2>2. CASE Promised(q)' /\ book'[q] = book[q]
    BY <1>5, <2>2, KeptSame DEF Reads
  <2>3. CASE Promised(q)' /\ ~Behind(q) /\ book'[q] = Add(q, {t}, FALSE)
    <3>1. /\ Promised(q) /\ next # 0 /\ Kept(q) /\ Same(q) /\ {t} \in SUBSET Nat
          /\ Exempt(q, t) \/ t >= Edge(q) - Slack(q, book[q].firm)
      BY <1>5, <1>6, <1>7, <1>8, <2>3 DEF Reads
    <3>2. /\ book'[q].unread = book[q].unread \cup {t} /\ book'[q].from = book[q].from
          /\ book'[q].firm <=> book[q].firm
      BY <2>3, <3>1, Numbers DEF Add, Promised
    <3>3. ~book[q].firm /\ Ahead(q) => low = Base - 2 * Interval
      BY <3>1 DEF Kept
    <3> QED
      BY <3>1, <3>2, <3>3, KeptAdd DEF Slack
  <2>4. CASE Promised(q)' /\ Behind(q) /\ trigger[q] = 1 /\ book'[q] = Add(q, {t}, TRUE)
    <3>1. /\ Promised(q) /\ next # 0 /\ Kept(q) /\ Same(q) /\ {t} \in SUBSET Nat
          /\ ~Ahead(q) /\ t >= Edge(q) - Slack(q, FALSE)
      BY <1>5, <1>6, <1>7, <1>9, <2>4 DEF Reads
    <3>2. /\ book'[q].unread = book[q].unread \cup {t} /\ book'[q].from = book[q].from
          /\ ~book'[q].firm
      <4>1. {t} # {}
        OBVIOUS
      <4>2. (TRUE /\ {t} # {}) <=> TRUE
        BY <4>1
      <4> QED
        BY <2>4, <3>1, <4>1, <4>2, Numbers DEF Add, Promised
    <3> QED
      BY <3>1, <3>2, KeptAdd DEF Slack
  <2> QED
    BY <1>7, <2>1, <2>2, <2>3, <2>4
<1>11. InPhase'
  BY <1>2, <1>5, <1>7, PhaseSame DEF Reads
<1>12. Slipped'
  <2>1. ASSUME NEW p \in Consumer, Promised(p)', Cat[p] = "processor"
        PROVE  book'[p].firm = book[p].firm
    <3>1. book[p].firm \in BOOLEAN
      BY Numbers
    <3>2. Promised(p) /\ (book'[p] = book[p] \/ book'[p] = Add(p, {t}, FALSE))
      BY <1>7, <2>1
    <3> QED
      BY <3>1, <3>2 DEF Add, Promised
  <2>2. \A p \in Consumer : Young(p) => Young(p)'
    BY <1>5 DEF Young, Same
  <2> QED
    BY <1>2, <1>7, <2>1, <2>2, SlippedSame DEF Reads
<1>13. Clocked' /\ Counted'
  BY <1>2, <1>3, <1>4 DEF Reads, Clocked, Counted, At
<1>14. Course'
  <2>1. (\E q \in Consumer : Promised(q)') => \E q \in Consumer : Promised(q)
    BY <1>7
  <2> QED
    BY <1>2, <1>3, <1>4, <2>1 DEF Reads, Course
<1> QED
  BY <1>10, <1>11, <1>12, <1>13, <1>14 DEF Reads

(* Nothing is kept of a book that is lost, and before the first tick no    *)
(* range has been given.                                                   *)
Blank == \A q \in Consumer :
  /\ book[q].lost => book[q] = Lost
  /\ begun = 0 => book[q].from = 0

(* The end of a call moves the turn on. *)
LEMMA EndRun ==
  ASSUME TypeOK, Reads, Held, InPlace, End("exec"), NEW a, a = At("exec")
  PROVE  /\ a \in Plugin /\ pc["exec"] \in InRound /\ Ahead(a) /\ UNCHANGED trigger
         /\ \A q \in Consumer : Promised(q) => InBounds
         /\ \A q \in Consumer \ {a} : Same(q) /\ (RoundTurn(q)' <=> RoundTurn(q))
         /\ a \in Consumer =>
              /\ Turning(a) /\ Turn(a) /\ RoundTurn(a) /\ (Turn(a)' <=> trigger[a] = 1)
              /\ trigger[a] > 1 => RoundTurn(a)'
         /\ Clocked' /\ Counted'
         /\ (\A q \in Consumer : Promised(q)' => Promised(q)) => Course'
<1>1. /\ pc["exec"] \in InCall /\ pc["exec"] \in InRound /\ pos["exec"] <= Len(Order)
      /\ pc'["exec"] = "round" /\ pc'["first"] = pc["first"] /\ pos'["exec"] = pos["exec"] + 1
      /\ UNCHANGED <<now, next, pend, stop, low, interval, trigger, count, begun>>
  BY DEF End, InPlace, Length, InCall, InRound, Go, TypeOK, RunTypeOK, Caller, clockVars, stopVars
<1>2. Base' = Base /\ pc'["exec"] \in InRound /\ pc'["exec"] \notin InCall
  BY <1>1 DEF Base, InRound, InCall
<1>3. a \in Plugin /\ ~Behind(a) /\ Ahead(a)
  BY <1>1, AtAhead
<1>4. ASSUME NEW q PROVE Behind(q)' <=> (Behind(q) \/ q = a)
  BY <1>1, <1>2, Advance
<1>5. \A q \in Consumer : Promised(q) => InBounds
  BY <1>1, Bounds
<1>6. ASSUME NEW q \in Consumer
      PROVE  /\ Turn(q) <=> Due(q) \/ q = a
             /\ Turn(q)' <=> Due(q)
             /\ Ahead(q) <=> ~Behind(q)
             /\ Ahead(q)' <=> ~(Behind(q) \/ q = a)
             /\ RoundTurn(q) <=> IF Behind(q) THEN ~Due(q) ELSE Turn(q)
             /\ RoundTurn(q)' <=> IF Behind(q) \/ q = a THEN ~Due(q) ELSE Due(q)
  BY <1>1, <1>2, <1>4 DEF Turn, Ahead, RoundTurn, Due, InRound
<1>7. ASSUME NEW q \in Consumer \ {a}
      PROVE  Same(q) /\ (RoundTurn(q)' <=> RoundTurn(q))
  BY <1>1, <1>2, <1>6 DEF Same
<1>8. ASSUME a \in Consumer
      PROVE  /\ Turning(a) /\ Turn(a) /\ RoundTurn(a) /\ (Turn(a)' <=> trigger[a] = 1)
             /\ trigger[a] > 1 => RoundTurn(a)'
  <2>1. count[a] = 0 /\ trigger[a] \in Nat \ {0}
    BY <1>1, <1>8, Numbers DEF Reads, Counted
  <2>2. Due(a) <=> trigger[a] = 1
    BY <2>1 DEF Due
  <2> QED
    BY <1>1, <1>2, <1>3, <1>6, <1>8, <2>1, <2>2 DEF Turning
<1>9. Clocked' /\ Counted'
  BY <1>1, <1>2 DEF Reads, Clocked, Counted, InRound, Waiting
<1>10. pc["first"] \notin InRound
  BY <1>1 DEF Held, InRound, Caller
<1>11. ASSUME \A q \in Consumer : Promised(q)' => Promised(q) PROVE Course'
  BY <1>1, <1>2, <1>10, <1>11 DEF Reads, Course, InRound, InCall
<1> QED
  BY <1>1, <1>3, <1>5, <1>7, <1>8, <1>9, <1>11

(* An input has nothing to read. *)
LEMMA StepCollect == ASSUME TypeOK, Reads, Held, InPlace, Collect("exec") PROVE Reads'
<1>1. End("exec") /\ At("exec") \notin Consumer /\ UNCHANGED book
  BY DEF Collect, Consumer
<1>2. \A q \in Consumer : Same(q) /\ (RoundTurn(q)' <=> RoundTurn(q))
  BY <1>1, EndRun
<1>3. InPhase' /\ Slipped' /\ \A q \in Consumer : Kept(q)' /\ (Promised(q)' => Promised(q))
  BY <1>1, <1>2, ReadsSame
<1> QED
  BY <1>1, <1>3, EndRun DEF Reads

(* An aggregator or an output has read its range. *)
LEMMA StepRead ==
  ASSUME TypeOK, Reads, Held, InPlace, Converge("exec") \/ Write("exec")
  PROVE  Reads'
<1>1. PICK a : a = At("exec")
  OBVIOUS
<1>2. End("exec") /\ a \in Consumer /\ book' = [book EXCEPT ![a] = Read(a)]
  BY <1>1, EndRun DEF Converge, Write, Consumer
<1>3. \A q \in Consumer : book'[q] = IF q = a THEN Read(a) ELSE book[q]
  BY <1>2 DEF TypeOK, DataTypeOK
<1>4. ASSUME NEW q \in Consumer, Promised(q)' PROVE Promised(q)
  BY <1>3, <1>4 DEF Promised, Read, Lost
<1>5. ASSUME NEW q \in Consumer PROVE Kept(q)'
  <2>1. CASE q = a
    BY <1>1, <1>2, <1>3, <2>1, EndRun, KeptRead DEF Reads
  <2>2. CASE q # a
    BY <1>1, <1>2, <1>3, <2>2, EndRun, KeptSame DEF Reads
  <2> QED
    BY <2>1, <2>2
<1>6. InPhase'
  BY <1>1, <1>2, <1>4, EndRun, PhaseSame DEF Reads
<1>7. Slipped'
  <2>1. Cat[a] # "processor"
    BY <1>1 DEF Converge, Write
  <2>2. \A p \in Consumer \ {a} : book'[p].firm = book[p].firm /\ (Young(p) => Young(p)')
    BY <1>1, <1>2, <1>3, EndRun DEF Young, Same
  <2> QED
    BY <1>1, <1>2, <1>4, <2>1, <2>2, EndRun, SlippedSame DEF Reads
<1> QED
  BY <1>1, <1>2, <1>4, <1>5, <1>6, <1>7, EndRun DEF Reads

(* A call has failed: the readers of a processor would get its results     *)
(* too late.                                                               *)
LEMMA StepFail == ASSUME TypeOK, Reads, Held, InPlace, Fail("exec") PROVE Reads'
<1>1. PICK a : a = At("exec")
  OBVIOUS
<1>2. End("exec")
  BY DEF Fail
<1>3. ASSUME NEW q \in Consumer
      PROVE  /\ q = a => book'[q] = IF book[q].firm
                           THEN [book[q] EXCEPT !.from = low, !.firm = FALSE] ELSE Lost
             /\ q # a /\ Cat[a] = "processor" /\ q \in Feeds[a] => book'[q] = Lost
             /\ q # a => book'[q] = book[q] \/ book'[q] = Lost
  BY <1>1 DEF Fail
<1>4. Lost.lost = TRUE
  BY DEF Lost
<1>5. ASSUME NEW q \in Consumer, Promised(q)' PROVE Promised(q)
  <2>1. book[q] \in Book
    BY DEF TypeOK, DataTypeOK
  <2>2. CASE q = a /\ book[q].firm
    <3>1. book'[q] = [book[q] EXCEPT !.from = low, !.firm = FALSE]
      BY <1>3, <2>2
    <3>2. book'[q].lost = book[q].lost
      BY <2>1, <3>1 DEF Book
    <3> QED
      BY <1>5, <3>2 DEF Promised
  <2>3. CASE q = a /\ ~book[q].firm
    BY <1>3, <1>4, <1>5, <2>3 DEF Promised
  <2>4. CASE q # a
    BY <1>3, <1>4, <1>5, <2>4 DEF Promised
  <2> QED
    BY <2>2, <2>3, <2>4
<1>6. ASSUME NEW q \in Consumer PROVE Kept(q)'
  <2>1. CASE q = a
    BY <1>1, <1>2, <1>3, <2>1, EndRun, KeptFail DEF Reads
  <2>2. CASE q # a
    <3>1. book'[q] = book[q] \/ book'[q].lost
      BY <1>3, <1>4, <2>2
    <3> QED
      BY <1>1, <1>2, <2>2, <3>1, EndRun, KeptSame DEF Reads
  <2> QED
    BY <2>1, <2>2
<1>7. InPhase'
  BY <1>1, <1>2, <1>5, EndRun, PhaseSame DEF Reads
<1>8. Slipped'
  <2>1. ASSUME a \in Plugin, Cat[a] = "processor", NEW q \in Feeds[a] PROVE ~Promised(q)'
    <3>1. q \in Consumer /\ q # a
      BY <2>1, ExecutorAssumption DEF Consumer
    <3> QED
      BY <1>3, <1>4, <2>1, <3>1 DEF Promised
  <2>2. ASSUME NEW p \in Consumer \ {a}, Promised(p)'
        PROVE  book'[p].firm = book[p].firm /\ (Young(p) => Young(p)')
    <3>1. book'[p] = book[p]
      BY <1>3, <1>4, <2>2 DEF Promised
    <3> QED
      BY <1>1, <1>2, <2>2, <3>1, EndRun DEF Young, Same
  <2> QED
    BY <1>1, <1>2, <1>5, <2>1, <2>2, EndRun, SlippedSame DEF Reads
<1> QED
  BY <1>1, <1>2, <1>5, <1>6, <1>7, <1>8, EndRun DEF Reads

(* Those a processor feeds have their turn after it. *)
LEMMA FedAhead ==
  ASSUME TypeOK, pc["exec"] \in InRound, pos["exec"] <= Len(Order), NEW a, a = At("exec"),
         Cat[a] = "processor", NEW q \in Feeds[a]
  PROVE  /\ q \in Consumer /\ q # a /\ Cat[q] # "processor"
         /\ ~Behind(q) /\ Ahead(q)
<1>1. Len(Order) \in Nat /\ DOMAIN Order = 1..Len(Order)
  BY ExecutorAssumption
<1>2. pos["exec"] \in Nat \ {0} /\ pos["exec"] \in DOMAIN Order
  BY <1>1 DEF TypeOK, RunTypeOK, Caller
<1>3. a \in Plugin
  BY AtAhead
<1>4. q \in Plugin /\ Cat[q] # "input" /\ Cat[q] # "processor" /\ q \in Consumer
  BY <1>3, ExecutorAssumption DEF Consumer
<1>5. Cat[q] \in {"aggregator", "output"}
  BY <1>4, ExecutorAssumption
<1>6. ~Behind(q)
  <2>1. ASSUME NEW i \in 1..(pos["exec"] - 1), Order[i] = q PROVE FALSE
    <3>1. i \in DOMAIN Order /\ i < pos["exec"]
      BY <1>1, <1>2
    <3>2. Order[pos["exec"]] = a
      BY DEF At
    <3>3. pos["exec"] < i
      BY <1>2, <1>5, <2>1, <3>1, <3>2, ExecutorAssumption
    <3> QED
      BY <1>2, <3>1, <3>3
  <2> QED
    BY <2>1 DEF Behind
<1> QED
  BY <1>4, <1>6 DEF Ahead

(* What a processor stores under the seconds of its data is still to be    *)
(* read by those it feeds.                                                 *)
LEMMA DisposeFeeds ==
  ASSUME TypeOK, Reads, Blank, InBounds, NEW a \in Consumer, NEW q \in Feeds[a],
         Cat[a] = "processor", Ahead(a), RoundTurn(a), Promised(q),
         q \in Consumer, ~Behind(q), Ahead(q), Same(q),
         book'[q] = Add(q, InRange(book[a].unread), ~book[a].firm)
  PROVE  Kept(q)'
<1>1. /\ Interval \in Nat /\ Interval > 0 /\ Base \in Int /\ low \in Int /\ begun \in Nat
      /\ book[a].unread \in SUBSET Nat /\ book[a].firm \in BOOLEAN /\ book[q].firm \in BOOLEAN
      /\ trigger[a] \in Nat \ {0} /\ trigger[q] \in Nat \ {0} /\ count[q] \in Nat
  BY Numbers
<1>2. PICK S : S = InRange(book[a].unread)
  OBVIOUS
<1>3. S \in SUBSET Nat /\ \A v \in S : v \in book[a].unread /\ v \in Nat /\ v >= low
  BY <1>1, <1>2 DEF InRange
<1>4. /\ book'[q].unread = book[q].unread \cup S /\ book'[q].from = book[q].from
      /\ book'[q].firm <=> book[q].firm /\ (book[a].firm \/ S = {})
  <2>1. book'[q] = [unread |-> book[q].unread \cup S, from |-> book[q].from,
                    firm |-> book[q].firm /\ ~(~book[a].firm /\ S # {}), lost |-> FALSE]
    BY <1>2 DEF Add, Promised
  <2> QED
    BY <1>1, <2>1
<1>5. S # {} => Promised(a)
  <2>1. book[a].lost => S = {}
    BY <1>3 DEF Blank, Lost
  <2> QED
    BY <2>1 DEF Promised
<1>6. ASSUME S # {}, ~book[a].firm PROVE low = Base - 2 * Interval
  BY <1>5, <1>6 DEF Reads, Kept
<1>7. ~book'[q].firm /\ Ahead(q) => low = Base - 2 * Interval
  <2>1. ~book[q].firm => low = Base - 2 * Interval
    BY DEF Reads, Kept
  <2> QED
    BY <1>1, <1>4, <1>6, <2>1
<1>8. Edge(q) = Base - Interval /\ Edge(a) = Base - Interval
  BY DEF Edge
<1>9. ASSUME NEW v \in S
      PROVE  v >= Edge(q) - (IF ~book'[q].firm /\ Turn(q) THEN Interval ELSE 0) \/ Exempt(q, v)
  <2>1. v \in Nat /\ v >= low /\ Promised(a) /\ S # {}
    BY <1>3, <1>5, <1>9
  <2>2. CASE book[a].firm
    <3>1. ~(trigger[a] > 1)
      BY <2>1, <2>2 DEF Reads, Kept
    <3>2. v >= Edge(a) - Slack(a, book[a].firm)
      BY <1>3, <1>9, <2>1, <3>1 DEF Reads, Kept, Exempt
    <3>3. v >= Base - Interval
      BY <1>1, <1>8, <2>2, <3>2 DEF Slack
    <3> QED
      BY <1>1, <1>8, <2>1, <3>3
  <2>3. CASE ~book[a].firm
    <3>1. v >= Base - 2 * Interval /\ ~book'[q].firm
      BY <1>4, <1>6, <2>1, <2>3
    <3>2. CASE Turn(q)
      BY <1>1, <1>8, <2>1, <3>1, <3>2
    <3>3. CASE ~Turn(q)
      <4>1. trigger[q] > 1
        BY <1>1, <3>3 DEF Turn, Due
      <4>2. ~(trigger[a] > 1)
        <5>1. ~RoundTurn(q)
          BY <3>3 DEF RoundTurn
        <5> QED
          BY <2>1, <4>1, <5>1 DEF Reads, InPhase
      <4>3. trigger[a] = 1
        BY <1>1, <4>2
      <4>4. begun = Base - Interval
        BY <2>1, <2>3, <4>3 DEF Reads, Slipped, Young, InBounds
      <4> QED
        BY <1>1, <1>8, <2>1, <4>1, <4>4 DEF Exempt
    <3> QED
      BY <3>2, <3>3
  <2> QED
    BY <2>2, <2>3
<1> QED
  BY <1>3, <1>4, <1>7, <1>9, KeptAdd DEF Reads, InBounds

(* A processor has read its range, and those it feeds find its results.    *)
LEMMA StepDispose ==
  ASSUME TypeOK, Reads, Blank, Held, InPlace, Dispose("exec")
  PROVE  Reads'
<1>1. PICK a : a = At("exec")
  OBVIOUS
<1>2. End("exec") /\ Cat[a] = "processor"
  BY <1>1 DEF Dispose
<1>3. a \in Consumer
  BY <1>1, <1>2, EndRun DEF Consumer
<1>4. pos["exec"] <= Len(Order)
  BY <1>2 DEF End, InPlace, Length, Caller
<1>5. ASSUME NEW q \in Consumer
      PROVE  /\ q = a => book'[q] = Read(a)
             /\ q # a /\ q \in Feeds[a] =>
                  book'[q] = Add(q, InRange(book[a].unread), ~book[a].firm)
             /\ q # a /\ q \notin Feeds[a] => book'[q] = book[q]
  BY <1>1 DEF Dispose
<1>6. ASSUME NEW q \in Consumer, Promised(q)' PROVE Promised(q)
  <2>1. ASSUME book[q].lost PROVE book'[q].lost
    <3>1. CASE q = a
      BY <1>5, <2>1, <3>1 DEF Read, Lost
    <3>2. CASE q # a /\ q \in Feeds[a]
      <4>1. book'[q] = Lost
        BY <1>5, <2>1, <3>2 DEF Add
      <4> QED
        BY <4>1 DEF Lost
    <3>3. CASE q # a /\ q \notin Feeds[a]
      BY <1>5, <2>1, <3>3
    <3> QED
      BY <3>1, <3>2, <3>3
  <2> QED
    BY <1>6, <2>1 DEF Promised
<1>7. ASSUME NEW q \in Consumer PROVE Kept(q)'
  <2>1. CASE q = a
    BY <1>1, <1>2, <1>3, <1>5, <2>1, EndRun, KeptRead DEF Reads
  <2>2. CASE q # a /\ q \in Feeds[a] /\ Promised(q)'
    <3>1. Promised(q)
      BY <1>6, <2>2
    <3>2. ~Behind(q) /\ Ahead(q)
      BY <1>1, <1>2, <1>4, <2>2, EndRun, FedAhead
    <3> QED
      BY <1>1, <1>2, <1>3, <1>5, <2>2, <3>1, <3>2, EndRun, DisposeFeeds
  <2>3. CASE q # a /\ q \in Feeds[a] /\ ~Promised(q)'
    BY <2>3 DEF Kept
  <2>4. CASE q # a /\ q \notin Feeds[a]
    BY <1>1, <1>2, <1>5, <2>4, EndRun, KeptSame DEF Reads
  <2> QED
    BY <2>1, <2>2, <2>3, <2>4
<1>8. InPhase'
  BY <1>1, <1>2, <1>6, EndRun, PhaseSame DEF Reads
<1>9. Slipped'
  <2>1. ASSUME Promised(a)', trigger[a] = 1 PROVE book'[a].firm
    <3>1. book'[a] = Read(a) /\ Promised(a)
      BY <1>3, <1>5, <1>6, <2>1
    <3>2. book'[a].firm = (book[a].firm \/ trigger[a] = 1)
      BY <3>1 DEF Read, Promised
    <3> QED
      BY <2>1, <3>2
  <2>2. ASSUME NEW p \in Consumer \ {a}, Cat[p] = "processor"
        PROVE  book'[p].firm = book[p].firm /\ (Young(p) => Young(p)')
    <3>1. p \notin Feeds[a]
      BY <1>1, <1>2, <1>4, <2>2, EndRun, FedAhead
    <3>2. book'[p] = book[p]
      BY <1>5, <2>2, <3>1
    <3> QED
      BY <1>1, <1>2, <2>2, <3>2, EndRun DEF Young, Same
  <2> QED
    BY <1>1, <1>2, <1>6, <2>1, <2>2, EndRun, SlippedSame DEF Reads
<1> QED
  BY <1>1, <1>2, <1>6, <1>7, <1>8, <1>9, EndRun DEF Reads

(* What a lost book holds is settled where it is lost. *)
LEMMA BlankStep ==
  ASSUME Blank, begun' = 0 => begun = 0,
         \A q \in Consumer :
           \/ book'[q] = book[q] \/ book'[q] = Lost
           \/ ~book'[q].lost /\ (begun = 0 => book'[q].from = book[q].from)
  PROVE  Blank'
<1>1. Lost.from = 0
  BY DEF Lost
<1> QED
  BY <1>1 DEF Blank

(* So it is where a promise is withdrawn, *)
LEMMA BlankLose ==
  ASSUME Blank, begun' = 0 => begun = 0, NEW S, Lose(S)
  PROVE  Blank'
<1>1. \A q \in Consumer : book'[q] = Lost \/ book'[q] = book[q]
  BY DEF Lose
<1> QED
  BY <1>1, BlankStep

(* A range is given to a plugin in a round only. *)
LEMMA BlankEnd ==
  ASSUME TypeOK, Reads, Blank, InPlace, NEW c \in Caller, End(c),
         Collect(c) \/ Dispose(c) \/ Converge(c) \/ Write(c) \/ Fail(c)
  PROVE  Blank'
<1>1. begun' = begun /\ At(c) \in Plugin /\ pos[c] <= Length(c) /\ pc[c] \in InRound
  BY AtType DEF End, InPlace, TypeOK, InRound
<1>2. ASSUME At(c) \in Consumer, Promised(At(c)) PROVE begun # 0
  <2>1. c = "exec"
    BY <1>1, <1>2, AtFirst DEF Consumer, Caller
  <2>2. pc["exec"] \in InRound
    BY <1>1, <2>1
  <2> QED
    BY <1>2, <2>2 DEF Reads, Course
<1>3. ASSUME NEW q \in Consumer
      PROVE  \/ book'[q] = book[q] \/ book'[q] = Lost
             \/ ~book'[q].lost /\ (begun = 0 => book'[q].from = book[q].from)
  <2>1. Read(q) = Lost \/ (Promised(q) /\ ~Read(q).lost)
    BY DEF Read, Promised
  <2>2. ASSUME NEW S, NEW old
        PROVE  Add(q, S, old) = Lost
               \/ (~Add(q, S, old).lost /\ Add(q, S, old).from = book[q].from)
    BY DEF Add
  <2>3. CASE Collect(c)
    BY <2>3 DEF Collect
  <2>4. CASE Dispose(c)
    <3>1. CASE q = At(c)
      <4>1. book'[q] = Read(q)
        BY <2>4, <3>1 DEF Dispose
      <4> QED
        BY <1>2, <2>1, <3>1, <4>1
    <3>2. CASE q # At(c) /\ q \in Feeds[At(c)]
      <4>1. book'[q] = Add(q, InRange(book[At(c)].unread), ~book[At(c)].firm)
        BY <2>4, <3>2 DEF Dispose
      <4> QED
        BY <2>2, <4>1
    <3>3. CASE q # At(c) /\ q \notin Feeds[At(c)]
      BY <2>4, <3>3 DEF Dispose
    <3> QED
      BY <3>1, <3>2, <3>3
  <2>5. CASE Converge(c) \/ Write(c)
    <3>1. book'[q] = IF q = At(c) THEN Read(At(c)) ELSE book[q]
      BY <2>5 DEF Converge, Write, TypeOK, DataTypeOK
    <3> QED
      BY <1>2, <2>1, <3>1
  <2>6. CASE Fail(c)
    <3>1. CASE q = At(c) /\ book[q].firm
      <4>1. book'[q] = [book[q] EXCEPT !.from = low, !.firm = FALSE]
        BY <2>6, <3>1 DEF Fail
      <4>2. book[q] \in Book
        BY DEF TypeOK, DataTypeOK
      <4>3. Promised(q)
        <5>1. ~Lost.firm
          BY DEF Lost
        <5> QED
          BY <3>1, <5>1 DEF Blank, Promised
      <4>4. ~book'[q].lost
        BY <4>1, <4>2, <4>3 DEF Book, Promised
      <4> QED
        BY <1>2, <3>1, <4>3, <4>4
    <3>2. CASE q = At(c) /\ ~book[q].firm
      BY <2>6, <3>2 DEF Fail
    <3>3. CASE q # At(c)
      BY <2>6, <3>3 DEF Fail
    <3> QED
      BY <3>1, <3>2, <3>3
  <2> QED
    BY <2>3, <2>4, <2>5, <2>6
<1> QED
  BY <1>1, <1>3, BlankStep

(* and where a value is stored. *)
LEMMA BlankAdd ==
  ASSUME Blank, NEW c \in Caller, AddField(c)
  PROVE  Blank'
<1>1. PICK t \in called .. now : book' = [q \in Consumer |->
             IF q \in Feeds[At(c)] THEN Store(q, t) ELSE book[q]]
  BY DEF AddField
<1>2. ASSUME NEW q \in Consumer
      PROVE  \/ book'[q] = book[q] \/ book'[q] = Lost
             \/ ~book'[q].lost /\ (begun = 0 => book'[q].from = book[q].from)
  <2>1. ASSUME NEW S, NEW old
        PROVE  Add(q, S, old) = Lost
               \/ (~Add(q, S, old).lost /\ Add(q, S, old).from = book[q].from)
    BY DEF Add
  <2>2. Store(q, t) = Lost \/ Store(q, t) = Add(q, {t}, Behind(q))
    BY DEF Store
  <2> QED
    BY <1>1, <2>1, <2>2
<1>3. begun' = begun
  BY DEF AddField
<1> QED
  BY <1>2, <1>3, BlankStep

(* Every step leaves the lost books blank. *)
LEMMA StepBlank == TypeOK /\ Reads /\ Blank /\ InPlace /\ [Next]_vars => Blank'
<1> SUFFICES ASSUME TypeOK, Reads, Blank, InPlace, [Next]_vars PROVE Blank'
  OBVIOUS
<1>1. CASE UNCHANGED <<begun, book>>
  BY <1>1 DEF Blank
<1>2. CASE Fire
  <2>1. begun' = begun /\ (UNCHANGED book \/ \E S \in {Consumer, {}} : Lose(S))
    BY <1>2 DEF Fire
  <2> QED
    BY <2>1, <1>1, BlankLose
<1>3. CASE Tick
  <2>1. begun' = 0 => begun = 0
    BY <1>3 DEF Tick
  <2> QED
    BY <1>3, <2>1, BlankLose DEF Tick
<1>4. CASE Swap
  BY <1>4, BlankLose DEF Swap
<1>5. ASSUME NEW i \in NewIntervals \cup {interval}, SwapConf(i) PROVE Blank'
  BY <1>5, BlankLose DEF SwapConf
<1>6. CASE Cancel
  BY <1>6, BlankLose DEF Cancel
<1>7. ASSUME NEW c \in Caller, AddField(c) PROVE Blank'
  BY <1>7, BlankAdd
<1>8. ASSUME NEW c \in Caller, Collect(c) \/ Dispose(c) \/ Converge(c) \/ Write(c) \/ Fail(c)
      PROVE  Blank'
  BY <1>8, BlankEnd DEF Collect, Dispose, Converge, Write, Fail
<1>9. CASE Aside
  BY <1>9, <1>1 DEF Aside, ReadNow, Adjust, WaitGapTicker, Done, Signal, Reply,
    SwapPanic, ReplyPanic, RecvLoadPanic, RecvSendPanic, Panic, RecvLoad, RecvSend,
    RecvFinish, RecvDone, RemoveUpdate, CloseReady, CloseFinish, CloseTicker, Quit,
    vars, CallPanic, ReturnPanic, RecvBatch, RemoveRunning, dataVars
<1>10. CASE Pass \/ Start \/ FirstCheck
  BY <1>10, <1>1 DEF Pass, Start, FirstCheck, dataVars
<1>11. ASSUME NEW c \in Caller, Lock(c) \/ Unlock(c) \/ Skip(c) \/ Call(c) PROVE Blank'
  BY <1>11, <1>1 DEF Lock, Unlock, Skip, Call, dataVars
<1> QED
  BY <1>2, <1>3, <1>4, <1>5, <1>6, <1>7, <1>8, <1>9, <1>10, <1>11
  DEF Next, Time, Execute, Run, Receive, Stop, Aside

(* The promises hold of every step. *)
LEMMA StepReads == TypeOK /\ Reads /\ Blank /\ InPlace /\ Held /\ [Next]_vars => Reads'
<1> SUFFICES ASSUME TypeOK, Reads, Blank, InPlace, Held, [Next]_vars PROVE Reads'
  OBVIOUS
<1>1. CASE Aside \/ Pass \/ Fire \/ Start \/ FirstCheck \/ Tick \/ Cancel \/ Swap
  BY <1>1, StepAside, StepPass, StepFire, StepStart, StepFirstCheck, StepTick,
     StepCancel, StepSwap
<1>2. ASSUME NEW i \in NewIntervals \cup {interval}, SwapConf(i) PROVE Reads'
  BY <1>2, StepSwapConf
<1>3. ASSUME NEW c \in Caller, Lock(c) \/ Unlock(c) \/ AddField(c) PROVE Reads'
  BY <1>3, StepLock, StepUnlock, StepAddField
<1>4. ASSUME Skip("exec") \/ Call("exec") \/ Collect("exec") \/ Fail("exec") PROVE Reads'
  BY <1>4, StepSkip, StepCall, StepCollect, StepFail
<1>5. ASSUME Dispose("exec") \/ Converge("exec") \/ Write("exec") PROVE Reads'
  BY <1>5, StepDispose, StepRead
<1>6. ASSUME Skip("first") \/ Call("first") \/ Collect("first") \/ Fail("first") PROVE Reads'
  BY <1>6, StepFirst
<1>7. ASSUME Dispose("first") \/ Converge("first") \/ Write("first") PROVE FALSE
  <2>1. pos["first"] <= Length("first")
    BY <1>7 DEF Dispose, Converge, Write, End, InPlace, Caller
  <2> QED
    BY <1>7, <2>1, AtFirst DEF Dispose, Converge, Write
<1>8. CASE \E c \in Caller : Run(c)
  <2>1. PICK c \in Caller : Run(c)
    BY <1>8
  <2>2. CASE c = "exec"
    BY <1>1, <1>3, <1>4, <1>5, <2>1, <2>2 DEF Run, Aside
  <2>3. CASE c = "first"
    BY <1>1, <1>3, <1>6, <1>7, <2>1, <2>3 DEF Run, Aside
  <2> QED
    BY <2>2, <2>3 DEF Caller
<1> QED
  BY <1>1, <1>2, <1>8 DEF Next, Time, Execute, Receive, Stop, Aside

(* At the start nothing has been stored, and what runs every third round   *)
(* or more rarely is promised nothing.                                     *)
LEMMA InitReads == Init => Reads /\ Blank
<1> SUFFICES ASSUME Init PROVE Reads /\ Blank
  OBVIOUS
<1>1. /\ next = 0 /\ pend = FALSE /\ begun = 0 /\ stop = "no" /\ interval = Interval
      /\ pc["exec"] = "adjust" /\ pc["first"] = "idle"
  BY DEF Init, Caller
<1>2. ASSUME NEW q \in Consumer
      PROVE  /\ trigger[q] = TriggerInterval(q, Interval) /\ count[q] = 0
             /\ trigger[q] \in Nat \ {0}
             /\ book[q] = IF trigger[q] > 2 THEN Lost ELSE [Lost EXCEPT !.lost = FALSE]
  BY TriggerType, ExecutorAssumption DEF Init, Consumer
<1>3. pc["exec"] \notin InRound /\ pc["exec"] \notin InCall /\ pc["exec"] # "lock"
  BY <1>1 DEF InRound, InCall
<1>4. ASSUME NEW q \in Consumer
      PROVE  /\ ~Ahead(q)
             /\ Promised(q) <=> ~(trigger[q] > 2)
             /\ book[q].unread = {} /\ book[q].from = 0 /\ ~book[q].firm
             /\ book[q].lost => book[q] = Lost
  BY <1>2, <1>3 DEF Ahead, Promised, Lost
<1>5. ASSUME NEW q \in Consumer PROVE Kept(q)
  BY <1>1, <1>2, <1>4 DEF Kept
<1>6. Clocked /\ Course /\ Counted
  BY <1>1, <1>3 DEF Clocked, Course, Counted, Waiting, InRound, InCall
<1>7. InPhase
  <2>1. ASSUME NEW q \in Consumer, trigger[q] > 1 PROVE ~RoundTurn(q)
    BY <1>2, <1>3, <2>1 DEF RoundTurn, Turn, Due
  <2> QED
    BY <2>1 DEF InPhase
<1>8. Slipped
  BY <1>1 DEF Slipped, Young
<1> QED
  BY <1>4, <1>5, <1>6, <1>7, <1>8 DEF Reads, Blank

(* What a consumer has not read it will be given, or has missed for the    *)
(* reason the property excepts.                                            *)
LEMMA ReadsAll == TypeOK /\ Reads /\ Blank => NothingMissed
<1> SUFFICES ASSUME TypeOK, Reads, Blank, NEW q \in Consumer, NEW v \in book[q].unread
             PROVE  v >= book[q].from \/ (trigger[q] > 1 /\ v < begun)
  BY DEF NothingMissed
<1>1. /\ v \in Nat /\ Interval \in Nat /\ Interval > 0 /\ Base \in Int
      /\ book[q].from \in Int
  BY Numbers
<1>2. Kept(q) /\ Promised(q)
  BY DEF Reads, Blank, Lost, Promised
<1>3. next # 0 /\ book[q].from <= Edge(q) - Interval
  BY <1>2 DEF Kept
<1>4. CASE v >= Edge(q) - Slack(q, book[q].firm)
  BY <1>1, <1>3, <1>4 DEF Edge, Slack
<1>5. CASE Exempt(q, v)
  BY <1>1, <1>5 DEF Exempt, Blank
<1> QED
  BY <1>2, <1>3, <1>4, <1>5 DEF Kept

(* While none of its ticks was dropped and nothing the book excepts has    *)
(* happened, the ranges that generateTimeRange gives a plugin leave no      *)
(* stored value behind, whatever the intervals, the delays and the order   *)
(* of the plugins.                                                         *)
THEOREM EveryValueRead == Spec => []NothingMissed
<1> DEFINE Inv == IInv /\ Reads /\ Blank
<1>1. Init => Inv
  BY InitIInv, InitReads
<1>2. IInv => TypeOK /\ InPlace /\ Held
  BY DEF IInv, Typed, Rounds
<1>3. IInv /\ [Next]_vars => IInv'
  BY StepType, StepInPlace, StepRounds, StepSafe DEF IInv, Typed
<1>4. Inv /\ [Next]_vars => Inv'
  BY <1>2, <1>3, StepReads, StepBlank
<1>5. Inv => NothingMissed
  BY <1>2, ReadsAll
<1> QED
  BY <1>1, <1>4, <1>5, PTL DEF Spec

=============================================================================
