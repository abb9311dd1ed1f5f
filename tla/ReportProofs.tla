---------------------------- MODULE ReportProofs ----------------------------
(***************************************************************************)
(* Proofs about Report for every number of reports, capacity, expiration,  *)
(* number of failures, stops and kills.                                    *)
(***************************************************************************)
EXTENDS Report, SequenceTheorems, TLAPS

(* The goroutines hold something exactly while they work on it. *)
Control ==
  /\ receive \in {"post", "save"} <=> detail # Nothing
  /\ retry \in {"post", "delete"} <=> current # Nothing
  /\ retry = "delete" => current[2] \in settled
  /\ proc = "down" => receive = "select" /\ retry = "select" /\ answered = {}
  /\ retry \notin {"next", "post", "delete", "check"} => retry = "read" \/ dataMap = {}

(* What is stored, read or retried was saved under its key. *)
Saved(e) == e[2] \in slots[e[1]]
Origin ==
  /\ \A t \in Time : bucket[t] # Nothing => bucket[t] \in slots[t]
  /\ \A e \in dataMap : Saved(e)
  /\ current # Nothing => Saved(current)

(* A report is saved at most once, and what is in memory never was. *)
Channel == {dataChannel[i] : i \in DOMAIN dataChannel}
Fresh ==
  /\ InMemory \subseteq 1..made
  /\ \A r \in InMemory : \A t \in Time : r \notin slots[t]
  /\ \A t, u \in Time : \A r \in slots[t] : r \in slots[u] => t = u
  /\ \A t \in Time : slots[t] \subseteq 1..made
  /\ detail \notin Channel
  /\ \A i, j \in DOMAIN dataChannel : dataChannel[i] = dataChannel[j] => i = j

(* What was answered is gone, but for the deletion that is due. *)
Forgotten ==
  /\ answered \cap InMemory = {} /\ answered \subseteq 1..made
  /\ \A e \in dataMap : e[2] \notin answered
  /\ retry = "post" => current[2] \notin answered
  /\ db => \A t \in Time : bucket[t] \in answered =>
             retry = "delete" /\ current = <<t, bucket[t]>>
  /\ \A e, f \in dataMap : e[1] = f[1] => e = f
  /\ \A e \in dataMap : current # Nothing => current[1] # e[1]
  /\ \A e \in dataMap : e[1] \notin keys
  /\ keys # {} => retry = "read"

IInv == TypeOK /\ Control /\ Origin /\ Fresh /\ Forgotten /\ NothingElseLost

(* Reports and entries are not Nothing. *)
LEMMA Somethings ==
  /\ Nothing \notin Report
  /\ TypeOK => Nothing \notin dataMap
<1>1. Report \subseteq Nat /\ Entry \subseteq Nat \X Nat
  BY DEF Report, Entry, Time
<1> QED
  BY <1>1, ReportAssumption DEF TypeOK

(* Every step keeps Control. *)
THEOREM StepControl == IInv /\ [Next]_vars => Control'
<1> SUFFICES ASSUME IInv, [Next]_vars PROVE Control'
  OBVIOUS
<1> USE DEF IInv
<1>1. CASE Clock
  BY <1>1 DEF Clock, Running, Control, TypeOK, Entry, chanVars, recvVars, retryVars, serverVars, procVars, history
<1>2. CASE UploadData
  BY <1>2 DEF UploadData, Running, Control, TypeOK, Entry, chanVars, recvVars, retryVars, serverVars, procVars, history
<1>3. CASE ReceiveTake
  <2>1. detail' \in Report
    BY <1>3 DEF ReceiveTake, TypeOK
  <2> QED
    BY <1>3, <2>1, Somethings DEF ReceiveTake, Running, Control, retryVars, serverVars, procVars
<1>4. CASE ReceiveDone
  BY <1>4 DEF ReceiveDone, Understood, Posting, Posted, Running, Control, TypeOK, Entry, chanVars, recvVars, retryVars, serverVars, procVars, history
<1>5. CASE ReceiveFailed
  BY <1>5 DEF ReceiveFailed, Failed, Posting, Running, Control, TypeOK, Entry, chanVars, recvVars, retryVars, serverVars, procVars, history
<1>6. CASE SaveData
  BY <1>6 DEF SaveData, Running, Control, TypeOK, Entry, chanVars, recvVars, retryVars, serverVars, procVars, history
<1>7. CASE ReceiveQuit
  BY <1>7 DEF ReceiveQuit, Running, Control, TypeOK, Entry, chanVars, recvVars, retryVars, serverVars, procVars, history
<1>8. CASE RetryList
  BY <1>8 DEF RetryList, Stored, Running, Control, TypeOK, Entry, chanVars, recvVars, retryVars, serverVars, procVars, history
<1>9. CASE RetryReadEnd
  BY <1>9 DEF RetryReadEnd, Running, Control, TypeOK, Entry, chanVars, recvVars, retryVars, serverVars, procVars, history
<1>10. CASE RetryOver
  BY <1>10 DEF RetryOver, Running, Control, TypeOK, Entry, chanVars, recvVars, retryVars, serverVars, procVars, history
<1>11. CASE RetryDone
  BY <1>11 DEF RetryDone, Understood, Posting, Posted, Running, Control, TypeOK, Entry, chanVars, recvVars, retryVars, serverVars, procVars, history
<1>12. CASE RetryFailed
  BY <1>12 DEF RetryFailed, Failed, Posting, Running, Control, TypeOK, Entry, chanVars, recvVars, retryVars, serverVars, procVars, history
<1>13. CASE RetryDelete
  BY <1>13 DEF RetryDelete, Running, Control, TypeOK, Entry, chanVars, recvVars, retryVars, serverVars, procVars, history
<1>14. CASE RetryCheck
  BY <1>14 DEF RetryCheck, Running, Control, TypeOK, Entry, chanVars, recvVars, retryVars, serverVars, procVars, history
<1>15. CASE RetryQuit
  BY <1>15 DEF RetryQuit, Running, Control, TypeOK, Entry, chanVars, recvVars, retryVars, serverVars, procVars, history
<1>16. CASE Clean
  BY <1>16 DEF Clean, Stored, Running, Control, TypeOK, Entry, chanVars, recvVars, retryVars, serverVars, procVars, history
<1>17. CASE Stop
  BY <1>17 DEF Stop, Running, Control, TypeOK, Entry, chanVars, recvVars, retryVars, serverVars, procVars, history
<1>18. CASE CloseDataBox
  BY <1>18 DEF CloseDataBox, Running, Control, TypeOK, Entry, chanVars, recvVars, retryVars, serverVars, procVars, history
<1>19. CASE Quit
  BY <1>19 DEF Quit, End, Running, Control, TypeOK, Entry, chanVars, recvVars, retryVars, serverVars, procVars, history
<1>20. CASE Kill
  BY <1>20 DEF Kill, End, Running, Control, TypeOK, Entry, chanVars, recvVars, retryVars, serverVars, procVars, history
<1>21. CASE Boot
  BY <1>21 DEF Boot, Running, Control, TypeOK, Entry, chanVars, recvVars, retryVars, serverVars, procVars, history
<1>22. ASSUME NEW p \in {"receive", "retry"}, Take(p) PROVE Control'
  BY <1>22 DEF Take, Posting, Posted, Running, Control, TypeOK, Entry, chanVars, recvVars, retryVars, serverVars, procVars, history
<1>23. ASSUME NEW t \in keys, RetryRead(t) PROVE Control'
  BY <1>23 DEF RetryRead, Stored, Running, Control, TypeOK, Entry, chanVars, recvVars, retryVars, serverVars, procVars, history
<1>24. ASSUME NEW e \in dataMap, RetryNext(e) PROVE Control'
  <2>1. current' # Nothing
    BY <1>24, Somethings DEF RetryNext
  <2> QED
    BY <1>24, <2>1 DEF RetryNext, Running, Control, recvVars, serverVars, procVars
<1>25. CASE UNCHANGED vars
  BY <1>25 DEF vars, Control, TypeOK, Entry, chanVars, recvVars, retryVars, serverVars, procVars, history
<1> QED
  BY <1>1, <1>2, <1>3, <1>4, <1>5, <1>6, <1>7, <1>8, <1>9, <1>10, <1>11,
     <1>12, <1>13, <1>14, <1>15, <1>16, <1>17, <1>18, <1>19, <1>20, <1>21, <1>22,
     <1>23, <1>24, <1>25
  DEF Next, Receiver, Retrier
(* Every step keeps Origin. *)
THEOREM StepOrigin == IInv /\ [Next]_vars => Origin'
<1> SUFFICES ASSUME IInv, [Next]_vars PROVE Origin'
  OBVIOUS
<1> USE DEF IInv
<1>1. CASE Clock
  BY <1>1 DEF Clock, Running, Origin, Saved, Control, TypeOK, chanVars, recvVars, retryVars, serverVars, procVars, history
<1>2. CASE UploadData
  BY <1>2 DEF UploadData, Running, Origin, Saved, Control, TypeOK, chanVars, recvVars, retryVars, serverVars, procVars, history
<1>3. CASE ReceiveTake
  BY <1>3 DEF ReceiveTake, Running, Origin, Saved, Control, TypeOK, chanVars, recvVars, retryVars, serverVars, procVars, history
<1>4. CASE ReceiveDone
  BY <1>4 DEF ReceiveDone, Understood, Posting, Posted, Running, Origin, Saved, Control, TypeOK, chanVars, recvVars, retryVars, serverVars, procVars, history
<1>5. CASE ReceiveFailed
  BY <1>5 DEF ReceiveFailed, Failed, Posting, Running, Origin, Saved, Control, TypeOK, chanVars, recvVars, retryVars, serverVars, procVars, history
<1>6. CASE SaveData
  <2>1. \A t \in Time : slots[t] \subseteq slots'[t]
    BY <1>6 DEF SaveData, TypeOK, history
  <2>2. \A t \in Time : bucket'[t] # Nothing => bucket'[t] \in slots'[t]
    <3>1. CASE db
      BY <1>6, <3>1 DEF SaveData, TypeOK, Origin
    <3>2. CASE ~db
      BY <1>6, <3>2 DEF SaveData, Origin
    <3> QED
      BY <3>1, <3>2
  <2>3. dataMap \subseteq Entry /\ current \in Entry \cup {Nothing}
    BY DEF TypeOK
  <2> QED
    BY <1>6, <2>1, <2>2, <2>3 DEF SaveData, Origin, Saved, Entry, retryVars
<1>7. CASE ReceiveQuit
  BY <1>7 DEF ReceiveQuit, Running, Origin, Saved, Control, TypeOK, chanVars, recvVars, retryVars, serverVars, procVars, history
<1>8. CASE RetryList
  BY <1>8 DEF RetryList, Stored, Running, Origin, Saved, Control, TypeOK, chanVars, recvVars, retryVars, serverVars, procVars, history
<1>9. CASE RetryReadEnd
  BY <1>9 DEF RetryReadEnd, Running, Origin, Saved, Control, TypeOK, chanVars, recvVars, retryVars, serverVars, procVars, history
<1>10. CASE RetryOver
  BY <1>10 DEF RetryOver, Running, Origin, Saved, Control, TypeOK, chanVars, recvVars, retryVars, serverVars, procVars, history
<1>11. CASE RetryDone
  BY <1>11 DEF RetryDone, Understood, Posting, Posted, Running, Origin, Saved, Control, TypeOK, chanVars, recvVars, retryVars, serverVars, procVars, history
<1>12. CASE RetryFailed
  BY <1>12 DEF RetryFailed, Failed, Posting, Running, Origin, Saved, Control, TypeOK, chanVars, recvVars, retryVars, serverVars, procVars, history
<1>13. CASE RetryDelete
  BY <1>13 DEF RetryDelete, Running, Origin, Saved, Control, TypeOK, chanVars, recvVars, retryVars, serverVars, procVars, history
<1>14. CASE RetryCheck
  BY <1>14 DEF RetryCheck, Running, Origin, Saved, Control, TypeOK, chanVars, recvVars, retryVars, serverVars, procVars, history
<1>15. CASE RetryQuit
  BY <1>15 DEF RetryQuit, Running, Origin, Saved, Control, TypeOK, chanVars, recvVars, retryVars, serverVars, procVars, history
<1>16. CASE Clean
  BY <1>16 DEF Clean, Stored, Running, Origin, Saved, Control, TypeOK, chanVars, recvVars, retryVars, serverVars, procVars, history
<1>17. CASE Stop
  BY <1>17 DEF Stop, Running, Origin, Saved, Control, TypeOK, chanVars, recvVars, retryVars, serverVars, procVars, history
<1>18. CASE CloseDataBox
  BY <1>18 DEF CloseDataBox, Running, Origin, Saved, Control, TypeOK, chanVars, recvVars, retryVars, serverVars, procVars, history
<1>19. CASE Quit
  BY <1>19 DEF Quit, End, Running, Origin, Saved, Control, TypeOK, chanVars, recvVars, retryVars, serverVars, procVars, history
<1>20. CASE Kill
  BY <1>20 DEF Kill, End, Running, Origin, Saved, Control, TypeOK, chanVars, recvVars, retryVars, serverVars, procVars, history
<1>21. CASE Boot
  BY <1>21 DEF Boot, Running, Origin, Saved, Control, TypeOK, chanVars, recvVars, retryVars, serverVars, procVars, history
<1>22. ASSUME NEW p \in {"receive", "retry"}, Take(p) PROVE Origin'
  BY <1>22 DEF Take, Posting, Posted, Running, Origin, Saved, Control, TypeOK, chanVars, recvVars, retryVars, serverVars, procVars, history
<1>23. ASSUME NEW t \in keys, RetryRead(t) PROVE Origin'
  BY <1>23 DEF RetryRead, Stored, Running, Origin, Saved, Control, TypeOK, chanVars, recvVars, retryVars, serverVars, procVars, history
<1>24. ASSUME NEW e \in dataMap, RetryNext(e) PROVE Origin'
  BY <1>24 DEF RetryNext, Running, Origin, Saved, Control, TypeOK, chanVars, recvVars, retryVars, serverVars, procVars, history
<1>25. CASE UNCHANGED vars
  BY <1>25 DEF vars, Origin, Saved, Control, TypeOK, chanVars, recvVars, retryVars, serverVars, procVars, history
<1> QED
  BY <1>1, <1>2, <1>3, <1>4, <1>5, <1>6, <1>7, <1>8, <1>9, <1>10, <1>11,
     <1>12, <1>13, <1>14, <1>15, <1>16, <1>17, <1>18, <1>19, <1>20, <1>21, <1>22,
     <1>23, <1>24, <1>25
  DEF Next, Receiver, Retrier
(* Every step keeps the types. *)
THEOREM StepType == IInv /\ [Next]_vars => TypeOK'
<1> SUFFICES ASSUME IInv, [Next]_vars PROVE TypeOK'
  OBVIOUS
<1> USE DEF IInv
<1>1. CASE Clock
  BY <1>1, ReportAssumption DEF Clock, Running, Control, TypeOK, Entry, Report, Time, InMemory, chanVars, recvVars, retryVars, serverVars, procVars, history
<1>2. CASE UploadData
  BY <1>2, ReportAssumption DEF UploadData, Running, Control, TypeOK, Entry, Report, Time, InMemory, chanVars, recvVars, retryVars, serverVars, procVars, history
<1>3. CASE ReceiveTake
  BY <1>3, ReportAssumption DEF ReceiveTake, Running, Control, TypeOK, Entry, Report, Time, InMemory, chanVars, recvVars, retryVars, serverVars, procVars, history
<1>4. CASE ReceiveDone
  BY <1>4, ReportAssumption DEF ReceiveDone, Understood, Posting, Posted, Running, Control, TypeOK, Entry, Report, Time, InMemory, chanVars, recvVars, retryVars, serverVars, procVars, history
<1>5. CASE ReceiveFailed
  BY <1>5, ReportAssumption DEF ReceiveFailed, Failed, Posting, Running, Control, TypeOK, Entry, Report, Time, InMemory, chanVars, recvVars, retryVars, serverVars, procVars, history
<1>6. CASE SaveData
  <2>1. detail \in Report /\ now \in Time
    BY <1>6 DEF SaveData, TypeOK, Control
  <2>2. bucket' \in [Time -> Report \cup {Nothing}]
    BY <1>6, <2>1 DEF SaveData, TypeOK
  <2>3. slots' \in [Time -> SUBSET Report] /\ cut' \subseteq Report
    BY <1>6, <2>1 DEF SaveData, TypeOK
  <2> QED
    BY <1>6, <2>2, <2>3 DEF SaveData, TypeOK, chanVars, retryVars, serverVars, procVars
<1>7. CASE ReceiveQuit
  BY <1>7, ReportAssumption DEF ReceiveQuit, Running, Control, TypeOK, Entry, Report, Time, InMemory, chanVars, recvVars, retryVars, serverVars, procVars, history
<1>8. CASE RetryList
  BY <1>8, ReportAssumption DEF RetryList, Stored, Running, Control, TypeOK, Entry, Report, Time, InMemory, chanVars, recvVars, retryVars, serverVars, procVars, history
<1>9. CASE RetryReadEnd
  BY <1>9, ReportAssumption DEF RetryReadEnd, Running, Control, TypeOK, Entry, Report, Time, InMemory, chanVars, recvVars, retryVars, serverVars, procVars, history
<1>10. CASE RetryOver
  BY <1>10, ReportAssumption DEF RetryOver, Running, Control, TypeOK, Entry, Report, Time, InMemory, chanVars, recvVars, retryVars, serverVars, procVars, history
<1>11. CASE RetryDone
  BY <1>11, ReportAssumption DEF RetryDone, Understood, Posting, Posted, Running, Control, TypeOK, Entry, Report, Time, InMemory, chanVars, recvVars, retryVars, serverVars, procVars, history
<1>12. CASE RetryFailed
  BY <1>12, ReportAssumption DEF RetryFailed, Failed, Posting, Running, Control, TypeOK, Entry, Report, Time, InMemory, chanVars, recvVars, retryVars, serverVars, procVars, history
<1>13. CASE RetryDelete
  BY <1>13, ReportAssumption DEF RetryDelete, Running, Control, TypeOK, Entry, Report, Time, InMemory, chanVars, recvVars, retryVars, serverVars, procVars, history
<1>14. CASE RetryCheck
  BY <1>14, ReportAssumption DEF RetryCheck, Running, Control, TypeOK, Entry, Report, Time, InMemory, chanVars, recvVars, retryVars, serverVars, procVars, history
<1>15. CASE RetryQuit
  BY <1>15, ReportAssumption DEF RetryQuit, Running, Control, TypeOK, Entry, Report, Time, InMemory, chanVars, recvVars, retryVars, serverVars, procVars, history
<1>16. CASE Clean
  BY <1>16, ReportAssumption DEF Clean, Stored, Running, Control, TypeOK, Entry, Report, Time, InMemory, chanVars, recvVars, retryVars, serverVars, procVars, history
<1>17. CASE Stop
  BY <1>17, ReportAssumption DEF Stop, Running, Control, TypeOK, Entry, Report, Time, InMemory, chanVars, recvVars, retryVars, serverVars, procVars, history
<1>18. CASE CloseDataBox
  BY <1>18, ReportAssumption DEF CloseDataBox, Running, Control, TypeOK, Entry, Report, Time, InMemory, chanVars, recvVars, retryVars, serverVars, procVars, history
<1>19. CASE Quit
  <2>1. InMemory \subseteq Report
    BY DEF InMemory, TypeOK
  <2>2. ends' \in 0..MaxEnds
    BY <1>19, ReportAssumption DEF Quit, End, TypeOK
  <2>3. cut' \subseteq Report
    BY <1>19, <2>1 DEF Quit, End, TypeOK
  <2>4. dataChannel' \in Seq(Report) /\ Len(dataChannel') <= ChanCap
    BY <1>19, ReportAssumption DEF Quit, End
  <2> QED
    BY <1>19, <2>2, <2>3, <2>4 DEF Quit, End, TypeOK
<1>20. CASE Kill
  <2>1. InMemory \subseteq Report
    BY DEF InMemory, TypeOK
  <2>2. ends' \in 0..MaxEnds
    BY <1>20, ReportAssumption DEF Kill, End, TypeOK
  <2>3. cut' \subseteq Report
    BY <1>20, <2>1 DEF Kill, End, TypeOK
  <2>4. dataChannel' \in Seq(Report) /\ Len(dataChannel') <= ChanCap
    BY <1>20, ReportAssumption DEF Kill, End
  <2> QED
    BY <1>20, <2>2, <2>3, <2>4 DEF Kill, End, TypeOK
<1>21. CASE Boot
  BY <1>21, ReportAssumption DEF Boot, Running, Control, TypeOK, Entry, Report, Time, InMemory, chanVars, recvVars, retryVars, serverVars, procVars, history
<1>22. ASSUME NEW p \in {"receive", "retry"}, Take(p) PROVE TypeOK'
  BY <1>22, ReportAssumption DEF Take, Posting, Posted, Running, Control, TypeOK, Entry, Report, Time, InMemory, chanVars, recvVars, retryVars, serverVars, procVars, history
<1>23. ASSUME NEW t \in keys, RetryRead(t) PROVE TypeOK'
  BY <1>23, ReportAssumption DEF RetryRead, Stored, Running, Control, TypeOK, Entry, Report, Time, InMemory, chanVars, recvVars, retryVars, serverVars, procVars, history
<1>24. ASSUME NEW e \in dataMap, RetryNext(e) PROVE TypeOK'
  BY <1>24, ReportAssumption DEF RetryNext, Running, Control, TypeOK, Entry, Report, Time, InMemory, chanVars, recvVars, retryVars, serverVars, procVars, history
<1>25. CASE UNCHANGED vars
  BY <1>25 DEF vars, Control, TypeOK, Entry, Report, Time, InMemory, chanVars, recvVars, retryVars, serverVars, procVars, history
<1> QED
  BY <1>1, <1>2, <1>3, <1>4, <1>5, <1>6, <1>7, <1>8, <1>9, <1>10, <1>11,
     <1>12, <1>13, <1>14, <1>15, <1>16, <1>17, <1>18, <1>19, <1>20, <1>21, <1>22,
     <1>23, <1>24, <1>25
  DEF Next, Receiver, Retrier
-----------------------------------------------------------------------------
(* What the steps do to the reports in memory. *)
LEMMA Parts == InMemory = Channel \cup ({detail} \ {Nothing})
  BY DEF InMemory, Channel

LEMMA UploadMemory ==
  ASSUME TypeOK, Fresh, UploadData
  PROVE  /\ Channel' = Channel \cup {made + 1} /\ InMemory' = InMemory \cup {made + 1}
         /\ made + 1 \notin InMemory
         /\ \A i, j \in DOMAIN dataChannel' : dataChannel'[i] = dataChannel'[j] => i = j
<1> DEFINE s == dataChannel
<1>1. s \in Seq(Report) /\ dataChannel' = Append(s, made + 1) /\ made \in Nat
  BY ReportAssumption DEF TypeOK, UploadData
<1>2. DOMAIN dataChannel' = 1..(Len(s) + 1) /\ DOMAIN s = 1..Len(s) /\ Len(s) \in Nat
  BY <1>1
<1>3. /\ \A i \in 1..Len(s) : dataChannel'[i] = s[i]
      /\ dataChannel'[Len(s) + 1] = made + 1
  BY <1>1
<1>4. Channel' = Channel \cup {made + 1}
  BY <1>2, <1>3 DEF Channel
<1>5. made + 1 \notin InMemory
  BY <1>1 DEF Fresh
<1>6. \A i \in 1..Len(s) : s[i] # made + 1
  BY <1>2, <1>5, Parts DEF Channel
<1>7. \A i, j \in DOMAIN dataChannel' : dataChannel'[i] = dataChannel'[j] => i = j
  BY <1>2, <1>3, <1>6 DEF Fresh
<1> QED
  BY <1>4, <1>5, <1>7, Parts DEF UploadData, recvVars, InMemory, Channel

LEMMA TakeMemory ==
  ASSUME TypeOK, Control, ReceiveTake
  PROVE  InMemory' = InMemory
<1> DEFINE s == dataChannel
<1>1. s \in Seq(Report) /\ s # <<>> /\ detail = Nothing
  BY DEF TypeOK, Control, ReceiveTake
<1>2. DOMAIN Tail(s) = 1..(Len(s) - 1) /\ DOMAIN s = 1..Len(s) /\ Len(s) \in Nat \ {0}
  BY <1>1
<1>3. Head(s) = s[1] /\ \A i \in 1..(Len(s) - 1) : Tail(s)[i] = s[i + 1]
  BY <1>1
<1>4. {s[i] : i \in DOMAIN s} = {Tail(s)[i] : i \in DOMAIN Tail(s)} \cup {Head(s)}
  <2>1. ASSUME NEW i \in DOMAIN s
        PROVE  s[i] \in {Tail(s)[k] : k \in DOMAIN Tail(s)} \cup {Head(s)}
    <3>1. CASE i = 1
      BY <3>1, <1>3
    <3>2. CASE i # 1
      <4>1. i - 1 \in DOMAIN Tail(s) /\ Tail(s)[i - 1] = s[i]
        BY <3>2, <1>2, <1>3
      <4> QED
        BY <4>1
    <3> QED
      BY <3>1, <3>2
  <2>2. ASSUME NEW i \in DOMAIN Tail(s)
        PROVE  Tail(s)[i] \in {s[k] : k \in DOMAIN s}
    BY <1>2, <1>3
  <2>3. Head(s) \in {s[k] : k \in DOMAIN s}
    BY <1>2, <1>3
  <2> QED
    BY <2>1, <2>2, <2>3
<1>5. Head(s) # Nothing
  BY <1>1, Somethings
<1>6. dataChannel' = Tail(s) /\ detail' = Head(s)
  BY DEF ReceiveTake
<1> QED
  BY <1>1, <1>4, <1>5, <1>6 DEF InMemory

(* receiveData is through with its report. *)
LEMMA DropMemory ==
  ASSUME Control, Fresh, detail # Nothing, detail' = Nothing, UNCHANGED dataChannel
  PROVE  /\ Channel' = Channel /\ InMemory' = InMemory \ {detail}
         /\ detail \in InMemory
  BY Parts DEF InMemory, Channel, Fresh

(* No step puts a saved report back into memory or saves one twice. *)
THEOREM StepFresh == IInv /\ [Next]_vars => Fresh'
<1> SUFFICES ASSUME IInv, [Next]_vars PROVE Fresh'
  OBVIOUS
<1> USE DEF IInv
<1>1. CASE Clock
  BY <1>1 DEF Clock, Running, Fresh, InMemory, Channel, Control, TypeOK, chanVars, recvVars, retryVars, serverVars, procVars, history
<1>2. CASE UploadData
  <2>1. UNCHANGED <<slots, detail>> /\ made' = made + 1
    BY <1>2 DEF UploadData, history, recvVars
  <2>2. made \in Nat
    BY ReportAssumption DEF TypeOK
  <2>3. 1..made' = 1..made \cup {made + 1} /\ made + 1 \notin 1..made
    BY <2>1, <2>2
  <2>4. \A t \in Time : made + 1 \notin slots[t]
    BY <2>3 DEF Fresh
  <2>5. detail # made + 1
    BY <2>2, <2>3, ReportAssumption, Parts DEF Fresh
  <2>6. \A r \in InMemory' : \A t \in Time : r \notin slots'[t]
    BY <1>2, UploadMemory, <2>1, <2>4 DEF Fresh
  <2>7. \A t \in Time : slots'[t] \subseteq 1..made'
    BY <2>1, <2>3 DEF Fresh
  <2>8. InMemory' \subseteq 1..made'
    BY <1>2, UploadMemory, <2>3 DEF Fresh
  <2>9. detail' \notin Channel'
    BY <1>2, UploadMemory, <2>1, <2>5 DEF Fresh
  <2>10. \A t, u \in Time : \A r \in slots'[t] : r \in slots'[u] => t = u
    BY <2>1 DEF Fresh
  <2> QED
    BY <1>2, UploadMemory, <2>6, <2>7, <2>8, <2>9, <2>10 DEF Fresh
<1>3. CASE ReceiveTake
  BY <1>3 DEF ReceiveTake, Running, Fresh, InMemory, Channel, Control, TypeOK, chanVars, recvVars, retryVars, serverVars, procVars, history
<1>4. CASE ReceiveDone
  <2>1. detail # Nothing /\ detail' = Nothing /\ UNCHANGED <<made, dataChannel, slots>>
    BY <1>4 DEF ReceiveDone, Understood, Posting, Control, chanVars, history
  <2>2. Channel' = Channel /\ InMemory' \subseteq InMemory
    BY <2>1, DropMemory
  <2>3. Nothing \notin Channel
    BY Somethings DEF TypeOK, Channel
  <2> QED
    BY <2>1, <2>2, <2>3 DEF Fresh
<1>5. CASE ReceiveFailed
  BY <1>5 DEF ReceiveFailed, Failed, Posting, Running, Fresh, InMemory, Channel, Control, TypeOK, chanVars, recvVars, retryVars, serverVars, procVars, history
<1>6. CASE SaveData
  <2>1. detail # Nothing /\ detail' = Nothing /\ UNCHANGED <<made, dataChannel>>
    BY <1>6 DEF SaveData, Control, chanVars
  <2>2. Channel' = Channel /\ InMemory' = InMemory \ {detail} /\ detail \in InMemory
    BY <2>1, DropMemory
  <2>3. Nothing \notin Channel
    BY Somethings DEF TypeOK, Channel
  <2>4. \A t \in Time : slots'[t] = slots[t] \/ (t = now /\ slots'[t] = slots[t] \cup {detail})
    BY <1>6 DEF SaveData, TypeOK
  <2>5. detail \in 1..made /\ \A t \in Time : detail \notin slots[t]
    BY <2>2 DEF Fresh
  <2>6. \A r \in InMemory' : \A t \in Time : r \notin slots'[t]
    BY <2>2, <2>4 DEF Fresh
  <2>7. \A t, u \in Time : \A r \in slots'[t] : r \in slots'[u] => t = u
    BY <2>4, <2>5 DEF Fresh
  <2>8. \A t \in Time : slots'[t] \subseteq 1..made'
    BY <2>1, <2>4, <2>5 DEF Fresh
  <2> QED
    BY <2>1, <2>2, <2>3, <2>6, <2>7, <2>8 DEF Fresh
<1>7. CASE ReceiveQuit
  BY <1>7 DEF ReceiveQuit, Running, Fresh, InMemory, Channel, Control, TypeOK, chanVars, recvVars, retryVars, serverVars, procVars, history
<1>8. CASE RetryList
  BY <1>8 DEF RetryList, Stored, Running, Fresh, InMemory, Channel, Control, TypeOK, chanVars, recvVars, retryVars, serverVars, procVars, history
<1>9. CASE RetryReadEnd
  BY <1>9 DEF RetryReadEnd, Running, Fresh, InMemory, Channel, Control, TypeOK, chanVars, recvVars, retryVars, serverVars, procVars, history
<1>10. CASE RetryOver
  BY <1>10 DEF RetryOver, Running, Fresh, InMemory, Channel, Control, TypeOK, chanVars, recvVars, retryVars, serverVars, procVars, history
<1>11. CASE RetryDone
  BY <1>11 DEF RetryDone, Understood, Posting, Posted, Running, Fresh, InMemory, Channel, Control, TypeOK, chanVars, recvVars, retryVars, serverVars, procVars, history
<1>12. CASE RetryFailed
  BY <1>12 DEF RetryFailed, Failed, Posting, Running, Fresh, InMemory, Channel, Control, TypeOK, chanVars, recvVars, retryVars, serverVars, procVars, history
<1>13. CASE RetryDelete
  BY <1>13 DEF RetryDelete, Running, Fresh, InMemory, Channel, Control, TypeOK, chanVars, recvVars, retryVars, serverVars, procVars, history
<1>14. CASE RetryCheck
  BY <1>14 DEF RetryCheck, Running, Fresh, InMemory, Channel, Control, TypeOK, chanVars, recvVars, retryVars, serverVars, procVars, history
<1>15. CASE RetryQuit
  BY <1>15 DEF RetryQuit, Running, Fresh, InMemory, Channel, Control, TypeOK, chanVars, recvVars, retryVars, serverVars, procVars, history
<1>16. CASE Clean
  BY <1>16 DEF Clean, Stored, Running, Fresh, InMemory, Channel, Control, TypeOK, chanVars, recvVars, retryVars, serverVars, procVars, history
<1>17. CASE Stop
  BY <1>17 DEF Stop, Running, Fresh, InMemory, Channel, Control, TypeOK, chanVars, recvVars, retryVars, serverVars, procVars, history
<1>18. CASE CloseDataBox
  BY <1>18 DEF CloseDataBox, Running, Fresh, InMemory, Channel, Control, TypeOK, chanVars, recvVars, retryVars, serverVars, procVars, history
<1>19. CASE Quit
  BY <1>19 DEF Quit, End, Running, Fresh, InMemory, Channel, Control, TypeOK, chanVars, recvVars, retryVars, serverVars, procVars, history
<1>20. CASE Kill
  BY <1>20 DEF Kill, End, Running, Fresh, InMemory, Channel, Control, TypeOK, chanVars, recvVars, retryVars, serverVars, procVars, history
<1>21. CASE Boot
  BY <1>21 DEF Boot, Running, Fresh, InMemory, Channel, Control, TypeOK, chanVars, recvVars, retryVars, serverVars, procVars, history
<1>22. ASSUME NEW p \in {"receive", "retry"}, Take(p) PROVE Fresh'
  BY <1>22 DEF Take, Posting, Posted, Running, Fresh, InMemory, Channel, Control, TypeOK, chanVars, recvVars, retryVars, serverVars, procVars, history
<1>23. ASSUME NEW t \in keys, RetryRead(t) PROVE Fresh'
  BY <1>23 DEF RetryRead, Stored, Running, Fresh, InMemory, Channel, Control, TypeOK, chanVars, recvVars, retryVars, serverVars, procVars, history
<1>24. ASSUME NEW e \in dataMap, RetryNext(e) PROVE Fresh'
  BY <1>24 DEF RetryNext, Running, Fresh, InMemory, Channel, Control, TypeOK, chanVars, recvVars, retryVars, serverVars, procVars, history
<1>25. CASE UNCHANGED vars
  BY <1>25 DEF vars, Fresh, InMemory, Channel, Control, TypeOK, chanVars, recvVars, retryVars, serverVars, procVars, history
<1> QED
  BY <1>1, <1>2, <1>3, <1>4, <1>5, <1>6, <1>7, <1>8, <1>9, <1>10, <1>11,
     <1>12, <1>13, <1>14, <1>15, <1>16, <1>17, <1>18, <1>19, <1>20, <1>21, <1>22,
     <1>23, <1>24, <1>25
  DEF Next, Receiver, Retrier
(* No step brings an answered report back. *)
THEOREM StepForgotten == IInv /\ [Next]_vars => Forgotten'
<1> SUFFICES ASSUME IInv, [Next]_vars PROVE Forgotten'
  OBVIOUS
<1> USE DEF IInv
<1>1. CASE Clock
  BY <1>1 DEF Clock, Running, Forgotten, Fresh, Origin, Saved, InMemory, Channel, Control, TypeOK, chanVars, recvVars, retryVars, serverVars, procVars, history
<1>2. CASE UploadData
  BY <1>2 DEF UploadData, Running, Forgotten, Fresh, Origin, Saved, InMemory, Channel, Control, TypeOK, chanVars, recvVars, retryVars, serverVars, procVars, history
<1>3. CASE ReceiveTake
  BY <1>3 DEF ReceiveTake, Running, Forgotten, Fresh, Origin, Saved, InMemory, Channel, Control, TypeOK, chanVars, recvVars, retryVars, serverVars, procVars, history
<1>4. CASE ReceiveDone
  <2>1. detail # Nothing /\ detail' = Nothing /\ UNCHANGED <<made, dataChannel>>
    BY <1>4 DEF ReceiveDone, Understood, Posting, Control, chanVars
  <2>2. InMemory' = InMemory \ {detail} /\ detail \in InMemory
    BY <2>1, DropMemory
  <2>3. answered' = answered \cup {detail}
    BY <1>4 DEF ReceiveDone, Understood, Posted
  <2>4. UNCHANGED <<retry, keys, dataMap, current, bucket, db>>
    BY <1>4 DEF ReceiveDone, retryVars, procVars
  <2>5. detail \in 1..made /\ \A t \in Time : detail \notin slots[t]
    BY <2>2 DEF Fresh
  <2>6. \A e \in dataMap : e[2] # detail
    BY <2>5 DEF Origin, Saved, TypeOK, Entry
  <2>7. retry = "post" => current[2] # detail
    BY <2>5 DEF Origin, Saved, Control, TypeOK, Entry
  <2>8. \A t \in Time : bucket[t] # detail
    BY <2>1, <2>5 DEF Origin
  <2> QED
    BY <2>1, <2>2, <2>3, <2>4, <2>5, <2>6, <2>7, <2>8 DEF Forgotten
<1>5. CASE ReceiveFailed
  BY <1>5 DEF ReceiveFailed, Failed, Posting, Running, Forgotten, Fresh, Origin, Saved, InMemory, Channel, Control, TypeOK, chanVars, recvVars, retryVars, serverVars, procVars, history
<1>6. CASE SaveData
  BY <1>6 DEF SaveData, Running, Forgotten, Fresh, Origin, Saved, InMemory, Channel, Control, TypeOK, chanVars, recvVars, retryVars, serverVars, procVars, history
<1>7. CASE ReceiveQuit
  BY <1>7 DEF ReceiveQuit, Running, Forgotten, Fresh, Origin, Saved, InMemory, Channel, Control, TypeOK, chanVars, recvVars, retryVars, serverVars, procVars, history
<1>8. CASE RetryList
  BY <1>8 DEF RetryList, Stored, Running, Forgotten, Fresh, Origin, Saved, InMemory, Channel, Control, TypeOK, chanVars, recvVars, retryVars, serverVars, procVars, history
<1>9. CASE RetryReadEnd
  BY <1>9 DEF RetryReadEnd, Running, Forgotten, Fresh, Origin, Saved, InMemory, Channel, Control, TypeOK, chanVars, recvVars, retryVars, serverVars, procVars, history
<1>10. CASE RetryOver
  BY <1>10 DEF RetryOver, Running, Forgotten, Fresh, Origin, Saved, InMemory, Channel, Control, TypeOK, chanVars, recvVars, retryVars, serverVars, procVars, history
<1>11. CASE RetryDone
  <2> DEFINE r == current[2]
  <2>1. retry = "post" /\ retry' = "delete" /\ answered' = answered \cup {r}
    BY <1>11 DEF RetryDone, Understood, Posting, Posted
  <2>2. UNCHANGED <<made, InMemory, keys, dataMap, current, bucket, db, slots>>
    BY <1>11 DEF RetryDone, InMemory, chanVars, recvVars, procVars, history
  <2>3. current \in Time \X Report /\ current # Nothing /\ r \in slots[current[1]]
    BY <2>1 DEF TypeOK, Control, Entry, Origin, Saved
  <2>4. current = <<current[1], r>> /\ current[1] \in Time
    BY <2>3
  <2>5. r \in 1..made /\ r \notin InMemory
    BY <2>3, <2>4 DEF Fresh
  <2>6. \A e \in dataMap : e[2] # r
    <3> SUFFICES ASSUME NEW e \in dataMap, e[2] = r PROVE FALSE
      OBVIOUS
    <3>1. e[1] \in Time /\ r \in slots[e[1]]
      BY DEF TypeOK, Entry, Origin, Saved
    <3>2. e[1] = current[1]
      BY <3>1, <2>3, <2>4 DEF Fresh
    <3> QED
      BY <3>2, <2>3 DEF Forgotten
  <2>7. \A t \in Time : bucket[t] = r => t = current[1]
    <3> SUFFICES ASSUME NEW t \in Time, bucket[t] = r PROVE t = current[1]
      OBVIOUS
    <3>1. r # Nothing
      BY <2>3, Somethings
    <3>2. r \in slots[t]
      BY <3>1 DEF Origin
    <3> QED
      BY <3>2, <2>3, <2>4 DEF Fresh
  <2>8. db => \A t \in Time : bucket[t] \notin answered
    BY <2>1 DEF Forgotten
  <2>9. db' => \A t \in Time : bucket'[t] \in answered' =>
          retry' = "delete" /\ current' = <<t, bucket'[t]>>
    BY <2>1, <2>2, <2>4, <2>7, <2>8
  <2> QED
    BY <2>1, <2>2, <2>5, <2>6, <2>9 DEF Forgotten
<1>12. CASE RetryFailed
  BY <1>12 DEF RetryFailed, Failed, Posting, Running, Forgotten, Fresh, Origin, Saved, InMemory, Channel, Control, TypeOK, chanVars, recvVars, retryVars, serverVars, procVars, history
<1>13. CASE RetryDelete
  <2>1. retry = "delete" /\ retry' = "check" /\ current' = Nothing
    BY <1>13 DEF RetryDelete
  <2>2. UNCHANGED <<made, InMemory, keys, dataMap, answered, db>>
    BY <1>13 DEF RetryDelete, InMemory, chanVars, recvVars, serverVars, procVars
  <2>3. db => \A t \in Time : bucket'[t] \notin answered
    <3> SUFFICES ASSUME db, NEW t \in Time PROVE bucket'[t] \notin answered
      OBVIOUS
    <3>1. CASE t = current[1]
      <4>1. bucket'[t] = Nothing
        BY <1>13, <3>1 DEF RetryDelete, TypeOK
      <4> QED
        BY <4>1, Somethings DEF TypeOK
    <3>2. CASE t # current[1]
      <4>1. bucket'[t] = bucket[t]
        BY <1>13, <3>2 DEF RetryDelete, TypeOK
      <4> QED
        BY <4>1, <3>2 DEF Forgotten
    <3> QED
      BY <3>1, <3>2
  <2> QED
    BY <2>1, <2>2, <2>3 DEF Forgotten
<1>14. CASE RetryCheck
  BY <1>14 DEF RetryCheck, Running, Forgotten, Fresh, Origin, Saved, InMemory, Channel, Control, TypeOK, chanVars, recvVars, retryVars, serverVars, procVars, history
<1>15. CASE RetryQuit
  BY <1>15 DEF RetryQuit, Running, Forgotten, Fresh, Origin, Saved, InMemory, Channel, Control, TypeOK, chanVars, recvVars, retryVars, serverVars, procVars, history
<1>16. CASE Clean
  <2>1. UNCHANGED <<made, InMemory, retry, keys, dataMap, current, answered, db>>
    BY <1>16 DEF Clean, InMemory, chanVars, recvVars, retryVars, serverVars, procVars
  <2>2. \A t \in Time : bucket'[t] \in {bucket[t], Nothing}
    BY <1>16 DEF Clean, TypeOK
  <2>3. Nothing \notin answered
    BY Somethings DEF TypeOK
  <2>4. \A t \in Time : bucket'[t] \in answered => bucket'[t] = bucket[t]
    BY <2>2, <2>3
  <2> QED
    BY <2>1, <2>4 DEF Forgotten
<1>17. CASE Stop
  BY <1>17 DEF Stop, Running, Forgotten, Fresh, Origin, Saved, InMemory, Channel, Control, TypeOK, chanVars, recvVars, retryVars, serverVars, procVars, history
<1>18. CASE CloseDataBox
  BY <1>18 DEF CloseDataBox, Running, Forgotten, Fresh, Origin, Saved, InMemory, Channel, Control, TypeOK, chanVars, recvVars, retryVars, serverVars, procVars, history
<1>19. CASE Quit
  BY <1>19 DEF Quit, End, Running, Forgotten, Fresh, Origin, Saved, InMemory, Channel, Control, TypeOK, chanVars, recvVars, retryVars, serverVars, procVars, history
<1>20. CASE Kill
  BY <1>20 DEF Kill, End, Running, Forgotten, Fresh, Origin, Saved, InMemory, Channel, Control, TypeOK, chanVars, recvVars, retryVars, serverVars, procVars, history
<1>21. CASE Boot
  BY <1>21 DEF Boot, Running, Forgotten, Fresh, Origin, Saved, InMemory, Channel, Control, TypeOK, chanVars, recvVars, retryVars, serverVars, procVars, history
<1>22. ASSUME NEW p \in {"receive", "retry"}, Take(p) PROVE Forgotten'
  BY <1>22 DEF Take, Posting, Posted, Running, Forgotten, Fresh, Origin, Saved, InMemory, Channel, Control, TypeOK, chanVars, recvVars, retryVars, serverVars, procVars, history
<1>23. ASSUME NEW t \in keys, RetryRead(t) PROVE Forgotten'
  BY <1>23 DEF RetryRead, Stored, Running, Forgotten, Fresh, Origin, Saved, InMemory, Channel, Control, TypeOK, chanVars, recvVars, retryVars, serverVars, procVars, history
<1>24. ASSUME NEW e \in dataMap, RetryNext(e) PROVE Forgotten'
  BY <1>24 DEF RetryNext, Running, Forgotten, Fresh, Origin, Saved, InMemory, Channel, Control, TypeOK, chanVars, recvVars, retryVars, serverVars, procVars, history
<1>25. CASE UNCHANGED vars
  BY <1>25 DEF vars, Forgotten, Fresh, Origin, Saved, InMemory, Channel, Control, TypeOK, chanVars, recvVars, retryVars, serverVars, procVars, history
<1> QED
  BY <1>1, <1>2, <1>3, <1>4, <1>5, <1>6, <1>7, <1>8, <1>9, <1>10, <1>11,
     <1>12, <1>13, <1>14, <1>15, <1>16, <1>17, <1>18, <1>19, <1>20, <1>21, <1>22,
     <1>23, <1>24, <1>25
  DEF Next, Receiver, Retrier
(* No step loses a report in another way. *)
THEOREM StepLedger == IInv /\ [Next]_vars => NothingElseLost'
<1> SUFFICES ASSUME IInv, [Next]_vars PROVE NothingElseLost'
  OBVIOUS
<1> USE DEF IInv
<1>1. CASE Clock
  <2>1. /\ UNCHANGED <<made, InMemory, bucket, settled, slots, cut>> /\ now' = now + 1
    BY <1>1 DEF Clock, InMemory, chanVars, recvVars, serverVars, history
  <2>2. \A t \in Time : Expired(t) => Expired(t)'
    BY <2>1, ReportAssumption DEF Expired, Time, TypeOK
  <2> QED
    BY <2>1, <2>2 DEF NothingElseLost, Held, InBucket, Shared, Outdated
<1>2. CASE UploadData
  BY <1>2 DEF UploadData, Running, NothingElseLost, Shared, Outdated, Held, InBucket, Expired, Fresh, Origin, Saved, InMemory, Control, TypeOK, chanVars, recvVars, retryVars, serverVars, procVars, history
<1>3. CASE ReceiveTake
  <2>1. UNCHANGED <<made, InMemory, bucket, now, settled, slots, cut>>
    BY <1>3, TakeMemory DEF ReceiveTake, serverVars, history
  <2> QED
    BY <2>1 DEF NothingElseLost, Held, InBucket, Shared, Outdated, Expired
<1>4. CASE ReceiveDone
  BY <1>4 DEF ReceiveDone, Understood, Posting, Posted, Running, NothingElseLost, Shared, Outdated, Held, InBucket, Expired, Fresh, Origin, Saved, InMemory, Control, TypeOK, chanVars, recvVars, retryVars, serverVars, procVars, history
<1>5. CASE ReceiveFailed
  BY <1>5 DEF ReceiveFailed, Failed, Posting, Running, NothingElseLost, Shared, Outdated, Held, InBucket, Expired, Fresh, Origin, Saved, InMemory, Control, TypeOK, chanVars, recvVars, retryVars, serverVars, procVars, history
<1>6. CASE SaveData
  <2>1. detail # Nothing /\ detail' = Nothing /\ UNCHANGED <<made, dataChannel, now, settled>>
    BY <1>6 DEF SaveData, Control, chanVars, serverVars
  <2>2. InMemory' = InMemory \ {detail} /\ detail \in InMemory
    BY <2>1, DropMemory
  <2> SUFFICES ASSUME NEW r \in 1..made
               PROVE  Held(r)' \/ r \in settled \/ Shared(r)' \/ Outdated(r)' \/ r \in cut'
    BY <2>1 DEF NothingElseLost
  <2>3. CASE db
    <3>1. /\ now \in Time /\ cut' = cut
          /\ bucket' = [bucket EXCEPT ![now] = detail]
          /\ slots' = [slots EXCEPT ![now] = @ \cup {detail}]
      BY <1>6, <2>3 DEF SaveData, TypeOK
    <3>2. bucket'[now] = detail /\ detail \in slots'[now]
      BY <3>1 DEF TypeOK
    <3>3. \A t \in Time : slots[t] \subseteq slots'[t]
      BY <3>1 DEF TypeOK
    <3>4. Outdated(r) => Outdated(r)'
      BY <2>1, <3>3 DEF Outdated, Expired
    <3>5. Shared(r) => Shared(r)'
      BY <3>3 DEF Shared
    <3>6. CASE r = detail
      BY <3>1, <3>2, <3>6 DEF Held, InBucket
    <3>7. CASE r # detail /\ r \in InMemory
      BY <2>2, <3>7 DEF Held
    <3>8. ASSUME NEW t \in Time, bucket[t] = r, r # detail
          PROVE  Held(r)' \/ Shared(r)'
      <4>1. CASE t = now
        <5>1. r \in slots[now] \/ r = Nothing
          BY <3>8, <4>1 DEF Origin
        <5>2. r # Nothing
          BY ReportAssumption
        <5> QED
          BY <5>1, <5>2, <3>1, <3>2, <3>3, <3>8 DEF Shared
      <4>2. CASE t # now
        BY <3>1, <3>8, <4>2 DEF Held, InBucket, TypeOK
      <4> QED
        BY <4>1, <4>2
    <3> QED
      BY <3>1, <3>4, <3>5, <3>6, <3>7, <3>8 DEF NothingElseLost, Held, InBucket
  <2>4. CASE ~db
    <3>1. UNCHANGED <<bucket, slots>> /\ cut' = cut \cup {detail}
      BY <1>6, <2>4 DEF SaveData
    <3> QED
      BY <2>1, <2>2, <3>1 DEF NothingElseLost, Held, InBucket, Shared, Outdated, Expired
  <2> QED
    BY <2>3, <2>4 DEF TypeOK
<1>7. CASE ReceiveQuit
  BY <1>7 DEF ReceiveQuit, Running, NothingElseLost, Shared, Outdated, Held, InBucket, Expired, Fresh, Origin, Saved, InMemory, Control, TypeOK, chanVars, recvVars, retryVars, serverVars, procVars, history
<1>8. CASE RetryList
  BY <1>8 DEF RetryList, Stored, Running, NothingElseLost, Shared, Outdated, Held, InBucket, Expired, Fresh, Origin, Saved, InMemory, Control, TypeOK, chanVars, recvVars, retryVars, serverVars, procVars, history
<1>9. CASE RetryReadEnd
  BY <1>9 DEF RetryReadEnd, Running, NothingElseLost, Shared, Outdated, Held, InBucket, Expired, Fresh, Origin, Saved, InMemory, Control, TypeOK, chanVars, recvVars, retryVars, serverVars, procVars, history
<1>10. CASE RetryOver
  BY <1>10 DEF RetryOver, Running, NothingElseLost, Shared, Outdated, Held, InBucket, Expired, Fresh, Origin, Saved, InMemory, Control, TypeOK, chanVars, recvVars, retryVars, serverVars, procVars, history
<1>11. CASE RetryDone
  BY <1>11 DEF RetryDone, Understood, Posting, Posted, Running, NothingElseLost, Shared, Outdated, Held, InBucket, Expired, Fresh, Origin, Saved, InMemory, Control, TypeOK, chanVars, recvVars, retryVars, serverVars, procVars, history
<1>12. CASE RetryFailed
  BY <1>12 DEF RetryFailed, Failed, Posting, Running, NothingElseLost, Shared, Outdated, Held, InBucket, Expired, Fresh, Origin, Saved, InMemory, Control, TypeOK, chanVars, recvVars, retryVars, serverVars, procVars, history
<1>13. CASE RetryDelete
  BY <1>13 DEF RetryDelete, Running, NothingElseLost, Shared, Outdated, Held, InBucket, Expired, Fresh, Origin, Saved, InMemory, Control, TypeOK, chanVars, recvVars, retryVars, serverVars, procVars, history
<1>14. CASE RetryCheck
  BY <1>14 DEF RetryCheck, Running, NothingElseLost, Shared, Outdated, Held, InBucket, Expired, Fresh, Origin, Saved, InMemory, Control, TypeOK, chanVars, recvVars, retryVars, serverVars, procVars, history
<1>15. CASE RetryQuit
  BY <1>15 DEF RetryQuit, Running, NothingElseLost, Shared, Outdated, Held, InBucket, Expired, Fresh, Origin, Saved, InMemory, Control, TypeOK, chanVars, recvVars, retryVars, serverVars, procVars, history
<1>16. CASE Clean
  BY <1>16 DEF Clean, Stored, Running, NothingElseLost, Shared, Outdated, Held, InBucket, Expired, Fresh, Origin, Saved, InMemory, Control, TypeOK, chanVars, recvVars, retryVars, serverVars, procVars, history
<1>17. CASE Stop
  BY <1>17 DEF Stop, Running, NothingElseLost, Shared, Outdated, Held, InBucket, Expired, Fresh, Origin, Saved, InMemory, Control, TypeOK, chanVars, recvVars, retryVars, serverVars, procVars, history
<1>18. CASE CloseDataBox
  BY <1>18 DEF CloseDataBox, Running, NothingElseLost, Shared, Outdated, Held, InBucket, Expired, Fresh, Origin, Saved, InMemory, Control, TypeOK, chanVars, recvVars, retryVars, serverVars, procVars, history
<1>19. CASE Quit
  BY <1>19 DEF Quit, End, Running, NothingElseLost, Shared, Outdated, Held, InBucket, Expired, Fresh, Origin, Saved, InMemory, Control, TypeOK, chanVars, recvVars, retryVars, serverVars, procVars, history
<1>20. CASE Kill
  BY <1>20 DEF Kill, End, Running, NothingElseLost, Shared, Outdated, Held, InBucket, Expired, Fresh, Origin, Saved, InMemory, Control, TypeOK, chanVars, recvVars, retryVars, serverVars, procVars, history
<1>21. CASE Boot
  BY <1>21 DEF Boot, Running, NothingElseLost, Shared, Outdated, Held, InBucket, Expired, Fresh, Origin, Saved, InMemory, Control, TypeOK, chanVars, recvVars, retryVars, serverVars, procVars, history
<1>22. ASSUME NEW p \in {"receive", "retry"}, Take(p) PROVE NothingElseLost'
  BY <1>22 DEF Take, Posting, Posted, Running, NothingElseLost, Shared, Outdated, Held, InBucket, Expired, Fresh, Origin, Saved, InMemory, Control, TypeOK, chanVars, recvVars, retryVars, serverVars, procVars, history
<1>23. ASSUME NEW t \in keys, RetryRead(t) PROVE NothingElseLost'
  BY <1>23 DEF RetryRead, Stored, Running, NothingElseLost, Shared, Outdated, Held, InBucket, Expired, Fresh, Origin, Saved, InMemory, Control, TypeOK, chanVars, recvVars, retryVars, serverVars, procVars, history
<1>24. ASSUME NEW e \in dataMap, RetryNext(e) PROVE NothingElseLost'
  BY <1>24 DEF RetryNext, Running, NothingElseLost, Shared, Outdated, Held, InBucket, Expired, Fresh, Origin, Saved, InMemory, Control, TypeOK, chanVars, recvVars, retryVars, serverVars, procVars, history
<1>25. CASE UNCHANGED vars
  BY <1>25 DEF vars, NothingElseLost, Shared, Outdated, Held, InBucket, Expired, Fresh, Origin, Saved, InMemory, Control, TypeOK, chanVars, recvVars, retryVars, serverVars, procVars, history
<1> QED
  BY <1>1, <1>2, <1>3, <1>4, <1>5, <1>6, <1>7, <1>8, <1>9, <1>10, <1>11,
     <1>12, <1>13, <1>14, <1>15, <1>16, <1>17, <1>18, <1>19, <1>20, <1>21, <1>22,
     <1>23, <1>24, <1>25
  DEF Next, Receiver, Retrier
-----------------------------------------------------------------------------
THEOREM InitIInv == Init => IInv
<1> SUFFICES ASSUME Init PROVE IInv
  OBVIOUS
<1>1. 1 \in Time /\ 0 \in 0..MaxFailures /\ 0 \in 0..MaxEnds /\ 0 \in 0..Reports
  BY ReportAssumption DEF Time
<1>2. TypeOK
  BY <1>1, ReportAssumption DEF Init, TypeOK
<1>3. InMemory = {} /\ Channel = {}
  BY DEF Init, InMemory, Channel
<1>4. Control /\ Origin /\ Fresh /\ Forgotten
  BY <1>3 DEF Init, Control, Origin, Fresh, Forgotten
<1>5. NothingElseLost
  BY DEF Init, NothingElseLost
<1> QED
  BY <1>2, <1>4, <1>5 DEF IInv

(* The inductive invariant holds in every behaviour. *)
THEOREM SpecIInv == Spec => []IInv
<1>1. IInv /\ [Next]_vars => IInv'
  BY StepType, StepControl, StepOrigin, StepFresh, StepForgotten, StepLedger DEF IInv
<1> QED
  BY <1>1, InitIInv, PTL DEF Spec

(* dataChannel keeps its capacity and the bucket holds reports under seconds *)
(* (UploadData, saveData).                                                   *)
THEOREM TypeCorrect == Spec => []TypeOK
<1>1. IInv => TypeOK
  BY DEF IInv
<1> QED
  BY <1>1, SpecIInv, PTL

(* A report handed to UploadData is held, settled with the server, or lost   *)
(* in one of the named ways: receiveData, saveData, retryReport, DelData.    *)
THEOREM LedgerBalances == Spec => []NothingElseLost
<1>1. IInv => NothingElseLost
  BY DEF IInv
<1> QED
  BY <1>1, SpecIInv, PTL

(* Neither receiveData nor retryReport posts a report whose answer the       *)
(* process has understood before.                                            *)
THEOREM NoSecondPost == Spec => []AnsweredOnce
<1>1. IInv => AnsweredOnce
  <2> SUFFICES ASSUME IInv, NEW p \in {"receive", "retry"}, Posting(p)
               PROVE  Posted(p) \notin answered
    BY DEF AnsweredOnce
  <2>1. CASE p = "receive"
    <3>1. detail \in InMemory
      BY <2>1 DEF IInv, Control, Posting, InMemory
    <3> QED
      BY <3>1, <2>1 DEF IInv, Forgotten, Posted
  <2>2. CASE p = "retry"
    BY <2>2 DEF IInv, Forgotten, Posting, Posted
  <2> QED
    BY <2>1, <2>2
<1> QED
  BY <1>1, SpecIInv, PTL

(* A report is either in memory or handed to the database and its retry      *)
(* (dataChannel, receiveData; saveData, retryReport).                        *)
THEOREM MemoryOrDatabase == Spec => []OnePlace
<1>1. IInv => OnePlace
  <2> SUFFICES ASSUME IInv, NEW r \in InMemory
               PROVE  /\ ~InBucket(r) /\ \A e \in dataMap : e[2] # r
                      /\ current # Nothing => current[2] # r
    BY DEF OnePlace, IInv, Fresh
  <2>1. r # Nothing /\ \A t \in Time : r \notin slots[t]
    BY Somethings DEF IInv, Fresh, InMemory, TypeOK
  <2>2. ~InBucket(r)
    BY <2>1 DEF InBucket, IInv, Origin
  <2>3. \A e \in dataMap : e[2] # r
    BY <2>1 DEF IInv, Origin, Saved, TypeOK, Entry
  <2>4. current # Nothing => current[2] # r
    BY <2>1 DEF IInv, Origin, Saved, TypeOK, Entry
  <2> QED
    BY <2>2, <2>3, <2>4
<1> QED
  BY <1>1, SpecIInv, PTL

-----------------------------------------------------------------------------
(* The refinement: every step of Report is one of Outbox, or none *)

(* What Outbox sees has not changed. *)
Same == UNCHANGED <<made, Queue, db, Box, Copies, settled>>

(* A sequence with one element put before it. *)
LEMMA Before ==
  ASSUME NEW S, NEW d \in S, NEW c \in Seq(S)
  PROVE  LET q == <<d>> \o c
         IN q \in Seq(S) /\ q # <<>> /\ Head(q) = d /\ Tail(q) = c
<1> DEFINE q == <<d>> \o c
<1>1. <<d>> \in Seq(S) /\ Len(<<d>>) = 1
  OBVIOUS
<1>2. /\ q \in Seq(S) /\ Len(q) = 1 + Len(c) /\ Len(c) \in Nat
      /\ \A i \in 1..(1 + Len(c)) : q[i] = IF i <= 1 THEN d ELSE c[i - 1]
  BY <1>1, ConcatProperties
<1>3. q # <<>> /\ Head(q) = d
  BY <1>2
<1>4. /\ Tail(q) \in Seq(S) /\ Len(Tail(q)) = Len(c)
      /\ \A i \in 1..Len(Tail(q)) : Tail(q)[i] = q[i + 1]
  BY <1>2, <1>3, HeadTailProperties
<1>5. \A i \in 1..Len(c) : Tail(q)[i] = c[i]
  BY <1>2, <1>4
<1>6. Tail(q) = c
  BY <1>4, <1>5, SeqEqual
<1> QED
  BY <1>2, <1>3, <1>6

(* The report that receiveData handles is the first of the queue. *)
LEMMA QueueParts ==
  ASSUME TypeOK
  PROVE  /\ Queue \in Seq(Report)
         /\ detail = Nothing => Queue = dataChannel
         /\ detail # Nothing =>
              Queue # <<>> /\ Head(Queue) = detail /\ Tail(Queue) = dataChannel
<1>1. dataChannel \in Seq(Report) /\ (detail # Nothing => detail \in Report)
  BY DEF TypeOK
<1>2. CASE detail = Nothing
  BY <1>1, <1>2, ConcatEmptySeq DEF Queue
<1>3. CASE detail # Nothing
  BY <1>1, <1>3, Before DEF Queue
<1> QED
  BY <1>2, <1>3

(* UploadData puts a report at the end of the queue, *)
LEMMA QueueUpload ==
  ASSUME TypeOK, UploadData
  PROVE  Queue' = Append(Queue, made')
<1>1. /\ dataChannel \in Seq(Report) /\ made' \in Report
      /\ dataChannel' = Append(dataChannel, made') /\ detail' = detail
  BY ReportAssumption DEF TypeOK, UploadData, recvVars, Report
<1>2. CASE detail = Nothing
  BY <1>1, <1>2, ConcatEmptySeq, AppendProperties DEF Queue
<1>3. CASE detail # Nothing
  <2>1. <<detail>> \in Seq(Report) /\ <<made'>> \in Seq(Report)
    BY <1>1, <1>3 DEF TypeOK
  <2>2. Queue = <<detail>> \o dataChannel /\ Queue \in Seq(Report)
    BY <1>3, QueueParts DEF Queue
  <2>3. Queue' = <<detail>> \o (dataChannel \o <<made'>>)
    BY <1>1, <1>3, AppendIsConcat DEF Queue
  <2>4. Queue' = (<<detail>> \o dataChannel) \o <<made'>>
    BY <1>1, <2>1, <2>3, ConcatAssociative
  <2> QED
    BY <1>1, <2>2, <2>4, AppendIsConcat
<1> QED
  BY <1>2, <1>3

(* and what receiveData takes off the channel stays its first. *)
LEMMA QueueTake ==
  ASSUME TypeOK, Control, ReceiveTake
  PROVE  Queue' = Queue
<1>1. /\ dataChannel \in Seq(Report) /\ dataChannel # <<>> /\ detail = Nothing
      /\ detail' = Head(dataChannel) /\ dataChannel' = Tail(dataChannel)
  BY DEF TypeOK, Control, ReceiveTake
<1>2. Head(dataChannel) \in Report /\ Tail(dataChannel) \in Seq(Report)
  BY <1>1, HeadTailProperties
<1>3. Queue' = <<Head(dataChannel)>> \o Tail(dataChannel)
  BY <1>1, <1>2, Somethings DEF Queue
<1>4. /\ Queue' \in Seq(Report) /\ Queue' # <<>>
      /\ Head(Queue') = Head(dataChannel) /\ Tail(Queue') = Tail(dataChannel)
  BY <1>2, <1>3, Before
<1>5. Queue' = dataChannel
  <2>1. Len(Queue') = Len(dataChannel)
    BY <1>1, <1>4, HeadTailProperties, LenProperties
  <2>2. ASSUME NEW i \in 1..Len(dataChannel) PROVE Queue'[i] = dataChannel[i]
    <3>1. CASE i = 1
      BY <1>1, <1>4, <3>1
    <3>2. CASE i # 1
      <4>1. i - 1 \in 1..Len(Tail(dataChannel)) /\ (i - 1) + 1 = i
        BY <1>1, <3>2
      <4>2. Tail(dataChannel)[i - 1] = dataChannel[i] /\ Tail(Queue')[i - 1] = Queue'[i]
        BY <1>1, <1>4, <4>1, HeadTailProperties
      <4> QED
        BY <1>4, <4>2
    <3> QED
      BY <3>1, <3>2
  <2> QED
    BY <1>1, <1>4, <2>1, <2>2, SeqEqual
<1> QED
  BY <1>1, <1>5, QueueParts

(* A report lies under one key only. *)
LEMMA OneKey ==
  ASSUME TypeOK, Origin, Fresh
  PROVE  /\ Box \subseteq Report
         /\ \A t, u \in Time : bucket[t] # Nothing /\ bucket[t] = bucket[u] => t = u
         /\ \A e, f \in Entry : Saved(e) /\ Saved(f) /\ e[2] = f[2] => e[1] = f[1]
<1>1. Box \subseteq Report
  BY DEF Box, Stored, TypeOK
<1>2. ASSUME NEW t \in Time, NEW u \in Time, bucket[t] # Nothing, bucket[t] = bucket[u]
      PROVE  t = u
  BY <1>2 DEF Origin, Fresh
<1>3. ASSUME NEW e \in Entry, NEW f \in Entry, Saved(e), Saved(f), e[2] = f[2]
      PROVE  e[1] = f[1]
  BY <1>3 DEF Saved, Fresh, Entry
<1> QED
  BY <1>1, <1>2, <1>3

(* What a deletion by key takes out of the box, *)
LEMMA BoxDelete ==
  ASSUME TypeOK, Origin, Fresh, NEW t \in Time, bucket' = [bucket EXCEPT ![t] = Nothing]
  PROVE  Box' = Box \ {bucket[t]}
<1>1. \A u \in Time : bucket'[u] = IF u = t THEN Nothing ELSE bucket[u]
  BY DEF TypeOK
<1>2. Stored' = Stored \ {t}
  BY <1>1 DEF Stored
<1>3. Box' = {bucket[u] : u \in Stored \ {t}}
  BY <1>1, <1>2 DEF Box, Stored
<1>4. ASSUME NEW u \in Stored \ {t} PROVE bucket[u] # bucket[t]
  BY OneKey DEF Stored
<1> QED
  BY <1>3, <1>4 DEF Box

(* and what a save puts in. *)
LEMMA BoxSave ==
  ASSUME TypeOK, Origin, Fresh, NEW t \in Time, NEW r \in Report,
         bucket' = [bucket EXCEPT ![t] = r]
  PROVE  Box' = (Box \ ({bucket[t]} \ {Nothing})) \cup {r}
<1>1. \A u \in Time : bucket'[u] = IF u = t THEN r ELSE bucket[u]
  BY DEF TypeOK
<1>2. Stored' = Stored \cup {t} /\ r # Nothing
  BY <1>1, Somethings DEF Stored
<1>3. Box' = {bucket[u] : u \in Stored \ {t}} \cup {r}
  BY <1>1, <1>2 DEF Box, Stored
<1>4. ASSUME NEW u \in Stored \ {t} PROVE bucket[u] # bucket[t]
  BY OneKey DEF Stored
<1>5. {bucket[u] : u \in Stored \ {t}} = Box \ ({bucket[t]} \ {Nothing})
  BY <1>4 DEF Box, Stored
<1> QED
  BY <1>3, <1>5

(* The retry is through with an entry: no other copy of its report is left. *)
LEMMA CopiesDone ==
  ASSUME TypeOK, Origin, Fresh, Forgotten, current # Nothing,
         current' = Nothing, UNCHANGED dataMap
  PROVE  /\ current[2] \in Copies /\ Copies' = Copies \ {current[2]}
         /\ current[1] \in Time
<1>1. current \in Entry /\ dataMap \subseteq Entry /\ Saved(current) /\ \A e \in dataMap : Saved(e)
  BY DEF TypeOK, Origin
<1>2. \A e \in dataMap : e[2] # current[2]
  BY <1>1, OneKey DEF Forgotten
<1>3. Copies' = {e[2] : e \in dataMap}
  BY DEF Copies
<1>4. Copies = {e[2] : e \in dataMap} \cup {current[2]}
  BY DEF Copies
<1> QED
  BY <1>1, <1>2, <1>3, <1>4 DEF Entry

(* A process that has ended left nothing in memory. *)
Ended == proc = "down" => dataChannel = <<>>

AllReport == IInv /\ Ended

LEMMA StepEnded == IInv /\ Ended /\ [Next]_vars => Ended'
<1> SUFFICES ASSUME Ended, [Next]_vars, proc' = "down" PROVE dataChannel' = <<>>
  BY DEF Ended
<1>1. CASE Quit \/ Kill
  BY <1>1 DEF Quit, Kill, End
<1>2. CASE UNCHANGED vars
  BY <1>2 DEF vars, chanVars, procVars, Ended
<1>3. CASE Clock \/ Clean \/ Stop \/ CloseDataBox \/ Boot \/ UploadData
  BY <1>3 DEF Clock, Clean, Stop, CloseDataBox, Boot, UploadData, Running, Ended, procVars, chanVars
<1>4. CASE Receiver
  BY <1>4 DEF Receiver, ReceiveTake, ReceiveDone, ReceiveFailed, SaveData, ReceiveQuit,
              Running, procVars
<1>5. CASE Retrier
  BY <1>5 DEF Retrier, RetryList, RetryReadEnd, RetryOver, RetryDone, RetryFailed, RetryDelete,
              RetryCheck, RetryQuit, RetryRead, RetryNext, Running, procVars
<1>6. ASSUME NEW p \in {"receive", "retry"}, Take(p) PROVE FALSE
  BY <1>6 DEF Take, Running, procVars
<1> QED
  BY <1>1, <1>2, <1>3, <1>4, <1>5, <1>6 DEF Next

(* The steps that change one thing only, or nothing that Outbox sees. *)
LEMMA SameQueue == UNCHANGED <<dataChannel, detail>> => UNCHANGED Queue
  BY DEF Queue
LEMMA SameBox == UNCHANGED bucket => UNCHANGED Box
  BY DEF Box, Stored
LEMMA SameCopies == UNCHANGED <<dataMap, current>> => UNCHANGED Copies
  BY DEF Copies

(* The steps of the clock, the select and the keys are none of Outbox. *)
LEMMA RefQuiet ==
  ASSUME Clock \/ ReceiveFailed \/ ReceiveQuit \/ RetryList \/ RetryReadEnd
           \/ RetryOver \/ RetryQuit \/ Stop \/ UNCHANGED vars
  PROVE  Same
<1>1. UNCHANGED <<made, dataChannel, detail, db, bucket, dataMap, current, settled>>
  BY DEF Clock, ReceiveFailed, ReceiveQuit, RetryList, RetryReadEnd, RetryOver, RetryQuit, Stop,
         Failed, vars, chanVars, recvVars, retryVars, serverVars, procVars
<1> QED
  BY <1>1, SameQueue, SameBox, SameCopies DEF Same

(* UploadData hands over, receiveData takes on. *)
LEMMA RefUpload ==
  ASSUME AllReport, UploadData PROVE Abs!Hand
<1>1. made' = made + 1 /\ UNCHANGED <<db, bucket, dataMap, current, settled>>
  BY DEF UploadData, retryVars, serverVars, procVars
<1>2. Queue' = Append(Queue, made')
  BY QueueUpload DEF AllReport, IInv
<1> QED
  BY <1>1, <1>2, SameBox, SameCopies DEF Abs!Hand

LEMMA RefReceiveTake ==
  ASSUME AllReport, ReceiveTake PROVE Same
<1>1. UNCHANGED <<made, db, bucket, dataMap, current, settled>>
  BY DEF ReceiveTake, retryVars, serverVars, procVars
<1>2. Queue' = Queue
  BY QueueTake DEF AllReport, IInv
<1> QED
  BY <1>1, <1>2, SameBox, SameCopies DEF Same

(* What the server takes is the first of the queue or a copy. *)
LEMMA RefTake ==
  ASSUME AllReport, NEW p \in {"receive", "retry"}, Take(p)
  PROVE  \E r \in Abs!First \cup Copies : Abs!Settle(r)
<1>1. /\ UNCHANGED <<made, dataChannel, detail, db, bucket, dataMap, current>>
      /\ Posting(p) /\ settled' = settled \cup {Posted(p)}
  BY DEF Take, chanVars, recvVars, retryVars, procVars
<1>2. Posted(p) \in Abs!First \cup Copies
  <2>1. CASE p = "receive"
    <3>1. detail # Nothing /\ Posted(p) = detail
      BY <1>1, <2>1 DEF Posting, Posted, AllReport, IInv, Control
    <3> QED
      BY <3>1, QueueParts DEF Abs!First, AllReport, IInv
  <2>2. CASE p = "retry"
    <3>1. current # Nothing /\ Posted(p) = current[2]
      BY <1>1, <2>2 DEF Posting, Posted, AllReport, IInv, Control
    <3> QED
      BY <3>1 DEF Copies
  <2> QED
    BY <2>1, <2>2
<1>3. Abs!Settle(Posted(p))
  BY <1>1, <1>2, SameQueue, SameBox, SameCopies DEF Abs!Settle
<1> QED
  BY <1>2, <1>3

(* What receiveData is through with was the first of the queue: delivered, *)
LEMMA RefReceiveDone ==
  ASSUME AllReport, ReceiveDone PROVE Abs!Deliver
<1>1. /\ UNCHANGED <<made, dataChannel, db, bucket, dataMap, current>>
      /\ detail' = Nothing /\ receive = "post" /\ settled' = settled \cup {detail}
  BY DEF ReceiveDone, Understood, Posting, Posted, chanVars, retryVars, procVars
<1>2. detail # Nothing
  BY <1>1 DEF AllReport, IInv, Control
<1>3. Queue # <<>> /\ Head(Queue) = detail /\ Tail(Queue) = dataChannel
  BY <1>2, QueueParts DEF AllReport, IInv
<1>4. Queue' = Tail(Queue)
  BY <1>1, <1>3, ConcatEmptySeq DEF Queue, AllReport, IInv, TypeOK
<1> QED
  BY <1>1, <1>3, <1>4, SameBox, SameCopies DEF Abs!Deliver

(* saved where there is room for one, or dropped by a closed database. *)
LEMMA RefSaveData ==
  ASSUME AllReport, SaveData
  PROVE  Abs!Drop \/ \E S \in SUBSET Box : Abs!Save(S)
<1>1. /\ UNCHANGED <<made, dataChannel, db, dataMap, current, settled>>
      /\ detail' = Nothing /\ receive = "save" /\ now \in Time
      /\ bucket' = IF db THEN [bucket EXCEPT ![now] = detail] ELSE bucket
  BY DEF SaveData, chanVars, retryVars, serverVars, procVars, AllReport, IInv, TypeOK
<1>2. detail \in Report
  BY <1>1 DEF AllReport, IInv, Control, TypeOK
<1>3. Queue # <<>> /\ Head(Queue) = detail /\ Tail(Queue) = dataChannel
  BY <1>2, QueueParts, Somethings DEF AllReport, IInv
<1>4. Queue' = Tail(Queue)
  BY <1>1, <1>3, ConcatEmptySeq DEF Queue, AllReport, IInv, TypeOK
<1>5. CASE ~db
  BY <1>1, <1>3, <1>4, <1>5, SameBox, SameCopies DEF Abs!Drop
<1>6. CASE db
  <2> DEFINE S == {bucket[now]} \ {Nothing}
  <2>1. S \in SUBSET Box /\ \A r, s \in S : r = s
    BY <1>1 DEF Box, Stored
  <2>2. Box' = (Box \ S) \cup {detail}
    BY <1>1, <1>2, <1>6, BoxSave DEF AllReport, IInv
  <2> HIDE DEF S
  <2>3. Abs!Save(S)
    BY <1>1, <1>3, <1>4, <1>6, <2>1, <2>2, SameCopies DEF Abs!Save
  <2> QED
    BY <2>1, <2>3
<1> QED
  BY <1>5, <1>6

(* What is read of the bucket is a copy of what it holds. *)
LEMMA RefRetryRead ==
  ASSUME AllReport, NEW t \in keys, RetryRead(t)
  PROVE  Same \/ \E r \in Box : Abs!Copy(r)
<1>1. /\ UNCHANGED <<made, dataChannel, detail, db, bucket, current, settled>> /\ db /\ t \in Time
      /\ dataMap' = dataMap \cup {<<u, bucket[u]>> : u \in {t} \cap Stored}
  BY DEF RetryRead, chanVars, recvVars, serverVars, procVars, AllReport, IInv, TypeOK
<1>2. CASE t \notin Stored
  <2>1. dataMap' = dataMap
    BY <1>1, <1>2
  <2> QED
    BY <1>1, <2>1, SameQueue, SameBox, SameCopies DEF Same
<1>3. CASE t \in Stored
  <2>1. dataMap' = dataMap \cup {<<t, bucket[t]>>}
    BY <1>1, <1>3
  <2>2. Copies' = Copies \cup {bucket[t]}
    <3> DEFINE had == dataMap \cup ({current} \ {Nothing})
    <3>1. Copies' = {e[2] : e \in had \cup {<<t, bucket[t]>>}}
      <4>1. dataMap' \cup ({current'} \ {Nothing}) = had \cup {<<t, bucket[t]>>}
        BY <1>1, <2>1
      <4> QED
        BY <4>1 DEF Copies
    <3>2. Copies = {e[2] : e \in had}
      BY DEF Copies
    <3> HIDE DEF had
    <3> DEFINE x == <<t, bucket[t]>>
    <3>3. x[2] = bucket[t]
      OBVIOUS
    <3> HIDE DEF x
    <3>4. {e[2] : e \in had \cup {x}} = {e[2] : e \in had} \cup {x[2]}
      OBVIOUS
    <3> QED
      BY <3>1, <3>2, <3>3, <3>4 DEF x
  <2>3. bucket[t] \in Box
    BY <1>3 DEF Box
  <2>4. Abs!Copy(bucket[t])
    BY <1>1, <2>2, <2>3, SameQueue, SameBox DEF Abs!Copy
  <2> QED
    BY <2>3, <2>4
<1> QED
  BY <1>2, <1>3

(* An entry goes from what was read to what is tried again. *)
LEMMA RefRetryNext ==
  ASSUME AllReport, NEW e \in dataMap, RetryNext(e) PROVE Same
<1>1. /\ UNCHANGED <<made, dataChannel, detail, db, bucket, settled>>
      /\ retry = "next" /\ current' = e /\ dataMap' = dataMap \ {e} /\ e # Nothing
  BY Somethings DEF RetryNext, chanVars, recvVars, serverVars, procVars, AllReport, IInv
<1>2. current = Nothing
  BY <1>1 DEF AllReport, IInv, Control
<1>3. dataMap' \cup ({current'} \ {Nothing}) = dataMap \cup ({current} \ {Nothing})
  BY <1>1, <1>2
<1>4. Copies' = Copies
  BY <1>3 DEF Copies
<1> QED
  BY <1>1, <1>4, SameQueue, SameBox DEF Same

(* What was tried again is settled, *)
LEMMA RefRetryDone ==
  ASSUME AllReport, RetryDone
  PROVE  \E r \in Abs!First \cup Copies : Abs!Settle(r)
<1>1. /\ UNCHANGED <<made, dataChannel, detail, db, bucket, dataMap, current>>
      /\ retry = "post" /\ settled' = settled \cup {current[2]}
  BY DEF RetryDone, Understood, Posting, Posted, chanVars, recvVars, procVars
<1>2. current # Nothing
  BY <1>1 DEF AllReport, IInv, Control
<1>3. current[2] \in Copies
  BY <1>2 DEF Copies
<1>4. Abs!Settle(current[2])
  BY <1>1, <1>3, SameQueue, SameBox, SameCopies DEF Abs!Settle
<1> QED
  BY <1>3, <1>4

(* or stays in the box until the next round, *)
LEMMA RefRetryFailed ==
  ASSUME AllReport, RetryFailed
  PROVE  \E S \in SUBSET Copies : Abs!GiveUp(S)
<1>1. /\ UNCHANGED <<made, dataChannel, detail, db, bucket, dataMap, settled>>
      /\ retry = "post" /\ current' = Nothing
  BY DEF RetryFailed, Failed, Posting, chanVars, recvVars, procVars
<1>2. current # Nothing
  BY <1>1 DEF AllReport, IInv, Control
<1>3. current[2] \in Copies /\ Copies' = Copies \ {current[2]}
  BY <1>1, <1>2, CopiesDone DEF AllReport, IInv
<1>4. Abs!GiveUp({current[2]})
  BY <1>1, <1>3, SameQueue, SameBox DEF Abs!GiveUp
<1> QED
  BY <1>3, <1>4

(* or is deleted by its key, with whoever has that key by now. *)
LEMMA RefRetryDelete ==
  ASSUME AllReport, RetryDelete
  PROVE  \E r \in Copies : \E S \in SUBSET Box : Abs!Delete(r, S)
<1>1. /\ UNCHANGED <<made, dataChannel, detail, db, dataMap, settled>>
      /\ retry = "delete" /\ current' = Nothing
      /\ bucket' = IF db THEN [bucket EXCEPT ![current[1]] = Nothing] ELSE bucket
  BY DEF RetryDelete, chanVars, recvVars, serverVars, procVars
<1>2. current # Nothing /\ current[2] \in settled
  BY <1>1 DEF AllReport, IInv, Control
<1>3. current[2] \in Copies /\ Copies' = Copies \ {current[2]} /\ current[1] \in Time
  BY <1>1, <1>2, CopiesDone DEF AllReport, IInv
<1> DEFINE S == IF db THEN {bucket[current[1]]} \ {Nothing} ELSE {}
<1>4. S \in SUBSET Box /\ \A s, t \in S : s = t
  BY <1>3 DEF Box, Stored
<1>5. Box' = Box \ S
  <2>1. CASE db
    <3>1. Box' = Box \ {bucket[current[1]]}
      BY <1>1, <1>3, <2>1, BoxDelete DEF AllReport, IInv
    <3>2. Nothing \notin Box
      BY DEF Box, Stored
    <3> QED
      BY <2>1, <3>1, <3>2
  <2>2. CASE ~db
    BY <1>1, <2>2, SameBox
  <2> QED
    BY <2>1, <2>2
<1>6. ~db => S = {}
  OBVIOUS
<1> HIDE DEF S
<1>7. Abs!Delete(current[2], S)
  BY <1>1, <1>2, <1>3, <1>4, <1>5, <1>6, SameQueue DEF Abs!Delete
<1> QED
  BY <1>3, <1>4, <1>7

(* A stop gives the rest of a round up. *)
LEMMA RefRetryCheck ==
  ASSUME AllReport, RetryCheck
  PROVE  Same \/ \E S \in SUBSET Copies : Abs!GiveUp(S)
<1>1. /\ UNCHANGED <<made, dataChannel, detail, db, bucket, current, settled>>
      /\ retry = "check" /\ (dataMap' = {} \/ dataMap' = dataMap)
  BY DEF RetryCheck, chanVars, recvVars, serverVars, procVars
<1>2. CASE dataMap' = dataMap
  BY <1>1, <1>2, SameQueue, SameBox, SameCopies DEF Same
<1>3. CASE dataMap' = {}
  <2>1. current = Nothing
    BY <1>1 DEF AllReport, IInv, Control
  <2>2. Copies' = Copies \ Copies
    BY <1>1, <1>3, <2>1 DEF Copies
  <2>3. Abs!GiveUp(Copies)
    BY <1>1, <2>2, SameQueue, SameBox DEF Abs!GiveUp
  <2> QED
    BY <2>3
<1> QED
  BY <1>1, <1>2, <1>3

(* The cleaner takes one entry that is too old. *)
LEMMA RefClean ==
  ASSUME AllReport, Clean PROVE \E r \in Box : Abs!Expire(r)
<1>1. PICK t \in Stored : bucket' = [bucket EXCEPT ![t] = Nothing]
  BY DEF Clean
<1>2. UNCHANGED <<made, dataChannel, detail, db, dataMap, current, settled>> /\ db
  BY DEF Clean, chanVars, recvVars, retryVars, serverVars, procVars
<1>3. t \in Time /\ bucket[t] \in Box
  BY DEF Box, Stored
<1>4. Box' = Box \ {bucket[t]}
  BY <1>1, <1>3, BoxDelete DEF AllReport, IInv
<1>5. Abs!Expire(bucket[t])
  BY <1>2, <1>4, SameQueue, SameCopies DEF Abs!Expire
<1> QED
  BY <1>3, <1>5

(* Stop closes the box, the process ends, and the next one starts empty. *)
LEMMA RefProcess ==
  ASSUME AllReport, CloseDataBox \/ Quit \/ Kill \/ Boot
  PROVE  Abs!Close \/ Abs!End \/ Abs!Reopen
<1>1. CASE CloseDataBox
  <2>1. UNCHANGED <<made, dataChannel, detail, bucket, dataMap, current, settled>> /\ db' = FALSE
    BY <1>1 DEF CloseDataBox, chanVars, recvVars, retryVars, serverVars
  <2> QED
    BY <2>1, SameQueue, SameBox, SameCopies DEF Abs!Close
<1>2. CASE Quit \/ Kill
  <2>1. /\ UNCHANGED <<made, bucket, settled>> /\ db' = FALSE /\ dataChannel' = <<>>
        /\ detail' = Nothing /\ dataMap' = {} /\ current' = Nothing
    BY <1>2 DEF Quit, Kill, End
  <2>2. Queue' = <<>> /\ Copies' = {}
    BY <2>1, ConcatEmptySeq DEF Queue, Copies
  <2> QED
    BY <2>1, <2>2, SameBox DEF Abs!End
<1>3. CASE Boot
  <2>1. UNCHANGED <<made, dataChannel, detail, bucket, dataMap, current, settled>>
        /\ db' = TRUE /\ proc = "down"
    BY <1>3 DEF Boot, chanVars, recvVars, retryVars, serverVars
  <2>2. dataChannel = <<>> /\ detail = Nothing /\ dataMap = {} /\ current = Nothing
    BY <2>1 DEF AllReport, Ended, IInv, Control
  <2>3. Queue = <<>> /\ Copies = {}
    BY <2>2, ConcatEmptySeq DEF Queue, Copies
  <2> QED
    BY <2>1, <2>3, SameQueue, SameBox, SameCopies DEF Abs!Reopen
<1> QED
  BY <1>1, <1>2, <1>3

(* Every step of Report is one of Outbox, or none, *)
THEOREM StepRefines == AllReport /\ [Next]_vars => [Abs!Next]_(Abs!ovars)
<1> SUFFICES ASSUME AllReport, [Next]_vars PROVE Same \/ Abs!Next
  BY DEF Same, Abs!ovars
<1>1. CASE Clock \/ ReceiveFailed \/ ReceiveQuit \/ RetryList \/ RetryReadEnd
             \/ RetryOver \/ RetryQuit \/ Stop \/ UNCHANGED vars
  BY <1>1, RefQuiet
<1>2. CASE UploadData
  BY <1>2, RefUpload DEF Abs!Next
<1>3. CASE ReceiveTake
  BY <1>3, RefReceiveTake
<1>4. ASSUME NEW p \in {"receive", "retry"}, Take(p) PROVE Abs!Next
  BY <1>4, RefTake DEF Abs!Next
<1>5. CASE ReceiveDone
  BY <1>5, RefReceiveDone DEF Abs!Next
<1>6. CASE SaveData
  BY <1>6, RefSaveData DEF Abs!Next
<1>7. ASSUME NEW t \in keys, RetryRead(t) PROVE Same \/ Abs!Next
  BY <1>7, RefRetryRead DEF Abs!Next
<1>8. ASSUME NEW e \in dataMap, RetryNext(e) PROVE Same
  BY <1>8, RefRetryNext
<1>9. CASE RetryDone
  BY <1>9, RefRetryDone DEF Abs!Next
<1>10. CASE RetryFailed
  BY <1>10, RefRetryFailed DEF Abs!Next
<1>11. CASE RetryDelete
  BY <1>11, RefRetryDelete DEF Abs!Next
<1>12. CASE RetryCheck
  BY <1>12, RefRetryCheck DEF Abs!Next
<1>13. CASE Clean
  BY <1>13, RefClean DEF Abs!Next
<1>14. CASE CloseDataBox \/ Quit \/ Kill \/ Boot
  BY <1>14, RefProcess DEF Abs!Next
<1> QED
  BY <1>1, <1>2, <1>3, <1>4, <1>5, <1>6, <1>7, <1>8, <1>9, <1>10, <1>11, <1>12, <1>13, <1>14
     DEF Next, Receiver, Retrier

(* and it starts as Outbox does. *)
THEOREM InitRefines == Init => Abs!Init /\ Ended
<1> SUFFICES ASSUME Init PROVE Abs!Init /\ Ended
  OBVIOUS
<1>1. Stored = {} /\ dataChannel = <<>> /\ detail = Nothing
  BY DEF Init, Stored
<1>2. Queue = <<>> /\ Box = {} /\ Copies = {}
  BY <1>1, ConcatEmptySeq DEF Init, Queue, Box, Copies
<1> QED
  BY <1>1, <1>2 DEF Init, Abs!Init, Ended

(* Report implements Outbox: with any number of reports, posts that fail,  *)
(* lost answers, stops and kills, reports are first sent in the order of   *)
(* UploadData, saved only after a failure and once, and the retry works on *)
(* copies of what was saved and leaves everything else alone.              *)
THEOREM Implements == Spec => ImplementsOutbox
<1>1. Spec => []Ended
  <2>1. Spec => []IInv
    BY SpecIInv
  <2>2. Init => Ended
    BY InitRefines
  <2> QED
    BY <2>1, <2>2, StepEnded, PTL DEF Spec
<1>2. Spec => []AllReport
  BY <1>1, SpecIInv, PTL DEF AllReport
<1> QED
  BY <1>2, InitRefines, StepRefines, PTL DEF Spec, ImplementsOutbox, Abs!Spec
=============================================================================
