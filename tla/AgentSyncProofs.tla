--------------------------- MODULE AgentSyncProofs ---------------------------
(***************************************************************************)
(* Proofs about AgentSync for every set of hashes, lists the centre may     *)
(* publish, number of changes, failures, deaths and attempts.               *)
(***************************************************************************)
EXTENDS AgentSync, SequenceTheorems, TLAPS

(* What has reached the manager, or has one of the known excuses. *)
Excused == offered \cup failed \cup raced \cup overwritten \cup undone

(* Where the listed plugins are at each place of the parser: besides those  *)
(* with an excuse, in addPlugins while a token or the parser is on its way  *)
(* to GetUrl, in fetch and HashMap inside GetUrl.                           *)
Pending ==
  /\ parser \in {"select", "differ", "adopt"} =>
       lastHashes \subseteq Excused \cup (IF downloadChan THEN addPlugins ELSE {})
  /\ parser = "assign" => seen \subseteq Excused \cup addPlugins
  /\ parser = "send" => lastHashes \subseteq Excused \cup addPlugins
  /\ parser \in {"fetch", "update"} => lastHashes \subseteq Excused \cup fetch \cup hashMap
  /\ parser = "update" => fetch = {}
  /\ parser = "delete" => lastHashes \subseteq Excused
  /\ ~up => lastHashes = {} /\ parser = "select"

(* StartListHashes dials again only while it has an attempt left.           *)
Trying == lister = "dial" => tries < Attempts

IInv == TypeOK /\ Trying /\ Noticed /\ Pending

(* The initial state has an empty history and nothing under way. *)
THEOREM InitIInv == Init => IInv
<1> SUFFICES ASSUME Init PROVE IInv
  OBVIOUS
<1>1. TypeOK
  <2>1. <<>> \in Seq(SUBSET Hash) /\ <<>> \in OneSlot
    BY DEF OneSlot
  <2>2. 0 \in 0..Attempts /\ 0 \in 0..MaxPublish /\ 0 \in 0..MaxFailures
    BY AgentAssumption
  <2> QED
    BY <2>1, <2>2, AgentAssumption DEF Init, TypeOK
<1>2. Trying /\ Noticed /\ Pending
  BY AgentAssumption DEF Init, Trying, Noticed, Pending, Excused
<1> QED
  BY <1>1, <1>2 DEF IInv

(* Every step keeps the types. *)
THEOREM StepType == TypeOK /\ Trying /\ [Next]_vars => TypeOK'
<1> SUFFICES ASSUME TypeOK, Trying, [Next]_vars PROVE TypeOK'
  OBVIOUS
<1>0. <<>> \in Seq(SUBSET Hash) /\ <<>> \in OneSlot
  BY DEF OneSlot
<1> USE AgentAssumption DEF TypeOK
<1>1. ASSUME NEW S \in Lists, Publish(S) PROVE TypeOK'
  BY <1>1 DEF Publish, centreVars, listed, watchVars, listVars, parseVars, getVars, chanVars
<1>2. CASE WatchDial
  BY <1>2 DEF WatchDial, centreVars, listed, watchVars, listVars, parseVars, getVars, chanVars
<1>3. CASE WatchLost
  BY <1>3 DEF WatchLost, Fail, centreVars, listed, watchVars, listVars, parseVars, getVars, chanVars
<1>4. CASE WatchRead
  BY <1>4 DEF WatchRead, centreVars, listed, watchVars, listVars, parseVars, getVars, chanVars
<1>5. CASE WatchSend
  BY <1>5 DEF WatchSend, centreVars, listed, watchVars, listVars, parseVars, getVars, chanVars
<1>6. CASE ListRead
  BY <1>6 DEF ListRead, centreVars, listed, watchVars, listVars, parseVars, getVars, chanVars
<1>7. CASE ListRefused
  BY <1>7 DEF ListRefused, Fail, centreVars, listed, watchVars, listVars, parseVars, getVars, chanVars
<1>8. CASE ListLost
  BY <1>8 DEF ListLost, Fail, Trying, centreVars, listed, watchVars, listVars, parseVars, getVars, chanVars
<1>9. CASE ParseWatch
  BY <1>9 DEF ParseWatch, centreVars, listed, watchVars, listVars, parseVars, getVars, chanVars
<1>10. CASE Differ
  BY <1>10 DEF Differ, Overwrite, centreVars, listed, watchVars, listVars, parseVars, getVars, chanVars
<1>11. CASE Adopt
  BY <1>11 DEF Adopt, Overwrite, centreVars, listed, watchVars, listVars, parseVars, getVars, chanVars
<1>12. CASE Assign
  BY <1>12 DEF Assign, centreVars, listed, watchVars, listVars, parseVars, getVars, chanVars
<1>13. CASE ParseList
  BY <1>13 DEF ParseList, Overwrite, centreVars, listed, watchVars, listVars, parseVars, getVars, chanVars
<1>14. CASE ParseSend
  BY <1>14 DEF ParseSend, centreVars, listed, watchVars, listVars, parseVars, getVars, chanVars
<1>15. CASE ParseDownload
  BY <1>15 DEF ParseDownload, AfterUpdate, centreVars, listed, watchVars, listVars, parseVars, getVars, chanVars
<1>16. ASSUME NEW h \in fetch, Fetched(h) PROVE TypeOK'
  BY <1>16 DEF Fetched, Fail, centreVars, listed, watchVars, listVars, parseVars, getVars, chanVars
<1>17. ASSUME NEW h \in fetch, FetchFailed(h) PROVE TypeOK'
  BY <1>17 DEF FetchFailed, Fail, centreVars, listed, watchVars, listVars, parseVars, getVars, chanVars
<1>18. CASE SendUpdate
  BY <1>18 DEF SendUpdate, AfterUpdate, OneSlot, centreVars, listed, watchVars, listVars, parseVars, getVars, chanVars
<1>19. CASE SendDelete
  BY <1>19 DEF SendDelete, OneSlot, centreVars, listed, watchVars, listVars, parseVars, getVars, chanVars
<1>20. CASE TakeUpdate
  BY <1>20 DEF TakeUpdate, OneSlot, centreVars, listed, watchVars, listVars, parseVars, getVars, chanVars
<1>21. CASE TakeDelete
  BY <1>21 DEF TakeDelete, OneSlot, centreVars, listed, watchVars, listVars, parseVars, getVars, chanVars
<1>22. CASE Die
  <2>1. failures' \in 0..MaxFailures /\ tries' \in 0..Attempts
    BY <1>22 DEF Die, Fail
  <2>2. published' \in Lists \cup {Installed} /\ changes' \in 0..MaxPublish /\ disk' \subseteq Hash
    BY <1>22 DEF Die, listed
  <2>4. lists' \subseteq Lists \cup {Installed}
    BY <1>22 DEF Die, listed
  <2>3. stream' \in Seq(SUBSET Hash) /\ updateChan' \in OneSlot /\ deleteChan' \in OneSlot
    BY <1>0, <1>22 DEF Die
  <2> QED
    BY <1>22, <2>1, <2>2, <2>3, <2>4 DEF Die
<1>23. CASE Boot
  BY <1>23 DEF Boot, centreVars, listed, watchVars, listVars, parseVars, getVars, chanVars
<1>24. CASE UNCHANGED vars
  BY <1>24 DEF vars, centreVars, listed, watchVars, listVars, parseVars, getVars, chanVars
<1> QED
  BY <1>1, <1>2, <1>3, <1>4, <1>5, <1>6, <1>7, <1>8, <1>9, <1>10, <1>11, <1>12, <1>13, <1>14, <1>15, <1>16, <1>17, <1>18, <1>19, <1>20, <1>21, <1>22, <1>23, <1>24 DEF Next, Watcher, Lister, Parser, Getter, Manager

(* Every step keeps Trying: only the lister and a death touch its state.    *)
THEOREM StepTrying == TypeOK /\ Trying /\ [Next]_vars => Trying'
<1> SUFFICES ASSUME TypeOK, Trying, [Next]_vars PROVE Trying'
  OBVIOUS
<1> USE AgentAssumption DEF TypeOK, Trying
<1>1. CASE ListLost
  BY <1>1 DEF ListLost
<1>2. CASE Die
  BY <1>2 DEF Die
<1>3. CASE ListRead \/ ListRefused \/ ParseList
  BY <1>3 DEF ListRead, ListRefused, ParseList
<1>4. CASE UNCHANGED listVars
  BY <1>4 DEF listVars
<1>5. CASE UNCHANGED vars
  BY <1>5 DEF vars, listVars
<1>6. ListLost \/ Die \/ ListRead \/ ListRefused \/ ParseList \/ UNCHANGED listVars \/ UNCHANGED vars
  BY DEF Next, Publish, Watcher, WatchDial, WatchLost, WatchRead, WatchSend, Lister, ParseWatch,
         ParseDownload, Parser, Differ, Adopt, Assign, ParseSend, Getter, Fetched, FetchFailed,
         SendUpdate, SendDelete, Manager, TakeUpdate, TakeDelete, Boot
<1> QED
  BY <1>1, <1>2, <1>3, <1>4, <1>5, <1>6

(* Every step keeps Noticed: a list is written before its token is sent,    *)
(* and the parser takes the token before it reads the list.                 *)
THEOREM StepNoticed == TypeOK /\ Noticed /\ [Next]_vars => Noticed'
<1> SUFFICES ASSUME TypeOK, Noticed, [Next]_vars PROVE Noticed'
  OBVIOUS
<1> USE DEF TypeOK, Noticed
<1>1. ASSUME NEW S \in Lists, Publish(S) PROVE Noticed'
  BY <1>1 DEF Publish, centreVars, listed, watchVars, listVars, parseVars, getVars, chanVars
<1>2. CASE WatchDial
  BY <1>2 DEF WatchDial, centreVars, listed, watchVars, listVars, parseVars, getVars, chanVars
<1>3. CASE WatchLost
  BY <1>3 DEF WatchLost, Fail, centreVars, listed, watchVars, listVars, parseVars, getVars, chanVars
<1>4. CASE WatchRead
  BY <1>4 DEF WatchRead, centreVars, listed, watchVars, listVars, parseVars, getVars, chanVars
<1>5. CASE WatchSend
  BY <1>5 DEF WatchSend, centreVars, listed, watchVars, listVars, parseVars, getVars, chanVars
<1>6. CASE ListRead
  BY <1>6 DEF ListRead, centreVars, listed, watchVars, listVars, parseVars, getVars, chanVars
<1>7. CASE ListRefused
  BY <1>7 DEF ListRefused, Fail, centreVars, listed, watchVars, listVars, parseVars, getVars, chanVars
<1>8. CASE ListLost
  BY <1>8 DEF ListLost, Fail, centreVars, listed, watchVars, listVars, parseVars, getVars, chanVars
<1>9. CASE ParseWatch
  BY <1>9 DEF ParseWatch, centreVars, listed, watchVars, listVars, parseVars, getVars, chanVars
<1>10. CASE Differ
  BY <1>10 DEF Differ, Overwrite, centreVars, listed, watchVars, listVars, parseVars, getVars, chanVars
<1>11. CASE Adopt
  BY <1>11 DEF Adopt, Overwrite, centreVars, listed, watchVars, listVars, parseVars, getVars, chanVars
<1>12. CASE Assign
  BY <1>12 DEF Assign, centreVars, listed, watchVars, listVars, parseVars, getVars, chanVars
<1>13. CASE ParseList
  BY <1>13 DEF ParseList, Overwrite, centreVars, listed, watchVars, listVars, parseVars, getVars, chanVars
<1>14. CASE ParseSend
  BY <1>14 DEF ParseSend, centreVars, listed, watchVars, listVars, parseVars, getVars, chanVars
<1>15. CASE ParseDownload
  BY <1>15 DEF ParseDownload, AfterUpdate, centreVars, listed, watchVars, listVars, parseVars, getVars, chanVars
<1>16. ASSUME NEW h \in fetch, Fetched(h) PROVE Noticed'
  BY <1>16 DEF Fetched, Fail, centreVars, listed, watchVars, listVars, parseVars, getVars, chanVars
<1>17. ASSUME NEW h \in fetch, FetchFailed(h) PROVE Noticed'
  BY <1>17 DEF FetchFailed, Fail, centreVars, listed, watchVars, listVars, parseVars, getVars, chanVars
<1>18. CASE SendUpdate
  BY <1>18 DEF SendUpdate, AfterUpdate, centreVars, listed, watchVars, listVars, parseVars, getVars, chanVars
<1>19. CASE SendDelete
  BY <1>19 DEF SendDelete, centreVars, listed, watchVars, listVars, parseVars, getVars, chanVars
<1>20. CASE TakeUpdate
  BY <1>20 DEF TakeUpdate, centreVars, listed, watchVars, listVars, parseVars, getVars, chanVars
<1>21. CASE TakeDelete
  BY <1>21 DEF TakeDelete, centreVars, listed, watchVars, listVars, parseVars, getVars, chanVars
<1>22. CASE Die
  BY <1>22 DEF Die, Fail, centreVars, listed, watchVars, listVars, parseVars, getVars, chanVars
<1>23. CASE Boot
  BY <1>23 DEF Boot, centreVars, listed, watchVars, listVars, parseVars, getVars, chanVars
<1>24. CASE UNCHANGED vars
  BY <1>24 DEF vars, centreVars, listed, watchVars, listVars, parseVars, getVars, chanVars
<1> QED
  BY <1>1, <1>2, <1>3, <1>4, <1>5, <1>6, <1>7, <1>8, <1>9, <1>10, <1>11, <1>12, <1>13, <1>14, <1>15, <1>16, <1>17, <1>18, <1>19, <1>20, <1>21, <1>22, <1>23, <1>24 DEF Next, Watcher, Lister, Parser, Getter, Manager

(* Every step keeps Pending: what leaves addPlugins, fetch or HashMap       *)
(* reaches the manager or gets an excuse.                                   *)
THEOREM StepPending == TypeOK /\ Pending /\ [Next]_vars => Pending'
<1> SUFFICES ASSUME TypeOK, Pending, [Next]_vars PROVE Pending'
  OBVIOUS
<1> USE DEF Pending, Excused
<1>1. ASSUME NEW S \in Lists, Publish(S) PROVE Pending'
  BY <1>1 DEF Publish, centreVars, listed, watchVars, listVars, parseVars, getVars, chanVars
<1>2. CASE WatchDial
  BY <1>2 DEF WatchDial, centreVars, listed, watchVars, listVars, parseVars, getVars, chanVars
<1>3. CASE WatchLost
  BY <1>3 DEF WatchLost, Fail, centreVars, listed, watchVars, listVars, parseVars, getVars, chanVars
<1>4. CASE WatchRead
  BY <1>4 DEF WatchRead, centreVars, listed, watchVars, listVars, parseVars, getVars, chanVars
<1>5. CASE WatchSend
  BY <1>5 DEF WatchSend, centreVars, listed, watchVars, listVars, parseVars, getVars, chanVars
<1>6. CASE ListRead
  BY <1>6 DEF ListRead, centreVars, listed, watchVars, listVars, parseVars, getVars, chanVars
<1>7. CASE ListRefused
  BY <1>7 DEF ListRefused, Fail, centreVars, listed, watchVars, listVars, parseVars, getVars, chanVars
<1>8. CASE ListLost
  BY <1>8 DEF ListLost, Fail, centreVars, listed, watchVars, listVars, parseVars, getVars, chanVars
<1>9. CASE ParseWatch
  BY <1>9 DEF ParseWatch, centreVars, listed, watchVars, listVars, parseVars, getVars, chanVars
<1>10. CASE Differ
  BY <1>10 DEF Differ, Overwrite, centreVars, listed, watchVars, listVars, parseVars, getVars, chanVars
<1>11. CASE Adopt
  BY <1>11 DEF Adopt, Overwrite, centreVars, listed, watchVars, listVars, parseVars, getVars, chanVars
<1>12. CASE Assign
  BY <1>12 DEF Assign, centreVars, listed, watchVars, listVars, parseVars, getVars, chanVars
<1>13. CASE ParseList
  BY <1>13 DEF ParseList, Overwrite, centreVars, listed, watchVars, listVars, parseVars, getVars, chanVars
<1>14. CASE ParseSend
  BY <1>14 DEF ParseSend, centreVars, listed, watchVars, listVars, parseVars, getVars, chanVars
<1>15. CASE ParseDownload
  BY <1>15 DEF ParseDownload, AfterUpdate, centreVars, listed, watchVars, listVars, parseVars, getVars, chanVars
<1>16. ASSUME NEW h \in fetch, Fetched(h) PROVE Pending'
  BY <1>16 DEF Fetched, Fail, centreVars, listed, watchVars, listVars, parseVars, getVars, chanVars
<1>17. ASSUME NEW h \in fetch, FetchFailed(h) PROVE Pending'
  BY <1>17 DEF FetchFailed, Fail, centreVars, listed, watchVars, listVars, parseVars, getVars, chanVars
<1>18. CASE SendUpdate
  BY <1>18 DEF SendUpdate, AfterUpdate, centreVars, listed, watchVars, listVars, parseVars, getVars, chanVars
<1>19. CASE SendDelete
  BY <1>19 DEF SendDelete, centreVars, listed, watchVars, listVars, parseVars, getVars, chanVars
<1>20. CASE TakeUpdate
  BY <1>20 DEF TakeUpdate, centreVars, listed, watchVars, listVars, parseVars, getVars, chanVars
<1>21. CASE TakeDelete
  BY <1>21 DEF TakeDelete, centreVars, listed, watchVars, listVars, parseVars, getVars, chanVars
<1>22. CASE Die
  BY <1>22 DEF Die, Fail, centreVars, listed, watchVars, listVars, parseVars, getVars, chanVars
<1>23. CASE Boot
  BY <1>23 DEF Boot, centreVars, listed, watchVars, listVars, parseVars, getVars, chanVars
<1>24. CASE UNCHANGED vars
  BY <1>24 DEF vars, centreVars, listed, watchVars, listVars, parseVars, getVars, chanVars
<1> QED
  BY <1>1, <1>2, <1>3, <1>4, <1>5, <1>6, <1>7, <1>8, <1>9, <1>10, <1>11, <1>12, <1>13, <1>14, <1>15, <1>16, <1>17, <1>18, <1>19, <1>20, <1>21, <1>22, <1>23, <1>24 DEF Next, Watcher, Lister, Parser, Getter, Manager

(* The inductive invariant holds throughout. *)
THEOREM SpecIInv == Spec => []IInv
<1>1. IInv /\ [Next]_vars => IInv'
  BY StepType, StepTrying, StepNoticed, StepPending DEF IInv
<1> QED
  BY InitIInv, <1>1, PTL DEF Spec

(* The variables keep their types: the channels hold at most one batch, and *)
(* StartListHashes tries no more than three times.                          *)
THEOREM TypeCorrect == Spec => []TypeOK
<1>1. IInv => TypeOK
  BY DEF IInv
<1> QED
  BY SpecIInv, <1>1, PTL

(* No list that was read goes unnoticed (ListWatchHashes, ParseWatchPlugin). *)
THEOREM NoListUnnoticed == Spec => []Noticed
<1>1. IInv => Noticed
  BY DEF IInv
<1> QED
  BY SpecIInv, <1>1, PTL

(* A listed plugin the manager was not told of has one of four excuses.     *)
THEOREM OnlyTheseMisses == Spec => []MissesExplained
<1>1. IInv => MissesExplained
  BY DEF IInv, Pending, Excused, MissesExplained
<1> QED
  BY SpecIInv, <1>1, PTL

-----------------------------------------------------------------------------
(* Where the lists go *)

(* A list is on its way, or read, or the basis of a difference only as it  *)
(* was published; what is to be fetched or sent for an update is part of   *)
(* one list, and what is to be deleted is missing from one.                *)
Part(S)    == \E L \in lists : S \subseteq L
Missing(S) == \E L \in lists : S \cap L = {}

Sourced ==
  /\ published \in lists /\ \A i \in 1..Len(stream) : stream[i] \in lists
  /\ receiveHashes # {} => receiveHashes \in lists
  /\ (watcher = "send" \/ watchChan \/ parser \in {"differ", "adopt", "assign"})
       => receiveHashes # {}
  /\ lister = "send" => nodeHashes \in lists
  /\ Part(addPlugins) /\ Part(fetch \cup hashMap) /\ Missing(deletePlugins)
  /\ updateChan # <<>> => Part(Head(updateChan))
  /\ deleteChan # <<>> => Missing(Head(deleteChan))

(* Every step keeps Sourced. *)
THEOREM StepSourced == TypeOK /\ Sourced /\ [Next]_vars => Sourced'
<1> SUFFICES ASSUME TypeOK, Sourced, [Next]_vars PROVE Sourced'
  OBVIOUS
<1> USE DEF Sourced, Part, Missing
<1>1. ASSUME NEW S \in Lists, Publish(S) PROVE Sourced'
  <2>1. /\ published' = S /\ lists' = lists \cup {S}
        /\ UNCHANGED <<watcher, receiveHashes, watchChan, listVars, parser, parseVars, getVars,
                       chanVars>>
    BY <1>1 DEF Publish
  <2>2. \A i \in 1..Len(stream') : stream'[i] = S \/ \E j \in 1..Len(stream) : stream'[i] = stream[j]
    <3>1. stream \in Seq(SUBSET Hash) /\ S \in SUBSET Hash
      BY AgentAssumption DEF TypeOK
    <3>2. stream' = stream \/ stream' = Append(stream, S)
      BY <1>1 DEF Publish
    <3> QED
      BY <3>1, <3>2, AppendProperties
  <2>3. \A i \in 1..Len(stream') : stream'[i] \in lists'
    BY <2>1, <2>2
  <2> QED
    BY <2>1, <2>3 DEF listVars, parseVars, getVars, chanVars
<1>4. CASE WatchRead
  <2>1. /\ stream # <<>> /\ stream' = Tail(stream) /\ stream \in Seq(SUBSET Hash)
        /\ UNCHANGED <<centreVars, watchChan, listVars, parser, parseVars, getVars, chanVars>>
    BY <1>4 DEF WatchRead, TypeOK
  <2>2. Head(stream) \in lists /\ \A i \in 1..Len(stream') : stream'[i] \in lists
    <3>1. Len(stream) \in Nat /\ Len(stream) >= 1 /\ Head(stream) = stream[1]
      BY <2>1, LenProperties, HeadTailProperties
    <3>2. /\ Len(stream') = Len(stream) - 1
          /\ \A i \in 1..Len(stream') : stream'[i] = stream[i + 1]
      BY <2>1, HeadTailProperties
    <3> QED
      BY <3>1, <3>2
  <2>3. /\ receiveHashes' # {} => receiveHashes' \in lists
        /\ receiveHashes # {} \/ watcher' = "send" => receiveHashes' # {}
    BY <1>4, <2>2 DEF WatchRead
  <2>4. watcher = "read" /\ (watcher' = "send" => receiveHashes' # {})
    BY <1>4 DEF WatchRead
  <2> QED
    BY <2>1, <2>2, <2>3, <2>4 DEF centreVars, listed, listVars, parseVars, getVars, chanVars
<1>2. CASE WatchDial
  BY <1>2 DEF WatchDial, centreVars, listed, watchVars, listVars, parseVars, getVars, chanVars
<1>3. CASE WatchLost
  BY <1>3 DEF WatchLost, Fail, centreVars, listed, watchVars, listVars, parseVars, getVars, chanVars
<1>5. CASE WatchSend
  BY <1>5 DEF WatchSend, centreVars, listed, watchVars, listVars, parseVars, getVars, chanVars
<1>6. CASE ListRead
  BY <1>6 DEF ListRead, centreVars, listed, watchVars, listVars, parseVars, getVars, chanVars
<1>7. CASE ListRefused
  BY <1>7 DEF ListRefused, Fail, centreVars, listed, watchVars, listVars, parseVars, getVars, chanVars
<1>8. CASE ListLost
  BY <1>8 DEF ListLost, Fail, centreVars, listed, watchVars, listVars, parseVars, getVars, chanVars
<1>9. CASE ParseWatch
  BY <1>9 DEF ParseWatch, centreVars, listed, watchVars, listVars, parseVars, getVars, chanVars
<1>10. CASE Differ
  BY <1>10 DEF Differ, Overwrite, centreVars, listed, watchVars, listVars, parseVars, getVars, chanVars
<1>11. CASE Adopt
  BY <1>11 DEF Adopt, Overwrite, centreVars, listed, watchVars, listVars, parseVars, getVars, chanVars
<1>12. CASE Assign
  BY <1>12 DEF Assign, centreVars, listed, watchVars, listVars, parseVars, getVars, chanVars
<1>13. CASE ParseList
  BY <1>13 DEF ParseList, Overwrite, centreVars, listed, watchVars, listVars, parseVars, getVars, chanVars
<1>14. CASE ParseSend
  BY <1>14 DEF ParseSend, centreVars, listed, watchVars, listVars, parseVars, getVars, chanVars
<1>15. CASE ParseDownload
  BY <1>15 DEF ParseDownload, AfterUpdate, centreVars, listed, watchVars, listVars, parseVars, getVars, chanVars
<1>18. CASE SendUpdate
  BY <1>18 DEF SendUpdate, AfterUpdate, centreVars, listed, watchVars, listVars, parseVars, getVars, chanVars
<1>19. CASE SendDelete
  BY <1>19 DEF SendDelete, centreVars, listed, watchVars, listVars, parseVars, getVars, chanVars
<1>20. CASE TakeUpdate
  BY <1>20 DEF TakeUpdate, AfterUpdate, centreVars, listed, watchVars, listVars, parseVars, getVars, chanVars
<1>21. CASE TakeDelete
  BY <1>21 DEF TakeDelete, centreVars, listed, watchVars, listVars, parseVars, getVars, chanVars
<1>22. CASE Die
  BY <1>22 DEF Die, Fail, centreVars, listed, watchVars, listVars, parseVars, getVars, chanVars
<1>23. CASE Boot
  BY <1>23 DEF Boot, centreVars, listed, watchVars, listVars, parseVars, getVars, chanVars
<1>16. ASSUME NEW h \in fetch, Fetched(h) PROVE Sourced'
  BY <1>16 DEF Fetched, Fail, centreVars, listed, watchVars, listVars, parseVars, getVars, chanVars
<1>17. ASSUME NEW h \in fetch, FetchFailed(h) PROVE Sourced'
  BY <1>17 DEF FetchFailed, Fail, centreVars, listed, watchVars, listVars, parseVars, getVars, chanVars
<1>24. CASE UNCHANGED vars
  BY <1>24 DEF vars, centreVars, listed, watchVars, listVars, parseVars, getVars, chanVars
<1> QED
  BY <1>1, <1>2, <1>3, <1>4, <1>5, <1>6, <1>7, <1>8, <1>9, <1>10, <1>11, <1>12, <1>13, <1>14, <1>15, <1>16, <1>17, <1>18, <1>19, <1>20, <1>21, <1>22, <1>23, <1>24
     DEF Next, Watcher, Lister, Parser, Getter, Manager

LEMMA SpecSourced == Spec => []Sourced
<1>1. Init => Sourced
  BY DEF Init, Sourced, Part, Missing
<1>2. TypeOK /\ Sourced /\ [Next]_vars => Sourced'
  BY StepSourced
<1> QED
  BY <1>1, <1>2, TypeCorrect, PTL DEF Spec

(* What is on disk follows what is taken from the two channels. *)
LEMMA StepWithin == Sourced /\ WithinLists /\ [Next]_vars => WithinLists'
<1> SUFFICES ASSUME Sourced, WithinLists, [Next]_vars PROVE WithinLists'
  OBVIOUS
<1> USE DEF WithinLists
<1>1. CASE TakeUpdate
  BY <1>1 DEF TakeUpdate, Sourced, Part, centreVars, listed
<1>2. CASE TakeDelete
  BY <1>2 DEF TakeDelete, Sourced, Missing, centreVars, listed
<1>3. ASSUME NEW S \in Lists, Publish(S) PROVE WithinLists'
  BY <1>3 DEF Publish
<1>4. CASE UNCHANGED <<listed, disk>>
  BY <1>4 DEF listed
<1>5. TakeUpdate \/ TakeDelete \/ (\E S \in Lists : Publish(S)) \/ UNCHANGED <<listed, disk>>
  BY DEF Next, vars, centreVars, Watcher, WatchDial, WatchLost, WatchRead, WatchSend, Lister,
         ListRead, ListRefused, ListLost, ParseWatch, ParseList, ParseDownload, Parser, Differ,
         Adopt, Assign, ParseSend, Getter, Fetched, FetchFailed, SendUpdate, SendDelete, Manager,
         Die, Boot
<1> QED
  BY <1>1, <1>2, <1>3, <1>4, <1>5

(* A plugin that no list has held is never installed, and one that every   *)
(* list has held never removed, through lost connections, races for the    *)
(* globals, failed downloads and restarts (ListWatchHashes, ParseWatchPlugin, *)
(* GetUrl).                                                                *)
THEOREM OnlyListedChanges == Spec => []WithinLists
<1>1. Init => WithinLists
  BY DEF Init, WithinLists
<1>2. Sourced /\ WithinLists /\ [Next]_vars => WithinLists'
  BY StepWithin
<1> QED
  BY <1>1, <1>2, SpecSourced, PTL DEF Spec

(* What GetUrl sends is part of one published list, so that no batch holds *)
(* two versions of a plugin unless a list does: this is what the theorems  *)
(* of HotPlugRefinement assume of the histories.                           *)
THEOREM BatchesOfOneList == Spec => []OneListABatch
<1>1. Sourced => OneListABatch
  BY DEF Sourced, Part, OneListABatch
<1> QED
  BY <1>1, SpecSourced, PTL
=============================================================================
