---------------------------- MODULE HotPlugProofs ----------------------------
(***************************************************************************)
(* Proofs about HotPlug for every set of plugins, every marking, every     *)
(* history of batches and any number of kills.                             *)
(***************************************************************************)
EXTENDS HotPlug, FiniteSetTheorems, SequenceTheorems, TLAPS

(* What the steps rely on besides the invariants themselves: the           *)
(* firstCollect goroutine starts when the executor leaves adjustmentTime;  *)
(* what is loaded of a batch is a prefix of it, list by list; and while    *)
(* the receiver waits the loaded instances are there until the swap only.  *)
FirstOnce == exec = "adjust" => first = "idle"

Prefix ==
  recv = "load" =>
    \A c \in Category :
      /\ Len(update[c]) <= Len(confUpdate[c])
      /\ \A i \in 1..Len(update[c]) : update[c][i] = confUpdate[c][i]

Swapped ==
  recv = "wait" /\ ready # <<0>> /\ exec \notin {"lockReplace", "replace"}
    => update = Empty

Handshake == OneToken /\ LockExclusive /\ WholeBatch
               /\ FirstOnce /\ Prefix /\ Swapped

IInv == TypeOK /\ Handshake

-----------------------------------------------------------------------------
(* A map's elements in some order are a sequence of them. *)
LEMMA OrdersType ==
  ASSUME NEW S \in SUBSET Hash
  PROVE  Orders(S) \subseteq Seq(S)
<1>1. IsFiniteSet(S)
  BY ConstantsAssumption, FS_Subset
<1>2. Cardinality(S) \in Nat
  BY <1>1, FS_CardinalityType
<1> QED
  BY <1>2 DEF Orders

(* The plugins of a batch, category by category, fit the lists they join. *)
LEMMA ArrangementsType ==
  ASSUME NEW S \in SUBSET Plugin
  PROVE  Arrangements(S) \subseteq [Category -> Seq(Plugin)]
<1>1. \A c \in Category : Orders(Of(S, c)) \subseteq Seq(Plugin)
  <2> SUFFICES ASSUME NEW c \in Category
               PROVE  Orders(Of(S, c)) \subseteq Seq(Plugin)
    OBVIOUS
  <2>1. Of(S, c) \in SUBSET Hash /\ Of(S, c) \subseteq Plugin
    BY DEF Of, Plugin
  <2>2. Orders(Of(S, c)) \subseteq Seq(Of(S, c))
    BY <2>1, OrdersType
  <2> QED
    BY <2>1, <2>2
<1> QED
  BY <1>1 DEF Arrangements

(* Removing an element leaves a list of the same kind of elements. *)
LEMMA WithoutType ==
  ASSUME NEW T, NEW s \in Seq(T), NEW i \in 1..Len(s)
  PROVE  Without(s, i) \in Seq(T)
  BY DEF Without

LEMMA EmptyType == Empty \in [Category -> Seq(Plugin)]
  BY DEF Empty

(* Death leaves nothing ill-typed behind. *)
LEMMA DownType ==
  ASSUME TypeOK, Down, UNCHANGED <<todo, configObj>>,
         disk' \in [Paths -> Hash \cup {None}], crashes' \in 0..MaxCrashes
  PROVE  TypeOK'
<1>1. AgentTypeOK'
  BY DEF AgentTypeOK, OneSlot, TypeOK, Down
<1>2. ConfTypeOK'
  BY EmptyType DEF ConfTypeOK, TypeOK, Down
<1>3. ReceiverTypeOK'
  BY EmptyType DEF ReceiverTypeOK, Receiving, TypeOK, Down
<1>4. ExecutorTypeOK'
  BY EmptyType DEF ExecutorTypeOK, OneSlot, Executing, TypeOK, Down
<1>5. up' \in BOOLEAN
  BY DEF Down
<1> QED
  BY <1>1, <1>2, <1>3, <1>4, <1>5 DEF TypeOK

(* Nor does it leave a handshake half done. *)
LEMMA DownHandshake ==
  ASSUME Down PROVE Handshake'
  BY DEF Down, Handshake, OneToken, LockExclusive, WholeBatch, FirstOnce,
         Prefix, Swapped, Applying

THEOREM InitIInv == Init => IInv
<1> SUFFICES ASSUME Init PROVE IInv
  OBVIOUS
<1>1. AgentTypeOK
  BY ConstantsAssumption DEF AgentTypeOK, OneSlot, Init
<1>2. ConfTypeOK
  BY ConstantsAssumption, EmptyType DEF ConfTypeOK, Init
<1>3. ReceiverTypeOK
  BY ConstantsAssumption, EmptyType DEF ReceiverTypeOK, Receiving, Plugin, Init
<1>4. ExecutorTypeOK
  BY EmptyType DEF ExecutorTypeOK, OneSlot, Executing, Init
<1>5. up \in BOOLEAN
  BY DEF Init
<1>6. crashes \in 0..MaxCrashes
  <2>1. MaxCrashes \in Nat
    BY ConstantsAssumption
  <2>2. crashes = 0
    BY DEF Init
  <2> QED
    BY <2>1, <2>2
<1>7. Handshake
  BY DEF Handshake, OneToken, LockExclusive, WholeBatch, FirstOnce, Prefix,
         Swapped, Applying, Init
<1> QED
  BY <1>1, <1>2, <1>3, <1>4, <1>5, <1>6, <1>7 DEF IInv, TypeOK

-----------------------------------------------------------------------------
(* A part of the state that a step leaves alone stays well typed. *)
LEMMA AgentFrame ==
  AgentTypeOK /\ UNCHANGED <<agentVars, updateChan, deleteChan>> => AgentTypeOK'
  BY DEF AgentTypeOK, agentVars

LEMMA ConfFrame == ConfTypeOK /\ UNCHANGED confVars => ConfTypeOK'
  BY DEF ConfTypeOK, confVars

LEMMA ReceiverFrame == ReceiverTypeOK /\ UNCHANGED <<disk, recvVars>> => ReceiverTypeOK'
  BY DEF ReceiverTypeOK, recvVars

LEMMA ExecutorFrame ==
  ExecutorTypeOK /\ UNCHANGED <<execVars, ready, finish>> => ExecutorTypeOK'
  BY DEF ExecutorTypeOK, execVars

LEMMA ProcFrame ==
  TypeOK /\ UNCHANGED procVars => up' \in BOOLEAN /\ crashes' \in 0..MaxCrashes
  BY DEF TypeOK, procVars

(* Appending lists category by category. *)
LEMMA AppendType ==
  ASSUME NEW f \in [Category -> Seq(Plugin)], NEW g \in [Category -> Seq(Plugin)]
  PROVE  [c \in Category |-> f[c] \o g[c]] \in [Category -> Seq(Plugin)]
  OBVIOUS

LEMMA ReplaceIndexType ==
  ExecutorTypeOK /\ ReceiverTypeOK => ReplaceIndex \subseteq Category \X (Nat \ {0}) \X Nat
<1> SUFFICES ASSUME ExecutorTypeOK, ReceiverTypeOK,
                    NEW c \in Category, NEW i \in DOMAIN running[c], NEW j \in DOMAIN update[c]
             PROVE  i \in Nat \ {0} /\ j \in Nat
  BY DEF ReplaceIndex
<1> QED
  BY DEF ExecutorTypeOK, ReceiverTypeOK

LEMMA RemoveIndexType ==
  ExecutorTypeOK /\ ConfTypeOK => RemoveIndex \subseteq Category \X (Nat \ {0}) \X Nat
<1> SUFFICES ASSUME ExecutorTypeOK, ConfTypeOK,
                    NEW c \in Category, NEW i \in DOMAIN running[c], NEW j \in DOMAIN confRunning[c]
             PROVE  i \in Nat \ {0} /\ j \in Nat
  BY DEF RemoveIndex
<1> QED
  BY DEF ExecutorTypeOK, ConfTypeOK

(* Every step keeps the types. *)
THEOREM StepType == TypeOK /\ [Next]_vars => TypeOK'
<1> SUFFICES ASSUME TypeOK, [Next]_vars PROVE TypeOK'
  OBVIOUS
<1>1. CASE AgentSendUpdate
  <2>1. PICK b \in Batch : b = Head(todo)
    BY <1>1 DEF TypeOK, AgentTypeOK, AgentSendUpdate
  <2>2. b.add \subseteq Hash /\ b.del \subseteq Hash
    BY DEF Batch
  <2>3. hashMap' \subseteq Hash /\ updateChan' = <<hashMap'>>
    BY <1>1, <2>1, <2>2 DEF TypeOK, AgentTypeOK, AgentSendUpdate
  <2>4. todo' \in Seq(Batch) /\ owed' \subseteq Hash /\ deleteChan' = deleteChan
    BY <1>1, <2>1, <2>2 DEF TypeOK, AgentTypeOK, AgentSendUpdate
  <2>5. AgentTypeOK'
    BY <2>3, <2>4 DEF TypeOK, AgentTypeOK, OneSlot
  <2> QED
    BY <1>1, <2>5, ConfFrame, ReceiverFrame, ExecutorFrame, ProcFrame
    DEF TypeOK, AgentSendUpdate
<1>2. CASE AgentSendDelete
  BY <1>2, AgentFrame, ConfFrame, ReceiverFrame, ExecutorFrame, ProcFrame
  DEF TypeOK, AgentSendDelete, AgentTypeOK, OneSlot, agentVars
<1>3. CASE RecvLoaded
  BY <1>3, AgentFrame, ConfFrame, ReceiverFrame, ExecutorFrame, ProcFrame
  DEF TypeOK, RecvLoaded, ReceiverTypeOK, Receiving
<1>4. CASE RecvNotify
  BY <1>4, AgentFrame, ConfFrame, ReceiverFrame, ExecutorFrame, ProcFrame
  DEF TypeOK, RecvNotify, ReceiverTypeOK, Receiving, ExecutorTypeOK, Executing, OneSlot, execVars
<1>5. CASE RecvFinish
  BY <1>5, AgentFrame, ConfFrame, ReceiverFrame, ExecutorFrame, ProcFrame
  DEF TypeOK, RecvFinish, ReceiverTypeOK, Receiving, ExecutorTypeOK, Executing, OneSlot, execVars
<1>6. CASE ExecStart
  BY <1>6, AgentFrame, ConfFrame, ReceiverFrame, ExecutorFrame, ProcFrame
  DEF TypeOK, ExecStart, ExecutorTypeOK, Executing, OneSlot, Applying
<1>7. CASE FirstBegin
  BY <1>7, AgentFrame, ConfFrame, ReceiverFrame, ExecutorFrame, ProcFrame
  DEF TypeOK, FirstBegin, ExecutorTypeOK, Executing, OneSlot, Applying
<1>8. CASE FirstEnd
  BY <1>8, AgentFrame, ConfFrame, ReceiverFrame, ExecutorFrame, ProcFrame
  DEF TypeOK, FirstEnd, ExecutorTypeOK, Executing, OneSlot, Applying
<1>9. CASE ExecTick
  BY <1>9, AgentFrame, ConfFrame, ReceiverFrame, ExecutorFrame, ProcFrame
  DEF TypeOK, ExecTick, ExecutorTypeOK, Executing, OneSlot, Applying
<1>10. CASE ExecCollect
  BY <1>10, AgentFrame, ConfFrame, ReceiverFrame, ExecutorFrame, ProcFrame
  DEF TypeOK, ExecCollect, ExecutorTypeOK, Executing, OneSlot, Applying
<1>11. CASE ExecCollected
  BY <1>11, AgentFrame, ConfFrame, ReceiverFrame, ExecutorFrame, ProcFrame
  DEF TypeOK, ExecCollected, ExecutorTypeOK, Executing, OneSlot, Applying
<1>12. CASE ExecReady
  BY <1>12, AgentFrame, ConfFrame, ReceiverFrame, ExecutorFrame, ProcFrame
  DEF TypeOK, ExecReady, ExecutorTypeOK, Executing, OneSlot, Applying
<1>13. CASE ExecReplace
  <2>1. ExecutorTypeOK'
    BY <1>13, ReplaceIndexType
    DEF TypeOK, ExecutorTypeOK, Executing, Applying, ExecReplace
  <2> QED
    BY <1>13, <2>1, AgentFrame, ConfFrame, ReceiverFrame, ProcFrame
    DEF TypeOK, ExecReplace
<1>14. CASE ExecRemove
  <2>1. ExecutorTypeOK'
    BY <1>14, RemoveIndexType
    DEF TypeOK, ExecutorTypeOK, Executing, Applying, ExecRemove
  <2> QED
    BY <1>14, <2>1, AgentFrame, ConfFrame, ReceiverFrame, ProcFrame
    DEF TypeOK, ExecRemove
<1>15. CASE ExecRemoved
  BY <1>15, AgentFrame, ConfFrame, ReceiverFrame, ExecutorFrame, ProcFrame
  DEF TypeOK, ExecRemoved, ExecutorTypeOK, Executing, OneSlot, Applying
<1>16. CASE ExecReply
  BY <1>16, AgentFrame, ConfFrame, ReceiverFrame, ExecutorFrame, ProcFrame
  DEF TypeOK, ExecReply, ExecutorTypeOK, Executing, OneSlot, Applying
<1>17. CASE ExecInstall
  <2>1. running' \in [Category -> Seq(Plugin)]
    BY <1>17, AppendType DEF TypeOK, ExecutorTypeOK, ReceiverTypeOK, ExecInstall
  <2>2. ExecutorTypeOK'
    BY <1>17, <2>1 DEF TypeOK, ExecutorTypeOK, Executing, Applying, ExecInstall
  <2>3. ReceiverTypeOK'
    BY <1>17, EmptyType DEF TypeOK, ReceiverTypeOK, ExecInstall
  <2> QED
    BY <1>17, <2>2, <2>3, AgentFrame, ConfFrame, ProcFrame DEF TypeOK, ExecInstall
<1>18. CASE ExecSwapConf
  <2>1. confRunning' \in [Category -> Seq(Plugin)]
    BY <1>18, AppendType DEF TypeOK, ConfTypeOK, ExecSwapConf
  <2>2. ConfTypeOK'
    BY <1>18, <2>1, EmptyType DEF TypeOK, ConfTypeOK, ExecSwapConf
  <2>3. ExecutorTypeOK'
    BY <1>18 DEF TypeOK, ExecutorTypeOK, Executing, Applying, ExecSwapConf
  <2> QED
    BY <1>18, <2>2, <2>3, AgentFrame, ReceiverFrame, ProcFrame DEF TypeOK, ExecSwapConf
<1>19. CASE ExecClearDelete
  BY <1>19, AgentFrame, ConfFrame, ReceiverFrame, ExecutorFrame, ProcFrame
  DEF TypeOK, ExecClearDelete, ExecutorTypeOK, Executing, OneSlot, Applying, ConfTypeOK
<1>20. CASE RecvUpdate
  <2> DEFINE batch == Head(updateChan)
             fresh == (batch \ runningHash) \cap Marked
  <2>1. batch \subseteq Hash
    BY <1>20 DEF TypeOK, AgentTypeOK, OneSlot, RecvUpdate
  <2>2. PICK add \in Arrangements(fresh \cap Plugin) :
          confUpdate' = [c \in Category |-> confUpdate[c] \o add[c]]
    BY <1>20 DEF RecvUpdate
  <2>3. add \in [Category -> Seq(Plugin)]
    BY ArrangementsType
  <2>4. confUpdate' \in [Category -> Seq(Plugin)]
    BY <2>2, <2>3, AppendType DEF TypeOK, ConfTypeOK
  <2>5. configObj' \in Json
    BY <1>20 DEF TypeOK, ConfTypeOK, RecvUpdate
  <2>6. ConfTypeOK'
    BY <1>20, <2>1, <2>4, <2>5 DEF TypeOK, ConfTypeOK, RecvUpdate
  <2>7. ReceiverTypeOK'
    BY <1>20 DEF TypeOK, ReceiverTypeOK, Receiving, RecvUpdate
  <2>8. AgentTypeOK'
    BY <1>20 DEF TypeOK, AgentTypeOK, OneSlot, agentVars, RecvUpdate
  <2> QED
    BY <1>20, <2>6, <2>7, <2>8, ExecutorFrame, ProcFrame DEF TypeOK, RecvUpdate
<1>21. CASE RecvDelete
  <2>1. ConfTypeOK'
    <3>1. \A c \in Category : DOMAIN confRunning[c] \subseteq Nat
      BY DEF TypeOK, ConfTypeOK
    <3>2. UNION {{c} \X (DOMAIN confRunning[c]) : c \in Category} \subseteq Category \X Nat
      BY <3>1
    <3>3. confDelete' \subseteq Category \X Nat
      BY <1>21, <3>2 DEF TypeOK, ConfTypeOK, RecvDelete
    <3> QED
      BY <1>21, <3>3 DEF TypeOK, ConfTypeOK, RecvDelete
  <2>2. cache' \subseteq Marked
    <3>1. \A c \in Category : Elems(confRunning[c]) \subseteq Plugin
      BY DEF TypeOK, ConfTypeOK, Elems
    <3>2. Plugin \subseteq Marked
      BY DEF Plugin, Marked
    <3> QED
      BY <1>21, <3>1, <3>2 DEF RecvDelete
  <2>3. ReceiverTypeOK'
    BY <1>21, <2>2 DEF TypeOK, ReceiverTypeOK, Receiving, RecvDelete
  <2>4. AgentTypeOK'
    BY <1>21 DEF TypeOK, AgentTypeOK, OneSlot, agentVars, RecvDelete
  <2> QED
    BY <1>21, <2>1, <2>3, <2>4, ExecutorFrame, ProcFrame DEF TypeOK, RecvDelete
<1>22. CASE Boot
  <2>1. confRunning' \in [Category -> Seq(Plugin)]
    <3>1. confRunning' \in Arrangements(Files \cap Plugin)
      BY <1>22 DEF Boot
    <3> QED
      BY <3>1, ArrangementsType
  <2>2. Files \subseteq Hash
    BY DEF TypeOK, ReceiverTypeOK, Files
  <2>3. ConfTypeOK'
    BY <1>22, <2>1, <2>2 DEF TypeOK, ConfTypeOK, Json, Boot
  <2>4. ExecutorTypeOK'
    BY <1>22, <2>1 DEF TypeOK, ExecutorTypeOK, Boot
  <2>5. up' \in BOOLEAN
    BY <1>22 DEF Boot
  <2>6. crashes' \in 0..MaxCrashes
    BY <1>22 DEF TypeOK, Boot
  <2> QED
    BY <1>22, <2>3, <2>4, <2>5, <2>6, AgentFrame, ReceiverFrame DEF TypeOK, Boot
<1>23. CASE Crash
  <2>1. disk' \in [Paths -> Hash \cup {None}]
    BY <1>23 DEF TypeOK, ReceiverTypeOK, Crash
  <2>2. crashes' \in 0..MaxCrashes
    <3>1. MaxCrashes \in Nat
      BY ConstantsAssumption
    <3>2. crashes \in 0..MaxCrashes
      BY DEF TypeOK
    <3>3. crashes < MaxCrashes /\ crashes' = crashes + 1
      BY <1>23 DEF Crash
    <3> QED
      BY <3>1, <3>2, <3>3
  <2> QED
    BY <1>23, <2>1, <2>2, DownType DEF Crash
<1>24. ASSUME NEW h \in Hash, RecvStore(h) PROVE TypeOK'
  BY <1>24, AgentFrame, ConfFrame, ReceiverFrame, ExecutorFrame, ProcFrame
  DEF TypeOK, RecvStore, ReceiverTypeOK, Receiving
<1>25. ASSUME NEW h \in Hash, RecvUnlink(h) PROVE TypeOK'
  BY <1>25, AgentFrame, ConfFrame, ReceiverFrame, ExecutorFrame, ProcFrame
  DEF TypeOK, RecvUnlink, ReceiverTypeOK, Receiving
<1>26. ASSUME NEW c \in Category, RecvLoad(c) PROVE TypeOK'
  <2>1. Next1(c) \in Plugin
    <3>1. confUpdate[c] \in Seq(Plugin) /\ update[c] \in Seq(Plugin)
      BY DEF TypeOK, ConfTypeOK, ReceiverTypeOK
    <3>2. Len(update[c]) < Len(confUpdate[c])
      BY <1>26 DEF RecvLoad, AtLoad
    <3> QED
      BY <3>1, <3>2 DEF Next1
  <2>2. update' \in [Category -> Seq(Plugin)]
    BY <1>26, <2>1 DEF TypeOK, ReceiverTypeOK, RecvLoad
  <2>3. ReceiverTypeOK'
    BY <1>26, <2>2 DEF TypeOK, ReceiverTypeOK, RecvLoad
  <2> QED
    BY <1>26, <2>3, AgentFrame, ConfFrame, ExecutorFrame, ProcFrame DEF TypeOK, RecvLoad
<1>27. ASSUME NEW c \in Category, RecvFail(c) PROVE TypeOK'
  BY <1>27, AgentFrame, ConfFrame, ReceiverFrame, ExecutorFrame, ProcFrame, EmptyType
  DEF TypeOK, RecvFail, ReceiverTypeOK, Receiving
<1>28. ASSUME NEW c \in Category, RecvPanic(c) PROVE TypeOK'
  BY <1>28, AgentFrame, ConfFrame, ReceiverFrame, ExecutorFrame, ProcFrame, DownType
  DEF TypeOK, RecvPanic, ReceiverTypeOK
<1>29. ASSUME NEW x \in cut, ExecCut(x) PROVE TypeOK'
  <2>1. x[1] \in Category /\ x[2] \in Nat \ {0}
    BY DEF TypeOK, ExecutorTypeOK
  <2>2. running[x[1]] \in Seq(Plugin)
    BY <2>1 DEF TypeOK, ExecutorTypeOK
  <2>3. x[2] \in 1..Len(running[x[1]])
    BY <1>29, <2>1, <2>2 DEF ExecCut
  <2>4. Without(running[x[1]], x[2]) \in Seq(Plugin)
    BY <2>2, <2>3, WithoutType
  <2>5. running' \in [Category -> Seq(Plugin)]
    BY <1>29, <2>4 DEF TypeOK, ExecutorTypeOK, ExecCut
  <2>6. ExecutorTypeOK'
    BY <1>29, <2>5 DEF TypeOK, ExecutorTypeOK, ExecCut
  <2> QED
    BY <1>29, <2>6, AgentFrame, ConfFrame, ReceiverFrame, ProcFrame DEF TypeOK, ExecCut
<1>30. ASSUME NEW x \in cut, ExecPanic(x) PROVE TypeOK'
  BY <1>30, AgentFrame, ConfFrame, ReceiverFrame, ExecutorFrame, ProcFrame, DownType
  DEF TypeOK, ExecPanic, ReceiverTypeOK
<1>31. CASE UNCHANGED vars
  BY <1>31, AgentFrame, ConfFrame, ReceiverFrame, ExecutorFrame, ProcFrame
  DEF TypeOK, vars
<1> QED
  BY <1>1, <1>2, <1>3, <1>4, <1>5, <1>6, <1>7, <1>8, <1>9, <1>10, <1>11,
     <1>12, <1>13, <1>14, <1>15, <1>16, <1>17, <1>18, <1>19, <1>20, <1>21, <1>22,
     <1>23, <1>24, <1>25, <1>26, <1>27, <1>28, <1>29, <1>30, <1>31
  DEF Next, Agent, Receiver, ExecGoOn, FirstCollect
-----------------------------------------------------------------------------
(* Every step keeps the handshake. *)
THEOREM StepHandshake == TypeOK /\ Handshake /\ [Next]_vars => Handshake'
<1> SUFFICES ASSUME TypeOK, Handshake, [Next]_vars PROVE Handshake'
  OBVIOUS
<1> USE DEF Handshake, OneToken, LockExclusive, WholeBatch, FirstOnce, Prefix, Swapped,
            Applying
<1>1. CASE Boot
  BY <1>1 DEF Boot, agentVars, confVars, recvVars, execVars, procVars
<1>2. CASE AgentSendUpdate
  BY <1>2 DEF AgentSendUpdate, agentVars, confVars, recvVars, execVars, procVars
<1>3. CASE AgentSendDelete
  BY <1>3 DEF AgentSendDelete, agentVars, confVars, recvVars, execVars, procVars
<1>4. CASE RecvUpdate
  <2>1. recv = "select" /\ recv' \in {"select", "store"}
    BY <1>4 DEF RecvUpdate
  <2>2. UNCHANGED <<update, exec, lock, first, ready, finish>>
    BY <1>4 DEF RecvUpdate, execVars
  <2> QED
    BY <2>1, <2>2
<1>5. CASE RecvDelete
  BY <1>5 DEF RecvDelete, agentVars, confVars, recvVars, execVars, procVars
<1>6. CASE RecvLoaded
  <2>1. update = confUpdate
    <3>1. /\ update \in [Category -> Seq(Plugin)]
          /\ confUpdate \in [Category -> Seq(Plugin)]
      BY DEF TypeOK, ReceiverTypeOK, ConfTypeOK
    <3>2. \A c \in Category :
            /\ Len(update[c]) = Len(confUpdate[c])
            /\ \A i \in 1..Len(update[c]) : update[c][i] = confUpdate[c][i]
      BY <1>6 DEF RecvLoaded
    <3>3. \A c \in Category : update[c] = confUpdate[c]
      BY <3>1, <3>2
    <3> QED
      BY <3>1, <3>3
  <2> QED
    BY <1>6, <2>1 DEF RecvLoaded, confVars, recvVars, execVars
<1>7. CASE RecvNotify
  BY <1>7 DEF RecvNotify, agentVars, confVars, recvVars, execVars, procVars
<1>8. CASE RecvFinish
  BY <1>8 DEF RecvFinish, agentVars, confVars, recvVars, execVars, procVars
<1>9. CASE ExecStart
  BY <1>9 DEF ExecStart, agentVars, confVars, recvVars, execVars, procVars
<1>10. CASE FirstBegin
  BY <1>10 DEF FirstBegin, agentVars, confVars, recvVars, execVars, procVars
<1>11. CASE FirstEnd
  BY <1>11 DEF FirstEnd, agentVars, confVars, recvVars, execVars, procVars
<1>12. CASE ExecTick
  BY <1>12 DEF ExecTick, agentVars, confVars, recvVars, execVars, procVars
<1>13. CASE ExecCollect
  BY <1>13 DEF ExecCollect, agentVars, confVars, recvVars, execVars, procVars
<1>14. CASE ExecCollected
  BY <1>14 DEF ExecCollected, agentVars, confVars, recvVars, execVars, procVars
<1>15. CASE ExecReady
  <2>1. ready \in {<<0>>, <<1>>}
    BY <1>15 DEF TypeOK, ExecutorTypeOK, OneSlot, ExecReady
  <2>2. exec' = (IF ready = <<0>> THEN "lockReplace" ELSE "lockRemove")
    BY <1>15, <2>1 DEF ExecReady
  <2> QED
    BY <1>15, <2>1, <2>2 DEF ExecReady, confVars, recvVars
<1>16. CASE ExecReplace
  BY <1>16 DEF ExecReplace, agentVars, confVars, recvVars, execVars, procVars
<1>17. CASE ExecInstall
  BY <1>17 DEF ExecInstall, agentVars, confVars, recvVars, execVars, procVars
<1>18. CASE ExecSwapConf
  BY <1>18 DEF ExecSwapConf, agentVars, confVars, recvVars, execVars, procVars
<1>19. CASE ExecRemove
  BY <1>19 DEF ExecRemove, agentVars, confVars, recvVars, execVars, procVars
<1>20. CASE ExecRemoved
  BY <1>20 DEF ExecRemoved, agentVars, confVars, recvVars, execVars, procVars
<1>21. CASE ExecClearDelete
  BY <1>21 DEF ExecClearDelete, agentVars, confVars, recvVars, execVars, procVars
<1>22. CASE ExecReply
  BY <1>22 DEF ExecReply, agentVars, confVars, recvVars, execVars, procVars
<1>23. CASE Crash
  BY <1>23, DownHandshake DEF Crash
<1>24. ASSUME NEW h \in Hash, RecvStore(h) PROVE Handshake'
  <2>1. recv = "store" /\ recv' \in {"load", "store"}
    BY <1>24 DEF RecvStore
  <2>2. UNCHANGED <<update, confUpdate, exec, lock, first, ready, finish>>
    BY <1>24 DEF RecvStore, confVars, execVars
  <2>3. \A c \in Category : update[c] = <<>> /\ confUpdate[c] \in Seq(Plugin)
    BY <2>1 DEF Empty, TypeOK, ConfTypeOK
  <2>4. Prefix'
    BY <2>2, <2>3
  <2> QED
    BY <2>1, <2>2, <2>4
<1>25. ASSUME NEW h \in Hash, RecvUnlink(h) PROVE Handshake'
  BY <1>25 DEF RecvUnlink, agentVars, confVars, recvVars, execVars, procVars
<1>26. ASSUME NEW c \in Category, RecvLoad(c) PROVE Handshake'
  <2>1. recv = "load" /\ Len(update[c]) < Len(confUpdate[c])
    BY <1>26 DEF RecvLoad, AtLoad
  <2>2. UNCHANGED <<recv, confUpdate, exec, lock, first, ready, finish>>
    BY <1>26 DEF RecvLoad, confVars, execVars
  <2>3. /\ update \in [Category -> Seq(Plugin)]
        /\ update' = [update EXCEPT ![c] = Append(@, confUpdate[c][Len(update[c]) + 1])]
    BY <1>26 DEF RecvLoad, Next1, TypeOK, ReceiverTypeOK
  <2>4. Prefix'
    <3> SUFFICES ASSUME NEW d \in Category
                 PROVE  /\ Len(update'[d]) <= Len(confUpdate[d])
                        /\ \A i \in 1..Len(update'[d]) : update'[d][i] = confUpdate[d][i]
      BY <2>2
    <3>1. CASE d # c
      BY <3>1, <2>1, <2>3
    <3>2. CASE d = c
      <4> DEFINE s == update[c]
                 e == confUpdate[c][Len(s) + 1]
      <4>1. s \in Seq(Plugin) /\ confUpdate[c] \in Seq(Plugin)
        BY <2>3 DEF TypeOK, ConfTypeOK
      <4>2. update'[d] = Append(s, e)
        BY <3>2, <2>3
      <4>3. \A i \in 1..Len(s) : s[i] = confUpdate[c][i]
        BY <2>1
      <4> QED
        BY <3>2, <4>1, <4>2, <4>3, <2>1
    <3> QED
      BY <3>1, <3>2
  <2> QED
    BY <2>1, <2>2, <2>4
<1>27. ASSUME NEW c \in Category, RecvFail(c) PROVE Handshake'
  <2>1. recv = "load" /\ recv' = "select" /\ update' = Empty
    BY <1>27 DEF RecvFail, AtLoad
  <2>2. UNCHANGED <<exec, lock, first, ready, finish>>
    BY <1>27 DEF RecvFail, execVars
  <2> QED
    BY <2>1, <2>2
<1>28. ASSUME NEW c \in Category, RecvPanic(c) PROVE Handshake'
  BY <1>28, DownHandshake DEF RecvPanic, agentVars, confVars, recvVars, execVars, procVars
<1>29. ASSUME NEW x \in cut, ExecCut(x) PROVE Handshake'
  BY <1>29 DEF ExecCut, agentVars, confVars, recvVars, execVars, procVars
<1>30. ASSUME NEW x \in cut, ExecPanic(x) PROVE Handshake'
  BY <1>30, DownHandshake DEF ExecPanic, agentVars, confVars, recvVars, execVars, procVars
<1>31. CASE UNCHANGED vars
  BY <1>31 DEF vars, agentVars, confVars, recvVars, execVars, procVars
<1> QED
  BY <1>1, <1>2, <1>3, <1>4, <1>5, <1>6, <1>7, <1>8, <1>9, <1>10, <1>11,
     <1>12, <1>13, <1>14, <1>15, <1>16, <1>17, <1>18, <1>19, <1>20, <1>21, <1>22,
     <1>23, <1>24, <1>25, <1>26, <1>27, <1>28, <1>29, <1>30, <1>31
  DEF Next, Agent, Receiver, ExecGoOn, FirstCollect

-----------------------------------------------------------------------------
(* The inductive invariant holds in every behaviour. *)
THEOREM SpecIInv == Spec => []IInv
<1>1. Init => IInv
  BY InitIInv
<1>2. IInv /\ [Next]_vars => IInv'
  BY StepType, StepHandshake DEF IInv
<1> QED
  BY <1>1, <1>2, PTL DEF Spec

(* The channels never hold more than their capacity, the lists only plugins, *)
(* the indices only positions: services.PluginUpdateChan, PluginReady and    *)
(* the lists of Config and LuaPluginManager.                                 *)
THEOREM TypeCorrect == Spec => []TypeOK
<1>1. IInv => TypeOK
  BY DEF IInv
<1> QED
  BY <1>1, SpecIInv, PTL

(* Receiver and executor never hold two handshakes at once: notify's signal  *)
(* is answered exactly once, before the next one (PluginReady,               *)
(* PluginUpdateFinish).                                                      *)
THEOREM OneHandshake == Spec => []OneToken
<1>1. IInv => OneToken
  BY DEF IInv, Handshake
<1> QED
  BY <1>1, SpecIInv, PTL

(* The plugin lists are only swapped while nobody collects with them         *)
(* (LuaPluginManager.Lock).                                                  *)
THEOREM MutualExclusion == Spec => []LockExclusive
<1>1. IInv => LockExclusive
  BY DEF IInv, Handshake
<1> QED
  BY <1>1, SpecIInv, PTL

(* ReplaceRunningPlugin and ReplaceRunningConfig swap the same batch, a      *)
(* whole one, whatever loads or fails (updatePlugins, removeUpdateCache).    *)
THEOREM BatchesAreWhole == Spec => []WholeBatch
<1>1. IInv => WholeBatch
  BY DEF IInv, Handshake
<1> QED
  BY <1>1, SpecIInv, PTL
=============================================================================
