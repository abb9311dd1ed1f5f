--------------------------- MODULE HotPlugRefinement ---------------------------
(***************************************************************************)
(* HotPlug implements PluginSet, and dies from outside only, in every      *)
(* history that brings one version of a plugin at a time and removes       *)
(* nothing twice that it brings.                                           *)
(***************************************************************************)
EXTENDS HotPlugListProofs

(* A plugin the agent will still ask to be removed. *)
Pending(h) ==
  \/ \E i \in DOMAIN todo : h \in todo[i].del
  \/ h \in owed
  \/ deleteChan # <<>> /\ h \in Head(deleteChan)

(* A plugin the agent may still bring. *)
Coming(h) ==
  \/ \E i \in DOMAIN todo : h \in todo[i].add
  \/ h \in hashMap
  \/ updateChan # <<>> /\ h \in Head(updateChan)

(* What is removed twice is never brought: a plugin that was on disk and    *)
(* had left the list when the process started is removed by the list the    *)
(* start asks for and once more with the first list that is watched.        *)
GoneForGood(H) ==
  \A i, j, k \in DOMAIN H : i # j => H[i].del \cap H[j].del \cap H[k].add = {}

Parted(S, T) == \A h \in S \cap T : ~Coming(h)
Removals ==
  /\ \A i, j \in DOMAIN todo : i # j => Parted(todo[i].del, todo[j].del)
  /\ \A i \in DOMAIN todo : Parted(owed, todo[i].del)
  /\ deleteChan # <<>> =>
       /\ Parted(Head(deleteChan), owed)
       /\ \A i \in DOMAIN todo : Parted(Head(deleteChan), todo[i].del)

(* What is still to be removed stands in the lists of the configuration     *)
(* once and, should it be brought again, is known to run.                  *)
Line(c) == confRunning[c] \o confUpdate[c]
Single ==
  \A c \in Category : \A i, j \in DOMAIN Line(c) :
    Pending(Line(c)[i]) =>
      /\ Coming(Line(c)[i]) => Line(c)[i] \in runningHash
      /\ Line(c)[i] = Line(c)[j] => i = j

(* So what is being removed stands there once too. *)
DoomedOnce ==
  \A d, e \in confDelete : confRunning[d[1]][d[2]] = confRunning[e[1]][e[2]] => d = e

(* Every position to cut is one of an instance that has to go. *)
CutRight ==
  exec \in {"replace", "remove"} =>
    /\ \A y \in cut : y[2] \in DOMAIN running[y[1]]
    /\ \A y, z \in cut : y[1] = z[1] /\ y[2] = z[2] => y = z
    /\ exec = "replace" => \A y \in cut :
         /\ y[3] \in DOMAIN update[y[1]]
         /\ Name[running[y[1]][y[2]]] = Name[update[y[1]][y[3]]]
    /\ exec = "remove" => \A y \in cut : running[y[1]][y[2]] \in Doomed

(* What runs is configured. *)
AllListed ==
  \A c \in Category : \A h \in Plugin :
    RunsNow(c, h) => Configured(c, h) \/ (exec = "swapConf" /\ Brought(c, h))

(* A dead process runs nothing and has no request. *)
Still == ~up => running = Empty /\ updateChan = <<>> /\ deleteChan = <<>>

Careful == Removals /\ Single /\ DoomedOnce /\ CutRight /\ AllListed /\ Still

-----------------------------------------------------------------------------
(* Lemmas on sequences *)

(* The elements before a removed one keep their positions. *)
LEMMA WithoutBelow ==
  ASSUME NEW T, NEW s \in Seq(T), NEW i \in 1..Len(s), NEW k \in Nat \ {0}, k < i
  PROVE  k \in DOMAIN Without(s, i) /\ Without(s, i)[k] = s[k]
<1> DEFINE l == SubSeq(s, 1, i - 1)
           r == SubSeq(s, i + 1, Len(s))
<1>1. l \in Seq(T) /\ Len(l) = i - 1 /\ \A j \in 1..(i - 1) : l[j] = s[j]
  OBVIOUS
<1>2. r \in Seq(T)
  OBVIOUS
<1>3. Without(s, i) = l \o r
  BY DEF Without
<1> HIDE DEF l, r
<1>4. k \in DOMAIN l /\ l[k] = s[k]
  BY <1>1
<1> QED
  BY <1>1, <1>2, <1>3, <1>4, ConcatLeft

(* Every other element stays. *)
LEMMA WithoutKeeps ==
  ASSUME NEW T, NEW s \in Seq(T), NEW i \in 1..Len(s), NEW k \in DOMAIN s, k # i
  PROVE  \E j \in DOMAIN Without(s, i) : Without(s, i)[j] = s[k]
<1>1. k \in Nat \ {0} /\ i \in Nat
  OBVIOUS
<1>2. CASE k < i
  BY <1>1, <1>2, WithoutBelow
<1>3. CASE k > i
  <2> DEFINE l == SubSeq(s, 1, i - 1)
             r == SubSeq(s, i + 1, Len(s))
  <2>1. l \in Seq(T) /\ Len(l) = i - 1
    OBVIOUS
  <2>2. r \in Seq(T) /\ k - i \in DOMAIN r /\ r[k - i] = s[k]
    BY <1>3
  <2>3. Without(s, i) = l \o r
    BY DEF Without
  <2> HIDE DEF l, r
  <2>4. Len(l) + (k - i) \in DOMAIN (l \o r) /\ (l \o r)[Len(l) + (k - i)] = r[k - i]
    BY <2>1, <2>2, ConcatRight
  <2> QED
    BY <2>2, <2>3, <2>4
<1> QED
  BY <1>1, <1>2, <1>3

(* A concatenation has what either part has. *)
Has(s, h) == \E k \in DOMAIN s : s[k] = h

LEMMA ConcatHas ==
  \A s, t \in Seq(Plugin) : \A h : Has(s \o t, h) <=> Has(s, h) \/ Has(t, h)
<1> SUFFICES ASSUME NEW s \in Seq(Plugin), NEW t \in Seq(Plugin), NEW h
             PROVE  (\E k \in DOMAIN (s \o t) : (s \o t)[k] = h)
                      <=> (\E k \in DOMAIN s : s[k] = h) \/ (\E k \in DOMAIN t : t[k] = h)
  BY DEF Has
<1>1. ASSUME NEW k \in DOMAIN (s \o t), (s \o t)[k] = h
      PROVE  (\E j \in DOMAIN s : s[j] = h) \/ (\E j \in DOMAIN t : t[j] = h)
  <2>1. CASE k \in DOMAIN s /\ (s \o t)[k] = s[k]
    BY <1>1, <2>1
  <2>2. CASE k - Len(s) \in DOMAIN t /\ (s \o t)[k] = t[k - Len(s)]
    BY <1>1, <2>2
  <2> QED
    BY <2>1, <2>2, ConcatAt
<1>2. ASSUME NEW k \in DOMAIN s, s[k] = h PROVE \E j \in DOMAIN (s \o t) : (s \o t)[j] = h
  BY <1>2, ConcatLeft
<1>3. ASSUME NEW k \in DOMAIN t, t[k] = h PROVE \E j \in DOMAIN (s \o t) : (s \o t)[j] = h
  <2>1. Len(s) + k \in DOMAIN (s \o t) /\ (s \o t)[Len(s) + k] = h
    BY <1>3, ConcatRight
  <2> QED
    BY <2>1
<1> QED
  BY <1>1, <1>2, <1>3

-----------------------------------------------------------------------------
(* What is still to be removed *)

(* What a step does to what the agent asks for. *)
Fewer ==
  /\ todo' = todo /\ owed' \in {owed, {}} /\ deleteChan' \in {deleteChan, <<>>}
  /\ hashMap' \in {hashMap, {}} /\ updateChan' \in {updateChan, <<>>}

LEMMA RequestSteps ==
  TypeOK /\ [Next]_vars => AgentSendUpdate \/ AgentSendDelete \/ Fewer
<1> SUFFICES ASSUME TypeOK, [Next]_vars, ~AgentSendUpdate, ~AgentSendDelete PROVE Fewer
  OBVIOUS
<1>1. CASE FirstCollect \/ Boot \/ UNCHANGED vars
  BY <1>1 DEF FirstCollect, FirstBegin, FirstEnd, Boot, vars, agentVars, Fewer
<1>2. CASE Crash
  BY <1>2 DEF Crash, Down, Fewer
<1>3. ASSUME NEW h \in Hash, RecvStore(h) \/ RecvUnlink(h) PROVE Fewer
  BY <1>3 DEF RecvStore, RecvUnlink, agentVars, Fewer
<1>4. ASSUME NEW c \in Category, RecvLoad(c) \/ RecvFail(c) \/ RecvPanic(c) PROVE Fewer
  BY <1>4 DEF RecvLoad, RecvFail, RecvPanic, Down, agentVars, Fewer
<1>5. ASSUME NEW x \in cut, ExecCut(x) \/ ExecPanic(x) PROVE Fewer
  BY <1>5 DEF ExecCut, ExecPanic, Down, agentVars, Fewer
<1>6. CASE RecvUpdate \/ RecvDelete \/ RecvLoaded \/ RecvNotify \/ RecvFinish
  BY <1>6 DEF RecvUpdate, RecvDelete, RecvLoaded, RecvNotify, RecvFinish, agentVars, Fewer
<1>7. CASE ExecTick \/ ExecReady \/ ExecStart \/ ExecCollect \/ ExecCollected \/ ExecReplace
           \/ ExecInstall \/ ExecSwapConf \/ ExecRemove \/ ExecRemoved \/ ExecClearDelete
           \/ ExecReply
  BY <1>7
  DEF ExecTick, ExecReady, ExecStart, ExecCollect, ExecCollected, ExecReplace, ExecInstall,
      ExecSwapConf, ExecRemove, ExecRemoved, ExecClearDelete, ExecReply, agentVars, Fewer
<1> QED
  BY <1>1, <1>2, <1>3, <1>4, <1>5, <1>6, <1>7 DEF Next, Agent, Receiver, ExecGoOn

(* The rest of a history. *)
LEMMA TailOf ==
  ASSUME TypeOK, todo # <<>>
  PROVE  /\ 1 \in DOMAIN todo /\ Head(todo) = todo[1]
         /\ \A i \in DOMAIN Tail(todo) :
              i + 1 \in DOMAIN todo /\ Tail(todo)[i] = todo[i + 1] /\ i + 1 # 1 /\ i \in Nat
  BY DEF TypeOK, AgentTypeOK

(* The agent asks for nothing it was not going to ask for. *)
LEMMA StepComing == TypeOK /\ [Next]_vars => \A h : Coming(h)' => Coming(h)
<1> SUFFICES ASSUME TypeOK, [Next]_vars, NEW h, Coming(h)' PROVE Coming(h)
  OBVIOUS
<1>1. CASE AgentSendUpdate
  <2>1. /\ todo # <<>> /\ todo' = Tail(todo) /\ hashMap' \in {hashMap, Head(todo).add}
        /\ updateChan' = <<hashMap'>>
    BY <1>1 DEF AgentSendUpdate
  <2>2. Head(updateChan') = hashMap'
    BY <2>1
  <2> QED
    BY <2>1, <2>2, TailOf DEF Coming
<1>2. CASE AgentSendDelete
  BY <1>2 DEF AgentSendDelete, Coming
<1>3. CASE Fewer
  BY <1>3 DEF Fewer, Coming
<1> QED
  BY <1>1, <1>2, <1>3, RequestSteps

LEMMA StepRemovals ==
  TypeOK /\ Removals /\ [Next]_vars =>
    Removals' /\ \A h \in Hash : Pending(h)' => Pending(h)
<1> SUFFICES ASSUME TypeOK, Removals, [Next]_vars
             PROVE  Removals' /\ \A h \in Hash : Pending(h)' => Pending(h)
  OBVIOUS
<1>0. \A h : Coming(h)' => Coming(h)
  BY StepComing
<1>1. CASE AgentSendUpdate
  <2>1. /\ todo # <<>> /\ owed = {} /\ owed' = Head(todo).del /\ todo' = Tail(todo)
        /\ deleteChan' = deleteChan
    BY <1>1 DEF AgentSendUpdate
  <2>2. \A i \in DOMAIN Tail(todo) :
          i + 1 \in DOMAIN todo /\ Tail(todo)[i] = todo[i + 1] /\ i + 1 # 1 /\ i \in Nat
    BY <2>1, TailOf
  <2>3. 1 \in DOMAIN todo /\ Head(todo) = todo[1]
    BY <2>1, TailOf
  <2>4. ASSUME NEW i \in DOMAIN todo', NEW j \in DOMAIN todo', i # j
        PROVE  \A h \in todo'[i].del \cap todo'[j].del : ~Coming(h)'
    <3>1. i + 1 # j + 1
      BY <2>1, <2>2, <2>4
    <3> QED
      BY <1>0, <2>1, <2>2, <3>1 DEF Removals, Parted
  <2>5. \A i \in DOMAIN todo' : \A h \in owed' \cap todo'[i].del : ~Coming(h)'
    BY <1>0, <2>1, <2>2, <2>3 DEF Removals, Parted
  <2>6. deleteChan # <<>> =>
          /\ \A h \in Head(deleteChan) \cap owed' : ~Coming(h)'
          /\ \A i \in DOMAIN todo' : \A h \in Head(deleteChan) \cap todo'[i].del : ~Coming(h)'
    BY <1>0, <2>1, <2>2, <2>3 DEF Removals, Parted
  <2>7. ASSUME NEW h \in Hash, Pending(h)' PROVE Pending(h)
    BY <2>1, <2>2, <2>3, <2>7 DEF Pending
  <2> QED
    BY <2>1, <2>4, <2>5, <2>6, <2>7 DEF Removals, Parted
<1>2. CASE AgentSendDelete
  <2>1. deleteChan' = <<owed>> /\ owed' = {} /\ todo' = todo
    BY <1>2 DEF AgentSendDelete
  <2>2. Head(deleteChan') = owed
    BY <2>1
  <2>3. Removals'
    BY <1>0, <2>1, <2>2 DEF Removals, Parted
  <2> QED
    BY <2>1, <2>2, <2>3 DEF Pending
<1>3. CASE Fewer
  <2>1. Removals'
    BY <1>0, <1>3 DEF Fewer, Removals, Parted
  <2> QED
    BY <1>3, <2>1 DEF Fewer, Pending
<1> QED
  BY <1>1, <1>2, <1>3, RequestSteps

(* What a step does to the lists of the configuration. *)
Listing == UNCHANGED <<confRunning, confUpdate, confDelete, runningHash>>

LEMMA ListingCases ==
  TypeOK /\ [Next]_vars =>
    Listing \/ Boot \/ Death \/ RecvUpdate \/ RecvDelete \/ ExecSwapConf \/ ExecClearDelete
<1> SUFFICES ASSUME TypeOK, [Next]_vars,
                    ~(Boot \/ Death \/ RecvUpdate \/ RecvDelete \/ ExecSwapConf \/ ExecClearDelete)
             PROVE  Listing
  OBVIOUS
<1>1. CASE Quiet
  BY <1>1 DEF Quiet, Listing, confVars
<1>2. CASE Receives
  BY <1>2 DEF Receives, RecvStore, RecvUnlink, RecvLoaded, RecvNotify, RecvFinish, RecvLoad,
              RecvFail, Listing, confVars
<1>3. CASE Applies
  BY <1>3 DEF Applies, ExecReady, ExecReplace, ExecInstall, ExecRemove, ExecRemoved,
              ExecReply, ExecCut, Listing, confVars
<1> QED
  BY <1>1, <1>2, <1>3, StepCases

LEMMA LineType == TypeOK => \A c \in Category : Line(c) \in Seq(Plugin)
<1> SUFFICES ASSUME TypeOK, NEW c \in Category PROVE Line(c) \in Seq(Plugin)
  OBVIOUS
<1>1. confRunning[c] \in Seq(Plugin) /\ confUpdate[c] \in Seq(Plugin)
  BY ListsType
<1> QED
  BY <1>1, ConcatProperties DEF Line

LEMMA LineUpdate ==
  ASSUME TypeOK, NEW add \in [Category -> Seq(Plugin)], NEW c \in Category,
         confRunning' = confRunning,
         confUpdate' = [d \in Category |-> confUpdate[d] \o add[d]]
  PROVE  Line(c)' = Line(c) \o add[c]
<1>1. confRunning[c] \in Seq(Plugin) /\ confUpdate[c] \in Seq(Plugin) /\ add[c] \in Seq(Plugin)
  BY ListsType
<1>2. Line(c)' = confRunning[c] \o (confUpdate[c] \o add[c])
  BY DEF Line
<1>3. \A s, t, u \in Seq(Plugin) : s \o (t \o u) = (s \o t) \o u
  BY ConcatAssociative
<1> QED
  BY <1>1, <1>2, <1>3 DEF Line

LEMMA LineSwap ==
  ASSUME TypeOK, ExecSwapConf, NEW c \in Category
  PROVE  Line(c)' = Line(c)
<1>1. confRunning'[c] = Line(c) /\ confUpdate'[c] = <<>>
  BY DEF ExecSwapConf, Line, Empty
<1> QED
  BY <1>1, LineType, ConcatEmptySeq DEF Line

LEMMA StepSingle ==
  TypeOK /\ Removals /\ Single /\ Dead /\ [Next]_vars => Single'
<1> SUFFICES ASSUME TypeOK, Removals, Single, Dead, [Next]_vars PROVE Single'
  OBVIOUS
<1>0. /\ \A h \in Hash : Pending(h)' => Pending(h)
      /\ \A c \in Category : \A i \in DOMAIN Line(c) : Line(c)[i] \in Plugin
      /\ Plugin \subseteq Hash
  <2>1. \A c \in Category : \A i \in DOMAIN Line(c) : Line(c)[i] \in Plugin
    <3> SUFFICES ASSUME NEW c \in Category PROVE \A i \in DOMAIN Line(c) : Line(c)[i] \in Plugin
      OBVIOUS
    <3>1. Line(c) \in Seq(Plugin)
      BY LineType
    <3> QED
      BY <3>1, ElementOfSeq
  <2>2. \A h \in Hash : Pending(h)' => Pending(h)
    BY StepRemovals
  <2> QED
    BY <2>1, <2>2 DEF Plugin
<1>a. \A h : Coming(h)' => Coming(h)
  BY StepComing
<1>1. ASSUME \A c \in Category : Line(c)' = Line(c), runningHash' = runningHash PROVE Single'
  BY <1>0, <1>a, <1>1 DEF Single
<1>2. CASE Listing \/ ExecClearDelete
  BY <1>1, <1>2 DEF Listing, ExecClearDelete, Line
<1>3. CASE ExecSwapConf
  BY <1>1, <1>3, LineSwap DEF ExecSwapConf
<1>4. CASE Death
  <2>1. \A c \in Category : Line(c)' = <<>> \o <<>>
    BY <1>4 DEF Death, Down, Line, Empty
  <2>2. DOMAIN (<<>> \o <<>>) = {}
    OBVIOUS
  <2> QED
    BY <2>1, <2>2 DEF Single
<1>5. CASE Boot
  <2> DEFINE S == Files \cap Plugin
  <2>1. S \in SUBSET Plugin /\ confRunning' \in Arrangements(S) /\ S \subseteq runningHash'
        /\ confUpdate' = Empty
    BY <1>5 DEF Boot, Dead
  <2> HIDE DEF S
  <2>2. \A f \in Arrangements(S) : \A c \in Category :
          /\ f[c] \in Seq(Plugin)
          /\ \A i, j \in DOMAIN f[c] : f[c][i] \in S /\ (f[c][i] = f[c][j] => i = j)
    BY <2>1, ArrangementsAll
  <2>3. ASSUME NEW c \in Category PROVE Line(c)' = confRunning'[c]
    <3>1. confRunning'[c] \in Seq(Plugin) /\ confUpdate'[c] = <<>>
      BY <2>1, <2>2 DEF Empty
    <3> QED
      BY <3>1, ConcatEmptySeq DEF Line
  <2> QED
    BY <2>1, <2>2, <2>3 DEF Single
<1>6. CASE RecvDelete
  <2>1. /\ deleteChan # <<>> /\ deleteChan' = <<>> /\ owed' = owed /\ todo' = todo
        /\ runningHash' = runningHash \ Head(deleteChan)
        /\ UNCHANGED <<confRunning, confUpdate>>
    BY <1>6 DEF RecvDelete, agentVars
  <2>2. \A h \in Hash : Pending(h)' => h \notin Head(deleteChan) \/ ~Coming(h)
    BY <2>1 DEF Pending, Removals, Parted
  <2>3. \A c \in Category : Line(c)' = Line(c)
    BY <2>1 DEF Line
  <2> QED
    BY <1>0, <1>a, <2>1, <2>2, <2>3 DEF Single
<1>7. CASE RecvUpdate
  <2> DEFINE fresh == (Head(updateChan) \ runningHash) \cap Marked
  <2>1. PICK add \in Arrangements(fresh \cap Plugin) :
          confUpdate' = [c \in Category |-> confUpdate[c] \o add[c]]
    BY <1>7 DEF RecvUpdate
  <2>2. add \in [Category -> Seq(Plugin)]
    BY ArrangementsType
  <2>3. confRunning' = confRunning /\ runningHash' = runningHash \cup Head(updateChan)
    BY <1>7 DEF RecvUpdate
  <2> SUFFICES ASSUME NEW c \in Category, NEW i \in DOMAIN Line(c)', NEW j \in DOMAIN Line(c)',
                      Pending(Line(c)[i])'
               PROVE  /\ Coming(Line(c)[i])' => Line(c)'[i] \in runningHash'
                      /\ Line(c)'[i] = Line(c)'[j] => i = j
    BY DEF Single
  <2> DEFINE s == Line(c)
             t == add[c]
  <2>4. Line(c)' = s \o t
    BY <2>1, <2>2, <2>3, LineUpdate
  <2>5. s \in Seq(Plugin) /\ t \in Seq(Plugin) /\ Len(s) \in Nat
    BY <2>2, LineType
  <2>6. \A k, l \in DOMAIN t : /\ t[k] \in Head(updateChan) \ runningHash
                               /\ t[k] = t[l] => k = l
    BY ArrangementsAll
  <2>7. \A k, l \in DOMAIN s : Pending(s[k]) =>
          (Coming(s[k]) => s[k] \in runningHash) /\ (s[k] = s[l] => k = l)
    BY DEF Single
  <2>13. \A h : h \in Head(updateChan) => Coming(h)
    BY <1>7 DEF RecvUpdate, Coming
  <2>8. Pending((s \o t)[i])
    <3>1. (s \o t)[i] \in Hash
      BY <1>0, <2>4, <2>5, ConcatProperties
    <3> QED
      BY <1>0, <2>4, <3>1
  <2>9. i \in DOMAIN (s \o t) /\ j \in DOMAIN (s \o t) /\ i \in Nat /\ j \in Nat
    BY <2>4, <2>5
  <2> SUFFICES /\ Coming((s \o t)[i]) => (s \o t)[i] \in runningHash'
               /\ (s \o t)[i] = (s \o t)[j] => i = j
    BY <1>a, <2>4
  <2> HIDE DEF s, t, fresh
  <2>10. ASSUME NEW k \in DOMAIN (s \o t)
         PROVE  \/ k \in DOMAIN s /\ (s \o t)[k] = s[k]
                \/ k - Len(s) \in DOMAIN t /\ (s \o t)[k] = t[k - Len(s)]
    BY <2>5, ConcatAt
  <2>11. CASE i \in DOMAIN s /\ (s \o t)[i] = s[i]
    <3>1. /\ Coming(s[i]) => s[i] \in runningHash
          /\ \A l \in DOMAIN s : s[i] = s[l] => i = l
      BY <2>7, <2>8, <2>11
    <3>2. \A k \in DOMAIN t : t[k] # s[i]
      BY <2>6, <2>13, <3>1
    <3> QED
      BY <2>3, <2>9, <2>10, <2>11, <3>1, <3>2
  <2>12. CASE i - Len(s) \in DOMAIN t /\ (s \o t)[i] = t[i - Len(s)]
    <3>1. (s \o t)[i] \in runningHash'
      BY <2>3, <2>6, <2>12
    <3>2. CASE j \in DOMAIN s /\ (s \o t)[j] = s[j]
      BY <2>6, <2>7, <2>8, <2>12, <2>13, <3>1, <3>2
    <3>3. CASE j - Len(s) \in DOMAIN t /\ (s \o t)[j] = t[j - Len(s)]
      <4>1. (s \o t)[i] = (s \o t)[j] => i - Len(s) = j - Len(s)
        BY <2>6, <2>12, <3>3
      <4> QED
        BY <2>5, <2>9, <3>1, <4>1
    <3> QED
      BY <2>9, <2>10, <3>2, <3>3
  <2> QED
    BY <2>9, <2>10, <2>11, <2>12
<1> QED
  BY <1>2, <1>3, <1>4, <1>5, <1>6, <1>7, ListingCases

LEMMA StepDoomedOnce ==
  IInv /\ Base /\ OnDisk /\ Single /\ DoomedOnce /\ [Next]_vars => DoomedOnce'
<1> SUFFICES ASSUME IInv, Base, OnDisk, Single, DoomedOnce, [Next]_vars PROVE DoomedOnce'
  OBVIOUS
<1>0. TypeOK /\ Removing /\ Dead
  BY DEF IInv, OnDisk, Base
<1>1. CASE confDelete' = {}
  BY <1>1 DEF DoomedOnce
<1>2. CASE UNCHANGED <<confDelete, confRunning>>
  BY <1>2 DEF DoomedOnce
<1>3. CASE Listing \/ RecvUpdate
  BY <1>2, <1>3 DEF Listing, RecvUpdate
<1>4. CASE Boot \/ Death \/ ExecClearDelete
  BY <1>0, <1>1, <1>4 DEF Boot, Dead, Death, Down, ExecClearDelete
<1>5. CASE ExecSwapConf
  BY <1>0, <1>1, <1>5, NoneDoomed DEF ExecSwapConf
<1>6. CASE RecvDelete
  <2>1. confDelete = {}
    BY <1>0, <1>6, NoneDoomed DEF RecvDelete
  <2>2. ASSUME NEW e \in confDelete'
        PROVE  /\ e[1] \in Category /\ e[2] \in DOMAIN confRunning[e[1]] /\ e = <<e[1], e[2]>>
               /\ confRunning[e[1]][e[2]] \in Head(deleteChan)
    BY <1>6, <2>1, <2>2 DEF RecvDelete
  <2>3. deleteChan # <<>> /\ confRunning' = confRunning
    BY <1>6 DEF RecvDelete
  <2> SUFFICES ASSUME NEW d \in confDelete', NEW e \in confDelete',
                      confRunning[d[1]][d[2]] = confRunning[e[1]][e[2]]
               PROVE  d = e
    BY <2>3 DEF DoomedOnce
  <2>4. d[1] = e[1]
    BY <2>2 DEF Base, Sorted, InCategory
  <2> DEFINE c == d[1]
             s == confRunning[c]
             t == confUpdate[c]
  <2>5. s \in Seq(Plugin) /\ t \in Seq(Plugin) /\ Line(c) = s \o t /\ c \in Category
    BY <1>0, <2>2, ListsType DEF Line
  <2>6. d[2] \in DOMAIN s /\ e[2] \in DOMAIN s /\ s[d[2]] = s[e[2]] /\ Pending(s[d[2]])
    BY <2>2, <2>3, <2>4 DEF Pending
  <2> HIDE DEF s, t, c
  <2>7. /\ d[2] \in DOMAIN (s \o t) /\ (s \o t)[d[2]] = s[d[2]]
        /\ e[2] \in DOMAIN (s \o t) /\ (s \o t)[e[2]] = s[e[2]]
    BY <2>5, <2>6, ConcatLeft
  <2>8. d[2] = e[2]
    BY <2>5, <2>6, <2>7 DEF Single
  <2> QED
    BY <2>2, <2>4, <2>8
<1> QED
  BY <1>0, <1>3, <1>4, <1>5, <1>6, ListingCases

-----------------------------------------------------------------------------
(* What is cut, what runs *)

LEMMA ReplaceIndexUnique ==
  ASSUME TypeOK, Distinct(update),
         NEW y \in ReplaceIndex, NEW z \in ReplaceIndex, y[1] = z[1], y[2] = z[2]
  PROVE  y = z
<1>1. /\ y = <<y[1], y[2], y[3]>> /\ y[1] \in Category /\ y[3] \in DOMAIN update[y[1]]
      /\ Name[running[y[1]][y[2]]] = Name[update[y[1]][y[3]]]
  BY DEF ReplaceIndex
<1>2. /\ z = <<z[1], z[2], z[3]>> /\ z[3] \in DOMAIN update[z[1]]
      /\ Name[running[z[1]][z[2]]] = Name[update[z[1]][z[3]]]
  BY DEF ReplaceIndex
<1>3. y[3] = z[3]
  BY <1>1, <1>2 DEF Distinct
<1> QED
  BY <1>1, <1>2, <1>3

LEMMA RemoveIndexUnique ==
  ASSUME DoomedOnce,
         NEW y \in RemoveIndex, NEW z \in RemoveIndex, y[1] = z[1], y[2] = z[2]
  PROVE  y = z
<1>1. /\ y = <<y[1], y[2], y[3]>> /\ <<y[1], y[3]>> \in confDelete
      /\ running[y[1]][y[2]] = confRunning[y[1]][y[3]]
  BY DEF RemoveIndex
<1>2. /\ z = <<z[1], z[2], z[3]>> /\ <<z[1], z[3]>> \in confDelete
      /\ running[z[1]][z[2]] = confRunning[z[1]][z[3]]
  BY DEF RemoveIndex
<1>3. <<y[1], y[3]>> = <<z[1], z[3]>>
  BY <1>1, <1>2 DEF DoomedOnce
<1> QED
  BY <1>1, <1>2, <1>3

LEMMA StepCutRight ==
  IInv /\ Base /\ Names /\ DoomedOnce /\ CutRight /\ [Next]_vars => CutRight'
<1> SUFFICES ASSUME IInv, Base, Names, DoomedOnce, CutRight, [Next]_vars PROVE CutRight'
  OBVIOUS
<1>0. /\ TypeOK /\ (exec \in {"remove", "replace"} => recv = "wait")
      /\ running \in [Category -> Seq(Plugin)]
  BY ListsType DEF IInv, Handshake, OneToken, Applying
<1>1. CASE exec' \notin {"remove", "replace"}
  BY <1>1 DEF CutRight
<1>2. CASE UNCHANGED <<exec, running, update, cut, confDelete, confRunning>>
  BY <1>2 DEF CutRight, Doomed
<1>3. CASE Quiet \/ Boot \/ Death
  BY <1>1, <1>2, <1>3 DEF Quiet, Applying, Boot, Base, Dead, Death, Down, confVars, recvVars
<1>4. CASE Receives
  <2>1. recv # "wait" \/ UNCHANGED <<confVars, update>>
    BY <1>4 DEF Receives, RecvUpdate, RecvDelete, RecvLoaded, RecvNotify, RecvFinish,
                RecvStore, RecvUnlink, RecvLoad, RecvFail, AtLoad
  <2>2. UNCHANGED execVars
    BY <1>4 DEF Receives, RecvUpdate, RecvDelete, RecvLoaded, RecvNotify, RecvFinish,
                RecvStore, RecvUnlink, RecvLoad, RecvFail
  <2> QED
    BY <1>0, <1>1, <1>2, <2>1, <2>2 DEF execVars, confVars
<1>5. CASE ExecReady \/ ExecInstall \/ ExecSwapConf \/ ExecRemoved \/ ExecClearDelete \/ ExecReply
  BY <1>1, <1>5 DEF ExecReady, ExecInstall, ExecSwapConf, ExecRemoved, ExecClearDelete, ExecReply
<1>6. CASE ExecReplace
  <2>1. /\ cut' = ReplaceIndex /\ exec' = "replace" /\ exec = "lockReplace"
        /\ UNCHANGED <<running, update>>
    BY <1>6 DEF ExecReplace, recvVars
  <2>2. Distinct(update)
    BY <2>1 DEF IInv, Handshake, WholeBatch, Base, Loaded, Names
  <2>3. ASSUME NEW y \in ReplaceIndex
        PROVE  /\ y[2] \in DOMAIN running[y[1]] /\ y[3] \in DOMAIN update[y[1]]
               /\ Name[running[y[1]][y[2]]] = Name[update[y[1]][y[3]]]
    BY DEF ReplaceIndex
  <2>4. \A y, z \in ReplaceIndex : y[1] = z[1] /\ y[2] = z[2] => y = z
    BY <1>0, <2>2, ReplaceIndexUnique
  <2> QED
    BY <2>1, <2>3, <2>4 DEF CutRight
<1>7. CASE ExecRemove
  <2>1. /\ cut' = RemoveIndex /\ exec' = "remove"
        /\ UNCHANGED <<running, confDelete, confRunning>>
    BY <1>7 DEF ExecRemove, confVars
  <2>2. ASSUME NEW y \in RemoveIndex
        PROVE  y[2] \in DOMAIN running[y[1]] /\ running[y[1]][y[2]] \in Doomed
    <3>1. /\ <<y[1], y[3]>> \in confDelete /\ y[2] \in DOMAIN running[y[1]]
          /\ running[y[1]][y[2]] = confRunning[y[1]][y[3]]
      BY DEF RemoveIndex
    <3> QED
      BY <3>1 DEF Doomed
  <2>3. \A y, z \in RemoveIndex : y[1] = z[1] /\ y[2] = z[2] => y = z
    BY RemoveIndexUnique
  <2>4. Doomed' = Doomed
    BY <2>1 DEF Doomed
  <2> QED
    BY <2>1, <2>2, <2>3, <2>4 DEF CutRight
<1>8. ASSUME NEW x \in cut, ExecCut(x) PROVE CutRight'
  <2>1. /\ x[1] \in Category /\ x[2] \in 1..Len(running[x[1]])
        /\ running' = [running EXCEPT ![x[1]] = Without(@, x[2])]
        /\ cut' = cut \ {x} /\ UNCHANGED <<exec, update, confDelete, confRunning>>
        /\ \A y \in cut : y[1] = x[1] => y[2] <= x[2]
        /\ exec \in {"replace", "remove"}
    BY <1>0, <1>8, CutType DEF ExecCut, AtCut, confVars, recvVars
  <2>2. Doomed' = Doomed
    BY <2>1 DEF Doomed
  <2>3. \A y, z \in cut : y[1] = z[1] /\ y[2] = z[2] => y = z
    BY <2>1 DEF CutRight
  <2>4. ASSUME NEW y \in cut \ {x}
        PROVE  y[2] \in DOMAIN running'[y[1]] /\ running'[y[1]][y[2]] = running[y[1]][y[2]]
    <3>1. y[1] \in Category /\ y[2] \in Nat \ {0} /\ y[2] \in DOMAIN running[y[1]]
      BY <1>0, <2>1, CutType DEF CutRight
    <3>2. CASE y[1] # x[1]
      BY <1>0, <2>1, <3>1, <3>2
    <3>3. CASE y[1] = x[1]
      <4> DEFINE c == x[1]
                 n == x[2]
                 k == y[2]
      <4>1. running'[c] = Without(running[c], n) /\ running[c] \in Seq(Plugin)
        BY <1>0, <2>1
      <4>2. n \in 1..Len(running[c]) /\ k \in Nat \ {0} /\ k <= n /\ k # n
        BY <2>1, <2>3, <3>1, <3>3
      <4> HIDE DEF c, n, k
      <4>3. k < n
        <5>1. n \in Nat
          BY <4>1, <4>2
        <5> QED
          BY <4>2, <5>1
      <4>4. k \in DOMAIN Without(running[c], n) /\ Without(running[c], n)[k] = running[c][k]
        BY <4>1, <4>2, <4>3, WithoutBelow
      <4> QED
        BY <3>3, <4>1, <4>4 DEF c, k
    <3> QED
      BY <3>2, <3>3
  <2> QED
    BY <2>1, <2>2, <2>3, <2>4 DEF CutRight
<1> QED
  BY <1>0, <1>3, <1>4, <1>5, <1>6, <1>7, <1>8, StepCases DEF Applies

LEMMA StepAllListed == IInv /\ Base /\ AllListed /\ [Next]_vars => AllListed'
<1> SUFFICES ASSUME IInv, Base, AllListed, [Next]_vars PROVE AllListed'
  OBVIOUS
<1>0. /\ TypeOK /\ running \in [Category -> Seq(Plugin)]
      /\ exec = "swapConf" => recv = "wait"
  BY ListsType DEF IInv, Handshake, OneToken, Applying
<1>1. CASE /\ UNCHANGED confRunning /\ (exec = "swapConf" => exec' = exec /\ confUpdate' = confUpdate)
           /\ \A c \in Category : \A h \in Plugin : RunsNow(c, h)' => RunsNow(c, h)
  BY <1>1 DEF AllListed, Configured, Brought
<1>2. CASE Quiet \/ Death
  BY <1>1, <1>2 DEF Quiet, Applying, Death, Down, confVars, AllListed, RunsNow, Empty
<1>3. CASE Boot
  BY <1>3 DEF Boot, AllListed, RunsNow, Configured
<1>4. CASE Receives
  <2>1. recv # "wait" \/ UNCHANGED confVars
    BY <1>4 DEF Receives, RecvUpdate, RecvDelete, RecvLoaded, RecvNotify, RecvFinish,
                RecvStore, RecvUnlink, RecvLoad, RecvFail, AtLoad
  <2>2. UNCHANGED <<execVars, confRunning>>
    BY <1>4 DEF Receives, RecvUpdate, RecvDelete, RecvLoaded, RecvNotify, RecvFinish,
                RecvStore, RecvUnlink, RecvLoad, RecvFail, confVars
  <2> QED
    BY <1>0, <1>1, <2>1, <2>2 DEF execVars, confVars, RunsNow
<1>5. CASE ExecReady \/ ExecReplace \/ ExecRemove \/ ExecRemoved \/ ExecClearDelete \/ ExecReply
  BY <1>1, <1>5 DEF ExecReady, ExecReplace, ExecRemove, ExecRemoved, ExecClearDelete, ExecReply,
                    confVars, RunsNow
<1>6. CASE ExecInstall
  <2>1. /\ exec = "replace" /\ exec' = "swapConf" /\ UNCHANGED <<confRunning, confUpdate>>
        /\ running' = [c \in Category |-> running[c] \o update[c]]
    BY <1>6 DEF ExecInstall, confVars
  <2>2. update = confUpdate /\ update \in [Category -> Seq(Plugin)]
    BY <1>0, <2>1, ListsType DEF IInv, Handshake, WholeBatch
  <2>3. ASSUME NEW c \in Category, NEW h \in Plugin, RunsNow(c, h)'
        PROVE  RunsNow(c, h) \/ Brought(c, h)
    <3> DEFINE s == running[c]
               t == update[c]
    <3>1. s \in Seq(Plugin) /\ t \in Seq(Plugin) /\ running'[c] = s \o t
      BY <1>0, <2>1, <2>2
    <3>2. PICK i \in DOMAIN (s \o t) : (s \o t)[i] = h
      BY <2>3, <3>1 DEF RunsNow
    <3> SUFFICES (\E k \in DOMAIN s : s[k] = h) \/ (\E k \in DOMAIN t : t[k] = h)
      BY <2>2 DEF RunsNow, Brought
    <3> HIDE DEF s, t
    <3>3. CASE i \in DOMAIN s /\ (s \o t)[i] = s[i]
      BY <3>2, <3>3
    <3>4. CASE i - Len(s) \in DOMAIN t /\ (s \o t)[i] = t[i - Len(s)]
      BY <3>2, <3>4
    <3> QED
      BY <3>1, <3>3, <3>4, ConcatAt
  <2> QED
    BY <2>1, <2>3 DEF AllListed, Configured, Brought
<1>7. CASE ExecSwapConf
  <2>1. \A c \in Category : \A h \in Plugin : Listed(c, h) => Configured(c, h)'
    BY <1>0, <1>7, SwapConfigures
  <2>2. UNCHANGED running
    BY <1>7 DEF ExecSwapConf
  <2> QED
    BY <2>1, <2>2 DEF AllListed, RunsNow, Listed
<1>8. ASSUME NEW x \in cut, ExecCut(x) PROVE AllListed'
  <2>1. \A c \in Category : \A h \in Plugin : RunsNow(c, h)' => RunsNow(c, h)
    BY <1>0, <1>8, CutRuns
  <2>2. UNCHANGED <<confRunning, confUpdate, exec>>
    BY <1>8 DEF ExecCut, confVars
  <2> QED
    BY <1>1, <2>1, <2>2
<1> QED
  BY <1>0, <1>2, <1>3, <1>4, <1>5, <1>6, <1>7, <1>8, StepCases DEF Applies

(* A dead process does nothing but start. *)
LEMMA Sleeps == ~up /\ ~up' /\ [Next]_vars => UNCHANGED vars
<1> SUFFICES ASSUME ~up, ~up', Next PROVE FALSE
  OBVIOUS
<1>1. ASSUME NEW h \in Hash, RecvStore(h) \/ RecvUnlink(h) PROVE FALSE
  BY <1>1 DEF RecvStore, RecvUnlink
<1>2. ASSUME NEW c \in Category, RecvLoad(c) \/ RecvFail(c) \/ RecvPanic(c) PROVE FALSE
  BY <1>2 DEF RecvLoad, RecvFail, RecvPanic, AtLoad
<1>3. ASSUME NEW x \in cut, ExecCut(x) \/ ExecPanic(x) PROVE FALSE
  BY <1>3 DEF ExecCut, ExecPanic, AtCut
<1>4. CASE Boot \/ Crash \/ Agent \/ FirstCollect
  BY <1>4 DEF Boot, Crash, Agent, AgentSendUpdate, AgentSendDelete, FirstCollect, FirstBegin,
              FirstEnd
<1>5. CASE Receiver
  BY <1>1, <1>2, <1>5 DEF Receiver, RecvUpdate, RecvDelete, RecvLoaded, RecvNotify, RecvFinish
<1>6. CASE ExecTick \/ ExecReady \/ ExecGoOn
  BY <1>3, <1>6
  DEF ExecTick, ExecReady, ExecGoOn, ExecStart, ExecCollect, ExecCollected, ExecReplace,
      ExecInstall, ExecSwapConf, ExecRemove, ExecRemoved, ExecClearDelete, ExecReply
<1> QED
  BY <1>4, <1>5, <1>6 DEF Next

LEMMA StepStill == TypeOK /\ Still /\ [Next]_vars => Still'
<1> SUFFICES ASSUME TypeOK, Still, [Next]_vars, ~up' PROVE Still'
  BY DEF Still
<1>1. CASE Quiet
  <2>1. UNCHANGED <<running, up>>
    BY <1>1 DEF Quiet
  <2>2. ~up
    BY <2>1
  <2>3. UNCHANGED <<updateChan, deleteChan>>
    BY <2>2, Sleeps DEF vars
  <2> QED
    BY <2>1, <2>3 DEF Still
<1>2. CASE Boot
  BY <1>2 DEF Boot
<1>3. CASE Death
  BY <1>3 DEF Death, Down, Still
<1>4. CASE Receives \/ Applies
  BY <1>4, Alive
<1> QED
  BY <1>1, <1>2, <1>3, <1>4, StepCases

-----------------------------------------------------------------------------
(* The plugin set *)

LEMMA Members ==
  \A h : /\ h \in RunSet <=> \E c \in Category : RunsNow(c, h)
         /\ h \in RunSet' <=> \E c \in Category : RunsNow(c, h)'
  BY DEF RunSet, Now, Elems, RunsNow

Upcoming == UNION {Elems(confUpdate[c]) : c \in Category}

LEMMA Upcomings ==
  \A h : /\ h \in Upcoming <=> \E c \in Category : Brought(c, h)
         /\ h \in Upcoming' <=> \E c \in Category : Brought(c, h)'
  BY DEF Upcoming, Elems, Brought

LEMMA StagedIs ==
  /\ Staged = IF exec \in {"replace", "swapConf"} THEN {} ELSE Upcoming
  /\ Staged' = IF exec' \in {"replace", "swapConf"} THEN {} ELSE Upcoming'
  BY DEF Staged, Upcoming

(* Steps that neither change the lists nor move the executor to or from     *)
(* where the lists are being changed.                                      *)
Aside == {"replace", "swapConf", "remove", "clearDelete"}

LEMMA View ==
  ASSUME UNCHANGED <<running, confRunning, confUpdate, confDelete>>,
         exec' = exec \/ (exec \notin Aside /\ exec' \notin Aside),
         exec = "replace" => UNCHANGED update
  PROVE  UNCHANGED <<Staged, Leaving, Active>>
<1>1. UNCHANGED <<RunSet, Doomed, Upcoming>>
  BY DEF RunSet, Now, Doomed, Upcoming
<1>2. Staged' = Staged
  BY <1>1, StagedIs DEF Aside
<1>3. Leaving' = Leaving
  BY <1>1 DEF Leaving, Aside
<1>4. Active' = Active
  <2>1. CASE exec = "replace"
    <3>1. exec' = "replace" /\ UNCHANGED LoadedSet
      BY <2>1 DEF Aside, LoadedSet
    <3> QED
      BY <1>1, <2>1, <3>1 DEF Active
  <2>2. CASE exec # "replace"
    <3>1. exec' # "replace" /\ (exec = "remove" <=> exec' = "remove")
      BY <2>2 DEF Aside
    <3> QED
      BY <1>1, <2>2, <3>1 DEF Active
  <2> QED
    BY <2>1, <2>2
<1> QED
  BY <1>2, <1>3, <1>4

(* An instance that is not the one cut stays. *)
LEMMA CutLeaves ==
  ASSUME TypeOK, NEW x \in cut, ExecCut(x), NEW c \in Category, NEW h,
         RunsNow(c, h), c = x[1] => running[c][x[2]] # h
  PROVE  RunsNow(c, h)'
<1>1. /\ x[1] \in Category /\ x[2] \in 1..Len(running[x[1]])
      /\ running' = [running EXCEPT ![x[1]] = Without(@, x[2])]
      /\ running \in [Category -> Seq(Plugin)]
  BY CutType, ListsType DEF ExecCut
<1>2. CASE c # x[1]
  BY <1>1, <1>2 DEF RunsNow
<1>3. CASE c = x[1]
  <2>1. running'[c] = Without(running[c], x[2]) /\ running[c] \in Seq(Plugin)
    BY <1>1, <1>3
  <2>2. PICK k \in DOMAIN running[c] : running[c][k] = h
    BY DEF RunsNow
  <2>3. k # x[2]
    BY <1>3, <2>2
  <2>4. \E j \in DOMAIN Without(running[c], x[2]) : Without(running[c], x[2])[j] = running[c][k]
    BY <1>1, <1>3, <2>1, <2>3, WithoutKeeps
  <2> QED
    BY <2>1, <2>2, <2>4 DEF RunsNow
<1> QED
  BY <1>2, <1>3

(* The lists stay lists of plugins. *)
LEMMA CutLists ==
  ASSUME TypeOK, NEW x \in cut, ExecCut(x), NEW c \in Category
  PROVE  running'[c] \in Seq(Plugin)
<1>1. /\ x[1] \in Category /\ x[2] \in 1..Len(running[x[1]])
      /\ running' = [running EXCEPT ![x[1]] = Without(@, x[2])]
      /\ running \in [Category -> Seq(Plugin)]
  BY CutType, ListsType DEF ExecCut
<1> QED
  BY <1>1, WithoutType

LEMMA ListsTypeNext == TypeOK' => \A c \in Category : running'[c] \in Seq(Plugin)
  BY DEF TypeOK, ExecutorTypeOK

All == IInv /\ Base /\ Names /\ OnDisk /\ Careful

Same == UNCHANGED <<updateChan, deleteChan, Staged, Leaving, Active>>

LEMMA RefReceiver ==
  ASSUME All, ~RecvUpdate, ~RecvDelete, Receives PROVE Same
<1>1. recv = "load" => exec # "replace"
  BY DEF All, IInv, Handshake, OneToken, Applying
<1>2. UNCHANGED <<running, confRunning, confUpdate, confDelete, exec, updateChan, deleteChan>>
  BY DEF Receives, RecvLoaded, RecvNotify, RecvFinish, RecvStore, RecvUnlink, RecvLoad,
         RecvFail, confVars, execVars
<1>3. recv = "load" \/ UNCHANGED update
  BY DEF Receives, RecvLoaded, RecvNotify, RecvFinish, RecvStore, RecvUnlink, RecvLoad,
         RecvFail, AtLoad
<1> QED
  BY <1>1, <1>2, <1>3, View DEF Same

LEMMA RefStage ==
  ASSUME All, RecvUpdate PROVE \E S \in SUBSET Plugin : Abs!Stage(S)
<1> DEFINE fresh == (Head(updateChan) \ runningHash) \cap Marked
           S == fresh \cap Plugin
<1>0. TypeOK /\ exec \notin Applying
  BY DEF All, IInv, Handshake, OneToken, RecvUpdate
<1>1. PICK add \in Arrangements(S) : confUpdate' = [c \in Category |-> confUpdate[c] \o add[c]]
  BY DEF RecvUpdate
<1>2. /\ updateChan # <<>> /\ updateChan' = <<>> /\ deleteChan' = deleteChan
      /\ UNCHANGED <<running, confRunning, confDelete, exec>>
      /\ S \subseteq Head(updateChan) \cap Plugin
  BY DEF RecvUpdate, execVars
<1>3. UNCHANGED <<Leaving, Active>>
  <2>1. UNCHANGED <<RunSet, Doomed>>
    BY <1>2 DEF RunSet, Now, Doomed
  <2> QED
    BY <1>0, <1>2, <2>1 DEF Leaving, Active, Applying
<1> HIDE DEF fresh, S
<1>4. S \in SUBSET Plugin
  BY <1>2
<1>5. /\ add \in [Category -> Seq(Plugin)] /\ confUpdate \in [Category -> Seq(Plugin)]
  BY <1>0, <1>1, <1>4, ArrangementsType, ListsType
<1>6. ASSUME NEW c \in Category, NEW h
      PROVE  Brought(c, h)' <=> Brought(c, h) \/ \E i \in DOMAIN add[c] : add[c][i] = h
  <2>1. Has(confUpdate[c] \o add[c], h) <=> Has(confUpdate[c], h) \/ Has(add[c], h)
    BY <1>5, ConcatHas
  <2> QED
    BY <1>1, <2>1 DEF Brought, Has
<1>7. \A h : h \in S <=> \E c \in Category : \E i \in DOMAIN add[c] : add[c][i] = h
  <2>1. \A c \in Category : \A i \in DOMAIN add[c] : add[c][i] \in S
    BY <1>1, <1>4, ArrangementsAll
  <2>2. ASSUME NEW h \in S
        PROVE  \E c \in Category : \E i \in DOMAIN add[c] : add[c][i] = h
    <3>1. Cat[h] \in Category
      BY <1>4, ConstantsAssumption DEF Plugin, Marked
    <3>2. ASSUME NEW c \in Category, Cat[h] = c PROVE \E i \in DOMAIN add[c] : add[c][i] = h
      BY <1>1, <1>4, <3>2, ArrangementsAll
    <3> QED
      BY <3>1, <3>2
  <2> QED
    BY <2>1, <2>2
<1>8. Upcoming' = Upcoming \cup S
  <2>1. \A h : h \in Upcoming' <=> h \in Upcoming \/ h \in S
    BY <1>6, <1>7, Upcomings
  <2> QED
    BY <2>1
<1>9. Staged' = Staged \cup S
  BY <1>0, <1>2, <1>8, StagedIs DEF Applying
<1> QED
  BY <1>2, <1>3, <1>4, <1>9 DEF Abs!Stage

LEMMA RefCondemn ==
  ASSUME All, RecvDelete PROVE Abs!Condemn
<1> DEFINE list == Head(deleteChan)
<1>0. exec \notin Applying
  BY DEF All, IInv, Handshake, OneToken, RecvDelete
<1>1. /\ deleteChan # <<>> /\ deleteChan' = <<>> /\ updateChan' = updateChan
      /\ UNCHANGED <<running, confRunning, confUpdate, exec>>
  BY DEF RecvDelete, execVars
<1>2. confDelete = {}
  BY NoneDoomed DEF All, OnDisk, RecvDelete
<1>3. /\ \A c \in Category : \A i \in DOMAIN confRunning[c] :
           confRunning[c][i] \in list => <<c, i>> \in confDelete'
      /\ \A e \in confDelete' : confRunning[e[1]][e[2]] \in list
  BY <1>2 DEF RecvDelete
<1>4. UNCHANGED <<RunSet, Upcoming>>
  BY <1>1 DEF RunSet, Now, Upcoming
<1>5. Active = RunSet /\ Active' = RunSet /\ Staged' = Staged
  BY <1>0, <1>1, <1>4, StagedIs DEF Active, Applying
<1>6. Leaving' = RunSet \cap Doomed'
  BY <1>0, <1>1, <1>4 DEF Leaving, Applying
<1>7. ASSUME NEW h \in RunSet, h \in list PROVE h \in Doomed'
  <2>1. PICK c \in Category : RunsNow(c, h)
    BY Members
  <2>2. h \in Plugin
    <3>1. running[c] \in Seq(Plugin)
      BY ListsType DEF All, IInv
    <3> QED
      BY <2>1, <3>1, ElementOfSeq DEF RunsNow
  <2>3. Configured(c, h)
    BY <1>0, <2>1, <2>2 DEF All, Careful, AllListed, Applying
  <2>4. PICK i \in DOMAIN confRunning[c] : confRunning[c][i] = h
    BY <2>3 DEF Configured
  <2>5. <<c, i>> \in confDelete'
    BY <1>3, <1>7, <2>4
  <2> QED
    BY <1>1, <2>4, <2>5 DEF Doomed
<1>8. Doomed' \subseteq list
  BY <1>1, <1>3 DEF Doomed
<1>9. Leaving' = Active \cap list
  BY <1>5, <1>6, <1>7, <1>8
<1> QED
  BY <1>1, <1>5, <1>9 DEF Abs!Condemn

(* Nothing is leaving while a batch is swapped in. *)
LEMMA NoneLeaving ==
  ASSUME All, exec \in {"lockReplace", "replace", "swapConf"}, UNCHANGED <<confDelete, confRunning>>
  PROVE  Doomed = {} /\ Doomed' = {} /\ Leaving = {} /\ Leaving' = {}
<1>1. Doomed = {}
  BY NoneDoomed DEF All, OnDisk
<1>2. Doomed' = {}
  BY <1>1 DEF Doomed
<1> QED
  BY <1>1, <1>2 DEF Leaving

LEMMA LoadedIs ==
  ASSUME All, exec \in {"lockReplace", "replace"} PROVE LoadedSet = Upcoming
  BY DEF All, IInv, Handshake, WholeBatch, LoadedSet, Upcoming

LEMMA RefActivate ==
  ASSUME All, ExecReplace PROVE Abs!Activate
<1>1. /\ exec = "lockReplace" /\ exec' = "replace"
      /\ UNCHANGED <<updateChan, deleteChan, running, confRunning, confUpdate, confDelete, update>>
  BY DEF ExecReplace, confVars, recvVars
<1>2. Leaving' = Leaving
  BY <1>1, NoneLeaving
<1>3. Staged = Upcoming /\ Staged' = {} /\ Active = RunSet
  BY <1>1, StagedIs DEF Active
<1>4. RunSet' = RunSet /\ LoadedSet' = LoadedSet
  BY <1>1 DEF RunSet, Now, LoadedSet
<1>5. Active' = {h \in RunSet : \A g \in LoadedSet : Path(g) # Path(h)} \cup LoadedSet
  BY <1>1, <1>4 DEF Active
<1>6. LoadedSet = Upcoming
  BY <1>1, LoadedIs
<1>7. \A g, h : Abs!SameName(h, g) <=> Path(g) = Path(h)
  BY DEF Abs!SameName, Path
<1>8. Active' = {h \in Active : \A s \in Staged : ~Abs!SameName(h, s)} \cup Staged
  BY <1>3, <1>5, <1>6, <1>7
<1> QED
  BY <1>1, <1>2, <1>3, <1>8 DEF Abs!Activate

LEMMA RefCut ==
  ASSUME All, NEW x \in cut, ExecCut(x) PROVE Same
<1>0. TypeOK
  BY DEF All, IInv
<1>1. /\ exec \in {"replace", "remove"} /\ x[1] \in Category
      /\ x[2] \in DOMAIN running[x[1]]
      /\ UNCHANGED <<updateChan, deleteChan, confRunning, confUpdate, confDelete, update, exec>>
  BY <1>0, CutType DEF ExecCut, AtCut, confVars, recvVars, All, Careful, CutRight
<1>2. UNCHANGED <<Doomed, LoadedSet, Upcoming>>
  BY <1>1 DEF Doomed, LoadedSet, Upcoming
<1>3. Staged' = Staged
  BY <1>1, <1>2, StagedIs
<1>4. ASSUME NEW h \in RunSet' PROVE h \in RunSet
  <2>1. PICK c \in Category : RunsNow(c, h)'
    BY Members
  <2>2. RunsNow(c, h)
    <3>1. h \in Plugin
      <4>1. running'[c] \in Seq(Plugin)
        BY <1>0, CutLists
      <4> QED
        BY <2>1, <4>1, ElementOfSeq DEF RunsNow
    <3> QED
      BY <1>0, <2>1, <3>1, CutRuns
  <2> QED
    BY <2>2, Members
<1>5. ASSUME NEW h \in RunSet, h # running[x[1]][x[2]] PROVE h \in RunSet'
  <2>1. PICK c \in Category : RunsNow(c, h)
    BY Members
  <2>2. RunsNow(c, h)'
    BY <1>0, <1>5, <2>1, CutLeaves
  <2> QED
    BY <2>2, Members
<1>6. CASE exec = "replace"
  <2>1. \E g \in LoadedSet : Path(g) = Path(running[x[1]][x[2]])
    <3>1. /\ x[3] \in DOMAIN update[x[1]]
          /\ Name[running[x[1]][x[2]]] = Name[update[x[1]][x[3]]]
      BY <1>6 DEF All, Careful, CutRight
    <3>2. Cat[running[x[1]][x[2]]] = x[1] /\ Cat[update[x[1]][x[3]]] = x[1]
      BY <1>1, <3>1 DEF All, Base, Sorted, InCategory
    <3>3. update[x[1]][x[3]] \in LoadedSet
      BY <1>1, <3>1 DEF LoadedSet, Elems
    <3> QED
      BY <3>1, <3>2, <3>3 DEF Path
  <2>2. {h \in RunSet' : \A g \in LoadedSet : Path(g) # Path(h)}
          = {h \in RunSet : \A g \in LoadedSet : Path(g) # Path(h)}
    BY <1>4, <1>5, <2>1
  <2>3. Active' = Active
    BY <1>1, <1>2, <1>6, <2>2 DEF Active
  <2>4. Leaving' = Leaving
    BY <1>1, <1>6, NoneLeaving
  <2> QED
    BY <1>1, <1>3, <2>3, <2>4 DEF Same
<1>7. CASE exec = "remove"
  <2>1. running[x[1]][x[2]] \in Doomed
    BY <1>7 DEF All, Careful, CutRight
  <2>2. RunSet' \ Doomed = RunSet \ Doomed
    BY <1>4, <1>5, <2>1
  <2>3. Active' = Active
    BY <1>1, <1>2, <1>7, <2>2 DEF Active
  <2>4. Leaving' = {} /\ Leaving = {}
    BY <1>1, <1>7 DEF Leaving
  <2> QED
    BY <1>1, <1>3, <2>3, <2>4 DEF Same
<1> QED
  BY <1>1, <1>6, <1>7

LEMMA RefInstall ==
  ASSUME All, ExecInstall PROVE Same
<1>1. /\ exec = "replace" /\ exec' = "swapConf" /\ cut = {}
      /\ running' = [c \in Category |-> running[c] \o update[c]]
      /\ UNCHANGED <<updateChan, deleteChan, confRunning, confUpdate, confDelete>>
  BY DEF ExecInstall, confVars
<1>2. Staged = {} /\ Staged' = {}
  BY <1>1, StagedIs
<1>3. Leaving' = Leaving
  BY <1>1, NoneLeaving
<1>4. running \in [Category -> Seq(Plugin)] /\ update \in [Category -> Seq(Plugin)]
  BY ListsType DEF All, IInv
<1>5. ASSUME NEW h
      PROVE  h \in RunSet' <=> h \in RunSet \/ h \in LoadedSet
  <2>1. ASSUME NEW c \in Category
        PROVE  RunsNow(c, h)' <=> RunsNow(c, h) \/ \E i \in DOMAIN update[c] : update[c][i] = h
    <3>1. Has(running[c] \o update[c], h) <=> Has(running[c], h) \/ Has(update[c], h)
      BY <1>4, ConcatHas
    <3> QED
      BY <1>1, <3>1 DEF RunsNow, Has
  <2>2. h \in LoadedSet <=> \E c \in Category : \E i \in DOMAIN update[c] : update[c][i] = h
    BY DEF LoadedSet, Elems
  <2> QED
    BY <2>1, <2>2, Members
<1>6. ASSUME NEW g \in LoadedSet, NEW h \in RunSet PROVE Path(g) # Path(h)
  <2>1. PICK c \in Category : RunsNow(c, h)
    BY Members
  <2>2. PICK d \in Category : \E j \in DOMAIN update[d] : update[d][j] = g
    BY DEF LoadedSet, Elems
  <2>3. Cat[h] = c /\ Cat[g] = d
    BY <2>1, <2>2 DEF All, Base, Sorted, InCategory, RunsNow
  <2>4. c = d => Name[h] # Name[g]
    BY <1>1, <2>1, <2>2 DEF All, Names, Cutting, RunsNow
  <2> QED
    BY <2>3, <2>4 DEF Path
<1>7. Active = RunSet \cup LoadedSet
  BY <1>1, <1>6 DEF Active
<1>8. Active' = RunSet'
  BY <1>1 DEF Active
<1> QED
  BY <1>1, <1>2, <1>3, <1>5, <1>7, <1>8 DEF Same

LEMMA RefSwap ==
  ASSUME All, ExecSwapConf PROVE Same
<1>1. /\ exec = "swapConf" /\ exec' = "reply" /\ confUpdate' = Empty
      /\ UNCHANGED <<updateChan, deleteChan, running, confDelete>>
  BY DEF ExecSwapConf
<1>2. confDelete = {}
  BY <1>1, NoneDoomed DEF All, OnDisk
<1>3. Leaving = {} /\ Leaving' = {}
  BY <1>1, <1>2 DEF Leaving, Doomed
<1>4. Upcoming' = {}
  BY <1>1 DEF Upcoming, Empty, Elems
<1>5. Staged = {} /\ Staged' = {}
  BY <1>1, <1>4, StagedIs
<1>6. Active' = Active
  BY <1>1 DEF Active, RunSet, Now
<1> QED
  BY <1>1, <1>3, <1>5, <1>6 DEF Same

LEMMA RefDeactivate ==
  ASSUME All, ExecRemove PROVE Abs!Deactivate
<1>1. /\ exec = "lockRemove" /\ exec' = "remove"
      /\ UNCHANGED <<updateChan, deleteChan, running, confRunning, confUpdate, confDelete>>
  BY DEF ExecRemove, confVars
<1>2. UNCHANGED <<RunSet, Doomed, Upcoming>>
  BY <1>1 DEF RunSet, Now, Doomed, Upcoming
<1>3. Leaving = RunSet \cap Doomed /\ Leaving' = {}
  BY <1>1 DEF Leaving
<1>4. Active = RunSet /\ Active' = RunSet \ Doomed
  BY <1>1, <1>2 DEF Active
<1>5. Staged' = Staged
  BY <1>1, <1>2, StagedIs
<1> QED
  BY <1>1, <1>3, <1>4, <1>5 DEF Abs!Deactivate

LEMMA RefRemoved ==
  ASSUME All, ExecRemoved PROVE Same
<1>1. /\ exec = "remove" /\ exec' = "clearDelete" /\ cut = {}
      /\ UNCHANGED <<updateChan, deleteChan, running, confRunning, confUpdate, confDelete>>
  BY DEF ExecRemoved, confVars
<1>2. UNCHANGED <<RunSet, Doomed, Upcoming>>
  BY <1>1 DEF RunSet, Now, Doomed, Upcoming
<1>3. Leaving = {} /\ Leaving' = {}
  BY <1>1 DEF Leaving
<1>4. RunSet \ Doomed = RunSet
  <2>1. ASSUME NEW h \in RunSet PROVE h \notin Doomed
    <3>1. PICK c \in Category : RunsNow(c, h)
      BY Members
    <3> QED
      BY <1>1, <3>1 DEF All, OnDisk, Uncut, RunsNow
  <2> QED
    BY <2>1
<1>5. Active' = Active
  BY <1>1, <1>2, <1>4 DEF Active
<1>6. Staged' = Staged
  BY <1>1, <1>2, StagedIs
<1> QED
  BY <1>1, <1>3, <1>5, <1>6 DEF Same

LEMMA RefClear ==
  ASSUME All, ExecClearDelete PROVE Same
<1>1. /\ exec = "clearDelete" /\ exec' = "reply" /\ confDelete' = {}
      /\ UNCHANGED <<updateChan, deleteChan, running, confRunning, confUpdate>>
  BY DEF ExecClearDelete
<1>2. UNCHANGED <<RunSet, Upcoming>>
  BY <1>1 DEF RunSet, Now, Upcoming
<1>3. Leaving = {} /\ Leaving' = {}
  BY <1>1 DEF Leaving, Doomed
<1>4. Active' = Active
  BY <1>1, <1>2 DEF Active
<1>5. Staged' = Staged
  BY <1>1, <1>2, StagedIs
<1> QED
  BY <1>1, <1>3, <1>4, <1>5 DEF Same

LEMMA RefStart ==
  ASSUME All, Boot, [Next]_vars PROVE \E S \in SUBSET Plugin : Abs!Start(S)
<1>0. TypeOK' /\ Distinct(running)' /\ Base'
  BY StepType, StepRunningDistinct, StepBase DEF All, IInv
<1>1. /\ ~up /\ running = Empty /\ confUpdate = Empty /\ confDelete = {} /\ exec = "adjust"
      /\ UNCHANGED <<updateChan, deleteChan, confUpdate, confDelete, exec>>
  BY DEF Boot, All, Base, Dead, Careful, Still
<1>2. RunSet = {}
  BY <1>1 DEF RunSet, Now, Elems, Empty
<1>3. Leaving = {} /\ Leaving' = {}
  BY <1>1 DEF Leaving, Doomed
<1>4. Staged' = Staged
  BY <1>1 DEF Staged
<1>5. Active = {} /\ Active' = RunSet'
  BY <1>1, <1>2 DEF Active
<1>6. RunSet' \in SUBSET Plugin
  <2>1. ASSUME NEW c \in Category, NEW h, RunsNow(c, h)' PROVE h \in Plugin
    <3>1. running'[c] \in Seq(Plugin)
      BY <1>0, ListsTypeNext
    <3> QED
      BY <2>1, <3>1, ElementOfSeq DEF RunsNow
  <2> QED
    BY <2>1, Members
<1>7. Abs!OnePerName(RunSet')
  <2> SUFFICES ASSUME NEW g \in RunSet', NEW h \in RunSet', Cat[g] = Cat[h], Name[g] = Name[h]
               PROVE  g = h
    BY DEF Abs!OnePerName, Abs!SameName
  <2>1. PICK c \in Category : RunsNow(c, g)'
    BY Members
  <2>2. PICK d \in Category : RunsNow(d, h)'
    BY Members
  <2>3. Cat[g] = c /\ Cat[h] = d
    BY <1>0, <2>1, <2>2 DEF Base, Sorted, InCategory, RunsNow
  <2>4. c = d /\ Name[g] = Name[h]
    BY <2>3
  <2>5. PICK i \in DOMAIN running'[c] : running'[c][i] = g
    BY <2>1 DEF RunsNow
  <2>6. PICK j \in DOMAIN running'[c] : running'[c][j] = h
    BY <2>2, <2>4 DEF RunsNow
  <2>7. i = j
    BY <1>0, <2>4, <2>5, <2>6 DEF Distinct
  <2> QED
    BY <2>5, <2>6, <2>7
<1> QED
  BY <1>1, <1>3, <1>4, <1>5, <1>6, <1>7 DEF Abs!Start

LEMMA RefHalt ==
  ASSUME Down PROVE Abs!Halt
<1>1. /\ updateChan' = <<>> /\ deleteChan' = <<>> /\ running' = Empty /\ confUpdate' = Empty
      /\ confDelete' = {} /\ exec' = "adjust"
  BY DEF Down
<1>2. RunSet' = {} /\ Upcoming' = {}
  BY <1>1 DEF RunSet, Now, Upcoming, Elems, Empty
<1>3. Staged' = {}
  BY <1>1, <1>2, StagedIs
<1>4. Leaving' = {} /\ Active' = {}
  BY <1>1, <1>2 DEF Leaving, Active
<1> QED
  BY <1>1, <1>3, <1>4 DEF Abs!Halt

(* The steps of the agent, of firstCollect and of the ticks. *)
LEMMA RefQuiet ==
  ASSUME All, TypeOK', Agent \/ FirstCollect \/ ExecTick \/ ExecStart \/ ExecCollect \/ ExecCollected
                \/ ExecReady \/ ExecReply \/ UNCHANGED vars
  PROVE  Same \/ \E S \in SUBSET Hash : Abs!Publish(S) \/ Abs!Order(S)
<1>1. UNCHANGED <<running, confRunning, confUpdate, confDelete, update>>
  BY DEF Agent, AgentSendUpdate, AgentSendDelete, FirstCollect, FirstBegin, FirstEnd, ExecTick,
         ExecStart, ExecCollect, ExecCollected, ExecReady, ExecReply, vars, confVars, recvVars,
         execVars
<1>2. exec' = exec \/ (exec \notin Aside /\ exec' \notin Aside)
  BY DEF Agent, AgentSendUpdate, AgentSendDelete, FirstCollect, FirstBegin, FirstEnd, ExecTick,
         ExecStart, ExecCollect, ExecCollected, ExecReady, ExecReply, vars, execVars, Aside
<1>3. UNCHANGED <<Staged, Leaving, Active>>
  BY <1>1, <1>2, View
<1>4. CASE AgentSendUpdate
  <2>1. hashMap' \in SUBSET Hash
    BY DEF TypeOK, AgentTypeOK
  <2>2. updateChan = <<>> /\ updateChan' = <<hashMap'>> /\ deleteChan' = deleteChan
    BY <1>4 DEF AgentSendUpdate
  <2>3. Abs!Publish(hashMap')
    BY <1>3, <2>2 DEF Abs!Publish
  <2> QED
    BY <2>1, <2>3
<1>5. CASE AgentSendDelete
  <2>1. owed \in SUBSET Hash
    BY DEF All, IInv, TypeOK, AgentTypeOK
  <2>2. Abs!Order(owed)
    BY <1>3, <1>5 DEF AgentSendDelete, Abs!Order
  <2> QED
    BY <2>1, <2>2
<1>6. CASE ~AgentSendUpdate /\ ~AgentSendDelete
  <2>1. UNCHANGED <<updateChan, deleteChan>>
    BY <1>6 DEF Agent, FirstCollect, FirstBegin, FirstEnd, ExecTick, ExecStart, ExecCollect,
                ExecCollected, ExecReady, ExecReply, vars
  <2> QED
    BY <1>3, <2>1 DEF Same
<1> QED
  BY <1>4, <1>5, <1>6

LEMMA StepRefines == All /\ [Next]_vars => [Abs!Next]_(Abs!pvars)
<1> SUFFICES ASSUME All, [Next]_vars PROVE Same \/ Abs!Next
  BY DEF Same, Abs!pvars
<1>0. TypeOK /\ TypeOK'
  BY StepType DEF All, IInv
<1>1. CASE Boot
  BY <1>1, RefStart DEF Abs!Next
<1>2. CASE Crash
  BY <1>2, RefHalt DEF Crash, Abs!Next
<1>3. ASSUME NEW c \in Category, RecvPanic(c) PROVE Abs!Next
  BY <1>3, RefHalt DEF RecvPanic, Abs!Next
<1>4. ASSUME NEW x \in cut, ExecPanic(x) PROVE Abs!Next
  BY <1>4, RefHalt DEF ExecPanic, Abs!Next
<1>5. CASE Agent \/ FirstCollect \/ ExecTick \/ ExecStart \/ ExecCollect \/ ExecCollected
           \/ ExecReady \/ ExecReply \/ UNCHANGED vars
  BY <1>0, <1>5, RefQuiet DEF Abs!Next
<1>6. CASE Receiver
  <2>1. CASE RecvUpdate
    BY <2>1, RefStage DEF Abs!Next
  <2>2. CASE RecvDelete
    BY <2>2, RefCondemn DEF Abs!Next
  <2>3. CASE Receives /\ ~RecvUpdate /\ ~RecvDelete
    BY <2>3, RefReceiver
  <2> QED
    BY <1>3, <1>6, <2>1, <2>2, <2>3 DEF Receiver, Receives
<1>7. CASE ExecReplace \/ ExecRemove
  BY <1>7, RefActivate, RefDeactivate DEF Abs!Next
<1>8. CASE ExecInstall \/ ExecSwapConf \/ ExecRemoved \/ ExecClearDelete
  BY <1>8, RefInstall, RefSwap, RefRemoved, RefClear
<1>9. ASSUME NEW x \in cut, ExecCut(x) PROVE Same
  BY <1>9, RefCut
<1> QED
  BY <1>1, <1>2, <1>4, <1>5, <1>6, <1>7, <1>8, <1>9 DEF Next, ExecGoOn

-----------------------------------------------------------------------------
(* The theorems *)

LEMMA InitCareful ==
  ASSUME Init, \A H \in Histories : GoneForGood(H) PROVE Careful
<1>1. /\ todo \in Histories /\ owed = {} /\ deleteChan = <<>> /\ updateChan = <<>>
      /\ running = Empty /\ confRunning = Empty /\ confUpdate = Empty /\ confDelete = {}
      /\ exec = "adjust"
  BY DEF Init
<1>2. Removals
  <2>1. /\ hashMap = {} /\ \A h : Coming(h) <=> \E k \in DOMAIN todo : h \in todo[k].add
    BY <1>1 DEF Init, Coming
  <2>2. \A i, j \in DOMAIN todo : i # j => Parted(todo[i].del, todo[j].del)
    BY <1>1, <2>1 DEF GoneForGood, Parted
  <2> QED
    BY <1>1, <2>2 DEF Removals, Parted
<1>3. Single
  <2>1. \A c \in Category : DOMAIN Line(c) = {}
    BY <1>1 DEF Line, Empty
  <2> QED
    BY <2>1 DEF Single
<1>4. DoomedOnce /\ CutRight /\ Still
  BY <1>1 DEF DoomedOnce, CutRight, Still
<1>5. AllListed
  BY <1>1 DEF AllListed, RunsNow, Empty
<1> QED
  BY <1>2, <1>3, <1>4, <1>5 DEF Careful

LEMMA StepCareful == All /\ [Next]_vars => Careful'
<1> SUFFICES ASSUME All, [Next]_vars PROVE Careful'
  OBVIOUS
<1>1. TypeOK /\ Dead
  BY DEF All, IInv, Base
<1>2. Removals'
  BY <1>1, StepRemovals DEF All, Careful
<1>3. Single'
  BY <1>1, StepSingle DEF All, Careful
<1>4. DoomedOnce'
  BY StepDoomedOnce DEF All, Careful
<1>5. CutRight'
  BY StepCutRight DEF All, Careful
<1>6. AllListed'
  BY StepAllListed DEF All, Careful
<1>7. Still'
  BY <1>1, StepStill DEF All, Careful
<1> QED
  BY <1>2, <1>3, <1>4, <1>5, <1>6, <1>7 DEF Careful

(* Histories that bring one version of a plugin at a time and do not remove *)
(* twice what they bring.                                                  *)
Orderly(H) == (\A i \in DOMAIN H : OneFile(H[i].add)) /\ GoneForGood(H)

LEMMA SpecAll ==
  ASSUME \A H \in Histories : Orderly(H) PROVE Spec => []All
<1>1. Init => Base /\ Names
  BY InitBase DEF Orderly, Init, Names, OneFiles, OneFile, Cutting, Distinct, Empty
<1>2. Init => OnDisk
  BY DEF Init, OnDisk, RunningKept, RunsNow, UpdateKept, Brought, AtHand, Positions,
         Removing, Uncut, Empty
<1>3. Init => IInv /\ Careful
  BY InitIInv, InitCareful DEF Orderly
<1>4. Init => All
  BY <1>1, <1>2, <1>3 DEF All
<1>5. All /\ [Next]_vars => All'
  <2> SUFFICES ASSUME All, [Next]_vars PROVE All'
    OBVIOUS
  <2>1. IInv'
    BY StepType, StepHandshake DEF All, IInv
  <2>2. Base' /\ Names' /\ OnDisk'
    BY StepBase, StepNames, StepOnDisk DEF All
  <2> QED
    BY <2>1, <2>2, StepCareful DEF All
<1> QED
  BY <1>4, <1>5, PTL DEF Spec

LEMMA InitRefines == Init => Abs!Init
<1> SUFFICES ASSUME Init PROVE Abs!Init
  OBVIOUS
<1>1. /\ updateChan = <<>> /\ deleteChan = <<>> /\ running = Empty /\ confUpdate = Empty
      /\ confDelete = {} /\ exec = "adjust"
  BY DEF Init
<1>2. RunSet = {} /\ Upcoming = {}
  BY <1>1 DEF RunSet, Now, Upcoming, Elems, Empty
<1>3. Staged = {}
  BY <1>1, <1>2, StagedIs
<1>4. Leaving = {} /\ Active = {}
  BY <1>1, <1>2 DEF Leaving, Active
<1> QED
  BY <1>1, <1>3, <1>4 DEF Abs!Init

(* The plugins clients see change by whole published batches, and nothing   *)
(* stops running unless a newer plugin takes its name, its removal was      *)
(* ordered or the process dies (updatePlugins, ReplaceRunningPlugin,        *)
(* RemovePlugins).                                                         *)
THEOREM Implements ==
  ASSUME \A H \in Histories : Orderly(H)
  PROVE  Spec => ImplementsPluginSet
<1>1. Init => Abs!Init
  BY InitRefines
<1>2. All /\ [Next]_vars => [Abs!Next]_(Abs!pvars)
  BY StepRefines
<1> QED
  BY <1>1, <1>2, SpecAll, PTL DEF Spec, ImplementsPluginSet, Abs!Spec

-----------------------------------------------------------------------------
(* Death *)

(* The receiver loads every plugin of the batch. *)
LEMMA NothingFails ==
  ASSUME TypeOK, NEW c \in Category, RecvFail(c), \A h \in Plugin : Loads[h] PROVE FALSE
<1>1. /\ Len(update[c]) < Len(confUpdate[c]) /\ ~Loads[confUpdate[c][Len(update[c]) + 1]]
  BY DEF RecvFail, AtLoad, Next1
<1>2. update[c] \in Seq(Plugin) /\ confUpdate[c] \in Seq(Plugin)
  BY ListsType
<1>3. Len(update[c]) + 1 \in DOMAIN confUpdate[c]
  BY <1>1, <1>2
<1> QED
  BY <1>1, <1>2, <1>3, ElementOfSeq

LEMMA StepPool ==
  ASSUME TypeOK, ~pool, [Next]_vars, \A h \in Plugin : Loads[h] PROVE ~pool'
<1>1. CASE Quiet \/ Applies \/ Boot
  BY <1>1 DEF Quiet, Boot, Applies, ExecReady, ExecReplace, ExecInstall, ExecSwapConf, ExecRemove,
         ExecRemoved, ExecClearDelete, ExecReply, ExecCut, recvVars
<1>2. CASE Death
  BY <1>2 DEF Death, Down
<1>3. ASSUME NEW c \in Category, RecvFail(c) PROVE FALSE
  BY <1>3, NothingFails
<1>4. CASE Receives
  BY <1>3, <1>4 DEF Receives, RecvUpdate, RecvDelete, RecvStore, RecvUnlink, RecvLoad, RecvLoaded,
         RecvNotify, RecvFinish, recvVars
<1> QED
  BY <1>1, <1>2, <1>4, StepCases

LEMMA UpChanges == [Next]_vars /\ ~up' => ~up \/ crashes' = crashes + 1
                     \/ (\E c \in Category : RecvPanic(c)) \/ \E x \in cut : ExecPanic(x)
<1> SUFFICES ASSUME [Next]_vars, up, ~(\E c \in Category : RecvPanic(c)),
                    ~(\E x \in cut : ExecPanic(x)), ~Crash
             PROVE  up'
  BY DEF Crash
<1>1. CASE Boot \/ Agent \/ FirstCollect \/ ExecTick \/ ExecReady \/ UNCHANGED vars
  BY <1>1 DEF Boot, Agent, AgentSendUpdate, AgentSendDelete, FirstCollect, FirstBegin, FirstEnd,
         ExecTick, ExecReady, vars, procVars
<1>2. CASE Receiver
  BY <1>2 DEF Receiver, RecvUpdate, RecvDelete, RecvStore, RecvUnlink, RecvLoad, RecvFail,
         RecvLoaded, RecvNotify, RecvFinish, procVars
<1>3. CASE ExecGoOn
  BY <1>3 DEF ExecGoOn, ExecStart, ExecCollect, ExecCollected, ExecReplace, ExecInstall,
         ExecSwapConf, ExecRemove, ExecRemoved, ExecClearDelete, ExecReply, ExecCut, procVars
<1> QED
  BY <1>1, <1>2, <1>3 DEF Next

(* Where moreover every plugin loads, the process never dies of its own     *)
(* doing: no position to cut is out of range, and no closed Lua state comes *)
(* back out of the pool (RemovePlugins, removeUpdateCache).                 *)
THEOREM NeverPanics ==
  ASSUME \A H \in Histories : Orderly(H), \A h \in Plugin : Loads[h]
  PROVE  Spec => DiesFromOutside
<1>1. Init => ~pool
  BY DEF Init
<1>2. All /\ ~pool /\ [Next]_vars => ~pool'
  BY StepPool DEF All, IInv
<1>3. All /\ ~pool /\ [Next]_vars => [up /\ ~up' => crashes' = crashes + 1]_vars
  <2> SUFFICES ASSUME All, ~pool, [Next]_vars, up, ~up' PROVE crashes' = crashes + 1
    OBVIOUS
  <2>1. ASSUME NEW c \in Category PROVE ~RecvPanic(c)
    BY DEF RecvPanic
  <2>2. ASSUME NEW x \in cut PROVE ~ExecPanic(x)
    <3> SUFFICES ASSUME ExecPanic(x) PROVE FALSE
      OBVIOUS
    <3>1. x[1] \in Category /\ x[2] > Len(running[x[1]]) /\ running[x[1]] \in Seq(Plugin)
      BY CutType, ListsType DEF ExecPanic, All, IInv
    <3>2. x[2] \in DOMAIN running[x[1]]
      BY DEF ExecPanic, AtCut, All, Careful, CutRight
    <3> QED
      BY <3>1, <3>2
  <2> QED
    BY <2>1, <2>2, UpChanges
<1> QED
  BY <1>1, <1>2, <1>3, SpecAll, PTL DEF Spec, DiesFromOutside
=============================================================================
