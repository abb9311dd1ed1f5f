-------------------------- MODULE HotPlugListProofs --------------------------
(***************************************************************************)
(* Proofs about what HotPlug's lists of plugins hold and which files are   *)
(* on disk: no two instances of one plugin, and a file for every running   *)
(* plugin.  They rest on the types and the handshake of HotPlugProofs.     *)
(***************************************************************************)
EXTENDS HotPlugProofs

(* A batch brings one version of a plugin. *)
OneFile(S) == \A g, h \in S \cap Plugin : Path(g) = Path(h) => g = h

OneFiles ==
  /\ \A i \in DOMAIN todo : OneFile(todo[i].add)
  /\ OneFile(hashMap) /\ (updateChan # <<>> => OneFile(Head(updateChan)))

(* Nothing of a dead process is left. *)
Dead ==
  ~up => confUpdate = Empty /\ confDelete = {} /\ recv = "select" /\ exec = "adjust"

(* A file lies at the path of its marking line. *)
Stored == \A p \in Paths : disk[p] # None => Path(disk[p]) = p

(* The lists hold plugins of their category. *)
InCategory(f) == \A c \in Category : \A i \in DOMAIN f[c] : Cat[f[c][i]] = c
Sorted ==
  InCategory(confRunning) /\ InCategory(confUpdate) /\ InCategory(running) /\ InCategory(update)

(* Config.Update holds a plugin that does not load.  No batch after it     *)
(* loads until the process is started again.                               *)
Failing == \E c \in Category : \E i \in DOMAIN confUpdate[c] : ~Loads[confUpdate[c][i]]

InUpdate ==
  \/ recv \in {"store", "load", "sendUpdate"} \/ ready = <<0>>
  \/ exec \in {"lockReplace", "replace", "swapConf"}
Stuck == InUpdate \/ confUpdate = Empty \/ Failing

Loaded ==
  /\ recv = "load" =>
       \A c \in Category : \A i \in DOMAIN update[c] : Loads[update[c][i]]
  /\ (recv = "sendUpdate" \/ ready = <<0>> \/ exec \in {"lockReplace", "replace"})
       => ~Failing

Base == Dead /\ Stored /\ Sorted /\ Stuck /\ Loaded

Distinct(f) ==
  \A c \in Category : \A i, j \in DOMAIN f[c] : Name[f[c][i]] = Name[f[c][j]] => i = j

(* Whatever the batch replaces is still to be cut. *)
Cutting ==
  exec = "replace" =>
    \A c \in Category : \A i \in DOMAIN running[c], j \in DOMAIN update[c] :
      Name[running[c][i]] = Name[update[c][j]] => \E y \in cut : y[1] = c /\ y[2] = i

Names == OneFiles /\ (Failing \/ Distinct(confUpdate)) /\ Cutting /\ Distinct(running)

(* What runs, what the batch brought and what the configuration lists. *)
RunsNow(c, h)    == \E i \in DOMAIN running[c] : running[c][i] = h
Brought(c, h)    == \E i \in DOMAIN confUpdate[c] : confUpdate[c][i] = h
Configured(c, h) == \E i \in DOMAIN confRunning[c] : confRunning[c][i] = h
Listed(c, h)     == Configured(c, h) \/ Brought(c, h)

Kept(c, h) ==
  disk[Path(h)] = h \/ \E g \in Plugin : Listed(c, g) /\ g # h /\ Path(g) = Path(h)

RunningKept ==
  \A c \in Category : \A h \in Plugin : RunsNow(c, h) => Kept(c, h) \/ h \in Doomed

UpdateKept ==
  \/ Failing
  \/ \A c \in Category : \A h \in Plugin :
       Brought(c, h) => Kept(c, h) \/ (recv = "store" /\ h \in cache)

(* What the receiver has at hand is in the lists of the configuration. *)
AtHand ==
  /\ recv = "store" => \A h \in cache \cap Plugin : Brought(Cat[h], h)
  /\ recv = "unlink" => cache \subseteq Doomed

Positions == \A e \in confDelete : e[2] \in DOMAIN confRunning[e[1]]

Removing ==
  \/ recv \in {"unlink", "sendDelete"} \/ ready = <<1>>
  \/ exec \in {"lockRemove", "remove", "clearDelete"} \/ confDelete = {}

(* Whatever is removed is still to be cut. *)
Uncut ==
  /\ exec = "remove" => \A c \in Category : \A i \in DOMAIN running[c] :
       running[c][i] \in Doomed => \E y \in cut : y[1] = c /\ y[2] = i
  /\ exec = "clearDelete" => \A c \in Category : \A h \in Plugin :
       RunsNow(c, h) => h \notin Doomed

OnDisk == RunningKept /\ UpdateKept /\ AtHand /\ Positions /\ Removing /\ Uncut

-----------------------------------------------------------------------------
(* Lemmas on sequences *)

(* An element of a concatenation is one of either part. *)
LEMMA ConcatAt ==
  ASSUME NEW T, NEW s \in Seq(T), NEW t \in Seq(T), NEW i \in DOMAIN (s \o t)
  PROVE  \/ i \in DOMAIN s /\ (s \o t)[i] = s[i]
         \/ /\ i > Len(s) /\ i - Len(s) \in DOMAIN t
            /\ (s \o t)[i] = t[i - Len(s)]
  OBVIOUS

LEMMA ConcatLeft ==
  ASSUME NEW T, NEW s \in Seq(T), NEW t \in Seq(T), NEW i \in DOMAIN s
  PROVE  i \in DOMAIN (s \o t) /\ (s \o t)[i] = s[i]
  OBVIOUS

LEMMA ConcatRight ==
  ASSUME NEW T, NEW s \in Seq(T), NEW t \in Seq(T), NEW i \in DOMAIN t
  PROVE  Len(s) + i \in DOMAIN (s \o t) /\ (s \o t)[Len(s) + i] = t[i]
  OBVIOUS

(* The elements before a removed one stay, those after it move up. *)
LEMMA WithoutAt ==
  ASSUME NEW T, NEW s \in Seq(T), NEW i \in 1..Len(s), NEW k \in DOMAIN Without(s, i)
  PROVE  \/ k < i /\ k \in DOMAIN s /\ Without(s, i)[k] = s[k]
         \/ k >= i /\ k + 1 \in DOMAIN s /\ Without(s, i)[k] = s[k + 1]
<1> DEFINE l == SubSeq(s, 1, i - 1)
           r == SubSeq(s, i + 1, Len(s))
<1>1. l \in Seq(T) /\ Len(l) = i - 1 /\ \A j \in 1..(i - 1) : l[j] = s[j]
  OBVIOUS
<1>2. r \in Seq(T) /\ Len(r) = Len(s) - i /\ \A j \in 1..(Len(s) - i) : r[j] = s[i + j]
  OBVIOUS
<1>3. k \in DOMAIN (l \o r) /\ Without(s, i) = l \o r
  BY DEF Without
<1> HIDE DEF l, r
<1>4. CASE k \in DOMAIN l /\ (l \o r)[k] = l[k]
  BY <1>1, <1>3, <1>4
<1>5. CASE k > Len(l) /\ k - Len(l) \in DOMAIN r /\ (l \o r)[k] = r[k - Len(l)]
  <2>1. k \in Nat /\ k - Len(l) \in 1..(Len(s) - i)
    BY <1>1, <1>2, <1>3, <1>5
  <2>2. r[k - Len(l)] = s[k + 1] /\ k >= i /\ k + 1 \in DOMAIN s
    BY <1>1, <1>2, <2>1
  <2> QED
    BY <1>3, <1>5, <2>2
<1> QED
  BY <1>1, <1>2, <1>3, <1>4, <1>5, ConcatAt

LEMMA WithoutFrom ==
  ASSUME NEW T, NEW s \in Seq(T), NEW i \in 1..Len(s), NEW k \in DOMAIN Without(s, i)
  PROVE  \E j \in DOMAIN s : Without(s, i)[k] = s[j]
<1>1. CASE k < i /\ k \in DOMAIN s /\ Without(s, i)[k] = s[k]
  BY <1>1
<1>2. CASE k >= i /\ k + 1 \in DOMAIN s /\ Without(s, i)[k] = s[k + 1]
  BY <1>2
<1> QED
  BY <1>1, <1>2, WithoutAt

(* An arrangement has every element of its category exactly once. *)
LEMMA ArrangementsAll ==
  ASSUME NEW S \in SUBSET Plugin, NEW f \in Arrangements(S), NEW c \in Category
  PROVE  /\ f[c] \in Seq(Plugin)
         /\ \A i \in DOMAIN f[c] : f[c][i] \in S /\ Cat[f[c][i]] = c
         /\ \A i, j \in DOMAIN f[c] : f[c][i] = f[c][j] => i = j
         /\ \A h \in S : Cat[h] = c => \E i \in DOMAIN f[c] : f[c][i] = h
<1> DEFINE D == Of(S, c)
           n == Cardinality(D)
<1>1. IsFiniteSet(D)
  <2>1. D \subseteq Hash
    BY DEF Of, Plugin
  <2> QED
    BY <2>1, FS_Subset, ConstantsAssumption
<1>2. n \in Nat
  BY <1>1, FS_CardinalityType
<1>3. f[c] \in [1..n -> D] /\ \A i, j \in 1..n : f[c][i] = f[c][j] => i = j
  BY DEF Arrangements, Orders
<1>4. f[c] \in Injection(1..n, D)
  BY <1>3 DEF Injection, IsInjective
<1>5. Cardinality(1..n) = n
  BY <1>2, FS_Interval
<1>6. f[c] \in Surjection(1..n, D)
  BY <1>1, <1>4, <1>5, FS_Injection
<1>7. \A h \in D : \E i \in 1..n : f[c][i] = h
  BY <1>6 DEF Surjection
<1>8. f[c] \in Seq(Plugin)
  BY ArrangementsType
<1> HIDE DEF n
<1> QED
  BY <1>3, <1>7, <1>8 DEF Of

(* An empty batch leaves Config.Update as it is. *)
LEMMA NothingArranged ==
  ASSUME NEW f \in Arrangements({}), NEW g \in [Category -> Seq(Plugin)]
  PROVE  [c \in Category |-> g[c] \o f[c]] = g
<1> SUFFICES ASSUME NEW c \in Category PROVE g[c] \o f[c] = g[c]
  OBVIOUS
<1>1. f[c] \in Seq(Plugin) /\ \A i \in DOMAIN f[c] : FALSE
  BY ArrangementsAll
<1> DEFINE s == f[c]
<1> HIDE DEF s
<1>2. s = <<>>
  <2>1. s \in Seq(Plugin) /\ \A i \in DOMAIN s : FALSE
    BY <1>1 DEF s
  <2>2. Len(s) \in Nat /\ DOMAIN s = 1..Len(s)
    BY <2>1
  <2>3. Len(s) = 0
    <3>1. ~(Len(s) >= 1)
      <4> SUFFICES ASSUME Len(s) >= 1 PROVE 1 \in DOMAIN s
        BY <2>1
      <4> QED
        BY <2>2
    <3> QED
      BY <2>2, <3>1
  <2> QED
    BY <2>1, <2>3, EmptySeq
<1> QED
  BY <1>2, ConcatEmptySeq DEF s

(* The lists are sequences of plugins, the positions to cut are numbers. *)
LEMMA ListsType ==
  TypeOK => /\ confRunning \in [Category -> Seq(Plugin)]
            /\ confUpdate \in [Category -> Seq(Plugin)]
            /\ running \in [Category -> Seq(Plugin)]
            /\ update \in [Category -> Seq(Plugin)]
  BY DEF TypeOK, ConfTypeOK, ReceiverTypeOK, ExecutorTypeOK

LEMMA CutType ==
  TypeOK => \A x \in cut : x[1] \in Category /\ x[2] \in Nat \ {0} /\ x[3] \in Nat
  BY DEF TypeOK, ExecutorTypeOK

-----------------------------------------------------------------------------
(* The steps, as far as lists and files go *)

Quiet ==
  /\ UNCHANGED <<confVars, disk, recvVars, running, cut, ready, up>>
  /\ exec' = exec \/ (up /\ exec \notin Applying /\ exec' \notin Applying)

(* A death leaves the disk, or the file that was being written is empty. *)
Death ==
  /\ Down /\ todo' = todo
  /\ \/ disk' = disk
     \/ \E h \in Marked : disk' = [disk EXCEPT ![Path(h)] = None]

Receives ==
  \/ RecvUpdate \/ RecvDelete \/ RecvLoaded \/ RecvNotify \/ RecvFinish
  \/ \E h \in Hash : RecvStore(h) \/ RecvUnlink(h)
  \/ \E c \in Category : RecvLoad(c) \/ RecvFail(c)

Applies ==
  \/ ExecReady \/ ExecReplace \/ ExecInstall \/ ExecSwapConf
  \/ ExecRemove \/ ExecRemoved \/ ExecClearDelete \/ ExecReply
  \/ \E x \in cut : ExecCut(x)

LEMMA StepCases == TypeOK /\ [Next]_vars => Quiet \/ Boot \/ Death \/ Receives \/ Applies
<1> SUFFICES ASSUME TypeOK, [Next]_vars
             PROVE  Quiet \/ Boot \/ Death \/ Receives \/ Applies
  OBVIOUS
<1>1. CASE Agent
  BY <1>1 DEF Quiet, Agent, AgentSendUpdate, AgentSendDelete, execVars, procVars
<1>2. CASE FirstCollect
  BY <1>2 DEF Quiet, FirstCollect, FirstBegin, FirstEnd, procVars
<1>3. CASE ExecStart \/ ExecTick \/ ExecCollect \/ ExecCollected
  BY <1>3 DEF Quiet, ExecStart, ExecTick, ExecCollect, ExecCollected, Applying, procVars
<1>4. CASE UNCHANGED vars
  BY <1>4 DEF Quiet, vars, execVars, procVars
<1>5. CASE Crash
  <2>1. cache \subseteq Marked
    BY DEF TypeOK, ReceiverTypeOK
  <2> QED
    BY <1>5, <2>1 DEF Death, Crash
<1>6. ASSUME NEW c \in Category, RecvPanic(c) PROVE Death
  BY <1>6 DEF Death, RecvPanic
<1>7. ASSUME NEW x \in cut, ExecPanic(x) PROVE Death
  BY <1>7 DEF Death, ExecPanic
<1>8. CASE Receiver
  BY <1>6, <1>8 DEF Receiver, Receives
<1>9. CASE ExecGoOn
  BY <1>3, <1>7, <1>9 DEF ExecGoOn, Applies
<1> QED
  BY <1>1, <1>2, <1>3, <1>4, <1>5, <1>8, <1>9 DEF Next, Applies

LEMMA Alive == Receives \/ Applies => up /\ up'
<1> SUFFICES ASSUME Receives \/ Applies PROVE up /\ up'
  OBVIOUS
<1>1. CASE Receives
  <2>1. UNCHANGED up
    BY <1>1
    DEF Receives, RecvUpdate, RecvDelete, RecvLoaded, RecvNotify, RecvFinish, RecvStore,
        RecvUnlink, RecvLoad, RecvFail, procVars
  <2>2. up
    BY <1>1
    DEF Receives, RecvUpdate, RecvDelete, RecvLoaded, RecvNotify, RecvFinish, RecvStore,
        RecvUnlink, RecvLoad, RecvFail, AtLoad
  <2> QED
    BY <2>1, <2>2
<1>2. CASE Applies
  <2>1. UNCHANGED up
    BY <1>2
    DEF Applies, ExecReady, ExecReplace, ExecInstall, ExecSwapConf, ExecRemove,
        ExecRemoved, ExecClearDelete, ExecReply, ExecCut, procVars
  <2>2. up
    BY <1>2
    DEF Applies, ExecReady, ExecReplace, ExecInstall, ExecSwapConf, ExecRemove,
        ExecRemoved, ExecClearDelete, ExecReply, ExecCut, AtCut
  <2> QED
    BY <2>1, <2>2
<1> QED
  BY <1>1, <1>2

-----------------------------------------------------------------------------
(* Base *)

LEMMA StepDead == TypeOK /\ Dead /\ [Next]_vars => Dead'
<1> SUFFICES ASSUME TypeOK, Dead, [Next]_vars PROVE Dead'
  OBVIOUS
<1>1. CASE Quiet
  BY <1>1 DEF Dead, Quiet, confVars, recvVars
<1>2. CASE Boot
  BY <1>2 DEF Dead, Boot
<1>3. CASE Death
  BY <1>3 DEF Dead, Death, Down
<1>4. CASE Receives \/ Applies
  BY <1>4, Alive DEF Dead
<1> QED
  BY <1>1, <1>2, <1>3, <1>4, StepCases

LEMMA StepStored == TypeOK /\ Stored /\ [Next]_vars => Stored'
<1> SUFFICES ASSUME TypeOK, Stored, [Next]_vars PROVE Stored'
  OBVIOUS
<1>1. cache \subseteq Marked /\ disk \in [Paths -> Hash \cup {None}]
  BY DEF TypeOK, ReceiverTypeOK
<1>2. \A h \in Marked : Path(h) \in Paths
  BY DEF Paths
<1>3. CASE disk' = disk
  BY <1>3 DEF Stored
<1>4. ASSUME NEW h \in Marked, disk' = [disk EXCEPT ![Path(h)] = None] PROVE Stored'
  BY <1>1, <1>2, <1>4 DEF Stored
<1>5. ASSUME NEW h \in Marked, disk' = [disk EXCEPT ![Path(h)] = h] PROVE Stored'
  BY <1>1, <1>2, <1>5 DEF Stored
<1>6. CASE Quiet \/ Boot
  BY <1>3, <1>6 DEF Quiet, Boot
<1>7. CASE Death
  BY <1>3, <1>4, <1>7 DEF Death
<1>8. CASE Receives
  <2>1. ASSUME NEW h \in Hash, RecvStore(h) PROVE Stored'
    BY <1>1, <1>5, <2>1 DEF RecvStore
  <2>2. ASSUME NEW h \in Hash, RecvUnlink(h) PROVE Stored'
    BY <1>1, <1>4, <2>2 DEF RecvUnlink
  <2>3. ASSUME NEW c \in Category, RecvLoad(c) \/ RecvFail(c) PROVE Stored'
    BY <1>3, <2>3 DEF RecvLoad, RecvFail
  <2> QED
    BY <1>3, <1>8, <2>1, <2>2, <2>3
    DEF Receives, RecvUpdate, RecvDelete, RecvLoaded, RecvNotify, RecvFinish
<1>9. CASE Applies
  BY <1>3, <1>9
  DEF Applies, ExecReady, ExecReplace, ExecInstall, ExecSwapConf, ExecRemove,
      ExecRemoved, ExecClearDelete, ExecReply, ExecCut
<1> QED
  BY <1>6, <1>7, <1>8, <1>9, StepCases

LEMMA EmptyInCategory == InCategory(Empty)
  BY DEF InCategory, Empty

LEMMA AppendInCategory ==
  ASSUME NEW f \in [Category -> Seq(Plugin)], NEW g \in [Category -> Seq(Plugin)],
         InCategory(f), InCategory(g)
  PROVE  InCategory([c \in Category |-> f[c] \o g[c]])
<1> SUFFICES ASSUME NEW c \in Category, NEW i \in DOMAIN (f[c] \o g[c])
             PROVE  Cat[(f[c] \o g[c])[i]] = c
  BY DEF InCategory
<1>1. \/ i \in DOMAIN f[c] /\ (f[c] \o g[c])[i] = f[c][i]
      \/ i - Len(f[c]) \in DOMAIN g[c] /\ (f[c] \o g[c])[i] = g[c][i - Len(f[c])]
  BY ConcatAt
<1> QED
  BY <1>1 DEF InCategory

LEMMA StepSorted == TypeOK /\ Sorted /\ [Next]_vars => Sorted'
<1> SUFFICES ASSUME TypeOK, Sorted, [Next]_vars PROVE Sorted'
  OBVIOUS
<1> USE ListsType
<1>0. CASE UNCHANGED <<confRunning, confUpdate, running, update>>
  BY <1>0 DEF Sorted, InCategory
<1>1. ASSUME NEW S \in SUBSET Plugin, NEW f \in Arrangements(S) PROVE InCategory(f)
  BY ArrangementsAll, <1>1 DEF InCategory
<1>2. CASE Quiet
  BY <1>0, <1>2 DEF Quiet, confVars, recvVars
<1>3. CASE Boot
  <2>1. Files \cap Plugin \in SUBSET Plugin /\ running' \in Arrangements(Files \cap Plugin)
        /\ confRunning' = running'
    BY <1>3 DEF Boot
  <2>2. InCategory(running)'
    BY <1>1, <2>1
  <2> QED
    BY <1>3, <2>1, <2>2 DEF Sorted, InCategory, Boot, recvVars
<1>4. CASE Death
  BY <1>4, EmptyInCategory DEF Sorted, Death, Down, InCategory, Empty
<1>5. CASE RecvUpdate
  <2> DEFINE fresh == (Head(updateChan) \ runningHash) \cap Marked
  <2>1. PICK add \in Arrangements(fresh \cap Plugin) :
          confUpdate' = [c \in Category |-> confUpdate[c] \o add[c]]
    BY <1>5 DEF RecvUpdate
  <2>2. add \in [Category -> Seq(Plugin)] /\ InCategory(add)
    BY <1>1, ArrangementsType
  <2>3. InCategory(confUpdate)'
    BY <2>1, <2>2, AppendInCategory DEF Sorted
  <2> QED
    BY <1>5, <2>3 DEF Sorted, InCategory, RecvUpdate, execVars
<1>6. CASE RecvDelete \/ RecvLoaded \/ RecvNotify \/ RecvFinish
  BY <1>0, <1>6 DEF RecvDelete, RecvLoaded, RecvNotify, RecvFinish, confVars, execVars
<1>7. ASSUME NEW h \in Hash, RecvStore(h) \/ RecvUnlink(h) PROVE Sorted'
  BY <1>0, <1>7 DEF RecvStore, RecvUnlink, confVars, execVars
<1>8. ASSUME NEW c \in Category, RecvLoad(c) PROVE Sorted'
  <2>1. /\ Len(update[c]) + 1 \in DOMAIN confUpdate[c]
        /\ update' = [update EXCEPT ![c] = Append(@, confUpdate[c][Len(update[c]) + 1])]
    BY <1>8 DEF RecvLoad, AtLoad, Next1
  <2>2. Cat[confUpdate[c][Len(update[c]) + 1]] = c
    BY <2>1 DEF Sorted, InCategory
  <2>3. InCategory(update)'
    <3> SUFFICES ASSUME NEW d \in Category, NEW i \in DOMAIN update'[d]
                 PROVE  Cat[update'[d][i]] = d
      BY DEF InCategory
    <3>1. CASE d # c
      BY <2>1, <3>1 DEF Sorted, InCategory
    <3>2. CASE d = c
      BY <2>1, <2>2, <3>2 DEF Sorted, InCategory
    <3> QED
      BY <3>1, <3>2
  <2> QED
    BY <1>8, <2>3 DEF Sorted, InCategory, RecvLoad, confVars, execVars
<1>9. ASSUME NEW c \in Category, RecvFail(c) PROVE Sorted'
  BY <1>9, EmptyInCategory DEF Sorted, RecvFail, InCategory, Empty, confVars, execVars
<1>10. CASE ExecReady \/ ExecReplace \/ ExecRemove \/ ExecRemoved \/ ExecClearDelete \/ ExecReply
  BY <1>0, <1>10 DEF ExecReady, ExecReplace, ExecRemove, ExecRemoved, ExecClearDelete,
                     ExecReply, confVars, recvVars
<1>11. CASE ExecInstall
  <2>1. InCategory(running)'
    BY <1>11, AppendInCategory DEF Sorted, ExecInstall
  <2> QED
    BY <1>11, <2>1, EmptyInCategory DEF Sorted, ExecInstall, InCategory, Empty, confVars
<1>12. CASE ExecSwapConf
  <2>1. InCategory(confRunning)'
    BY <1>12, AppendInCategory DEF Sorted, ExecSwapConf
  <2> QED
    BY <1>12, <2>1, EmptyInCategory DEF Sorted, ExecSwapConf, InCategory, Empty, recvVars
<1>13. ASSUME NEW x \in cut, ExecCut(x) PROVE Sorted'
  <2>1. /\ x[1] \in Category /\ x[2] \in 1..Len(running[x[1]])
        /\ running' = [running EXCEPT ![x[1]] = Without(@, x[2])]
    BY <1>13, CutType DEF ExecCut
  <2>2. InCategory(running)'
    <3> SUFFICES ASSUME NEW d \in Category, NEW i \in DOMAIN running'[d]
                 PROVE  Cat[running'[d][i]] = d
      BY DEF InCategory
    <3>1. CASE d # x[1]
      BY <2>1, <3>1 DEF Sorted, InCategory
    <3>2. CASE d = x[1]
      <4>1. running'[d] = Without(running[d], x[2]) /\ running[d] \in Seq(Plugin)
        BY <2>1, <3>2
      <4>2. x[2] \in 1..Len(running[d]) /\ i \in DOMAIN Without(running[d], x[2])
        BY <2>1, <3>2, <4>1
      <4>3. \E k \in DOMAIN running[d] : Without(running[d], x[2])[i] = running[d][k]
        BY <4>1, <4>2, WithoutFrom
      <4> QED
        BY <4>1, <4>3 DEF Sorted, InCategory
    <3> QED
      BY <3>1, <3>2
  <2> QED
    BY <1>13, <2>2 DEF Sorted, InCategory, ExecCut, confVars, recvVars
<1> QED
  BY <1>2, <1>3, <1>4, <1>5, <1>6, <1>7, <1>8, <1>9, <1>10, <1>11, <1>12, <1>13, StepCases
  DEF Receives, Applies

LEMMA StepStuck ==
  TypeOK /\ Handshake /\ Stuck /\ Loaded /\ Dead /\ [Next]_vars => Stuck' /\ Loaded'
<1> SUFFICES ASSUME TypeOK, Handshake, Stuck, Loaded, Dead, [Next]_vars
             PROVE  Stuck' /\ Loaded'
  OBVIOUS
<1> USE ListsType DEF InUpdate, Stuck, Loaded
<1>0. /\ recv # "wait" => ready = <<>> /\ exec \notin Applying /\ finish = <<>>
      /\ finish # <<>> => ready = <<>> /\ exec \notin Applying
      /\ ready # <<>> => exec \notin Applying
  BY DEF Handshake, OneToken
<1>1. CASE Quiet
  <2>1. UNCHANGED <<confUpdate, recv, update, ready>>
    BY <1>1 DEF Quiet, confVars, recvVars
  <2>2. UNCHANGED Failing
    BY <2>1 DEF Failing
  <2> QED
    BY <1>1, <2>1, <2>2 DEF Quiet, Applying
<1>2. CASE Boot
  <2>1. UNCHANGED <<confUpdate, recv, update, ready, exec>>
    BY <1>2 DEF Boot, recvVars
  <2>2. UNCHANGED Failing
    BY <2>1 DEF Failing
  <2> QED
    BY <2>1, <2>2
<1>3. CASE Death
  BY <1>3 DEF Death, Down
<1>4. CASE RecvUpdate
  <2> DEFINE fresh == (Head(updateChan) \ runningHash) \cap Marked
  <2>1. PICK add \in Arrangements(fresh \cap Plugin) :
          confUpdate' = [c \in Category |-> confUpdate[c] \o add[c]]
    BY <1>4 DEF RecvUpdate
  <2>2. /\ recv = "select" /\ recv' = IF fresh = {} THEN "select" ELSE "store"
        /\ UNCHANGED <<ready, exec>>
    BY <1>4 DEF RecvUpdate, execVars
  <2>3. CASE fresh = {}
    <3>1. add \in Arrangements({})
      BY <2>3
    <3>2. confUpdate' = confUpdate
      BY <2>1, <3>1, NothingArranged
    <3>3. UNCHANGED Failing
      BY <3>2 DEF Failing
    <3> QED
      BY <1>0, <2>2, <2>3, <3>2, <3>3 DEF Applying
  <2> QED
    BY <1>0, <2>2, <2>3 DEF Applying
<1>5. CASE RecvDelete \/ RecvNotify \/ RecvFinish
  <2>1. UNCHANGED <<confUpdate, update, exec>>
    BY <1>5 DEF RecvDelete, RecvNotify, RecvFinish, confVars, execVars
  <2>2. UNCHANGED Failing
    BY <2>1 DEF Failing
  <2>3. recv' \in {"unlink", "sendDelete", "select"} \/ recv' = "wait"
    BY <1>5 DEF RecvDelete, RecvNotify, RecvFinish
  <2>4. CASE RecvNotify
    <3>1. \/ recv = "sendUpdate" /\ ready' = <<0>>
          \/ recv = "sendDelete" /\ ready' = <<1>>
      BY <2>4 DEF RecvNotify
    <3>2. <<0>> # <<1>>
      OBVIOUS
    <3> QED
      BY <1>0, <2>1, <2>2, <2>4, <3>1, <3>2 DEF RecvNotify, Applying
  <2> QED
    BY <1>0, <1>5, <2>1, <2>2, <2>3, <2>4 DEF RecvDelete, RecvFinish, Applying, execVars
<1>6. CASE RecvLoaded
  <2>1. \A c \in Category : Len(update[c]) = Len(confUpdate[c])
    BY <1>6 DEF RecvLoaded
  <2>2. \A c \in Category : \A i \in DOMAIN confUpdate[c] : Loads[confUpdate[c][i]]
    <3>1. recv = "load"
      BY <1>6 DEF RecvLoaded
    <3> TAKE c \in Category
    <3>2. /\ Len(update[c]) = Len(confUpdate[c])
          /\ \A i \in 1..Len(update[c]) : update[c][i] = confUpdate[c][i]
      BY <2>1, <3>1 DEF Handshake, Prefix
    <3>3. \A i \in 1..Len(update[c]) : Loads[update[c][i]]
      BY <3>1
    <3>4. DOMAIN confUpdate[c] = 1..Len(update[c])
      BY <3>2
    <3> QED
      BY <3>2, <3>3, <3>4
  <2>3. UNCHANGED <<confUpdate, ready, exec>> /\ recv' = "sendUpdate"
    BY <1>6 DEF RecvLoaded, confVars, execVars
  <2>4. ~Failing'
    BY <2>2, <2>3 DEF Failing
  <2> QED
    BY <2>3, <2>4
<1>7. ASSUME NEW h \in Hash, RecvStore(h) PROVE Stuck' /\ Loaded'
  <2>1. /\ recv = "store" /\ recv' \in {"load", "store"}
        /\ UNCHANGED <<update, ready, exec>>
    BY <1>7 DEF RecvStore, execVars
  <2>2. update = Empty
    BY <2>1 DEF Handshake, WholeBatch
  <2> QED
    BY <1>0, <2>1, <2>2 DEF Applying, Empty
<1>8. ASSUME NEW h \in Hash, RecvUnlink(h) PROVE Stuck' /\ Loaded'
  <2>1. /\ recv = "unlink" /\ recv' \in {"unlink", "sendDelete"}
        /\ UNCHANGED <<confUpdate, ready, exec>>
    BY <1>8 DEF RecvUnlink, confVars, execVars
  <2>2. UNCHANGED Failing
    BY <2>1 DEF Failing
  <2> QED
    BY <1>0, <2>1, <2>2 DEF Applying
<1>9. ASSUME NEW c \in Category, RecvLoad(c) PROVE Stuck' /\ Loaded'
  <2>1. /\ recv = "load" /\ Loads[Next1(c)] /\ UNCHANGED <<recv, ready, exec>>
        /\ update' = [update EXCEPT ![c] = Append(@, Next1(c))]
    BY <1>9 DEF RecvLoad, AtLoad, execVars
  <2>2. \A d \in Category : \A i \in DOMAIN update'[d] : Loads[update'[d][i]]
    <3> SUFFICES ASSUME NEW d \in Category, NEW i \in DOMAIN update'[d]
                 PROVE  Loads[update'[d][i]]
      OBVIOUS
    <3>1. CASE d # c
      BY <2>1, <3>1
    <3>2. CASE d = c
      BY <2>1, <3>2
    <3> QED
      BY <3>1, <3>2
  <2> QED
    BY <1>0, <2>1, <2>2 DEF Applying
<1>10. ASSUME NEW c \in Category, RecvFail(c) PROVE Stuck' /\ Loaded'
  <2>1. /\ recv = "load" /\ ~Loads[Next1(c)] /\ Len(update[c]) < Len(confUpdate[c])
        /\ recv' = "select" /\ UNCHANGED <<confUpdate, ready, exec>>
    BY <1>10 DEF RecvFail, AtLoad, confVars, execVars
  <2>2. Len(update[c]) + 1 \in DOMAIN confUpdate[c]
    BY <2>1
  <2>3. Failing'
    BY <2>1, <2>2 DEF Failing, Next1
  <2>4. ready' = <<>> /\ exec' \notin Applying /\ recv' = "select"
    BY <1>0, <2>1
  <2>5. Loaded'
    BY <2>4 DEF Applying
  <2> QED
    BY <2>3, <2>5
<1>11. CASE ExecReady
  <2>1. UNCHANGED <<confUpdate, recv, update>>
    BY <1>11 DEF ExecReady, confVars, recvVars
  <2>2. UNCHANGED Failing
    BY <2>1 DEF Failing
  <2>3. /\ ready \in {<<0>>, <<1>>} /\ ready' = <<>>
        /\ exec' = IF ready = <<0>> THEN "lockReplace" ELSE "lockRemove"
    BY <1>11 DEF ExecReady, TypeOK, ExecutorTypeOK, OneSlot
  <2>4. exec \notin Applying /\ ready # <<>> /\ <<0>> # <<1>>
    <3>1. ready # <<>>
      BY <1>11 DEF ExecReady
    <3>2. <<0>> # <<1>>
      OBVIOUS
    <3> QED
      BY <1>0, <3>1, <3>2
  <2>5. CASE ready = <<0>>
    <3>1. exec' = "lockReplace" /\ ~Failing'
      BY <2>2, <2>3, <2>5
    <3> QED
      BY <2>1, <3>1
  <2>6. CASE ready = <<1>>
    <3>1. exec' = "lockRemove" /\ ready' = <<>> /\ ready # <<0>>
      BY <2>3, <2>4, <2>6
    <3> QED
      BY <2>1, <2>2, <2>4, <3>1 DEF Applying
  <2> QED
    BY <2>3, <2>5, <2>6
<1>12. CASE ExecReplace \/ ExecRemove \/ ExecRemoved \/ ExecClearDelete \/ ExecReply
            \/ \E x \in cut : ExecCut(x)
  <2>1. UNCHANGED <<confUpdate, recv, update, ready>>
    BY <1>12 DEF ExecReplace, ExecRemove, ExecRemoved, ExecClearDelete, ExecReply, ExecCut,
                 confVars, recvVars
  <2>2. UNCHANGED Failing
    BY <2>1 DEF Failing
  <2>3. exec' = exec \/ (exec = "lockReplace" /\ exec' = "replace")
          \/ {exec, exec'} \cap {"lockReplace", "replace", "swapConf"} = {}
    BY <1>12 DEF ExecReplace, ExecRemove, ExecRemoved, ExecClearDelete, ExecReply, ExecCut
  <2> QED
    BY <2>1, <2>2, <2>3
<1>13. CASE ExecInstall
  <2>1. exec' = "swapConf" /\ exec = "replace" /\ UNCHANGED <<confUpdate, recv, ready>>
    BY <1>13 DEF ExecInstall, confVars
  <2>2. recv = "wait" /\ ready = <<>>
    BY <1>0, <2>1 DEF Applying, Handshake, OneToken
  <2> QED
    BY <2>1, <2>2
<1>14. CASE ExecSwapConf
  <2>1. confUpdate' = Empty /\ exec = "swapConf" /\ exec' = "reply" /\ UNCHANGED <<recv, ready>>
    BY <1>14 DEF ExecSwapConf, recvVars
  <2>2. recv = "wait" /\ ready = <<>>
    BY <1>0, <2>1 DEF Applying, Handshake, OneToken
  <2> QED
    BY <2>1, <2>2
<1> QED
  BY <1>1, <1>2, <1>3, <1>4, <1>5, <1>6, <1>7, <1>8, <1>9, <1>10, <1>11, <1>12, <1>13,
     <1>14, StepCases
  DEF Receives, Applies

LEMMA StepBase == IInv /\ Base /\ [Next]_vars => Base'
  BY StepDead, StepStored, StepSorted, StepStuck DEF IInv, Base

LEMMA InitBase == Init => Base
<1> SUFFICES ASSUME Init PROVE Base
  OBVIOUS
<1>1. Dead /\ Stuck /\ Loaded
  BY DEF Init, Dead, Stuck, Loaded
<1>2. Stored
  BY DEF Init, Stored
<1>3. Sorted
  BY EmptyInCategory DEF Init, Sorted
<1> QED
  BY <1>1, <1>2, <1>3 DEF Base

-----------------------------------------------------------------------------
(* No two instances of one plugin *)

LEMMA StepOneFiles == TypeOK /\ OneFiles /\ [Next]_vars => OneFiles'
<1> SUFFICES ASSUME TypeOK, OneFiles, [Next]_vars PROVE OneFiles'
  OBVIOUS
<1>1. todo \in Seq(Batch)
  BY DEF TypeOK, AgentTypeOK
<1>2. CASE AgentSendUpdate
  <2>1. /\ todo # <<>> /\ todo' = Tail(todo) /\ updateChan' = <<hashMap'>>
        /\ hashMap' = hashMap \/ hashMap' = Head(todo).add
    BY <1>2 DEF AgentSendUpdate
  <2>2. \A i \in DOMAIN Tail(todo) : i + 1 \in DOMAIN todo /\ Tail(todo)[i] = todo[i + 1]
    BY <1>1, <2>1
  <2>3. 1 \in DOMAIN todo /\ Head(todo) = todo[1]
    BY <1>1, <2>1
  <2>4. OneFile(hashMap')
    BY <2>1, <2>3 DEF OneFiles
  <2>5. \A i \in DOMAIN todo' : OneFile(todo'[i].add)
    BY <2>1, <2>2 DEF OneFiles
  <2>6. OneFile(Head(updateChan'))
    BY <2>1, <2>4
  <2> QED
    BY <2>4, <2>5, <2>6 DEF OneFiles, OneFile
<1>3. CASE todo' = todo /\ hashMap' \in {hashMap, {}} /\ updateChan' \in {updateChan, <<>>}
  BY <1>3 DEF OneFiles, OneFile
<1>4. CASE AgentSendDelete \/ FirstCollect \/ Boot \/ UNCHANGED vars
  BY <1>3, <1>4 DEF AgentSendDelete, FirstCollect, FirstBegin, FirstEnd, Boot, vars, agentVars
<1>5. CASE Crash
  BY <1>3, <1>5 DEF Crash, Down
<1>6. ASSUME NEW h \in Hash, RecvStore(h) \/ RecvUnlink(h) PROVE OneFiles'
  BY <1>3, <1>6 DEF RecvStore, RecvUnlink, agentVars
<1>7. ASSUME NEW c \in Category, RecvLoad(c) \/ RecvFail(c) \/ RecvPanic(c) PROVE OneFiles'
  BY <1>3, <1>7 DEF RecvLoad, RecvFail, RecvPanic, Down, agentVars
<1>8. ASSUME NEW x \in cut, ExecCut(x) \/ ExecPanic(x) PROVE OneFiles'
  BY <1>3, <1>8 DEF ExecCut, ExecPanic, Down, agentVars
<1>9. CASE RecvUpdate \/ RecvDelete \/ RecvLoaded \/ RecvNotify \/ RecvFinish
  BY <1>3, <1>9 DEF RecvUpdate, RecvDelete, RecvLoaded, RecvNotify, RecvFinish, agentVars
<1>10. CASE ExecTick \/ ExecReady \/ ExecStart \/ ExecCollect \/ ExecCollected \/ ExecReplace
            \/ ExecInstall \/ ExecSwapConf \/ ExecRemove \/ ExecRemoved \/ ExecClearDelete
            \/ ExecReply
  BY <1>3, <1>10
  DEF ExecTick, ExecReady, ExecStart, ExecCollect, ExecCollected, ExecReplace, ExecInstall,
      ExecSwapConf, ExecRemove, ExecRemoved, ExecClearDelete, ExecReply, agentVars
<1> QED
  BY <1>2, <1>4, <1>5, <1>6, <1>7, <1>8, <1>9, <1>10 DEF Next, Agent, Receiver, ExecGoOn

(* One version of each plugin, arranged, is one of each name. *)
LEMMA ArrangedDistinct ==
  ASSUME NEW S \in SUBSET Plugin, OneFile(S), NEW f \in Arrangements(S)
  PROVE  Distinct(f)
<1> SUFFICES ASSUME NEW c \in Category, NEW i \in DOMAIN f[c], NEW j \in DOMAIN f[c],
                    Name[f[c][i]] = Name[f[c][j]]
             PROVE  i = j
  BY DEF Distinct
<1>1. /\ f[c][i] \in S /\ Cat[f[c][i]] = c
      /\ f[c][j] \in S /\ Cat[f[c][j]] = c
      /\ f[c][i] = f[c][j] => i = j
  BY ArrangementsAll
<1>2. Path(f[c][i]) = Path(f[c][j])
  BY <1>1 DEF Path
<1> QED
  BY <1>1, <1>2 DEF OneFile

(* What a step makes of Config.Update. *)
LEMMA UpdateSteps ==
  TypeOK /\ [Next]_vars => confUpdate' = confUpdate \/ confUpdate' = Empty \/ RecvUpdate
<1> SUFFICES ASSUME TypeOK, [Next]_vars
             PROVE  confUpdate' = confUpdate \/ confUpdate' = Empty \/ RecvUpdate
  OBVIOUS
<1>1. CASE Quiet \/ Boot \/ Death
  BY <1>1 DEF Quiet, Boot, Death, Down, confVars
<1>2. CASE Receives
  BY <1>2 DEF Receives, RecvDelete, RecvLoaded, RecvNotify, RecvFinish, RecvStore,
              RecvUnlink, RecvLoad, RecvFail, confVars
<1>3. CASE Applies
  BY <1>3 DEF Applies, ExecReady, ExecReplace, ExecInstall, ExecSwapConf, ExecRemove,
              ExecRemoved, ExecClearDelete, ExecReply, ExecCut, confVars
<1> QED
  BY <1>1, <1>2, <1>3, StepCases

(* What it appends to a batch that fails, fails. *)
LEMMA StaysFailing ==
  ASSUME TypeOK, Failing, RecvUpdate PROVE Failing'
<1> USE ListsType
<1> DEFINE fresh == (Head(updateChan) \ runningHash) \cap Marked
<1>1. PICK add \in Arrangements(fresh \cap Plugin) :
        confUpdate' = [c \in Category |-> confUpdate[c] \o add[c]]
  BY DEF RecvUpdate
<1>2. PICK c \in Category : \E i \in DOMAIN confUpdate[c] : ~Loads[confUpdate[c][i]]
  BY DEF Failing
<1>6. PICK i \in DOMAIN confUpdate[c] : ~Loads[confUpdate[c][i]]
  BY <1>2
<1>3. confUpdate[c] \in Seq(Plugin) /\ add[c] \in Seq(Plugin)
  <2>1. add \in [Category -> Seq(Plugin)]
    BY ArrangementsType
  <2> QED
    BY <2>1
<1>4. i \in DOMAIN (confUpdate[c] \o add[c]) /\ (confUpdate[c] \o add[c])[i] = confUpdate[c][i]
  BY <1>3, ConcatLeft
<1>5. confUpdate'[c] = confUpdate[c] \o add[c]
  BY <1>1
<1> HIDE DEF fresh
<1> QED
  BY <1>4, <1>5, <1>6 DEF Failing

(* While no batch is at work, and none fails, Config.Update holds just     *)
(* what the next batch brings.                                             *)
LEMMA FreshUpdate ==
  ASSUME TypeOK, Handshake, Stuck, ~Failing, RecvUpdate
  PROVE  confUpdate' \in Arrangements((Head(updateChan) \ runningHash) \cap Plugin)
<1> DEFINE fresh == (Head(updateChan) \ runningHash) \cap Marked
<1>1. PICK add \in Arrangements(fresh \cap Plugin) :
        confUpdate' = [c \in Category |-> confUpdate[c] \o add[c]]
  BY DEF RecvUpdate
<1>2. recv = "select" /\ ready = <<>> /\ exec \notin Applying
  BY DEF RecvUpdate, Handshake, OneToken
<1>3. confUpdate = Empty
  BY <1>2 DEF Stuck, InUpdate, Applying
<1>4. fresh \cap Plugin = (Head(updateChan) \ runningHash) \cap Plugin
  BY DEF Plugin, Marked
<1>5. add \in [Category -> Seq(Plugin)]
  BY ArrangementsType
<1>6. confUpdate' = add
  <2>1. confUpdate' = [c \in Category |-> <<>> \o add[c]]
    BY <1>1, <1>3 DEF Empty
  <2>2. \A c \in Category : <<>> \o add[c] = add[c]
    BY <1>5, ConcatEmptySeq
  <2> QED
    BY <1>5, <2>1, <2>2
<1> QED
  BY <1>1, <1>4, <1>6

LEMMA StepUpdateDistinct ==
  TypeOK /\ Handshake /\ Stuck /\ OneFiles /\ (Failing \/ Distinct(confUpdate)) /\ [Next]_vars
    => (Failing \/ Distinct(confUpdate))'
<1> SUFFICES ASSUME TypeOK, Handshake, Stuck, OneFiles, Failing \/ Distinct(confUpdate),
                    [Next]_vars
             PROVE  (Failing \/ Distinct(confUpdate))'
  OBVIOUS
<1>1. CASE confUpdate' = confUpdate
  BY <1>1 DEF Failing, Distinct
<1>2. CASE confUpdate' = Empty
  BY <1>2 DEF Distinct, Empty
<1>3. CASE RecvUpdate /\ Failing
  BY <1>3, StaysFailing
<1>4. CASE RecvUpdate /\ ~Failing
  <2> DEFINE S == (Head(updateChan) \ runningHash) \cap Plugin
  <2>1. confUpdate' \in Arrangements(S)
    BY <1>4, FreshUpdate
  <2>2. OneFile(S)
    BY <1>4 DEF OneFiles, OneFile, RecvUpdate
  <2>3. S \in SUBSET Plugin
    OBVIOUS
  <2> HIDE DEF S
  <2>4. ASSUME NEW f \in Arrangements(S) PROVE Distinct(f)
    BY <2>2, <2>3, ArrangedDistinct
  <2> QED
    BY <2>1, <2>4 DEF Distinct
<1> QED
  BY <1>1, <1>2, <1>3, <1>4, UpdateSteps

LEMMA StepCutting ==
  IInv /\ Dead /\ Cutting /\ [Next]_vars => Cutting'
<1> SUFFICES ASSUME IInv, Dead, Cutting, [Next]_vars PROVE Cutting'
  OBVIOUS
<1>0. TypeOK /\ (exec = "replace" => recv = "wait")
  BY DEF IInv, Handshake, OneToken, Applying
<1>1. CASE UNCHANGED <<running, update, cut>> /\ (exec' = exec \/ exec' # "replace")
  BY <1>1 DEF Cutting
<1>2. CASE Quiet \/ Boot \/ Death
  BY <1>1, <1>2 DEF Quiet, Applying, Boot, Dead, Death, Down, Cutting, recvVars
<1>3. CASE Receives
  <2>1. recv = "load" \/ update' = update
    BY <1>3 DEF Receives, RecvUpdate, RecvDelete, RecvLoaded, RecvNotify, RecvFinish,
                RecvStore, RecvUnlink, RecvLoad, RecvFail, AtLoad
  <2>2. UNCHANGED execVars
    BY <1>3 DEF Receives, RecvUpdate, RecvDelete, RecvLoaded, RecvNotify, RecvFinish,
                RecvStore, RecvUnlink, RecvLoad, RecvFail
  <2> QED
    BY <1>0, <1>1, <2>1, <2>2 DEF execVars, Cutting
<1>4. CASE ExecReady \/ ExecInstall \/ ExecSwapConf \/ ExecRemove \/ ExecRemoved
           \/ ExecClearDelete \/ ExecReply
  BY <1>4 DEF ExecReady, ExecInstall, ExecSwapConf, ExecRemove, ExecRemoved,
              ExecClearDelete, ExecReply, Cutting
<1>5. CASE ExecReplace
  <2>1. cut' = ReplaceIndex /\ UNCHANGED <<running, update>>
    BY <1>5 DEF ExecReplace, recvVars
  <2>2. ASSUME NEW c \in Category, NEW i \in DOMAIN running[c], NEW j \in DOMAIN update[c],
               Name[running[c][i]] = Name[update[c][j]]
        PROVE  \E y \in ReplaceIndex : y[1] = c /\ y[2] = i
    <3>1. <<c, i, j>> \in ReplaceIndex
      BY <2>2 DEF ReplaceIndex
    <3> QED
      BY <3>1
  <2> QED
    BY <2>1, <2>2 DEF Cutting
<1>6. ASSUME NEW x \in cut, ExecCut(x) PROVE Cutting'
  <2>1. /\ x[1] \in Category /\ x[2] \in 1..Len(running[x[1]])
        /\ running' = [running EXCEPT ![x[1]] = Without(@, x[2])]
        /\ cut' = cut \ {x} /\ UNCHANGED <<update, exec>>
        /\ \A y \in cut : y[1] = x[1] => y[2] <= x[2]
    BY <1>0, <1>6, CutType DEF ExecCut, AtCut, recvVars
  <2> SUFFICES ASSUME exec = "replace", NEW c \in Category, NEW i \in DOMAIN running'[c],
                      NEW j \in DOMAIN update[c],
                      Name[running'[c][i]] = Name[update[c][j]]
               PROVE  \E y \in cut \ {x} : y[1] = c /\ y[2] = i
    BY <2>1 DEF Cutting
  <2>2. ASSUME NEW k \in DOMAIN running[c], Name[running[c][k]] = Name[update[c][j]]
        PROVE  \E y \in cut : y[1] = c /\ y[2] = k
    BY <2>2 DEF Cutting
  <2>3. CASE c # x[1]
    <3>1. running'[c] = running[c]
      BY <1>0, <2>1, <2>3, ListsType
    <3> QED
      BY <2>2, <2>3, <3>1
  <2>4. CASE c = x[1]
    <3>1. running'[c] = Without(running[c], x[2]) /\ running[c] \in Seq(Plugin)
      BY <1>0, <2>1, <2>4, ListsType
    <3>2. x[2] \in 1..Len(running[c]) /\ i \in DOMAIN Without(running[c], x[2])
      BY <2>1, <2>4, <3>1
    <3>5. i \in Nat /\ x[2] \in Nat
      BY <3>1, <3>2, WithoutType
    <3>3. CASE i < x[2] /\ i \in DOMAIN running[c] /\ running'[c][i] = running[c][i]
      <4>1. PICK y \in cut : y[1] = c /\ y[2] = i
        BY <2>2, <3>3
      <4>2. x[2] # i
        BY <3>3, <3>5
      <4> QED
        BY <4>1, <4>2
    <3>4. CASE i >= x[2] /\ i + 1 \in DOMAIN running[c] /\ running'[c][i] = running[c][i + 1]
      <4>1. PICK y \in cut : y[1] = c /\ y[2] = i + 1
        BY <2>2, <3>4
      <4>3. i + 1 <= x[2]
        BY <2>1, <2>4, <4>1
      <4> QED
        BY <3>4, <3>5, <4>3
    <3> QED
      BY <3>1, <3>2, <3>3, <3>4, WithoutAt
  <2> QED
    BY <2>3, <2>4
<1> QED
  BY <1>0, <1>2, <1>3, <1>4, <1>5, <1>6, StepCases DEF Applies

(* Nothing comes together when an element goes. *)
LEMMA CutDistinct ==
  ASSUME NEW s \in Seq(Plugin), NEW n \in 1..Len(s),
         \A i, j \in DOMAIN s : Name[s[i]] = Name[s[j]] => i = j,
         NEW i \in DOMAIN Without(s, n), NEW j \in DOMAIN Without(s, n),
         Name[Without(s, n)[i]] = Name[Without(s, n)[j]]
  PROVE  i = j
<1> DEFINE at(k) == IF k < n THEN k ELSE k + 1
<1>1. ASSUME NEW k \in DOMAIN Without(s, n)
      PROVE  k \in Nat /\ at(k) \in DOMAIN s /\ Without(s, n)[k] = s[at(k)]
  <2>1. \/ k < n /\ k \in DOMAIN s /\ Without(s, n)[k] = s[k]
        \/ k >= n /\ k + 1 \in DOMAIN s /\ Without(s, n)[k] = s[k + 1]
    BY WithoutAt
  <2>2. k \in Nat
    BY WithoutType
  <2> QED
    BY <2>1, <2>2
<1>2. i \in Nat /\ j \in Nat
  BY <1>1
<1>3. at(i) \in DOMAIN s /\ at(j) \in DOMAIN s /\ Name[s[at(i)]] = Name[s[at(j)]]
  BY <1>1
<1>4. at(i) = at(j)
  BY <1>3
<1> QED
  BY <1>2, <1>4

LEMMA StepRunningDistinct ==
  IInv /\ Base /\ Names /\ [Next]_vars => Distinct(running)'
<1> SUFFICES ASSUME IInv, Base, Names, [Next]_vars PROVE Distinct(running)'
  OBVIOUS
<1>0. TypeOK /\ running \in [Category -> Seq(Plugin)] /\ update \in [Category -> Seq(Plugin)]
  BY ListsType DEF IInv
<1>1. CASE running' = running
  BY <1>1 DEF Names, Distinct
<1>2. CASE Boot
  <2> DEFINE S == Files \cap Plugin
  <2>1. running' \in Arrangements(S)
    BY <1>2 DEF Boot
  <2>2. OneFile(S)
    BY DEF OneFile, Files, Base, Stored
  <2>3. S \in SUBSET Plugin
    OBVIOUS
  <2> HIDE DEF S
  <2>4. ASSUME NEW f \in Arrangements(S) PROVE Distinct(f)
    BY <2>2, <2>3, ArrangedDistinct
  <2> QED
    BY <2>1, <2>4 DEF Distinct
<1>3. CASE Quiet \/ Death
  BY <1>1, <1>3 DEF Quiet, Death, Down, Empty, Distinct
<1>4. CASE Receives
  BY <1>1, <1>4 DEF Receives, RecvUpdate, RecvDelete, RecvLoaded, RecvNotify, RecvFinish,
                    RecvStore, RecvUnlink, RecvLoad, RecvFail, execVars
<1>5. CASE ExecReady \/ ExecReplace \/ ExecSwapConf \/ ExecRemove \/ ExecRemoved
           \/ ExecClearDelete \/ ExecReply
  BY <1>1, <1>5 DEF ExecReady, ExecReplace, ExecSwapConf, ExecRemove, ExecRemoved,
                    ExecClearDelete, ExecReply
<1>6. ASSUME NEW x \in cut, ExecCut(x) PROVE Distinct(running)'
  <2>1. /\ x[1] \in Category /\ x[2] \in 1..Len(running[x[1]])
        /\ running' = [running EXCEPT ![x[1]] = Without(@, x[2])]
    BY <1>0, <1>6, CutType DEF ExecCut
  <2> SUFFICES ASSUME NEW c \in Category,
                      NEW i \in DOMAIN running'[c], NEW j \in DOMAIN running'[c],
                      Name[running'[c][i]] = Name[running'[c][j]]
               PROVE  i = j
    BY DEF Distinct
  <2>2. \A k, l \in DOMAIN running[c] : Name[running[c][k]] = Name[running[c][l]] => k = l
    BY DEF Names, Distinct
  <2>3. CASE c # x[1]
    BY <1>0, <2>1, <2>2, <2>3
  <2>4. CASE c = x[1]
    <3>1. running'[c] = Without(running[c], x[2]) /\ running[c] \in Seq(Plugin)
      BY <1>0, <2>1, <2>4
    <3> QED
      BY <2>1, <2>2, <2>4, <3>1, CutDistinct
  <2> QED
    BY <2>3, <2>4
<1>7. CASE ExecInstall
  <2>1. /\ exec = "replace" /\ cut = {}
        /\ running' = [c \in Category |-> running[c] \o update[c]]
    BY <1>7 DEF ExecInstall
  <2>2. Distinct(update)
    BY <2>1 DEF IInv, Handshake, WholeBatch, Base, Loaded, Names
  <2> SUFFICES ASSUME NEW c \in Category,
                      NEW i \in DOMAIN running'[c], NEW j \in DOMAIN running'[c],
                      Name[running'[c][i]] = Name[running'[c][j]]
               PROVE  i = j
    BY DEF Distinct
  <2> DEFINE s == running[c]
             t == update[c]
  <2>3. s \in Seq(Plugin) /\ t \in Seq(Plugin) /\ Len(s) \in Nat
    BY <1>0
  <2>4. \A k, l \in DOMAIN s : Name[s[k]] = Name[s[l]] => k = l
    BY DEF Names, Distinct
  <2>5. \A k, l \in DOMAIN t : Name[t[k]] = Name[t[l]] => k = l
    BY <2>2 DEF Distinct
  <2>6. \A k \in DOMAIN s, l \in DOMAIN t : Name[s[k]] # Name[t[l]]
    BY <2>1 DEF Names, Cutting
  <2>7. i \in DOMAIN (s \o t) /\ j \in DOMAIN (s \o t) /\ Name[(s \o t)[i]] = Name[(s \o t)[j]]
    BY <2>1
  <2> HIDE DEF s, t
  <2>8. ASSUME NEW k \in DOMAIN (s \o t)
        PROVE  \/ k \in DOMAIN s /\ (s \o t)[k] = s[k]
               \/ k - Len(s) \in DOMAIN t /\ (s \o t)[k] = t[k - Len(s)]
    BY <2>3, ConcatAt
  <2>9. i \in Nat /\ j \in Nat
    BY <2>3, <2>7
  <2>10. CASE i \in DOMAIN s /\ (s \o t)[i] = s[i]
    BY <2>4, <2>6, <2>7, <2>8, <2>10
  <2>11. CASE i - Len(s) \in DOMAIN t /\ (s \o t)[i] = t[i - Len(s)]
    <3>1. j - Len(s) \in DOMAIN t /\ (s \o t)[j] = t[j - Len(s)]
      BY <2>6, <2>7, <2>8, <2>11
    <3>2. i - Len(s) = j - Len(s)
      BY <2>5, <2>7, <2>11, <3>1
    <3> QED
      BY <2>3, <2>9, <3>2
  <2> QED
    BY <2>7, <2>8, <2>10, <2>11
<1> QED
  BY <1>0, <1>2, <1>3, <1>4, <1>5, <1>6, <1>7, StepCases DEF Applies

THEOREM StepNames == IInv /\ Base /\ Names /\ [Next]_vars => Names'
<1> SUFFICES ASSUME IInv, Base, Names, [Next]_vars PROVE Names'
  OBVIOUS
<1>1. OneFiles'
  BY StepOneFiles DEF IInv, Names
<1>2. (Failing \/ Distinct(confUpdate))'
  BY StepUpdateDistinct DEF IInv, Base, Names
<1>3. Cutting'
  BY StepCutting DEF Base, Names
<1>4. Distinct(running)'
  BY StepRunningDistinct
<1> QED
  BY <1>1, <1>2, <1>3, <1>4 DEF Names

THEOREM SpecBase == Spec => []Base
<1>1. Init => Base
  BY InitBase
<1>2. IInv /\ Base /\ [Next]_vars => Base'
  BY StepBase
<1> QED
  BY <1>1, <1>2, SpecIInv, PTL DEF Spec

(* Where no batch brings two versions of one plugin, never do two instances *)
(* of one plugin run side by side: not after a failed batch, not after an   *)
(* upgrade, a removal or a restart (ReplaceRunningPlugin, updatePlugins).   *)
THEOREM NoTwoOfAName ==
  ASSUME \A H \in Histories : \A i \in DOMAIN H : OneFile(H[i].add)
  PROVE  Spec => []OnePerName
<1>1. Init => Names
  BY DEF Init, Names, OneFiles, OneFile, Cutting, Distinct, Empty
<1>2. IInv /\ Base /\ Names /\ [Next]_vars => Names'
  BY StepNames
<1>3. Names => OnePerName
  BY DEF Names, Distinct, OnePerName
<1> QED
  BY <1>1, <1>2, <1>3, SpecIInv, SpecBase, PTL DEF Spec

-----------------------------------------------------------------------------
(* A file for every running plugin *)

(* The steps that touch neither the files nor the lists of the configuration. *)
Rest == UNCHANGED <<confRunning, confUpdate, confDelete, disk>>

LEMMA RestCases ==
  TypeOK /\ [Next]_vars =>
    \/ Rest \/ Boot \/ Death \/ RecvUpdate \/ RecvDelete \/ ExecSwapConf \/ ExecClearDelete
    \/ \E h \in Hash : RecvStore(h) \/ RecvUnlink(h)
<1> SUFFICES ASSUME TypeOK, [Next]_vars,
                    ~(Boot \/ Death \/ RecvUpdate \/ RecvDelete \/ ExecSwapConf \/ ExecClearDelete),
                    ~(\E h \in Hash : RecvStore(h) \/ RecvUnlink(h))
             PROVE  Rest
  OBVIOUS
<1>1. CASE Quiet
  BY <1>1 DEF Quiet, Rest, confVars
<1>2. CASE Receives
  BY <1>2 DEF Receives, RecvLoaded, RecvNotify, RecvFinish, RecvLoad, RecvFail, Rest, confVars
<1>3. CASE Applies
  BY <1>3 DEF Applies, ExecReady, ExecReplace, ExecInstall, ExecRemove, ExecRemoved,
              ExecReply, ExecCut, Rest, confVars
<1> QED
  BY <1>1, <1>2, <1>3, StepCases

LEMMA RestUnchanged == Rest => UNCHANGED <<Doomed, Failing, Positions>>
  BY DEF Rest, Doomed, Failing, Positions

(* Between requests, and while a batch is at work, nothing is being removed. *)
LEMMA NoneDoomed ==
  /\ IInv /\ Removing
  /\ recv \in {"select", "store", "load", "sendUpdate"} \/ ready = <<0>>
       \/ exec \in {"lockReplace", "replace", "swapConf", "reply"}
  => confDelete = {} /\ Doomed = {}
<1> HAVE /\ IInv /\ Removing
         /\ recv \in {"select", "store", "load", "sendUpdate"} \/ ready = <<0>>
              \/ exec \in {"lockReplace", "replace", "swapConf", "reply"}
<1>1. /\ recv # "wait" => ready = <<>> /\ exec \notin Applying
      /\ ready # <<>> => exec \notin Applying /\ recv = "wait"
      /\ exec \in Applying => ready = <<>> /\ recv = "wait"
  BY DEF IInv, Handshake, OneToken
<1>2. <<0>> # <<1>>
  OBVIOUS
<1>3. confDelete = {}
  <2>1. CASE recv \in {"select", "store", "load", "sendUpdate"}
    BY <1>1, <2>1 DEF Removing, Applying
  <2>2. CASE ready = <<0>>
    BY <1>1, <1>2, <2>2 DEF Removing, Applying
  <2>3. CASE exec \in {"lockReplace", "replace", "swapConf", "reply"}
    BY <1>1, <2>3 DEF Removing, Applying
  <2> QED
    BY <2>1, <2>2, <2>3
<1> QED
  BY <1>3 DEF Doomed

LEMMA StepPositions == IInv /\ Dead /\ Removing /\ Positions /\ [Next]_vars => Positions'
<1> SUFFICES ASSUME IInv, Dead, Removing, Positions, [Next]_vars PROVE Positions'
  OBVIOUS
<1>0. TypeOK
  BY DEF IInv
<1>1. CASE Rest
  BY <1>1, RestUnchanged
<1>2. CASE confDelete' = {}
  BY <1>2 DEF Positions
<1>3. CASE Boot \/ Death \/ ExecClearDelete
  BY <1>2, <1>3 DEF Boot, Dead, Death, Down, ExecClearDelete
<1>4. CASE RecvUpdate
  BY <1>4 DEF RecvUpdate, Positions
<1>5. CASE RecvDelete
  <2>1. /\ confRunning' = confRunning
        /\ \A e \in confDelete' : e \in confDelete \/
             e \in UNION {{c} \X (DOMAIN confRunning[c]) : c \in Category}
    BY <1>5 DEF RecvDelete
  <2>2. \A e \in UNION {{c} \X (DOMAIN confRunning[c]) : c \in Category} :
          e[2] \in DOMAIN confRunning[e[1]]
    OBVIOUS
  <2> QED
    BY <2>1, <2>2 DEF Positions
<1>6. CASE ExecSwapConf
  <2>1. confDelete = {} /\ confDelete' = confDelete
    BY <1>6, NoneDoomed DEF ExecSwapConf
  <2> QED
    BY <1>2, <2>1
<1>7. ASSUME NEW h \in Hash, RecvStore(h) \/ RecvUnlink(h) PROVE Positions'
  BY <1>7 DEF RecvStore, RecvUnlink, Positions, confVars
<1> QED
  BY <1>0, <1>1, <1>3, <1>4, <1>5, <1>6, <1>7, RestCases

LEMMA StepRemoving == IInv /\ Dead /\ Removing /\ [Next]_vars => Removing'
<1> SUFFICES ASSUME IInv, Dead, Removing, [Next]_vars PROVE Removing'
  OBVIOUS
<1>0. TypeOK
  BY DEF IInv
<1>1. CASE confDelete' = {}
  BY <1>1 DEF Removing
<1>2. CASE Quiet
  BY <1>2 DEF Quiet, Removing, Applying, confVars, recvVars
<1>3. CASE Boot \/ Death \/ ExecClearDelete
  BY <1>1, <1>3 DEF Boot, Dead, Death, Down, ExecClearDelete
<1>4. CASE RecvUpdate
  BY <1>1, <1>4, NoneDoomed DEF RecvUpdate
<1>5. CASE RecvDelete
  BY <1>5 DEF RecvDelete, Removing
<1>6. CASE RecvLoaded
  BY <1>1, <1>6, NoneDoomed DEF RecvLoaded, confVars
<1>7. CASE RecvFinish
  BY <1>7 DEF RecvFinish, Removing, confVars, execVars
<1>8. CASE RecvNotify
  <2>1. CASE recv = "sendUpdate"
    BY <1>1, <1>8, <2>1, NoneDoomed DEF RecvNotify, confVars
  <2>2. CASE recv = "sendDelete"
    BY <1>8, <2>2 DEF RecvNotify, Removing
  <2> QED
    BY <1>8, <2>1, <2>2 DEF RecvNotify
<1>9. ASSUME NEW h \in Hash, RecvStore(h) PROVE Removing'
  BY <1>1, <1>9, NoneDoomed DEF RecvStore, confVars
<1>10. ASSUME NEW h \in Hash, RecvUnlink(h) PROVE Removing'
  BY <1>10 DEF RecvUnlink, Removing
<1>11. ASSUME NEW c \in Category, RecvLoad(c) \/ RecvFail(c) PROVE Removing'
  BY <1>1, <1>11, NoneDoomed DEF RecvLoad, RecvFail, AtLoad, confVars
<1>12. CASE ExecReady
  <2>1. ready \in {<<0>>, <<1>>} /\ UNCHANGED confDelete
        /\ exec' = IF ready = <<0>> THEN "lockReplace" ELSE "lockRemove"
    BY <1>0, <1>12 DEF ExecReady, TypeOK, ExecutorTypeOK, OneSlot, confVars
  <2>2. CASE ready = <<0>>
    BY <1>1, <2>1, <2>2, NoneDoomed
  <2>3. CASE ready # <<0>>
    BY <2>1, <2>3 DEF Removing
  <2> QED
    BY <2>2, <2>3
<1>13. CASE ExecReplace \/ ExecInstall \/ ExecSwapConf \/ ExecReply
  BY <1>1, <1>13, NoneDoomed DEF ExecReplace, ExecInstall, ExecSwapConf, ExecReply, confVars
<1>14. CASE ExecRemove \/ ExecRemoved
  BY <1>14 DEF ExecRemove, ExecRemoved, Removing
<1>15. ASSUME NEW x \in cut, ExecCut(x) PROVE Removing'
  BY <1>15 DEF ExecCut, Removing, confVars, recvVars
<1> QED
  BY <1>0, <1>2, <1>3, <1>4, <1>5, <1>6, <1>7, <1>8, <1>9, <1>10, <1>11, <1>12, <1>13,
     <1>14, <1>15, StepCases
  DEF Receives, Applies

LEMMA StepAtHand == IInv /\ Base /\ Removing /\ AtHand /\ [Next]_vars => AtHand'
<1> SUFFICES ASSUME IInv, Base, Removing, AtHand, [Next]_vars PROVE AtHand'
  OBVIOUS
<1>0. TypeOK
  BY DEF IInv
<1> USE ListsType
<1>1. CASE recv' \notin {"store", "unlink"}
  BY <1>1 DEF AtHand
<1>2. CASE UNCHANGED <<recv, cache, confUpdate, confDelete, confRunning>>
  BY <1>2 DEF AtHand, Brought, Doomed
<1>3. CASE Quiet \/ Boot \/ Death
  BY <1>1, <1>2, <1>3 DEF Quiet, Boot, Base, Dead, Death, Down, confVars, recvVars
<1>4. CASE RecvUpdate
  <2> DEFINE fresh == (Head(updateChan) \ runningHash) \cap Marked
  <2>1. PICK add \in Arrangements(fresh \cap Plugin) :
          confUpdate' = [c \in Category |-> confUpdate[c] \o add[c]]
    BY <1>4 DEF RecvUpdate
  <2>2. recv' # "unlink" /\ cache' = fresh
    BY <1>4 DEF RecvUpdate
  <2> HIDE DEF fresh
  <2>3. ASSUME NEW h \in cache' \cap Plugin PROVE Brought(Cat[h], h)'
    <3> DEFINE c == Cat[h]
    <3>1. c \in Category
      BY ConstantsAssumption DEF Plugin, Marked
    <3> HIDE DEF c
    <3>2. add[c] \in Seq(Plugin) /\ confUpdate[c] \in Seq(Plugin)
      <4>1. add \in [Category -> Seq(Plugin)]
        BY ArrangementsType
      <4> QED
        BY <1>0, <3>1, <4>1
    <3>3. PICK i \in DOMAIN add[c] : add[c][i] = h
      BY <2>2, <2>3, <3>1, ArrangementsAll DEF c
    <3>4. /\ Len(confUpdate[c]) + i \in DOMAIN (confUpdate[c] \o add[c])
          /\ (confUpdate[c] \o add[c])[Len(confUpdate[c]) + i] = h
      BY <3>2, <3>3, ConcatRight
    <3> QED
      BY <2>1, <3>1, <3>4 DEF Brought, c
  <2> QED
    BY <2>2, <2>3 DEF AtHand
<1>5. CASE RecvDelete
  <2> DEFINE list == Head(deleteChan)
  <2>1. /\ recv' # "store"
        /\ cache' = {h \in list : \E c \in Category : h \in Elems(confRunning[c])}
        /\ \A c \in Category : \A i \in DOMAIN confRunning[c] :
             confRunning[c][i] \in list => <<c, i>> \in confDelete'
        /\ confRunning' = confRunning
    BY <1>5 DEF RecvDelete
  <2>2. ASSUME NEW h \in cache' PROVE h \in Doomed'
    <3>1. PICK c \in Category : \E i \in DOMAIN confRunning[c] : h = confRunning[c][i]
      BY <2>1, <2>2 DEF Elems
    <3>2. PICK i \in DOMAIN confRunning[c] : h = confRunning[c][i]
      BY <3>1
    <3>3. <<c, i>> \in confDelete'
      BY <2>1, <2>2, <3>2
    <3> QED
      BY <2>1, <3>2, <3>3 DEF Doomed
  <2> QED
    BY <2>1, <2>2 DEF AtHand
<1>6. CASE RecvLoaded \/ RecvNotify \/ RecvFinish
  BY <1>1, <1>6 DEF RecvLoaded, RecvNotify, RecvFinish
<1>7. ASSUME NEW h \in Hash, RecvStore(h) \/ RecvUnlink(h) PROVE AtHand'
  <2>1. /\ recv' = "store" => recv = "store"
        /\ recv' = "unlink" => recv = "unlink"
        /\ cache' \subseteq cache
        /\ UNCHANGED <<confUpdate, confDelete, confRunning>>
    BY <1>7 DEF RecvStore, RecvUnlink, confVars
  <2> QED
    BY <2>1 DEF AtHand, Brought, Doomed
<1>8. ASSUME NEW c \in Category, RecvLoad(c) \/ RecvFail(c) PROVE AtHand'
  BY <1>1, <1>8 DEF RecvLoad, RecvFail, AtLoad
<1>9. CASE ExecReady \/ ExecReplace \/ ExecRemove \/ ExecRemoved \/ ExecReply \/ ExecInstall
  BY <1>2, <1>9 DEF ExecReady, ExecReplace, ExecRemove, ExecRemoved, ExecReply, ExecInstall,
                    confVars, recvVars
<1>10. CASE ExecSwapConf \/ ExecClearDelete
  <2>1. recv = "wait" /\ recv' = recv
    BY <1>10 DEF ExecSwapConf, ExecClearDelete, recvVars, IInv, Handshake, OneToken, Applying
  <2> QED
    BY <1>1, <2>1
<1>11. ASSUME NEW x \in cut, ExecCut(x) PROVE AtHand'
  BY <1>2, <1>11 DEF ExecCut, confVars, recvVars
<1> QED
  BY <1>0, <1>3, <1>4, <1>5, <1>6, <1>7, <1>8, <1>9, <1>10, <1>11, StepCases
  DEF Receives, Applies

LEMMA StepUncut ==
  IInv /\ Base /\ Removing /\ Positions /\ Uncut /\ [Next]_vars => Uncut'
<1> SUFFICES ASSUME IInv, Base, Removing, Positions, Uncut, [Next]_vars PROVE Uncut'
  OBVIOUS
<1>0. /\ TypeOK /\ (exec \in {"remove", "clearDelete"} => recv = "wait")
      /\ running \in [Category -> Seq(Plugin)]
  BY ListsType DEF IInv, Handshake, OneToken, Applying
<1>1. CASE exec' \notin {"remove", "clearDelete"}
  BY <1>1 DEF Uncut
<1>2. CASE UNCHANGED <<exec, running, cut, confDelete, confRunning>>
  BY <1>2 DEF Uncut, RunsNow, Doomed
<1>3. CASE Quiet \/ Boot \/ Death
  BY <1>1, <1>2, <1>3 DEF Quiet, Applying, Boot, Base, Dead, Death, Down, confVars
<1>4. CASE Receives
  <2>1. recv # "wait" \/ UNCHANGED confVars
    BY <1>4 DEF Receives, RecvUpdate, RecvDelete, RecvLoaded, RecvNotify, RecvFinish,
                RecvStore, RecvUnlink, RecvLoad, RecvFail, AtLoad
  <2>2. UNCHANGED execVars
    BY <1>4 DEF Receives, RecvUpdate, RecvDelete, RecvLoaded, RecvNotify, RecvFinish,
                RecvStore, RecvUnlink, RecvLoad, RecvFail
  <2> QED
    BY <1>0, <1>1, <1>2, <2>1, <2>2 DEF execVars, confVars
<1>5. CASE ExecReady \/ ExecReplace \/ ExecInstall \/ ExecSwapConf \/ ExecClearDelete \/ ExecReply
  BY <1>1, <1>5 DEF ExecReady, ExecReplace, ExecInstall, ExecSwapConf, ExecClearDelete, ExecReply
<1>6. CASE ExecRemove
  <2>1. /\ cut' = RemoveIndex /\ exec' = "remove"
        /\ UNCHANGED <<running, confDelete, confRunning>>
    BY <1>6 DEF ExecRemove, confVars
  <2>2. ASSUME NEW c \in Category, NEW i \in DOMAIN running[c], running[c][i] \in Doomed
        PROVE  \E y \in RemoveIndex : y[1] = c /\ y[2] = i
    <3>1. PICK e \in confDelete : running[c][i] = confRunning[e[1]][e[2]]
      BY <2>2 DEF Doomed
    <3>2. e = <<e[1], e[2]>> /\ e[1] \in Category
      BY <1>0 DEF TypeOK, ConfTypeOK
    <3>3. e[2] \in DOMAIN confRunning[e[1]]
      BY DEF Positions
    <3>4. e[1] = c
      BY <3>1, <3>2, <3>3 DEF Base, Sorted, InCategory
    <3>5. <<c, i, e[2]>> \in RemoveIndex
      BY <3>1, <3>2, <3>3, <3>4 DEF RemoveIndex
    <3> QED
      BY <3>5
  <2>3. Doomed' = Doomed
    BY <2>1 DEF Doomed
  <2> QED
    BY <2>1, <2>2, <2>3 DEF Uncut
<1>7. CASE ExecRemoved
  <2>1. /\ exec = "remove" /\ cut = {} /\ exec' = "clearDelete"
        /\ UNCHANGED <<running, confDelete, confRunning>>
    BY <1>7 DEF ExecRemoved, confVars
  <2>2. \A c \in Category : \A i \in DOMAIN running[c] : running[c][i] \notin Doomed
    BY <2>1 DEF Uncut
  <2>3. Doomed' = Doomed
    BY <2>1 DEF Doomed
  <2> QED
    BY <2>1, <2>2, <2>3 DEF Uncut, RunsNow
<1>8. ASSUME NEW x \in cut, ExecCut(x) PROVE Uncut'
  <2>1. /\ x[1] \in Category /\ x[2] \in 1..Len(running[x[1]])
        /\ running' = [running EXCEPT ![x[1]] = Without(@, x[2])]
        /\ cut' = cut \ {x} /\ UNCHANGED <<exec, confDelete, confRunning>>
        /\ \A y \in cut : y[1] = x[1] => y[2] <= x[2]
        /\ exec \in {"replace", "remove"}
    BY <1>0, <1>8, CutType DEF ExecCut, AtCut, confVars
  <2>2. Doomed' = Doomed
    BY <2>1 DEF Doomed
  <2> SUFFICES ASSUME exec = "remove", NEW c \in Category, NEW i \in DOMAIN running'[c],
                      running'[c][i] \in Doomed
               PROVE  \E y \in cut \ {x} : y[1] = c /\ y[2] = i
    BY <2>1, <2>2 DEF Uncut
  <2>3. ASSUME NEW k \in DOMAIN running[c], running[c][k] \in Doomed
        PROVE  \E y \in cut : y[1] = c /\ y[2] = k
    BY <2>3 DEF Uncut
  <2>4. CASE c # x[1]
    <3>1. running'[c] = running[c]
      BY <1>0, <2>1, <2>4
    <3> QED
      BY <2>3, <2>4, <3>1
  <2>5. CASE c = x[1]
    <3>1. running'[c] = Without(running[c], x[2]) /\ running[c] \in Seq(Plugin)
      BY <1>0, <2>1, <2>5
    <3>2. x[2] \in 1..Len(running[c]) /\ i \in DOMAIN Without(running[c], x[2])
      BY <2>1, <2>5, <3>1
    <3>3. i \in Nat /\ x[2] \in Nat
      BY <3>1, <3>2, WithoutType
    <3>4. CASE i < x[2] /\ i \in DOMAIN running[c] /\ running'[c][i] = running[c][i]
      <4>1. PICK y \in cut : y[1] = c /\ y[2] = i
        BY <2>3, <3>4
      <4>2. x[2] # i
        BY <3>3, <3>4
      <4> QED
        BY <4>1, <4>2
    <3>5. CASE i >= x[2] /\ i + 1 \in DOMAIN running[c] /\ running'[c][i] = running[c][i + 1]
      <4>1. PICK y \in cut : y[1] = c /\ y[2] = i + 1
        BY <2>3, <3>5
      <4>2. i + 1 <= x[2]
        BY <2>1, <2>5, <4>1
      <4> QED
        BY <3>3, <3>5, <4>2
    <3> QED
      BY <3>1, <3>2, <3>4, <3>5, WithoutAt
  <2> QED
    BY <2>4, <2>5
<1> QED
  BY <1>0, <1>3, <1>4, <1>5, <1>6, <1>7, <1>8, StepCases DEF Applies

(* What a plugin was kept by still keeps it. *)
LEMMA KeptStays ==
  ASSUME NEW c \in Category, NEW h \in Plugin, Kept(c, h), disk' = disk,
         \A g \in Plugin : Listed(c, g) => Listed(c, g)'
  PROVE  Kept(c, h)'
  BY DEF Kept

LEMMA SortedLists ==
  ASSUME Sorted, NEW c \in Category, NEW h \in Plugin, RunsNow(c, h) \/ Listed(c, h)
  PROVE  Cat[h] = c
  BY DEF Sorted, InCategory, RunsNow, Listed, Brought, Configured

(* A plugin's file gives way to a listed plugin's. *)
LEMMA StoreKeeps ==
  ASSUME IInv, AtHand, NEW x \in Hash, RecvStore(x), NEW h \in Plugin,
         Kept(Cat[h], h) \/ h = x
  PROVE  Kept(Cat[h], h)'
<1>0. /\ x \in cache /\ recv = "store" /\ disk' = [disk EXCEPT ![Path(x)] = x]
      /\ UNCHANGED <<confUpdate, confRunning>>
  BY DEF RecvStore, confVars
<1>1. cache \subseteq Marked /\ disk \in [Paths -> Hash \cup {None}]
  BY DEF IInv, TypeOK, ReceiverTypeOK
<1>2. Path(x) \in Paths /\ x \in Marked
  BY <1>0, <1>1 DEF Paths
<1>3. \A g \in Plugin : Listed(Cat[h], g) => Listed(Cat[h], g)'
  BY <1>0 DEF Listed, Configured, Brought
<1>4. CASE h = x
  BY <1>0, <1>1, <1>2, <1>4 DEF Kept
<1>5. CASE Path(h) # Path(x)
  <2>1. disk'[Path(h)] = disk[Path(h)]
    BY <1>0, <1>1, <1>5
  <2> QED
    BY <1>3, <1>5, <2>1 DEF Kept
<1>6. CASE h # x /\ Path(h) = Path(x)
  <2>1. Cat[x] = Cat[h] /\ Cat[h] \in Category
    BY <1>6, ConstantsAssumption DEF Path, Plugin, Marked
  <2>2. x \in Plugin
    BY <1>2, <2>1, ConstantsAssumption DEF Plugin
  <2>3. Listed(Cat[h], x)'
    BY <1>0, <1>3, <2>1, <2>2 DEF AtHand, Listed
  <2> QED
    BY <1>6, <2>2, <2>3 DEF Kept
<1> QED
  BY <1>4, <1>5, <1>6

(* Removing a file leaves those of the plugins that stay. *)
LEMMA UnlinkKeeps ==
  ASSUME IInv, Sorted, AtHand, Positions, NEW x \in Hash, RecvUnlink(x), NEW h \in Plugin,
         Kept(Cat[h], h)
  PROVE  Kept(Cat[h], h)' \/ h \in Doomed
<1>0. /\ x \in cache /\ recv = "unlink" /\ disk' = [disk EXCEPT ![Path(x)] = None]
      /\ UNCHANGED <<confUpdate, confRunning>>
  BY DEF RecvUnlink, confVars
<1>1. /\ disk \in [Paths -> Hash \cup {None}] /\ confDelete \subseteq Category \X Nat
      /\ confRunning \in [Category -> Seq(Plugin)]
  BY DEF IInv, TypeOK, ReceiverTypeOK, ConfTypeOK
<1>2. x \in Doomed
  BY <1>0 DEF AtHand
<1>3. \A g \in Plugin : Listed(Cat[h], g) => Listed(Cat[h], g)'
  BY <1>0 DEF Listed, Configured, Brought
<1>4. CASE h = x
  BY <1>2, <1>4
<1>5. CASE Path(h) # Path(x)
  <2>1. disk'[Path(h)] = disk[Path(h)]
    BY <1>0, <1>1, <1>5
  <2> QED
    BY <1>3, <1>5, <2>1 DEF Kept
<1>6. CASE h # x /\ Path(h) = Path(x)
  <2>1. PICK e \in confDelete : x = confRunning[e[1]][e[2]]
    BY <1>2 DEF Doomed
  <2>2. e[1] \in Category /\ e[2] \in DOMAIN confRunning[e[1]]
    BY <1>1 DEF Positions
  <2>3. x \in Plugin /\ Configured(e[1], x)
    BY <1>1, <2>1, <2>2 DEF Configured
  <2>4. Cat[x] = e[1]
    BY <2>2, <2>3, SortedLists DEF Listed
  <2>5. Listed(Cat[h], x)
    BY <1>6, <2>3, <2>4 DEF Listed, Path
  <2> QED
    BY <1>3, <1>6, <2>3, <2>5 DEF Kept
<1> QED
  BY <1>4, <1>5, <1>6

LEMMA StepUpdateKept ==
  IInv /\ Base /\ OnDisk /\ [Next]_vars => UpdateKept'
<1> SUFFICES ASSUME IInv, Base, OnDisk, [Next]_vars PROVE UpdateKept'
  OBVIOUS
<1>0. TypeOK /\ UpdateKept
  BY DEF IInv, OnDisk
<1>1. CASE confUpdate' = Empty
  BY <1>1 DEF UpdateKept, Brought, Empty
<1>2. CASE UNCHANGED <<confUpdate, confRunning, disk>> /\ (recv = "store" => UNCHANGED <<recv, cache>>)
  BY <1>0, <1>2 DEF UpdateKept, Failing, Brought, Kept, Listed, Configured
<1>3. CASE Quiet
  BY <1>2, <1>3 DEF Quiet, confVars, recvVars
<1>4. CASE Boot \/ Death
  BY <1>1, <1>4 DEF Boot, Base, Dead, Death, Down
<1>5. CASE RecvUpdate /\ Failing
  BY <1>0, <1>5, StaysFailing DEF UpdateKept
<1>6. CASE RecvUpdate /\ ~Failing
  <2> DEFINE fresh == (Head(updateChan) \ runningHash) \cap Marked
             S == (Head(updateChan) \ runningHash) \cap Plugin
  <2>1. confUpdate' \in Arrangements(S)
    BY <1>0, <1>6, FreshUpdate DEF IInv, Base
  <2>2. S \subseteq fresh /\ S \in SUBSET Plugin
    BY DEF Plugin, Marked
  <2>3. cache' = fresh /\ (fresh # {} => recv' = "store")
    BY <1>6 DEF RecvUpdate
  <2> HIDE DEF S, fresh
  <2>4. ASSUME NEW f \in Arrangements(S), NEW c \in Category, NEW i \in DOMAIN f[c]
        PROVE  f[c][i] \in S
    BY <2>2, ArrangementsAll
  <2>5. ASSUME NEW c \in Category, NEW h \in Plugin, Brought(c, h)' PROVE h \in S
    BY <2>1, <2>4, <2>5 DEF Brought
  <2> QED
    BY <2>2, <2>3, <2>5 DEF UpdateKept
<1>7. CASE RecvDelete \/ RecvLoaded \/ RecvNotify \/ RecvFinish
  BY <1>2, <1>7 DEF RecvDelete, RecvLoaded, RecvNotify, RecvFinish, confVars
<1>8. ASSUME NEW x \in Hash, RecvStore(x) PROVE UpdateKept'
  <2>1. /\ x \in cache /\ recv = "store" /\ cache' = cache \ {x}
        /\ recv' = IF cache = {x} THEN "load" ELSE "store"
        /\ UNCHANGED confUpdate
    BY <1>8 DEF RecvStore, confVars
  <2>2. UNCHANGED Failing
    BY <2>1 DEF Failing
  <2>3. ASSUME NEW c \in Category, NEW h \in Plugin, Brought(c, h)', ~Failing
        PROVE  Kept(c, h)' \/ (recv' = "store" /\ h \in cache')
    <3>1. Brought(c, h)
      BY <2>1, <2>3 DEF Brought
    <3>2. c = Cat[h]
      BY <3>1, SortedLists DEF Base, Listed
    <3>3. Kept(c, h) \/ h \in cache
      BY <1>0, <2>3, <3>1 DEF UpdateKept
    <3>4. CASE Kept(c, h) \/ h = x
      BY <1>8, <3>2, <3>4, StoreKeeps DEF OnDisk
    <3>5. CASE h \in cache \ {x}
      BY <2>1, <3>5
    <3> QED
      BY <3>3, <3>4, <3>5
  <2> QED
    BY <2>2, <2>3 DEF UpdateKept
<1>9. ASSUME NEW x \in Hash, RecvUnlink(x) PROVE UpdateKept'
  <2>1. recv = "unlink" /\ UNCHANGED confUpdate
    BY <1>9 DEF RecvUnlink, confVars
  <2>2. ready = <<>> /\ exec \notin Applying
    BY <2>1 DEF IInv, Handshake, OneToken
  <2>3. confUpdate = Empty \/ Failing
    BY <2>1, <2>2 DEF Base, Stuck, InUpdate, Applying
  <2> QED
    BY <1>1, <2>1, <2>3 DEF UpdateKept, Failing
<1>10. ASSUME NEW c \in Category, RecvLoad(c) \/ RecvFail(c) PROVE UpdateKept'
  BY <1>2, <1>10 DEF RecvLoad, RecvFail, AtLoad, confVars
<1>11. CASE ExecReady \/ ExecReplace \/ ExecInstall \/ ExecRemove \/ ExecRemoved
            \/ ExecClearDelete \/ ExecReply
  BY <1>2, <1>11 DEF ExecReady, ExecReplace, ExecInstall, ExecRemove, ExecRemoved,
                     ExecClearDelete, ExecReply, confVars, recvVars
<1>12. CASE ExecSwapConf
  BY <1>1, <1>12 DEF ExecSwapConf
<1>13. ASSUME NEW x \in cut, ExecCut(x) PROVE UpdateKept'
  BY <1>2, <1>13 DEF ExecCut, confVars, recvVars
<1> QED
  BY <1>0, <1>3, <1>4, <1>5, <1>6, <1>7, <1>8, <1>9, <1>10, <1>11, <1>12, <1>13, StepCases
  DEF Receives, Applies

(* The steps that bring nothing new to the running lists, change no file   *)
(* and drop nothing from the lists of the configuration.                   *)
LEMMA StaysKept ==
  ASSUME RunningKept, disk' = disk,
         \A c \in Category : \A h \in Plugin :
           (RunsNow(c, h)' => RunsNow(c, h)) /\ (Listed(c, h) => Listed(c, h)'),
         \A h \in Plugin : h \in Doomed => h \in Doomed'
  PROVE  RunningKept'
<1> SUFFICES ASSUME NEW c \in Category, NEW h \in Plugin, RunsNow(c, h)', h \notin Doomed'
             PROVE  Kept(c, h)'
  BY DEF RunningKept
<1>1. Kept(c, h)
  BY DEF RunningKept
<1> QED
  BY <1>1, KeptStays

(* The swap of the configuration keeps what was listed. *)
LEMMA SwapConfigures ==
  ASSUME TypeOK, ExecSwapConf, NEW c \in Category, NEW h \in Plugin, Listed(c, h)
  PROVE  Configured(c, h)'
<1> DEFINE s == confRunning[c]
           t == confUpdate[c]
<1>1. s \in Seq(Plugin) /\ t \in Seq(Plugin) /\ confRunning'[c] = s \o t
  BY ListsType DEF ExecSwapConf
<1>2. (\E i \in DOMAIN s : s[i] = h) \/ (\E i \in DOMAIN t : t[i] = h)
  BY DEF Listed, Configured, Brought
<1> SUFFICES \E i \in DOMAIN (s \o t) : (s \o t)[i] = h
  BY <1>1 DEF Configured
<1> HIDE DEF s, t
<1>3. ASSUME NEW i \in DOMAIN s, s[i] = h PROVE \E k \in DOMAIN (s \o t) : (s \o t)[k] = h
  BY <1>1, <1>3, ConcatLeft
<1>4. ASSUME NEW i \in DOMAIN t, t[i] = h PROVE \E k \in DOMAIN (s \o t) : (s \o t)[k] = h
  <2>1. Len(s) + i \in DOMAIN (s \o t) /\ (s \o t)[Len(s) + i] = h
    BY <1>1, <1>4, ConcatRight
  <2> QED
    BY <2>1
<1> QED
  BY <1>2, <1>3, <1>4

(* A cut brings nothing to the running lists. *)
LEMMA CutRuns ==
  ASSUME TypeOK, NEW x \in cut, ExecCut(x), NEW c \in Category, NEW h \in Plugin, RunsNow(c, h)'
  PROVE  RunsNow(c, h)
<1>1. /\ x[1] \in Category /\ x[2] \in 1..Len(running[x[1]])
      /\ running' = [running EXCEPT ![x[1]] = Without(@, x[2])]
      /\ running \in [Category -> Seq(Plugin)]
  BY CutType, ListsType DEF ExecCut
<1>2. CASE c # x[1]
  BY <1>1, <1>2 DEF RunsNow
<1>3. CASE c = x[1]
  <2>1. running'[c] = Without(running[c], x[2]) /\ running[c] \in Seq(Plugin)
    BY <1>1, <1>3
  <2>2. PICK i \in DOMAIN Without(running[c], x[2]) : Without(running[c], x[2])[i] = h
    BY <2>1 DEF RunsNow
  <2>3. \E k \in DOMAIN running[c] : Without(running[c], x[2])[i] = running[c][k]
    BY <1>1, <1>3, <2>1, WithoutFrom
  <2> QED
    BY <2>2, <2>3 DEF RunsNow
<1> QED
  BY <1>2, <1>3

LEMMA StepRunningKept ==
  IInv /\ Base /\ OnDisk /\ [Next]_vars => RunningKept'
<1> SUFFICES ASSUME IInv, Base, OnDisk, [Next]_vars PROVE RunningKept'
  OBVIOUS
<1>0. TypeOK /\ RunningKept /\ Removing
  BY DEF IInv, OnDisk
<1> USE ListsType
<1>1. CASE UNCHANGED <<running, confRunning, confUpdate, confDelete, disk>>
  BY <1>0, <1>1, StaysKept DEF RunsNow, Listed, Configured, Brought, Doomed
<1>2. CASE Quiet
  BY <1>1, <1>2 DEF Quiet, confVars
<1>3. CASE Death
  BY <1>3 DEF Death, Down, RunningKept, RunsNow, Empty
<1>4. CASE Boot
  <2>1. Files \cap Plugin \in SUBSET Plugin /\ running' \in Arrangements(Files \cap Plugin)
        /\ disk' = disk
    BY <1>4 DEF Boot
  <2>2. \A f \in Arrangements(Files \cap Plugin) : \A c \in Category : \A i \in DOMAIN f[c] :
          f[c][i] \in Files
    BY <2>1, ArrangementsAll
  <2>3. ASSUME NEW c \in Category, NEW h \in Plugin, RunsNow(c, h)' PROVE h \in Files
    BY <2>1, <2>2, <2>3 DEF RunsNow
  <2>4. ASSUME NEW h \in Files PROVE disk[Path(h)] = h
    BY <2>4 DEF Files, Base, Stored
  <2> QED
    BY <2>1, <2>3, <2>4 DEF RunningKept, Kept
<1>5. CASE RecvUpdate
  <2> DEFINE fresh == (Head(updateChan) \ runningHash) \cap Marked
  <2>1. PICK add \in Arrangements(fresh \cap Plugin) :
          confUpdate' = [c \in Category |-> confUpdate[c] \o add[c]]
    BY <1>5 DEF RecvUpdate
  <2>2. add \in [Category -> Seq(Plugin)]
    BY ArrangementsType
  <2>3. UNCHANGED <<running, confRunning, confDelete, disk>>
    BY <1>5 DEF RecvUpdate, execVars
  <2>4. ASSUME NEW c \in Category, NEW h \in Plugin, Brought(c, h) PROVE Brought(c, h)'
    <3>1. PICK i \in DOMAIN confUpdate[c] : confUpdate[c][i] = h
      BY <2>4 DEF Brought
    <3>2. confUpdate[c] \in Seq(Plugin) /\ add[c] \in Seq(Plugin)
      BY <1>0, <2>2
    <3>3. i \in DOMAIN (confUpdate[c] \o add[c]) /\ (confUpdate[c] \o add[c])[i] = h
      BY <3>1, <3>2, ConcatLeft
    <3> QED
      BY <2>1, <3>3 DEF Brought
  <2> QED
    BY <1>0, <2>3, <2>4, StaysKept DEF RunsNow, Listed, Configured, Doomed
<1>6. CASE RecvDelete
  <2>1. Doomed = {}
    BY <1>0, <1>6, NoneDoomed DEF RecvDelete
  <2>2. UNCHANGED <<running, confRunning, confUpdate, disk>>
    BY <1>6 DEF RecvDelete, execVars
  <2> QED
    BY <1>0, <2>1, <2>2, StaysKept DEF RunsNow, Listed, Configured, Brought
<1>7. CASE RecvLoaded \/ RecvNotify \/ RecvFinish
  BY <1>1, <1>7 DEF RecvLoaded, RecvNotify, RecvFinish, confVars, execVars
<1>8. ASSUME NEW x \in Hash, RecvStore(x) \/ RecvUnlink(x) PROVE RunningKept'
  <2>1. UNCHANGED <<running, confRunning, confDelete>>
    BY <1>8 DEF RecvStore, RecvUnlink, confVars, execVars
  <2> SUFFICES ASSUME NEW c \in Category, NEW h \in Plugin, RunsNow(c, h), h \notin Doomed
               PROVE  Kept(c, h)'
    BY <2>1 DEF RunningKept, RunsNow, Doomed
  <2>2. Kept(c, h)
    BY <1>0 DEF RunningKept
  <2>3. c = Cat[h]
    BY SortedLists DEF Base
  <2> QED
    BY <1>8, <2>2, <2>3, StoreKeeps, UnlinkKeeps DEF OnDisk, Base
<1>9. ASSUME NEW c \in Category, RecvLoad(c) \/ RecvFail(c) PROVE RunningKept'
  BY <1>1, <1>9 DEF RecvLoad, RecvFail, confVars, execVars
<1>10. CASE ExecReady \/ ExecReplace \/ ExecRemove \/ ExecRemoved \/ ExecReply
  BY <1>1, <1>10 DEF ExecReady, ExecReplace, ExecRemove, ExecRemoved, ExecReply, confVars
<1>11. CASE ExecInstall
  <2>1. /\ exec = "replace" /\ running' = [c \in Category |-> running[c] \o update[c]]
        /\ UNCHANGED <<confRunning, confUpdate, confDelete, disk>>
    BY <1>11 DEF ExecInstall, confVars
  <2>2. recv = "wait" /\ update = confUpdate /\ ~Failing
    BY <2>1 DEF IInv, Handshake, OneToken, Applying, WholeBatch, Base, Loaded
  <2>3. ASSUME NEW c \in Category, NEW h \in Plugin, RunsNow(c, h)'
        PROVE  RunsNow(c, h) \/ Brought(c, h)
    <3> DEFINE s == running[c]
               t == update[c]
    <3>1. s \in Seq(Plugin) /\ t \in Seq(Plugin) /\ running'[c] = s \o t
      BY <1>0, <2>1
    <3>2. PICK i \in DOMAIN (s \o t) : (s \o t)[i] = h
      BY <2>3, <3>1 DEF RunsNow
    <3> SUFFICES (\E k \in DOMAIN s : s[k] = h) \/ (\E k \in DOMAIN t : t[k] = h)
      BY <2>2 DEF RunsNow, Brought
    <3> HIDE DEF s, t
    <3>3. CASE i \in DOMAIN s /\ (s \o t)[i] = s[i]
      BY <3>2, <3>3
    <3>4. CASE i - Len(s) \in DOMAIN t /\ (s \o t)[i] = t[i - Len(s)]
      BY <3>2, <3>4
    <3> QED
      BY <3>1, <3>3, <3>4, ConcatAt
  <2> SUFFICES ASSUME NEW c \in Category, NEW h \in Plugin, RunsNow(c, h)', h \notin Doomed'
               PROVE  Kept(c, h)'
    BY DEF RunningKept
  <2>4. h \notin Doomed
    BY <2>1 DEF Doomed
  <2>5. Kept(c, h)
    BY <1>0, <2>2, <2>3, <2>4 DEF RunningKept, OnDisk, UpdateKept
  <2> QED
    BY <2>1, <2>5, KeptStays DEF Listed, Configured, Brought
<1>12. CASE ExecSwapConf
  <2>1. /\ confRunning' = [c \in Category |-> confRunning[c] \o confUpdate[c]]
        /\ UNCHANGED <<running, disk, confDelete>>
    BY <1>12 DEF ExecSwapConf, recvVars
  <2>2. Doomed = {}
    BY <1>0, <1>12, NoneDoomed DEF ExecSwapConf
  <2>3. \A c \in Category : \A h \in Plugin : Listed(c, h) => Configured(c, h)'
    BY <1>0, <1>12, SwapConfigures
  <2> QED
    BY <1>0, <2>1, <2>2, <2>3, StaysKept DEF RunsNow, Listed
<1>13. CASE ExecClearDelete
  <2>1. exec = "clearDelete" /\ UNCHANGED <<running, confRunning, confUpdate, disk>>
    BY <1>13 DEF ExecClearDelete
  <2>2. ASSUME NEW c \in Category, NEW h \in Plugin, RunsNow(c, h)' PROVE Kept(c, h)
    BY <1>0, <2>1, <2>2 DEF RunsNow, OnDisk, Uncut, RunningKept
  <2> QED
    BY <2>1, <2>2, KeptStays DEF RunningKept, Listed, Configured, Brought
<1>14. ASSUME NEW x \in cut, ExecCut(x) PROVE RunningKept'
  <2>1. UNCHANGED <<confRunning, confUpdate, confDelete, disk>>
    BY <1>14 DEF ExecCut, confVars
  <2>2. \A c \in Category : \A h \in Plugin : RunsNow(c, h)' => RunsNow(c, h)
    BY <1>0, <1>14, CutRuns
  <2> QED
    BY <1>0, <2>1, <2>2, StaysKept DEF Listed, Configured, Brought, Doomed
<1> QED
  BY <1>0, <1>2, <1>3, <1>4, <1>5, <1>6, <1>7, <1>8, <1>9, <1>10, <1>11, <1>12, <1>13,
     <1>14, StepCases
  DEF Receives, Applies

THEOREM StepOnDisk == IInv /\ Base /\ OnDisk /\ [Next]_vars => OnDisk'
<1> SUFFICES ASSUME IInv, Base, OnDisk, [Next]_vars PROVE OnDisk'
  OBVIOUS
<1>1. RunningKept' /\ UpdateKept'
  BY StepRunningKept, StepUpdateKept
<1>2. AtHand'
  BY StepAtHand DEF OnDisk
<1>3. Positions' /\ Removing'
  BY StepPositions, StepRemoving DEF Base, OnDisk
<1>4. Uncut'
  BY StepUncut DEF OnDisk
<1> QED
  BY <1>1, <1>2, <1>3, <1>4 DEF OnDisk

(* Between two requests every running plugin is on disk or has given its    *)
(* file to another one the configuration lists, so that a restart finds     *)
(* what runs (StoragePlugin, DeletePlugin).                                 *)
THEOREM FilesAreKept == Spec => []FileKept
<1>1. Init => OnDisk
  BY DEF Init, OnDisk, RunningKept, RunsNow, UpdateKept, Brought, AtHand, Positions,
         Removing, Uncut, Empty
<1>2. IInv /\ Base /\ OnDisk /\ [Next]_vars => OnDisk'
  BY StepOnDisk
<1>3. IInv /\ OnDisk => FileKept
  <2> SUFFICES ASSUME IInv, OnDisk, recv = "select", NEW c \in Category, NEW h \in Now(c)
               PROVE  \/ disk[Path(h)] = h
                      \/ \E g \in Elems(confRunning[c]) \cup Elems(confUpdate[c]) :
                           g # h /\ Path(g) = Path(h)
    BY DEF FileKept
  <2>1. Doomed = {}
    BY NoneDoomed DEF OnDisk
  <2>2. running[c] \in Seq(Plugin)
    BY ListsType DEF IInv
  <2>3. h \in Plugin /\ RunsNow(c, h)
    BY <2>2 DEF Now, Elems, RunsNow
  <2>4. Kept(c, h)
    BY <2>1, <2>3 DEF OnDisk, RunningKept
  <2> QED
    BY <2>4 DEF Kept, Listed, Configured, Brought, Elems
<1> QED
  BY <1>1, <1>2, <1>3, SpecIInv, SpecBase, PTL DEF Spec
=============================================================================
