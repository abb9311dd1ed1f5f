------------------------------- MODULE HotPlug -------------------------------
(***************************************************************************)
(* Hot replacement of the Lua plugins of a running collector: the agent    *)
(* hands batches of plugin hashes to the plugin manager's receiver         *)
(* (manager/lua_manager.go, Receive), which parses, stores and loads them  *)
(* (config/config.go) and then shakes hands with the executor              *)
(* (executor/executor.go, Execute), the only goroutine that changes the    *)
(* lists of running plugins.  The process may die at any step and is       *)
(* started again from what the disk holds.                                 *)
(*                                                                         *)
(* A plugin is known by the md5 hash of its source; its kind, category,    *)
(* name and whether its Lua code loads are functions of the hash.          *)
(***************************************************************************)
EXTENDS Integers, Sequences, FiniteSets

CONSTANTS
  Hash,          \* hashes of the files the centre may publish
  Category,      \* input, processor, aggregator, output
  Kind,          \* what ParsePluginMarking makes of a file
  Cat, Name,     \* category and name in its marking line
  Loads,         \* does its Lua source run (DoString)?
  Rank,          \* the order in which updatePlugins goes through the categories
  Preinstalled,  \* the plugins the installation put on disk
  FirstConfig,   \* the configuration the installation put on disk
  Histories,     \* the sequences of batches the agent may deliver
  MaxCrashes,    \* bound on the number of deaths from outside
  None           \* no hash

Kinds    == {"plugin", "foreign", "config", "unmarked"}
Plugin   == {h \in Hash : Kind[h] = "plugin"}
Marked   == {h \in Hash : Kind[h] \in {"plugin", "foreign"}}
Json     == {h \in Hash : Kind[h] = "config"}
Path(h)  == <<Cat[h], Name[h]>>
Paths    == {Path(h) : h \in Marked}
Batch    == [add : SUBSET Hash, del : SUBSET Hash]

ASSUME ConstantsAssumption ==
  /\ IsFiniteSet(Hash)
  /\ None \notin Hash
  /\ Kind \in [Hash -> Kinds]
  /\ Loads \in [Hash -> BOOLEAN]
  /\ \A h \in Marked : Kind[h] = "plugin" <=> Cat[h] \in Category
  /\ Rank \in [Category -> Nat]
  /\ Preinstalled \subseteq Plugin
  /\ FirstConfig \in Json
  /\ Histories \subseteq Seq(Batch)
  /\ MaxCrashes \in Nat

VARIABLES
  todo,         \* the batches the agent has not delivered yet
  hashMap,      \* services.HashMap, the plugins of the last download
  owed,         \* deletions GetUrl sends once its update is accepted
  updateChan,   \* services.PluginUpdateChan, capacity 1
  deleteChan,   \* services.PluginDeleteChan, capacity 1
  runningHash,  \* Config.RunningHash
  confRunning,  \* Config.Running, per category
  confUpdate,   \* Config.Update, per category
  confDelete,   \* Config.Delete: positions in Running (the code keeps pointers)
  configObj,    \* hash of Config.ConfigObj, and of the stored config file
  global,       \* hash of the configuration Config.Global was read from
  disk,         \* the plugin files
  recv,         \* where the receiver goroutine is
  cache,        \* plugins whose file the receiver still has to write or remove
  update,       \* LuaPluginManager.Update*: instances loaded, not yet running
  pool,         \* does the LState pool hold (closed) states?
  exec,         \* where the executor goroutine is
  running,      \* LuaPluginManager.Running*, per category
  cut,          \* replaceIndex/removeIndex: positions still to close and remove
  ready,        \* PluginReady, capacity 1
  finish,       \* PluginUpdateFinish, capacity 1
  lock,         \* LuaPluginManager.Lock
  first,        \* the firstCollect goroutine
  up,           \* is the process running?
  crashes

agentVars == <<todo, hashMap, owed>>
confVars  == <<runningHash, confRunning, confUpdate, confDelete, configObj, global>>
recvVars  == <<recv, cache, update, pool>>
execVars  == <<exec, running, cut, lock, first>>
procVars  == <<up, crashes>>
vars == <<agentVars, updateChan, deleteChan, confVars, disk, recvVars, execVars,
          ready, finish, procVars>>

Empty == [c \in Category |-> <<>>]
Elems(s) == {s[i] : i \in DOMAIN s}

(* The orders in which a Go map hands out the elements of S. *)
Orders(S) ==
  {s \in [1..Cardinality(S) -> S] :
     \A i, j \in 1..Cardinality(S) : s[i] = s[j] => i = j}

(* The plugins of S appended list by list, in map order. *)
Of(S, c) == {h \in S : Cat[h] = c}
Arrangements(S) ==
  {f \in [Category -> UNION {Orders(Of(S, c)) : c \in Category}] :
     \A c \in Category : f[c] \in Orders(Of(S, c))}

(* Elements of s without the one at position i. *)
Without(s, i) == SubSeq(s, 1, i - 1) \o SubSeq(s, i + 1, Len(s))

Receiving == {"select", "store", "load", "unlink", "sendUpdate", "sendDelete", "wait"}
Applying  == {"lockReplace", "replace", "swapConf",
              "lockRemove", "remove", "clearDelete", "reply"}
Executing == {"adjust", "select", "lockCollect", "collect"} \cup Applying

(* A Go channel of capacity one. *)
OneSlot(S) == {<<>>} \cup {<<e>> : e \in S}

AgentTypeOK ==
  /\ todo \in Seq(Batch) /\ hashMap \subseteq Hash /\ owed \subseteq Hash
  /\ updateChan \in OneSlot(SUBSET Hash) /\ deleteChan \in OneSlot(SUBSET Hash)
ConfTypeOK ==
  /\ runningHash \subseteq Hash /\ configObj \in Json /\ global \in Json \cup {None}
  /\ confRunning \in [Category -> Seq(Plugin)]
  /\ confUpdate \in [Category -> Seq(Plugin)]
  /\ confDelete \subseteq Category \X Nat
ReceiverTypeOK ==
  /\ disk \in [Paths -> Hash \cup {None}]
  /\ recv \in Receiving /\ cache \subseteq Marked /\ pool \in BOOLEAN
  /\ update \in [Category -> Seq(Plugin)]
ExecutorTypeOK ==
  /\ exec \in Executing /\ running \in [Category -> Seq(Plugin)]
  /\ cut \subseteq Category \X (Nat \ {0}) \X Nat
  /\ lock \in {"free", "exec", "first"} /\ first \in {"idle", "wait", "run"}
  /\ ready \in OneSlot({0, 1}) /\ finish \in OneSlot({TRUE})

TypeOK ==
  /\ AgentTypeOK /\ ConfTypeOK /\ ReceiverTypeOK /\ ExecutorTypeOK
  /\ up \in BOOLEAN /\ crashes \in 0..MaxCrashes

-----------------------------------------------------------------------------
(* Start and death of the process *)

(* Everything but the disk and the agent's history is lost. *)
Down ==
  /\ up' = FALSE
  /\ hashMap' = {} /\ owed' = {} /\ updateChan' = <<>> /\ deleteChan' = <<>>
  /\ runningHash' = {} /\ confRunning' = Empty /\ confUpdate' = Empty
  /\ confDelete' = {} /\ global' = None
  /\ recv' = "select" /\ cache' = {} /\ update' = Empty /\ pool' = FALSE
  /\ exec' = "adjust" /\ running' = Empty /\ cut' = {} /\ lock' = "free"
  /\ first' = "idle" /\ ready' = <<>> /\ finish' = <<>>

Init ==
  /\ todo \in Histories /\ hashMap = {} /\ owed = {}
  /\ updateChan = <<>> /\ deleteChan = <<>>
  /\ runningHash = {} /\ confRunning = Empty /\ confUpdate = Empty
  /\ confDelete = {} /\ configObj = FirstConfig /\ global = None
  /\ disk \in [Paths -> Preinstalled \cup {None}]
  /\ \A p \in Paths :
       IF \E h \in Preinstalled : Path(h) = p
         THEN disk[p] # None /\ Path(disk[p]) = p
         ELSE disk[p] = None
  /\ recv = "select" /\ cache = {} /\ update = Empty /\ pool = FALSE
  /\ exec = "adjust" /\ running = Empty /\ cut = {} /\ lock = "free"
  /\ first = "idle" /\ ready = <<>> /\ finish = <<>>
  /\ up = FALSE /\ crashes = 0

Files == {disk[p] : p \in Paths} \ {None}

\* Mutant: a missing plugin file makes the start fail.
BootAllFiles ==
  /\ ~up /\ \A p \in Paths : disk[p] # None
  /\ up' = TRUE /\ runningHash' = Files \cup {configObj} /\ global' = configObj
  /\ confRunning' \in Arrangements(Files \cap Plugin) /\ running' = confRunning'
  /\ UNCHANGED <<agentVars, updateChan, deleteChan, confUpdate, confDelete,
                 configObj, disk, recvVars, exec, cut, lock, first, ready,
                 finish, crashes>>

(* executor.Init: Config.Parse reads the configuration and every plugin    *)
(* file, LoadPlugins loads all of them or Init gives up and the process    *)
(* exits; the service manager tries again for ever.                        *)
Boot ==
  /\ ~up
  /\ \A h \in Files \cap Plugin : Loads[h]
  /\ up' = TRUE
  /\ runningHash' = Files \cup {configObj}
  /\ global' = configObj
  /\ confRunning' \in Arrangements(Files \cap Plugin)
  /\ running' = confRunning'
  /\ UNCHANGED <<agentVars, updateChan, deleteChan, confUpdate, confDelete,
                 configObj, disk, recvVars, exec, cut, lock, first, ready,
                 finish, crashes>>

(* The process is killed.  WriteFile truncates before it writes: a file    *)
(* being stored may be left empty.                                         *)
Crash ==
  /\ up /\ crashes < MaxCrashes
  /\ crashes' = crashes + 1
  /\ \/ disk' = disk
     \/ /\ recv = "store"
        /\ \E h \in cache : disk' = [disk EXCEPT ![Path(h)] = None]
  /\ Down /\ UNCHANGED <<todo, configObj>>

-----------------------------------------------------------------------------
(* The agent's side of the two channels (the end of services.GetUrl) *)

(* A batch that adds nothing sends the map of the batch before once more.  *)
AgentSendUpdate ==
  /\ up /\ todo # <<>> /\ owed = {} /\ updateChan = <<>>
  /\ hashMap' = IF Head(todo).add = {} THEN hashMap ELSE Head(todo).add
  /\ updateChan' = <<hashMap'>>
  /\ owed' = Head(todo).del
  /\ todo' = Tail(todo)
  /\ UNCHANGED <<deleteChan, confVars, disk, recvVars, execVars, ready, finish,
                 procVars>>

\* Mutant: the channel has no capacity.
AgentSendDeleteUnbounded ==
  /\ up /\ owed # {}
  /\ deleteChan' = Append(deleteChan, owed) /\ owed' = {}
  /\ UNCHANGED <<todo, hashMap, updateChan, confVars, disk, recvVars, execVars, ready,
                 finish, procVars>>

AgentSendDelete ==
  /\ up /\ owed # {} /\ deleteChan = <<>>
  /\ deleteChan' = <<owed>>
  /\ owed' = {}
  /\ UNCHANGED <<todo, hashMap, updateChan, confVars, disk, recvVars, execVars, ready,
                 finish, procVars>>

-----------------------------------------------------------------------------
(* The receiver goroutine: LuaPluginManager.Receive *)

\* Mutant: without the early return for a batch that holds nothing new.
RecvUpdateNoReturn ==
  /\ up /\ recv = "select" /\ updateChan # <<>>
  /\ LET fresh == (Head(updateChan) \ runningHash) \cap Marked
     IN /\ runningHash' = runningHash \cup Head(updateChan) /\ cache' = fresh
        /\ \E add \in Arrangements(fresh \cap Plugin) :
             confUpdate' = [c \in Category |-> confUpdate[c] \o add[c]]
  /\ recv' = "store" /\ updateChan' = <<>>
  /\ UNCHANGED <<agentVars, deleteChan, confRunning, confDelete, configObj, global,
                 disk, update, pool, execVars, ready, finish, procVars>>

(* ParsePluginMarking.  Configurations are taken first, the last one in    *)
(* map order stays; every hash is marked as running before anything is     *)
(* loaded; without a new marked file the update ends here.                 *)
RecvUpdate ==
  /\ up /\ recv = "select" /\ updateChan # <<>>
  /\ LET batch == Head(updateChan)
         fresh == (batch \ runningHash) \cap Marked
     IN /\ configObj' \in IF batch \cap Json = {} THEN {configObj} ELSE batch \cap Json
        /\ runningHash' = runningHash \cup batch
        /\ cache' = fresh
        /\ \E add \in Arrangements(fresh \cap Plugin) :
             confUpdate' = [c \in Category |-> confUpdate[c] \o add[c]]
        /\ recv' = IF fresh = {} THEN "select" ELSE "store"
  /\ updateChan' = <<>>
  /\ UNCHANGED <<agentVars, deleteChan, confRunning, confDelete, global, disk,
                 update, pool, execVars, ready, finish, procVars>>

\* Mutant: a file that cannot be written is passed over.
RecvStoreNothing(h) ==
  /\ up /\ recv = "store" /\ h \in cache /\ cache' = cache \ {h}
  /\ recv' = IF cache = {h} THEN "load" ELSE "store"
  /\ UNCHANGED <<agentVars, updateChan, deleteChan, confVars, disk, update, pool,
                 execVars, ready, finish, procVars>>

(* StoragePlugin, one file. *)
RecvStore(h) ==
  /\ up /\ recv = "store" /\ h \in cache
  /\ disk' = [disk EXCEPT ![Path(h)] = h]
  /\ cache' = cache \ {h}
  /\ recv' = IF cache = {h} THEN "load" ELSE "store"
  /\ UNCHANGED <<agentVars, updateChan, deleteChan, confVars, update, pool,
                 execVars, ready, finish, procVars>>

(* The next plugin updatePlugins loads is the first unloaded one of c. *)
Next1(c) == confUpdate[c][Len(update[c]) + 1]
AtLoad(c) ==
  /\ up /\ recv = "load" /\ Len(update[c]) < Len(confUpdate[c])
  /\ \A d \in Category : Rank[d] < Rank[c] => Len(update[d]) = Len(confUpdate[d])

RecvLoad(c) ==
  /\ AtLoad(c) /\ ~pool /\ Loads[Next1(c)]
  /\ update' = [update EXCEPT ![c] = Append(@, Next1(c))]
  /\ UNCHANGED <<agentVars, updateChan, deleteChan, confVars, disk, recv, cache,
                 pool, execVars, ready, finish, procVars>>

\* Mutant: the instances of a failed batch are kept.
RecvFailKeep(c) ==
  /\ AtLoad(c) /\ ~pool /\ ~Loads[Next1(c)] /\ recv' = "select"
  /\ UNCHANGED <<agentVars, updateChan, deleteChan, confVars, disk, cache, update,
                 pool, execVars, ready, finish, procVars>>

(* A plugin that does not load: removeUpdateCache closes the instances     *)
(* loaded so far and puts their closed states into the pool.  Config.Update *)
(* keeps the batch.                                                        *)
RecvFail(c) ==
  /\ AtLoad(c) /\ ~pool /\ ~Loads[Next1(c)]
  /\ pool' = (\E d \in Category : update[d] # <<>>)
  /\ update' = Empty
  /\ recv' = "select"
  /\ UNCHANGED <<agentVars, updateChan, deleteChan, confVars, disk, cache,
                 execVars, ready, finish, procVars>>

(* LStatePool.Get hands out a closed state: DoString panics. *)
RecvPanic(c) ==
  /\ AtLoad(c) /\ pool
  /\ Down /\ UNCHANGED <<todo, configObj, disk, crashes>>

RecvLoaded ==
  /\ up /\ recv = "load"
  /\ \A c \in Category : Len(update[c]) = Len(confUpdate[c])
  /\ recv' = "sendUpdate"
  /\ UNCHANGED <<agentVars, updateChan, deleteChan, confVars, disk, cache, update,
                 pool, execVars, ready, finish, procVars>>

(* CheckoutConfig: the entries of Running with a listed hash go to Delete. *)
RecvDelete ==
  /\ up /\ recv = "select" /\ deleteChan # <<>>
  /\ LET list == Head(deleteChan)
         found == {h \in list : \E c \in Category : h \in Elems(confRunning[c])}
     IN /\ runningHash' = runningHash \ list
        /\ confDelete' = confDelete \cup
             {e \in UNION {{c} \X (DOMAIN confRunning[c]) : c \in Category} :
                confRunning[e[1]][e[2]] \in list}
        /\ cache' = found
        /\ recv' = IF found = {} THEN "sendDelete" ELSE "unlink"
  /\ deleteChan' = <<>>
  /\ UNCHANGED <<agentVars, updateChan, confRunning, confUpdate, configObj, global,
                 disk, update, pool, execVars, ready, finish, procVars>>

(* DeletePlugin, one file: the path is made of category and name only. *)
RecvUnlink(h) ==
  /\ up /\ recv = "unlink" /\ h \in cache
  /\ disk' = [disk EXCEPT ![Path(h)] = None]
  /\ cache' = cache \ {h}
  /\ recv' = IF cache = {h} THEN "sendDelete" ELSE "unlink"
  /\ UNCHANGED <<agentVars, updateChan, deleteChan, confVars, update, pool,
                 execVars, ready, finish, procVars>>

\* Mutant: the signal without the wait.
RecvNotifyOnly ==
  /\ up /\ recv \in {"sendUpdate", "sendDelete"} /\ ready = <<>>
  /\ ready' = <<IF recv = "sendUpdate" THEN 0 ELSE 1>> /\ recv' = "select"
  /\ UNCHANGED <<agentVars, updateChan, deleteChan, confVars, disk, cache, update,
                 pool, execVars, finish, procVars>>

(* notify: the signal, then the wait for the answer. *)
RecvNotify ==
  /\ up /\ recv \in {"sendUpdate", "sendDelete"} /\ ready = <<>>
  /\ ready' = <<IF recv = "sendUpdate" THEN 0 ELSE 1>>
  /\ recv' = "wait"
  /\ UNCHANGED <<agentVars, updateChan, deleteChan, confVars, disk, cache, update,
                 pool, execVars, finish, procVars>>

RecvFinish ==
  /\ up /\ recv = "wait" /\ finish # <<>>
  /\ finish' = <<>>
  /\ recv' = "select"
  /\ UNCHANGED <<agentVars, updateChan, deleteChan, confVars, disk, cache, update,
                 pool, execVars, ready, procVars>>

-----------------------------------------------------------------------------
(* The executor goroutine: Execute, and firstCollect *)

(* adjustmentTime ends, firstCollect is started. *)
ExecStart ==
  /\ up /\ exec = "adjust"
  /\ exec' = "select" /\ first' = "wait"
  /\ UNCHANGED <<agentVars, updateChan, deleteChan, confVars, disk, recvVars,
                 running, cut, lock, ready, finish, procVars>>

FirstBegin ==
  /\ up /\ first = "wait" /\ lock = "free"
  /\ first' = "run" /\ lock' = "first"
  /\ UNCHANGED <<agentVars, updateChan, deleteChan, confVars, disk, recvVars,
                 exec, running, cut, ready, finish, procVars>>

FirstEnd ==
  /\ up /\ first = "run"
  /\ first' = "idle" /\ lock' = "free"
  /\ UNCHANGED <<agentVars, updateChan, deleteChan, confVars, disk, recvVars,
                 exec, running, cut, ready, finish, procVars>>

(* A tick: onceExecute runs the plugins under the lock. *)
ExecTick ==
  /\ up /\ exec = "select"
  /\ exec' = "lockCollect"
  /\ UNCHANGED <<agentVars, updateChan, deleteChan, confVars, disk, recvVars,
                 running, cut, lock, first, ready, finish, procVars>>

ExecCollect ==
  /\ up /\ exec = "lockCollect" /\ lock = "free"
  /\ exec' = "collect" /\ lock' = "exec"
  /\ UNCHANGED <<agentVars, updateChan, deleteChan, confVars, disk, recvVars,
                 running, cut, first, ready, finish, procVars>>

ExecCollected ==
  /\ up /\ exec = "collect"
  /\ exec' = "select" /\ lock' = "free"
  /\ UNCHANGED <<agentVars, updateChan, deleteChan, confVars, disk, recvVars,
                 running, cut, first, ready, finish, procVars>>

ExecReady ==
  /\ up /\ exec = "select" /\ ready # <<>>
  /\ exec' = IF Head(ready) = 0 THEN "lockReplace" ELSE "lockRemove"
  /\ ready' = <<>>
  /\ UNCHANGED <<agentVars, updateChan, deleteChan, confVars, disk, recvVars,
                 running, cut, lock, first, finish, procVars>>

\* Mutants: by category only; by hash.
ReplaceIndexCategory ==
  UNION {{c} \X (DOMAIN running[c]) \X (DOMAIN update[c]) : c \in Category}
ReplaceIndexHash ==
  {x \in ReplaceIndexCategory : running[x[1]][x[2]] = update[x[1]][x[3]]}
\* Mutant: a deleted plugin is looked up by name.
RemoveIndexName ==
  {x \in UNION {{c} \X (DOMAIN running[c]) \X (DOMAIN confRunning[c]) : c \in Category} :
     /\ <<x[1], x[3]>> \in confDelete
     /\ Name[running[x[1]][x[2]]] = Name[confRunning[x[1]][x[3]]]}

(* ReplaceRunningPlugin collects in replaceIndex every pair of an update   *)
(* and a running instance of the same name, RemoveRunningPlugin in         *)
(* removeIndex every pair of a deleted and a running one of the same hash. *)
(* A position is there once per pair.                                      *)
ReplaceIndex ==
  {x \in UNION {{c} \X (DOMAIN running[c]) \X (DOMAIN update[c]) : c \in Category} :
     Name[running[x[1]][x[2]]] = Name[update[x[1]][x[3]]]}
RemoveIndex ==
  {x \in UNION {{c} \X (DOMAIN running[c]) \X (DOMAIN confRunning[c]) : c \in Category} :
     /\ <<x[1], x[3]>> \in confDelete
     /\ running[x[1]][x[2]] = confRunning[x[1]][x[3]]}

\* Mutant: without Lock.
ExecReplaceNoLock ==
  /\ up /\ exec = "lockReplace"
  /\ exec' = "replace" /\ lock' = "exec" /\ cut' = ReplaceIndex
  /\ UNCHANGED <<agentVars, updateChan, deleteChan, confVars, disk, recvVars,
                 running, first, ready, finish, procVars>>

ExecReplace ==
  /\ up /\ exec = "lockReplace" /\ lock = "free"
  /\ exec' = "replace" /\ lock' = "exec"
  /\ cut' = ReplaceIndex
  /\ UNCHANGED <<agentVars, updateChan, deleteChan, confVars, disk, recvVars,
                 running, first, ready, finish, procVars>>

ExecRemove ==
  /\ up /\ exec = "lockRemove" /\ lock = "free"
  /\ exec' = "remove" /\ lock' = "exec"
  /\ cut' = RemoveIndex
  /\ UNCHANGED <<agentVars, updateChan, deleteChan, confVars, disk, recvVars,
                 running, first, ready, finish, procVars>>

\* Mutant: without sort.Reverse.
AtCutAscending(x) ==
  /\ up /\ exec \in {"replace", "remove"} /\ x \in cut
  /\ \A y \in cut : y[1] = x[1] => y[2] >= x[2]

(* The next position to go: the highest of its category (sort.Reverse). *)
AtCut(x) ==
  /\ up /\ exec \in {"replace", "remove"} /\ x \in cut
  /\ \A y \in cut : y[1] = x[1] => y[2] <= x[2]

ExecCut(x) ==
  /\ AtCut(x) /\ x[2] <= Len(running[x[1]])
  /\ running' = [running EXCEPT ![x[1]] = Without(@, x[2])]
  /\ cut' = cut \ {x}
  /\ UNCHANGED <<agentVars, updateChan, deleteChan, confVars, disk, recvVars,
                 exec, lock, first, ready, finish, procVars>>

(* Index out of range. *)
ExecPanic(x) ==
  /\ AtCut(x) /\ x[2] > Len(running[x[1]])
  /\ Down /\ UNCHANGED <<todo, configObj, disk, crashes>>

ExecInstall ==
  /\ up /\ exec = "replace" /\ cut = {}
  /\ running' = [c \in Category |-> running[c] \o update[c]]
  /\ update' = Empty
  /\ exec' = "swapConf" /\ lock' = "free"
  /\ UNCHANGED <<agentVars, updateChan, deleteChan, confVars, disk, recv, cache,
                 pool, cut, first, ready, finish, procVars>>

(* ReplaceRunningConfig: Global is read from ConfigObj, Update moves to the *)
(* end of Running, from which nothing is ever removed.                     *)
ExecSwapConf ==
  /\ up /\ exec = "swapConf"
  /\ global' = configObj
  /\ confRunning' = [c \in Category |-> confRunning[c] \o confUpdate[c]]
  /\ confUpdate' = Empty
  /\ exec' = "reply"
  /\ UNCHANGED <<agentVars, updateChan, deleteChan, runningHash, confDelete,
                 configObj, disk, recvVars, running, cut, lock, first, ready,
                 finish, procVars>>

ExecRemoved ==
  /\ up /\ exec = "remove" /\ cut = {}
  /\ exec' = "clearDelete" /\ lock' = "free"
  /\ UNCHANGED <<agentVars, updateChan, deleteChan, confVars, disk, recvVars,
                 running, cut, first, ready, finish, procVars>>

\* Mutant: no answer to a deletion.
ExecClearDeleteSilent ==
  /\ up /\ exec = "clearDelete" /\ confDelete' = {} /\ exec' = "select"
  /\ UNCHANGED <<agentVars, updateChan, deleteChan, runningHash, confRunning,
                 confUpdate, configObj, global, disk, recvVars, running, cut,
                 lock, first, ready, finish, procVars>>

(* RemoveDeleteConfig *)
ExecClearDelete ==
  /\ up /\ exec = "clearDelete"
  /\ confDelete' = {}
  /\ exec' = "reply"
  /\ UNCHANGED <<agentVars, updateChan, deleteChan, runningHash, confRunning,
                 confUpdate, configObj, global, disk, recvVars, running, cut,
                 lock, first, ready, finish, procVars>>

ExecReply ==
  /\ up /\ exec = "reply" /\ finish = <<>>
  /\ finish' = <<TRUE>>
  /\ exec' = "select"
  /\ UNCHANGED <<agentVars, updateChan, deleteChan, confVars, disk, recvVars,
                 running, cut, lock, first, ready, procVars>>

-----------------------------------------------------------------------------
Agent == AgentSendUpdate \/ AgentSendDelete

Receiver ==
  \/ RecvUpdate \/ RecvDelete \/ RecvLoaded \/ RecvNotify \/ RecvFinish
  \/ \E h \in Hash : RecvStore(h) \/ RecvUnlink(h)
  \/ \E c \in Category : RecvLoad(c) \/ RecvFail(c) \/ RecvPanic(c)

(* What the executor does once it has left its select. *)
ExecGoOn ==
  \/ ExecStart \/ ExecCollect \/ ExecCollected
  \/ ExecReplace \/ ExecInstall \/ ExecSwapConf
  \/ ExecRemove \/ ExecRemoved \/ ExecClearDelete \/ ExecReply
  \/ \E x \in cut : ExecCut(x) \/ ExecPanic(x)

FirstCollect == FirstBegin \/ FirstEnd

Next ==
  \/ Boot \/ Crash \/ Agent \/ Receiver
  \/ ExecTick \/ ExecReady \/ ExecGoOn \/ FirstCollect

Spec == Init /\ [][Next]_vars

(* The goroutines run; a select that finds PluginReady ready again and     *)
(* again takes it (Go picks among ready cases at random) and a goroutine   *)
(* that waits for the mutex gets it (Go's mutex hands over to a starving   *)
(* waiter); the service manager restarts the process.                      *)
Fairness ==
  /\ WF_vars(Boot) /\ WF_vars(Agent)
  /\ SF_vars(RecvUpdate) /\ SF_vars(RecvDelete) /\ WF_vars(Receiver)
  /\ SF_vars(ExecReady) /\ SF_vars(ExecGoOn) /\ SF_vars(FirstCollect)

FairSpec == Spec /\ Fairness

-----------------------------------------------------------------------------
(* Properties *)

Now(c)    == Elems(running[c])
RunSet    == UNION {Now(c) : c \in Category}
LoadedSet == UNION {Elems(update[c]) : c \in Category}
Doomed    == {confRunning[e[1]][e[2]] : e \in confDelete}

(* The two one-slot channels carry one handshake at a time: while the      *)
(* receiver waits there is exactly one of a signal, an executor at work    *)
(* and an answer, and otherwise none of them.  Without it the executor     *)
(* could swap lists the receiver is still filling, or answer twice.        *)
OneToken ==
  /\ recv = "wait" <=> (ready # <<>> \/ exec \in Applying \/ finish # <<>>)
  /\ ready # <<>> => exec \notin Applying /\ finish = <<>>
  /\ exec \in Applying => finish = <<>>

(* No instance is closed or swapped while firstCollect or a tick runs the  *)
(* plugins: the lock is held over the whole of either.                     *)
LockExclusive ==
  /\ first = "run" <=> lock = "first"
  /\ exec \in {"collect", "replace", "remove"} <=> lock = "exec"

(* Only whole batches go live: when the executor swaps, the instances      *)
(* loaded are those of Config.Update, list by list; a batch that failed    *)
(* half way leaves no instance behind.                                     *)
WholeBatch ==
  /\ (recv = "sendUpdate" \/ ready = <<0>> \/ exec \in {"lockReplace", "replace"})
       => update = confUpdate
  /\ recv \in {"select", "store", "unlink", "sendDelete"} => update = Empty

(* No two instances of one plugin run side by side: replacement goes by    *)
(* name, RunningHash keeps a published hash from being loaded again, and   *)
(* neither upgrades, failed batches, removals nor restarts break it.       *)
OnePerName ==
  \A c \in Category : \A i, j \in DOMAIN running[c] :
    Name[running[c][i]] = Name[running[c][j]] => i = j

(* Between two requests a running plugin is stored on disk, or another     *)
(* plugin that the configuration lists mention shares its file: an upgrade *)
(* removes the old version by path, which is the new version's path too.   *)
FileKept ==
  recv = "select" =>
    \A c \in Category : \A h \in Now(c) :
      \/ disk[Path(h)] = h
      \/ \E g \in Elems(confRunning[c]) \cup Elems(confUpdate[c]) :
           g # h /\ Path(g) = Path(h)

(* A removal takes nothing out of the running lists but the plugins listed *)
(* (RemoveRunningPlugin "remove running plugins").                         *)
RemovesOnlyListed ==
  [][exec = "remove" /\ up' => \A c \in Category : Now(c) \ Elems(running'[c]) \subseteq Doomed]_vars

(* Removing a plugin removes no other plugin's file. *)
UnlinksOnlyListed ==
  [][recv = "unlink" /\ up' =>
       \A p \in Paths : disk'[p] # disk[p] => disk[p] \in cache \cup {None}]_vars

(* The process dies from outside only, never of an index out of range or   *)
(* of a closed Lua state.                                                  *)
DiesFromOutside == [][up /\ ~up' => crashes' = crashes + 1]_vars

(* The plugin set clients see: the swap takes effect when the executor has *)
(* the lock, what it does under the lock is invisible.                     *)
Staged == IF exec \in {"replace", "swapConf"} THEN {}
          ELSE UNION {Elems(confUpdate[c]) : c \in Category}
Leaving == IF exec \in {"remove", "clearDelete"} THEN {} ELSE RunSet \cap Doomed
Active ==
  CASE exec = "replace" ->
         {h \in RunSet : \A g \in LoadedSet : Path(g) # Path(h)} \cup LoadedSet
    [] exec = "remove" -> RunSet \ Doomed
    [] OTHER -> RunSet

Abs == INSTANCE PluginSet WITH
  updates <- updateChan, orders <- deleteChan,
  staged <- Staged, doomed <- Leaving, active <- Active

(* Clients see whole published batches come into effect at once, and no    *)
(* plugin leaves without a successor, an order or the death of the process *)
(* (updatePlugins, ReplaceRunningPlugin, RemovePlugins).                   *)
ImplementsPluginSet == Abs!Spec

(* Every handshake ends: receiver and executor never wait for each other.  *)
HandshakeEnds == recv = "wait" ~> recv # "wait"

(* Every batch is taken and dealt with; the receiver comes to rest.        *)
Settles ==
  <>[](up => /\ todo = <<>> /\ owed = {} /\ updateChan = <<>>
             /\ deleteChan = <<>> /\ recv = "select")

(* A dead process comes back (collect.service: Restart=always).            *)
Recovers == ~up ~> up

(* What should run once the batches of H have been carried out in turn.    *)
Outcome(H) ==
  LET out[i \in 0..Len(H)] ==
        IF i = 0 THEN Preinstalled
        ELSE (out[i - 1] \cup (H[i].add \cap Plugin)) \ H[i].del
  IN out[Len(H)]

(* Whatever the order in which the receiver's select takes updates and     *)
(* deletions off their two channels, the plugins that run in the end are   *)
(* those the centre asked for, unless a kill took a batch with it.         *)
Converged(H) == <>[](crashes = 0 => RunSet = Outcome(H))
Converges == \A H \in Histories : todo = H => Converged(H)

(* The same where every batch brings something new: there is no batch that *)
(* sends the download before it once more.                                 *)
Renewing == {H \in Histories : \A i \in DOMAIN H : H[i].add # {}}
RenewalConverges == \A H \in Renewing : todo = H => Converged(H)

(* A configuration that was taken is applied ("update/delete plugins or    *)
(* config").                                                               *)
ConfigApplied == (up /\ configObj # global) ~> (up => configObj = global)
=============================================================================
