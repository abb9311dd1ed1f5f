------------------------------ MODULE AgentSync ------------------------------
(***************************************************************************)
(* The agent (agent/services/agent.go): one goroutine watches the list of  *)
(* plugin hashes the centre publishes for this node, one asks for it once  *)
(* after the start, and ParseWatchPlugin compares lists, downloads what is *)
(* new and hands batches to the plugin manager.  The goroutines share      *)
(* package variables without a lock.                                       *)
(***************************************************************************)
EXTENDS Integers, Sequences, FiniteSets

CONSTANTS
  Hash,         \* hashes of the plugins the centre may publish
  Lists,        \* the lists it may publish, sets of hashes
  Installed,    \* the plugins on disk at the first start
  MaxPublish,   \* bound on the changes of the list
  MaxFailures,  \* bound on lost connections, failed requests and deaths
  Attempts      \* how often StartListHashes tries (3)

ASSUME AgentAssumption ==
  /\ IsFiniteSet(Hash)
  /\ Lists \subseteq SUBSET Hash
  /\ Installed \subseteq Hash
  /\ MaxPublish \in Nat /\ MaxFailures \in Nat /\ Attempts \in Nat \ {0}

VARIABLES
  published,     \* the centre's list for this node
  lists,         \* history: every list so far
  changes, failures,
  watcher,       \* where ListWatchHashes is
  stream,        \* lists sent on its connection and not read yet
  receiveHashes,
  watchChan,     \* is there a token in receiveWatchChan?
  lister,        \* where StartListHashes is
  tries,
  nodeHashes,
  local,         \* the list in LocalPluginChan
  parser,        \* where ParseWatchPlugin is
  lastHashes, addPlugins, deletePlugins,
  downloadChan,  \* is there a token in pluginDownloadChan?
  fetch,         \* hashes GetUrl still has to fetch
  hashMap, made, \* HashMap, and whether it has been made yet
  updateChan, deleteChan,
  disk,          \* the plugins the manager has installed
  up,
  seen,          \* history: the list the difference was taken of
  offered,       \* history: disk, once everything sent is carried out in order
  failed,        \* history: hashes whose download failed
  raced,         \* history: hashes that changed between two reads of receiveHashes
  overwritten,   \* history: hashes that left addPlugins before they were fetched
  undone         \* history: listed hashes that a deletion was sent for

listed     == <<published, lists, changes>>
centreVars == <<listed, failures>>
watchVars  == <<watcher, stream, receiveHashes>>
listVars   == <<lister, tries, nodeHashes>>
parseVars  == <<lastHashes, addPlugins, deletePlugins, seen, raced, overwritten>>
getVars    == <<fetch, hashMap, made, failed>>
chanVars   == <<updateChan, deleteChan, offered, undone>>
vars == <<centreVars, watchVars, watchChan, listVars, local, parser, parseVars,
          downloadChan, getVars, chanVars, disk, up>>

OneSlot == {<<>>} \cup {<<S>> : S \in SUBSET Hash}

TypeOK ==
  /\ published \in Lists \cup {Installed} /\ lists \subseteq Lists \cup {Installed}
  /\ changes \in 0..MaxPublish /\ failures \in 0..MaxFailures
  /\ watcher \in {"dial", "read", "send"} /\ stream \in Seq(SUBSET Hash)
  /\ lister \in {"dial", "send", "done"} /\ tries \in 0..Attempts
  /\ parser \in {"select", "differ", "adopt", "assign", "send", "fetch", "update", "delete"}
  /\ watchChan \in BOOLEAN /\ downloadChan \in BOOLEAN /\ up \in BOOLEAN
  /\ made \in BOOLEAN
  /\ updateChan \in OneSlot /\ deleteChan \in OneSlot
  /\ receiveHashes \subseteq Hash /\ nodeHashes \subseteq Hash /\ local \subseteq Hash
  /\ lastHashes \subseteq Hash /\ addPlugins \subseteq Hash /\ deletePlugins \subseteq Hash
  /\ fetch \subseteq Hash /\ hashMap \subseteq Hash /\ disk \subseteq Hash
  /\ seen \subseteq Hash /\ offered \subseteq Hash /\ failed \subseteq Hash
  /\ raced \subseteq Hash /\ overwritten \subseteq Hash /\ undone \subseteq Hash

Init ==
  /\ published = Installed /\ lists = {Installed} /\ changes = 0 /\ failures = 0
  /\ watcher = "dial" /\ stream = <<>> /\ receiveHashes = {} /\ watchChan = FALSE
  /\ lister = "dial" /\ tries = 0 /\ nodeHashes = {} /\ local = Installed
  /\ parser = "select" /\ lastHashes = {} /\ addPlugins = {} /\ deletePlugins = {}
  /\ downloadChan = FALSE /\ fetch = {} /\ hashMap = {} /\ made = FALSE
  /\ updateChan = <<>> /\ deleteChan = <<>>
  /\ disk = Installed /\ up = TRUE
  /\ seen = {} /\ offered = Installed /\ failed = {} /\ raced = {} /\ overwritten = {}
  /\ undone = {}

Fail == failures < MaxFailures /\ failures' = failures + 1

-----------------------------------------------------------------------------
(* The centre *)

Publish(S) ==
  /\ changes < MaxPublish /\ S # published
  /\ published' = S /\ lists' = lists \cup {S} /\ changes' = changes + 1
  /\ stream' = IF watcher = "dial" THEN stream ELSE Append(stream, S)
  /\ UNCHANGED <<failures, watcher, receiveHashes, watchChan, listVars, local, parser,
                 parseVars, downloadChan, getVars, chanVars, disk, up>>

-----------------------------------------------------------------------------
(* ListWatchHashes: the connection begins with the current list. *)

WatchDial ==
  /\ up /\ watcher = "dial"
  /\ watcher' = "read" /\ stream' = <<published>>
  /\ UNCHANGED <<centreVars, receiveHashes, watchChan, listVars, local, parser,
                 parseVars, downloadChan, getVars, chanVars, disk, up>>

\* Mutants: what was received is forgotten with the connection; the error is
\* logged and the dead connection read again.
WatchLostForget ==
  /\ up /\ watcher = "read" /\ Fail
  /\ watcher' = "dial" /\ stream' = <<>> /\ receiveHashes' = {}
  /\ UNCHANGED <<listed, watchChan, listVars, local, parser, parseVars, downloadChan,
                 getVars, chanVars, disk, up>>
WatchLostUnnoticed ==
  /\ up /\ watcher = "read" /\ Fail
  /\ stream' = <<>>
  /\ UNCHANGED <<listed, watcher, receiveHashes, watchChan, listVars, local,
                 parser, parseVars, downloadChan, getVars, chanVars, disk, up>>

WatchLost ==
  /\ up /\ watcher = "read" /\ Fail
  /\ watcher' = "dial" /\ stream' = <<>>
  /\ UNCHANGED <<listed, receiveHashes, watchChan, listVars, local, parser,
                 parseVars, downloadChan, getVars, chanVars, disk, up>>

(* An empty list is ignored. *)
WatchRead ==
  /\ up /\ watcher = "read" /\ stream # <<>>
  /\ stream' = Tail(stream)
  /\ IF Head(stream) = {} THEN UNCHANGED <<watcher, receiveHashes>>
                          ELSE watcher' = "send" /\ receiveHashes' = Head(stream)
  /\ UNCHANGED <<centreVars, watchChan, listVars, local, parser, parseVars,
                 downloadChan, getVars, chanVars, disk, up>>

WatchSend ==
  /\ up /\ watcher = "send" /\ ~watchChan
  /\ watchChan' = TRUE /\ watcher' = "read"
  /\ UNCHANGED <<centreVars, stream, receiveHashes, listVars, local, parser, parseVars,
                 downloadChan, getVars, chanVars, disk, up>>

-----------------------------------------------------------------------------
(* StartListHashes: an empty list, and an error in the centre's answer, end *)
(* it as an answer does.                                                    *)

ListRead ==
  /\ up /\ lister = "dial"
  /\ IF published = {} THEN lister' = "done" /\ UNCHANGED nodeHashes
                       ELSE lister' = "send" /\ nodeHashes' = published
  /\ UNCHANGED <<centreVars, watchVars, watchChan, tries, local, parser, parseVars,
                 downloadChan, getVars, chanVars, disk, up>>

ListRefused ==
  /\ up /\ lister = "dial" /\ Fail
  /\ lister' = "done"
  /\ UNCHANGED <<listed, watchVars, watchChan, tries, nodeHashes, local,
                 parser, parseVars, downloadChan, getVars, chanVars, disk, up>>

(* No connection, or one lost before the answer. *)
ListLost ==
  /\ up /\ lister = "dial" /\ Fail
  /\ tries' = tries + 1
  /\ lister' = IF tries' = Attempts THEN "done" ELSE "dial"
  /\ UNCHANGED <<listed, watchVars, watchChan, nodeHashes, local,
                 parser, parseVars, downloadChan, getVars, chanVars, disk, up>>

-----------------------------------------------------------------------------
(* ParseWatchPlugin *)

ParseWatch ==
  /\ up /\ parser = "select" /\ watchChan
  /\ watchChan' = FALSE
  /\ parser' = IF lastHashes = {} THEN "adopt" ELSE "differ"
  /\ UNCHANGED <<centreVars, watchVars, listVars, local, parseVars, downloadChan,
                 getVars, chanVars, disk, up>>

(* addPlugins is written while the token for its last value may still be    *)
(* in the slot.                                                             *)
Overwrite ==
  overwritten' = IF downloadChan THEN overwritten \cup (addPlugins \ addPlugins')
                                 ELSE overwritten

Differ ==
  /\ up /\ parser = "differ"
  /\ addPlugins' = receiveHashes \ lastHashes
  /\ deletePlugins' = lastHashes \ receiveHashes
  /\ Overwrite
  /\ seen' = receiveHashes
  /\ parser' = IF receiveHashes = lastHashes THEN "select" ELSE "assign"
  /\ UNCHANGED <<centreVars, watchVars, watchChan, listVars, local, lastHashes, raced,
                 downloadChan, getVars, chanVars, disk, up>>

(* The first list: deletePlugins stays what it was. *)
Adopt ==
  /\ up /\ parser = "adopt"
  /\ addPlugins' = receiveHashes /\ seen' = receiveHashes
  /\ Overwrite
  /\ parser' = "assign"
  /\ UNCHANGED <<centreVars, watchVars, watchChan, listVars, local, lastHashes,
                 deletePlugins, raced, downloadChan, getVars, chanVars, disk, up>>

\* Mutant: a list that brings nothing new is not remembered.
AssignNothing ==
  /\ up /\ parser = "assign"
  /\ lastHashes' = IF addPlugins = {} THEN lastHashes ELSE receiveHashes
  /\ raced' = raced \cup (receiveHashes \ seen)
  /\ parser' = "send"
  /\ UNCHANGED <<centreVars, watchVars, watchChan, listVars, local, addPlugins,
                 deletePlugins, seen, overwritten, downloadChan, getVars, chanVars, disk, up>>

(* receiveHashes is read once more; the watcher may have written it. *)
Assign ==
  /\ up /\ parser = "assign"
  /\ lastHashes' = receiveHashes
  /\ raced' = raced \cup (receiveHashes \ seen)
  /\ parser' = "send"
  /\ UNCHANGED <<centreVars, watchVars, watchChan, listVars, local, addPlugins,
                 deletePlugins, seen, overwritten, downloadChan, getVars, chanVars, disk, up>>

(* ListNodeHashesChan has no buffer: the lister goes on with the parser.   *)
ParseList ==
  /\ up /\ parser = "select" /\ lister = "send"
  /\ lister' = "done"
  /\ IF local = {} THEN addPlugins' = nodeHashes /\ UNCHANGED deletePlugins
                   ELSE /\ addPlugins' = nodeHashes \ local
                        /\ deletePlugins' = local \ nodeHashes
  /\ Overwrite
  /\ parser' = IF nodeHashes = local THEN "select" ELSE "send"
  /\ UNCHANGED <<centreVars, watchVars, watchChan, tries, nodeHashes, local,
                 lastHashes, seen, raced, downloadChan, getVars, chanVars, disk, up>>

(* The token for the download: the parser is the channel's only receiver.  *)
ParseSend ==
  /\ up /\ parser = "send" /\ ~downloadChan
  /\ downloadChan' = TRUE /\ parser' = "select"
  /\ UNCHANGED <<centreVars, watchVars, watchChan, listVars, local, parseVars, getVars,
                 chanVars, disk, up>>

AfterUpdate == IF deletePlugins = {} THEN "select" ELSE "delete"

\* Mutant: HashMap is made once and kept.
ParseDownloadKeep ==
  /\ up /\ parser = "select" /\ downloadChan
  /\ downloadChan' = FALSE
  /\ fetch' = addPlugins /\ UNCHANGED hashMap
  /\ made' = (made \/ addPlugins # {})
  /\ parser' = IF addPlugins # {} THEN "fetch" ELSE IF made THEN "update" ELSE AfterUpdate
  /\ UNCHANGED <<centreVars, watchVars, watchChan, listVars, local, parseVars, failed,
                 chanVars, disk, up>>

(* GetUrl: without additions HashMap stays what it was, and is sent unless  *)
(* it was never made.                                                       *)
ParseDownload ==
  /\ up /\ parser = "select" /\ downloadChan
  /\ downloadChan' = FALSE
  /\ fetch' = addPlugins
  /\ hashMap' = IF addPlugins = {} THEN hashMap ELSE {}
  /\ made' = (made \/ addPlugins # {})
  /\ parser' = IF addPlugins # {} THEN "fetch" ELSE IF made THEN "update" ELSE AfterUpdate
  /\ UNCHANGED <<centreVars, watchVars, watchChan, listVars, local, parseVars, failed,
                 chanVars, disk, up>>

\* Mutant: the map is made anew for every hash.
FetchedOnly(h) ==
  /\ up /\ parser = "fetch" /\ h \in fetch
  /\ hashMap' = {h} /\ fetch' = fetch \ {h}
  /\ parser' = IF fetch = {h} THEN "update" ELSE "fetch"
  /\ UNCHANGED <<centreVars, watchVars, watchChan, listVars, local, parseVars, downloadChan,
                 made, failed, chanVars, disk, up>>

Fetched(h) ==
  /\ up /\ parser = "fetch" /\ h \in fetch
  /\ hashMap' = hashMap \cup {h} /\ fetch' = fetch \ {h}
  /\ parser' = IF fetch = {h} THEN "update" ELSE "fetch"
  /\ UNCHANGED <<centreVars, watchVars, watchChan, listVars, local, parseVars, downloadChan,
                 made, failed, chanVars, disk, up>>

(* The request, the download or the check of the md5 sum fails. *)
FetchFailed(h) ==
  /\ up /\ parser = "fetch" /\ h \in fetch /\ Fail
  /\ fetch' = fetch \ {h} /\ failed' = failed \cup {h}
  /\ parser' = IF fetch = {h} THEN "update" ELSE "fetch"
  /\ UNCHANGED <<listed, watchVars, watchChan, listVars, local, parseVars,
                 downloadChan, hashMap, made, chanVars, disk, up>>

\* Mutant: a buffer without a bound.
SendUpdateQueued ==
  /\ up /\ parser = "update"
  /\ updateChan' = Append(updateChan, hashMap)
  /\ offered' = offered \cup hashMap
  /\ failed' = failed \ hashMap /\ raced' = raced \ hashMap
  /\ overwritten' = overwritten \ hashMap /\ undone' = undone \ hashMap
  /\ parser' = AfterUpdate
  /\ UNCHANGED <<centreVars, watchVars, watchChan, listVars, local, lastHashes, addPlugins,
                 deletePlugins, seen, downloadChan, fetch, hashMap, made, deleteChan, disk, up>>

SendUpdate ==
  /\ up /\ parser = "update" /\ updateChan = <<>>
  /\ updateChan' = <<hashMap>>
  /\ offered' = offered \cup hashMap
  /\ failed' = failed \ hashMap /\ raced' = raced \ hashMap
  /\ overwritten' = overwritten \ hashMap /\ undone' = undone \ hashMap
  /\ parser' = AfterUpdate
  /\ UNCHANGED <<centreVars, watchVars, watchChan, listVars, local, lastHashes, addPlugins,
                 deletePlugins, seen, downloadChan, fetch, hashMap, made, deleteChan, disk, up>>

SendDelete ==
  /\ up /\ parser = "delete" /\ deleteChan = <<>>
  /\ deleteChan' = <<deletePlugins>>
  /\ offered' = offered \ deletePlugins
  /\ undone' = undone \cup (deletePlugins \cap lastHashes)
  /\ parser' = "select"
  /\ UNCHANGED <<centreVars, watchVars, watchChan, listVars, local, parseVars, downloadChan,
                 getVars, updateChan, disk, up>>

-----------------------------------------------------------------------------
(* The plugin manager's Receive takes from either channel. *)

TakeUpdate ==
  /\ up /\ updateChan # <<>>
  /\ disk' = disk \cup Head(updateChan) /\ updateChan' = <<>>
  /\ UNCHANGED <<centreVars, watchVars, watchChan, listVars, local, parser, parseVars,
                 downloadChan, getVars, deleteChan, offered, undone, up>>

TakeDelete ==
  /\ up /\ deleteChan # <<>>
  /\ disk' = disk \ Head(deleteChan) /\ deleteChan' = <<>>
  /\ UNCHANGED <<centreVars, watchVars, watchChan, listVars, local, parser, parseVars,
                 downloadChan, getVars, updateChan, offered, undone, up>>

-----------------------------------------------------------------------------
(* The process dies from outside, or when GetUrl goes on with the nil       *)
(* connection of a failed dial; the service manager starts it again.        *)
Die ==
  /\ up /\ Fail
  /\ up' = FALSE
  /\ watcher' = "dial" /\ stream' = <<>> /\ receiveHashes' = {} /\ watchChan' = FALSE
  /\ lister' = "dial" /\ tries' = 0 /\ nodeHashes' = {} /\ local' = {}
  /\ parser' = "select" /\ lastHashes' = {} /\ addPlugins' = {} /\ deletePlugins' = {}
  /\ downloadChan' = FALSE /\ fetch' = {} /\ hashMap' = {} /\ made' = FALSE
  /\ updateChan' = <<>> /\ deleteChan' = <<>>
  /\ seen' = {} /\ offered' = {} /\ failed' = {} /\ raced' = {} /\ overwritten' = {}
  /\ undone' = {}
  /\ UNCHANGED <<listed, disk>>

(* Config.Parse puts what is on disk into LocalPluginChan before the agent  *)
(* starts.                                                                  *)
Boot ==
  /\ ~up /\ up' = TRUE
  /\ local' = disk /\ offered' = disk
  /\ UNCHANGED <<centreVars, watchVars, watchChan, listVars, parser, parseVars,
                 downloadChan, getVars, updateChan, deleteChan, undone, disk>>

-----------------------------------------------------------------------------
Watcher == WatchDial \/ WatchRead \/ WatchSend
Lister  == ListRead
Getter  == \/ SendUpdate \/ SendDelete
           \/ \E h \in fetch : Fetched(h)
Parser  == Differ \/ Adopt \/ Assign \/ ParseSend \/ Getter
Manager == TakeUpdate \/ TakeDelete

Next ==
  \/ \E S \in Lists : Publish(S)
  \/ Watcher \/ WatchLost \/ Lister \/ ListRefused \/ ListLost
  \/ ParseWatch \/ ParseList \/ ParseDownload \/ Parser
  \/ \E h \in fetch : FetchFailed(h)
  \/ Manager \/ Die \/ Boot

Spec == Init /\ [][Next]_vars

(* The goroutines run and the select of ParseWatchPlugin, which picks a     *)
(* ready case at random, passes none over for ever.                         *)
Fairness ==
  /\ WF_vars(Watcher) /\ WF_vars(Lister) /\ WF_vars(Parser)
  /\ SF_vars(ParseWatch) /\ SF_vars(ParseList) /\ SF_vars(ParseDownload)
  /\ WF_vars(TakeUpdate) /\ WF_vars(TakeDelete) /\ WF_vars(Boot)

FairSpec == Spec /\ Fairness

-----------------------------------------------------------------------------
(* Properties *)

(* No list the watcher has read goes unnoticed, whatever the interleaving   *)
(* of its two writes with the parser's three reads: once no token is under  *)
(* way, lastHashes is the last list.                                        *)
Noticed ==
  (parser \notin {"differ", "adopt", "assign"} /\ watcher # "send" /\ ~watchChan)
    => lastHashes = receiveHashes

(* Why a listed plugin may be missing once no download is due: its download *)
(* failed, it entered the list between two reads of receiveHashes, addPlugins was  *)
(* written again before GetUrl read it, or a deletion taken from another    *)
(* list was sent after it.  Nothing else loses one.                         *)
MissesExplained ==
  (parser = "select" /\ ~downloadChan) =>
     lastHashes \subseteq offered \cup failed \cup raced \cup overwritten \cup undone

(* The parser waits for a slot that only it can empty. *)
Stuck == parser = "send" /\ downloadChan

(* The manager installs nothing that no list has held, and keeps what every *)
(* list has held: no lost connection, empty answer, race for the globals,  *)
(* failed download, order of the two channels or restart looks like a      *)
(* change of the list.                                                     *)
WithinLists ==
  /\ disk \subseteq UNION lists
  /\ \A h \in Hash : (\A L \in lists : h \in L) => h \in disk

(* A batch is part of one list: the manager is never given two versions of *)
(* a plugin at once unless a list of the centre names both.                *)
OneListABatch == updateChan # <<>> => \E L \in lists : Head(updateChan) \subseteq L

(* Once the centre's list and the connections are stable, the parser comes  *)
(* to know it, unless it waits for itself.                                  *)
Learns == <>[](Stuck \/ published = {} \/ (up /\ lastHashes = published))

(* The manager is told of the centre's list ("Receive receive agent signal  *)
(* to update/delete plugins or config").                                    *)
Told == <>[](published = {} \/ offered = published)
=============================================================================
