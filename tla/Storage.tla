------------------------------- MODULE Storage -------------------------------
(***************************************************************************)
(* The metric store (storage/storer.go): a cache of metrics in memory and  *)
(* one bucket per metric in bbolt.  addField works under a mutex and in    *)
(* several transactions; the cleaner expires the cache under the mutex and *)
(* the buckets without it; a stop empties the one and closes the other.    *)
(* The process may be killed at each step; only the database survives.     *)
(***************************************************************************)
EXTENDS Integers, FiniteSets

CONSTANTS
  Item,             \* category_name_version of the metrics
  Indicator,
  MaxWrites,        \* bound on the calls of addField and addTag
  MaxTime,          \* bound on the clock, in seconds
  Late,             \* how far in the past the plugins' timestamps lie
  CacheExpiration, DbExpiration,
  MaxFailures,      \* bound on refused transactions and failed opens
  MaxEnds,          \* bound on stops and kills
  None

ASSUME StorageAssumption ==
  /\ IsFiniteSet(Item)
  /\ MaxWrites \in Nat /\ MaxTime \in Nat \ {0} /\ Late \in Nat
  /\ CacheExpiration \in Nat /\ DbExpiration \in Nat
  /\ MaxFailures \in Nat /\ MaxEnds \in Nat
  /\ None \notin Nat \cup Indicator \cup (Nat \X Nat)
  /\ None \notin [indicator : Indicator, tag : Nat]

Time  == 1..MaxTime
Write == 1..MaxWrites    \* the values and the tags: each call brings its own

VARIABLES
  clock, writes, failures,
  proc,        \* "down", "up", or how far a stop has come
  cached,      \* the items of memorizer.cache
  indicator, tag, fields,  \* of its Metrics
  db,          \* is the database open?
  bucket,      \* the items that have one
  meta,        \* their metadata
  data,        \* their other keys
  op,          \* the addField that holds the mutex
  cleaner,     \* where cleanPeriodically is
  items, item, keys,       \* what DB.clean still has to do
  cacheSwept, dbSwept,     \* the deadlines of the last round
  run,         \* the number of processes started before this one
  added,       \* history: the values this process has put into its cache
  written,     \* history: the last value the database took, and from which process
  refused      \* history: what this process could not write

timeVars  == <<clock, writes, failures>>
cacheVars == <<cached, indicator, tag, fields>>
dbVars    == <<bucket, meta, data>>
cleanVars == <<cleaner, items, item, keys, cacheSwept, dbSwept>>
procVars  == <<proc, db, run>>
history   == <<added, written, refused>>
vars == <<timeVars, cacheVars, dbVars, op, cleanVars, procVars, history>>

Entry == [item : Item, indicator : Indicator, write : Write, tm : Time]
Free  == [at |-> "free"]
Meta  == [indicator : Indicator, tag : Write]
Deadline == -(CacheExpiration + DbExpiration)..MaxTime

Nowhere == [i \in Item |-> [t \in Time |-> None]]
NoneYet == [i \in Item |-> None]

TypeOK ==
  /\ clock \in Time /\ writes \in 0..MaxWrites /\ failures \in 0..MaxFailures
  /\ proc \in {"down", "up", "stopping", "cleared", "closed"}
  /\ db \in BOOLEAN /\ run \in 0..MaxEnds
  /\ cached \subseteq Item
  /\ indicator \in [Item -> Indicator \cup {None}] /\ tag \in [Item -> Write \cup {None}]
  /\ fields \in [Item -> [Time -> Write \cup {None}]]
  /\ bucket \subseteq Item /\ meta \in [Item -> Meta \cup {None}]
  /\ data \in [Item -> [Time -> Write \cup {None}]]
  /\ op \in {Free} \cup [at : {"bucket", "meta", "data"}, entry : Entry]
  /\ cleaner \in {"idle", "cache", "list", "items", "keys", "quit"}
  /\ items \subseteq Item /\ (cleaner = "keys" => item \in Item) /\ keys \subseteq Time
  /\ cacheSwept \in Deadline /\ dbSwept \in Deadline
  /\ added \in [Item -> [Time -> Write \cup {None}]]
  /\ written \in [Item -> [Time -> (Write \X (0..MaxEnds)) \cup {None}]]
  /\ refused \subseteq Item \X Time

Init ==
  /\ clock = 1 /\ writes = 0 /\ failures = 0 /\ proc = "up" /\ db = TRUE /\ run = 0
  /\ cached = {} /\ indicator = NoneYet /\ tag = NoneYet /\ fields = Nowhere
  /\ bucket = {} /\ meta = NoneYet /\ data = Nowhere
  /\ op = Free
  /\ cleaner = "idle" /\ items = {} /\ item = None /\ keys = {}
  /\ cacheSwept = 0 /\ dbSwept = 0
  /\ added = Nowhere /\ written = Nowhere /\ refused = {}

Running == proc # "down"
Fail == failures < MaxFailures /\ failures' = failures + 1

Clock ==
  /\ clock < MaxTime /\ clock' = clock + 1
  /\ UNCHANGED <<writes, failures, cacheVars, dbVars, op, cleanVars, procVars, history>>

-----------------------------------------------------------------------------
(* addField: the mutex is taken, the Metric made or updated, and a second  *)
(* value for a timestamp refused, before the database is asked.            *)

Call(i, ind) ==
  /\ Running /\ op = Free /\ writes < MaxWrites
  /\ writes' = writes + 1
  /\ cached' = cached \cup {i}
  /\ indicator' = [indicator EXCEPT ![i] = ind]
  /\ tag' = [tag EXCEPT ![i] = writes']

\* Mutant: the error of Metric.AddField is logged only.
AddFieldGoOn(i, ind, tm) ==
  /\ Call(i, ind)
  /\ op' = [at |-> "bucket", entry |-> [item |-> i, indicator |-> ind, write |-> writes', tm |-> tm]]
  /\ IF fields[i][tm] # None
     THEN UNCHANGED <<fields, added>>
     ELSE /\ fields' = [fields EXCEPT ![i][tm] = writes']
          /\ added' = [added EXCEPT ![i][tm] = writes']
  /\ UNCHANGED <<clock, failures, dbVars, cleanVars, procVars, written, refused>>

AddField(i, ind, tm) ==
  /\ Call(i, ind)
  /\ IF fields[i][tm] # None
     THEN UNCHANGED <<op, fields, added>>
     ELSE /\ op' = [at |-> "bucket",
                    entry |-> [item |-> i, indicator |-> ind, write |-> writes', tm |-> tm]]
          /\ fields' = [fields EXCEPT ![i][tm] = writes']
          /\ added' = [added EXCEPT ![i][tm] = writes']
  /\ UNCHANGED <<clock, failures, dbVars, cleanVars, procVars, written, refused>>

\* Mutant: the metadata of a new bucket are left for later.
AddBucketBare ==
  /\ op.at = "bucket" /\ db
  /\ bucket' = bucket \cup {op.entry.item}
  /\ op' = [op EXCEPT !.at = IF op.entry.item \in bucket THEN "meta" ELSE "data"]
  /\ UNCHANGED <<timeVars, cacheVars, meta, data, cleanVars, procVars, history>>

AddBucket ==
  /\ op.at = "bucket" /\ db
  /\ bucket' = bucket \cup {op.entry.item}
  /\ op' = [op EXCEPT !.at = "meta"]
  /\ UNCHANGED <<timeVars, cacheVars, meta, data, cleanVars, procVars, history>>

PutMetadata ==
  /\ op.at = "meta" /\ db
  /\ meta' = [meta EXCEPT ![op.entry.item] =
                [indicator |-> op.entry.indicator, tag |-> op.entry.write]]
  /\ op' = [op EXCEPT !.at = "data"]
  /\ UNCHANGED <<timeVars, cacheVars, bucket, data, cleanVars, procVars, history>>

PutData ==
  /\ op.at = "data" /\ db
  /\ LET e == op.entry IN
       /\ data' = [data EXCEPT ![e.item][e.tm] = e.write]
       /\ written' = [written EXCEPT ![e.item][e.tm] = <<e.write, run>>]
  /\ op' = Free
  /\ UNCHANGED <<timeVars, cacheVars, bucket, meta, cleanVars, procVars, added, refused>>

(* A transaction fails, or the database is not open: addField returns, and *)
(* what it has put into the cache stays.                                   *)
Refuse ==
  /\ op # Free
  /\ IF db THEN Fail ELSE UNCHANGED failures
  /\ op' = Free
  /\ refused' = refused \cup {<<op.entry.item, op.entry.tm>>}
  /\ UNCHANGED <<clock, writes, cacheVars, dbVars, cleanVars, procVars, added, written>>

(* addTag: the cache only, if it has the item with this indicator; else    *)
(* the metadata in the database.                                           *)
AddTag(i, ind) ==
  /\ Running /\ op = Free /\ writes < MaxWrites
  /\ writes' = writes + 1
  /\ IF i \in cached /\ indicator[i] = ind
     THEN tag' = [tag EXCEPT ![i] = writes'] /\ UNCHANGED meta
     ELSE /\ db /\ meta[i] # None /\ meta[i].indicator = ind
          /\ meta' = [meta EXCEPT ![i].tag = writes'] /\ UNCHANGED tag
  /\ UNCHANGED <<clock, failures, cached, indicator, fields, bucket, data, op, cleanVars,
                 procVars, history>>

-----------------------------------------------------------------------------
(* cleanPeriodically *)

\* Mutant: the expiration is added.
CleanTickLater ==
  /\ Running /\ cleaner = "idle"
  /\ cacheSwept' = clock - CacheExpiration /\ dbSwept' = clock + DbExpiration
  /\ cleaner' = "cache"
  /\ UNCHANGED <<timeVars, cacheVars, dbVars, op, items, item, keys, procVars, history>>

CleanTick ==
  /\ Running /\ cleaner = "idle"
  /\ cacheSwept' = clock - CacheExpiration /\ dbSwept' = clock - DbExpiration
  /\ cleaner' = "cache"
  /\ UNCHANGED <<timeVars, cacheVars, dbVars, op, items, item, keys, procVars, history>>

(* DelFields: both ends are included. *)
CleanCache ==
  /\ cleaner = "cache" /\ op = Free
  /\ fields' = [i \in Item |-> [t \in Time |-> IF t <= cacheSwept THEN None ELSE fields[i][t]]]
  /\ cleaner' = "list"
  /\ UNCHANGED <<timeVars, cached, indicator, tag, dbVars, op, items, item, keys,
                 cacheSwept, dbSwept, procVars, history>>

(* cacheItemList: the buckets of other items are not looked at.            *)
CleanList ==
  /\ cleaner = "list" /\ op = Free
  /\ items' = cached
  /\ cleaner' = "items"
  /\ UNCHANGED <<timeVars, cacheVars, dbVars, op, item, keys, cacheSwept, dbSwept,
                 procVars, history>>

\* Mutant: the end is included, as in the cache.
CleanBucketIncluded(i) ==
  /\ cleaner = "items" /\ i \in items
  /\ items' = items \ {i} /\ item' = i
  /\ keys' = IF db /\ i \in bucket THEN {t \in Time : data[i][t] # None /\ t <= dbSwept} ELSE {}
  /\ cleaner' = IF keys' = {} THEN "items" ELSE "keys"
  /\ UNCHANGED <<timeVars, cacheVars, dbVars, op, cacheSwept, dbSwept, procVars, history>>

(* HasBucket and Keys; the end is excluded. *)
CleanBucket(i) ==
  /\ cleaner = "items" /\ i \in items
  /\ items' = items \ {i} /\ item' = i
  /\ keys' = IF db /\ i \in bucket THEN {t \in Time : data[i][t] # None /\ t < dbSwept} ELSE {}
  /\ cleaner' = IF keys' = {} THEN "items" ELSE "keys"
  /\ UNCHANGED <<timeVars, cacheVars, dbVars, op, cacheSwept, dbSwept, procVars, history>>

(* One key after the other, by name; an error is logged. *)
NextKey(t) ==
  /\ cleaner = "keys" /\ t \in keys /\ \A s \in keys : t <= s
  /\ keys' = keys \ {t}
  /\ cleaner' = IF keys' = {} THEN "items" ELSE "keys"

CleanKey(t) ==
  /\ NextKey(t) /\ db
  /\ data' = [data EXCEPT ![item][t] = None]
  /\ UNCHANGED <<timeVars, cacheVars, bucket, meta, op, items, item, cacheSwept, dbSwept,
                 procVars, history>>

CleanKeyRefused(t) ==
  /\ NextKey(t)
  /\ IF db THEN Fail ELSE UNCHANGED failures
  /\ UNCHANGED <<clock, writes, cacheVars, dbVars, op, items, item, cacheSwept, dbSwept,
                 procVars, history>>

\* Mutant: the loop is left after a round.
CleanEndBreak ==
  /\ cleaner = "items" /\ items = {}
  /\ cleaner' = "quit"
  /\ UNCHANGED <<timeVars, cacheVars, dbVars, op, items, item, keys, cacheSwept, dbSwept,
                 procVars, history>>

CleanEnd ==
  /\ cleaner = "items" /\ items = {}
  /\ cleaner' = "idle"
  /\ UNCHANGED <<timeVars, cacheVars, dbVars, op, items, item, keys, cacheSwept, dbSwept,
                 procVars, history>>

CleanQuit ==
  /\ cleaner = "idle" /\ proc \notin {"down", "up"}
  /\ cleaner' = "quit"
  /\ UNCHANGED <<timeVars, cacheVars, dbVars, op, items, item, keys, cacheSwept, dbSwept,
                 procVars, history>>

-----------------------------------------------------------------------------
(* Stop, memorizer.close, and the end of the process *)

Stop ==
  /\ proc = "up" /\ run < MaxEnds /\ proc' = "stopping"
  /\ UNCHANGED <<timeVars, cacheVars, dbVars, op, cleanVars, db, run, history>>

CloseCache ==
  /\ proc = "stopping" /\ op = Free
  /\ proc' = "cleared"
  /\ cached' = {} /\ indicator' = NoneYet /\ tag' = NoneYet /\ fields' = Nowhere
  /\ added' = Nowhere
  /\ UNCHANGED <<timeVars, dbVars, op, cleanVars, db, run, written, refused>>

(* Not under the mutex. *)
CloseDB ==
  /\ proc = "cleared"
  /\ proc' = "closed" /\ db' = FALSE
  /\ UNCHANGED <<timeVars, cacheVars, dbVars, op, cleanVars, run, history>>

(* The process ends after a stop, or is killed. *)
End ==
  /\ Running /\ run < MaxEnds
  /\ proc' = "down" /\ db' = FALSE
  /\ cached' = {} /\ indicator' = NoneYet /\ tag' = NoneYet /\ fields' = Nowhere
  /\ op' = Free
  /\ cleaner' = "idle" /\ items' = {} /\ item' = None /\ keys' = {} /\ cacheSwept' = 0
  /\ added' = Nowhere /\ refused' = {}
  /\ UNCHANGED <<timeVars, dbVars, dbSwept, run, written>>

(* A database that does not open leaves a process that runs without one.   *)
Boot(opens) ==
  /\ proc = "down" /\ proc' = "up" /\ run' = run + 1
  /\ db' = opens
  /\ IF opens THEN UNCHANGED failures ELSE Fail
  /\ UNCHANGED <<clock, writes, cacheVars, dbVars, op, cleanVars, history>>

-----------------------------------------------------------------------------
Cleaner ==
  \/ CleanTick \/ CleanCache \/ CleanList \/ CleanEnd \/ CleanQuit
  \/ \E i \in items : CleanBucket(i)
  \/ \E t \in keys : CleanKey(t) \/ CleanKeyRefused(t)

Adder == AddBucket \/ PutMetadata \/ PutData \/ Refuse

Next ==
  \/ Clock
  \/ \E i \in Item, ind \in Indicator, tm \in Time :
       clock - Late <= tm /\ tm <= clock /\ AddField(i, ind, tm)
  \/ \E i \in Item, ind \in Indicator : AddTag(i, ind)
  \/ Adder \/ Cleaner
  \/ Stop \/ CloseCache \/ CloseDB \/ End
  \/ \E opens \in BOOLEAN : Boot(opens)

Spec == Init /\ [][Next]_vars

(* The goroutines run; who waits for the mutex gets it (sync.Mutex hands   *)
(* over to a starving waiter); a stop goes on.                             *)
Fairness ==
  /\ WF_vars(Adder) /\ WF_vars(Cleaner) /\ WF_vars(CloseDB)
  /\ SF_vars(CleanCache) /\ SF_vars(CleanList) /\ SF_vars(CloseCache)

FairSpec == Spec /\ Fairness

-----------------------------------------------------------------------------
(* Properties *)

InFlight(i, t) == op # Free /\ op.entry.item = i /\ op.entry.tm = t

(* Where the cache and the database both hold a value for a timestamp it   *)
(* is the same one, except for the value being written and for those the   *)
(* database refused.                                                       *)
FieldsAgree ==
  \A i \in Item, t \in Time :
    (fields[i][t] # None /\ data[i][t] # None /\ fields[i][t] # data[i][t])
      => InFlight(i, t) \/ <<i, t>> \in refused

(* Cleaning takes what has expired and nothing else: a value leaves the    *)
(* cache only up to a deadline, and the database, through any number of    *)
(* restarts, only before one.                                              *)
NothingDroppedEarly ==
  \A i \in Item, t \in Time :
    /\ fields[i][t] # added[i][t] => t <= cacheSwept
    /\ written[i][t] # None => (data[i][t] = written[i][t][1]
                                \/ (data[i][t] = None /\ t < dbSwept))

(* "timestamp already existed" (Metric.AddField): a stored value is only   *)
(* written over when the cache has expired it, or knows nothing of what an *)
(* earlier process wrote, or was emptied by a stop.                        *)
FirstStays ==
  [][\A i \in Item, t \in Time :
       (data[i][t] # None /\ data'[i][t] \notin {None, data[i][t]})
         => \/ t <= cacheSwept
            \/ written[i][t][2] # run
            \/ proc = "cleared"]_vars

(* Storage implements Archive: although the cleaner deletes without the    *)
(* mutex and an addField takes three transactions, any of which may fail   *)
(* or be the last of the process, values reach the database one by one, in *)
(* the order in which the cache took them, never without metadata, and     *)
(* only what has expired by the clock of the moment is deleted.            *)
Flight    == IF op = Free THEN {} ELSE {<<op.entry.item, op.entry.tm, op.entry.write>>}
Described == {i \in Item : meta[i] \in Meta}

Abs == INSTANCE Archive WITH
  Value <- Write, taken <- fields, flight <- Flight, described <- Described, stored <- data

ImplementsArchive == Abs!Spec

(* A bucket with expired values, of an item this process has used.         *)
Overdue(i) ==
  db /\ i \in cached /\ \E t \in Time : data[i][t] # None /\ t < clock - DbExpiration

(* What has expired goes from the buckets of the items this process has    *)
(* used; a bucket whose item it does not use is never cleaned.             *)
ExpiredGoes == \A i \in Item : Overdue(i) ~> ~Overdue(i)
=============================================================================
