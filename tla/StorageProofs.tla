---------------------------- MODULE StorageProofs ----------------------------
(***************************************************************************)
(* Proofs about Storage for any set of items and indicators, any number of *)
(* calls, failures, stops and kills, any clock and any expirations.        *)
(***************************************************************************)
EXTENDS Storage, TLAPS

(* The addField that holds the mutex belongs to a running process and has  *)
(* put its value into the cache.                                           *)
Held ==
  op # Free => /\ Running
               /\ fields[op.entry.item][op.entry.tm] = op.entry.write

(* Deadlines lie behind the clock, so that they only grow.                 *)
Behind ==
  /\ cacheSwept <= 0 \/ cacheSwept <= clock - CacheExpiration
  /\ dbSwept <= 0 \/ dbSwept <= clock - DbExpiration

(* The keys to delete have expired.                                        *)
Expired ==
  cleaner = "keys" => \A t \in keys : t < dbSwept

(* What the database holds was written, by this process or an earlier one; *)
(* it is open only in a process that has not closed it, and one that ended *)
(* has a successor.                                                        *)
Origin ==
  /\ \A i \in Item, t \in Time :
       /\ data[i][t] # None => written[i][t] # None
       /\ written[i][t] # None => written[i][t][2] <= run
  /\ proc \in {"down", "closed"} => ~db
  /\ proc = "down" => run < MaxEnds

(* A value this process wrote is in its cache until it expires there, so   *)
(* that an addField over it is under way only after that.                  *)
Known ==
  \A i \in Item, t \in Time :
    (data[i][t] # None /\ written[i][t][2] = run /\ proc \in {"up", "stopping"})
      => /\ fields[i][t] # None \/ t <= cacheSwept
         /\ InFlight(i, t) => fields[i][t] = data[i][t] \/ t <= cacheSwept

IInv == TypeOK /\ Held /\ Behind /\ Expired /\ Origin /\ Known
        /\ FieldsAgree /\ NothingDroppedEarly

(* The initial state: an empty cache, no bucket, nothing under way.        *)
THEOREM InitIInv == Init => IInv
<1> SUFFICES ASSUME Init PROVE IInv
  OBVIOUS
<1> USE StorageAssumption DEF Init, Nowhere, NoneYet, Free
<1>1. TypeOK
  BY DEF TypeOK, Time, Write, Deadline
<1>2. Held /\ Behind /\ Expired /\ Origin /\ Known
  BY DEF Held, Behind, Expired, Origin, Known
<1>3. FieldsAgree /\ NothingDroppedEarly
  BY DEF FieldsAgree, NothingDroppedEarly
<1> QED
  BY <1>1, <1>2, <1>3 DEF IInv

(* Every step keeps the types. *)
THEOREM StepType == TypeOK /\ Origin /\ [Next]_vars => TypeOK'
<1> SUFFICES ASSUME TypeOK, Origin, [Next]_vars PROVE TypeOK'
  OBVIOUS
<1> USE StorageAssumption DEF TypeOK
<1>1. CASE Clock
  <2>1. clock' \in Time
    BY <1>1 DEF Clock, Time
  <2> QED
    BY <1>1, <2>1 DEF Clock, timeVars, cacheVars, dbVars, cleanVars, procVars, history
<1>2. ASSUME NEW i \in Item, NEW ind \in Indicator, NEW tm \in Time, AddField(i, ind, tm) PROVE TypeOK'
  <2>1. writes' \in 0..MaxWrites /\ writes' \in Write
    BY <1>2 DEF AddField, Call, Write
  <2>2. /\ cached' \subseteq Item
        /\ indicator' \in [Item -> Indicator \cup {None}]
        /\ tag' \in [Item -> Write \cup {None}]
    BY <1>2, <2>1 DEF AddField, Call
  <2>3. /\ fields' \in [Item -> [Time -> Write \cup {None}]]
        /\ added' \in [Item -> [Time -> Write \cup {None}]]
    <3>1. CASE fields[i][tm] # None
      BY <1>2, <3>1 DEF AddField
    <3>2. CASE fields[i][tm] = None
      <4> DEFINE f == [fields[i] EXCEPT ![tm] = writes']
                 g == [added[i] EXCEPT ![tm] = writes']
      <4>1. f \in [Time -> Write \cup {None}] /\ g \in [Time -> Write \cup {None}]
        BY <1>2, <2>1
      <4>2. fields' = [fields EXCEPT ![i] = f] /\ added' = [added EXCEPT ![i] = g]
        BY <1>2, <3>2 DEF AddField
      <4> QED
        BY <4>1, <4>2
    <3> QED
      BY <3>1, <3>2
  <2>4. op' \in {Free} \cup [at : {"bucket", "meta", "data"}, entry : Entry]
    BY <1>2, <2>1 DEF AddField, Call, Entry
  <2> QED
    BY <1>2, <2>1, <2>2, <2>3, <2>4 DEF AddField, Call, timeVars, cacheVars, dbVars, cleanVars, procVars, history
<1>3. ASSUME NEW i \in Item, NEW ind \in Indicator, AddTag(i, ind) PROVE TypeOK'
  <2>1. writes' \in 0..MaxWrites /\ writes' \in Write
    BY <1>3 DEF AddTag, Write
  <2>2. CASE i \in cached /\ indicator[i] = ind
    <3>1. tag' = [tag EXCEPT ![i] = writes'] /\ meta' = meta
      BY <1>3, <2>2, Zenon DEF AddTag
    <3>2. tag' \in [Item -> Write \cup {None}]
      BY <2>1, <3>1
    <3> QED
      BY <1>3, <2>1, <3>1, <3>2 DEF AddTag, dbVars, cleanVars, procVars, history
  <2>3. CASE ~(i \in cached /\ indicator[i] = ind)
    <3>1. meta[i] \in Meta
      BY <1>3, <2>3 DEF AddTag
    <3>2. [meta[i] EXCEPT !.tag = writes'] \in Meta
      BY <2>1, <3>1 DEF Meta
    <3>3. meta' \in [Item -> Meta \cup {None}]
      BY <1>3, <2>3, <3>2 DEF AddTag
    <3> QED
      BY <1>3, <2>1, <2>3, <3>3 DEF AddTag, timeVars, cacheVars, dbVars, cleanVars, procVars, history
  <2> QED
    BY <2>2, <2>3
<1>4. CASE AddBucket
  <2>1. op \in [at : {"bucket", "meta", "data"}, entry : Entry]
    BY <1>4 DEF AddBucket, Free
  <2>2. op' \in [at : {"bucket", "meta", "data"}, entry : Entry] /\ bucket' \subseteq Item
    BY <1>4, <2>1 DEF AddBucket, Entry
  <2> QED
    BY <1>4, <2>2 DEF AddBucket, timeVars, cacheVars, dbVars, cleanVars, procVars, history
<1>5. CASE PutMetadata
  <2>1. op \in [at : {"bucket", "meta", "data"}, entry : Entry]
    BY <1>5 DEF PutMetadata, Free
  <2>2. op' \in [at : {"bucket", "meta", "data"}, entry : Entry]
    BY <1>5, <2>1 DEF PutMetadata
  <2>3. meta' \in [Item -> Meta \cup {None}]
    BY <1>5, <2>1 DEF PutMetadata, Meta, Entry
  <2> QED
    BY <1>5, <2>2, <2>3 DEF PutMetadata, timeVars, cacheVars, dbVars, cleanVars, procVars, history
<1>6. CASE PutData
  <2> DEFINE i == op.entry.item
             t == op.entry.tm
             d == [data[i] EXCEPT ![t] = op.entry.write]
             w == [written[i] EXCEPT ![t] = <<op.entry.write, run>>]
  <2>1. i \in Item /\ t \in Time /\ op.entry.write \in Write
    BY <1>6 DEF PutData, Free, Entry
  <2>2. d \in [Time -> Write \cup {None}]
    BY <2>1
  <2>3. w \in [Time -> (Write \X (0..MaxEnds)) \cup {None}]
    BY <2>1
  <2>4. data' = [data EXCEPT ![i] = d] /\ written' = [written EXCEPT ![i] = w]
    BY <1>6 DEF PutData
  <2>5. /\ data' \in [Item -> [Time -> Write \cup {None}]]
        /\ written' \in [Item -> [Time -> (Write \X (0..MaxEnds)) \cup {None}]]
    BY <2>1, <2>2, <2>3, <2>4
  <2> QED
    BY <1>6, <2>5 DEF PutData, timeVars, cacheVars, dbVars, cleanVars, procVars, history
<1>7. CASE Refuse
  <2>1. op.entry \in Entry
    BY <1>7 DEF Refuse, Free
  <2>2. <<op.entry.item, op.entry.tm>> \in Item \X Time
    BY <2>1 DEF Entry
  <2>3. failures' \in 0..MaxFailures
    BY <1>7 DEF Refuse, Fail
  <2>4. refused' \subseteq Item \X Time
    BY <1>7, <2>2 DEF Refuse
  <2> QED
    BY <1>7, <2>3, <2>4 DEF Refuse, Refuse, Fail, timeVars, cacheVars, dbVars, cleanVars, procVars, history
<1>8. CASE CleanTick
  <2>1. cacheSwept' \in Deadline /\ dbSwept' \in Deadline
    BY <1>8 DEF CleanTick, Deadline, Time
  <2> QED
    BY <1>8, <2>1 DEF CleanTick, timeVars, cacheVars, dbVars, cleanVars, procVars, history
<1>9. CASE CleanCache
  BY <1>9 DEF CleanCache, timeVars, cacheVars, dbVars, cleanVars, procVars, history
<1>10. CASE CleanList
  BY <1>10 DEF CleanList, timeVars, cacheVars, dbVars, cleanVars, procVars, history
<1>11. CASE CleanEnd
  BY <1>11 DEF CleanEnd, timeVars, cacheVars, dbVars, cleanVars, procVars, history
<1>12. CASE CleanQuit
  BY <1>12 DEF CleanQuit, timeVars, cacheVars, dbVars, cleanVars, procVars, history
<1>13. ASSUME NEW i \in items, CleanBucket(i) PROVE TypeOK'
  BY <1>13 DEF CleanBucket, timeVars, cacheVars, dbVars, cleanVars, procVars, history
<1>14. ASSUME NEW t \in keys, CleanKey(t) PROVE TypeOK'
  BY <1>14 DEF CleanKey, NextKey, timeVars, cacheVars, dbVars, cleanVars, procVars, history
<1>15. ASSUME NEW t \in keys, CleanKeyRefused(t) PROVE TypeOK'
  BY <1>15 DEF CleanKeyRefused, NextKey, Fail, timeVars, cacheVars, dbVars, cleanVars, procVars, history
<1>16. CASE Stop
  BY <1>16 DEF Stop, timeVars, cacheVars, dbVars, cleanVars, procVars, history
<1>17. CASE CloseCache
  <2> QED
    BY <1>17 DEF CloseCache, timeVars, cacheVars, dbVars, cleanVars, procVars, history, Nowhere, NoneYet
<1>18. CASE CloseDB
  BY <1>18 DEF CloseDB, timeVars, cacheVars, dbVars, cleanVars, procVars, history
<1>19. CASE End
  <2>1. 0 \in Deadline
    BY DEF Deadline
  <2> QED
    BY <1>19, <2>1 DEF End, timeVars, cacheVars, dbVars, cleanVars, procVars, history, Nowhere, NoneYet
<1>20. ASSUME NEW opens \in BOOLEAN, Boot(opens) PROVE TypeOK'
  <2>1. run' \in 0..MaxEnds
    BY <1>20 DEF Boot, Origin
  <2> QED
    BY <1>20, <2>1 DEF Boot, Fail, timeVars, cacheVars, dbVars, cleanVars, procVars, history
<1>21. CASE UNCHANGED vars
  BY <1>21 DEF vars, timeVars, cacheVars, dbVars, cleanVars, procVars, history
<1> QED
  BY <1>1, <1>2, <1>3, <1>4, <1>5, <1>6, <1>7, <1>8, <1>9, <1>10, <1>11, <1>12, <1>13, <1>14, <1>15, <1>16, <1>17, <1>18, <1>19, <1>20, <1>21 DEF Next, Adder, Cleaner

(* The mutex: nobody else touches the value it guards. *)
THEOREM StepHeld == TypeOK /\ Held /\ [Next]_vars => Held'
<1> SUFFICES ASSUME TypeOK, Held, [Next]_vars PROVE Held'
  OBVIOUS
<1> USE StorageAssumption DEF TypeOK, Time, Write, Entry, Meta, Free, Held, Running, Nowhere
<1>1. CASE Clock
  BY <1>1 DEF Clock, timeVars, cacheVars, dbVars, cleanVars, procVars, history
<1>2. ASSUME NEW i \in Item, NEW ind \in Indicator, NEW tm \in Time, AddField(i, ind, tm) PROVE Held'
  BY <1>2 DEF AddField, Call, timeVars, cacheVars, dbVars, cleanVars, procVars, history
<1>3. ASSUME NEW i \in Item, NEW ind \in Indicator, AddTag(i, ind) PROVE Held'
  BY <1>3 DEF AddTag, timeVars, cacheVars, dbVars, cleanVars, procVars, history
<1>4. CASE AddBucket
  BY <1>4 DEF AddBucket, timeVars, cacheVars, dbVars, cleanVars, procVars, history
<1>5. CASE PutMetadata
  BY <1>5 DEF PutMetadata, timeVars, cacheVars, dbVars, cleanVars, procVars, history
<1>6. CASE PutData
  BY <1>6 DEF PutData, timeVars, cacheVars, dbVars, cleanVars, procVars, history
<1>7. CASE Refuse
  BY <1>7 DEF Refuse, Fail, timeVars, cacheVars, dbVars, cleanVars, procVars, history
<1>8. CASE CleanTick
  BY <1>8 DEF CleanTick, timeVars, cacheVars, dbVars, cleanVars, procVars, history
<1>9. CASE CleanCache
  BY <1>9 DEF CleanCache, timeVars, cacheVars, dbVars, cleanVars, procVars, history
<1>10. CASE CleanList
  BY <1>10 DEF CleanList, timeVars, cacheVars, dbVars, cleanVars, procVars, history
<1>11. CASE CleanEnd
  BY <1>11 DEF CleanEnd, timeVars, cacheVars, dbVars, cleanVars, procVars, history
<1>12. CASE CleanQuit
  BY <1>12 DEF CleanQuit, timeVars, cacheVars, dbVars, cleanVars, procVars, history
<1>13. ASSUME NEW i \in items, CleanBucket(i) PROVE Held'
  BY <1>13 DEF CleanBucket, timeVars, cacheVars, dbVars, cleanVars, procVars, history
<1>14. ASSUME NEW t \in keys, CleanKey(t) PROVE Held'
  BY <1>14 DEF CleanKey, NextKey, timeVars, cacheVars, dbVars, cleanVars, procVars, history
<1>15. ASSUME NEW t \in keys, CleanKeyRefused(t) PROVE Held'
  BY <1>15 DEF CleanKeyRefused, NextKey, Fail, timeVars, cacheVars, dbVars, cleanVars, procVars, history
<1>16. CASE Stop
  BY <1>16 DEF Stop, timeVars, cacheVars, dbVars, cleanVars, procVars, history
<1>17. CASE CloseCache
  BY <1>17 DEF CloseCache, timeVars, cacheVars, dbVars, cleanVars, procVars, history
<1>18. CASE CloseDB
  BY <1>18 DEF CloseDB, timeVars, cacheVars, dbVars, cleanVars, procVars, history
<1>19. CASE End
  BY <1>19 DEF End, timeVars, cacheVars, dbVars, cleanVars, procVars, history
<1>20. ASSUME NEW opens \in BOOLEAN, Boot(opens) PROVE Held'
  BY <1>20 DEF Boot, Fail, timeVars, cacheVars, dbVars, cleanVars, procVars, history
<1>21. CASE UNCHANGED vars
  BY <1>21 DEF vars, timeVars, cacheVars, dbVars, cleanVars, procVars, history
<1> QED
  BY <1>1, <1>2, <1>3, <1>4, <1>5, <1>6, <1>7, <1>8, <1>9, <1>10, <1>11, <1>12, <1>13, <1>14, <1>15, <1>16, <1>17, <1>18, <1>19, <1>20, <1>21 DEF Next, Adder, Cleaner

(* The clock only goes on. *)
THEOREM StepBehind == TypeOK /\ Behind /\ [Next]_vars => Behind'
<1> SUFFICES ASSUME TypeOK, Behind, [Next]_vars PROVE Behind'
  OBVIOUS
<1> USE StorageAssumption DEF TypeOK, Time, Write, Entry, Meta, Free, Behind, Deadline
<1>1. CASE Clock
  BY <1>1 DEF Clock, timeVars, cacheVars, dbVars, cleanVars, procVars, history
<1>2. ASSUME NEW i \in Item, NEW ind \in Indicator, NEW tm \in Time, AddField(i, ind, tm) PROVE Behind'
  BY <1>2 DEF AddField, Call, timeVars, cacheVars, dbVars, cleanVars, procVars, history
<1>3. ASSUME NEW i \in Item, NEW ind \in Indicator, AddTag(i, ind) PROVE Behind'
  BY <1>3 DEF AddTag, timeVars, cacheVars, dbVars, cleanVars, procVars, history
<1>4. CASE AddBucket
  BY <1>4 DEF AddBucket, timeVars, cacheVars, dbVars, cleanVars, procVars, history
<1>5. CASE PutMetadata
  BY <1>5 DEF PutMetadata, timeVars, cacheVars, dbVars, cleanVars, procVars, history
<1>6. CASE PutData
  BY <1>6 DEF PutData, timeVars, cacheVars, dbVars, cleanVars, procVars, history
<1>7. CASE Refuse
  BY <1>7 DEF Refuse, Fail, timeVars, cacheVars, dbVars, cleanVars, procVars, history
<1>8. CASE CleanTick
  BY <1>8 DEF CleanTick, timeVars, cacheVars, dbVars, cleanVars, procVars, history
<1>9. CASE CleanCache
  BY <1>9 DEF CleanCache, timeVars, cacheVars, dbVars, cleanVars, procVars, history
<1>10. CASE CleanList
  BY <1>10 DEF CleanList, timeVars, cacheVars, dbVars, cleanVars, procVars, history
<1>11. CASE CleanEnd
  BY <1>11 DEF CleanEnd, timeVars, cacheVars, dbVars, cleanVars, procVars, history
<1>12. CASE CleanQuit
  BY <1>12 DEF CleanQuit, timeVars, cacheVars, dbVars, cleanVars, procVars, history
<1>13. ASSUME NEW i \in items, CleanBucket(i) PROVE Behind'
  BY <1>13 DEF CleanBucket, timeVars, cacheVars, dbVars, cleanVars, procVars, history
<1>14. ASSUME NEW t \in keys, CleanKey(t) PROVE Behind'
  BY <1>14 DEF CleanKey, NextKey, timeVars, cacheVars, dbVars, cleanVars, procVars, history
<1>15. ASSUME NEW t \in keys, CleanKeyRefused(t) PROVE Behind'
  BY <1>15 DEF CleanKeyRefused, NextKey, Fail, timeVars, cacheVars, dbVars, cleanVars, procVars, history
<1>16. CASE Stop
  BY <1>16 DEF Stop, timeVars, cacheVars, dbVars, cleanVars, procVars, history
<1>17. CASE CloseCache
  BY <1>17 DEF CloseCache, timeVars, cacheVars, dbVars, cleanVars, procVars, history
<1>18. CASE CloseDB
  BY <1>18 DEF CloseDB, timeVars, cacheVars, dbVars, cleanVars, procVars, history
<1>19. CASE End
  BY <1>19 DEF End, timeVars, cacheVars, dbVars, cleanVars, procVars, history
<1>20. ASSUME NEW opens \in BOOLEAN, Boot(opens) PROVE Behind'
  BY <1>20 DEF Boot, Fail, timeVars, cacheVars, dbVars, cleanVars, procVars, history
<1>21. CASE UNCHANGED vars
  BY <1>21 DEF vars, timeVars, cacheVars, dbVars, cleanVars, procVars, history
<1> QED
  BY <1>1, <1>2, <1>3, <1>4, <1>5, <1>6, <1>7, <1>8, <1>9, <1>10, <1>11, <1>12, <1>13, <1>14, <1>15, <1>16, <1>17, <1>18, <1>19, <1>20, <1>21 DEF Next, Adder, Cleaner

(* Deadlines only grow, and keys were chosen by one. *)
THEOREM StepExpired == TypeOK /\ Expired /\ [Next]_vars => Expired'
<1> SUFFICES ASSUME TypeOK, Expired, [Next]_vars PROVE Expired'
  OBVIOUS
<1> USE StorageAssumption DEF TypeOK, Time, Write, Entry, Meta, Free, Expired
<1>1. CASE Clock
  BY <1>1 DEF Clock, timeVars, cacheVars, dbVars, cleanVars, procVars, history
<1>2. ASSUME NEW i \in Item, NEW ind \in Indicator, NEW tm \in Time, AddField(i, ind, tm) PROVE Expired'
  BY <1>2 DEF AddField, Call, timeVars, cacheVars, dbVars, cleanVars, procVars, history
<1>3. ASSUME NEW i \in Item, NEW ind \in Indicator, AddTag(i, ind) PROVE Expired'
  BY <1>3 DEF AddTag, timeVars, cacheVars, dbVars, cleanVars, procVars, history
<1>4. CASE AddBucket
  BY <1>4 DEF AddBucket, timeVars, cacheVars, dbVars, cleanVars, procVars, history
<1>5. CASE PutMetadata
  BY <1>5 DEF PutMetadata, timeVars, cacheVars, dbVars, cleanVars, procVars, history
<1>6. CASE PutData
  BY <1>6 DEF PutData, timeVars, cacheVars, dbVars, cleanVars, procVars, history
<1>7. CASE Refuse
  BY <1>7 DEF Refuse, Fail, timeVars, cacheVars, dbVars, cleanVars, procVars, history
<1>8. CASE CleanTick
  BY <1>8 DEF CleanTick, timeVars, cacheVars, dbVars, cleanVars, procVars, history
<1>9. CASE CleanCache
  BY <1>9 DEF CleanCache, timeVars, cacheVars, dbVars, cleanVars, procVars, history
<1>10. CASE CleanList
  BY <1>10 DEF CleanList, timeVars, cacheVars, dbVars, cleanVars, procVars, history
<1>11. CASE CleanEnd
  BY <1>11 DEF CleanEnd, timeVars, cacheVars, dbVars, cleanVars, procVars, history
<1>12. CASE CleanQuit
  BY <1>12 DEF CleanQuit, timeVars, cacheVars, dbVars, cleanVars, procVars, history
<1>13. ASSUME NEW i \in items, CleanBucket(i) PROVE Expired'
  BY <1>13 DEF CleanBucket, timeVars, cacheVars, dbVars, cleanVars, procVars, history
<1>14. ASSUME NEW t \in keys, CleanKey(t) PROVE Expired'
  BY <1>14 DEF CleanKey, NextKey, timeVars, cacheVars, dbVars, cleanVars, procVars, history
<1>15. ASSUME NEW t \in keys, CleanKeyRefused(t) PROVE Expired'
  BY <1>15 DEF CleanKeyRefused, NextKey, Fail, timeVars, cacheVars, dbVars, cleanVars, procVars, history
<1>16. CASE Stop
  BY <1>16 DEF Stop, timeVars, cacheVars, dbVars, cleanVars, procVars, history
<1>17. CASE CloseCache
  BY <1>17 DEF CloseCache, timeVars, cacheVars, dbVars, cleanVars, procVars, history
<1>18. CASE CloseDB
  BY <1>18 DEF CloseDB, timeVars, cacheVars, dbVars, cleanVars, procVars, history
<1>19. CASE End
  BY <1>19 DEF End, timeVars, cacheVars, dbVars, cleanVars, procVars, history
<1>20. ASSUME NEW opens \in BOOLEAN, Boot(opens) PROVE Expired'
  BY <1>20 DEF Boot, Fail, timeVars, cacheVars, dbVars, cleanVars, procVars, history
<1>21. CASE UNCHANGED vars
  BY <1>21 DEF vars, timeVars, cacheVars, dbVars, cleanVars, procVars, history
<1> QED
  BY <1>1, <1>2, <1>3, <1>4, <1>5, <1>6, <1>7, <1>8, <1>9, <1>10, <1>11, <1>12, <1>13, <1>14, <1>15, <1>16, <1>17, <1>18, <1>19, <1>20, <1>21 DEF Next, Adder, Cleaner

(* Only PutData brings data, and it leaves its mark. *)
THEOREM StepOrigin == TypeOK /\ Held /\ Origin /\ [Next]_vars => Origin'
<1> SUFFICES ASSUME TypeOK, Held, Origin, [Next]_vars PROVE Origin'
  OBVIOUS
<1> USE StorageAssumption DEF TypeOK, Time, Write, Entry, Meta, Free, Origin, Held, Running
<1>1. CASE Clock
  BY <1>1 DEF Clock, timeVars, cacheVars, dbVars, cleanVars, procVars, history
<1>2. ASSUME NEW i \in Item, NEW ind \in Indicator, NEW tm \in Time, AddField(i, ind, tm) PROVE Origin'
  BY <1>2 DEF AddField, Call, timeVars, cacheVars, dbVars, cleanVars, procVars, history
<1>3. ASSUME NEW i \in Item, NEW ind \in Indicator, AddTag(i, ind) PROVE Origin'
  BY <1>3 DEF AddTag, timeVars, cacheVars, dbVars, cleanVars, procVars, history
<1>4. CASE AddBucket
  BY <1>4 DEF AddBucket, timeVars, cacheVars, dbVars, cleanVars, procVars, history
<1>5. CASE PutMetadata
  BY <1>5 DEF PutMetadata, timeVars, cacheVars, dbVars, cleanVars, procVars, history
<1>6. CASE PutData
  <2> DEFINE e == op.entry
  <2>1. e \in Entry
    BY <1>6 DEF PutData
  <2>2. \A j \in Item, s \in Time :
          IF j = e.item /\ s = e.tm
          THEN data'[j][s] = e.write /\ written'[j][s] = <<e.write, run>>
          ELSE data'[j][s] = data[j][s] /\ written'[j][s] = written[j][s]
    BY <1>6, <2>1 DEF PutData
  <2>3. run' = run /\ proc' = proc /\ db' = db
    BY <1>6 DEF PutData, procVars
  <2>4. \A j \in Item, s \in Time : written'[j][s] # None => written'[j][s][2] <= run
    BY <2>1, <2>2
  <2>5. \A j \in Item, s \in Time : data'[j][s] # None => written'[j][s] # None
    <3>1. <<e.write, run>> \in Nat \X Nat
      BY <2>1 DEF Write
    <3>2. <<e.write, run>> # None
      BY <3>1
    <3>3. ASSUME NEW j \in Item, NEW s \in Time, data'[j][s] # None
          PROVE written'[j][s] # None
      <4>1. CASE j = e.item /\ s = e.tm
        BY <2>2, <3>2, <4>1
      <4>2. CASE ~(j = e.item /\ s = e.tm)
        <5>1. data'[j][s] = data[j][s] /\ written'[j][s] = written[j][s]
          BY <2>2, <4>2, Zenon
        <5>2. data[j][s] # None => written[j][s] # None
          BY DEF Origin
        <5> QED
          BY <3>3, <5>1, <5>2, Zenon
      <4> QED
        BY <4>1, <4>2
    <3> QED
      BY <3>3
  <2> QED
    BY <2>3, <2>4, <2>5
<1>7. CASE Refuse
  BY <1>7 DEF Refuse, Fail, timeVars, cacheVars, dbVars, cleanVars, procVars, history
<1>8. CASE CleanTick
  BY <1>8 DEF CleanTick, timeVars, cacheVars, dbVars, cleanVars, procVars, history
<1>9. CASE CleanCache
  BY <1>9 DEF CleanCache, timeVars, cacheVars, dbVars, cleanVars, procVars, history
<1>10. CASE CleanList
  BY <1>10 DEF CleanList, timeVars, cacheVars, dbVars, cleanVars, procVars, history
<1>11. CASE CleanEnd
  BY <1>11 DEF CleanEnd, timeVars, cacheVars, dbVars, cleanVars, procVars, history
<1>12. CASE CleanQuit
  BY <1>12 DEF CleanQuit, timeVars, cacheVars, dbVars, cleanVars, procVars, history
<1>13. ASSUME NEW i \in items, CleanBucket(i) PROVE Origin'
  BY <1>13 DEF CleanBucket, timeVars, cacheVars, dbVars, cleanVars, procVars, history
<1>14. ASSUME NEW t \in keys, CleanKey(t) PROVE Origin'
  BY <1>14 DEF CleanKey, NextKey, timeVars, cacheVars, dbVars, cleanVars, procVars, history
<1>15. ASSUME NEW t \in keys, CleanKeyRefused(t) PROVE Origin'
  BY <1>15 DEF CleanKeyRefused, NextKey, Fail, timeVars, cacheVars, dbVars, cleanVars, procVars, history
<1>16. CASE Stop
  BY <1>16 DEF Stop, timeVars, cacheVars, dbVars, cleanVars, procVars, history
<1>17. CASE CloseCache
  BY <1>17 DEF CloseCache, timeVars, cacheVars, dbVars, cleanVars, procVars, history
<1>18. CASE CloseDB
  BY <1>18 DEF CloseDB, timeVars, cacheVars, dbVars, cleanVars, procVars, history
<1>19. CASE End
  BY <1>19 DEF End, timeVars, cacheVars, dbVars, cleanVars, procVars, history
<1>20. ASSUME NEW opens \in BOOLEAN, Boot(opens) PROVE Origin'
  BY <1>20 DEF Boot, Fail, timeVars, cacheVars, dbVars, cleanVars, procVars, history
<1>21. CASE UNCHANGED vars
  BY <1>21 DEF vars, timeVars, cacheVars, dbVars, cleanVars, procVars, history
<1> QED
  BY <1>1, <1>2, <1>3, <1>4, <1>5, <1>6, <1>7, <1>8, <1>9, <1>10, <1>11, <1>12, <1>13, <1>14, <1>15, <1>16, <1>17, <1>18, <1>19, <1>20, <1>21 DEF Next, Adder, Cleaner

(* A value of this process leaves the cache by its expiration only. *)
THEOREM StepKnown == TypeOK /\ Held /\ Behind /\ Origin /\ Known /\ [Next]_vars => Known'
<1> SUFFICES ASSUME TypeOK, Held, Behind, Origin, Known, [Next]_vars PROVE Known'
  OBVIOUS
<1> USE StorageAssumption DEF TypeOK, Time, Write, Entry, Meta, Free, Known, InFlight, Held, Behind, Origin, Running, Nowhere, Deadline
<1>1. CASE Clock
  BY <1>1 DEF Clock, timeVars, cacheVars, dbVars, cleanVars, procVars, history
<1>2. ASSUME NEW i \in Item, NEW ind \in Indicator, NEW tm \in Time, AddField(i, ind, tm) PROVE Known'
  <2> DEFINE w == writes + 1
  <2>1. /\ w \in Write
        /\ fields[i][tm] = None => /\ fields' = [fields EXCEPT ![i][tm] = w]
                                   /\ added' = [added EXCEPT ![i][tm] = w]
        /\ fields[i][tm] # None => fields' = fields /\ added' = added
    BY <1>2 DEF AddField, Call
  <2>2. \A j \in Item, s \in Time :
          IF j = i /\ s = tm /\ fields[i][tm] = None THEN fields'[j][s] = w /\ added'[j][s] = w
          ELSE fields'[j][s] = fields[j][s] /\ added'[j][s] = added[j][s]
    BY <2>1
  <2>3. op = Free
    BY <1>2 DEF AddField, Call
  <2>4. fields[i][tm] = None => op'.entry.item = i /\ op'.entry.tm = tm /\ op' # Free
    BY <1>2 DEF AddField
  <2> QED
    BY <1>2, <2>1, <2>2, <2>3, <2>4 DEF AddField, Call, dbVars, cleanVars, procVars
<1>3. ASSUME NEW i \in Item, NEW ind \in Indicator, AddTag(i, ind) PROVE Known'
  BY <1>3 DEF AddTag, timeVars, cacheVars, dbVars, cleanVars, procVars, history
<1>4. CASE AddBucket
  <2>1. op' # Free /\ op # Free /\ op'.entry = op.entry
    BY <1>4 DEF AddBucket
  <2> QED
    BY <1>4, <2>1 DEF AddBucket, timeVars, cacheVars, dbVars, cleanVars, procVars, history
<1>5. CASE PutMetadata
  <2>1. op' # Free /\ op # Free /\ op'.entry = op.entry
    BY <1>5 DEF PutMetadata
  <2> QED
    BY <1>5, <2>1 DEF PutMetadata, timeVars, cacheVars, dbVars, cleanVars, procVars, history
<1>6. CASE PutData
  BY <1>6 DEF PutData, timeVars, cacheVars, dbVars, cleanVars, procVars, history
<1>7. CASE Refuse
  BY <1>7 DEF Refuse, Fail, timeVars, cacheVars, dbVars, cleanVars, procVars, history
<1>8. CASE CleanTick
  BY <1>8 DEF CleanTick, timeVars, cacheVars, dbVars, cleanVars, procVars, history
<1>9. CASE CleanCache
  BY <1>9 DEF CleanCache, timeVars, cacheVars, dbVars, cleanVars, procVars, history
<1>10. CASE CleanList
  BY <1>10 DEF CleanList, timeVars, cacheVars, dbVars, cleanVars, procVars, history
<1>11. CASE CleanEnd
  BY <1>11 DEF CleanEnd, timeVars, cacheVars, dbVars, cleanVars, procVars, history
<1>12. CASE CleanQuit
  BY <1>12 DEF CleanQuit, timeVars, cacheVars, dbVars, cleanVars, procVars, history
<1>13. ASSUME NEW i \in items, CleanBucket(i) PROVE Known'
  BY <1>13 DEF CleanBucket, timeVars, cacheVars, dbVars, cleanVars, procVars, history
<1>14. ASSUME NEW t \in keys, CleanKey(t) PROVE Known'
  BY <1>14 DEF CleanKey, NextKey, timeVars, cacheVars, dbVars, cleanVars, procVars, history
<1>15. ASSUME NEW t \in keys, CleanKeyRefused(t) PROVE Known'
  BY <1>15 DEF CleanKeyRefused, NextKey, Fail, timeVars, cacheVars, dbVars, cleanVars, procVars, history
<1>16. CASE Stop
  BY <1>16 DEF Stop, timeVars, cacheVars, dbVars, cleanVars, procVars, history
<1>17. CASE CloseCache
  BY <1>17 DEF CloseCache, timeVars, cacheVars, dbVars, cleanVars, procVars, history
<1>18. CASE CloseDB
  BY <1>18 DEF CloseDB, timeVars, cacheVars, dbVars, cleanVars, procVars, history
<1>19. CASE End
  BY <1>19 DEF End, timeVars, cacheVars, dbVars, cleanVars, procVars, history
<1>20. ASSUME NEW opens \in BOOLEAN, Boot(opens) PROVE Known'
  BY <1>20 DEF Boot, Fail, timeVars, cacheVars, dbVars, cleanVars, procVars, history
<1>21. CASE UNCHANGED vars
  BY <1>21 DEF vars, timeVars, cacheVars, dbVars, cleanVars, procVars, history
<1> QED
  BY <1>1, <1>2, <1>3, <1>4, <1>5, <1>6, <1>7, <1>8, <1>9, <1>10, <1>11, <1>12, <1>13, <1>14, <1>15, <1>16, <1>17, <1>18, <1>19, <1>20, <1>21 DEF Next, Adder, Cleaner

(* The database takes the value the cache holds. *)
THEOREM StepFields == TypeOK /\ Held /\ FieldsAgree /\ [Next]_vars => FieldsAgree'
<1> SUFFICES ASSUME TypeOK, Held, FieldsAgree, [Next]_vars PROVE FieldsAgree'
  OBVIOUS
<1> USE StorageAssumption DEF TypeOK, Time, Write, Entry, Meta, Free, FieldsAgree, InFlight, Held, Running, Nowhere
<1>1. CASE Clock
  BY <1>1 DEF Clock, timeVars, cacheVars, dbVars, cleanVars, procVars, history
<1>2. ASSUME NEW i \in Item, NEW ind \in Indicator, NEW tm \in Time, AddField(i, ind, tm) PROVE FieldsAgree'
  <2> DEFINE w == writes + 1
  <2>1. /\ w \in Write
        /\ fields[i][tm] = None => /\ fields' = [fields EXCEPT ![i][tm] = w]
                                   /\ added' = [added EXCEPT ![i][tm] = w]
        /\ fields[i][tm] # None => fields' = fields /\ added' = added
    BY <1>2 DEF AddField, Call
  <2>2. \A j \in Item, s \in Time :
          IF j = i /\ s = tm /\ fields[i][tm] = None THEN fields'[j][s] = w /\ added'[j][s] = w
          ELSE fields'[j][s] = fields[j][s] /\ added'[j][s] = added[j][s]
    BY <2>1
  <2>3. op = Free
    BY <1>2 DEF AddField, Call
  <2>4. fields[i][tm] = None => op'.entry.item = i /\ op'.entry.tm = tm /\ op' # Free
    BY <1>2 DEF AddField
  <2> QED
    BY <1>2, <2>1, <2>2, <2>3, <2>4 DEF AddField, dbVars, cleanVars, procVars
<1>3. ASSUME NEW i \in Item, NEW ind \in Indicator, AddTag(i, ind) PROVE FieldsAgree'
  BY <1>3 DEF AddTag, timeVars, cacheVars, dbVars, cleanVars, procVars, history
<1>4. CASE AddBucket
  BY <1>4 DEF AddBucket, timeVars, cacheVars, dbVars, cleanVars, procVars, history
<1>5. CASE PutMetadata
  BY <1>5 DEF PutMetadata, timeVars, cacheVars, dbVars, cleanVars, procVars, history
<1>6. CASE PutData
  BY <1>6 DEF PutData, timeVars, cacheVars, dbVars, cleanVars, procVars, history
<1>7. CASE Refuse
  BY <1>7 DEF Refuse, Fail, timeVars, cacheVars, dbVars, cleanVars, procVars, history
<1>8. CASE CleanTick
  BY <1>8 DEF CleanTick, timeVars, cacheVars, dbVars, cleanVars, procVars, history
<1>9. CASE CleanCache
  BY <1>9 DEF CleanCache, timeVars, cacheVars, dbVars, cleanVars, procVars, history
<1>10. CASE CleanList
  BY <1>10 DEF CleanList, timeVars, cacheVars, dbVars, cleanVars, procVars, history
<1>11. CASE CleanEnd
  BY <1>11 DEF CleanEnd, timeVars, cacheVars, dbVars, cleanVars, procVars, history
<1>12. CASE CleanQuit
  BY <1>12 DEF CleanQuit, timeVars, cacheVars, dbVars, cleanVars, procVars, history
<1>13. ASSUME NEW i \in items, CleanBucket(i) PROVE FieldsAgree'
  BY <1>13 DEF CleanBucket, timeVars, cacheVars, dbVars, cleanVars, procVars, history
<1>14. ASSUME NEW t \in keys, CleanKey(t) PROVE FieldsAgree'
  BY <1>14 DEF CleanKey, NextKey, timeVars, cacheVars, dbVars, cleanVars, procVars, history
<1>15. ASSUME NEW t \in keys, CleanKeyRefused(t) PROVE FieldsAgree'
  BY <1>15 DEF CleanKeyRefused, NextKey, Fail, timeVars, cacheVars, dbVars, cleanVars, procVars, history
<1>16. CASE Stop
  BY <1>16 DEF Stop, timeVars, cacheVars, dbVars, cleanVars, procVars, history
<1>17. CASE CloseCache
  BY <1>17 DEF CloseCache, timeVars, cacheVars, dbVars, cleanVars, procVars, history
<1>18. CASE CloseDB
  BY <1>18 DEF CloseDB, timeVars, cacheVars, dbVars, cleanVars, procVars, history
<1>19. CASE End
  BY <1>19 DEF End, timeVars, cacheVars, dbVars, cleanVars, procVars, history
<1>20. ASSUME NEW opens \in BOOLEAN, Boot(opens) PROVE FieldsAgree'
  BY <1>20 DEF Boot, Fail, timeVars, cacheVars, dbVars, cleanVars, procVars, history
<1>21. CASE UNCHANGED vars
  BY <1>21 DEF vars, timeVars, cacheVars, dbVars, cleanVars, procVars, history
<1> QED
  BY <1>1, <1>2, <1>3, <1>4, <1>5, <1>6, <1>7, <1>8, <1>9, <1>10, <1>11, <1>12, <1>13, <1>14, <1>15, <1>16, <1>17, <1>18, <1>19, <1>20, <1>21 DEF Next, Adder, Cleaner

(* Each deletion is of something expired. *)
THEOREM StepDropped == TypeOK /\ Held /\ Behind /\ Expired /\ NothingDroppedEarly /\ [Next]_vars => NothingDroppedEarly'
<1> SUFFICES ASSUME TypeOK, Held, Behind, Expired, NothingDroppedEarly, [Next]_vars PROVE NothingDroppedEarly'
  OBVIOUS
<1> USE StorageAssumption DEF TypeOK, Time, Write, Entry, Meta, Free, NothingDroppedEarly, Held, Behind, Expired, Running, Nowhere, Deadline
<1>1. CASE Clock
  BY <1>1 DEF Clock, timeVars, cacheVars, dbVars, cleanVars, procVars, history
<1>2. ASSUME NEW i \in Item, NEW ind \in Indicator, NEW tm \in Time, AddField(i, ind, tm) PROVE NothingDroppedEarly'
  <2> DEFINE w == writes + 1
  <2>1. /\ w \in Write
        /\ fields[i][tm] = None => /\ fields' = [fields EXCEPT ![i][tm] = w]
                                   /\ added' = [added EXCEPT ![i][tm] = w]
        /\ fields[i][tm] # None => fields' = fields /\ added' = added
    BY <1>2 DEF AddField, Call
  <2>2. \A j \in Item, s \in Time :
          IF j = i /\ s = tm /\ fields[i][tm] = None THEN fields'[j][s] = w /\ added'[j][s] = w
          ELSE fields'[j][s] = fields[j][s] /\ added'[j][s] = added[j][s]
    BY <2>1
  <2>3. UNCHANGED <<data, written, cacheSwept, dbSwept>>
    BY <1>2 DEF AddField, dbVars, cleanVars
  <2>4. ASSUME NEW j \in Item, NEW s \in Time
        PROVE fields'[j][s] # added'[j][s] => s <= cacheSwept'
    BY <2>2, <2>3, <2>4
  <2> QED
    BY <2>3, <2>4
<1>3. ASSUME NEW i \in Item, NEW ind \in Indicator, AddTag(i, ind) PROVE NothingDroppedEarly'
  BY <1>3 DEF AddTag, timeVars, cacheVars, dbVars, cleanVars, procVars, history
<1>4. CASE AddBucket
  BY <1>4 DEF AddBucket, timeVars, cacheVars, dbVars, cleanVars, procVars, history
<1>5. CASE PutMetadata
  BY <1>5 DEF PutMetadata, timeVars, cacheVars, dbVars, cleanVars, procVars, history
<1>6. CASE PutData
  BY <1>6 DEF PutData, timeVars, cacheVars, dbVars, cleanVars, procVars, history
<1>7. CASE Refuse
  BY <1>7 DEF Refuse, Fail, timeVars, cacheVars, dbVars, cleanVars, procVars, history
<1>8. CASE CleanTick
  BY <1>8 DEF CleanTick, timeVars, cacheVars, dbVars, cleanVars, procVars, history
<1>9. CASE CleanCache
  BY <1>9 DEF CleanCache, timeVars, cacheVars, dbVars, cleanVars, procVars, history
<1>10. CASE CleanList
  BY <1>10 DEF CleanList, timeVars, cacheVars, dbVars, cleanVars, procVars, history
<1>11. CASE CleanEnd
  BY <1>11 DEF CleanEnd, timeVars, cacheVars, dbVars, cleanVars, procVars, history
<1>12. CASE CleanQuit
  BY <1>12 DEF CleanQuit, timeVars, cacheVars, dbVars, cleanVars, procVars, history
<1>13. ASSUME NEW i \in items, CleanBucket(i) PROVE NothingDroppedEarly'
  BY <1>13 DEF CleanBucket, timeVars, cacheVars, dbVars, cleanVars, procVars, history
<1>14. ASSUME NEW t \in keys, CleanKey(t) PROVE NothingDroppedEarly'
  BY <1>14 DEF CleanKey, NextKey, timeVars, cacheVars, dbVars, cleanVars, procVars, history
<1>15. ASSUME NEW t \in keys, CleanKeyRefused(t) PROVE NothingDroppedEarly'
  BY <1>15 DEF CleanKeyRefused, NextKey, Fail, timeVars, cacheVars, dbVars, cleanVars, procVars, history
<1>16. CASE Stop
  BY <1>16 DEF Stop, timeVars, cacheVars, dbVars, cleanVars, procVars, history
<1>17. CASE CloseCache
  BY <1>17 DEF CloseCache, timeVars, cacheVars, dbVars, cleanVars, procVars, history
<1>18. CASE CloseDB
  BY <1>18 DEF CloseDB, timeVars, cacheVars, dbVars, cleanVars, procVars, history
<1>19. CASE End
  BY <1>19 DEF End, timeVars, cacheVars, dbVars, cleanVars, procVars, history
<1>20. ASSUME NEW opens \in BOOLEAN, Boot(opens) PROVE NothingDroppedEarly'
  BY <1>20 DEF Boot, Fail, timeVars, cacheVars, dbVars, cleanVars, procVars, history
<1>21. CASE UNCHANGED vars
  BY <1>21 DEF vars, timeVars, cacheVars, dbVars, cleanVars, procVars, history
<1> QED
  BY <1>1, <1>2, <1>3, <1>4, <1>5, <1>6, <1>7, <1>8, <1>9, <1>10, <1>11, <1>12, <1>13, <1>14, <1>15, <1>16, <1>17, <1>18, <1>19, <1>20, <1>21 DEF Next, Adder, Cleaner

(* The invariant holds in every reachable state.                           *)
THEOREM SpecIInv == Spec => []IInv
<1>1. IInv /\ [Next]_vars => IInv'
  BY StepType, StepHeld, StepBehind, StepExpired, StepOrigin, StepKnown, StepFields,
     StepDropped DEF IInv
<1> QED
  BY InitIInv, <1>1, PTL DEF Spec

(* Every reachable state is well typed.                                    *)
THEOREM TypeCorrect == Spec => []TypeOK
<1>1. IInv => TypeOK
  BY DEF IInv
<1> QED
  BY SpecIInv, <1>1, PTL

(* Cache and database never hold different values for a timestamp, except  *)
(* while one is written and after the database refused one.                *)
THEOREM CacheAndDatabaseAgree == Spec => []FieldsAgree
<1>1. IInv => FieldsAgree
  BY DEF IInv
<1> QED
  BY SpecIInv, <1>1, PTL

(* Nothing leaves the cache or the database before it has expired, however *)
(* often the process is started again.                                     *)
THEOREM OnlyExpiredGoes == Spec => []NothingDroppedEarly
<1>1. IInv => NothingDroppedEarly
  BY DEF IInv
<1> QED
  BY SpecIInv, <1>1, PTL

(* A step writes over a stored value only where FirstStays allows it.      *)
THEOREM StepStays ==
  IInv /\ [Next]_vars =>
    \A i \in Item, t \in Time :
      (data[i][t] # None /\ data'[i][t] \notin {None, data[i][t]})
        => t <= cacheSwept \/ written[i][t][2] # run \/ proc = "cleared"
<1> SUFFICES ASSUME IInv, [Next]_vars, NEW i \in Item, NEW t \in Time,
                    data[i][t] # None, data'[i][t] \notin {None, data[i][t]}
             PROVE t <= cacheSwept \/ written[i][t][2] # run \/ proc = "cleared"
  OBVIOUS
<1> USE DEF IInv, TypeOK, timeVars, cacheVars, dbVars, cleanVars, procVars, history
<1>1. CASE PutData
  BY <1>1 DEF PutData, Held, Origin, Known, InFlight, Running, Free, Entry
<1>2. CASE \E k \in keys : CleanKey(k)
  BY <1>2 DEF CleanKey, NextKey
<1>3. CASE UNCHANGED data
  BY <1>3
<1> QED
  BY <1>1, <1>2, <1>3 DEF Next, Adder, Cleaner, vars, Clock, AddField, AddTag, AddBucket, PutMetadata,
     Refuse, CleanTick, CleanCache, CleanList, CleanEnd, CleanQuit, CleanBucket,
     CleanKeyRefused, Stop, CloseCache, CloseDB, End, Boot

(* A second value for a timestamp never replaces the first while the cache *)
(* of the process that wrote it holds it.                                  *)
THEOREM NoRewriting == Spec => FirstStays
<1>1. IInv /\ [Next]_vars => [\A i \in Item, t \in Time :
       (data[i][t] # None /\ data'[i][t] \notin {None, data[i][t]})
         => \/ t <= cacheSwept
            \/ written[i][t][2] # run
            \/ proc = "cleared"]_vars
  BY StepStays
<1> QED
  BY SpecIInv, <1>1, PTL DEF Spec, FirstStays

-----------------------------------------------------------------------------
(* The refinement: every step of Storage is one of Archive, or none *)

(* The data of an item are written after its metadata. *)
MetaFirst == op.at = "data" => meta[op.entry.item] \in Meta

AllStorage == IInv /\ MetaFirst

LEMMA StepMetaFirst == TypeOK /\ MetaFirst /\ [Next]_vars => MetaFirst'
<1> SUFFICES ASSUME TypeOK, MetaFirst, [Next]_vars PROVE MetaFirst'
  OBVIOUS
<1> USE DEF MetaFirst, Free
<1>1. CASE PutMetadata
  <2>1. op.entry.item \in Item /\ op.entry.indicator \in Indicator /\ op.entry.write \in Write
    BY <1>1 DEF PutMetadata, TypeOK, Entry
  <2>2. /\ op' = [op EXCEPT !.at = "data"]
        /\ meta' = [meta EXCEPT ![op.entry.item] =
                      [indicator |-> op.entry.indicator, tag |-> op.entry.write]]
        /\ op \in [at : {"bucket", "meta", "data"}, entry : Entry]
    BY <1>1 DEF PutMetadata, TypeOK
  <2>3. op'.entry = op.entry /\ meta'[op.entry.item] \in Meta
    BY <2>1, <2>2 DEF TypeOK, Meta
  <2> QED
    BY <2>3
<1>2. CASE AddBucket
  <2>1. op \in [at : {"bucket", "meta", "data"}, entry : Entry]
    BY <1>2 DEF AddBucket, TypeOK
  <2>2. op'.at = "meta"
    BY <1>2, <2>1 DEF AddBucket
  <2> QED
    BY <2>2
<1>3. ASSUME NEW i \in Item, NEW ind \in Indicator, NEW tm \in Time, AddField(i, ind, tm)
      PROVE  MetaFirst'
  BY <1>3 DEF AddField, Call, dbVars
<1>4. ASSUME NEW i \in Item, NEW ind \in Indicator, AddTag(i, ind) PROVE MetaFirst'
  BY <1>4 DEF AddTag
<1>5. CASE PutData \/ Refuse \/ End
  BY <1>5 DEF PutData, Refuse, End
<1>6. CASE UNCHANGED <<op, meta>>
  BY <1>6
<1> QED
  BY <1>1, <1>2, <1>3, <1>4, <1>5, <1>6 DEF Next, Adder, Cleaner, vars, Clock, CleanTick,
     CleanCache, CleanList, CleanEnd, CleanQuit, CleanBucket, CleanKey, CleanKeyRefused, Stop,
     CloseCache, CloseDB, Boot, dbVars

(* What Archive sees has not changed. *)
Same == UNCHANGED <<clock, fields, Flight, Described, data>>

LEMMA SameFlight == UNCHANGED op => UNCHANGED Flight
  BY DEF Flight
LEMMA SameDescribed == UNCHANGED meta => UNCHANGED Described
  BY DEF Described

(* Transactions that bring no data, the cleaner's lists and the first and  *)
(* last steps of a stop are none of Archive.                               *)
LEMMA RefQuiet ==
  ASSUME CleanTick \/ CleanList \/ CleanEnd \/ CleanQuit \/ Stop \/ CloseDB
           \/ (\E opens \in BOOLEAN : Boot(opens)) \/ (\E i \in items : CleanBucket(i))
           \/ (\E t \in keys : CleanKeyRefused(t)) \/ UNCHANGED vars
  PROVE  Same
<1>1. UNCHANGED <<clock, fields, op, meta, data>>
  BY DEF CleanTick, CleanList, CleanEnd, CleanQuit, Stop, CloseDB, Boot, CleanBucket,
         CleanKeyRefused, vars, timeVars, cacheVars, dbVars
<1> QED
  BY <1>1, SameFlight, SameDescribed DEF Same

LEMMA RefBucket ==
  ASSUME TypeOK, AddBucket PROVE Same
<1>1. /\ op \in [at : {"bucket", "meta", "data"}, entry : Entry]
      /\ op' = [op EXCEPT !.at = "meta"]
      /\ UNCHANGED <<clock, fields, meta, data>>
  BY DEF AddBucket, TypeOK, Free, timeVars, cacheVars
<1>2. op'.entry = op.entry /\ op # Free /\ op' # Free
  <2>1. op.at # "free" /\ op'.at = "meta" /\ op'.entry = op.entry
    BY <1>1
  <2> QED
    BY <2>1 DEF Free
<1> QED
  BY <1>1, <1>2, SameDescribed DEF Same, Flight

(* A tag is changed only where there is one. *)
LEMMA RefTag ==
  ASSUME TypeOK, NEW i \in Item, NEW ind \in Indicator, AddTag(i, ind) PROVE Same
<1>1. UNCHANGED <<clock, fields, op, data>>
  BY DEF AddTag
<1>2. Described' = Described
  <2>1. CASE i \in cached /\ indicator[i] = ind
    <3>1. meta' = meta
      BY <2>1, Zenon DEF AddTag
    <3> QED
      BY <3>1, SameDescribed
  <2>2. CASE ~(i \in cached /\ indicator[i] = ind)
    <3>1. meta[i] \in Meta /\ meta' = [meta EXCEPT ![i].tag = writes']
      BY <2>2 DEF AddTag, TypeOK
    <3>0. writes' \in Write
      BY StorageAssumption DEF AddTag, TypeOK, Write
    <3>2. [meta[i] EXCEPT !.tag = writes'] \in Meta
      BY <3>0, <3>1 DEF Meta
    <3>3. \A j \in Item : meta'[j] = IF j = i THEN [meta[i] EXCEPT !.tag = writes'] ELSE meta[j]
      BY <3>1 DEF TypeOK
    <3> QED
      BY <3>1, <3>2, <3>3 DEF Described
  <2> QED
    BY <2>1, <2>2
<1> QED
  BY <1>1, <1>2, SameFlight DEF Same

(* addField takes a value if its timestamp is free, *)
LEMMA RefAddField ==
  ASSUME TypeOK, NEW i \in Item, NEW ind \in Indicator, NEW tm \in Time, tm <= clock,
         AddField(i, ind, tm)
  PROVE  Same \/ \E v \in Write : Abs!Take(i, tm, v)
<1>0. writes' \in Write
  BY StorageAssumption DEF AddField, Call, TypeOK, Write
<1>1. UNCHANGED <<clock, meta, data>> /\ op = Free
  BY DEF AddField, Call, dbVars
<1>2. CASE fields[i][tm] # None
  <2>1. UNCHANGED <<fields, op>>
    BY <1>2 DEF AddField
  <2> QED
    BY <1>1, <2>1, SameFlight, SameDescribed DEF Same
<1>3. CASE fields[i][tm] = None
  <2>1. /\ fields' = [fields EXCEPT ![i][tm] = writes']
        /\ op' = [at |-> "bucket",
                  entry |-> [item |-> i, indicator |-> ind, write |-> writes', tm |-> tm]]
    BY <1>3 DEF AddField
  <2>2. Flight = {}
    BY <1>1 DEF Flight
  <2>3. Flight' = {<<i, tm, writes'>>}
    <3>1. op' # Free
      BY <2>1 DEF Free
    <3> QED
      BY <2>1, <3>1 DEF Flight
  <2>4. Abs!Take(i, tm, writes')
    BY <1>1, <1>3, <2>1, <2>2, <2>3, SameDescribed DEF Abs!Take
  <2> QED
    BY <1>0, <2>4
<1> QED
  BY <1>2, <1>3

(* describes its item, *)
LEMMA RefPutMetadata ==
  ASSUME TypeOK, PutMetadata PROVE \E e \in Flight : Abs!Describe(e)
<1> DEFINE e == <<op.entry.item, op.entry.tm, op.entry.write>>
           m == [indicator |-> op.entry.indicator, tag |-> op.entry.write]
<1>1. /\ op \in [at : {"bucket", "meta", "data"}, entry : Entry]
      /\ op' = [op EXCEPT !.at = "data"]
      /\ meta' = [meta EXCEPT ![op.entry.item] = m]
      /\ UNCHANGED <<clock, fields, data>>
  BY DEF PutMetadata, TypeOK, Free, timeVars, cacheVars
<1>2. op'.entry = op.entry /\ op # Free /\ op' # Free
  <2>1. op.at # "free" /\ op'.at = "data" /\ op'.entry = op.entry
    BY <1>1
  <2> QED
    BY <2>1 DEF Free
<1>3. Flight = {e} /\ Flight' = Flight
  BY <1>2 DEF Flight
<1>4. m \in Meta /\ op.entry.item \in Item
  BY <1>1 DEF Entry, Meta
<1> HIDE DEF m
<1>5. \A j \in Item : meta'[j] = IF j = op.entry.item THEN m ELSE meta[j]
  BY <1>1 DEF TypeOK
<1>6. Described' = Described \cup {op.entry.item}
  BY <1>4, <1>5 DEF Described
<1>7. Abs!Describe(e)
  BY <1>1, <1>3, <1>6 DEF Abs!Describe
<1> QED
  BY <1>3, <1>7

(* archives the value, *)
LEMMA RefPutData ==
  ASSUME TypeOK, MetaFirst, PutData PROVE \E e \in Flight : Abs!Store(e)
<1> DEFINE e == <<op.entry.item, op.entry.tm, op.entry.write>>
<1>1. /\ op \in [at : {"bucket", "meta", "data"}, entry : Entry]
      /\ op' = Free /\ op # Free /\ op.at = "data"
      /\ data' = [data EXCEPT ![op.entry.item][op.entry.tm] = op.entry.write]
      /\ UNCHANGED <<clock, fields, meta>>
  BY DEF PutData, TypeOK, Free, timeVars, cacheVars
<1>2. Flight = {e} /\ Flight' = {}
  BY <1>1 DEF Flight
<1>3. e[1] = op.entry.item /\ e[2] = op.entry.tm /\ e[3] = op.entry.write
  OBVIOUS
<1>4. op.entry.item \in Described
  BY <1>1 DEF MetaFirst, Described, Entry
<1> HIDE DEF e
<1>5. Abs!Store(e)
  BY <1>1, <1>2, <1>3, <1>4, SameDescribed DEF Abs!Store
<1> QED
  BY <1>2, <1>5

(* or loses it. *)
LEMMA RefRefuse ==
  ASSUME Refuse PROVE Abs!Lose
<1>1. op' = Free /\ UNCHANGED <<clock, fields, meta, data>>
  BY DEF Refuse, cacheVars, dbVars
<1> QED
  BY <1>1, SameDescribed DEF Abs!Lose, Flight

(* The cleaner forgets what has expired by its last tick, *)
LEMMA RefCleanCache ==
  ASSUME TypeOK, Behind, CleanCache PROVE Same \/ \E d \in Time : Abs!Forget(d)
<1>1. /\ UNCHANGED <<clock, op, meta, data>> /\ op = Free
      /\ fields' = [i \in Item |-> [t \in Time |-> IF t <= cacheSwept THEN None ELSE fields[i][t]]]
  BY DEF CleanCache, timeVars, dbVars
<1>2. CASE cacheSwept <= 0
  <2>1. \A t \in Time : ~(t <= cacheSwept)
    BY <1>2, StorageAssumption DEF TypeOK, Deadline, Time
  <2>2. fields' = [i \in Item |-> [t \in Time |-> fields[i][t]]]
    BY <1>1, <2>1
  <2>3. \A i \in Item : [t \in Time |-> fields[i][t]] = fields[i]
    BY DEF TypeOK
  <2>4. fields' = fields
    BY <2>2, <2>3 DEF TypeOK
  <2> QED
    BY <1>1, <2>4, SameFlight, SameDescribed DEF Same
<1>3. CASE ~(cacheSwept <= 0)
  <2>1. cacheSwept \in Time /\ cacheSwept <= clock - CacheExpiration
    BY <1>3, StorageAssumption DEF TypeOK, Behind, Deadline, Time
  <2>2. Flight = {}
    BY <1>1 DEF Flight
  <2>3. Abs!Forget(cacheSwept)
    BY <1>1, <2>1, <2>2, SameFlight, SameDescribed DEF Abs!Forget
  <2> QED
    BY <2>1, <2>3
<1> QED
  BY <1>2, <1>3

(* and deletes, without the mutex, what has expired by the clock of now. *)
LEMMA RefCleanKey ==
  ASSUME TypeOK, Behind, Expired, NEW t \in keys, CleanKey(t)
  PROVE  \E i \in Item, s \in Time : Abs!Expire(i, s)
<1>1. /\ UNCHANGED <<clock, fields, op, meta>> /\ item \in Item /\ t \in Time
      /\ data' = [data EXCEPT ![item][t] = None] /\ t < dbSwept
  BY DEF CleanKey, NextKey, TypeOK, Expired, timeVars, cacheVars
<1>2. t < clock - DbExpiration
  BY <1>1, StorageAssumption DEF TypeOK, Behind, Deadline, Time
<1>3. Abs!Expire(item, t)
  BY <1>1, <1>2, SameFlight, SameDescribed DEF Abs!Expire
<1> QED
  BY <1>1, <1>3

(* A stop empties the cache between two calls, the end of the process at   *)
(* any time.                                                               *)
LEMMA RefEnd ==
  ASSUME CloseCache \/ End PROVE Abs!End
<1>1. UNCHANGED <<clock, meta, data>> /\ op' = Free /\ fields' = Nowhere
  BY DEF CloseCache, End, timeVars, dbVars
<1> QED
  BY <1>1, SameDescribed DEF Abs!End, Abs!Empty, Nowhere, Flight

LEMMA RefClock ==
  ASSUME Clock PROVE Abs!Pass
<1>1. clock' = clock + 1 /\ UNCHANGED <<fields, op, meta, data>>
  BY DEF Clock, cacheVars, dbVars
<1> QED
  BY <1>1, SameFlight, SameDescribed DEF Abs!Pass

(* Every step of Storage is one of Archive, or none, *)
THEOREM StepRefines == AllStorage /\ [Next]_vars => [Abs!Next]_(Abs!avars)
<1> SUFFICES ASSUME AllStorage, [Next]_vars PROVE Same \/ Abs!Next
  BY DEF Same, Abs!avars
<1>0. TypeOK /\ Behind /\ Expired /\ MetaFirst
  BY DEF AllStorage, IInv
<1>1. CASE CleanTick \/ CleanList \/ CleanEnd \/ CleanQuit \/ Stop \/ CloseDB
             \/ (\E opens \in BOOLEAN : Boot(opens)) \/ (\E i \in items : CleanBucket(i))
             \/ (\E t \in keys : CleanKeyRefused(t)) \/ UNCHANGED vars
  BY <1>1, RefQuiet
<1>2. CASE Clock
  BY <1>2, RefClock DEF Abs!Next
<1>3. ASSUME NEW i \in Item, NEW ind \in Indicator, NEW tm \in Time, tm <= clock,
             AddField(i, ind, tm)
      PROVE  Same \/ Abs!Next
  BY <1>0, <1>3, RefAddField DEF Abs!Next
<1>4. ASSUME NEW i \in Item, NEW ind \in Indicator, AddTag(i, ind) PROVE Same
  BY <1>0, <1>4, RefTag
<1>5. CASE AddBucket
  BY <1>0, <1>5, RefBucket
<1>6. CASE PutMetadata
  BY <1>0, <1>6, RefPutMetadata DEF Abs!Next
<1>7. CASE PutData
  BY <1>0, <1>7, RefPutData DEF Abs!Next
<1>8. CASE Refuse
  BY <1>8, RefRefuse DEF Abs!Next
<1>9. CASE CleanCache
  BY <1>0, <1>9, RefCleanCache DEF Abs!Next
<1>10. ASSUME NEW t \in keys, CleanKey(t) PROVE Abs!Next
  BY <1>0, <1>10, RefCleanKey DEF Abs!Next
<1>11. CASE CloseCache \/ End
  BY <1>11, RefEnd DEF Abs!Next
<1> QED
  BY <1>1, <1>2, <1>3, <1>4, <1>5, <1>6, <1>7, <1>8, <1>9, <1>10, <1>11 DEF Next, Adder, Cleaner

(* and it starts as Archive does. *)
THEOREM InitRefines == Init => Abs!Init /\ MetaFirst
<1> SUFFICES ASSUME Init PROVE Abs!Init /\ MetaFirst
  OBVIOUS
<1>1. op = Free /\ clock = 1 /\ fields = Nowhere /\ data = Nowhere /\ meta = NoneYet
  BY DEF Init
<1>2. None \notin Meta
  BY StorageAssumption DEF Meta, Write
<1>3. Flight = {} /\ Described = {}
  BY <1>1, <1>2 DEF Flight, Described, NoneYet
<1> QED
  BY <1>1, <1>3 DEF Abs!Init, Abs!Empty, Nowhere, MetaFirst, Free

(* Storage implements Archive: for any items, failures, stops and kills,   *)
(* values reach the database one by one in the order in which addField took *)
(* them, never before the metadata of their item, and the cleaner, without *)
(* the mutex, takes only what has expired.                                 *)
THEOREM Implements == Spec => ImplementsArchive
<1>1. AllStorage /\ [Next]_vars => AllStorage'
  BY StepType, StepHeld, StepBehind, StepExpired, StepOrigin, StepKnown, StepFields,
     StepDropped, StepMetaFirst DEF AllStorage, IInv
<1>2. Init => AllStorage
  BY InitIInv, InitRefines DEF AllStorage
<1>3. Spec => []AllStorage
  BY <1>1, <1>2, PTL DEF Spec
<1> QED
  BY <1>3, InitRefines, StepRefines, PTL DEF Spec, ImplementsArchive, Abs!Spec
=============================================================================
