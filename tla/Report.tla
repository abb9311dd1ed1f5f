------------------------------- MODULE Report -------------------------------
(***************************************************************************)
(* Store and forward of reports (report/http_request.go): output plugins   *)
(* put reports into dataChannel, receiveData posts them one by one and     *)
(* saves those that fail in a bucket of the database under the second of   *)
(* the failure, retryPeriodically posts the saved ones again and deletes   *)
(* those that were answered.  The database's cleaner (storage/storer.go)   *)
(* deletes old entries.  The process may be stopped by a signal or killed  *)
(* and is started again; only the database survives.                       *)
(***************************************************************************)
EXTENDS Integers, Sequences, FiniteSets

CONSTANTS
  Reports,     \* number of reports the output plugins make
  ChanCap,     \* capacity of dataChannel (10)
  MaxTime,     \* bound on the clock, in seconds
  Expiration,  \* DBConf.Expiration, in seconds
  MaxFailures, \* bound on the posts that fail
  MaxEnds,     \* bound on the stops and kills
  Nothing

ASSUME ReportAssumption ==
  /\ Reports \in Nat /\ ChanCap \in Nat \ {0}
  /\ MaxTime \in Nat \ {0} /\ Expiration \in Nat
  /\ MaxFailures \in Nat /\ MaxEnds \in Nat
  /\ Nothing \notin Nat /\ Nothing \notin Nat \X Nat

Report == 1..Reports
Time   == 1..MaxTime
Entry  == Time \X Report      \* a key of the bucket and its value

VARIABLES
  made,        \* the number of reports made so far
  dataChannel,
  receive,     \* where receiveData is
  detail,      \* the report it handles
  retry,       \* where retryPeriodically is
  keys,        \* keys AllDataInBucket still has to read
  dataMap,     \* entries read and not retried yet
  current,     \* the entry being retried
  reached,     \* goroutines whose request the server has taken
  bucket,      \* saveBucket
  now,         \* the clock
  proc,        \* "down", "up", or "stopping": the context is cancelled
  db,          \* is the database open?
  settled,     \* reports the server took or refused for good (400, 409)
  answered,    \* reports whose answer this process has understood
  slots,       \* history: the reports saved under each key
  cut,         \* history: reports in memory at the end of a process
  failures, ends

chanVars   == <<made, dataChannel>>
recvVars   == <<receive, detail>>
retryVars  == <<retry, keys, dataMap, current>>
serverVars == <<reached, settled, answered, failures>>
procVars   == <<proc, db, ends>>
history    == <<slots, cut>>
vars == <<chanVars, recvVars, retryVars, serverVars, bucket, now, procVars, history>>

Running == proc # "down"

TypeOK ==
  /\ made \in 0..Reports
  /\ dataChannel \in Seq(Report) /\ Len(dataChannel) <= ChanCap
  /\ receive \in {"select", "post", "save", "gone"}
  /\ detail \in Report \cup {Nothing}
  /\ retry \in {"select", "read", "next", "post", "delete", "check", "gone"}
  /\ keys \subseteq Time /\ dataMap \subseteq Entry
  /\ current \in Entry \cup {Nothing}
  /\ reached \subseteq {"receive", "retry"}
  /\ bucket \in [Time -> Report \cup {Nothing}]
  /\ now \in Time /\ proc \in {"down", "up", "stopping"} /\ db \in BOOLEAN
  /\ settled \subseteq Report /\ answered \subseteq Report
  /\ slots \in [Time -> SUBSET Report] /\ cut \subseteq Report
  /\ failures \in 0..MaxFailures /\ ends \in 0..MaxEnds

Init ==
  /\ made = 0 /\ dataChannel = <<>>
  /\ receive = "select" /\ detail = Nothing
  /\ retry = "select" /\ keys = {} /\ dataMap = {} /\ current = Nothing
  /\ reached = {} /\ settled = {} /\ answered = {} /\ failures = 0
  /\ bucket = [t \in Time |-> Nothing] /\ now = 1
  /\ proc = "up" /\ db = TRUE /\ ends = 0
  /\ slots = [t \in Time |-> {}] /\ cut = {}

Stored == {t \in Time : bucket[t] # Nothing}

Clock ==
  /\ now < MaxTime /\ now' = now + 1
  /\ UNCHANGED <<chanVars, recvVars, retryVars, serverVars, bucket, procVars, history>>

-----------------------------------------------------------------------------
\* Mutant: the channel has no capacity.
UploadDataUnbounded ==
  /\ Running /\ made < Reports
  /\ made' = made + 1
  /\ dataChannel' = Append(dataChannel, made + 1)
  /\ UNCHANGED <<recvVars, retryVars, serverVars, bucket, now, procVars, history>>

(* UploadData, from a Lua output plugin: blocks while the channel is full. *)
UploadData ==
  /\ Running /\ made < Reports /\ Len(dataChannel) < ChanCap
  /\ made' = made + 1
  /\ dataChannel' = Append(dataChannel, made + 1)
  /\ UNCHANGED <<recvVars, retryVars, serverVars, bucket, now, procVars, history>>

-----------------------------------------------------------------------------
(* The server, and what reportData makes of its answers *)

Posting(p) == IF p = "receive" THEN receive = "post" ELSE retry = "post"
Posted(p)  == IF p = "receive" THEN detail ELSE current[2]

(* The server takes the report, perhaps after the context was cancelled.   *)
(* The answer may still be lost, and an answer 200 is an error to          *)
(* reportData.                                                             *)
Take(p) ==
  /\ Running /\ Posting(p) /\ p \notin reached
  /\ reached' = reached \cup {p}
  /\ settled' = settled \cup {Posted(p)}
  /\ UNCHANGED <<chanVars, recvVars, retryVars, answered, failures, bucket, now,
                 procVars, history>>

(* reportData returns nil: 201 to 300, or 400 and 409, which drop the report. *)
Understood(p) ==
  /\ Posting(p) /\ (proc = "up" \/ p \in reached)
  /\ settled' = settled \cup {Posted(p)}
  /\ answered' = answered \cup {Posted(p)}
  /\ reached' = reached \ {p}
  /\ UNCHANGED failures

(* reportData returns an error; with a cancelled context it always may. *)
Failed(p) ==
  /\ Posting(p)
  /\ proc = "stopping" \/ failures < MaxFailures
  /\ failures' = IF proc = "stopping" THEN failures ELSE failures + 1
  /\ reached' = reached \ {p}
  /\ UNCHANGED <<settled, answered>>

-----------------------------------------------------------------------------
(* receiveData *)

ReceiveTake ==
  /\ Running /\ receive = "select" /\ dataChannel # <<>>
  /\ receive' = "post" /\ detail' = Head(dataChannel)
  /\ dataChannel' = Tail(dataChannel)
  /\ UNCHANGED <<made, retryVars, serverVars, bucket, now, procVars, history>>

ReceiveDone ==
  /\ Running /\ Understood("receive")
  /\ receive' = "select" /\ detail' = Nothing
  /\ UNCHANGED <<chanVars, retryVars, bucket, now, procVars, history>>

ReceiveFailed ==
  /\ Running /\ Failed("receive")
  /\ receive' = "save" /\ UNCHANGED detail
  /\ UNCHANGED <<chanVars, retryVars, bucket, now, procVars, history>>

\* Mutant: the report is saved and posted again at once.
SaveDataRepost ==
  /\ Running /\ receive = "save" /\ db
  /\ bucket' = [bucket EXCEPT ![now] = detail]
  /\ slots' = [slots EXCEPT ![now] = @ \cup {detail}]
  /\ receive' = "post"
  /\ UNCHANGED <<chanVars, detail, retryVars, serverVars, now, procVars, cut>>

(* saveData: the key is the current second, an entry that is there is      *)
(* overwritten; a database that is closed takes nothing.                   *)
SaveData ==
  /\ Running /\ receive = "save"
  /\ IF db THEN /\ bucket' = [bucket EXCEPT ![now] = detail]
                /\ slots' = [slots EXCEPT ![now] = @ \cup {detail}]
                /\ UNCHANGED cut
           ELSE /\ cut' = cut \cup {detail}
                /\ UNCHANGED <<bucket, slots>>
  /\ receive' = "select" /\ detail' = Nothing
  /\ UNCHANGED <<chanVars, retryVars, serverVars, now, procVars>>

\* Mutant: a break without its label leaves the select only.
ReceiveQuitUnlabelled ==
  /\ proc = "stopping" /\ receive = "select" /\ receive' = "select"
  /\ UNCHANGED <<chanVars, detail, retryVars, serverVars, bucket, now, procVars, history>>

(* The select takes ctx.Done, even if reports are waiting. *)
ReceiveQuit ==
  /\ proc = "stopping" /\ receive = "select"
  /\ receive' = "gone"
  /\ UNCHANGED <<chanVars, detail, retryVars, serverVars, bucket, now, procVars, history>>

-----------------------------------------------------------------------------
(* retryPeriodically, getData and retryReport *)

(* The keys are listed, then read one by one, each in a transaction of its *)
(* own; without a key, or with a closed database, this round is over.      *)
RetryList ==
  /\ Running /\ retry = "select" /\ db /\ Stored # {}
  /\ retry' = "read" /\ keys' = Stored
  /\ UNCHANGED <<chanVars, recvVars, dataMap, current, serverVars, bucket, now,
                 procVars, history>>

RetryRead(t) ==
  /\ Running /\ retry = "read" /\ db /\ t \in keys
  /\ keys' = keys \ {t}
  /\ dataMap' = dataMap \cup {<<u, bucket[u]>> : u \in {t} \cap Stored}
  /\ UNCHANGED <<chanVars, recvVars, retry, current, serverVars, bucket, now,
                 procVars, history>>

(* "database not open" ends the reading; what was read is retried. *)
RetryReadEnd ==
  /\ Running /\ retry = "read" /\ (keys = {} \/ ~db)
  /\ retry' = "next" /\ keys' = {}
  /\ UNCHANGED <<chanVars, recvVars, dataMap, current, serverVars, bucket, now,
                 procVars, history>>

RetryNext(e) ==
  /\ Running /\ retry = "next" /\ e \in dataMap
  /\ retry' = "post" /\ current' = e /\ dataMap' = dataMap \ {e}
  /\ UNCHANGED <<chanVars, recvVars, keys, serverVars, bucket, now, procVars, history>>

RetryOver ==
  /\ Running /\ retry = "next" /\ dataMap = {}
  /\ retry' = "select"
  /\ UNCHANGED <<chanVars, recvVars, keys, dataMap, current, serverVars, bucket, now,
                 procVars, history>>

RetryDone ==
  /\ Running /\ Understood("retry")
  /\ retry' = "delete"
  /\ UNCHANGED <<chanVars, recvVars, keys, dataMap, current, bucket, now, procVars, history>>

\* Mutants: the entry is deleted whatever the answer; the first failure ends
\* the goroutine.
RetryFailedDelete ==
  /\ Running /\ Failed("retry") /\ retry' = "delete"
  /\ UNCHANGED <<chanVars, recvVars, keys, dataMap, current, bucket, now, procVars, history>>
RetryFailedReturn ==
  /\ Running /\ Failed("retry") /\ retry' = "gone" /\ current' = Nothing /\ dataMap' = {}
  /\ UNCHANGED <<chanVars, recvVars, keys, bucket, now, procVars, history>>

\* Mutant: what failed again is saved again, under the second of this failure.
RetryFailedSave ==
  /\ Running /\ Failed("retry") /\ retry' = "check" /\ current' = Nothing
  /\ bucket' = IF db THEN [bucket EXCEPT ![now] = current[2]] ELSE bucket
  /\ UNCHANGED <<chanVars, recvVars, keys, dataMap, now, procVars, history>>

RetryFailed ==
  /\ Running /\ Failed("retry")
  /\ retry' = "check" /\ current' = Nothing
  /\ UNCHANGED <<chanVars, recvVars, keys, dataMap, bucket, now, procVars, history>>

\* Mutant: the key is the second of the deletion.
RetryDeleteNow ==
  /\ Running /\ retry = "delete"
  /\ bucket' = IF db THEN [bucket EXCEPT ![now] = Nothing] ELSE bucket
  /\ retry' = "check" /\ current' = Nothing
  /\ UNCHANGED <<chanVars, recvVars, keys, dataMap, serverVars, now, procVars, history>>

(* DelData: by key, whatever is stored there by now; the error of a closed *)
(* database is ignored.                                                    *)
RetryDelete ==
  /\ Running /\ retry = "delete"
  /\ bucket' = IF db THEN [bucket EXCEPT ![current[1]] = Nothing] ELSE bucket
  /\ retry' = "check" /\ current' = Nothing
  /\ UNCHANGED <<chanVars, recvVars, keys, dataMap, serverVars, now, procVars, history>>

(* The context is looked at after every entry. *)
RetryCheck ==
  /\ Running /\ retry = "check"
  /\ IF proc = "stopping" THEN retry' = "select" /\ dataMap' = {}
                          ELSE retry' = "next" /\ UNCHANGED dataMap
  /\ UNCHANGED <<chanVars, recvVars, keys, current, serverVars, bucket, now,
                 procVars, history>>

RetryQuit ==
  /\ proc = "stopping" /\ retry = "select"
  /\ retry' = "gone"
  /\ UNCHANGED <<chanVars, recvVars, keys, dataMap, current, serverVars, bucket, now,
                 procVars, history>>

-----------------------------------------------------------------------------
(* memorizer.cleanPeriodically, the report bucket's part *)

Expired(t) == t < now - Expiration

Clean ==
  /\ Running /\ db
  /\ \E t \in Stored : Expired(t) /\ bucket' = [bucket EXCEPT ![t] = Nothing]
  /\ UNCHANGED <<chanVars, recvVars, retryVars, serverVars, now, procVars, history>>

-----------------------------------------------------------------------------
(* The process *)

(* executor.Stop: the context is cancelled, later the database is closed. *)
Stop ==
  /\ proc = "up" /\ ends < MaxEnds
  /\ proc' = "stopping" /\ ends' = ends + 1
  /\ UNCHANGED <<chanVars, recvVars, retryVars, serverVars, bucket, now, db, history>>

CloseDataBox ==
  /\ proc = "stopping" /\ db
  /\ db' = FALSE
  /\ UNCHANGED <<chanVars, recvVars, retryVars, serverVars, bucket, now, proc, ends,
                 history>>

InMemory == {dataChannel[i] : i \in DOMAIN dataChannel} \cup ({detail} \ {Nothing})

End ==
  /\ proc' = "down" /\ db' = FALSE
  /\ cut' = cut \cup InMemory
  /\ dataChannel' = <<>> /\ receive' = "select" /\ detail' = Nothing
  /\ retry' = "select" /\ keys' = {} /\ dataMap' = {} /\ current' = Nothing
  /\ reached' = {} /\ answered' = {}
  /\ UNCHANGED <<made, bucket, now, settled, failures, slots>>

(* wg.Wait in runCollect *)
Quit ==
  /\ proc = "stopping" /\ ~db /\ receive = "gone" /\ retry = "gone"
  /\ End /\ UNCHANGED ends

Kill ==
  /\ Running /\ ends < MaxEnds
  /\ End /\ ends' = ends + 1

Boot ==
  /\ proc = "down"
  /\ proc' = "up" /\ db' = TRUE
  /\ UNCHANGED <<chanVars, recvVars, retryVars, serverVars, bucket, now, ends, history>>

-----------------------------------------------------------------------------
Receiver == ReceiveTake \/ ReceiveDone \/ ReceiveFailed \/ SaveData \/ ReceiveQuit

Retrier ==
  \/ RetryList \/ RetryReadEnd \/ RetryOver \/ RetryDone \/ RetryFailed
  \/ RetryDelete \/ RetryCheck \/ RetryQuit
  \/ \E t \in keys : RetryRead(t)
  \/ \E e \in dataMap : RetryNext(e)

Next ==
  \/ Clock \/ UploadData \/ Receiver \/ Retrier \/ Clean
  \/ \E p \in {"receive", "retry"} : Take(p)
  \/ Stop \/ CloseDataBox \/ Quit \/ Kill \/ Boot

Spec == Init /\ [][Next]_vars

(* The goroutines run, a post ends (http.Client has a timeout), Stop goes  *)
(* on to close the database and the service manager starts the process     *)
(* again.                                                                  *)
Fairness ==
  /\ WF_vars(Receiver) /\ WF_vars(Retrier)
  /\ WF_vars(CloseDataBox) /\ WF_vars(Quit) /\ WF_vars(Boot)

FairSpec == Spec /\ Fairness

-----------------------------------------------------------------------------
(* Properties *)

InBucket(r) == \E t \in Time : bucket[t] = r
Held(r)     == r \in InMemory \/ InBucket(r)

(* The ways in which the code does lose a report: it shared the second of  *)
(* its failure with another one, it expired, or it was in memory only when *)
(* the process ended.                                                      *)
Shared(r)  == \E t \in Time : r \in slots[t] /\ slots[t] # {r}
Outdated(r) == \E t \in Time : r \in slots[t] /\ Expired(t)

(* Nothing else loses a report: one that was handed to UploadData is held, *)
(* settled with the server, or lost in one of these ways, through failed   *)
(* posts, lost answers, retries that run into new failures, and restarts.  *)
NothingElseLost ==
  \A r \in 1..made : Held(r) \/ r \in settled \/ Shared(r) \/ Outdated(r) \/ r \in cut

(* What the process was told it does not ask again: a report that was      *)
(* answered is not posted a second time.                                   *)
AnsweredOnce ==
  \A p \in {"receive", "retry"} : Posting(p) => Posted(p) \notin answered

(* A report is in one place at a time: the retry never works on one that   *)
(* receiveData still has, so the two goroutines never post the same one.   *)
OnePlace ==
  \A r \in InMemory :
    /\ ~InBucket(r) /\ \A e \in dataMap : e[2] # r
    /\ current # Nothing => current[2] # r
    /\ \A i, j \in DOMAIN dataChannel : dataChannel[i] = dataChannel[j] => i = j

(* Report implements Outbox: reports are first posted in the order in which *)
(* they were made, each is saved at most once and only after its failure,  *)
(* what is retried was saved, a stop or kill costs what is in memory and    *)
(* nothing that is saved, and nothing comes back.                          *)
Queue  == (IF detail = Nothing THEN <<>> ELSE <<detail>>) \o dataChannel
Box    == {bucket[t] : t \in Stored}
Copies == {e[2] : e \in dataMap \cup ({current} \ {Nothing})}

Abs == INSTANCE Outbox WITH
  handed <- made, queue <- Queue, open <- db, saved <- Box, copies <- Copies

ImplementsOutbox == Abs!Spec

(* Once posts stop failing, the backlog is worked off. *)
Drains == <>[](proc = "up" => InMemory = {} /\ Stored = {})

(* A stop signal ends the process (cmd.runCollect, "Quit normally"). *)
StopEnds == proc = "stopping" ~> proc # "stopping"
=============================================================================
