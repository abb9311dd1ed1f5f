------------------------------- MODULE Outbox -------------------------------
(***************************************************************************)
(* What an output plugin may rely on when it hands a report to UploadData, *)
(* without goroutines, posts, keys or seconds.  Reports leave in the order *)
(* in which they came: the first is settled with the server, or saved, and *)
(* none is saved in any other way.  A box that is closed loses the first,  *)
(* the end of the process all that wait.  Saved reports are tried again    *)
(* from copies; nothing that has left the box comes back into it.          *)
(***************************************************************************)
EXTENDS Naturals, Sequences

VARIABLES
  handed,  \* number of reports handed over
  queue,   \* reports that wait, the first of them being sent
  open,    \* does the box take anything?
  saved,   \* reports in the box
  copies,  \* those of them that are tried again, perhaps gone by now
  settled  \* reports the server has taken or refused for good

ovars == <<handed, queue, open, saved, copies, settled>>

Init ==
  /\ handed = 0 /\ queue = <<>> /\ open = TRUE
  /\ saved = {} /\ copies = {} /\ settled = {}

Hand ==
  /\ handed' = handed + 1 /\ queue' = Append(queue, handed')
  /\ UNCHANGED <<open, saved, copies, settled>>

First == IF queue = <<>> THEN {} ELSE {Head(queue)}

(* The server takes a report that is sent or tried again; whether its      *)
(* answer arrives is another matter.                                       *)
Settle(r) ==
  /\ r \in First \cup copies /\ settled' = settled \cup {r}
  /\ UNCHANGED <<handed, queue, open, saved, copies>>

Deliver ==
  /\ queue # <<>> /\ queue' = Tail(queue) /\ settled' = settled \cup {Head(queue)}
  /\ UNCHANGED <<handed, open, saved, copies>>

(* The box has one place for a moment: who is there makes room.            *)
Save(S) ==
  /\ open /\ queue # <<>> /\ queue' = Tail(queue)
  /\ \A r, s \in S : r = s
  /\ saved' = (saved \ S) \cup {Head(queue)}
  /\ UNCHANGED <<handed, open, copies, settled>>

Drop ==
  /\ ~open /\ queue # <<>> /\ queue' = Tail(queue)
  /\ UNCHANGED <<handed, open, saved, copies, settled>>

Copy(r) ==
  /\ open /\ r \in saved /\ copies' = copies \cup {r}
  /\ UNCHANGED <<handed, queue, open, saved, settled>>

GiveUp(S) ==
  /\ copies' = copies \ S
  /\ UNCHANGED <<handed, queue, open, saved, settled>>

(* The copy was settled: the report is deleted, or who has taken its place. *)
Delete(r, S) ==
  /\ r \in copies \cap settled /\ copies' = copies \ {r}
  /\ \A s, t \in S : s = t
  /\ saved' = saved \ S /\ (~open => S = {})
  /\ UNCHANGED <<handed, queue, open, settled>>

Expire(r) ==
  /\ open /\ saved' = saved \ {r}
  /\ UNCHANGED <<handed, queue, open, copies, settled>>

Close  == open' = FALSE /\ UNCHANGED <<handed, queue, saved, copies, settled>>
Reopen == /\ queue = <<>> /\ copies = {} /\ open' = TRUE
          /\ UNCHANGED <<handed, queue, saved, copies, settled>>

End ==
  /\ open' = FALSE /\ queue' = <<>> /\ copies' = {}
  /\ UNCHANGED <<handed, saved, settled>>

Next ==
  \/ Hand \/ Deliver \/ Drop \/ Close \/ Reopen \/ End
  \/ \E r \in First \cup copies : Settle(r)
  \/ \E r \in saved : Copy(r) \/ Expire(r)
  \/ \E S \in SUBSET saved : Save(S)
  \/ \E S \in SUBSET copies : GiveUp(S)
  \/ \E r \in copies : \E S \in SUBSET saved : Delete(r, S)

Spec == Init /\ [][Next]_ovars
=============================================================================
