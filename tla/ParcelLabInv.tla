---------------------------- MODULE ParcelLabInv ----------------------------
(***************************************************************************)
(* The inductive invariant behind ParcelLab's safety properties.           *)
(***************************************************************************)
EXTENDS ParcelLab

(* A call about to store has drawn and computed what it stores.            *)
CallsReady ==
  \A c \in Call : call[c].pc = "store" =>
    /\ call[c].shipment \in ShipmentId
    /\ call[c].event \in EventId
    /\ call[c].row \in ShipmentRow

(* A relay's batch holds stored events, acknowledged up to acked; between  *)
(* polls it holds none.                                                    *)
BatchHeld(st, rows) ==
  /\ st.pc \in {"down", "idle"} => st.batch = <<>> /\ st.acked = 0
  /\ st.pc # "mark" => st.failed = None
  /\ st.acked <= Len(st.batch)
  /\ st.pc = "publish" => st.acked < Len(st.batch)
  /\ \A i \in 1..Len(st.batch) : rows[st.batch[i]] # None
  /\ st.failed # None => rows[st.failed] # None

ClaimsHeld == \A r \in RelayProcess : BatchHeld(relay[r], outbox)

(* Only stored events are ever on their way to the broker.                 *)
InflightStored == \A e \in EventId : inflight[e] > 0 => outbox[e] # None

Busy(m) == member[m].pc \notin {"down", "idle"}

(* A busy member holds a record of its partition's log, which it has       *)
(* decoded before any insert.                                              *)
RecordHeld(st, logs) ==
  /\ st.pc \notin {"down", "idle"} =>
       st.part \in Partition /\ st.offset \in 1..Len(logs[st.part])
  /\ st.pc \in {"dispatch", "commit", "offset"} =>
       Decodes(logs[st.part][st.offset])

RecordsHeld == \A m \in Member : RecordHeld(member[m], log)

(* What the types of the next state rest on.                               *)
Shape == TypeOK /\ CallsReady /\ ClaimsHeld /\ InflightStored /\ RecordsHeld

(* A call about to store has a price in a well-formed currency; the rest   *)
(* of what makes its event decode is in the CHECKs of shipments.           *)
CallsPriced ==
  \A c \in Call : call[c].pc = "store" => call[c].row.currency \in CurrencyCode

(* A call that returned OK had drawn what it stored.                       *)
OkDrawn ==
  \A c \in Call : call[c].code = "OK" =>
    /\ call[c].shipment \in ShipmentId
    /\ call[c].event \in EventId
    /\ call[c].row \in ShipmentRow

StoreInv == CallsPriced /\ OkDrawn /\ StoredTogether /\ NoPoisonRow /\ OkIsStored

(* Of the answers to a pricing call only the pricing service's own is one  *)
(* the client accepts.                                                     *)
FaultyAnswersFail == \A a \in FaultyAnswer : Quoted(a).err # {}

CallsQuoted ==
  \A c \in Call : call[c].pc = "store" => AtPublishedRule(call[c].row)

PriceInv == CallsQuoted /\ StoredPriceIsQuoted

(* A member at its offset commit has its record's event in the table.      *)
HandledBeforeCommit ==
  \A m \in Member : member[m].pc = "offset" => Record(m).event_id \in processed

(* The owner of a partition is exactly one record ahead of the committed   *)
(* offset while it handles a record of it, and level with it otherwise.    *)
OneRecordAhead ==
  \A p \in Partition, m \in Member : owner[p] = m =>
    /\ member[m].pc # "down"
    /\ IF Busy(m) /\ member[m].part = p
       THEN member[m].offset = committed[p] + 1 /\ position[p] = member[m].offset
       ELSE position[p] = committed[p]

OffsetInv == HandledBeforeCommit /\ OneRecordAhead /\ CommittedAreProcessed

(* Uncommitted inserts hold keys that are not in the tables and that no    *)
(* other transaction holds: the unique indexes' waiting.                   *)
InsertsExclusive ==
  /\ \A m \in Member : member[m].pc \in {"dispatch", "commit"} =>
       Record(m).event_id \notin processed
  /\ \A m \in Member : member[m].pc = "commit" =>
       ~HasDispatch(Record(m).shipment_id)
  /\ \A m, n \in Member :
       m # n /\ member[m].pc \in {"dispatch", "commit"}
             /\ member[n].pc \in {"dispatch", "commit"}
         => Record(m).event_id # Record(n).event_id
  /\ \A m, n \in Member :
       m # n /\ member[m].pc = "commit" /\ member[n].pc = "commit"
         => Record(m).shipment_id # Record(n).shipment_id

DispatchInv == DispatchedOnce /\ InsertsExclusive

(* What a relay will mark as published is in the log already.              *)
AckedInLog ==
  \A r \in RelayProcess : \A i \in 1..relay[r].acked : InLog(relay[r].batch[i])

PublishInv == PublishedReachedKafka /\ AckedInLog

(* FOR UPDATE SKIP LOCKED: a claimed row is pending, and claimed once.     *)
LocksHeld ==
  \A r, q \in RelayProcess :
    \A i \in 1..Len(relay[r].batch), j \in 1..Len(relay[q].batch) :
      /\ ~outbox[relay[r].batch[i]].published
      /\ relay[r].batch[i] = relay[q].batch[j] => r = q /\ i = j

(* The places of the topic whose record names e, another producer's too.   *)
Naming(e) ==
  {c \in UNION {{p} \X (DOMAIN log[p]) : p \in Partition} :
     log[c[1]][c[2]].event_id = e}

(* e is marked as published, or a relay is about to mark it.               *)
Acknowledged(e) ==
  \/ outbox[e] # None /\ outbox[e].published
  \/ \E r \in RelayProcess : e \in Published(r)

Owed(e) == IF Acknowledged(e) THEN 1 ELSE 0

(* Besides the one copy an acknowledged event owes its relay, every copy   *)
(* of an event took a disturbance.                                         *)
CopiesAccounted ==
  \A e \in EventId :
    /\ IsFiniteSet(Naming(e))
    /\ Cardinality(Naming(e)) + inflight[e] <= disturbances + Owed(e)

CopyInv == LocksHeld /\ CopiesAccounted

(* Without foreign records every record of the topic is a stored event's.  *)
OwnRecords ==
  \A p \in Partition : \A i \in 1..Len(log[p]) :
    \E e \in EventId : outbox[e] # None /\ log[p][i] = outbox[e].payload

OwnInv == OwnRecords /\ DispatchMatchesShipment

(* The strengthening of the safety properties to an inductive invariant:   *)
(* what every component may rely on between any two steps of the others.   *)
Inv == Shape /\ StoreInv /\ OffsetInv /\ DispatchInv /\ PublishInv /\ CopyInv
=============================================================================
