------------------------------- MODULE Consumer -------------------------------
(***************************************************************************)
(* The dispatch consumer: Run and processRecord of                         *)
(* internal/consumer/consumer.go, Handle of internal/consumer/handler.go   *)
(* and RecordDispatch of internal/storage/store.go.                        *)
(*                                                                         *)
(* A member takes one record, runs one database transaction for it (two    *)
(* inserts, then COMMIT, with retries), commits the offset, and polls      *)
(* again.  Whatever it cannot handle ends the process with the offset      *)
(* uncommitted; Compose restarts it.                                       *)
(***************************************************************************)
EXTENDS Kafka

CONSTANT MaxAttempts    \* CONSUMER_MAX_ATTEMPTS

(* RetryPolicy.Validate *)
ASSUME MaxAttemptsAssumption == MaxAttempts \in Nat /\ MaxAttempts > 0

VARIABLE member    \* member -> where its Run loop is

(* pc       down, idle, handle (about to run RecordDispatch), dispatch     *)
(*          (processed_events row inserted, not committed), commit (both   *)
(*          rows inserted, not committed), offset (Handle returned nil)    *)
(* part     the partition of the record in hand                            *)
(* offset   its place in that partition, from 1                            *)
(* attempt  the attempt of Handle's retry loop                             *)
MemberState ==
  [pc : {"down", "idle", "handle", "dispatch", "commit", "offset"},
   part : Partition \cup {None}, offset : Nat, attempt : 0..MaxAttempts]

ConsumerTypeOK == member \in [Member -> MemberState]

Resting(pc) == [pc |-> pc, part |-> None, offset |-> 0, attempt |-> 0]

ConsumerInit == member = [m \in Member |-> Resting("down")]

(* The record in hand. *)
Record(m) == log[member[m].part][member[m].offset]

(* Run returns: the client is closed and its partitions go back.           *)
Exit(m) ==
  /\ member' = [member EXCEPT ![m] = Resting("down")]
  /\ Release(m)

Goto(m, pc) == member' = [member EXCEPT ![m].pc = pc]

StartMember(m) ==
  /\ member[m].pc = "down"
  /\ Goto(m, "idle")
  /\ Undisturbed
  /\ UNCHANGED <<storeVars, kafkaVars>>

(* Mutant of Assign: without AtStart, a new owner begins at the log's end. *)
AssignAtEnd(m, p) ==
  /\ member[m].pc = "idle"
  /\ owner[p] = None
  /\ owner' = [owner EXCEPT ![p] = m]
  /\ position' = [position EXCEPT ![p] = Len(log[p])]
  /\ Undisturbed
  /\ UNCHANGED <<storeVars, log, inflight, committed, member>>

(* A member between polls is given a free partition, from the group's      *)
(* committed offset (the start of the log when there is none).             *)
Assign(m, p) ==
  /\ member[m].pc = "idle"
  /\ owner[p] = None
  /\ owner' = [owner EXCEPT ![p] = m]
  /\ position' = [position EXCEPT ![p] = committed[p]]
  /\ Undisturbed
  /\ UNCHANGED <<storeVars, log, inflight, committed, member>>

(* A rebalance takes a partition from a member, never between its poll and *)
(* its commit.                                                             *)
Revoke(m, p) ==
  /\ member[m].pc = "idle"
  /\ owner[p] = m
  /\ Disturb
  /\ owner' = [owner EXCEPT ![p] = None]
  /\ UNCHANGED <<storeVars, log, inflight, committed, position, member>>

(* The group removes a member that has missed a timeout while it was busy; *)
(* the member does not know.                                               *)
Remove(m) ==
  /\ member[m].pc \notin {"down", "idle"}
  /\ Disturb
  /\ \E p \in Partition : owner[p] = m
  /\ Release(m)
  /\ UNCHANGED <<storeVars, log, inflight, committed, position, member>>

(* PollRecords(ctx, 1) *)
Poll(m, p) ==
  /\ member[m].pc = "idle"
  /\ owner[p] = m
  /\ position[p] < Len(log[p])
  /\ position' = [position EXCEPT ![p] = @ + 1]
  /\ member' = [member EXCEPT ![m] =
       [pc |-> "handle", part |-> p, offset |-> position[p] + 1, attempt |-> 1]]
  /\ Undisturbed
  /\ UNCHANGED <<storeVars, log, inflight, committed, owner>>

(* Mutant of Reject: a record that cannot be decoded is skipped.           *)
RejectSkips(m) ==
  /\ member[m].pc = "handle"
  /\ ~Decodes(Record(m))
  /\ Goto(m, "offset")
  /\ Undisturbed
  /\ UNCHANGED <<storeVars, kafkaVars>>

(* Decode refuses the payload; nothing is written, the offset stays.       *)
Reject(m) ==
  /\ member[m].pc = "handle"
  /\ ~Decodes(Record(m))
  /\ Exit(m)
  /\ Undisturbed
  /\ UNCHANGED <<storeVars, log, inflight, committed, position>>

(* n has inserted the processed_events row of e and not committed it.      *)
Inserting(n, e) ==
  /\ member[n].pc \in {"dispatch", "commit"}
  /\ Record(n).event_id = e

(* Mutant of InsertProcessed: the duplicate check is forgotten.            *)
InsertProcessedAlways(m) ==
  /\ member[m].pc = "handle"
  /\ Decodes(Record(m))
  /\ \A n \in Member \ {m} : ~Inserting(n, Record(m).event_id)
  /\ Goto(m, "dispatch")
  /\ Undisturbed
  /\ UNCHANGED <<storeVars, kafkaVars>>

(* INSERT INTO processed_events ... ON CONFLICT DO NOTHING: waits for a    *)
(* transaction that is inserting the same key; no row inserted means the   *)
(* event is a duplicate, nothing more is written and Handle returns nil.   *)
InsertProcessed(m) ==
  /\ member[m].pc = "handle"
  /\ Decodes(Record(m))
  /\ \A n \in Member \ {m} : ~Inserting(n, Record(m).event_id)
  /\ Goto(m, IF Record(m).event_id \in processed THEN "offset" ELSE "dispatch")
  /\ Undisturbed
  /\ UNCHANGED <<storeVars, kafkaVars>>

(* n has inserted a dispatch of shipment s and not committed it.           *)
Dispatching(n, s) == member[n].pc = "commit" /\ Record(n).shipment_id = s

(* The INSERT INTO dispatches is about to be judged by its constraints: no *)
(* other transaction is inserting the same shipment_id.                    *)
AtDispatch(m) ==
  /\ member[m].pc = "dispatch"
  /\ \A n \in Member \ {m} : ~Dispatching(n, Record(m).shipment_id)

(* Mutant of InsertDispatch: no UNIQUE (shipment_id) on dispatches.        *)
InsertDispatchNotUnique(m) ==
  /\ AtDispatch(m)
  /\ shipments[Record(m).shipment_id] # None
  /\ Goto(m, "commit")
  /\ Undisturbed
  /\ UNCHANGED <<storeVars, kafkaVars>>

(* dispatch_id is drawn at random: that one is drawn twice, also a unique  *)
(* violation that becomes ErrDispatchConflict, is left out.                *)
InsertDispatch(m) ==
  /\ AtDispatch(m)
  /\ ~HasDispatch(Record(m).shipment_id)
  /\ shipments[Record(m).shipment_id] # None
  /\ Goto(m, "commit")
  /\ Undisturbed
  /\ UNCHANGED <<storeVars, kafkaVars>>

(* UNIQUE (shipment_id): ErrDispatchConflict, which is not retried.        *)
Conflict(m) ==
  /\ AtDispatch(m)
  /\ HasDispatch(Record(m).shipment_id)
  /\ Exit(m)
  /\ Undisturbed
  /\ UNCHANGED <<storeVars, log, inflight, committed, position>>

(* Mutant of RetryOrGiveUp: off by one, an attempt too many.               *)
RetryOnceMore(m) ==
  \/ /\ member[m].attempt <= MaxAttempts
     /\ member' = [member EXCEPT ![m].pc = "handle", ![m].attempt = @ + 1]
     /\ UNCHANGED owner
  \/ Exit(m)

(* RecordDispatch returned some other error: Handle tries again, or gives  *)
(* up after MaxAttempts or when the record timeout has passed.             *)
RetryOrGiveUp(m) ==
  \/ /\ member[m].attempt < MaxAttempts
     /\ member' = [member EXCEPT ![m].pc = "handle", ![m].attempt = @ + 1]
     /\ UNCHANGED owner
  \/ Exit(m)

(* REFERENCES shipments: the event is of no shipment, however often tried. *)
Orphan(m) ==
  /\ AtDispatch(m)
  /\ ~HasDispatch(Record(m).shipment_id)
  /\ shipments[Record(m).shipment_id] = None
  /\ RetryOrGiveUp(m)
  /\ Undisturbed
  /\ UNCHANGED <<storeVars, log, inflight, committed, position>>

CommitTx(m) ==
  /\ member[m].pc = "commit"
  /\ RecordDispatchTx(Record(m))
  /\ Goto(m, "offset")
  /\ Undisturbed
  /\ UNCHANGED kafkaVars

(* The transaction is in effect although m never learns it.                *)
CommittedUnseen(m) == member[m].pc = "commit" /\ RecordDispatchTx(Record(m))

(* Storage fails, before COMMIT or in it.                                  *)
StorageFails(m) ==
  /\ member[m].pc \in {"handle", "dispatch", "commit"}
  /\ Decodes(Record(m))
  /\ Disturb
  /\ CommittedUnseen(m) \/ UNCHANGED storeVars
  /\ RetryOrGiveUp(m)
  /\ UNCHANGED <<log, inflight, committed, position>>

MoveOffset(m) == committed' = [committed EXCEPT ![member[m].part] = member[m].offset]

(* Mutant of CommitOffset: commits although the partition was taken away.  *)
CommitOffsetUnfenced(m) ==
  /\ member[m].pc = "offset"
  /\ MoveOffset(m)
  /\ member' = [member EXCEPT ![m] = Resting("idle")]
  /\ Undisturbed
  /\ UNCHANGED <<storeVars, log, inflight, owner, position>>

(* CommitRecords of a member that still owns the partition.                *)
CommitOffset(m) ==
  /\ member[m].pc = "offset"
  /\ owner[member[m].part] = m
  /\ MoveOffset(m)
  /\ member' = [member EXCEPT ![m] = Resting("idle")]
  /\ Undisturbed
  /\ UNCHANGED <<storeVars, log, inflight, owner, position>>

(* CommitRecords of a member the group has removed is refused.             *)
OffsetFenced(m) ==
  /\ member[m].pc = "offset"
  /\ owner[member[m].part] # m
  /\ Exit(m)
  /\ Undisturbed
  /\ UNCHANGED <<storeVars, log, inflight, committed, position>>

(* The offset commit is in effect although m never learns it.              *)
OffsetMovedUnseen(m) ==
  /\ member[m].pc = "offset"
  /\ owner[member[m].part] = m
  /\ MoveOffset(m)

(* CommitRecords fails, its request or its answer lost.                    *)
OffsetFails(m) ==
  /\ member[m].pc = "offset"
  /\ Disturb
  /\ OffsetMovedUnseen(m) \/ UNCHANGED committed
  /\ Exit(m)
  /\ UNCHANGED <<storeVars, log, inflight, position>>

(* The process ends, by a crash or a signal, wherever it is.               *)
StopMember(m) ==
  /\ member[m].pc # "down"
  /\ Disturb
  /\ CommittedUnseen(m) \/ UNCHANGED storeVars
  /\ OffsetMovedUnseen(m) \/ UNCHANGED committed
  /\ Exit(m)
  /\ UNCHANGED <<log, inflight, position>>

MemberWorks(m) ==
  \/ StartMember(m)
  \/ \E p \in Partition : Poll(m, p)
  \/ Reject(m) \/ InsertProcessed(m) \/ InsertDispatch(m) \/ Conflict(m)
  \/ Orphan(m) \/ CommitTx(m) \/ CommitOffset(m) \/ OffsetFenced(m)

MemberDisturbed(m) ==
  \/ \E p \in Partition : Revoke(m, p)
  \/ Remove(m) \/ StorageFails(m) \/ OffsetFails(m) \/ StopMember(m)

MemberStep(m) ==
  MemberWorks(m) \/ MemberDisturbed(m) \/ \E p \in Partition : Assign(m, p)
=============================================================================
