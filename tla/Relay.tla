-------------------------------- MODULE Relay --------------------------------
(***************************************************************************)
(* The outbox relay: Run, poll and publishBatch of internal/relay/relay.go *)
(* with ProcessPending of internal/storage/store.go, which it runs inside. *)
(*                                                                         *)
(* One poll is one database transaction: claim rows (and lock them),       *)
(* publish them one by one, record the result, commit.  The relays, the    *)
(* broker and everybody else interleave between these steps.               *)
(***************************************************************************)
EXTENDS Kafka

CONSTANTS
  RelayProcess,
  BatchSize       \* RELAY_BATCH_SIZE

(* Config.Validate *)
ASSUME BatchSizeAssumption == BatchSize \in Nat /\ BatchSize > 0

ASSUME FailedAssumption == None \notin EventId

VARIABLE relay    \* relay process -> where its Run loop is

MaxBackoff == 10

(* pc      down, idle (between polls), publish (rows claimed), mark        *)
(*         (publishing is over, the result is not yet recorded)            *)
(* batch   the claimed events, in claim order; their rows are locked       *)
(* acked   how many of them the broker acknowledged                        *)
(* failed  the event publishing stopped at, None as long as there is none  *)
(* backoff the next wait after a failure, in poll intervals                *)
RelayState ==
  [pc : {"down", "idle", "publish", "mark"}, batch : Seq(EventId),
   acked : Nat, failed : EventId \cup {None}, backoff : 1..MaxBackoff]

RelayTypeOK == relay \in [RelayProcess -> RelayState]

BetweenPolls(pc, backoff) ==
  [pc |-> pc, batch |-> <<>>, acked |-> 0, failed |-> None,
   backoff |-> backoff]

Idle(backoff) == BetweenPolls("idle", backoff)

Down == BetweenPolls("down", 1)

RelayInit == relay = [r \in RelayProcess |-> Down]

Doubled(backoff) == IF 2 * backoff < MaxBackoff THEN 2 * backoff ELSE MaxBackoff

Elements(seq) == {seq[i] : i \in DOMAIN seq}

(* FOR UPDATE holds these rows until the transaction of r ends, by COMMIT, *)
(* by ROLLBACK or with its session.                                        *)
LockedBy(r) == Elements(relay[r].batch)

Pending(e) == outbox[e] # None /\ ~outbox[e].published

(* Mutant of Claimable: FOR UPDATE SKIP LOCKED forgotten.                  *)
ClaimableUnlocked == {e \in EventId : Pending(e)}

(* WHERE published_at IS NULL ... SKIP LOCKED *)
Claimable == {e \in EventId : Pending(e) /\ \A r \in RelayProcess : e \notin LockedBy(r)}

(* claimPending: ORDER BY created_at LIMIT limit, over the claimable rows; *)
(* rows of equal created_at come in either order.                          *)
claimPending ==
  {b \in UNION {[1..n -> Claimable] : n \in 0..BatchSize} :
     /\ Len(b) = BatchSize \/ Elements(b) = Claimable
     /\ \A i, j \in DOMAIN b : i < j =>
          /\ b[i] # b[j]
          /\ outbox[b[i]].created <= outbox[b[j]].created
     /\ \A i \in DOMAIN b : \A e \in Claimable \ Elements(b) :
          outbox[b[i]].created <= outbox[e].created}

(* Claiming locks the rows; an empty claim ends the poll and resets the    *)
(* backoff (the default case of Run).                                      *)
Claim(r) ==
  /\ relay[r].pc = "idle"
  /\ \E b \in claimPending :
       relay' = [relay EXCEPT ![r] =
                   IF b = <<>> THEN Idle(1)
                   ELSE [@ EXCEPT !.pc = "publish", !.batch = b]]
  /\ Undisturbed
  /\ UNCHANGED <<storeVars, kafkaVars>>

(* The claim fails: storage failure, no row is locked.                     *)
ClaimFails(r) ==
  /\ relay[r].pc = "idle"
  /\ Disturb
  /\ relay' = [relay EXCEPT ![r] = Idle(Doubled(@.backoff))]
  /\ UNCHANGED <<storeVars, kafkaVars>>

Current(r) == relay[r].batch[relay[r].acked + 1]

AfterAck(st) ==
  [st EXCEPT !.acked = @ + 1,
             !.pc = IF st.acked + 1 = Len(st.batch) THEN "mark" ELSE "publish"]

(* publishBatch, one event: the broker acknowledges it.                    *)
Publish(r) ==
  /\ relay[r].pc = "publish"
  /\ Decodes(outbox[Current(r)].payload)
  /\ WriteEvent(Current(r))
  /\ relay' = [relay EXCEPT ![r] = AfterAck(@)]
  /\ Undisturbed
  /\ UNCHANGED <<storeVars, inflight, groupVars>>

(* A produce that was given up is lost, or still on its way.               *)
Abandon(e) ==
  \/ inflight' = [inflight EXCEPT ![e] = @ + 1]
  \/ UNCHANGED inflight

(* publishBatch stops at the first event that fails: MessageFor cannot     *)
(* decode it and nothing is sent, or the delivery timeout passes first.    *)
PublishFails(r) ==
  /\ relay[r].pc = "publish"
  /\ IF Decodes(outbox[Current(r)].payload)
     THEN Disturb /\ Abandon(Current(r))
     ELSE Undisturbed /\ UNCHANGED inflight
  /\ relay' = [relay EXCEPT ![r].pc = "mark", ![r].failed = Current(r)]
  /\ UNCHANGED <<storeVars, log, groupVars>>

(* Mutant of Published: the whole batch is marked, the failed event too.   *)
PublishedAll(r) == Elements(relay[r].batch)

Published(r) == {relay[r].batch[i] : i \in 1..relay[r].acked}

Failed(r) == {relay[r].failed} \ {None}

RecordRelayResult(r) ==
  /\ RecordResult(Published(r), Failed(r))
  /\ UNCHANGED <<shipments, processed, dispatches>>

(* What publishBatch goes on to publish if nothing stops it.               *)
Remaining(r) ==
  {e \in LockedBy(r) \ Published(r) : Decodes(outbox[e].payload)}

(* The database session is lost while publishBatch is at work, which does  *)
(* not notice: the locks are free at once, the rest of the batch may be    *)
(* published all the same, as late as a produce that was given up, and the *)
(* poll ends in a storage error, with no row marked.                       *)
SessionLost(r) ==
  /\ relay[r].pc = "publish"
  /\ Disturb
  /\ inflight' = [e \in EventId |->
                    inflight[e] + IF e \in Remaining(r) THEN 1 ELSE 0]
  /\ relay' = [relay EXCEPT ![r] = Idle(Doubled(@.backoff))]
  /\ UNCHANGED <<storeVars, log, groupVars>>

(* The result is recorded and committed; a publish failure backs off.      *)
Commit(r) ==
  /\ relay[r].pc = "mark"
  /\ RecordRelayResult(r)
  /\ relay' = [relay EXCEPT ![r] =
                 Idle(IF @.failed # None THEN Doubled(@.backoff) ELSE 1)]
  /\ Undisturbed
  /\ UNCHANGED kafkaVars

(* ProcessPending returns an error.  Mostly the transaction rolled back;   *)
(* but when only the answer to COMMIT was lost, it is in effect.           *)
CommitFails(r) ==
  /\ relay[r].pc = "mark"
  /\ Disturb
  /\ RecordRelayResult(r) \/ UNCHANGED storeVars
  /\ relay' = [relay EXCEPT ![r] = Idle(Doubled(@.backoff))]
  /\ UNCHANGED kafkaVars

(* The process ends, by a crash or by a signal that cancels its context,   *)
(* and its transaction with it.  It may have been in the middle of a       *)
(* produce, or of the COMMIT.                                              *)
StopRelay(r) ==
  /\ relay[r].pc # "down"
  /\ Disturb
  /\ IF relay[r].pc = "publish" THEN Abandon(Current(r)) ELSE UNCHANGED inflight
  /\ \/ relay[r].pc = "mark" /\ RecordRelayResult(r)
     \/ UNCHANGED storeVars
  /\ relay' = [relay EXCEPT ![r] = Down]
  /\ UNCHANGED <<log, groupVars>>

(* Compose starts it again; run waits for PostgreSQL and Kafka.            *)
StartRelay(r) ==
  /\ relay[r].pc = "down"
  /\ relay' = [relay EXCEPT ![r] = Idle(1)]
  /\ Undisturbed
  /\ UNCHANGED <<storeVars, kafkaVars>>

RelayWorks(r) ==
  \/ Claim(r) \/ Publish(r) \/ Commit(r) \/ StartRelay(r)

RelayDisturbed(r) ==
  \/ ClaimFails(r) \/ PublishFails(r) \/ SessionLost(r) \/ CommitFails(r)
  \/ StopRelay(r)

RelayStep(r) == RelayWorks(r) \/ RelayDisturbed(r)
=============================================================================
