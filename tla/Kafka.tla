-------------------------------- MODULE Kafka --------------------------------
(***************************************************************************)
(* The topic shipment.created.v1 and the consumer group dispatch-consumer, *)
(* as internal/broker/publisher.go and internal/consumer/consumer.go use   *)
(* them through franz-go.  The broker is external: this module says what   *)
(* those two files rely on.                                                *)
(*                                                                         *)
(*   - a partition is an append-only log; a record's key chooses it;       *)
(*   - a produce whose call failed may be in flight still and reach the    *)
(*     log at any later time (NewPublisher's comment);                     *)
(*   - a partition has at most one owner in the group; a rebalance waits   *)
(*     for a member between poll and commit (BlockRebalanceOnPoll), unless *)
(*     the member misses the session or rebalance timeout and is removed;  *)
(*   - a new owner starts at the committed offset.                         *)
(***************************************************************************)
EXTENDS Store

CONSTANTS
  Partition,
  PartitionOf,    \* the partition of a record's key, the shipment ID
  Member          \* the consumer processes

ASSUME KafkaAssumption ==
  /\ PartitionOf \in [ShipmentId -> Partition]
  /\ None \notin Member

VARIABLES
  log,          \* partition -> the payloads written to it, oldest first
  inflight,     \* event -> its produces whose call failed but may still land
  committed,    \* partition -> records before the group's committed offset
  owner,        \* partition -> the member it is assigned to, or None
  position      \* partition -> records its owner has been handed

kafkaVars == <<log, inflight, committed, owner, position>>
groupVars == <<committed, owner, position>>

KafkaTypeOK ==
  /\ log \in [Partition -> Seq(Payload)]
  /\ inflight \in [EventId -> Nat]
  /\ committed \in [Partition -> Nat]
  /\ owner \in [Partition -> Member \cup {None}]
  /\ position \in [Partition -> Nat]

KafkaInit ==
  /\ log = [p \in Partition |-> <<>>]
  /\ inflight = [e \in EventId |-> 0]
  /\ committed = [p \in Partition |-> 0]
  /\ owner = [p \in Partition |-> None]
  /\ position = [p \in Partition |-> 0]

Write(p, payload) == log' = [log EXCEPT ![p] = Append(@, payload)]

(* The message MessageFor builds of an outbox row: the stored payload,     *)
(* keyed by the row's shipment ID.                                         *)
WriteEvent(e) == Write(PartitionOf[outbox[e].shipment], outbox[e].payload)

InLog(e) ==
  \E p \in Partition : \E i \in DOMAIN log[p] : log[p][i] = outbox[e].payload

(* An abandoned produce reaches the broker after all.                      *)
Land(e) ==
  /\ inflight[e] > 0
  /\ inflight' = [inflight EXCEPT ![e] = @ - 1]
  /\ WriteEvent(e)
  /\ UNCHANGED groupVars

(* Every partition of m goes back to the group, when m leaves or is removed. *)
Release(m) ==
  owner' = [p \in Partition |-> IF owner[p] = m THEN None ELSE owner[p]]
=============================================================================
