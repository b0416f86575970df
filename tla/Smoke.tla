-------------------------------- MODULE Smoke --------------------------------
(***************************************************************************)
(* cmd/smoke/main.go run against the whole system: it quotes and creates a *)
(* shipment, finds its event on the topic, waits for the dispatch, writes  *)
(* the event again and waits for the consumer's duplicate counter.  Each   *)
(* step reads what the services show at that moment, while they go on.     *)
(***************************************************************************)
EXTENDS ParcelLab

CONSTANT SmokeCall    \* the CreateShipment call of the smoke test

exampleWeightGrams == 1500
exampleAmountCents == 700

ASSUME SmokeAssumption ==
  /\ SmokeCall \in Call
  /\ exampleWeightGrams \in Weight
  /\ None # "mismatch"

VARIABLES
  smoke,      \* the state of the test
  metrics     \* member -> parcellab_consumer_events_total of its /metrics

smokeVars == <<vars, smoke, metrics>>

(* pc        the step, or how the test ended                               *)
(* event     the record findEventInKafka took from the topic               *)
(* dispatch  the dispatch_id waitForDispatch saw                           *)
(* before    the duplicate counter before the replay                       *)
(* copy      where the replayed record is in its partition                 *)
(* why       mismatch (a check found something wrong), series (a metric is *)
(*           not exposed), unanswered (a call failed or a step timed out)  *)
SmokeStep == {"quote", "create", "find", "dispatch", "count", "replay",
              "await", "recheck", "metrics", "passed", "failed"}

Zero == [events |-> FALSE, duplicates |-> 0]

SmokeInit ==
  /\ Init
  /\ smoke = [pc |-> "quote", event |-> None, dispatch |-> 0, before |-> 0,
              copy |-> 0, why |-> None]
  /\ metrics = [m \in Member |-> Zero]

(* Handle counts every outcome; a process starts with its counters at 0.   *)
Count ==
  metrics' = [m \in Member |->
    IF member'[m].pc = "down" THEN Zero
    ELSE IF member[m].pc # "offset" /\ member'[m].pc = "offset"
    THEN [events |-> TRUE,
          duplicates |-> metrics[m].duplicates +
                           (IF member[m].pc = "handle" THEN 1 ELSE 0)]
    ELSE metrics[m]]

(* The call of the test, for the example parcel.                           *)
SmokeCallStep ==
  /\ smoke.pc = "create"
  /\ CallPriced(SmokeCall, exampleWeightGrams) \/ CallStored(SmokeCall)

(* The services, of whose calls SmokeCall is made by the test.             *)
SystemStep ==
  /\ \/ /\ \E c \in Call : IF c = SmokeCall THEN SmokeCallStep ELSE CallStep(c)
        /\ UNCHANGED <<kafkaVars, relay, member>>
     \/ RelayNext \/ ConsumerNext \/ OutsideNext
  /\ Count
  /\ UNCHANGED smoke

Pass(next) == smoke' = [smoke EXCEPT !.pc = next]
Wrong(why) == smoke' = [smoke EXCEPT !.pc = "failed", !.why = why]

(* A check of what a step read. *)
Expect(ok, next) == IF ok THEN Pass(next) ELSE Wrong("mismatch")

(* getQuote, after the two health checks. *)
getQuote ==
  /\ smoke.pc = "quote"
  /\ LET got == Quoted(post_quote(exampleWeightGrams)) IN
     Expect(got.err = {} /\ got.money.amount = exampleAmountCents
              /\ got.money.currency = CURRENCY, "create")

Mine == call[SmokeCall].shipment

(* createShipment: the reply carries the stored price; its status PENDING  *)
(* is a constant of the handler.                                           *)
createShipment ==
  /\ smoke.pc = "create"
  /\ call[SmokeCall].pc = "done"
  /\ IF call[SmokeCall].code = "OK"
     THEN Expect(call[SmokeCall].row.amount = exampleAmountCents, "find")
     ELSE Wrong("unanswered")

(* The records of the topic keyed by the shipment.                         *)
Keyed ==
  {i \in DOMAIN log[PartitionOf[Mine]] :
     log[PartitionOf[Mine]][i].shipment_id = Mine}

(* findEventInKafka: the first of them, from the start of the topic.  That *)
(* it also compares the correlation ID is left out, as the ID itself is.   *)
findEventInKafka ==
  /\ smoke.pc = "find"
  /\ \E i \in Keyed :
       LET rec == log[PartitionOf[Mine]][i] IN
       /\ \A j \in Keyed : i <= j
       /\ IF Decodes(rec) /\ rec.amount = exampleAmountCents
          THEN smoke' = [smoke EXCEPT !.pc = "dispatch", !.event = rec]
          ELSE Wrong("mismatch")

(* The view waitForDispatch polls for; DISPATCHED + PENDING is transient.  *)
Arrived ==
  /\ GetShipment(Mine).dispatch = "dispatched"
  /\ GetShipment(Mine).outbox = "published"

DispatchIdOf(s) ==
  CHOOSE i \in DOMAIN dispatches : dispatches[i].shipment = s

(* Mutant of waitForDispatch: DISPATCHED + PENDING is taken for a failure. *)
waitForDispatchStrict ==
  /\ smoke.pc = "dispatch"
  /\ GetShipment(Mine).dispatch = "dispatched"
  /\ IF Arrived THEN smoke' = [smoke EXCEPT !.pc = "count",
                                            !.dispatch = DispatchIdOf(Mine)]
     ELSE Wrong("mismatch")

waitForDispatch ==
  /\ smoke.pc = "dispatch"
  /\ Arrived
  /\ LET d == DispatchIdOf(Mine) IN
     IF dispatches[d].event = smoke.event.event_id
     THEN smoke' = [smoke EXCEPT !.pc = "count", !.dispatch = d]
     ELSE Wrong("mismatch")

(* replayIsDeduplicated: read the counter of the consumer that answers ... *)
readCounter(m) ==
  /\ smoke.pc = "count"
  /\ member[m].pc # "down"
  /\ smoke' = [smoke EXCEPT !.pc = "replay", !.before = metrics[m].duplicates]

(* ... publish the record again ... *)
replay ==
  /\ smoke.pc = "replay"
  /\ Write(PartitionOf[Mine], smoke.event)
  /\ smoke' = [smoke EXCEPT !.pc = "await",
                            !.copy = Len(log[PartitionOf[Mine]]) + 1]

(* Mutant of Counted: off by one, content with the counter as it was.      *)
CountedBefore(m) == metrics[m].duplicates >= smoke.before

Counted(m) == metrics[m].duplicates >= smoke.before + 1

(* ... poll the counter until it has gone up ... *)
awaitDuplicate(m) ==
  /\ smoke.pc = "await"
  /\ member[m].pc # "down"
  /\ Counted(m)
  /\ Pass("recheck")

(* ... and look at the dispatch once more. *)
recheck ==
  /\ smoke.pc = "recheck"
  /\ Expect(DispatchIdOf(Mine) = smoke.dispatch, "metrics")

(* checkMetrics, and the Prometheus check after it: a counter vector shows *)
(* no series before its first event.                                       *)
checkMetrics(m) ==
  /\ smoke.pc = "metrics"
  /\ member[m].pc # "down"
  /\ IF metrics[m].events THEN Pass("passed") ELSE Wrong("series")

(* A call of the test fails, or its step takes longer than StepTimeout.    *)
StepFails ==
  /\ smoke.pc \notin {"passed", "failed"}
  /\ Disturb
  /\ Wrong("unanswered")
  /\ UNCHANGED <<storeVars, kafkaVars, relay, member, call, metrics>>

Checks ==
  \/ getQuote \/ createShipment \/ findEventInKafka \/ waitForDispatch
  \/ recheck
  \/ \E m \in Member : readCounter(m) \/ awaitDuplicate(m) \/ checkMetrics(m)

SmokeTest ==
  \/ Checks /\ UNCHANGED <<vars, metrics>>
  \/ /\ replay
     /\ UNCHANGED <<disturbances, storeVars, inflight, groupVars, relay,
                    member, call, metrics>>

SmokeNext == SystemStep \/ SmokeTest \/ StepFails

SmokeSpec == SmokeInit /\ [][SmokeNext]_smokeVars

(* A step of the services, as the test sees it. *)
Beside(step) == step /\ Count /\ UNCHANGED smoke

(* The services' fairness, and the test and its own call take their steps. *)
SmokeFairSpec ==
  /\ SmokeSpec
  /\ \A r \in RelayProcess :
       WF_smokeVars(Beside(RelayWorks(r) /\ UNCHANGED <<member, call>>))
  /\ \A m \in Member :
       WF_smokeVars(Beside(MemberWorks(m) /\ UNCHANGED <<relay, call>>))
  /\ \A p \in Partition :
       WF_smokeVars(\E m \in Member :
                      Beside(Assign(m, p) /\ UNCHANGED <<relay, call>>))
  /\ WF_smokeVars(Beside(SmokeCallStep /\ UNCHANGED <<kafkaVars, relay, member>>))
  /\ WF_smokeVars(SmokeTest)
-----------------------------------------------------------------------------
(* The smoke test raises no false alarm: whatever fails or is redelivered  *)
(* around it, no check of a price, an event or a dispatch finds anything   *)
(* wrong.  It can only fail on a call, a timeout or a missing series.      *)
NoFalseAlarm == smoke.why # "mismatch"

(* The replayed copy of the event has been handled: the group's offset is  *)
(* past it, or a member is about to commit it.                             *)
ReplayHandled ==
  \/ committed[PartitionOf[Mine]] >= smoke.copy
  \/ \E m \in Member : /\ member[m].pc = "offset"
                       /\ member[m].part = PartitionOf[Mine]
                       /\ member[m].offset = smoke.copy

(* In a stack nothing disturbs, a test that gets past the counter has seen *)
(* its own replay handled.                                                 *)
CounterShowsReplay ==
  smoke.pc \in {"recheck", "metrics", "passed"} /\ disturbances = 0 =>
    ReplayHandled

(* In a stack nothing disturbs, the smoke test passes: no step of it waits *)
(* for something the services do not show.                                 *)
QuietStackPasses == <>(smoke.pc = "passed" \/ disturbances > 0)
=============================================================================
