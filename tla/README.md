# ParcelLab: TLA+ specification, model checking and proofs

ParcelLab accepts shipments over gRPC, prices them, stores each with an outbox
event in one PostgreSQL transaction, publishes the events to Kafka and creates
one dispatch per shipment from them. The promise is *at-least-once delivery with
exactly one dispatch*, over crashes, lost answers, late records, rebalances and
replays. This directory states that promise, checks it with TLC on small instances
and proves its safety part with TLAPS for all.

## Inventory

| Part | State it keeps | Operations |
|---|---|---|
| shipment service (`internal/shipmentapi`) | none; one call in flight per request | `CreateShipment`, `GetShipment`, `GetQuote` |
| pricing service and client (`pricing/app`, `internal/pricing`) | none | `POST /quote`, `Client.Quote` |
| domain rules and event contract (`internal/domain`, `internal/events`) | none | `ValidateWeight`, `ValidateMoney`, `NewShipmentCreated`, `Decode` |
| store (`internal/storage`, `db/migrations`) | `shipments`, `outbox_events`, `processed_events`, `dispatches`, row locks, open transactions | `CreateShipment`, `ProcessPending`, `RecordDispatch`, `GetShipment`, `GetOutboxEvent` |
| outbox relay (`internal/relay`, `internal/broker`) | the claimed batch, how far it is acknowledged, the backoff | `Run`, `publishBatch`, `Publish` |
| Kafka (external) | partition logs, produces in flight, committed offsets, partition owners | produce, assign, revoke, remove, fetch, commit |
| dispatch consumer (`internal/consumer`) | the record in hand, the attempt, the open transaction | `Run`, `processRecord`, `Handle` |
| replay command (`cmd/replay`) | none | publish a stored event again |
| migrations (`internal/storage/migrate.go`, `cmd/migrate`) | `schema_migrations`, the advisory lock, one transaction per file | `Migrate` |
| port chooser (`tools/ports`) | `.env` | `run`, `Choose`, `RenderEnv` |
| startup, configuration, shutdown (`internal/config`, `internal/app`, the `run` functions of `cmd/`) | deferred calls, root context, management server, gRPC server and its calls | `Retry`, `Env`, `Main`, `OpenStore`, `ListenManagement`, `run`, `gracefulStop` |
| retry budget (`RetryPolicy`, `Config.Validate`, `processRecord`) | the clock of one record | `Validate`, `MaxWait`, `handle`, `sleep` |
| smoke test (`cmd/smoke`) | what the steps learned: event, dispatch, counter | its nine steps |
| protoc installer (`tools/protoc`) | the versioned directory, its marker, the link | `run`, `install`, `link` |
| logging, metrics, correlation IDs, generated code | - | not modelled, see below |

**How the parts interact.** The service and the relay share `outbox_events`; the
relay holds a transaction, and with it row locks, open while it publishes. The
relay and the consumer share only the topic. The consumer writes
`processed_events` and `dispatches` in one transaction and commits its offset
afterwards. `GetShipment` reads what all three wrote. The smoke test drives them
from outside and decides by what they show at the moment. Each binary starts with
`Retry` on its dependencies and ends through its deferred calls, while its loop or
its calls still run in other goroutines.

**What is hard.** A produce that failed may land later. COMMIT may take effect
though the caller sees an error. A process may stop between any two steps. A
member may be removed from the group while it works on a record and commit late.
Two relays, or two members, may work on the same rows. A record that cannot be
handled must stop its partition and never be skipped. `PROJECT.json` lists each
of these hazards at its line with the properties that would catch it.

## Modules

```
Faults   Domain                          disturbances; identifiers, weights, money
   |       |
   |     Events --- MCEvents             payloads, NewShipmentCreated, Decode
   |    /      \        \
   |   /        \     EventsProofs       what Decode answers
  Store        Pricing                   tables and transactions; price rule, client
   |  \          /
 Kafka  ShipmentAPI                      topic and group (external); CreateShipment
  |   \      |
Relay Consumer                           the two loops
    \  |  /
   ParcelLab                             everything together, properties, fairness
       |
  ParcelLabInv -- MCParcelLab            inductive invariant; instances for TLC
       |
  StoreProofs                            types, CreateShipment's transaction, prices
       |
  ConsumerProofs                         offsets, dispatches
       |
  RelayProofs                            publishing, copies, the whole invariant
       |
  RefinementProofs                       the refinement of Lifecycle
       |
  SmokeProofs (with Smoke)               what the smoke test may conclude

Lifecycle                                the abstract life of a shipment
Refinement (of ParcelLabInv)             the mapping; MCParcelLab extends it
Smoke (of ParcelLab) -- MCSmoke          the smoke test against the system

Process -- Worker                        start and end of relay and consumer
       \-- Service                       ... and of the shipment service
Retry                                    config.Retry with its clock
Budget                                   the time of one record
MCProcesses -- ProcessProofs             Worker, Service, Retry, Budget; theorems

Migrate                                  concurrent migrators
Ports, Protoc -- MCTools                 port chooser, protoc installer; for TLC
SetupProofs (with Migrate, Protoc)       theorems on what runs before the services
```

* `Store`: the four tables. `shipments` and `outbox` are functions from the
  primary key to a row or `None`; `dispatches` is the sequence of inserted rows
  so that a missing `UNIQUE` would show. `published` and `last_error` stand for
  the nullable columns being set.
* `Relay`: `relay[r]` is the position in `Run`. `Claim` is the SELECT ... FOR
  UPDATE SKIP LOCKED (a batch in flight is a set of locked rows), `Publish` and
  `PublishFails` one round of `publishBatch`, `Commit` and `CommitFails` the two
  UPDATEs with COMMIT, and the branch of `Run` that follows. `SessionLost` is the
  end of the database session while `publishBatch` works: the locks are free, and
  what the relay still publishes counts as produces that may land at any time.
* `Consumer`: `member[m]` is the position in `Run`: `handle` (about to run
  `RecordDispatch`), `dispatch` (first insert done), `commit` (both done),
  `offset` (`Handle` returned nil). Uncommitted inserts are visible to others
  only in that they must wait for the same key.
* `ShipmentAPI`: `call[c]` is how far `CreateShipment` got, with what it stores.
  An error is the set of sentinel errors in its chain, all that `errors.Is` sees.
* `Kafka`: what the code relies on: logs only grow; an abandoned produce stays
  `inflight` and may land at any time; an offset commit counts only from the
  partition's owner. It rests on the client options in `NewPublisher` and `Run`.
* `Faults`: outages, stops, lost answers, rebalances and replays come from
  outside, at any step. Each uses up one of `MaxDisturbances`, the only bound on
  failures. Pricing failures are inputs of a call and are not counted.

* `Migrate` stands alone: it runs before the services start. `pc[m]` is the
  statement `Migrate` is at. The session of a migrator is separate from its
  process: after a death, a lost connection or a cancelled context it is an
  `orphan` that may still be granted the lock or carry out a COMMIT already sent,
  until `SessionEnds`. `tx[m]` is what the open transaction would do, `log` the
  files whose SQL took effect. A restarted process is another migrator.
* `Ports` stands alone too: a developer's tool. `Selected` is `run` up to its
  first write, `Choose` the loop over the variables with `portFor` and `nextFree`
  inside. Around it, Compose goes up and down, programs open and close ports, the
  user adds lines to `.env`, and a write may be cut short. `last` is the result
  of a run as long as nothing has happened since. One run sees one set of
  listeners; that a port is taken between the run and `compose up` is
  `OtherListens` followed by an `Up` that is not enabled.

* `Lifecycle` is what the system promises, without services or tables: a price
  per shipment, the shipments whose event was sent, those shown as published,
  and the dispatches. `Refinement` maps `ParcelLab` to it: the price is that of
  the `shipments` row, `sent` is being on the topic, `published` is what
  `GetShipment` shows, the orders are the rows of `dispatches`. Calls, polls,
  locks, retries, duplicates on the topic, offsets and faults are stuttering
  steps. Other producers' records are left out of the `system` run: a valid event that
  some other program writes is dispatched by design.
* `Smoke` adds to `ParcelLab` the steps of the smoke test and the counter
  `parcellab_consumer_events_total` that it reads from a live consumer. The
  counter is 0 in a new process and goes up with each outcome of `Handle`. The
  health checks, the other series and Prometheus read nothing that the test
  decides on, and can only fail as a call does (`StepFails`). The comparison of
  the correlation ID (smoke/main.go:228) goes with the ID itself.
* `Retry` has time in half seconds. An attempt may take any time up to the
  deadline of its context; deadlines nest, so the earlier one counts. The
  dependency comes up at one of the times `Recovery`.
* `Budget` has time in seconds, and Go's arithmetic with `Width` bits (`Wrap`,
  `Half`). Its loop is the one of `Consumer` seen from the clock: `prompt` is a
  store that answers, with errors, at once. A signal is left to `Consumer` and
  `Worker`; it only shortens what is bounded here. A rejected or conflicting
  record ends `Handle` sooner than a failing one.
* `Process` is what the binaries share: the environment, the pool, the
  management server and the stack of deferred calls that any return unwinds.
  `Worker` is `run` of the relay and of the consumer with the loop's goroutine
  beside it: `pc` is where `run` is, `loop` what the goroutine does. In `stuck`
  the consumer's `Run` has a record's error and has not yet looked at its context
  (consumer.go:109), so that a signal can come first. `Service`
  is `run` of the shipment service with the calls beside it. Of grpc-go they
  assume what its documentation says: `GracefulStop` waits for the handlers,
  `Stop` cancels them without waiting; of pgxpool that `Close` waits for
  acquired connections.
* `MCProcesses` and `MCTools` are sums of modules that share no state: the first
  state of a behaviour chooses which part (`view`, `tool`) it is of, and the other
  parts stand still. A property of a part is stated under its `view`.
* `Protoc`: a directory is the set of its complete files, and each action is one
  system call or one file. A kill keeps what is on disk.

Abstractions of the system model: durations are gone (a timeout may strike at any
step; the backoff counts poll intervals); a JSON payload is a record of fields each with a value,
`Absent` or `Mistyped`, and the JSONB column keeps that record; correlation IDs
and logs are gone; a transaction whose client is gone ends at that moment, where
PostgreSQL may take a while to notice (until then its locks only delay others);
a relay that claims again after the answer to its COMMIT was lost finds that
COMMIT done or undone, never still running. Three errors that need no model: a random `dispatch_id` drawn
twice (store.go:348 reports it as `ErrDispatchConflict` too), and in `Client.quote`
the marshalling of one integer and a base URL that does not parse (client.go:121-128).

## Runs

| Run | Instance | Shows |
|---|---|---|
| `relay` | 2 relays, 2 calls, 2 timestamps, batch of 2, 2 disturbances | `PublishedReachedKafka`, `DuplicatesNeedDisturbance` |
| `consumer` | 1 shipment, 2 members, 1 partition, 4 kinds of foreign record, 3 disturbances | `CommittedAreProcessed`, `DispatchedOnce`, `OffsetsAdvance`, and `Inv`, the invariant the proofs use |
| `api` | 2 calls, 6 boundary weights, 10 faulty pricing answers, colliding IDs, 4 kinds of storage error | `StoredTogether`, `OkIsStored`, `StoredPriceIsQuoted`, `NoPoisonRow` |
| `system` | 2 calls, 1 relay, 2 members, 2 partitions, 2 disturbances | `TypeOK`, `DispatchMatchesShipment`, `NoSpuriousConflict`, and `ImplementsLifecycle`, the refinement |
| `liveness` | 2 calls, 1 relay, 2 members, 1 disturbance | `EventuallyDispatched` with rows and records behind each other |
| `smoke` | the test's call, 2 relays, 1 member (Compose has one consumer), 2 disturbances | `NoFalseAlarm`, `CounterShowsReplay`, `QuietStackPasses`, and `EventuallyDispatched` with combined failures |
| `events` | every payload over 2 to 6 values per field | `DecodeKeepsContract` |
| `migrate` | 3 migrators, 2 files, every prefix already applied | `AppliedOnceInOrder`, `Serialized`, `UpToDate`, `Released`, and `MigrateInv`, the types and the invariant the proofs use |
| `processes` | both workers and the service with 2 calls, 2 variables in every state; `Retry` over a minute in half seconds, the dependency up at 6 different times; `Budget` with 9-bit numbers and 13 x 12 x 10 settings | `ProcessInv` (the types and the invariant the proofs use), `DependenciesOutliveUsers`, `NoTransactionCutByExit`, `CleanExitWasAsked`, `StopEnds`, `OutlivesOutage`, `InsideRebalance`, `RetriesFit` |
| `tools` | 3 variables on ports 1, 2 and 4 of 5, search limit 3, up to 2 other listeners, edits to a wanted and to an invalid port, a write cut between or within lines; installers one after another, 3 files, 3 faults | `ToolsTypeOK`, `Usable`, `Settles`, `MatchesReference`, `RunningStackKept`, `AcceptedIsWhole`, `RepairsItself` |
| `lost_commit_answer` | 1 call, 1 relay | the comment at relay.go:113 is violated |
| `future_schema` | as `events` | the comment at events.go:103 is violated |

*Why these bounds.* Two relays, two members, two rows and two records per
partition are the least with which a lock, a fence, a unique key or a batch that
fails in the middle matter. Two disturbances allow a failure during the recovery
from another one; the consumer run allows three, since a foreign record is one
itself. `MaxAttempts = 2` gives one retry and one giving up. Calls, relays and
members are interchangeable, so their permutations are symmetries; the runs with
liveness use none. The `api` run stops when its calls have returned, which is
why it does not check for deadlock, and so do `events`, `migrate` and `processes`
(one life of a process); in the others a relay can always poll, or the tool be
run. Three migrators let one wait while another is
granted the lock of an orphan; two files make order matter. Six ports, the least
with which a running stack could be moved as a whole, with two services on
neighbouring ones and one towards the end make a search skip a wanted port, run
into the end and run into another's alternative; `MaxActive = 2` and the template's
own line give a variable up to three lines; a port cut in the middle reads as 1
(`CutPort`), which another variable wants; the probe that may fail (`Undecided`) is
of a wanted port or of an alternative. The `system` run has one weight, so
that there all prices are equal (two weights take TLC beyond five minutes); that
a dispatch has its own shipment's price is what the theorems show. For `Retry` the whole minute of
`OpenStore` is checked, in steps of its shortest wait. Nine bits are enough for a
product that wraps to a negative and one that wraps to a small positive number
beside timeouts of real size (20 and 60 seconds); the theorems hold for every width.

*Fairness.* Weak fairness of every relay's and every member's own steps and of
the assignment of every partition. Timeouts bound the relay's produces and all
that the consumer does for a record, Compose restarts a process that ended, and the
group gives every partition to a live member. The relay's SQL has no deadline
(relay.go:142); that it ends is an assumption on PostgreSQL, which answers or loses
the connection. Nothing requires a disturbance, a call, or a late
record to happen. `FairSpec` of `Migrate` has weak fairness of each migrator's
and its session's steps, but not of deaths: a statement is answered or its
connection breaks, and PostgreSQL ends the session of a client that is gone. The
liveness runs of the system have no foreign records: a poison record
stops its partition for ever, by the design the repository's README states.

In `Worker`, `run` takes its steps (each wait of it has a timeout: `Retry`,
`ShutdownContext`). Once the loop's context is cancelled, the poll in progress ends,
since every call of it has that context, and the loop returns; a loop with a
record's error in hand returns in any case. A poll whose context is not cancelled
may hang, a loop is never required to fail, nor an endpoint to die. In `Service`
`run` takes its steps and a handler returns once its context is cancelled, because
every call it makes takes that context; a handler whose context is not cancelled
may hang for ever. `Smoke` has the fairness of the system, of the test's own call
and of the test, which polls.

**Findings.** Two comments the code does not keep; neither breaks a guarantee of
the services. (1) relay.go:113 says of a storage failure that "nothing was claimed
or marked"; when only the answer to COMMIT was lost, the rows are marked.
(2) events.go:103 says a later schema is reported as unsupported "even if its
required fields differ"; with a field of another JSON type it is malformed,
because `json.Unmarshal` fails before the version is looked at.

**Observations**, met while modelling and without a run of their own.
(a) outbox-relay/main.go:81 says connect attempts, and with them the samples of
the backlog, "are at most 5s apart"; an attempt of five seconds and the wait after
it make ten. (b) `MaxWait` (handler.go:96) wraps for a huge number of attempts (half
a second of backoff and 150000 attempts), and `Validate` then accepts a policy that
does not fit the record timeout, which cuts it short; `RetriesFit` is stated for
products that do not wrap. (c) protoc/main.go:107 says install "never leaves a
half-written directory that later runs would accept"; with two elements in
`Installer`, two runs at once, `AcceptedIsWhole` is violated, because the second may
remove what the first has just installed. (d) The smoke test takes any rise of the
duplicate counter for its own replay (smoke/main.go:289); after a disturbance it may
pass before the replayed record has been handled, which is why `CounterShowsReplay`
is about a stack nothing disturbs. (e) dispatch-consumer/main.go:4-5 says that the
process "exits non-zero when it meets a record it cannot process". When a signal has
come by the time `Run` looks at its context (consumer.go:109), it drops that record's
error, and the exit status is 0; likewise `select` (main.go:89) may take the nil of a
loop that the signal ended before the error of a dead endpoint. `CleanExitWasAsked` is
what holds: status 0 only after a signal, and never over an error that `Run` returned.

## Proofs

All theorems hold for arbitrary sets of calls, relays, members, partitions,
foreign records and identifiers, any batch size, attempts and number of
disturbances. They assume only the named assumptions of the modules, which say
that the code's own validation passed (`BatchSizeAssumption`,
`MaxAttemptsAssumption`), that inputs have their types, that `None`, `Absent`,
`Mistyped` and `Running` are no proper values, that the smoke test's call and
parcel are among the calls and weights, that `2^(Width - 1)` is a positive
number (which takes an induction), and for `Retry` that a dependency that is up
answers within an attempt (`Times`). TLC evaluates all of them. Where a theorem
has a hypothesis of its own, it is one of these three:

* `FaultyAnswersFail`: each answer in `FaultyAnswer` is one `Client.Quote` turns
  into an error. Such a set is what the constant stands for: timeouts, statuses
  and bodies that are no quote. A pricing service that answers with another,
  well-formed price is outside what the client can know. The ten answers
  of the `api` run satisfy it. `StoredPriceIsQuoted`, the refinement and
  `NoFalseAlarm`, which compares a price, need it.
* `ForeignRecord = {}`: no other program writes to the topic. A valid event from
  elsewhere is dispatched by design, and would be a dispatch without a shipment.
  `DispatchMatchesShipment`, `NoSpuriousConflict`, the refinement and the smoke
  test need it; `CommittedAreProcessed`, `DispatchedOnce` and the rest of `Inv`
  do not.
* `OneInstaller`: runs of the protoc installer follow one another. Nothing in the
  tool enforces it, and observation (c) is what happens otherwise.

The arguments, module by module. Each proof has one lemma per process with one
step per action, and frame lemmas for the actions that leave a part alone.

* `StoreProofs`, types: `Spec => []Shape` and with it `Spec => []TypeOK`. The types
  alone are not inductive. That a row stays a row when the relay updates it
  needs `ClaimsHeld` (a batch holds stored events) and that a late record is a
  payload needs `InflightStored`; the fields of a new dispatch need
  `RecordsHeld` (the record is in the log and was decoded); what a call stores
  needs `CallsReady`. `Shape` is their conjunction.
* `StoreProofs`, transactions: `StoredTogether`, `NoPoisonRow` and `OkIsStored`, together with
  `CallsPriced` and `OkDrawn` the inductive `StoreInv`. `NoPoisonRow` needs that
  a call about to store has a well-formed currency, which the client checked; all
  else that `Decode` asks for is in the CHECKs of `shipments`, so an insert they
  let through decodes. `StoredPriceIsQuoted` follows from `CallsQuoted`: the
  lemmas on the price rule show, for every weight, that rounding up to kilograms,
  the client's checks and the handler's validation leave one price.
* `ConsumerProofs`, offsets: `Spec => []CommittedAreProcessed` and `Spec =>
  OffsetsAdvance`. The inductive invariant is `OffsetInv`. `HandledBeforeCommit`
  says a member at its offset commit has its event in `processed_events`;
  `OneRecordAhead` says that the owner of a partition is one record ahead of the
  committed offset while it handles one and level with it otherwise, so that an
  owner's commit moves the offset by exactly one, over the record it handled.
  A removed member satisfies neither claim about its partition, and the broker
  refuses its commit. Other processes only append to the log (`OffsetFrame`).
* `ConsumerProofs`, dispatches: `DispatchedOnce` is about committed rows, but a
  COMMIT adds what was inserted earlier. `InsertsExclusive` carries the unique
  indexes' waiting from the insert to the COMMIT: the key of an uncommitted insert
  is in neither table and in no other open transaction. `DispatchInv` is both.
* `RelayProofs`: `PublishedReachedKafka` needs `AckedInLog`, that what a relay
  counts as acknowledged is in the topic. `DuplicatesNeedDisturbance` is a
  counting argument. `CopiesAccounted` bounds the records that name an event and
  its produces in flight by the disturbances, plus one once the event is
  acknowledged (`Owed`). A produce that times out takes a disturbance and leaves
  one in flight; a session lost in mid-publish takes one for all events of the
  batch, each of which it leaves in flight or unmarked once; a late record moves from one side of the sum to the other; the
  acknowledged produce is the copy owed; a relay that dies or loses its COMMIT
  gives the owed copy up and pays for it with that disturbance. `LocksHeld` (a
  claimed row is pending and claimed once) is what keeps two relays from owing the
  same copy. `Invariant` puts all of `Inv` together.
* `RefinementProofs`: `Spec => ImplementsLifecycle`. `OwnInv` says that every
  record of the topic is a stored event's payload and every dispatch that of a
  stored shipment, at its price. Each step of the services is then one of
  `Lifecycle` or none: CreateShipment's COMMIT is `Store`, the first produce of
  the event to land is `Send`, the COMMIT that sets `published_at` of a batch is
  `Publish`, RecordDispatch's COMMIT `Dispatch`; a second copy sends nothing.
  `PublishInv` and `DispatchInv` make the abstract guards true.
  `NoSpuriousConflict` comes from the same invariant: an event whose shipment is
  dispatched is in `processed_events`.
* `SetupProofs`, migrations: `Spec => []AppliedOnceInOrder`, `[]Serialized` and
  `[]UpToDate` for any number of migrators and files. None is inductive alone.
  `MigrateInv` adds `Holding` (a process past the lock holds it, on a live
  session), `Position` (it is at the first file not yet applied once it has begun
  one) and `Pending` (its transaction holds that file's SQL and version, and a
  COMMIT in flight both). With the lock held by one session, another's COMMIT
  cannot move the log underneath a position.
* `SetupProofs`, installer: `InstallSpec => []AcceptedIsWhole` and
  `[]RepairsItself` for any release, any leftovers and any number of kills and
  failures. `InstallInv` says what a run knows of the directory at each system
  call (`RunKnows`): from `os.Stat` to the rename it holds no marker, from the
  removal on it is gone, and what is renamed over nothing is the whole release
  with its marker. A kill may leave a directory half removed; it is taken apart
  only when it had no marker, so no part of one is ever accepted, and the link is
  only there when it leads to a whole one.
* `EventsProofs`: `Spec => []DecodeKeepsContract` for every set of payloads
  (`Received`) over every value of the fields. `AcceptedIsV1` compares the order
  of checks in `Decode` with the definition of a version 1 event,
  `LaterIsUnsupported` shows that the look at type and version comes before
  that at the missing fields.
* `SmokeProofs`: `SmokeInv` has the invariants of the system beside what the test
  has seen (`SmokeKnows`): a reply, so its shipment and event are stored for ever;
  then the record is the payload of that event, then the dispatch is that of its
  shipment. `CopyInv` cannot be among them, since the test's own replay writes a copy
  that no disturbance pays for; the invariants used are those that do not count.
  `NoFalseAlarm` follows with the published price of 1500 g: stored, sent and
  dispatched prices are one, and the single dispatch of a shipment keeps its
  identifier. `CounterShowsReplay` is about a stack that nothing disturbs, and
  needs `QuietInv`: nothing is in flight, a busy member owns its partition, an event is
  in the topic once but for the test's copy (`WrittenOnce`), and an event in
  `processed_events` has a record already handled (`ProcessedHandled`). A member
  that finds its event processed therefore has a second record of it in hand,
  which can only be the copy.
* `ProcessProofs`, budget: `Spec => []InsideRebalance`, for every width of the arithmetic
  and every setting of the environment, overflowing ones included. `BudgetInv`
  says where the clock can be: within the record timeout while the store is
  called or the loop sleeps, within the offset commit's deadline afterwards, and
  that a record is only worked on under a record timeout `Validate` let through.
  It uses no fact about `MaxWait`, which is why observation (b) does no harm.
  `Spec => []RetriesFit` does: before attempt `a` to a prompt store the clock shows
  half of `Backoff * a * (a - 1)` (`OnlyWaits`), which grows with `a` and for the
  last attempt is the `MaxWait` that `Validate` found below the record timeout;
  without overflow no product in between wraps (`WrapExact`, `PauseExact`).
* `ProcessProofs`, processes: the four safety properties of the `processes` run, for every
  environment, number of calls, timeout, latency and time of recovery. `WorkerInv`
  and `ServiceInv` tie the stack of deferred calls to how far `run` is
  (`DefersOrdered`, `DefersHeld`), the loop or the calls to the same
  (`LoopPlace`, `CallsServed`), and the error to be returned to whether a signal
  came and what the loop returned (`ErrorOrAsked`). A loop runs only where `run` has not begun to unwind, so
  all its dependencies are on the stack; `SERVING` needs the whole stack; the pool
  leaves it only when no call holds a connection. `RetryInv` needs `InTime`: an
  attempt not answered began before the dependency was up, so the next one begins
  within one attempt and one longest wait of that moment, and is answered before
  any deadline. `NoLonger` is the other half: no attempt and no wait outlasts the
  timeout of the whole or a signal.

Only model-checked: liveness under fairness (`EventuallyDispatched`, `Released`,
`StopEnds`, `QuietStackPasses`), which the prover does not do; and the port
chooser (`Usable`, `Settles`, `MatchesReference`, `RunningStackKept`, with the types
of both tools, `ToolsTypeOK`). What `Choose` selects and what the parsing of a
file leaves are folds over the lines and the variables, so a statement about them
for every input is an induction over data.

## Not modelled

* Correlation IDs and the interceptors: a value carried from call to payload to
  log line. Nothing is decided by it, except that a payload without one is
  refused, which `Events` has.
* Logging, metrics and health endpoints, but for the consumer's counter (`Smoke`)
  and the endpoint's failure (`Process`): pure I/O.
* Generated gRPC code; Grafana and Prometheus configuration; Compose, except that
  it restarts a process that ended.
* Inside Kafka: replication, retention, topic administration; the group protocol
  is assignment, removal and the fencing of late commits.
* A second signal: `NotifyContext` ignores it until `Main` calls `stop`.

## Plan

1. Done: the core (`Domain`, `Events`, `Store`, `Kafka`, `Relay`, `Consumer`,
   `Pricing`, `ShipmentAPI`, `ParcelLab`) and its runs; `Migrate`; `Ports`.
2. Done: `Lifecycle` and `Refinement`; `Retry`, `Budget`; `Process`, `Worker`,
   `Service`; `Smoke`; `Protoc`.
3. Done: every safety property of the system, of the event contract, the smoke
   test, the migrations, the protoc installer, the record's budget and the
   binaries' start and end as a theorem, and the refinement.
4. Left to TLC: liveness and the port chooser, for the reasons given above.

## Checking it

In this directory: `tlc -config relay.cfg MCParcelLab` (and likewise for the
other runs), and `tlapm M.tla` for each `M` of `StoreProofs`, `ConsumerProofs`,
`RelayProofs`, `RefinementProofs`, `SmokeProofs`, `ProcessProofs`, `SetupProofs`
and `EventsProofs`.
