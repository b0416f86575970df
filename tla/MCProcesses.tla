----------------------------- MODULE MCProcesses -----------------------------
(***************************************************************************)
(* Instances for TLC of four views of a running binary that share no       *)
(* state: the run function of a worker and of the shipment service, Retry  *)
(* with its clock, and one record with its clock (Budget).  A behaviour is *)
(* of the view its first state chooses; the variables of the other views   *)
(* stay as they are.                                                       *)
(***************************************************************************)
EXTENDS Budget

(* Settings: the illegal ones, the boundaries of every check of Validate,  *)
(* and policies whose product overflows nine bits either way (to a         *)
(* negative number, or to a small positive one).                           *)
MCAttempts == {-1, 0, 1, 2, 3, 4, 5, 6, 9, 12, 16, 20, 23}
MCBackoff == {-1, 0, 1, 2, 3, 6, 7, 10, 19, 20, 85, 128}
MCRecordTimeout == {-1, 0, 1, 6, 7, 15, 19, 20, 21, 60}

CONSTANTS EnvVar, Running, Call, Timeout, Recovery, Latency

VARIABLES
  view,
  at, env, signalled, mgmt, defers, failed, status,     \* Process
  binary, loop, loopErr, stopped,                       \* Worker
  grpc, health, handler, cancelled,                     \* Service
  phase, clock, up, signal, since, wait                 \* Retry

processVars == <<at, env, signalled, mgmt, defers, failed, status>>
workerVars == <<binary, loop, loopErr, stopped>>
serviceVars == <<grpc, health, handler, cancelled>>
retryVars == <<phase, clock, up, signal, since, wait>>
allVars == <<view, vars, processVars, workerVars, serviceVars, retryVars>>

W == INSTANCE Worker WITH pc <- at
S == INSTANCE Service WITH pc <- at
R == INSTANCE Retry WITH pc <- phase, now <- clock

ASSUME TimesAssumption == R!Times

(* A process that runs has no exit status yet.                             *)
ASSUME RunningAssumption == Running \notin {0, 1}

(* A view that is not the chosen one has no values (and no signal) ...     *)
Unused == "unused"

NoProcess ==
  /\ at = Unused /\ env = Unused /\ signalled = FALSE /\ mgmt = Unused
  /\ defers = Unused /\ failed = Unused /\ status = Unused

NoWorker ==
  binary = Unused /\ loop = Unused /\ loopErr = Unused /\ stopped = Unused

NoService ==
  grpc = Unused /\ health = Unused /\ handler = Unused /\ cancelled = Unused

NoRetry ==
  /\ phase = Unused /\ clock = Unused /\ up = Unused
  /\ signal = Unused /\ since = Unused /\ wait = Unused

(* ... but for Budget, of which the properties are stated without a view:  *)
(* it is left in one of its initial states.                                *)
NoRecord == cfg = (CHOOSE c \in Config : TRUE) /\ prompt = TRUE /\ Init

MCInit ==
  \/ view = "worker" /\ W!Init /\ NoService /\ NoRetry /\ NoRecord
  \/ view = "service" /\ S!Init /\ NoWorker /\ NoRetry /\ NoRecord
  \/ view = "retry" /\ R!Init /\ NoProcess /\ NoWorker /\ NoService /\ NoRecord
  \/ view = "record" /\ Init /\ NoProcess /\ NoWorker /\ NoService /\ NoRetry

OfWorker(step) ==
  /\ view = "worker" /\ step
  /\ UNCHANGED <<view, vars, serviceVars, retryVars>>

OfService(step) ==
  /\ view = "service" /\ step
  /\ UNCHANGED <<view, vars, workerVars, retryVars>>

MCNext ==
  \/ OfWorker(W!Next)
  \/ OfService(S!Next)
  \/ /\ view = "retry" /\ R!Next
     /\ UNCHANGED <<view, vars, processVars, workerVars, serviceVars>>
  \/ /\ view = "record" /\ Next
     /\ UNCHANGED <<view, processVars, workerVars, serviceVars, retryVars>>

(* The fairness of Worker and Service, of the view they are.               *)
MCSpec ==
  /\ MCInit /\ [][MCNext]_allVars
  /\ WF_allVars(OfWorker(W!Main))
  /\ WF_allVars(OfWorker(W!CancelledPollEnds))
  /\ WF_allVars(OfWorker(W!LoopReturns))
  /\ WF_allVars(OfService(S!Main))
  /\ \A c \in Call : WF_allVars(OfService(S!CancelledCallEnds(c)))
-----------------------------------------------------------------------------
(* The types of one record's clock; a next attempt is only waited for      *)
(* while MaxAttempts allows one.                                           *)
RecordInv == TypeOK /\ (pc = "sleep" => attempt < cfg.MaxAttempts)

(* The types of all views, with what makes them and the properties below   *)
(* inductive: how far run is tells what it has deferred and what may still *)
(* be at work beside it, no call is deferred twice, and Retry is in time.  *)
ProcessInv ==
  /\ RecordInv
  /\ view = "worker" => W!WorkerInv
  /\ view = "service" => S!ServiceInv
  /\ view = "retry" => R!RetryInv

(* What is used stays open, on every path out of run: the loop of a worker *)
(* has its pool and publisher as long as it runs, a call of the service    *)
(* has the store until the grace period has expired, and SERVING is only   *)
(* advertised with the store open.                                         *)
DependenciesOutliveUsers ==
  /\ view = "worker" => W!LoopKeepsItsDependencies
  /\ view = "service" => S!CallsKeepTheStore /\ S!ServingHasStore

(* Service: no process exits while a call holds a connection.              *)
NoTransactionCutByExit == view = "service" => S!NoTransactionCutByExit

(* Every binary: app.Main exits with status 0 only after a signal, and     *)
(* never over an error that a worker's loop returned.                      *)
CleanExitWasAsked ==
  /\ view = "worker" => W!CleanExitWasAsked
  /\ view = "service" => S!CleanExitWasAsked

(* A signal or a dead endpoint ends a worker from every stage of its run,  *)
(* and so does a record the consumer cannot handle; a signal or a dead     *)
(* server ends the service, though calls hang.                             *)
StopEnds ==
  /\ view = "worker" => W!SignalEnds /\ W!DeadEndpointEnds /\ W!StuckEnds
  /\ view = "service" => S!StopEnds

(* Retry gives up only on a dependency that came up too late.              *)
OutlivesOutage == view = "retry" => R!OutlivesOutage
=============================================================================
