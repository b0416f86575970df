-------------------------------- MODULE Worker --------------------------------
(***************************************************************************)
(* run of cmd/outbox-relay/main.go and of cmd/dispatch-consumer/main.go:   *)
(* the same shape, but that the relay keeps a publisher and its loop never *)
(* ends by itself, while the consumer's ends on a record it cannot handle. *)
(* The loop is a goroutine: what it does is Relay and Consumer; here it    *)
(* pings Kafka (the consumer's), is between two polls, busy with one (and  *)
(* with a connection of the pool), stuck with the error of a record that   *)
(* it has not looked at yet, or has ended.                                 *)
(***************************************************************************)
EXTENDS Process

VARIABLES
  binary,     \* which of the two this process is
  loop,       \* none, ping, idle, busy, stuck, ended
  loopErr,    \* the error the loop sent to runErr
  stopped     \* runCtx is cancelled by stopRun

vars == <<processVars, binary, loop, loopErr, stopped>>

Step == {"config", "store", "listen", "kafka", "select", "drain", "unwind"}

TypeOK ==
  /\ ProcessTypeOK(Step)
  /\ binary \in {"outbox-relay", "dispatch-consumer"}
  /\ loop \in {"none", "ping", "idle", "busy", "stuck", "ended"}
  /\ loopErr \in BOOLEAN /\ stopped \in BOOLEAN

Init ==
  /\ ProcessInit
  /\ binary \in {"outbox-relay", "dispatch-consumer"}
  /\ loop = "none" /\ loopErr = FALSE /\ stopped = FALSE

workerVars == <<binary, loop, loopErr, stopped>>

Startup ==
  /\ Configure \/ OpenStore \/ ListenManagement("kafka")
  /\ UNCHANGED workerVars

(* Kafka answers: the relay keeps a publisher, and the loop is started.    *)
KafkaAnswers ==
  /\ pc = "kafka"
  /\ Proceed("select")
  /\ defers' = defers \o (IF binary = "outbox-relay" THEN <<"publisher.Close">>
                          ELSE <<>>) \o <<"stopRun">>
  /\ loop' = IF binary = "outbox-relay" THEN "idle" ELSE "ping"
  /\ UNCHANGED <<env, signalled, mgmt, status, binary, loopErr, stopped>>

(* Retry gave up after kafkaWait, or a signal ended it.                    *)
KafkaGivenUp ==
  /\ pc = "kafka"
  /\ Fail
  /\ UNCHANGED <<env, signalled, mgmt, defers, status, workerVars>>

(* runCtx, a child of the root context. *)
Cancelled == signalled \/ stopped

(* The consumer's Ping is answered; a poll begins, which a loop that sees  *)
(* its context done does not, and ends, the consumer's perhaps with the    *)
(* error of a record it could not handle or commit.                        *)
LoopWorks ==
  /\ \/ loop = "ping" /\ loop' = "idle"
     \/ loop = "idle" /\ ~Cancelled /\ loop' = "busy"
     \/ loop = "busy" /\ loop' = "idle"
     \/ loop = "busy" /\ binary = "dispatch-consumer" /\ loop' = "stuck"
  /\ UNCHANGED <<processVars, binary, loopErr, stopped>>

(* Mutant of RecordError: the record's error is logged and dropped.        *)
RecordErrorDropped == FALSE

(* Whether Run returns the error of a record: err != nil && ctx.Err() ==   *)
(* nil, so not when its context is done by then, whichever came first.     *)
RecordError == ~Cancelled

(* Run returns: the error of its first Ping, a record's error, or nil when *)
(* its context is done, which is all that the relay's ever returns.        *)
LoopEnds ==
  /\ \/ loop = "ping" /\ loopErr' = TRUE
     \/ loop = "stuck" /\ loopErr' = RecordError
     \/ loop = "idle" /\ Cancelled /\ loopErr' = FALSE
  /\ loop' = "ended"
  /\ UNCHANGED <<processVars, binary, stopped>>

(* case err := <-runErr *)
LoopReturned ==
  /\ pc = "select" /\ loop = "ended"
  /\ pc' = "unwind"
  /\ failed' = loopErr
  /\ UNCHANGED <<env, signalled, mgmt, defers, status, workerVars>>

(* Mutant of AfterStopRun: returns without receiving from runErr.          *)
UnwindAtOnce == "unwind"

(* What follows stopRun(): <-runErr. *)
AfterStopRun == "drain"

(* case err := <-mgmt.Failed() *)
ManagementFailed ==
  /\ pc = "select" /\ mgmt = "failed"
  /\ failed' = TRUE
  /\ pc' = AfterStopRun
  /\ stopped' = TRUE
  /\ UNCHANGED <<env, signalled, mgmt, defers, status, binary, loop, loopErr>>

LoopDrained ==
  /\ pc = "drain" /\ loop = "ended"
  /\ pc' = "unwind"
  /\ UNCHANGED <<env, signalled, mgmt, defers, failed, status, workerVars>>

(* pool.Close waits for the connections in use.                            *)
Defers ==
  \/ /\ Unwind("stopRun") /\ stopped' = TRUE
     /\ UNCHANGED <<mgmt, binary, loop, loopErr>>
  \/ /\ Unwind("publisher.Close")
     /\ UNCHANGED <<mgmt, workerVars>>
  \/ ShutdownManagement /\ UNCHANGED workerVars
  \/ /\ Unwind("pool.Close") /\ loop # "busy"
     /\ UNCHANGED <<mgmt, workerVars>>

Main ==
  \/ Startup \/ KafkaAnswers \/ KafkaGivenUp
  \/ LoopReturned \/ ManagementFailed \/ LoopDrained \/ Defers
  \/ Exit /\ UNCHANGED workerVars

(* A process that has exited runs no goroutine.                            *)
Goroutines == ~Exited /\ (LoopWorks \/ LoopEnds)

Outside == (Signal \/ ManagementFails) /\ UNCHANGED workerVars

Next == Main \/ Goroutines \/ (~Exited /\ Outside)

Spec == Init /\ [][Next]_vars

(* What a loop does not put off for ever once its context is done: the    *)
(* calls of the poll in progress end, and it returns.  The context is what *)
(* ends the calls: the relay's SQL has no timeout of its own.  A loop with *)
(* an error in its hand has nothing to wait for.                           *)
CancelledPollEnds == ~Exited /\ Cancelled /\ loop = "busy" /\ LoopWorks
LoopReturns == ~Exited /\ (Cancelled \/ loop = "stuck") /\ LoopEnds

(* Neither does run: each of its waits has a timeout.                      *)
FairSpec ==
  Spec /\ WF_vars(Main) /\ WF_vars(CancelledPollEnds) /\ WF_vars(LoopReturns)
-----------------------------------------------------------------------------
(* "Stop the loop before the deferred Close calls take its dependencies    *)
(* away": a loop that still runs has its pool, and the relay's its         *)
(* publisher, on every path out of run.                                    *)
LoopKeepsItsDependencies ==
  loop \notin {"none", "ended"} /\ ~Exited =>
    Open("pool.Close") /\ (binary = "outbox-relay" => Open("publisher.Close"))

(* A worker ends with status 0 only after a signal, and an error that its  *)
(* loop returned always shows in the status, also when a dead endpoint or  *)
(* the signal made run leave by another way.  It does not say that a stuck *)
(* consumer never exits with 0: Run drops the record's error when a signal *)
(* has come by the time it looks (RecordError), and select may take the    *)
(* nil of a loop that a signal ended before the error of a dead endpoint.  *)
CleanExitWasAsked == status = 0 => signalled /\ ~loopErr

(* A consumer that holds a record it cannot handle comes to an end; with   *)
(* status 1 unless a signal came, by CleanExitWasAsked.                    *)
StuckEnds == loop = "stuck" ~> Exited

(* A signal ends the process, from every stage of its start and of its     *)
(* work.                                                                   *)
SignalEnds == signalled ~> Exited

(* "a dead metrics endpoint ends the process instead of going unnoticed",  *)
(* also when it died while run was still waiting for Kafka.                *)
DeadEndpointEnds == mgmt = "failed" ~> Exited

(* What the two invariants rest on: how far run is tells which defers it   *)
(* has left and whether the loop runs; while it unwinds, the loop does not.*)
LoopPlace ==
  /\ pc \in {"config", "store", "listen", "kafka"} => loop = "none"
  /\ pc = "unwind" => loop \in {"none", "ended"}
  /\ pc # "unwind" => status = Running

Whole ==
  IF binary = "outbox-relay"
  THEN <<"pool.Close", "mgmt.Shutdown", "publisher.Close", "stopRun">>
  ELSE <<"pool.Close", "mgmt.Shutdown", "stopRun">>

DefersOrdered ==
  defers \in {Whole, Front(Whole), <<"pool.Close", "mgmt.Shutdown">>,
             <<"pool.Close">>, <<>>}

DefersHeld ==
  /\ pc \in {"config", "store"} => defers = <<>>
  /\ pc = "listen" => defers = <<"pool.Close">>
  /\ pc = "kafka" => defers = <<"pool.Close", "mgmt.Shutdown">>
  /\ pc \in {"select", "drain"} => defers = Whole

(* Without an error somebody asked for the end: a signal, or stopRun after *)
(* a failure.                                                              *)
ErrorOrAsked ==
  /\ loopErr => loop = "ended"
  /\ loop = "ended" /\ ~loopErr => Cancelled
  /\ stopped => pc \in {"drain", "unwind"}
  /\ pc = "drain" => failed
  /\ pc = "unwind" => failed \/ (signalled /\ ~loopErr)

WorkerInv ==
  /\ TypeOK /\ LoopPlace /\ DefersOrdered /\ DefersHeld
  /\ ErrorOrAsked /\ CleanExitWasAsked
=============================================================================
