------------------------------- MODULE Service -------------------------------
(***************************************************************************)
(* run of cmd/shipment-service/main.go: the gRPC server beside the         *)
(* management server, and its graceful stop.  What a call does is in       *)
(* ShipmentAPI; here it runs, perhaps with a connection of the pool, for   *)
(* as long as it likes: the server gives handlers no deadline.             *)
(*                                                                         *)
(* grpc-go and pgxpool are external.  GracefulStop accepts no new call and *)
(* returns when the handlers have; Stop cancels their contexts and returns *)
(* without waiting for them; pool.Close waits for acquired connections.    *)
(***************************************************************************)
EXTENDS Process

CONSTANT Call

VARIABLES
  grpc,       \* off, serving, failed (Serve returned), draining, stopped
  health,     \* what the health service answers for ShipmentService
  handler,    \* call -> none, runs, holds (a connection), done
  cancelled   \* Stop has cancelled the handlers' contexts

serviceVars == <<grpc, health, handler, cancelled>>
vars == <<processVars, serviceVars>>

Step == {"config", "store", "listen", "listenGRPC", "select", "unwind"}

TypeOK ==
  /\ ProcessTypeOK(Step)
  /\ grpc \in {"off", "serving", "failed", "draining", "stopped"}
  /\ health \in {"UNKNOWN", "SERVING", "NOT_SERVING"}
  /\ handler \in [Call -> {"none", "runs", "holds", "done"}]
  /\ cancelled \in BOOLEAN

Init ==
  /\ ProcessInit
  /\ grpc = "off" /\ health = "UNKNOWN"
  /\ handler = [c \in Call |-> "none"]
  /\ cancelled = FALSE

Startup ==
  /\ Configure \/ OpenStore \/ ListenManagement("listenGRPC")
  /\ UNCHANGED serviceVars

(* The graceful stop is the last registered and the first to run.          *)
DeferStop == Append(defers, "gracefulStop")

(* net.Listen for gRPC: serve and advertise it, or the port is taken.      *)
ListenGRPC ==
  /\ pc = "listenGRPC"
  /\ \/ /\ Proceed("select")
        /\ grpc' = "serving" /\ health' = "SERVING"
        /\ defers' = DeferStop
     \/ Fail /\ UNCHANGED <<grpc, health, defers>>
  /\ UNCHANGED <<env, signalled, mgmt, status, handler, cancelled>>

(* Serve returns an error: no new connection; calls in progress go on.     *)
ServeFails ==
  /\ grpc = "serving"
  /\ grpc' = "failed"
  /\ UNCHANGED <<processVars, health, handler, cancelled>>

(* A call arrives on an accepted connection.                               *)
CallArrives(c) ==
  /\ grpc \in {"serving", "failed"}
  /\ handler[c] = "none"
  /\ handler' = [handler EXCEPT ![c] = "runs"]
  /\ UNCHANGED <<processVars, grpc, health, cancelled>>

(* A handler takes a connection, which a closed pool does not give ...     *)
Acquire(c) ==
  /\ handler[c] = "runs" /\ Open("pool.Close")
  /\ handler' = [handler EXCEPT ![c] = "holds"]
  /\ UNCHANGED <<processVars, grpc, health, cancelled>>

(* ... and gives it back with its answer, or answers without one.          *)
Answer(c) ==
  /\ handler[c] \in {"runs", "holds"}
  /\ handler' = [handler EXCEPT ![c] = "done"]
  /\ UNCHANGED <<processVars, grpc, health, cancelled>>

(* The select of run. *)
Stops ==
  /\ pc = "select"
  /\ \/ signalled /\ Proceed("unwind")
     \/ (grpc = "failed" \/ mgmt = "failed") /\ Fail
  /\ UNCHANGED <<env, signalled, mgmt, defers, status, serviceVars>>

(* healthSrv.Shutdown() *)
StopAdvertising == health' = "NOT_SERVING"

Busy == {c \in Call : handler[c] \in {"runs", "holds"}}

(* The deferred function begins: health first, then GracefulStop.          *)
GracefulStopBegins ==
  /\ pc = "unwind" /\ defers # <<>> /\ Last(defers) = "gracefulStop"
  /\ grpc \in {"serving", "failed"}
  /\ StopAdvertising
  /\ grpc' = "draining"
  /\ UNCHANGED <<processVars, handler, cancelled>>

(* case <-done: the calls in progress have ended. *)
GracefulStopEnds ==
  /\ grpc = "draining" /\ Busy = {}
  /\ Unwind("gracefulStop")
  /\ grpc' = "stopped"
  /\ UNCHANGED <<mgmt, health, handler, cancelled>>

(* Mutant of GraceExpires: waits for GracefulStop without the grace period. *)
GraceNeverExpires == FALSE /\ UNCHANGED vars

(* case <-ctx.Done(): shutdownGrace is over, Stop.                         *)
GraceExpires ==
  /\ grpc = "draining" /\ Busy # {}
  /\ Unwind("gracefulStop")
  /\ grpc' = "stopped" /\ cancelled' = TRUE
  /\ UNCHANGED <<mgmt, health, handler>>

(* Mutant of ClosePool: run does not wait for it.                          *)
ClosePoolInBackground ==
  Unwind("pool.Close") /\ UNCHANGED <<mgmt, serviceVars>>

ClosePool ==
  /\ Unwind("pool.Close")
  /\ \A c \in Call : handler[c] # "holds"
  /\ UNCHANGED <<mgmt, serviceVars>>

Main ==
  \/ Startup \/ ListenGRPC \/ Stops
  \/ GracefulStopBegins \/ GracefulStopEnds \/ GraceExpires \/ ClosePool
  \/ (ShutdownManagement \/ Exit) /\ UNCHANGED serviceVars

Calls == \E c \in Call : CallArrives(c) \/ Acquire(c) \/ Answer(c)

Outside == (Signal \/ ManagementFails) /\ UNCHANGED serviceVars

Next == Main \/ (~Exited /\ (Calls \/ Outside \/ ServeFails))

Spec == Init /\ [][Next]_vars

(* A handler whose context is cancelled returns, because every call it     *)
(* makes takes that context.  One whose context is not may hang for ever.  *)
CancelledCallEnds(c) == ~Exited /\ cancelled /\ Answer(c)

FairSpec ==
  Spec /\ WF_vars(Main) /\ \A c \in Call : WF_vars(CancelledCallEnds(c))
-----------------------------------------------------------------------------
(* "let in-flight RPCs finish (bounded), then the deferred management      *)
(* shutdown and pool close follow": a call in progress has the store under *)
(* it, on every path out of run, until the grace period has expired.       *)
CallsKeepTheStore == Busy # {} /\ ~cancelled => Open("pool.Close")

(* A process that advertises SERVING has its store: the health service     *)
(* never sends callers to a server that is closing.                        *)
ServingHasStore == health = "SERVING" => Open("pool.Close") /\ ~Exited

(* The process does not exit over an open transaction: no call holds a     *)
(* connection then, even one the grace period cut off.                     *)
NoTransactionCutByExit == Exited => \A c \in Call : handler[c] # "holds"

(* Status 0 is for a stop that was asked for.                              *)
CleanExitWasAsked == status = 0 => signalled

(* A signal, a dead endpoint and a gRPC server that stopped serving all    *)
(* end the process, also when a call hangs.                                *)
StopEnds == (signalled \/ mgmt = "failed" \/ grpc = "failed") ~> Exited

(* What they rest on.  run builds its defers in one order and unwinds them *)
(* in the other; the server is up as long as its stop is among them.       *)
DefersOrdered ==
  defers \in {<<>>, <<"pool.Close">>, <<"pool.Close", "mgmt.Shutdown">>,
             <<"pool.Close", "mgmt.Shutdown", "gracefulStop">>}

DefersHeld ==
  /\ pc \in {"config", "store"} => defers = <<>>
  /\ pc = "listen" => defers = <<"pool.Close">>
  /\ pc = "listenGRPC" => defers = <<"pool.Close", "mgmt.Shutdown">>
  /\ grpc \in {"serving", "failed", "draining"} =>
       defers = <<"pool.Close", "mgmt.Shutdown", "gracefulStop">>
  /\ pc \in {"config", "store", "listen", "listenGRPC"} => grpc = "off"
  /\ pc = "select" => grpc \in {"serving", "failed"}
  /\ status # Running => pc = "unwind" /\ defers = <<>>

CallsServed ==
  /\ health = "SERVING" => grpc \in {"serving", "failed"}
  /\ Busy # {} /\ ~cancelled => grpc \in {"serving", "failed", "draining"}
  /\ ~Open("pool.Close") => \A c \in Call : handler[c] # "holds"

ErrorOrAsked ==
  /\ pc = "unwind" => failed \/ signalled
  /\ CleanExitWasAsked

ServiceInv == TypeOK /\ DefersOrdered /\ DefersHeld /\ CallsServed /\ ErrorOrAsked
=============================================================================
