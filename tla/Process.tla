------------------------------- MODULE Process -------------------------------
(***************************************************************************)
(* What the long-running Go binaries share: app.Main with its signal-aware *)
(* context, the environment reader, OpenStore and the management server of *)
(* internal/app/app.go, and the stack of deferred calls that their run     *)
(* functions build up and every return unwinds.  Worker and Service add    *)
(* what each binary does between.                                          *)
(***************************************************************************)
EXTENDS Sequences, SequencesExt

CONSTANT
  EnvVar,      \* the variables a binary reads with Int and Duration
  Running      \* "the process has not ended": not an exit status

VARIABLES
  pc,           \* where run is
  env,          \* variable -> what the environment holds for it
  signalled,    \* SIGINT or SIGTERM has cancelled the root context
  mgmt,         \* the management server: off, serving, failed, shut
  defers,       \* the deferred calls, the last one first to run
  failed,       \* run returns an error
  status        \* the exit status

processVars == <<pc, env, signalled, mgmt, defers, failed, status>>

Deferred == {"pool.Close", "mgmt.Shutdown", "publisher.Close", "stopRun",
             "gracefulStop"}

EnvValue == {"unset", "valid", "malformed", "illegal"}

ProcessTypeOK(Step) ==
  /\ pc \in Step
  /\ env \in [EnvVar -> EnvValue]
  /\ signalled \in BOOLEAN /\ failed \in BOOLEAN
  /\ mgmt \in {"off", "serving", "failed", "shut"}
  /\ Range(defers) \subseteq Deferred /\ IsInjective(defers)
  /\ status \in {0, 1, Running}

ProcessInit ==
  /\ pc = "config"
  /\ env \in [EnvVar -> EnvValue]
  /\ signalled = FALSE /\ failed = FALSE
  /\ mgmt = "off"
  /\ defers = <<>>
  /\ status = Running

Open(resource) == resource \in Range(defers)

(* run returns an error; the defers follow. *)
Fail == failed' = TRUE /\ pc' = "unwind"

Proceed(next) == failed' = failed /\ pc' = next

(* Env.Int and Env.Duration record a value that does not parse and go on   *)
(* with the default; Env.Err and Validate end run before anything is open. *)
Configure ==
  /\ pc = "config"
  /\ IF \E v \in EnvVar : env[v] \in {"malformed", "illegal"}
     THEN Fail ELSE Proceed("store")
  /\ UNCHANGED <<env, signalled, mgmt, defers, status>>

(* Mutant of OpenStore: the Close is deferred for every attempt of Retry.  *)
OpenStoreDefersTwice ==
  /\ pc = "store"
  /\ Proceed("listen")
  /\ defers' = defers \o <<"pool.Close", "pool.Close">>
  /\ UNCHANGED <<env, signalled, mgmt, status>>

(* OpenStore: a pool, or Retry gave up (see Retry).                        *)
OpenStore ==
  /\ pc = "store"
  /\ \/ Proceed("listen") /\ defers' = Append(defers, "pool.Close")
     \/ Fail /\ UNCHANGED defers
  /\ UNCHANGED <<env, signalled, mgmt, status>>

(* ListenManagement: binds its port and serves, or the port is taken.      *)
ListenManagement(next) ==
  /\ pc = "listen"
  /\ \/ /\ Proceed(next)
        /\ mgmt' = "serving"
        /\ defers' = Append(defers, "mgmt.Shutdown")
     \/ Fail /\ UNCHANGED <<mgmt, defers>>
  /\ UNCHANGED <<env, signalled, status>>

(* Serve ends by itself; Failed holds the error until somebody receives it. *)
ManagementFails ==
  /\ mgmt = "serving"
  /\ mgmt' = "failed"
  /\ UNCHANGED <<pc, env, signalled, defers, failed, status>>

Signal ==
  /\ ~signalled /\ status = Running
  /\ signalled' = TRUE
  /\ UNCHANGED <<pc, env, mgmt, defers, failed, status>>

(* The next deferred call, when call is it and what it waits for is so.    *)
Unwind(call) ==
  /\ pc = "unwind"
  /\ defers # <<>> /\ Last(defers) = call
  /\ defers' = Front(defers)
  /\ UNCHANGED <<pc, env, signalled, failed, status>>

(* Shutdown, bounded by ShutdownContext, which no signal cancels.          *)
ShutdownManagement ==
  /\ Unwind("mgmt.Shutdown")
  /\ mgmt' = IF mgmt = "serving" THEN "shut" ELSE mgmt

(* Main: os.Exit(1) after an error, else a normal return.                  *)
Exit ==
  /\ pc = "unwind" /\ defers = <<>> /\ status = Running
  /\ status' = IF failed THEN 1 ELSE 0
  /\ UNCHANGED <<pc, env, signalled, mgmt, defers, failed>>

Exited == status # Running
=============================================================================
