-------------------------------- MODULE Retry --------------------------------
(***************************************************************************)
(* config.Retry: how a binary waits for PostgreSQL or Kafka when it starts. *)
(* The unit of time is half a second.  One attempt of fn lasts as long as  *)
(* it likes up to its context's deadline; the contexts nest, so an attempt *)
(* also ends when the whole wait does, and a signal ends both.             *)
(***************************************************************************)
EXTENDS Naturals

CONSTANTS
  Timeout,     \* the timeout of the whole wait: 120 for OpenStore's minute
  Recovery,    \* the times at which the dependency may come up
  Latency      \* how long a dependency that is up takes to answer, less
               \* than an attempt may

AttemptTimeout == 10
FirstWait == 1
MaxWait == 10

(* They are numbers, and a dependency that is up answers in time.          *)
Times ==
  /\ Timeout \in Nat /\ Recovery \subseteq Nat
  /\ Latency \in Nat /\ Latency < AttemptTimeout

VARIABLES
  now,
  up,          \* when the dependency comes up
  signal,      \* when the signal came; later than any time if it did not
  pc,          \* attempt, wait, ready (returned nil), gaveUp
  since,       \* when the attempt or the wait in progress began
  wait         \* the next wait

vars == <<now, up, signal, pc, since, wait>>

Never == Timeout + 1

TypeOK ==
  /\ now \in 0..Timeout
  /\ up \in Recovery
  /\ signal \in 0..Never
  /\ pc \in {"attempt", "wait", "ready", "gaveUp"}
  /\ since \in 0..Timeout
  /\ wait \in FirstWait..MaxWait

Init ==
  /\ now = 0 /\ since = 0
  /\ up \in Recovery
  /\ signal = Never
  /\ pc = "attempt"
  /\ wait = FirstWait

Earlier(a, b) == IF a < b THEN a ELSE b

(* ctx of Retry: done at the timeout or with the signal.                   *)
CtxDeadline == Earlier(Timeout, signal)
CtxErr == now >= CtxDeadline

(* attemptCtx, a child of ctx. *)
AttemptDeadline == Earlier(since + AttemptTimeout, CtxDeadline)

(* The select of the timer and ctx.Done().                                 *)
WaitDeadline == Earlier(since + wait, CtxDeadline)

(* An attempt that began with the dependency up is answered in time.       *)
Answered == since >= up

(* fn returns nil. *)
AttemptSucceeds ==
  /\ pc = "attempt"
  /\ now >= up
  /\ pc' = "ready"
  /\ UNCHANGED <<now, up, signal, since, wait>>

(* fn fails: at once (connection refused), later, or at its deadline.      *)
FnFails == pc = "attempt" /\ (~Answered \/ now >= AttemptDeadline)

(* Mutant of Stops: looks at the context of the attempt.                   *)
StopsOnAttempt == now >= AttemptDeadline

(* The ctx.Err() Retry looks at after a failure is not the attempt's.      *)
Stops == CtxErr

AttemptFails ==
  /\ FnFails
  /\ pc' = IF Stops THEN "gaveUp" ELSE "wait"
  /\ since' = now
  /\ UNCHANGED <<now, up, signal, wait>>

Doubled == Earlier(2 * wait, MaxWait)

TimerFires ==
  /\ pc = "wait"
  /\ now >= since + wait
  /\ pc' = "attempt"
  /\ since' = now
  /\ wait' = Doubled
  /\ UNCHANGED <<now, up, signal>>

WaitCut ==
  /\ pc = "wait"
  /\ CtxErr
  /\ pc' = "gaveUp"
  /\ UNCHANGED <<now, up, signal, since, wait>>

Signal ==
  /\ signal = Never
  /\ pc \in {"attempt", "wait"}
  /\ signal' = now
  /\ UNCHANGED <<now, up, pc, since, wait>>

(* Time passes up to the next thing the code cannot put off.               *)
Tick ==
  /\ \/ /\ pc = "attempt" /\ now < AttemptDeadline
        /\ Answered => now < since + Latency
     \/ pc = "wait" /\ now < WaitDeadline
  /\ now' = now + 1
  /\ UNCHANGED <<up, signal, pc, since, wait>>

Next ==
  AttemptSucceeds \/ AttemptFails \/ TimerFires \/ WaitCut \/ Signal \/ Tick

Spec == Init /\ [][Next]_vars
-----------------------------------------------------------------------------
(* "Binaries use it at startup so they can outlive a dependency that is    *)
(* still booting or temporarily down": without a signal Retry gives up     *)
(* only on a dependency that came up too late for one slow attempt, the    *)
(* longest wait and an answer to fit before the timeout.                   *)
OutlivesOutage ==
  pc = "gaveUp" /\ signal = Never =>
    up + AttemptTimeout + MaxWait + Latency > Timeout

(* What OutlivesOutage rests on.  A dependency that comes up early enough  *)
(* meets an attempt that began after it, after at most one that did not    *)
(* and one wait; and that attempt has its answer before any deadline.      *)
InTime ==
  signal = Never /\ up + AttemptTimeout + MaxWait + Latency <= Timeout =>
    /\ pc = "attempt" =>
         /\ since < up + AttemptTimeout + MaxWait
         /\ now <= since + AttemptTimeout
         /\ Answered => now <= since + Latency
    /\ pc = "wait" => since < up + AttemptTimeout /\ now <= since + wait
    /\ pc # "gaveUp"

(* Neither an attempt nor a wait outlasts the timeout or a signal.         *)
NoLonger == now <= CtxDeadline

RetryInv == TypeOK /\ since <= now /\ InTime /\ NoLonger
=============================================================================
