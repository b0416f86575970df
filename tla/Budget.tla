-------------------------------- MODULE Budget --------------------------------
(***************************************************************************)
(* How long the consumer may spend on one record: RetryPolicy and Handle's *)
(* retry loop of internal/consumer/handler.go, Config.Validate and         *)
(* processRecord of internal/consumer/consumer.go.  Consumer has the same  *)
(* loop without time; this module has its clock, in seconds since the poll *)
(* that took the record.  A shutdown, which cuts any of it short, is in    *)
(* Consumer and Worker.                                                    *)
(*                                                                         *)
(* int and time.Duration are Width-bit two's complement numbers.  The      *)
(* program has 64 bits and nanoseconds; only the ratio matters.            *)
(***************************************************************************)
EXTENDS Integers

CONSTANTS
  Width,
  MaxAttemptsSetting,      \* values of CONSUMER_MAX_ATTEMPTS
  BackoffSetting,          \* values of CONSUMER_BACKOFF
  RecordTimeoutSetting     \* values of CONSUMER_RECORD_TIMEOUT

(* The numbers are those from -HalfRange up to HalfRange - 1.              *)
HalfRange == 2^(Width - 1)

(* What is said of HalfRange follows from Width, by induction.             *)
ASSUME BudgetAssumption ==
  /\ Width \in Nat \ {0} /\ HalfRange \in Nat \ {0}
  /\ MaxAttemptsSetting \cup BackoffSetting \cup RecordTimeoutSetting
       \subseteq -HalfRange .. HalfRange - 1

rebalanceTimeout == 60
commitTimeout == 10
maxRecordTimeout == rebalanceTimeout \div 2 - commitTimeout

VARIABLES
  cfg,        \* [MaxAttempts, Backoff, RecordTimeout]
  prompt,     \* whether the store answers every call at once
  pc,         \* start, refused, call, sleep, commit, done, stopped
  now,        \* seconds since the poll
  attempt,
  until,      \* when the sleep ends, or the offset commit's deadline
  cut         \* whether the record timeout ended the retries

vars == <<cfg, prompt, pc, now, attempt, until, cut>>

Config ==
  [MaxAttempts : MaxAttemptsSetting, Backoff : BackoffSetting,
   RecordTimeout : RecordTimeoutSetting]

(* Two's complement arithmetic.                                            *)
Wrap(x) == ((x + HalfRange) % (2 * HalfRange)) - HalfRange

(* Go's division by two truncates towards zero.                            *)
Half(x) == IF x >= 0 THEN x \div 2 ELSE -((-x) \div 2)

(* Mutant of MaxWait: n * (n - 1), one sleep short. *)
MaxWaitShort(c) ==
  LET n == Wrap(c.MaxAttempts - 1) IN
  Half(Wrap(Wrap(c.Backoff * n) * Wrap(n - 1)))

MaxWait(c) ==
  LET n == Wrap(c.MaxAttempts - 1) IN
  Half(Wrap(Wrap(c.Backoff * n) * Wrap(n + 1)))

RetryValidate(c) == c.MaxAttempts >= 1 /\ c.Backoff >= 0

(* Mutant of Validate: the record timeout has no upper limit.              *)
ValidateUnlimited(c) ==
  RetryValidate(c) /\ c.RecordTimeout > 0 /\ MaxWait(c) < c.RecordTimeout

Validate(c) ==
  /\ RetryValidate(c)
  /\ c.RecordTimeout > 0
  /\ c.RecordTimeout <= maxRecordTimeout
  /\ MaxWait(c) < c.RecordTimeout

TypeOK ==
  /\ cfg \in Config
  /\ prompt \in BOOLEAN /\ cut \in BOOLEAN
  /\ pc \in {"start", "refused", "call", "sleep", "commit", "done", "stopped"}
  /\ now \in Nat /\ until \in Nat
  /\ attempt \in 1..HalfRange

Init ==
  /\ cfg \in Config
  /\ prompt \in BOOLEAN
  /\ pc = "start"
  /\ now = 0 /\ until = 0 /\ attempt = 1
  /\ cut = FALSE

(* Run validates the configuration; a record is polled later.              *)
Start ==
  /\ pc = "start"
  /\ pc' = IF Validate(cfg) THEN "call" ELSE "refused"
  /\ UNCHANGED <<cfg, prompt, now, attempt, until, cut>>

HandleCtxErr == now >= cfg.RecordTimeout

(* RecordDispatch returns without an error: a dispatch or a duplicate.     *)
CallSucceeds ==
  /\ pc = "call"
  /\ pc' = "commit"
  /\ until' = now + commitTimeout
  /\ UNCHANGED <<cfg, prompt, now, attempt, cut>>

(* time.Duration(attempt) * Backoff; a timer of a negative duration fires  *)
(* at once.                                                                *)
Pause ==
  LET d == Wrap(attempt * cfg.Backoff) IN IF d > 0 THEN d ELSE 0

(* It fails, and it is the last thing Handle tries: the record timeout has *)
(* passed or there have been MaxAttempts.                                  *)
CallGivesUp ==
  /\ pc = "call"
  /\ HandleCtxErr \/ attempt >= cfg.MaxAttempts
  /\ pc' = "stopped"
  /\ cut' = HandleCtxErr
  /\ UNCHANGED <<cfg, prompt, now, attempt, until>>

CallFails ==
  /\ pc = "call"
  /\ ~HandleCtxErr /\ attempt < cfg.MaxAttempts
  /\ pc' = "sleep"
  /\ until' = now + Pause
  /\ UNCHANGED <<cfg, prompt, now, attempt, cut>>

(* sleep: the timer fires ... *)
Wake ==
  /\ pc = "sleep"
  /\ now >= until
  /\ pc' = "call"
  /\ attempt' = attempt + 1
  /\ UNCHANGED <<cfg, prompt, now, until, cut>>

(* ... or the record timeout passes; when both are due, select picks one.  *)
SleepCut ==
  /\ pc = "sleep"
  /\ HandleCtxErr
  /\ pc' = "stopped"
  /\ cut' = TRUE
  /\ UNCHANGED <<cfg, prompt, now, attempt, until>>

(* CommitRecords returns; a failure ends Run.                              *)
CommitReturns ==
  /\ pc = "commit"
  /\ pc' \in {"done", "stopped"}
  /\ UNCHANGED <<cfg, prompt, now, attempt, until, cut>>

(* Time passes up to the deadline of the context in use.                   *)
Tick ==
  /\ \/ pc = "call" /\ ~prompt /\ ~HandleCtxErr
     \/ pc = "sleep" /\ now < until /\ ~HandleCtxErr
     \/ pc = "commit" /\ now < until
  /\ now' = now + 1
  /\ UNCHANGED <<cfg, prompt, pc, attempt, until, cut>>

Next ==
  \/ Start \/ CallSucceeds \/ CallGivesUp \/ CallFails
  \/ Wake \/ SleepCut \/ CommitReturns \/ Tick

Spec == Init /\ [][Next]_vars
-----------------------------------------------------------------------------
(* "Because rebalances are blocked while a record is being handled, one    *)
(* record's worst case (handle + commit) must finish well inside it": the  *)
(* work on a record never takes more than half the rebalance timeout,      *)
(* however slow the store and the broker and whatever was configured.      *)
InsideRebalance == now <= rebalanceTimeout \div 2

(* The product MaxWait computes fits an int64.                             *)
Exact(c) == c.Backoff * (c.MaxAttempts - 1) * c.MaxAttempts < HalfRange

(* What the last check of Validate is for: as long as the store answers    *)
(* (with errors) at once, an accepted policy whose MaxWait does not        *)
(* overflow has all its attempts; the record timeout never takes one away. *)
RetriesFit == Exact(cfg) /\ prompt => ~cut
=============================================================================
