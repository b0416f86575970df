---------------------------- MODULE ProcessProofs ----------------------------
(***************************************************************************)
(* How the binaries start and stop, for every environment, every number of *)
(* calls and every timing: the invariants of Worker, Service and Retry are *)
(* inductive, and the views of MCProcesses keep them.  What run has        *)
(* deferred is one of few stacks of calls; the first half of their part    *)
(* says what the operations on sequences make of them.                     *)
(*                                                                         *)
(* The first part is of one record's time, for every width of the numbers  *)
(* and every setting.  InsideRebalance holds of overflowing settings too:  *)
(* of Validate's checks it needs only the two limits on the record         *)
(* timeout.  RetriesFit is what the check of MaxWait is for.               *)
(***************************************************************************)
EXTENDS MCProcesses, SequenceTheorems, TLAPS

Clock ==
  /\ cfg \in Config
  /\ now \in Nat
  /\ pc \in {"start", "refused", "call", "sleep", "commit", "done", "stopped"}

(* A record is only worked on under an accepted record timeout.            *)
Accepted ==
  pc \notin {"start", "refused"} =>
    0 < cfg.RecordTimeout /\ cfg.RecordTimeout <= maxRecordTimeout

(* Where the clock can be: nowhere before the poll, within the record      *)
(* timeout while the store is called, and within the deadline of the       *)
(* offset commit after that.                                               *)
Position ==
  /\ pc \in {"start", "refused"} => now = 0
  /\ pc \in {"call", "sleep"} => now <= cfg.RecordTimeout
  /\ pc = "commit" =>
       /\ until \in Nat /\ now <= until
       /\ until <= cfg.RecordTimeout + commitTimeout
  /\ now <= rebalanceTimeout \div 2

BudgetInv == Clock /\ Accepted /\ Position

(* The limits are numbers, and handling and committing add up to half the  *)
(* rebalance timeout (the const block of consumer.go).                     *)
LEMMA Limits ==
  /\ commitTimeout \in Nat /\ maxRecordTimeout \in Nat
  /\ rebalanceTimeout \div 2 = maxRecordTimeout + commitTimeout
  /\ rebalanceTimeout \div 2 \in Nat
BY DEF commitTimeout, maxRecordTimeout, rebalanceTimeout

(* Settings are integers of the range, as the environment reader yields    *)
(* them.                                                                   *)
LEMMA SettingsInRange ==
  ASSUME cfg \in Config
  PROVE  /\ cfg.RecordTimeout \in Int
         /\ cfg.Backoff \in Int
         /\ cfg.MaxAttempts \in Int /\ cfg.MaxAttempts < HalfRange
<1>1. /\ cfg.RecordTimeout \in RecordTimeoutSetting
      /\ cfg.Backoff \in BackoffSetting
      /\ cfg.MaxAttempts \in MaxAttemptsSetting
  BY DEF Config
<1>2. /\ HalfRange \in Nat
      /\ RecordTimeoutSetting \subseteq -HalfRange .. HalfRange - 1
      /\ BackoffSetting \subseteq -HalfRange .. HalfRange - 1
      /\ MaxAttemptsSetting \subseteq -HalfRange .. HalfRange - 1
  BY BudgetAssumption
<1>3. \A x \in -HalfRange .. HalfRange - 1 : x \in Int /\ x < HalfRange
  BY <1>2
<1> QED
  BY <1>1, <1>2, <1>3

(* Init: the clock starts with the poll.                                   *)
LEMMA BudgetInit == Init => BudgetInv
BY Limits DEF Init, BudgetInv, Clock, Accepted, Position

(* No step of the retry loop or of processRecord takes the clock past the  *)
(* deadline of the context it runs under.                                  *)
LEMMA BudgetStep == BudgetInv /\ [Next]_vars => BudgetInv'
<1> SUFFICES ASSUME BudgetInv, [Next]_vars
             PROVE  BudgetInv'
  OBVIOUS
<1> USE Limits DEF BudgetInv, Clock, Accepted, Position
<1>0. cfg.RecordTimeout \in Int
  BY SettingsInRange
<1>1. CASE Start
  BY <1>0, <1>1 DEF Start, Validate
<1>2. CASE CallSucceeds
  BY <1>0, <1>2 DEF CallSucceeds
<1>3. CASE CallGivesUp
  BY <1>0, <1>3 DEF CallGivesUp
<1>4. CASE CallFails
  BY <1>0, <1>4 DEF CallFails
<1>5. CASE Wake
  BY <1>0, <1>5 DEF Wake
<1>6. CASE SleepCut
  BY <1>0, <1>6 DEF SleepCut
<1>7. CASE CommitReturns
  BY <1>0, <1>7 DEF CommitReturns
<1>8. CASE Tick
  <2>1. CASE pc \in {"call", "sleep"}
    BY <1>0, <1>8, <2>1 DEF Tick, HandleCtxErr
  <2>2. CASE pc = "commit"
    BY <1>0, <1>8, <2>2 DEF Tick
  <2> QED BY <1>8, <2>1, <2>2 DEF Tick
<1>9. CASE UNCHANGED vars
  BY <1>0, <1>9 DEF vars
<1> QED
  BY <1>1, <1>2, <1>3, <1>4, <1>5, <1>6, <1>7, <1>8, <1>9 DEF Next

(* Run and processRecord keep the work on one record inside half the       *)
(* rebalance timeout, for every configuration Validate lets through.       *)
THEOREM RecordInsideRebalance == Spec => []InsideRebalance
<1>1. BudgetInv => InsideRebalance
  BY DEF BudgetInv, Position, InsideRebalance
<1> QED
  BY <1>1, BudgetInit, BudgetStep, PTL DEF Spec
-----------------------------------------------------------------------------
(* Twice the waits before attempt a, with backoff b: b, 2b, ... (a - 1)b.  *)
Waited(b, a) == b * (a - 1) * a

(* Each failed attempt adds its own wait. *)
LEMMA WaitedNext ==
  ASSUME NEW b \in Nat, NEW a \in Nat
  PROVE  Waited(b, a + 1) = Waited(b, a) + 2 * (a * b)
BY DEF Waited

(* Later attempts come after longer waits. *)
LEMMA WaitedGrows ==
  ASSUME NEW b \in Nat, NEW a \in Nat, NEW m \in Nat, 1 <= a, a <= m
  PROVE  Waited(b, a) <= Waited(b, m) /\ Waited(b, a) \in Nat
<1>1. (a - 1) * a <= (m - 1) * m
  OBVIOUS
<1>2. (a - 1) * a \in Nat /\ (m - 1) * m \in Nat
  OBVIOUS
<1>3. \A x, y \in Nat : x <= y => b * x <= b * y /\ b * x \in Nat
  OBVIOUS
<1>4. Waited(b, a) = b * ((a - 1) * a) /\ Waited(b, m) = b * ((m - 1) * m)
  BY DEF Waited
<1> QED
  BY <1>1, <1>2, <1>3, <1>4

(* Two's complement arithmetic is exact on the numbers of the range.       *)
LEMMA WrapExact ==
  ASSUME NEW x \in Nat, x < HalfRange
  PROVE  Wrap(x) = x
<1>1. HalfRange \in Nat \ {0}
  BY BudgetAssumption
<1> HIDE DEF HalfRange
<1> QED
  BY <1>1 DEF Wrap

(* A product of the waits that fits leaves every wait in the range.        *)
LEMMA WaitInRange ==
  ASSUME NEW b \in Nat, NEW a \in Nat, NEW m \in Nat, a < m, Waited(b, m) < HalfRange
  PROVE  a * b \in Nat /\ a * b < HalfRange
<1>1. HalfRange \in Nat
  BY BudgetAssumption
<1>2. a * b <= (m - 1) * b
  OBVIOUS
<1>3. PICK x : x = (m - 1) * b
  OBVIOUS
<1>4. x \in Nat /\ x <= x * m
  BY <1>3
<1>5. x * m = Waited(b, m)
  BY <1>3 DEF Waited
<1>6. a * b \in Nat
  OBVIOUS
<1>7. x * m \in Int
  BY <1>4
<1> QED
  BY <1>1, <1>2, <1>3, <1>4, <1>5, <1>6, <1>7

(* What MaxWait computes, when it fits: half of the waits before the last  *)
(* attempt; Validate keeps it below the record timeout.                    *)
LEMMA ValidatedWait ==
  ASSUME cfg \in Config, Validate(cfg), Exact(cfg)
  PROVE  /\ cfg.MaxAttempts \in Nat /\ 1 <= cfg.MaxAttempts /\ cfg.Backoff \in Nat
         /\ Waited(cfg.Backoff, cfg.MaxAttempts) < 2 * cfg.RecordTimeout
<1>1. PICK b, m, t : b = cfg.Backoff /\ m = cfg.MaxAttempts /\ t = cfg.RecordTimeout
  OBVIOUS
<1>2. b \in Nat /\ m \in Nat /\ 1 <= m /\ m < HalfRange /\ t \in Int
  BY <1>1, SettingsInRange DEF Validate, RetryValidate
<1>3. HalfRange \in Nat
  BY BudgetAssumption
<1>4. Waited(b, m) < HalfRange /\ Waited(b, m) = b * (m - 1) * m
  BY <1>1 DEF Exact, Waited
<1>5. m - 1 \in Nat /\ m - 1 < HalfRange /\ m - 1 < m
  BY <1>2, <1>3
<1>6. PICK n \in Nat : n = m - 1 /\ n < HalfRange /\ n < m /\ n + 1 = m
  BY <1>2, <1>5
<1>7. b * n \in Nat /\ b * n < HalfRange
  <2>1. n * b \in Nat /\ n * b < HalfRange
    BY <1>2, <1>4, <1>6, WaitInRange
  <2> QED
    BY <1>2, <1>6, <2>1
<1>8. Wrap(m - 1) = n /\ Wrap(b * n) = b * n /\ Wrap(n + 1) = m
  BY <1>2, <1>6, <1>7, WrapExact
<1>9. PICK w \in Nat : w = b * n * m /\ w < HalfRange /\ w = Waited(b, m)
  BY <1>2, <1>4, <1>6, <1>7
<1>10. Wrap(b * n * m) = w
  BY <1>9, WrapExact
<1>11. MaxWait(cfg) = Half(w)
  BY <1>1, <1>6, <1>8, <1>10 DEF MaxWait
<1>12. Half(w) < t
  BY <1>1, <1>11 DEF Validate
<1>13. Half(w) = w \div 2
  BY <1>9 DEF Half
<1>14. w < 2 * t
  BY <1>2, <1>9, <1>12, <1>13
<1> QED
  BY <1>1, <1>2, <1>9, <1>14

(* Against a store that answers at once, an exact policy spends only its   *)
(* waits: they alone tell where the clock is.                              *)
OnlyWaits ==
  prompt /\ Exact(cfg) /\ pc \notin {"start", "refused"} =>
    /\ Validate(cfg)
    /\ pc = "call" =>
         /\ attempt \in Nat /\ 1 <= attempt /\ attempt <= cfg.MaxAttempts
         /\ 2 * now = Waited(cfg.Backoff, attempt)
    /\ pc = "sleep" =>
         /\ attempt \in Nat /\ 1 <= attempt /\ attempt < cfg.MaxAttempts
         /\ until \in Nat /\ now <= until
         /\ 2 * until = Waited(cfg.Backoff, attempt + 1)

RetriesInv ==
  /\ cfg \in Config /\ now \in Nat
  /\ pc \in {"start", "refused"} => now = 0 /\ attempt = 1 /\ cut = FALSE
  /\ OnlyWaits
  /\ RetriesFit

(* As long as they do, the record timeout has not passed.                  *)
LEMMA WithinTimeout ==
  ASSUME RetriesInv, prompt, Exact(cfg), pc \in {"call", "sleep"}
  PROVE  now < cfg.RecordTimeout
<1>1. PICK b, m, t : b = cfg.Backoff /\ m = cfg.MaxAttempts /\ t = cfg.RecordTimeout
  OBVIOUS
<1>2. m \in Nat /\ b \in Nat /\ t \in Int /\ Waited(b, m) < 2 * t /\ now \in Nat
  BY <1>1, ValidatedWait, SettingsInRange DEF RetriesInv, OnlyWaits
<1>3. PICK a, end \in Nat :
        1 <= a /\ a <= m /\ now <= end /\ 2 * end = Waited(b, a)
  <2>1. CASE pc = "call"
    BY <1>1, <2>1 DEF RetriesInv, OnlyWaits
  <2>2. CASE pc = "sleep"
    <3>1. /\ attempt \in Nat /\ 1 <= attempt /\ attempt < m
          /\ until \in Nat /\ now <= until /\ 2 * until = Waited(b, attempt + 1)
      BY <1>1, <2>2 DEF RetriesInv, OnlyWaits
    <3>2. attempt + 1 \in Nat /\ 1 <= attempt + 1 /\ attempt + 1 <= m
      BY <1>2, <3>1
    <3> QED
      BY <3>1, <3>2
  <2> QED
    BY <2>1, <2>2
<1>4. Waited(b, a) <= Waited(b, m) /\ Waited(b, a) \in Nat /\ Waited(b, m) \in Nat
  BY <1>2, <1>3, WaitedGrows
<1>5. now < t
  BY <1>2, <1>3, <1>4
<1> QED
  BY <1>1, <1>5

(* A failed attempt sleeps for its own wait, which does not overflow.      *)
LEMMA PauseExact ==
  ASSUME RetriesInv, prompt, Exact(cfg), pc = "call", attempt < cfg.MaxAttempts
  PROVE  /\ now + Pause \in Nat /\ now <= now + Pause
         /\ 2 * (now + Pause) = Waited(cfg.Backoff, attempt + 1)
<1>1. PICK b, m, a : b = cfg.Backoff /\ m = cfg.MaxAttempts /\ a = attempt
  OBVIOUS
<1>2. /\ a \in Nat /\ m \in Nat /\ b \in Nat /\ now \in Nat /\ a < m
      /\ 2 * now = Waited(b, a)
  BY <1>1, ValidatedWait DEF RetriesInv, OnlyWaits
<1>3. Waited(b, m) < HalfRange
  BY <1>1 DEF Exact, Waited
<1>4. PICK d \in Nat : d = a * b /\ d < HalfRange
  BY <1>2, <1>3, WaitInRange
<1>5. Wrap(attempt * cfg.Backoff) = d
  BY <1>1, <1>4, WrapExact
<1>6. Pause = d
  BY <1>4, <1>5 DEF Pause
<1>7. Waited(b, a + 1) = Waited(b, a) + 2 * d
  BY <1>2, <1>4, WaitedNext
<1>8. 2 * (now + d) = Waited(b, a + 1)
  BY <1>2, <1>4, <1>7
<1> QED
  BY <1>1, <1>2, <1>4, <1>6, <1>8

(* Every step of Handle keeps RetriesInv. *)
LEMMA RetriesStep ==
  ASSUME RetriesInv, [Next]_vars
  PROVE  RetriesInv'
<1>0. /\ cfg \in Config /\ now \in Nat
      /\ pc \in {"start", "refused"} => now = 0 /\ attempt = 1 /\ cut = FALSE
      /\ OnlyWaits /\ RetriesFit
  BY DEF RetriesInv
<1>1. UNCHANGED <<cfg, prompt>>
  BY DEF Next, Start, CallSucceeds, CallGivesUp, CallFails, Wake, SleepCut,
         CommitReturns, Tick, vars
<1>2. Exact(cfg)' = Exact(cfg) /\ Validate(cfg)' = Validate(cfg)
  BY <1>1 DEF Exact, Validate, RetryValidate, MaxWait, Half, Wrap
<1>3. CASE Start
  <2>1. ASSUME Validate(cfg), Exact(cfg)
        PROVE  /\ attempt \in Nat /\ 1 <= attempt /\ attempt <= cfg.MaxAttempts
               /\ 2 * now = Waited(cfg.Backoff, attempt)
    <3>1. 1 <= cfg.MaxAttempts /\ cfg.Backoff \in Nat
      BY <1>0, <2>1, ValidatedWait
    <3>2. now = 0 /\ attempt = 1
      BY <1>0, <1>3 DEF Start
    <3> QED
      BY <3>1, <3>2 DEF Waited
  <2> QED
    BY <1>0, <1>1, <1>2, <2>1, <1>3 DEF Start, RetriesInv, OnlyWaits, RetriesFit, Waited
<1>4. CASE CallSucceeds
  BY <1>0, <1>1, <1>2, <1>4 DEF CallSucceeds, RetriesInv, OnlyWaits, RetriesFit
<1>5. CASE CallGivesUp
  <2>1. prompt /\ Exact(cfg) => ~HandleCtxErr
    BY <1>0, <1>5, WithinTimeout, SettingsInRange DEF CallGivesUp, HandleCtxErr
  <2> QED
    BY <1>0, <1>1, <1>2, <1>5, <2>1 DEF CallGivesUp, RetriesInv, OnlyWaits, RetriesFit
<1>6. CASE CallFails
  <2>1. prompt /\ Exact(cfg) =>
          /\ now + Pause \in Nat /\ now <= now + Pause
          /\ 2 * (now + Pause) = Waited(cfg.Backoff, attempt + 1)
    BY <1>6, PauseExact DEF CallFails
  <2> QED
    BY <1>0, <1>1, <1>2, <1>6, <2>1
       DEF CallFails, RetriesInv, OnlyWaits, RetriesFit, Waited
<1>7. CASE Wake
  <2>1. ASSUME prompt, Exact(cfg)
        PROVE  /\ attempt + 1 \in Nat /\ 1 <= attempt + 1
               /\ attempt + 1 <= cfg.MaxAttempts
               /\ 2 * now = Waited(cfg.Backoff, attempt + 1)
    <3>1. /\ attempt \in Nat /\ 1 <= attempt /\ attempt < cfg.MaxAttempts
          /\ until \in Nat /\ now <= until /\ now >= until
          /\ 2 * until = Waited(cfg.Backoff, attempt + 1)
      BY <1>0, <1>7, <2>1 DEF Wake, OnlyWaits
    <3>2. cfg.MaxAttempts \in Int
      BY <1>0, SettingsInRange
    <3>3. now = until
      BY <1>0, <3>1
    <3> QED
      BY <3>1, <3>2, <3>3
  <2> QED
    BY <1>0, <1>1, <1>2, <1>7, <2>1 DEF Wake, RetriesInv, OnlyWaits, RetriesFit, Waited
<1>8. CASE SleepCut
  <2>1. prompt /\ Exact(cfg) => ~HandleCtxErr
    BY <1>0, <1>8, WithinTimeout, SettingsInRange DEF SleepCut, HandleCtxErr
  <2> QED
    BY <1>0, <1>1, <1>2, <1>8, <2>1 DEF SleepCut, RetriesInv, OnlyWaits, RetriesFit
<1>9. CASE CommitReturns
  BY <1>0, <1>1, <1>2, <1>9 DEF CommitReturns, RetriesInv, OnlyWaits, RetriesFit
<1>10. CASE Tick
  <2>1. ASSUME prompt, Exact(cfg), pc = "sleep" PROVE until \in Nat /\ now + 1 <= until
    BY <1>0, <1>10, <2>1 DEF Tick, OnlyWaits
  <2> QED
    BY <1>0, <1>1, <1>2, <1>10, <2>1 DEF Tick, RetriesInv, OnlyWaits, RetriesFit, Waited
<1>11. CASE UNCHANGED vars
  BY <1>0, <1>1, <1>2, <1>11 DEF vars, RetriesInv, OnlyWaits, RetriesFit, Waited
<1> QED
  BY <1>3, <1>4, <1>5, <1>6, <1>7, <1>8, <1>9, <1>10, <1>11 DEF Next

(* Validate's check of MaxWait does what it is for, for every policy whose *)
(* product fits the width: as long as RecordDispatch fails at once, Handle *)
(* has all its attempts, and the record timeout never takes one away.      *)
THEOREM RetriesAllFit == Spec => []RetriesFit
<1>1. Init => RetriesInv
  BY DEF Init, RetriesInv, OnlyWaits, RetriesFit
<1>2. RetriesInv /\ [Next]_vars => RetriesInv'
  BY RetriesStep
<1>3. RetriesInv => RetriesFit
  BY DEF RetriesInv
<1> QED
  BY <1>1, <1>2, <1>3, PTL DEF Spec
-----------------------------------------------------------------------------
(* Retry starts its first attempt in time. *)
LEMMA RetryInit ==
  ASSUME R!Init PROVE R!RetryInv
BY TimesAssumption
   DEF R!Init, R!RetryInv, R!TypeOK, R!InTime, R!Times, R!Never, R!FirstWait,
       R!MaxWait, R!AttemptTimeout, R!Answered, R!NoLonger, R!CtxDeadline,
       R!Earlier

(* Time passes only up to the context's deadline, and a signal is now.     *)
LEMMA RetryNoLonger ==
  ASSUME R!RetryInv, R!Next PROVE R!NoLonger'
<1>1. /\ clock <= Timeout /\ clock <= signal
      /\ clock \in Nat /\ signal \in Nat /\ Timeout \in Nat
      /\ since \in Nat /\ wait \in Nat
  BY TimesAssumption
     DEF R!RetryInv, R!TypeOK, R!NoLonger, R!CtxDeadline, R!Earlier, R!Times,
         R!Never, R!FirstWait, R!MaxWait
<1>2. CASE UNCHANGED <<clock, signal>>
  BY <1>1, <1>2 DEF R!NoLonger, R!CtxDeadline, R!Earlier
<1>3. CASE R!Signal
  BY <1>1, <1>3 DEF R!Signal, R!NoLonger, R!CtxDeadline, R!Earlier
<1>4. CASE R!Tick
  BY <1>1, <1>4
     DEF R!Tick, R!NoLonger, R!AttemptDeadline, R!WaitDeadline, R!CtxDeadline,
         R!Earlier, R!AttemptTimeout
<1> QED
  BY <1>2, <1>3, <1>4
     DEF R!Next, R!AttemptSucceeds, R!AttemptFails, R!TimerFires, R!WaitCut

(* An attempt that began before the dependency was up ends within its own  *)
(* timeout, the wait after it within MaxWait; the next one is answered.    *)
LEMMA RetryStep ==
  ASSUME R!RetryInv, R!Next PROVE R!RetryInv'
<1> SUFFICES (R!TypeOK /\ since <= clock /\ R!InTime)'
  BY RetryNoLonger DEF R!RetryInv
<1> USE TimesAssumption
    DEF R!Times, R!Never, R!FirstWait, R!MaxWait, R!AttemptTimeout, R!RetryInv
<1>1. CASE R!AttemptSucceeds
  BY <1>1 DEF R!AttemptSucceeds, R!TypeOK, R!InTime
<1>2. CASE R!AttemptFails
  BY <1>2
     DEF R!AttemptFails, R!TypeOK, R!InTime, R!FnFails, R!Stops, R!CtxErr,
     R!CtxDeadline, R!Earlier, R!AttemptDeadline, R!Answered
<1>3. CASE R!TimerFires
  BY <1>3
     DEF R!TimerFires, R!TypeOK, R!InTime, R!Doubled, R!Earlier, R!Answered
<1>4. CASE R!WaitCut
  BY <1>4
     DEF R!WaitCut, R!TypeOK, R!InTime, R!CtxErr, R!CtxDeadline, R!Earlier
<1>5. CASE R!Signal
  BY <1>5 DEF R!Signal, R!TypeOK, R!InTime
<1>6. CASE R!Tick
  BY <1>6 DEF R!Tick, R!TypeOK, R!InTime, R!AttemptDeadline, R!WaitDeadline,
     R!CtxDeadline, R!Earlier, R!Answered
<1> QED
  BY <1>1, <1>2, <1>3, <1>4, <1>5, <1>6 DEF R!Next

(* Retry does not give up on a dependency that comes up early enough.      *)
LEMMA RetryOutlives ==
  ASSUME R!RetryInv PROVE R!OutlivesOutage
BY TimesAssumption
   DEF R!RetryInv, R!InTime, R!OutlivesOutage, R!TypeOK, R!Times,
   R!AttemptTimeout, R!MaxWait
-----------------------------------------------------------------------------
(* The stacks of deferred calls that occur, as the operations on sequences *)
(* see them.                                                               *)
Stack1 == <<"pool.Close">>
Stack2 == <<"pool.Close", "mgmt.Shutdown">>
Stack3(c) == <<"pool.Close", "mgmt.Shutdown", c>>
Stack4 == <<"pool.Close", "mgmt.Shutdown", "publisher.Close", "stopRun">>

(* What Append does to a sequence.                                         *)
LEMMA Pushed ==
  ASSUME NEW D, NEW s \in Seq(D), NEW c \in D
  PROVE  /\ Append(s, c) \in Seq(D) /\ Len(Append(s, c)) = Len(s) + 1
         /\ Len(s) \in Nat
         /\ \A i \in 1..Len(s) : Append(s, c)[i] = s[i]
         /\ Append(s, c)[Len(s) + 1] = c
<1>1. Len(s) \in Nat
  BY LenProperties
<1> QED
  BY <1>1, AppendProperties

(* t is s with the call c on top. *)
Top(s, c, t) ==
  Append(s, c) = t /\ SubSeq(t, 1, Len(t) - 1) = s /\ t[Len(t)] = c

(* A sequence with one element more is that Append, and Front undoes it.   *)
LEMMA PushPop ==
  ASSUME NEW D, NEW s \in Seq(D), NEW t \in Seq(D), NEW c \in D,
         Len(t) = Len(s) + 1,
         \A i \in 1..Len(s) : t[i] = s[i],
         t[Len(s) + 1] = c
  PROVE  Top(s, c, t)
<1>1. Append(s, c) = t
  <2> DEFINE a == Append(s, c)
  <2>1. /\ a \in Seq(D) /\ Len(a) = Len(s) + 1 /\ Len(s) \in Nat
        /\ \A i \in 1..Len(s) : a[i] = s[i]
        /\ a[Len(s) + 1] = c
    BY Pushed
  <2> HIDE DEF a
  <2>2. \A i \in 1..Len(a) : a[i] = t[i]
    BY <2>1
  <2>3. a = t
    BY <2>1, <2>2, SeqEqual
  <2> QED BY <2>3 DEF a
<1>2. SubSeq(t, 1, Len(t) - 1) = s
  <2> DEFINE f == SubSeq(t, 1, Len(t) - 1)
  <2>1. Len(s) \in Nat
    BY LenProperties
  <2>2. \A i \in 1..Len(t) - 1 : t[i] \in D
    BY <2>1, ElementOfSeq
  <2>3. /\ f \in Seq(D) /\ Len(f) = Len(s)
        /\ \A i \in 1..Len(s) : f[i] = t[i]
    BY <2>1, <2>2, SubSeqProperties
  <2> HIDE DEF f
  <2>4. f = s
    BY <2>1, <2>3, SeqEqual
  <2> QED BY <2>4 DEF f
<1> QED
  BY <1>1, <1>2 DEF Top

(* The stacks are sequences of deferred calls ... *)
LEMMA StackSeq ==
  /\ <<>> \in Seq(W!Deferred) /\ Stack1 \in Seq(W!Deferred)
  /\ Stack2 \in Seq(W!Deferred) /\ Stack4 \in Seq(W!Deferred)
  /\ \A c \in W!Deferred : Stack3(c) \in Seq(W!Deferred)
  /\ Len(<<>>) = 0 /\ Len(Stack1) = 1 /\ Len(Stack2) = 2 /\ Len(Stack4) = 4
  /\ \A c : Len(Stack3(c)) = 3
BY DEF Stack1, Stack2, Stack3, Stack4, W!Deferred

(* ... and these are their entries.                                        *)
LEMMA StackEntries ==
  /\ Stack1[1] = "pool.Close"
  /\ Stack2[1] = "pool.Close" /\ Stack2[2] = "mgmt.Shutdown"
  /\ Stack4[1] = "pool.Close" /\ Stack4[2] = "mgmt.Shutdown"
  /\ Stack4[3] = "publisher.Close" /\ Stack4[4] = "stopRun"
  /\ \A c : /\ Stack3(c)[1] = "pool.Close" /\ Stack3(c)[2] = "mgmt.Shutdown"
            /\ Stack3(c)[3] = c
BY DEF Stack1, Stack2, Stack3, Stack4

(* Each stack is one deferred call on top of another stack.                *)
LEMMA Stacks ==
  /\ Top(<<>>, "pool.Close", Stack1)
  /\ Top(Stack1, "mgmt.Shutdown", Stack2)
  /\ \A c \in W!Deferred : Top(Stack2, c, Stack3(c))
  /\ Top(Stack3("publisher.Close"), "stopRun", Stack4)
<1>1. Top(<<>>, "pool.Close", Stack1)
  <2>1. /\ <<>> \in Seq(W!Deferred) /\ Stack1 \in Seq(W!Deferred)
        /\ "pool.Close" \in W!Deferred
    BY StackSeq DEF W!Deferred
  <2>2. Len(Stack1) = Len(<<>>) + 1 /\ Stack1[Len(<<>>) + 1] = "pool.Close"
    BY StackSeq, StackEntries
  <2>3. \A i \in 1..Len(<<>>) : Stack1[i] = <<>>[i]
    BY StackSeq, StackEntries
  <2> QED
    BY <2>1, <2>2, <2>3, PushPop
<1>2. Top(Stack1, "mgmt.Shutdown", Stack2)
  <2>1. /\ Stack1 \in Seq(W!Deferred) /\ Stack2 \in Seq(W!Deferred)
        /\ "mgmt.Shutdown" \in W!Deferred
    BY StackSeq DEF W!Deferred
  <2>2. /\ Len(Stack2) = Len(Stack1) + 1
        /\ Stack2[Len(Stack1) + 1] = "mgmt.Shutdown"
    BY StackSeq, StackEntries
  <2>3. \A i \in 1..Len(Stack1) : Stack2[i] = Stack1[i]
    BY StackSeq, StackEntries
  <2> QED
    BY <2>1, <2>2, <2>3, PushPop
<1>3. ASSUME NEW c \in W!Deferred PROVE Top(Stack2, c, Stack3(c))
  <2>1. /\ Stack2 \in Seq(W!Deferred) /\ Stack3(c) \in Seq(W!Deferred)
        /\ c \in W!Deferred
    BY StackSeq DEF W!Deferred
  <2>2. Len(Stack3(c)) = Len(Stack2) + 1 /\ Stack3(c)[Len(Stack2) + 1] = c
    BY StackSeq, StackEntries
  <2>3. \A i \in 1..Len(Stack2) : Stack3(c)[i] = Stack2[i]
    BY StackSeq, StackEntries
  <2> QED
    BY <2>1, <2>2, <2>3, PushPop
<1>4. Top(Stack3("publisher.Close"), "stopRun", Stack4)
  <2> DEFINE s == Stack3("publisher.Close")
  <2>1. s \in Seq(W!Deferred) /\ Stack4 \in Seq(W!Deferred) /\ Len(s) = 3
    BY StackSeq DEF W!Deferred
  <2>2. \A i \in 1..3 : Stack4[i] = s[i]
    BY StackEntries
  <2> HIDE DEF s
  <2>3. /\ Len(Stack4) = Len(s) + 1 /\ Stack4[Len(s) + 1] = "stopRun"
        /\ \A i \in 1..Len(s) : Stack4[i] = s[i]
    BY <2>1, <2>2, StackSeq, StackEntries
  <2>4. "stopRun" \in W!Deferred
    BY DEF W!Deferred
  <2>5. Top(s, "stopRun", Stack4)
    BY <2>1, <2>3, <2>4, PushPop
  <2> QED
    BY <2>5 DEF s
<1> QED
  BY <1>1, <1>2, <1>3, <1>4

(* No two of them are the same.                                            *)
LEMMA StackDistinct ==
  /\ Stack1 # <<>> /\ Stack2 # <<>> /\ Stack4 # <<>>
  /\ \A c : /\ Stack3(c) # <<>> /\ Stack3(c) # Stack1
            /\ Stack3(c) # Stack2 /\ Stack3(c) # Stack4
BY DEF Stack1, Stack2, Stack3, Stack4

(* What is open under each of them.                                        *)
LEMMA StackTypes ==
  /\ W!Range(<<>>) = {}
  /\ W!Range(Stack1) = {"pool.Close"}
  /\ W!Range(Stack2) = {"pool.Close", "mgmt.Shutdown"}
  /\ W!Range(Stack4) =
       {"pool.Close", "mgmt.Shutdown", "publisher.Close", "stopRun"}
  /\ \A c : W!Range(Stack3(c)) = {"pool.Close", "mgmt.Shutdown", c}
BY DEF Stack1, Stack2, Stack3, Stack4, W!Range

(* None has a call twice.                                                  *)
LEMMA StackInj ==
  /\ W!IsInjective(<<>>) /\ W!IsInjective(Stack1)
  /\ W!IsInjective(Stack2) /\ W!IsInjective(Stack4)
  /\ \A c \in {"publisher.Close", "stopRun", "gracefulStop"} :
       W!IsInjective(Stack3(c))
BY DEF Stack1, Stack2, Stack3, Stack4, W!IsInjective
-----------------------------------------------------------------------------
(* Concatenating one deferred call pushes it.                              *)
LEMMA JoinIsPush ==
  ASSUME NEW s \in Seq(W!Deferred), NEW c \in W!Deferred
  PROVE  s \o <<c>> = Append(s, c)
BY AppendIsConcat, Zenon

(* What KafkaAnswers adds, for the relay and for the consumer.             *)
LEMMA Joins ==
  /\ Stack2 \o <<"publisher.Close">> \o <<"stopRun">> = Stack4
  /\ Stack2 \o <<>> \o <<"stopRun">> = Stack3("stopRun")
<1>1. "publisher.Close" \in W!Deferred /\ "stopRun" \in W!Deferred
  BY DEF W!Deferred
<1>2. /\ Stack2 \in Seq(W!Deferred)
      /\ Stack3("publisher.Close") \in Seq(W!Deferred)
  BY <1>1, StackSeq
<1>3. /\ Stack2 \o <<"publisher.Close">> = Append(Stack2, "publisher.Close")
      /\ Stack2 \o <<"stopRun">> = Append(Stack2, "stopRun")
      /\ Stack3("publisher.Close") \o <<"stopRun">>
           = Append(Stack3("publisher.Close"), "stopRun")
  BY <1>1, <1>2, JoinIsPush, Zenon
<1>4. Stack2 \o <<>> = Stack2
  BY StackSeq, ConcatEmptySeq
<1> QED
  BY <1>1, <1>3, <1>4, Stacks, Zenon DEF Top

(* What is deferred, whichever of the two workers runs. *)
LEMMA WorkerStack ==
  /\ W!Whole = IF binary = "outbox-relay" THEN Stack4 ELSE Stack3("stopRun")
  /\ W!Front(W!Whole) = IF binary = "outbox-relay"
                        THEN Stack3("publisher.Close") ELSE Stack2
<1>1. W!Whole = IF binary = "outbox-relay" THEN Stack4 ELSE Stack3("stopRun")
  BY DEF W!Whole, Stack4, Stack3
<1>2. /\ W!Front(Stack4) = Stack3("publisher.Close")
      /\ W!Front(Stack3("stopRun")) = Stack2
  BY Stacks DEF Top, W!Front, W!Deferred
<1> QED
  BY <1>1, <1>2

(* run of a worker begins with nothing open.                               *)
LEMMA WorkerInit ==
  ASSUME W!Init PROVE W!WorkerInv
<1>1. W!Range(<<>>) = {} /\ W!IsInjective(<<>>)
  BY StackTypes, StackInj
<1> QED
  BY <1>1, RunningAssumption
     DEF W!Init, W!ProcessInit, W!WorkerInv, W!TypeOK, W!ProcessTypeOK,
         W!LoopPlace, W!DefersOrdered, W!DefersHeld, W!ErrorOrAsked,
         W!CleanExitWasAsked, W!Step, W!Deferred

(* The defers never hold a resource twice, nor an unknown one. *)
LEMMA WorkerOpen ==
  ASSUME W!DefersOrdered
  PROVE  W!Range(defers) \subseteq W!Deferred /\ W!IsInjective(defers)
BY WorkerStack, StackTypes, StackInj
   DEF W!DefersOrdered, W!Deferred, Stack2, Stack1

(* A loop that runs is one run has not begun to unwind.                    *)
LEMMA WorkerKept ==
  ASSUME W!WorkerInv PROVE W!LoopKeepsItsDependencies
<1>1. at \in {"select", "drain"} => 
         /\ "pool.Close" \in W!Range(defers)
         /\ binary = "outbox-relay" => "publisher.Close" \in W!Range(defers)
  BY WorkerStack, StackTypes DEF W!WorkerInv, W!DefersHeld
<1> QED
  BY <1>1
     DEF W!WorkerInv, W!LoopKeepsItsDependencies, W!LoopPlace, W!Open,
         W!TypeOK, W!ProcessTypeOK, W!Step

(* A deferred call leaves one of the stacks of the same binary.            *)
LEMMA WorkerUnwinds ==
  ASSUME W!WorkerInv, NEW call, W!Unwind(call), binary' = binary
  PROVE  W!DefersOrdered'
<1>1. /\ at = "unwind" /\ defers # <<>>
      /\ defers' = SubSeq(defers, 1, Len(defers) - 1)
  BY DEF W!Unwind, W!Front
<1>2. /\ SubSeq(Stack1, 1, Len(Stack1) - 1) = <<>>
      /\ SubSeq(Stack2, 1, Len(Stack2) - 1) = Stack1
      /\ SubSeq(Stack4, 1, Len(Stack4) - 1) = Stack3("publisher.Close")
      /\ \A c \in {"stopRun", "publisher.Close"} :
           SubSeq(Stack3(c), 1, Len(Stack3(c)) - 1) = Stack2
  BY Stacks DEF Top, W!Deferred
<1>3. W!Whole' = W!Whole /\ W!Front(W!Whole)' = W!Front(W!Whole)
  BY DEF W!Whole, W!Front
<1>4. \/ defers = W!Whole \/ defers = W!Front(W!Whole) \/ defers = Stack2
      \/ defers = Stack1 \/ defers = <<>>
  BY DEF W!WorkerInv, W!DefersOrdered, Stack1, Stack2
<1>5. \/ defers' = W!Front(W!Whole) \/ defers' = Stack2
      \/ defers' = Stack1 \/ defers' = <<>>
  BY <1>1, <1>2, <1>4, WorkerStack
<1> QED
  BY <1>3, <1>5 DEF W!DefersOrdered, Stack1, Stack2

(* The parts of the invariant that the deferred calls have no part in.     *)
WorkerRest ==
  /\ at \in W!Step /\ env \in [EnvVar -> W!EnvValue]
  /\ signalled \in BOOLEAN /\ failed \in BOOLEAN
  /\ mgmt \in {"off", "serving", "failed", "shut"}
  /\ status \in {0, 1, Running}
  /\ binary \in {"outbox-relay", "dispatch-consumer"}
  /\ loop \in {"none", "ping", "idle", "busy", "stuck", "ended"}
  /\ loopErr \in BOOLEAN /\ stopped \in BOOLEAN
  /\ W!LoopPlace /\ W!ErrorOrAsked /\ W!CleanExitWasAsked

(* The two parts are the invariant: of the stacks the types follow.        *)
LEMMA WorkerParts ==
  W!WorkerInv <=> WorkerRest /\ W!DefersOrdered /\ W!DefersHeld
BY WorkerOpen DEF W!WorkerInv, W!TypeOK, W!ProcessTypeOK, WorkerRest

(* The stack as the start grows it.                                        *)
LEMMA WorkerGrows ==
  /\ Append(<<>>, "pool.Close") = <<"pool.Close">>
  /\ Append(<<"pool.Close">>, "mgmt.Shutdown") =
       <<"pool.Close", "mgmt.Shutdown">>
BY Stacks DEF Top, Stack1, Stack2

(* Every step of run, of its loop and of the outside keeps the invariant.  *)
LEMMA WorkerStep ==
  ASSUME W!WorkerInv, W!Next PROVE W!WorkerInv'
<1>0. WorkerRest /\ W!DefersOrdered /\ W!DefersHeld
  BY WorkerParts
<1>u. ASSUME binary' = binary
      PROVE  W!Whole' = W!Whole /\ W!Front(W!Whole)' = W!Front(W!Whole)
  BY <1>u DEF W!Whole, W!Front
<1> SUFFICES WorkerRest' /\ W!DefersOrdered' /\ W!DefersHeld'
  BY WorkerParts, PTL
<1> USE DEF W!LoopPlace, W!ErrorOrAsked, W!CleanExitWasAsked, W!Cancelled,
            W!Step, W!workerVars, W!processVars
<1>1. CASE W!Configure /\ UNCHANGED W!workerVars
  <2>1. WorkerRest'
    BY <1>1, <1>0, RunningAssumption
       DEF WorkerRest, W!Configure, W!Fail, W!Proceed
  <2>2. W!DefersOrdered' /\ W!DefersHeld'
    BY <1>1, <1>0, <1>u
       DEF W!DefersOrdered, W!DefersHeld, W!Configure, W!Fail, W!Proceed
  <2> QED
    BY <2>1, <2>2
<1>2. CASE W!OpenStore /\ UNCHANGED W!workerVars
  <2>1. WorkerRest'
    BY <1>2, <1>0, RunningAssumption
       DEF WorkerRest, W!OpenStore, W!Fail, W!Proceed
  <2>2. W!DefersOrdered' /\ W!DefersHeld'
    BY <1>2, <1>0, <1>u, WorkerGrows
       DEF W!DefersOrdered, W!DefersHeld, W!OpenStore, W!Fail, W!Proceed
  <2> QED
    BY <2>1, <2>2
<1>3. CASE W!ListenManagement("kafka") /\ UNCHANGED W!workerVars
  <2>1. WorkerRest'
    BY <1>3, <1>0, RunningAssumption
       DEF WorkerRest, W!ListenManagement, W!Fail, W!Proceed
  <2>2. W!DefersOrdered' /\ W!DefersHeld'
    BY <1>3, <1>0, <1>u, WorkerGrows
       DEF W!DefersOrdered, W!DefersHeld, W!ListenManagement, W!Fail,
           W!Proceed
  <2> QED
    BY <2>1, <2>2
<1>4. CASE W!KafkaAnswers
  <2>1. WorkerRest'
    BY <1>4, <1>0, RunningAssumption DEF WorkerRest, W!KafkaAnswers, W!Proceed
  <2>2. W!DefersOrdered' /\ W!DefersHeld'
    <3>1. at = "kafka" /\ at' = "select" /\ binary' = binary
      BY <1>4 DEF W!KafkaAnswers, W!Proceed
    <3>2. defers = Stack2
      BY <1>0, <3>1 DEF W!DefersHeld, Stack2
    <3>3. defers' = W!Whole
      BY <1>4, <3>2, Joins, WorkerStack DEF W!KafkaAnswers
    <3> QED
      BY <3>1, <3>3, <1>u DEF W!DefersOrdered, W!DefersHeld
  <2> QED
    BY <2>1, <2>2
<1>5. CASE W!KafkaGivenUp
  <2>1. WorkerRest'
    BY <1>5, <1>0, RunningAssumption DEF WorkerRest, W!KafkaGivenUp, W!Fail
  <2>2. W!DefersOrdered' /\ W!DefersHeld'
    BY <1>5, <1>0, <1>u
       DEF W!DefersOrdered, W!DefersHeld, W!KafkaGivenUp, W!Fail
  <2> QED
    BY <2>1, <2>2
<1>6. CASE W!LoopReturned
  <2>1. WorkerRest'
    BY <1>6, <1>0, RunningAssumption DEF WorkerRest, W!LoopReturned
  <2>2. W!DefersOrdered' /\ W!DefersHeld'
    BY <1>6, <1>0, <1>u DEF W!DefersOrdered, W!DefersHeld, W!LoopReturned
  <2> QED
    BY <2>1, <2>2
<1>7. CASE W!ManagementFailed
  <2>1. WorkerRest'
    BY <1>7, <1>0, RunningAssumption
       DEF WorkerRest, W!ManagementFailed, W!AfterStopRun
  <2>2. W!DefersOrdered' /\ W!DefersHeld'
    BY <1>7, <1>0, <1>u
       DEF W!DefersOrdered, W!DefersHeld, W!ManagementFailed, W!AfterStopRun
  <2> QED
    BY <2>1, <2>2
<1>8. CASE W!LoopDrained
  <2>1. WorkerRest'
    BY <1>8, <1>0, RunningAssumption DEF WorkerRest, W!LoopDrained
  <2>2. W!DefersOrdered' /\ W!DefersHeld'
    BY <1>8, <1>0, <1>u DEF W!DefersOrdered, W!DefersHeld, W!LoopDrained
  <2> QED
    BY <2>1, <2>2
<1>9. CASE W!Defers
  <2>1. WorkerRest'
    <3>1. CASE W!Unwind("stopRun") /\ stopped' = TRUE
               /\ UNCHANGED <<mgmt, binary, loop, loopErr>>
      BY <3>1, <1>0, RunningAssumption DEF WorkerRest, W!Unwind
    <3>2. CASE /\ W!Unwind("publisher.Close") \/ W!Unwind("pool.Close")
               /\ UNCHANGED <<mgmt, W!workerVars>>
      BY <3>2, <1>0, RunningAssumption DEF WorkerRest, W!Unwind
    <3>3. CASE W!ShutdownManagement /\ UNCHANGED W!workerVars
      BY <3>3, <1>0, RunningAssumption
         DEF WorkerRest, W!Unwind, W!ShutdownManagement
    <3> QED
      BY <1>9, <3>1, <3>2, <3>3 DEF W!Defers
  <2>2. W!DefersOrdered' /\ W!DefersHeld'
    <3>1. /\ binary' = binary /\ at = "unwind" /\ at' = "unwind"
          /\ \E call : W!Unwind(call)
      BY <1>9 DEF W!Defers, W!ShutdownManagement, W!Unwind
    <3> QED
      BY <3>1, WorkerUnwinds DEF W!DefersHeld
  <2> QED
    BY <2>1, <2>2
<1>10. CASE W!Exit /\ UNCHANGED W!workerVars
  <2>1. WorkerRest'
    BY <1>10, <1>0, RunningAssumption DEF WorkerRest, W!Exit
  <2>2. W!DefersOrdered' /\ W!DefersHeld'
    BY <1>10, <1>0, <1>u DEF W!DefersOrdered, W!DefersHeld, W!Exit
  <2> QED
    BY <2>1, <2>2
<1>11. CASE W!LoopWorks
  <2>1. WorkerRest'
    BY <1>11, <1>0, RunningAssumption DEF WorkerRest, W!LoopWorks
  <2>2. W!DefersOrdered' /\ W!DefersHeld'
    BY <1>11, <1>0, <1>u DEF W!DefersOrdered, W!DefersHeld, W!LoopWorks
  <2> QED
    BY <2>1, <2>2
<1>12. CASE W!LoopEnds
  <2>1. WorkerRest'
    BY <1>12, <1>0, RunningAssumption DEF WorkerRest, W!LoopEnds, W!RecordError
  <2>2. W!DefersOrdered' /\ W!DefersHeld'
    BY <1>12, <1>0, <1>u
       DEF W!DefersOrdered, W!DefersHeld, W!LoopEnds
  <2> QED
    BY <2>1, <2>2
<1>13. CASE W!Signal /\ UNCHANGED W!workerVars
  <2>1. WorkerRest'
    BY <1>13, <1>0, RunningAssumption DEF WorkerRest, W!Signal
  <2>2. W!DefersOrdered' /\ W!DefersHeld'
    BY <1>13, <1>0, <1>u DEF W!DefersOrdered, W!DefersHeld, W!Signal
  <2> QED
    BY <2>1, <2>2
<1>14. CASE W!ManagementFails /\ UNCHANGED W!workerVars
  <2>1. WorkerRest'
    BY <1>14, <1>0, RunningAssumption DEF WorkerRest, W!ManagementFails
  <2>2. W!DefersOrdered' /\ W!DefersHeld'
    BY <1>14, <1>0, <1>u DEF W!DefersOrdered, W!DefersHeld, W!ManagementFails
  <2> QED
    BY <2>1, <2>2
<1> QED
  BY <1>1, <1>2, <1>3, <1>4, <1>5, <1>6, <1>7, <1>8, <1>9, <1>10, <1>11,
     <1>12, <1>13, <1>14
     DEF W!Next, W!Main, W!Startup, W!Goroutines, W!Outside
-----------------------------------------------------------------------------
(* All that the service defers. *)
Stop3 == Stack3("gracefulStop")

(* What is open under each of the service's stacks, and what is on top.    *)
LEMMA ServiceStack ==
  /\ \A t \in {<<>>, Stack1, Stack2, Stop3} :
       /\ S!Range(t) \subseteq S!Deferred /\ S!IsInjective(t)
       /\ "pool.Close" \in S!Range(t) <=> t # <<>>
  /\ S!Front(Stack1) = <<>> /\ S!Last(Stack1) = "pool.Close"
  /\ S!Front(Stack2) = Stack1 /\ S!Last(Stack2) = "mgmt.Shutdown"
  /\ S!Front(Stop3) = Stack2 /\ S!Last(Stop3) = "gracefulStop"
  /\ Append(<<>>, "pool.Close") = Stack1
  /\ Append(Stack1, "mgmt.Shutdown") = Stack2
  /\ Append(Stack2, "gracefulStop") = Stop3
  /\ Stack1 # <<>> /\ Stack2 # <<>> /\ Stop3 # <<>>
  /\ Stop3 # Stack1 /\ Stop3 # Stack2 /\ Stack1 # Stack2
<1>1. \A t : /\ S!Range(t) = W!Range(t)
            /\ S!IsInjective(t) <=> W!IsInjective(t)
  BY DEF S!Range, W!Range, S!IsInjective, W!IsInjective
<1>2. \A t \in {<<>>, Stack1, Stack2, Stop3} :
       /\ S!Range(t) \subseteq S!Deferred /\ S!IsInjective(t)
       /\ "pool.Close" \in S!Range(t) <=> t # <<>>
  BY <1>1, StackTypes, StackInj, StackDistinct DEF Stop3, S!Deferred
<1>3. Stack1 # Stack2
  BY DEF Stack1, Stack2
<1>4. /\ Top(<<>>, "pool.Close", Stack1)
      /\ Top(Stack1, "mgmt.Shutdown", Stack2)
      /\ Top(Stack2, "gracefulStop", Stop3)
  BY Stacks DEF Stop3, W!Deferred
<1> QED
  BY <1>2, <1>3, <1>4, StackDistinct DEF Top, S!Front, S!Last, Stop3

(* How far run and the gRPC server are tells the stack.                    *)
ServiceDefers ==
  /\ defers \in {<<>>, Stack1, Stack2, Stop3}
  /\ at \in {"config", "store"} => defers = <<>>
  /\ at = "listen" => defers = Stack1
  /\ at = "listenGRPC" => defers = Stack2
  /\ grpc \in {"serving", "failed", "draining"} => defers = Stop3
  /\ at \in {"config", "store", "listen", "listenGRPC"} => grpc = "off"
  /\ at = "select" => grpc \in {"serving", "failed"}
  /\ status # Running => at = "unwind" /\ defers = <<>>

(* The values of the variables, and why run unwinds.                       *)
ServiceTypes ==
  /\ at \in S!Step /\ env \in [EnvVar -> S!EnvValue]
  /\ signalled \in BOOLEAN /\ failed \in BOOLEAN
  /\ mgmt \in {"off", "serving", "failed", "shut"}
  /\ status \in {0, 1, Running}
  /\ grpc \in {"off", "serving", "failed", "draining", "stopped"}
  /\ health \in {"UNKNOWN", "SERVING", "NOT_SERVING"}
  /\ handler \in [Call -> {"none", "runs", "holds", "done"}]
  /\ cancelled \in BOOLEAN
  /\ S!ErrorOrAsked

(* Which calls there can be.                                               *)
ServiceCalls ==
  /\ health = "SERVING" => grpc \in {"serving", "failed"}
  /\ (\E c \in Call : handler[c] \in {"runs", "holds"}) /\ ~cancelled =>
       grpc \in {"serving", "failed", "draining"}
  /\ defers = <<>> => \A c \in Call : handler[c] # "holds"

(* The three parts are the invariant of Service.                           *)
LEMMA ServiceParts ==
  S!ServiceInv <=> ServiceTypes /\ ServiceDefers /\ ServiceCalls
<1>1. S!DefersOrdered /\ S!DefersHeld <=> ServiceDefers
  BY DEF S!DefersOrdered, S!DefersHeld, ServiceDefers, Stack1, Stack2, Stack3,
     Stop3
<1>2. ASSUME ServiceDefers
      PROVE  /\ S!Range(defers) \subseteq S!Deferred /\ S!IsInjective(defers)
             /\ S!Open("pool.Close") <=> defers # <<>>
  BY <1>2, ServiceStack DEF ServiceDefers, S!Open
<1>3. S!Busy # {} <=> \E c \in Call : handler[c] \in {"runs", "holds"}
  BY DEF S!Busy
<1>4. ASSUME ServiceDefers PROVE S!CallsServed <=> ServiceCalls
  BY <1>2, <1>3, <1>4 DEF S!CallsServed, ServiceCalls
<1>5. S!TypeOK /\ S!ErrorOrAsked <=>
        /\ ServiceTypes
        /\ S!Range(defers) \subseteq S!Deferred /\ S!IsInjective(defers)
  BY DEF S!TypeOK, S!ProcessTypeOK, ServiceTypes
<1> QED
  BY <1>1, <1>2, <1>4, <1>5 DEF S!ServiceInv

(* run of the service begins with nothing open and no call.                *)
LEMMA ServiceInit ==
  ASSUME S!Init PROVE S!ServiceInv
<1>1. ServiceTypes
  BY RunningAssumption
     DEF S!Init, S!ProcessInit, ServiceTypes, S!Step, S!ErrorOrAsked,
         S!CleanExitWasAsked
<1>2. ServiceDefers /\ ServiceCalls
  BY DEF S!Init, S!ProcessInit, ServiceDefers, ServiceCalls
<1> QED BY <1>1, <1>2, ServiceParts

(* Every step of run, of its calls and of the outside keeps the invariant. *)
LEMMA ServiceStep ==
  ASSUME S!ServiceInv, S!Next PROVE S!ServiceInv'
<1>0. ServiceTypes /\ ServiceDefers /\ ServiceCalls
  BY ServiceParts
<1> SUFFICES ServiceTypes' /\ ServiceDefers' /\ ServiceCalls'
  BY ServiceParts, PTL
<1> USE <1>0 DEF S!ErrorOrAsked, S!CleanExitWasAsked, S!Step,
                S!serviceVars, S!processVars
<1>1. CASE S!Configure /\ UNCHANGED S!serviceVars
  <2>1. ServiceTypes'
    BY <1>1, RunningAssumption
       DEF ServiceTypes, S!Configure, S!Fail, S!Proceed
  <2>2. ServiceDefers'
    BY <1>1, ServiceStack
       DEF ServiceDefers, ServiceTypes, S!Configure, S!Fail, S!Proceed
  <2>3. ServiceCalls'
    BY <1>1, ServiceStack
       DEF ServiceCalls, ServiceDefers, ServiceTypes, S!Configure, S!Fail,
           S!Proceed
  <2> QED
    BY <2>1, <2>2, <2>3
<1>2. CASE S!OpenStore /\ UNCHANGED S!serviceVars
  <2>1. ServiceTypes'
    <3>1. /\ at = "store" /\ UNCHANGED <<env, signalled, mgmt, status>>
          /\ UNCHANGED S!serviceVars
      BY <1>2 DEF S!OpenStore
    <3>2. CASE at' = "listen" /\ UNCHANGED failed
      BY <3>1, <3>2, RunningAssumption DEF ServiceTypes
    <3>3. CASE at' = "unwind" /\ failed' = TRUE
      BY <3>1, <3>3, RunningAssumption DEF ServiceTypes
    <3> QED
      BY <1>2, <3>2, <3>3 DEF S!OpenStore, S!Fail, S!Proceed
  <2>2. ServiceDefers'
    <3>1. at = "store" /\ defers = <<>> /\ grpc = "off" /\ UNCHANGED <<grpc, status>>
      BY <1>2 DEF ServiceDefers, S!OpenStore
    <3>2. CASE at' = "listen" /\ defers' = Append(defers, "pool.Close")
      BY <3>1, <3>2, ServiceStack DEF ServiceDefers
    <3>3. CASE at' = "unwind" /\ UNCHANGED defers
      BY <3>1, <3>3 DEF ServiceDefers
    <3> QED
      BY <1>2, <3>2, <3>3 DEF S!OpenStore, S!Fail, S!Proceed
  <2>3. ServiceCalls'
    BY <1>2, ServiceStack
       DEF ServiceCalls, ServiceDefers, ServiceTypes, S!OpenStore, S!Fail,
           S!Proceed
  <2> QED
    BY <2>1, <2>2, <2>3
<1>3. CASE S!ListenManagement("listenGRPC") /\ UNCHANGED S!serviceVars
  <2>1. ServiceTypes'
    BY <1>3, RunningAssumption
       DEF ServiceTypes, S!ListenManagement, S!Fail, S!Proceed
  <2>2. ServiceDefers'
    BY <1>3, ServiceStack
       DEF ServiceDefers, ServiceTypes, S!ListenManagement, S!Fail, S!Proceed
  <2>3. ServiceCalls'
    BY <1>3, ServiceStack
       DEF ServiceCalls, ServiceDefers, ServiceTypes, S!ListenManagement,
           S!Fail, S!Proceed
  <2> QED
    BY <2>1, <2>2, <2>3
<1>4. CASE S!ListenGRPC
  <2>1. ServiceTypes'
    BY <1>4, RunningAssumption
       DEF ServiceTypes, S!ListenGRPC, S!DeferStop, S!Fail, S!Proceed
  <2>2. ServiceDefers'
    BY <1>4, ServiceStack
       DEF ServiceDefers, ServiceTypes, S!ListenGRPC, S!DeferStop, S!Fail,
           S!Proceed
  <2>3. ServiceCalls'
    BY <1>4, ServiceStack
       DEF ServiceCalls, ServiceDefers, ServiceTypes, S!ListenGRPC,
           S!DeferStop, S!Fail, S!Proceed
  <2> QED
    BY <2>1, <2>2, <2>3
<1>5. CASE S!Stops
  <2>1. ServiceTypes'
    BY <1>5, RunningAssumption DEF ServiceTypes, S!Stops, S!Fail, S!Proceed
  <2>2. ServiceDefers'
    BY <1>5, ServiceStack
       DEF ServiceDefers, ServiceTypes, S!Stops, S!Fail, S!Proceed
  <2>3. ServiceCalls'
    BY <1>5, ServiceStack
       DEF ServiceCalls, ServiceDefers, ServiceTypes, S!Stops, S!Fail,
           S!Proceed
  <2> QED
    BY <2>1, <2>2, <2>3
<1>6. CASE S!GracefulStopBegins
  <2>1. ServiceTypes'
    BY <1>6, RunningAssumption
       DEF ServiceTypes, S!GracefulStopBegins, S!StopAdvertising
  <2>2. ServiceDefers'
    BY <1>6, ServiceStack
       DEF ServiceDefers, ServiceTypes, S!GracefulStopBegins,
           S!StopAdvertising
  <2>3. ServiceCalls'
    BY <1>6, ServiceStack
       DEF ServiceCalls, ServiceDefers, ServiceTypes, S!GracefulStopBegins,
           S!StopAdvertising
  <2> QED
    BY <2>1, <2>2, <2>3
<1>7. CASE S!GracefulStopEnds
  <2>1. ServiceTypes'
    BY <1>7, RunningAssumption
       DEF ServiceTypes, S!GracefulStopEnds, S!Unwind, S!Busy
  <2>2. ServiceDefers'
    BY <1>7, ServiceStack
       DEF ServiceDefers, ServiceTypes, S!GracefulStopEnds, S!Unwind, S!Busy
  <2>3. ServiceCalls'
    BY <1>7, ServiceStack
       DEF ServiceCalls, ServiceDefers, ServiceTypes, S!GracefulStopEnds,
           S!Unwind, S!Busy
  <2> QED
    BY <2>1, <2>2, <2>3
<1>8. CASE S!GraceExpires
  <2>1. ServiceTypes'
    BY <1>8, RunningAssumption DEF ServiceTypes, S!GraceExpires, S!Unwind
  <2>2. ServiceDefers'
    BY <1>8, ServiceStack
       DEF ServiceDefers, ServiceTypes, S!GraceExpires, S!Unwind
  <2>3. ServiceCalls'
    BY <1>8, ServiceStack
       DEF ServiceCalls, ServiceDefers, ServiceTypes, S!GraceExpires, S!Unwind
  <2> QED
    BY <2>1, <2>2, <2>3
<1>9. CASE S!ClosePool
  <2>1. ServiceTypes'
    BY <1>9, RunningAssumption DEF ServiceTypes, S!ClosePool, S!Unwind
  <2>2. ServiceDefers'
    BY <1>9, ServiceStack
       DEF ServiceDefers, ServiceTypes, S!ClosePool, S!Unwind
  <2>3. ServiceCalls'
    BY <1>9, ServiceStack
       DEF ServiceCalls, ServiceDefers, ServiceTypes, S!ClosePool, S!Unwind
  <2> QED
    BY <2>1, <2>2, <2>3
<1>10. CASE S!ShutdownManagement /\ UNCHANGED S!serviceVars
  <2>1. ServiceTypes'
    BY <1>10, RunningAssumption
       DEF ServiceTypes, S!ShutdownManagement, S!Unwind
  <2>2. ServiceDefers'
    BY <1>10, ServiceStack
       DEF ServiceDefers, ServiceTypes, S!ShutdownManagement, S!Unwind
  <2>3. ServiceCalls'
    BY <1>10, ServiceStack
       DEF ServiceCalls, ServiceDefers, ServiceTypes, S!ShutdownManagement,
           S!Unwind
  <2> QED
    BY <2>1, <2>2, <2>3
<1>11. CASE S!Exit /\ UNCHANGED S!serviceVars
  <2>1. ServiceTypes'
    BY <1>11, RunningAssumption DEF ServiceTypes, S!Exit
  <2>2. ServiceDefers'
    BY <1>11, ServiceStack DEF ServiceDefers, ServiceTypes, S!Exit
  <2>3. ServiceCalls'
    BY <1>11, ServiceStack
       DEF ServiceCalls, ServiceDefers, ServiceTypes, S!Exit
  <2> QED
    BY <2>1, <2>2, <2>3
<1>12. ASSUME NEW c \in Call, S!CallArrives(c)
       PROVE  ServiceTypes' /\ ServiceDefers' /\ ServiceCalls'
  <2>1. ServiceTypes'
    BY <1>12, RunningAssumption DEF ServiceTypes, S!CallArrives
  <2>2. ServiceDefers'
    BY <1>12, ServiceStack DEF ServiceDefers, ServiceTypes, S!CallArrives
  <2>3. ServiceCalls'
    BY <1>12, ServiceStack
       DEF ServiceCalls, ServiceDefers, ServiceTypes, S!CallArrives
  <2> QED
    BY <2>1, <2>2, <2>3
<1>13. ASSUME NEW c \in Call, S!Acquire(c)
       PROVE  ServiceTypes' /\ ServiceDefers' /\ ServiceCalls'
  <2>1. ServiceTypes'
    BY <1>13, RunningAssumption DEF ServiceTypes, S!Acquire, S!Open
  <2>2. ServiceDefers'
    BY <1>13, ServiceStack DEF ServiceDefers, ServiceTypes, S!Acquire, S!Open
  <2>3. ServiceCalls'
    BY <1>13, ServiceStack
       DEF ServiceCalls, ServiceDefers, ServiceTypes, S!Acquire, S!Open
  <2> QED
    BY <2>1, <2>2, <2>3
<1>14. ASSUME NEW c \in Call, S!Answer(c)
       PROVE  ServiceTypes' /\ ServiceDefers' /\ ServiceCalls'
  <2>1. ServiceTypes'
    BY <1>14, RunningAssumption DEF ServiceTypes, S!Answer
  <2>2. ServiceDefers'
    BY <1>14, ServiceStack DEF ServiceDefers, ServiceTypes, S!Answer
  <2>3. ServiceCalls'
    BY <1>14, ServiceStack
       DEF ServiceCalls, ServiceDefers, ServiceTypes, S!Answer
  <2> QED
    BY <2>1, <2>2, <2>3
<1>15. CASE S!ServeFails
  <2>1. ServiceTypes'
    BY <1>15, RunningAssumption DEF ServiceTypes, S!ServeFails
  <2>2. ServiceDefers'
    BY <1>15, ServiceStack DEF ServiceDefers, ServiceTypes, S!ServeFails
  <2>3. ServiceCalls'
    BY <1>15, ServiceStack
       DEF ServiceCalls, ServiceDefers, ServiceTypes, S!ServeFails
  <2> QED
    BY <2>1, <2>2, <2>3
<1>16. CASE S!Signal /\ UNCHANGED S!serviceVars
  <2>1. ServiceTypes'
    BY <1>16, RunningAssumption DEF ServiceTypes, S!Signal
  <2>2. ServiceDefers'
    BY <1>16, ServiceStack DEF ServiceDefers, ServiceTypes, S!Signal
  <2>3. ServiceCalls'
    BY <1>16, ServiceStack
       DEF ServiceCalls, ServiceDefers, ServiceTypes, S!Signal
  <2> QED
    BY <2>1, <2>2, <2>3
<1>17. CASE S!ManagementFails /\ UNCHANGED S!serviceVars
  <2>1. ServiceTypes'
    BY <1>17, RunningAssumption DEF ServiceTypes, S!ManagementFails
  <2>2. ServiceDefers'
    BY <1>17, ServiceStack DEF ServiceDefers, ServiceTypes, S!ManagementFails
  <2>3. ServiceCalls'
    BY <1>17, ServiceStack
       DEF ServiceCalls, ServiceDefers, ServiceTypes, S!ManagementFails
  <2> QED
    BY <2>1, <2>2, <2>3
<1> QED
  BY <1>1, <1>2, <1>3, <1>4, <1>5, <1>6, <1>7, <1>8, <1>9, <1>10, <1>11,
     <1>12, <1>13, <1>14, <1>15, <1>16, <1>17
     DEF S!Next, S!Main, S!Startup, S!Calls, S!Outside

(* The stack tells what is open, and the invariant which stack there is.   *)
LEMMA ServiceKept ==
  ASSUME S!ServiceInv
  PROVE  /\ S!CallsKeepTheStore /\ S!ServingHasStore
         /\ S!NoTransactionCutByExit /\ S!CleanExitWasAsked
<1>0. ServiceTypes /\ ServiceDefers /\ ServiceCalls
  BY ServiceParts
<1>1. S!Open("pool.Close") <=> defers # <<>>
  BY <1>0, ServiceStack DEF ServiceDefers, S!Open
<1> QED
  BY <1>0, <1>1, ServiceStack DEF ServiceTypes, ServiceDefers, ServiceCalls,
     S!CallsKeepTheStore, S!ServingHasStore, S!Busy,
     S!NoTransactionCutByExit, S!CleanExitWasAsked, S!ErrorOrAsked, S!Exited
-----------------------------------------------------------------------------
(* Run starts with the first attempt.                                      *)
LEMMA RecordInit == Init => RecordInv
<1> SUFFICES ASSUME Init PROVE RecordInv
  OBVIOUS
<1>1. 1 \in 1..HalfRange
  BY BudgetAssumption
<1>2. attempt \in 1..HalfRange /\ now \in Nat /\ until \in Nat
  BY <1>1 DEF Init
<1> QED
  BY <1>2 DEF Init, RecordInv, TypeOK

(* Two's complement arithmetic yields integers, and a pause is never       *)
(* negative.                                                               *)
LEMMA PauseIsNat ==
  ASSUME cfg \in Config, attempt \in Nat PROVE Pause \in Nat
<1>1. HalfRange \in Nat \ {0} /\ cfg.Backoff \in Int
  BY BudgetAssumption, SettingsInRange
<1> HIDE DEF HalfRange
<1>2. \A x \in Int : Wrap(x) \in Int
  BY <1>1 DEF Wrap
<1>3. attempt * cfg.Backoff \in Int
  BY <1>1
<1> QED
  BY <1>2, <1>3 DEF Pause

(* Every step of Run and Handle keeps the types.                           *)
LEMMA RecordStep == RecordInv /\ [Next]_vars => RecordInv'
<1> SUFFICES ASSUME RecordInv, [Next]_vars PROVE RecordInv'
  OBVIOUS
<1>0. /\ cfg.MaxAttempts \in Int /\ cfg.MaxAttempts < HalfRange
      /\ HalfRange \in Nat \ {0} /\ commitTimeout \in Nat /\ Pause \in Nat
  BY BudgetAssumption, SettingsInRange, Limits, PauseIsNat
     DEF RecordInv, TypeOK
<1> HIDE DEF HalfRange
<1> USE <1>0 DEF RecordInv, TypeOK
<1>1. CASE Start
  BY <1>1 DEF Start
<1>2. CASE CallSucceeds
  BY <1>2 DEF CallSucceeds
<1>3. CASE CallGivesUp
  BY <1>3 DEF CallGivesUp, HandleCtxErr
<1>4. CASE CallFails
  BY <1>4 DEF CallFails
<1>5. CASE Wake
  BY <1>5 DEF Wake
<1>6. CASE SleepCut
  BY <1>6 DEF SleepCut
<1>7. CASE CommitReturns
  BY <1>7 DEF CommitReturns
<1>8. CASE Tick
  BY <1>8 DEF Tick
<1>9. CASE UNCHANGED vars
  BY <1>9 DEF vars
<1> QED
  BY <1>1, <1>2, <1>3, <1>4, <1>5, <1>6, <1>7, <1>8, <1>9 DEF Next

(* The invariants are of the variables of their view only.                 *)
LEMMA WorkerStutters ==
  ASSUME W!WorkerInv, UNCHANGED <<processVars, workerVars>> PROVE W!WorkerInv'
BY DEF processVars, workerVars, W!WorkerInv, W!TypeOK, W!ProcessTypeOK,
   W!LoopPlace, W!DefersOrdered,
       W!Whole, W!DefersHeld, W!ErrorOrAsked, W!CleanExitWasAsked, W!Cancelled

(* The same for Service.                                                   *)
LEMMA ServiceStutters ==
  ASSUME S!ServiceInv, UNCHANGED <<processVars, serviceVars>>
  PROVE  S!ServiceInv'
BY DEF processVars, serviceVars, S!ServiceInv, S!TypeOK, S!ProcessTypeOK,
   S!DefersOrdered, S!DefersHeld,
       S!CallsServed, S!Busy, S!Open, S!ErrorOrAsked, S!CleanExitWasAsked

(* The same for Retry.                                                     *)
LEMMA RetryStutters ==
  ASSUME R!RetryInv, UNCHANGED retryVars PROVE R!RetryInv'
BY DEF retryVars, R!RetryInv, R!TypeOK, R!InTime, R!Answered, R!NoLonger,
       R!CtxDeadline

(* Every view starts in its invariant ... *)
LEMMA ProcessInit == MCInit => ProcessInv
<1>1. MCInit => Init
  BY DEF MCInit, NoRecord
<1> QED
  BY <1>1, RecordInit, WorkerInit, ServiceInit, RetryInit
     DEF MCInit, ProcessInv

(* ... and keeps it: a step is of the chosen view.                         *)
LEMMA ProcessStep == ProcessInv /\ [MCNext]_allVars => ProcessInv'
<1> SUFFICES ASSUME ProcessInv, [MCNext]_allVars PROVE ProcessInv'
  OBVIOUS
<1>0. view' = view
  BY DEF MCNext, OfWorker, OfService, allVars
<1>1. ASSUME view = "worker" PROVE W!WorkerInv'
  <2>1. CASE W!Next
    BY <1>1, <2>1, WorkerStep DEF ProcessInv
  <2>2. CASE UNCHANGED <<processVars, workerVars>>
    BY <1>1, <2>2, WorkerStutters DEF ProcessInv
  <2> QED
    BY <1>1, <2>1, <2>2 DEF MCNext, OfWorker, OfService, allVars
<1>2. ASSUME view = "service" PROVE S!ServiceInv'
  <2>1. CASE S!Next
    BY <1>2, <2>1, ServiceStep DEF ProcessInv
  <2>2. CASE UNCHANGED <<processVars, serviceVars>>
    BY <1>2, <2>2, ServiceStutters DEF ProcessInv
  <2> QED
    BY <1>2, <2>1, <2>2 DEF MCNext, OfWorker, OfService, allVars
<1>3. ASSUME view = "retry" PROVE R!RetryInv'
  <2>1. CASE R!Next
    BY <1>3, <2>1, RetryStep DEF ProcessInv
  <2>2. CASE UNCHANGED retryVars
    BY <1>3, <2>2, RetryStutters DEF ProcessInv
  <2> QED
    BY <1>3, <2>1, <2>2 DEF MCNext, OfWorker, OfService, allVars
<1>4. RecordInv'
  BY RecordStep DEF ProcessInv, MCNext, OfWorker, OfService, allVars
<1> QED
  BY <1>0, <1>1, <1>2, <1>3, <1>4 DEF ProcessInv

(* For every environment, number of calls, timing and setting, run of      *)
(* every binary, Retry and the work on one record keep their types and     *)
(* their invariants; in particular nothing is deferred, and so closed,     *)
(* twice.                                                                  *)
THEOREM ProcessInvariant == MCSpec => []ProcessInv
BY ProcessInit, ProcessStep, PTL DEF MCSpec

(* Retry of internal/config outlives every outage that ends one attempt,   *)
(* one longest wait and one answer before its timeout.                     *)
THEOREM OutlivesOutageInvariant == MCSpec => []OutlivesOutage
<1>1. ProcessInv => OutlivesOutage
  BY RetryOutlives DEF ProcessInv, OutlivesOutage
<1> QED
  BY <1>1, ProcessInvariant, PTL

(* No path out of any run closes the pool or the publisher under the loop, *)
(* or the pool under a call within the grace period; nor is SERVING ever   *)
(* advertised over a closed pool.                                          *)
THEOREM DependenciesOutliveUsersInvariant ==
  MCSpec => []DependenciesOutliveUsers
<1>1. ProcessInv => DependenciesOutliveUsers
  BY WorkerKept, ServiceKept DEF ProcessInv, DependenciesOutliveUsers
<1> QED
  BY <1>1, ProcessInvariant, PTL

(* The service never exits while a call holds a connection, because the    *)
(* deferred pool.Close waits for it.                                       *)
THEOREM NoTransactionCutByExitInvariant == MCSpec => []NoTransactionCutByExit
<1>1. ProcessInv => NoTransactionCutByExit
  BY ServiceKept DEF ProcessInv, NoTransactionCutByExit
<1> QED
  BY <1>1, ProcessInvariant, PTL

(* Exit status 0 means that a signal came and that the loop of a worker    *)
(* returned no error, on every path out of run.                            *)
THEOREM CleanExitWasAskedInvariant == MCSpec => []CleanExitWasAsked
<1>1. ProcessInv => CleanExitWasAsked
  BY ServiceKept DEF ProcessInv, CleanExitWasAsked, W!WorkerInv
<1> QED
  BY <1>1, ProcessInvariant, PTL
=============================================================================
