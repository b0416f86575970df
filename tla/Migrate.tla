------------------------------ MODULE Migrate ------------------------------
(***************************************************************************)
(* storage.Migrate as cmd/migrate runs it, by any number of processes at   *)
(* once, against one Postgres database.                                    *)
(*                                                                         *)
(* A process (m) and its database session are kept apart: when the process *)
(* dies, loses its connection or has its context cancelled, the session    *)
(* lives on as an orphan until the server notices.  Until then it still    *)
(* holds the advisory lock, may still be granted it, and may still carry   *)
(* out a COMMIT that was already sent.  A process that is started again is *)
(* another element of Migrator.                                            *)
(*                                                                         *)
(* The embedded files, sorted by name, are 1 .. N.                         *)
(***************************************************************************)
EXTENDS Naturals, Sequences

CONSTANTS Migrator, N, None

ASSUME MigrateAssumption == N \in Nat /\ None \notin Migrator

File == 1 .. N

VARIABLES
  pc,        \* where Migrate is in each process
  next,      \* the file its loop is at
  result,    \* "none" until it returns, then "nil" or "error"
  session,   \* its database session
  lock,      \* the session that holds migrationLockID
  queue,     \* the sessions waiting for it
  tx,        \* uncommitted work: SQL files run, versions inserted
  inFlight,  \* the sessions that have a COMMIT to carry out
  table,     \* whether schema_migrations exists
  recorded,  \* its rows
  log        \* the files whose SQL took effect, in that order

server == <<session, lock, queue, tx, inFlight, table, recorded, log>>
vars == <<pc, next, result, server>>

NoTx == [sql |-> <<>>, version |-> {}]

(* A database that some earlier release, with fewer files, has migrated,   *)
(* or a new one.                                                           *)
Init ==
  /\ pc = [m \in Migrator |-> "start"]
  /\ next = [m \in Migrator |-> 1]
  /\ result = [m \in Migrator |-> "none"]
  /\ session = [m \in Migrator |-> "none"]
  /\ lock = None
  /\ queue = {}
  /\ tx = [m \in Migrator |-> NoTx]
  /\ inFlight = {}
  /\ \E k \in 0 .. N :
       /\ log = [i \in 1 .. k |-> i]
       /\ recorded = 1 .. k
       /\ table = (k > 0)

Goto(m, l) == pc' = [pc EXCEPT ![m] = l]

Return(m, r) == result' = [result EXCEPT ![m] = r]

(* The client's end of the connection is gone; the server's is not yet.    *)
Abandon(m) ==
  session' = [session EXCEPT ![m] = IF @ = "open" THEN "orphan" ELSE @]
-----------------------------------------------------------------------------
(* pool.Acquire, then SELECT pg_advisory_lock is sent. *)
Start(m) ==
  /\ pc[m] = "start"
  /\ Goto(m, "lock")
  /\ session' = [session EXCEPT ![m] = "open"]
  /\ queue' = queue \cup {m}
  /\ UNCHANGED <<next, result, lock, tx, inFlight, table, recorded, log>>

(* No connection: Migrate returns before it has done anything. *)
StartFails(m) ==
  /\ pc[m] = "start"
  /\ Goto(m, "exit") /\ Return(m, "error")
  /\ UNCHANGED <<next, server>>

(* Mutant of Granted: the answer of pg_try_advisory_lock is not looked at. *)
GrantedWithoutWaiting(m) ==
  /\ m \in queue
  /\ lock' = IF lock = None THEN m ELSE lock
  /\ queue' = queue \ {m}
  /\ pc' = [pc EXCEPT ![m] = IF @ = "lock" THEN "table" ELSE @]
  /\ UNCHANGED <<next, result, session, tx, inFlight, table, recorded, log>>

(* The server grants the lock to a session that waits for it, whether or   *)
(* not its process is still there.                                         *)
Granted(m) ==
  /\ m \in queue
  /\ lock = None
  /\ lock' = m
  /\ queue' = queue \ {m}
  /\ pc' = [pc EXCEPT ![m] = IF @ = "lock" THEN "table" ELSE @]
  /\ UNCHANGED <<next, result, session, tx, inFlight, table, recorded, log>>

CreateTable(m) ==
  /\ pc[m] = "table"
  /\ Goto(m, "check")
  /\ table' = TRUE
  /\ UNCHANGED <<next, result, session, lock, queue, tx, inFlight,
                 recorded, log>>

(* SELECT EXISTS finds the version: continue. *)
SkipApplied(m) ==
  /\ pc[m] = "check" /\ table
  /\ next[m] \in recorded
  /\ next' = [next EXCEPT ![m] = @ + 1]
  /\ UNCHANGED <<pc, result, server>>

(* It does not: the file is read and a transaction begun. *)
FindPending(m) ==
  /\ pc[m] = "check" /\ table
  /\ next[m] \in File \ recorded
  /\ Goto(m, "apply")
  /\ UNCHANGED <<next, result, server>>

(* Mutant of Apply: the file runs outside the transaction. *)
ApplyOutside(m) ==
  /\ pc[m] = "apply"
  /\ Goto(m, "record")
  /\ log' = Append(log, next[m])
  /\ UNCHANGED <<next, result, session, lock, queue, tx, inFlight,
                 table, recorded>>

Apply(m) ==
  /\ pc[m] = "apply"
  /\ Goto(m, "record")
  /\ tx' = [tx EXCEPT ![m] = [sql |-> <<next[m]>>, version |-> {}]]
  /\ UNCHANGED <<next, result, session, lock, queue, inFlight,
                 table, recorded, log>>

(* INSERT waits for another transaction's uncommitted row of the same      *)
(* version, and fails (Fail) on a committed one.                           *)
Record(m) ==
  /\ pc[m] = "record"
  /\ next[m] \notin recorded
  /\ \A o \in Migrator : next[m] \notin tx[o].version
  /\ Goto(m, "commit")
  /\ tx' = [tx EXCEPT ![m] = [sql |-> @.sql, version |-> {next[m]}]]
  /\ UNCHANGED <<next, result, session, lock, queue, inFlight,
                 table, recorded, log>>

(* tx.Commit sends COMMIT. *)
SendCommit(m) ==
  /\ pc[m] = "commit"
  /\ Goto(m, "committing")
  /\ inFlight' = inFlight \cup {m}
  /\ UNCHANGED <<next, result, session, lock, queue, tx, table, recorded, log>>

(* The server carries out a COMMIT; a process that still waits for the     *)
(* answer goes on to the next file.                                        *)
CommitLands(m) ==
  /\ m \in inFlight
  /\ inFlight' = inFlight \ {m}
  /\ log' = log \o tx[m].sql
  /\ recorded' = recorded \cup tx[m].version
  /\ tx' = [tx EXCEPT ![m] = NoTx]
  /\ IF pc[m] = "committing"
       THEN Goto(m, "check") /\ next' = [next EXCEPT ![m] = @ + 1]
       ELSE UNCHANGED <<pc, next>>
  /\ UNCHANGED <<result, session, lock, queue, table>>

(* The loop is over: Migrate returns nil, and its deferred unlock runs. *)
Finish(m) ==
  /\ pc[m] = "check"
  /\ next[m] > N
  /\ Goto(m, "unlock") /\ Return(m, "nil")
  /\ UNCHANGED <<next, server>>
-----------------------------------------------------------------------------
Statement == {"table", "check", "apply", "record", "committing"}

(* Mutant of Fail: a failure ends the loop, but is not returned. *)
FailSwallowed(m) ==
  /\ pc[m] \in Statement
  /\ Goto(m, "unlock") /\ Return(m, "nil")
  /\ tx' = [tx EXCEPT ![m] = NoTx]
  /\ inFlight' = inFlight \ {m}
  /\ UNCHANGED <<next, session, lock, queue, table, recorded, log>>

(* The server refuses a statement.  Rollback (of a refused COMMIT the      *)
(* server's own) discards the transaction, the error is returned, and the  *)
(* deferred unlock runs on the same connection.                            *)
Fail(m) ==
  /\ pc[m] \in Statement
  /\ Goto(m, "unlock") /\ Return(m, "error")
  /\ tx' = [tx EXCEPT ![m] = NoTx]
  /\ inFlight' = inFlight \ {m}
  /\ UNCHANGED <<next, session, lock, queue, table, recorded, log>>

(* The connection breaks, or ctx is cancelled, which closes it: the        *)
(* rollback and the deferred unlock fail on it too and are only logged.    *)
Lose(m) ==
  /\ pc[m] \in Statement \cup {"lock", "commit"}
  /\ Goto(m, "exit") /\ Return(m, "error")
  /\ Abandon(m)
  /\ UNCHANGED <<next, lock, queue, tx, inFlight, table, recorded, log>>

(* pg_advisory_unlock, then run returns and closes the pool. *)
Unlock(m) ==
  /\ pc[m] = "unlock"
  /\ Goto(m, "exit")
  /\ lock' = IF lock = m THEN None ELSE lock
  /\ Abandon(m)
  /\ UNCHANGED <<next, result, queue, tx, inFlight, table, recorded, log>>

(* Mutant of UnlockFails: the connection goes back to a pool that stays    *)
(* open.                                                                   *)
UnlockFailsPooled(m) ==
  /\ pc[m] = "unlock"
  /\ Goto(m, "exit")
  /\ UNCHANGED <<next, result, server>>

(* It fails or exceeds unlockTimeout: a log line, and the pool is closed.  *)
UnlockFails(m) ==
  /\ pc[m] = "unlock"
  /\ Goto(m, "exit")
  /\ Abandon(m)
  /\ UNCHANGED <<next, result, lock, queue, tx, inFlight, table, recorded, log>>

(* The process is killed. *)
Die(m) ==
  /\ pc[m] \notin {"exit", "dead"}
  /\ Goto(m, "dead")
  /\ Abandon(m)
  /\ UNCHANGED <<next, result, lock, queue, tx, inFlight, table, recorded, log>>

(* The server notices that the client is gone: the session's transaction   *)
(* is rolled back and its advisory lock released.                          *)
SessionEnds(m) ==
  /\ session[m] = "orphan"
  /\ session' = [session EXCEPT ![m] = "none"]
  /\ lock' = IF lock = m THEN None ELSE lock
  /\ queue' = queue \ {m}
  /\ tx' = [tx EXCEPT ![m] = NoTx]
  /\ inFlight' = inFlight \ {m}
  /\ UNCHANGED <<pc, next, result, table, recorded, log>>

Step(m) ==
  \/ Start(m) \/ StartFails(m) \/ Granted(m)
  \/ CreateTable(m) \/ SkipApplied(m) \/ FindPending(m)
  \/ Apply(m) \/ Record(m) \/ SendCommit(m) \/ CommitLands(m) \/ Finish(m)
  \/ Fail(m) \/ Lose(m) \/ Unlock(m) \/ UnlockFails(m)
  \/ SessionEnds(m)

Next == \E m \in Migrator : Step(m) \/ Die(m)

Spec == Init /\ [][Next]_vars

(* A statement is answered or its connection breaks, and the server        *)
(* notices a dead client; nothing has to be killed.                        *)
FairSpec == Spec /\ \A m \in Migrator : WF_vars(Step(m))
-----------------------------------------------------------------------------
Pc == {"start", "lock", "table", "check", "apply", "record", "commit",
       "committing", "unlock", "exit", "dead"}

Tx == [sql : {<<>>} \cup {<<f>> : f \in File}, version : SUBSET File]

(* The variables have the values Migrate, its session and the two tables   *)
(* can give them.                                                          *)
TypeOK ==
  /\ pc \in [Migrator -> Pc]
  /\ next \in [Migrator -> 1 .. N + 1]
  /\ result \in [Migrator -> {"none", "nil", "error"}]
  /\ session \in [Migrator -> {"none", "open", "orphan"}]
  /\ lock \in Migrator \cup {None}
  /\ queue \in SUBSET Migrator
  /\ tx \in [Migrator -> Tx]
  /\ inFlight \in SUBSET Migrator
  /\ table \in BOOLEAN
  /\ recorded \in SUBSET File
  /\ log \in Seq(File)

(* Whatever migrators run, fail or die, and whenever their last COMMIT     *)
(* lands, the files take effect once each, in the order of their names,    *)
(* and schema_migrations records exactly those that did.                   *)
AppliedOnceInOrder ==
  /\ \A i \in DOMAIN log : log[i] = i
  /\ recorded = DOMAIN log

(* "concurrent migrators serialize": a session that has uncommitted work   *)
(* or a COMMIT to carry out, its process alive or not, holds the lock.     *)
Serialized ==
  \A m \in Migrator : tx[m] # NoTx \/ m \in inFlight => lock = m

(* "schema up to date": a migrator that returns nil leaves no file to be   *)
(* applied, whoever applied them.                                          *)
UpToDate ==
  \A m \in Migrator : result[m] = "nil" => recorded = File

Begun == {"apply", "record", "commit", "committing"}

Inside == Begun \cup {"table", "check"}

(* What a process that has the lock knows of it. *)
Holding ==
  \A m \in Migrator :
    /\ pc[m] \in Inside \cup {"unlock"} => lock = m
    /\ pc[m] \in Inside \cup {"unlock", "lock"} => session[m] = "open"
    /\ pc[m] \notin Begun \cup {"exit", "dead"} => tx[m] = NoTx
    /\ m \in inFlight => pc[m] \in {"committing", "exit", "dead"}

(* How far a process has come, relative to what has taken effect. *)
Position ==
  \A m \in Migrator :
    /\ pc[m] \in {"start", "lock", "table"} => next[m] = 1
    /\ pc[m] = "check" => next[m] <= Len(log) + 1
    /\ pc[m] \in Begun => next[m] = Len(log) + 1 /\ next[m] \in File

(* What an uncommitted transaction holds. *)
Pending ==
  \A m \in Migrator :
    /\ pc[m] = "apply" => tx[m] = NoTx
    /\ pc[m] = "record" => tx[m] = [sql |-> <<next[m]>>, version |-> {}]
    /\ pc[m] \in {"commit", "committing"} =>
         tx[m] = [sql |-> <<next[m]>>, version |-> {next[m]}]
    /\ m \in inFlight =>
         tx[m] = [sql |-> <<Len(log) + 1>>, version |-> {Len(log) + 1}]

(* The inductive invariant behind the properties above: the lock, not the  *)
(* process, is what keeps the SQL and the record of a file together.       *)
MigrateInv ==
  /\ TypeOK /\ Holding /\ Position /\ Pending
  /\ AppliedOnceInOrder /\ Serialized /\ UpToDate

(* Every migrator ends, and the lock is free again for the next one.       *)
Released ==
  <>[](/\ lock = None
       /\ \A m \in Migrator : pc[m] \in {"exit", "dead"})
=============================================================================
