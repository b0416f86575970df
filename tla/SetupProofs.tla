---------------------------- MODULE SetupProofs ----------------------------
(***************************************************************************)
(* What is run before the services are, and may be killed anywhere:        *)
(* Migrate's invariants, for any number of migrators and files, and the    *)
(* protoc installer's, for any release.                                    *)
(***************************************************************************)
EXTENDS Migrate, Protoc, SequenceTheorems, TLAPS

(* The database Migrate is first run on satisfies the invariant. *)
LEMMA MigrateInit == Init => MigrateInv
<1> SUFFICES ASSUME Init PROVE MigrateInv
  OBVIOUS
<1> USE MigrateAssumption DEF Init
<1>1. PICK k \in 0 .. N : /\ log = [i \in 1 .. k |-> i]
                          /\ recorded = 1 .. k
                          /\ table = (k > 0)
  OBVIOUS
<1>2. log \in Seq(File) /\ Len(log) = k /\ DOMAIN log = 1 .. k
  BY <1>1 DEF File
<1>3. NoTx \in Tx
  BY DEF NoTx, Tx
<1>4. TypeOK
  BY <1>1, <1>2, <1>3 DEF TypeOK, Pc, File
<1>5. Holding /\ Position /\ Pending
  BY DEF Holding, Position, Pending, Begun, Inside
<1>6. AppliedOnceInOrder
  BY <1>1, <1>2 DEF AppliedOnceInOrder
<1>7. Serialized /\ UpToDate
  BY DEF Serialized, UpToDate
<1> QED
  BY <1>4, <1>5, <1>6, <1>7 DEF MigrateInv
(* Every step of a migrator, of its session, or of the death of a process  *)
(* preserves it.                                                           *)
LEMMA MigrateStep == MigrateInv /\ [Next]_vars => MigrateInv'
<1> SUFFICES ASSUME MigrateInv, [Next]_vars PROVE MigrateInv'
  OBVIOUS
<1> USE MigrateAssumption DEF MigrateInv
<1>1. CASE UNCHANGED vars
  BY <1>1 DEF vars, server, TypeOK, Holding, Position, Pending,
    AppliedOnceInOrder, Serialized, UpToDate
<1>2. ASSUME NEW m \in Migrator, Start(m) PROVE MigrateInv'
  <2> USE <1>2 DEF Start, Goto
  <2>1. TypeOK'
    BY DEF TypeOK, Pc, Tx, File, NoTx
  <2>2. Holding'
    BY DEF Holding, TypeOK, Serialized, Begun, Inside, NoTx
  <2>3. Position'
    BY DEF Position, TypeOK, Holding, Begun, Inside, File, AppliedOnceInOrder
  <2>4. Pending'
    BY DEF Pending, TypeOK, Holding, Position, Begun, Inside, Serialized, NoTx
  <2>5. AppliedOnceInOrder'
    BY DEF AppliedOnceInOrder
  <2>6. Serialized'
    BY DEF Serialized
  <2>7. UpToDate'
    BY DEF UpToDate
  <2> QED
    BY <2>1, <2>2, <2>3, <2>4, <2>5, <2>6, <2>7
<1>3. ASSUME NEW m \in Migrator, StartFails(m) PROVE MigrateInv'
  <2> USE <1>3 DEF StartFails, Goto, Return, server
  <2>1. TypeOK'
    BY DEF TypeOK, Pc, Tx, File, NoTx
  <2>2. Holding'
    BY DEF Holding, TypeOK, Serialized, Begun, Inside, NoTx
  <2>3. Position'
    BY DEF Position, TypeOK, Holding, Begun, Inside, File, AppliedOnceInOrder
  <2>4. Pending'
    BY DEF Pending, TypeOK, Holding, Position, Begun, Inside, Serialized, NoTx
  <2>5. AppliedOnceInOrder'
    BY DEF AppliedOnceInOrder
  <2>6. Serialized'
    BY DEF Serialized
  <2>7. UpToDate'
    BY DEF UpToDate, TypeOK
  <2> QED
    BY <2>1, <2>2, <2>3, <2>4, <2>5, <2>6, <2>7
<1>4. ASSUME NEW m \in Migrator, Granted(m) PROVE MigrateInv'
  <2> USE <1>4 DEF Granted
  <2>1. TypeOK'
    BY DEF TypeOK, Pc, Tx, File, NoTx
  <2>2. Holding'
    BY DEF Holding, TypeOK, Serialized, Begun, Inside, NoTx
  <2>3. Position'
    BY DEF Position, TypeOK, Holding, Begun, Inside, File, AppliedOnceInOrder
  <2>4. Pending'
    BY DEF Pending, TypeOK, Holding, Position, Begun, Inside, Serialized, NoTx
  <2>5. AppliedOnceInOrder'
    BY DEF AppliedOnceInOrder
  <2>6. Serialized'
    BY DEF Serialized, TypeOK, Holding, Begun, Inside, NoTx
  <2>7. UpToDate'
    BY DEF UpToDate
  <2> QED
    BY <2>1, <2>2, <2>3, <2>4, <2>5, <2>6, <2>7
<1>5. ASSUME NEW m \in Migrator, CreateTable(m) PROVE MigrateInv'
  <2> USE <1>5 DEF CreateTable, Goto
  <2>1. TypeOK'
    BY DEF TypeOK, Pc, Tx, File, NoTx
  <2>2. Holding'
    BY DEF Holding, TypeOK, Serialized, Begun, Inside, NoTx
  <2>3. Position'
    BY DEF Position, TypeOK, Holding, Begun, Inside, File, AppliedOnceInOrder
  <2>4. Pending'
    BY DEF Pending, TypeOK, Holding, Position, Begun, Inside, Serialized, NoTx
  <2>5. AppliedOnceInOrder'
    BY DEF AppliedOnceInOrder
  <2>6. Serialized'
    BY DEF Serialized
  <2>7. UpToDate'
    BY DEF UpToDate
  <2> QED
    BY <2>1, <2>2, <2>3, <2>4, <2>5, <2>6, <2>7
<1>6. ASSUME NEW m \in Migrator, SkipApplied(m) PROVE MigrateInv'
  <2> USE <1>6 DEF SkipApplied, server
  <2>1. TypeOK'
    BY DEF TypeOK, Pc, Tx, File, NoTx
  <2>2. Holding'
    BY DEF Holding, TypeOK, Serialized, Begun, Inside, NoTx
  <2>3. Position'
    BY DEF Position, TypeOK, Holding, Begun, Inside, File, AppliedOnceInOrder
  <2>4. Pending'
    BY DEF Pending, TypeOK, Holding, Position, Begun, Inside, Serialized, NoTx
  <2>5. AppliedOnceInOrder'
    BY DEF AppliedOnceInOrder
  <2>6. Serialized'
    BY DEF Serialized
  <2>7. UpToDate'
    BY DEF UpToDate
  <2> QED
    BY <2>1, <2>2, <2>3, <2>4, <2>5, <2>6, <2>7
<1>7. ASSUME NEW m \in Migrator, FindPending(m) PROVE MigrateInv'
  <2> USE <1>7 DEF FindPending, Goto, server
  <2>1. TypeOK'
    BY DEF TypeOK, Pc, Tx, File, NoTx
  <2>2. Holding'
    BY DEF Holding, TypeOK, Serialized, Begun, Inside, NoTx
  <2>3. Position'
    BY DEF Position, TypeOK, Holding, Begun, Inside, File, AppliedOnceInOrder
  <2>4. Pending'
    BY DEF Pending, TypeOK, Holding, Position, Begun, Inside, Serialized, NoTx
  <2>5. AppliedOnceInOrder'
    BY DEF AppliedOnceInOrder
  <2>6. Serialized'
    BY DEF Serialized
  <2>7. UpToDate'
    BY DEF UpToDate
  <2> QED
    BY <2>1, <2>2, <2>3, <2>4, <2>5, <2>6, <2>7
<1>8. ASSUME NEW m \in Migrator, Apply(m) PROVE MigrateInv'
  <2> USE <1>8 DEF Apply, Goto
  <2>1. next[m] \in File
    BY DEF Position, Begun
  <2>2. [sql |-> <<next[m]>>, version |-> {}] \in Tx
    BY <2>1 DEF Tx
  <2>3. TypeOK'
    BY <2>2 DEF TypeOK, Pc
  <2>4. Holding'
    BY DEF Holding, TypeOK, Serialized, Begun, Inside, NoTx
  <2>5. Position'
    BY DEF Position, TypeOK, Holding, Begun, Inside, File, AppliedOnceInOrder
  <2>6. Pending'
    BY DEF Pending, TypeOK, Holding, Position, Begun, Inside, Serialized, NoTx
  <2>7. AppliedOnceInOrder'
    BY DEF AppliedOnceInOrder
  <2>8. Serialized'
    BY DEF Serialized, TypeOK, Holding, Begun, Inside, NoTx
  <2>9. UpToDate'
    BY DEF UpToDate
  <2> QED
    BY <2>3, <2>4, <2>5, <2>6, <2>7, <2>8, <2>9
<1>9. ASSUME NEW m \in Migrator, Record(m) PROVE MigrateInv'
  <2> USE <1>9 DEF Record, Goto
  <2>1. tx[m] = [sql |-> <<next[m]>>, version |-> {}] /\ next[m] \in File
    BY DEF Pending, Position, Begun
  <2>2. tx' = [tx EXCEPT ![m] = [sql |-> <<next[m]>>, version |-> {next[m]}]]
    BY <2>1 DEF TypeOK
  <2>3. [sql |-> <<next[m]>>, version |-> {next[m]}] \in Tx
    BY <2>1 DEF Tx
  <2>4. TypeOK'
    <3>1. tx' \in [Migrator -> Tx]
      BY <2>2, <2>3 DEF TypeOK
    <3>2. pc' \in [Migrator -> Pc]
      BY DEF TypeOK, Pc
    <3> QED
      BY <3>1, <3>2 DEF TypeOK
  <2>5. Holding'
    BY DEF Holding, TypeOK, Serialized, Begun, Inside, NoTx
  <2>6. Position'
    BY DEF Position, TypeOK, Holding, Begun, Inside, File, AppliedOnceInOrder
  <2>7. Pending'
    <3>1. /\ pc'[m] = "commit" /\ next'[m] = next[m]
          /\ tx'[m] = [sql |-> <<next[m]>>, version |-> {next[m]}]
          /\ m \notin inFlight'
      BY <2>2 DEF TypeOK, Holding
    <3>2. ASSUME NEW n \in Migrator, n # m
          PROVE  /\ pc'[n] = pc[n] /\ next'[n] = next[n] /\ tx'[n] = tx[n]
                 /\ (n \in inFlight' <=> n \in inFlight)
      BY <2>2, <3>2 DEF TypeOK
    <3>3. UNCHANGED log
      OBVIOUS
    <3> DEFINE held(n) ==
          /\ pc[n] = "apply" => tx[n] = NoTx
          /\ pc[n] = "record" => tx[n] = [sql |-> <<next[n]>>, version |-> {}]
          /\ pc[n] \in {"commit", "committing"} =>
               tx[n] = [sql |-> <<next[n]>>, version |-> {next[n]}]
          /\ n \in inFlight =>
               tx[n] = [sql |-> <<Len(log) + 1>>, version |-> {Len(log) + 1}]
    <3>4. held(m)'
      BY <3>1
    <3>5. ASSUME NEW n \in Migrator, n # m PROVE held(n)'
      BY <3>2, <3>3, <3>5 DEF Pending
    <3> QED
      BY <3>4, <3>5 DEF Pending
  <2>8. AppliedOnceInOrder'
    BY DEF AppliedOnceInOrder
  <2>9. Serialized'
    BY DEF Serialized, TypeOK, Holding, Begun, Inside, NoTx
  <2>10. UpToDate'
    BY DEF UpToDate
  <2> QED
    BY <2>4, <2>5, <2>6, <2>7, <2>8, <2>9, <2>10
<1>10. ASSUME NEW m \in Migrator, SendCommit(m) PROVE MigrateInv'
  <2> USE <1>10 DEF SendCommit, Goto
  <2>1. TypeOK'
    BY DEF TypeOK, Pc, Tx, File, NoTx
  <2>2. Holding'
    BY DEF Holding, TypeOK, Serialized, Begun, Inside, NoTx
  <2>3. Position'
    BY DEF Position, TypeOK, Holding, Begun, Inside, File, AppliedOnceInOrder
  <2>4. Pending'
    BY DEF Pending, TypeOK, Holding, Position, Begun, Inside, Serialized, NoTx
  <2>5. AppliedOnceInOrder'
    BY DEF AppliedOnceInOrder
  <2>6. Serialized'
    BY DEF Serialized, TypeOK, Holding, Begun, Inside, NoTx
  <2>7. UpToDate'
    BY DEF UpToDate
  <2> QED
    BY <2>1, <2>2, <2>3, <2>4, <2>5, <2>6, <2>7
<1>11. ASSUME NEW m \in Migrator, CommitLands(m) PROVE MigrateInv'
  <2> USE <1>11 DEF CommitLands, Goto
  <2>1. /\ lock = m
        /\ tx[m] = [sql |-> <<Len(log) + 1>>, version |-> {Len(log) + 1}]
    BY DEF Serialized, Pending
  <2>2. /\ log \in Seq(File) /\ Len(log) \in Nat
        /\ DOMAIN log = 1 .. Len(log)
        /\ tx[m].version \in SUBSET File
    BY DEF TypeOK, Tx
  <2>3. Len(log) + 1 \in File
    BY <2>1, <2>2
  <2>4. /\ log' = log \o <<Len(log) + 1>>
        /\ recorded' = recorded \cup {Len(log) + 1}
    BY <2>1
  <2>5. /\ log' \in Seq(File)
        /\ Len(log') = Len(log) + 1
        /\ DOMAIN log' = 1 .. Len(log) + 1
        /\ \A i \in 1 .. Len(log) : log'[i] = log[i]
        /\ log'[Len(log) + 1] = Len(log) + 1
    BY <2>2, <2>3, <2>4
  <2>6. pc[m] = "committing" => next[m] = Len(log) + 1
    BY DEF Position, Begun
  <2>7. pc[m] = "committing" => next[m] + 1 \in 1 .. N + 1
    BY <2>2, <2>3, <2>6 DEF File
  <2>8. NoTx \in Tx
    BY DEF NoTx, Tx
  <2>9. \A o \in Migrator \ {m} : pc[o] \notin Inside
    BY <2>1 DEF Holding
  <2>10. TypeOK'
    <3>1. /\ pc' \in [Migrator -> Pc]
          /\ next' \in [Migrator -> 1 .. N + 1]
      <4>1. CASE pc[m] = "committing"
        <5>1. pc' \in [Migrator -> Pc]
          BY <4>1 DEF TypeOK, Pc
        <5>2. next' \in [Migrator -> 1 .. N + 1]
          BY <2>7, <4>1 DEF TypeOK
        <5> QED
          BY <5>1, <5>2
      <4>2. CASE pc[m] # "committing"
        BY <4>2 DEF TypeOK
      <4> QED
        BY <4>1, <4>2
    <3>2. recorded' \in SUBSET File
      BY <2>3, <2>4 DEF TypeOK
    <3>3. tx' \in [Migrator -> Tx]
      BY <2>8 DEF TypeOK
    <3> QED
      BY <2>5, <3>1, <3>2, <3>3 DEF TypeOK
  <2>11. Holding'
    BY <2>1 DEF Holding, TypeOK, Serialized, Begun, Inside, NoTx
  <2>12. Position'
    <3>1. CASE pc[m] = "committing"
      <4>1. /\ pc' = [pc EXCEPT ![m] = "check"]
            /\ next' = [next EXCEPT ![m] = @ + 1]
        BY <3>1
      <4>2. pc'[m] = "check" /\ next'[m] = Len(log') + 1
        BY <2>2, <2>5, <2>6, <3>1, <4>1 DEF TypeOK
      <4>3. \A o \in Migrator \ {m} : pc'[o] = pc[o] /\ next'[o] = next[o]
        BY <4>1 DEF TypeOK
      <4> QED
        BY <2>2, <2>5, <2>9, <4>2, <4>3 DEF Position, Begun, Inside
    <3>2. CASE pc[m] # "committing"
      <4>1. pc' = pc /\ next' = next /\ pc[m] \notin Inside
        BY <3>2 DEF Holding, Inside, Begun
      <4> QED
        BY <2>9, <4>1 DEF Position, Begun, Inside
    <3> QED
      BY <3>1, <3>2
  <2>13. Pending'
    BY <2>1, <2>5 DEF Pending, TypeOK, Holding, Position, Begun, Inside,
      Serialized, NoTx
  <2>14. AppliedOnceInOrder'
    BY <2>2, <2>4, <2>5 DEF AppliedOnceInOrder
  <2>15. Serialized'
    BY DEF Serialized, TypeOK, Holding, Begun, Inside, NoTx
  <2>16. UpToDate'
    BY <2>3, <2>4 DEF UpToDate, TypeOK
  <2> QED
    BY <2>10, <2>11, <2>12, <2>13, <2>14, <2>15, <2>16
<1>12. ASSUME NEW m \in Migrator, Finish(m) PROVE MigrateInv'
  <2> USE <1>12 DEF Finish, Goto, Return, server
  <2>1. N <= Len(log) /\ DOMAIN log = 1 .. Len(log) /\ Len(log) \in Nat
    BY DEF Position, TypeOK
  <2>2. recorded = 1 .. Len(log) /\ recorded \subseteq 1 .. N
    BY <2>1 DEF AppliedOnceInOrder, TypeOK, File
  <2>3. ASSUME Len(log) > N PROVE FALSE
    <3>1. Len(log) \in 1 .. Len(log)
      BY <2>1, <2>3
    <3>2. Len(log) \in 1 .. N
      BY <2>2, <3>1
    <3> QED
      BY <2>3, <3>2
  <2>4. Len(log) = N
    <3>1. Len(log) \in Nat /\ N \in Nat /\ N <= Len(log) /\ ~(Len(log) > N)
      BY <2>1, <2>3
    <3> HIDE <1>12, MigrateAssumption
        DEF Finish, Goto, Return, server, MigrateInv
    <3> QED
      BY <3>1
  <2>5. recorded = File
    BY <2>2, <2>4 DEF File
  <2>6. TypeOK'
    BY DEF TypeOK, Pc, Tx, File, NoTx
  <2>7. Holding'
    BY DEF Holding, TypeOK, Serialized, Begun, Inside, NoTx
  <2>8. Position'
    BY DEF Position, TypeOK, Holding, Begun, Inside, File, AppliedOnceInOrder
  <2>9. Pending'
    BY DEF Pending, TypeOK, Holding, Position, Begun, Inside, Serialized, NoTx
  <2>10. AppliedOnceInOrder'
    BY DEF AppliedOnceInOrder
  <2>11. Serialized'
    BY DEF Serialized
  <2>12. UpToDate'
    BY <2>5 DEF UpToDate, TypeOK
  <2> QED
    BY <2>6, <2>7, <2>8, <2>9, <2>10, <2>11, <2>12
<1>13. ASSUME NEW m \in Migrator, Fail(m) PROVE MigrateInv'
  <2> USE <1>13 DEF Fail, Goto, Return, Statement
  <2>1. TypeOK'
    BY DEF TypeOK, Pc, Tx, File, NoTx
  <2>2. Holding'
    BY DEF Holding, TypeOK, Serialized, Begun, Inside, NoTx
  <2>3. Position'
    BY DEF Position, TypeOK, Holding, Begun, Inside, File, AppliedOnceInOrder
  <2>4. Pending'
    BY DEF Pending, TypeOK, Holding, Position, Begun, Inside, Serialized, NoTx
  <2>5. AppliedOnceInOrder'
    BY DEF AppliedOnceInOrder
  <2>6. Serialized'
    BY DEF Serialized, TypeOK, Holding, Begun, Inside, NoTx
  <2>7. UpToDate'
    BY DEF UpToDate, TypeOK
  <2> QED
    BY <2>1, <2>2, <2>3, <2>4, <2>5, <2>6, <2>7
<1>14. ASSUME NEW m \in Migrator, Lose(m) PROVE MigrateInv'
  <2> USE <1>14 DEF Lose, Goto, Return, Abandon, Statement
  <2>1. TypeOK'
    BY DEF TypeOK, Pc, Tx, File, NoTx
  <2>2. Holding'
    BY DEF Holding, TypeOK, Serialized, Begun, Inside, NoTx
  <2>3. Position'
    BY DEF Position, TypeOK, Holding, Begun, Inside, File, AppliedOnceInOrder
  <2>4. Pending'
    BY DEF Pending, TypeOK, Holding, Position, Begun, Inside, Serialized, NoTx
  <2>5. AppliedOnceInOrder'
    BY DEF AppliedOnceInOrder
  <2>6. Serialized'
    BY DEF Serialized
  <2>7. UpToDate'
    BY DEF UpToDate, TypeOK
  <2> QED
    BY <2>1, <2>2, <2>3, <2>4, <2>5, <2>6, <2>7
<1>15. ASSUME NEW m \in Migrator, Unlock(m) PROVE MigrateInv'
  <2> USE <1>15 DEF Unlock, Goto, Abandon
  <2>1. TypeOK'
    BY DEF TypeOK, Pc, Tx, File, NoTx
  <2>2. Holding'
    BY DEF Holding, TypeOK, Serialized, Begun, Inside, NoTx
  <2>3. Position'
    BY DEF Position, TypeOK, Holding, Begun, Inside, File, AppliedOnceInOrder
  <2>4. Pending'
    BY DEF Pending, TypeOK, Holding, Position, Begun, Inside, Serialized, NoTx
  <2>5. AppliedOnceInOrder'
    BY DEF AppliedOnceInOrder
  <2>6. Serialized'
    BY DEF Serialized, TypeOK, Holding, Begun, Inside, NoTx
  <2>7. UpToDate'
    BY DEF UpToDate
  <2> QED
    BY <2>1, <2>2, <2>3, <2>4, <2>5, <2>6, <2>7
<1>16. ASSUME NEW m \in Migrator, UnlockFails(m) PROVE MigrateInv'
  <2> USE <1>16 DEF UnlockFails, Goto, Abandon
  <2>1. TypeOK'
    BY DEF TypeOK, Pc, Tx, File, NoTx
  <2>2. Holding'
    BY DEF Holding, TypeOK, Serialized, Begun, Inside, NoTx
  <2>3. Position'
    BY DEF Position, TypeOK, Holding, Begun, Inside, File, AppliedOnceInOrder
  <2>4. Pending'
    BY DEF Pending, TypeOK, Holding, Position, Begun, Inside, Serialized, NoTx
  <2>5. AppliedOnceInOrder'
    BY DEF AppliedOnceInOrder
  <2>6. Serialized'
    BY DEF Serialized
  <2>7. UpToDate'
    BY DEF UpToDate
  <2> QED
    BY <2>1, <2>2, <2>3, <2>4, <2>5, <2>6, <2>7
<1>17. ASSUME NEW m \in Migrator, SessionEnds(m) PROVE MigrateInv'
  <2> USE <1>17 DEF SessionEnds
  <2>1. TypeOK'
    BY DEF TypeOK, Pc, Tx, File, NoTx
  <2>2. Holding'
    BY DEF Holding, TypeOK, Serialized, Begun, Inside, NoTx
  <2>3. Position'
    BY DEF Position, TypeOK, Holding, Begun, Inside, File, AppliedOnceInOrder
  <2>4. Pending'
    BY DEF Pending, TypeOK, Holding, Position, Begun, Inside, Serialized, NoTx
  <2>5. AppliedOnceInOrder'
    BY DEF AppliedOnceInOrder
  <2>6. Serialized'
    BY DEF Serialized, TypeOK, Holding, Begun, Inside, NoTx
  <2>7. UpToDate'
    BY DEF UpToDate
  <2> QED
    BY <2>1, <2>2, <2>3, <2>4, <2>5, <2>6, <2>7
<1>18. ASSUME NEW m \in Migrator, Die(m) PROVE MigrateInv'
  <2> USE <1>18 DEF Die, Goto, Abandon
  <2>1. TypeOK'
    BY DEF TypeOK, Pc, Tx, File, NoTx
  <2>2. Holding'
    BY DEF Holding, TypeOK, Serialized, Begun, Inside, NoTx
  <2>3. Position'
    BY DEF Position, TypeOK, Holding, Begun, Inside, File, AppliedOnceInOrder
  <2>4. Pending'
    BY DEF Pending, TypeOK, Holding, Position, Begun, Inside, Serialized, NoTx
  <2>5. AppliedOnceInOrder'
    BY DEF AppliedOnceInOrder
  <2>6. Serialized'
    BY DEF Serialized
  <2>7. UpToDate'
    BY DEF UpToDate
  <2> QED
    BY <2>1, <2>2, <2>3, <2>4, <2>5, <2>6, <2>7
<1> QED
  BY <1>1, <1>2, <1>3, <1>4, <1>5, <1>6, <1>7, <1>8, <1>9,
    <1>10, <1>11, <1>12, <1>13, <1>14, <1>15, <1>16, <1>17, <1>18 DEF Next, Step

(* Migrate's inductive invariant, whatever the number of migrators and of  *)
(* embedded files.                                                         *)
THEOREM MigrateInvariant == Spec => []MigrateInv
<1>1. Init => MigrateInv
  BY MigrateInit
<1>2. MigrateInv /\ [Next]_vars => MigrateInv'
  BY MigrateStep
<1> QED
  BY <1>1, <1>2, PTL DEF Spec

(* However many processes run Migrate at once, fail or are killed, every   *)
(* file takes effect once, in order, and is recorded exactly when it does. *)
THEOREM AppliedOnceInOrderAlways == Spec => []AppliedOnceInOrder
<1>1. MigrateInv => AppliedOnceInOrder
  BY DEF MigrateInv
<1> QED
  BY <1>1, MigrateInvariant, PTL

(* A session with work to commit holds the migration lock, even when its   *)
(* process is gone.                                                        *)
THEOREM SerializedAlways == Spec => []Serialized
<1>1. MigrateInv => Serialized
  BY DEF MigrateInv
<1> QED
  BY <1>1, MigrateInvariant, PTL

(* cmd/migrate reports "schema up to date" only when every file has been   *)
(* applied.                                                                *)
THEOREM UpToDateAlways == Spec => []UpToDate
<1>1. MigrateInv => UpToDate
  BY DEF MigrateInv
<1> QED
  BY <1>1, MigrateInvariant, PTL

(* Only one installer runs at a time; the one before it may be killed.     *)
OneInstaller == \A q, r \in Installer : q = r

(* What make tools finds on the machine satisfies the invariant.           *)
LEMMA InstallInitInv == InstallInit => InstallInv
<1> SUFFICES ASSUME InstallInit PROVE InstallInv
  OBVIOUS
<1> USE ProtocAssumption DEF InstallInit
<1>1. Ready \in RunState
  BY DEF Ready, RunState
<1>2. linked \in BOOLEAN
  BY Zenon
<1>3. versioned \in (SUBSET Whole) \cup {Absent} /\ faults \in 0..MaxFaults
  BY DEF Whole
<1>4. InstallTypeOK
  BY <1>1, <1>2, <1>3 DEF InstallTypeOK
<1>5. AcceptedIsWhole
  BY DEF AcceptedIsWhole, installed
<1>6. ASSUME NEW r \in Installer PROVE RunKnows(run[r])
  BY DEF RunKnows, Ready
<1> QED
  BY <1>4, <1>5, <1>6 DEF InstallInv

(* The one run moves to st, and what it knows there holds.                 *)
LEMMA InstallMove ==
  ASSUME OneInstaller, InstallInv, NEW r \in Installer, NEW st \in RunState,
         run' = [run EXCEPT ![r] = st],
         versioned' \in (SUBSET Whole) \cup {Absent}, linked' \in BOOLEAN,
         faults' \in 0..MaxFaults, AcceptedIsWhole',
         linked' => versioned' = Whole, RunKnows(run[r])'
  PROVE  InstallInv'
<1>1. run' \in [Installer -> RunState]
  BY DEF InstallInv, InstallTypeOK
<1>2. ASSUME NEW q \in Installer PROVE RunKnows(run[q])'
  BY DEF OneInstaller
<1> QED
  BY <1>1, <1>2 DEF InstallInv, InstallTypeOK

(* Every system call of the one run, its failure and its death keep it: a  *)
(* marker only appears by the rename of a whole directory over nothing.    *)
LEMMA InstallStepInv ==
  ASSUME OneInstaller, InstallInv, [InstallNext]_installVars
  PROVE  InstallInv'
<1>1. CASE UNCHANGED installVars
  BY <1>1
     DEF installVars, InstallInv, InstallTypeOK, AcceptedIsWhole, RunKnows,
         installed
<1>2. ASSUME NEW r \in Installer, InstallStep(r) \/ Killed(r) \/ Errs(r)
      PROVE  InstallInv'
  <2> DEFINE now == run[r]
  <2>1. /\ now \in RunState /\ RunKnows(now) /\ AcceptedIsWhole
        /\ versioned \in (SUBSET Whole) \cup {Absent} /\ linked \in BOOLEAN
        /\ faults \in 0..MaxFaults /\ (linked => versioned = Whole)
        /\ run = [run EXCEPT ![r] = now]
    BY DEF InstallInv, InstallTypeOK
  <2>2. now = [pc |-> now.pc, tmp |-> now.tmp, hit |-> now.hit]
    BY <2>1 DEF RunState
  <2>3. completeMarker \in Whole /\ Whole # Absent
    BY ProtocAssumption DEF Whole
  <2> DEFINE To(st) == run' = [run EXCEPT ![r] = st]
  <2>4. ASSUME NEW st, To(st) PROVE run'[r] = st
    BY <2>4 DEF InstallInv, InstallTypeOK
  <2> USE DEF At, Advance
  <2>5. CASE Check(r)
    <3> DEFINE st == [Ready EXCEPT !.pc = IF installed THEN "unlink" ELSE "stat"]
    <3>1. To(st) /\ UNCHANGED <<versioned, linked, faults>>
      BY <2>5 DEF Check
    <3>2. st \in RunState
      BY DEF Ready, RunState
    <3>3. RunKnows(run[r])'
      BY <2>1, <2>4, <3>1
         DEF RunKnows, Ready, installed, AcceptedIsWhole
    <3>4. AcceptedIsWhole'
      BY <2>1, <3>1 DEF AcceptedIsWhole, installed
    <3> QED
      BY <2>1, <3>1, <3>2, <3>3, <3>4, InstallMove
  <2>6. CASE Stat(r)
    <3> DEFINE st == [now EXCEPT !.pc = AfterStat]
    <3>1. now.pc = "stat" /\ To(st) /\ UNCHANGED <<versioned, linked, faults>>
      BY <2>2, <2>6 DEF Stat
    <3>2. st \in RunState
      BY <2>1, <3>1 DEF RunState, AfterStat
    <3>3. RunKnows(run[r])'
      BY <2>1, <2>4, <3>1 DEF RunKnows, installed, AfterStat
    <3>4. AcceptedIsWhole'
      BY <2>1, <3>1 DEF AcceptedIsWhole, installed
    <3> QED
      BY <2>1, <3>1, <3>2, <3>3, <3>4, InstallMove
  <2>7. CASE RemoveAll(r)
    <3>1. now.pc = "remove" /\ ~installed /\ ~linked
          /\ UNCHANGED <<linked, faults>>
      BY <2>1, <2>3, <2>7 DEF RemoveAll, RunKnows, installed
    <3>2. CASE /\ versioned \notin {Absent, {}} /\ UNCHANGED run
               /\ \E f \in versioned : versioned' = versioned \ {f}
      <4>1. PICK f \in versioned : versioned' = versioned \ {f}
        BY <3>2
      <4>2. versioned' \in SUBSET Whole /\ completeMarker \notin versioned'
        BY <2>1, <3>1, <3>2, <4>1 DEF installed
      <4>3. AcceptedIsWhole'
        BY <4>2 DEF AcceptedIsWhole, installed
      <4>4. RunKnows(run[r])'
        BY <2>1, <3>1, <3>2, <4>2 DEF RunKnows, installed
      <4> QED
        BY <2>1, <3>1, <3>2, <4>2, <4>3, <4>4, InstallMove
    <3>3. CASE versioned' = Absent /\ Advance(r, "download")
      <4> DEFINE st == [now EXCEPT !.pc = "download"]
      <4>1. To(st) /\ st \in RunState
        BY <2>1, <2>2, <3>3 DEF RunState
      <4>2. RunKnows(run[r])'
        BY <2>1, <2>4, <3>1, <3>3, <4>1 DEF RunKnows, installed
      <4>3. AcceptedIsWhole'
        BY <3>3 DEF AcceptedIsWhole, installed
      <4> QED
        BY <2>1, <3>1, <3>3, <4>1, <4>2, <4>3, InstallMove
    <3> QED
      BY <2>7, <3>2, <3>3 DEF RemoveAll
  <2>8. CASE Download(r)
    <3> DEFINE st == [now EXCEPT !.pc = "unpack"]
    <3>1. now.pc = "download" /\ To(st) /\ UNCHANGED <<versioned, linked, faults>>
      BY <2>2, <2>8 DEF Download
    <3>2. st \in RunState
      BY <2>1, <3>1 DEF RunState
    <3>3. RunKnows(run[r])'
      BY <2>1, <2>4, <3>1 DEF RunKnows, installed
    <3>4. AcceptedIsWhole'
      BY <2>1, <3>1 DEF AcceptedIsWhole, installed
    <3> QED
      BY <2>1, <3>1, <3>2, <3>3, <3>4, InstallMove
  <2>9. CASE Unpack(r)
    <3>1. PICK f \in Release \ now.tmp : run' = [run EXCEPT ![r].tmp = @ \cup {f}]
      BY <2>9 DEF Unpack
    <3> DEFINE st == [now EXCEPT !.tmp = now.tmp \cup {f}]
    <3>2. now.pc = "unpack" /\ To(st) /\ UNCHANGED <<versioned, linked, faults>>
      BY <2>2, <2>9, <3>1 DEF Unpack
    <3>3. now.tmp \cup {f} \in SUBSET Whole /\ now.tmp \cup {f} \subseteq Release
      BY <2>1, <3>2 DEF RunKnows, Whole
    <3>4. st \in RunState
      BY <2>1, <3>3 DEF RunState
    <3>5. RunKnows(run[r])'
      BY <2>1, <2>4, <3>2, <3>3 DEF RunKnows, installed
    <3>6. AcceptedIsWhole'
      BY <2>1, <3>2 DEF AcceptedIsWhole, installed
    <3> QED
      BY <2>1, <3>2, <3>4, <3>5, <3>6, InstallMove
  <2>10. CASE Mark(r)
    <3> DEFINE st == [now EXCEPT !.pc = "rename", !.tmp = Whole]
    <3>1. now.pc = "unpack" /\ now.tmp \cup {completeMarker} = Whole
      BY <2>1, <2>10 DEF Mark, Unpacked, RunKnows, Whole
    <3>2. To(st) /\ UNCHANGED <<versioned, linked, faults>>
      BY <2>2, <2>10, <3>1 DEF Mark
    <3>3. st \in RunState
      BY <2>1 DEF RunState
    <3>4. RunKnows(run[r])'
      BY <2>1, <2>4, <3>1, <3>2 DEF RunKnows, installed
    <3>5. AcceptedIsWhole'
      BY <2>1, <3>2 DEF AcceptedIsWhole, installed
    <3> QED
      BY <2>1, <3>2, <3>3, <3>4, <3>5, InstallMove
  <2>11. CASE Rename(r)
    <3> DEFINE st == [now EXCEPT !.pc = "unlink", !.tmp = {}]
    <3>1. versioned = Absent /\ now.tmp = Whole /\ ~linked
      BY <2>1, <2>3, <2>11 DEF Rename, RunKnows
    <3>2. To(st) /\ versioned' = Whole /\ UNCHANGED <<linked, faults>>
      BY <2>2, <2>11, <3>1 DEF Rename
    <3>3. st \in RunState
      BY <2>1 DEF RunState
    <3>4. run'[r].pc = "unlink"
      <4>1. st.pc = "unlink"
        BY <2>2
      <4>2. run'[r] = st
        BY <2>4, <3>2
      <4> HIDE DEF st
      <4> QED
        BY <4>1, <4>2
    <3>5. RunKnows(run[r])'
      BY <3>2, <3>4 DEF RunKnows
    <3>6. AcceptedIsWhole'
      BY <3>2 DEF AcceptedIsWhole
    <3> QED
      BY <2>1, <3>1, <3>2, <3>3, <3>5, <3>6, InstallMove
  <2>12. CASE Unlink(r)
    <3> DEFINE st == [now EXCEPT !.pc = "link"]
    <3>1. versioned = Whole /\ To(st) /\ ~linked' /\ linked' \in BOOLEAN
          /\ UNCHANGED <<versioned, faults>>
      BY <2>1, <2>2, <2>12 DEF Unlink, RunKnows
    <3>2. st \in RunState
      BY <2>1 DEF RunState
    <3>3. run'[r].pc = "link"
      <4>1. st.pc = "link"
        BY <2>2
      <4>2. run'[r] = st
        BY <2>4, <3>1
      <4> HIDE DEF st
      <4> QED
        BY <4>1, <4>2
    <3>4. RunKnows(run[r])'
      BY <3>1, <3>3 DEF RunKnows
    <3>5. AcceptedIsWhole'
      BY <3>1 DEF AcceptedIsWhole
    <3> QED
      BY <2>1, <3>1, <3>2, <3>4, <3>5, InstallMove
  <2>13. CASE Link(r)
    <3> DEFINE st == [now EXCEPT !.pc = "installed"]
    <3>1. versioned = Whole /\ To(st) /\ linked' /\ linked' \in BOOLEAN
          /\ UNCHANGED <<versioned, faults>>
      BY <2>1, <2>2, <2>13 DEF Link, RunKnows
    <3>2. st \in RunState
      BY <2>1 DEF RunState, Outcome
    <3>3. run'[r].pc = "installed"
      <4>1. st.pc = "installed"
        BY <2>2
      <4>2. run'[r] = st
        BY <2>4, <3>1
      <4> HIDE DEF st
      <4> QED
        BY <4>1, <4>2
    <3>4. RunKnows(run[r])'
      BY <3>1, <3>3 DEF RunKnows
    <3>5. AcceptedIsWhole'
      BY <3>1 DEF AcceptedIsWhole
    <3> QED
      BY <2>1, <3>1, <3>2, <3>4, <3>5, InstallMove
  <2>14. CASE Killed(r) \/ Errs(r)
    <3>1. faults' \in 0..MaxFaults /\ UNCHANGED <<versioned, linked>>
      BY <2>1, <2>14, ProtocAssumption DEF Killed, Errs, Fault
    <3> DEFINE gaveUp == [pc |-> "failed", tmp |-> {}, hit |-> TRUE]
    <3>2. To(Ready) \/ To(gaveUp)
      BY <2>14 DEF Killed, Errs
    <3>3. Ready \in RunState /\ gaveUp \in RunState
      BY DEF Ready, RunState, Outcome
    <3>4. RunKnows(run[r])'
      BY <2>4, <3>2 DEF RunKnows, Ready
    <3>5. AcceptedIsWhole'
      BY <2>1, <3>1 DEF AcceptedIsWhole, installed
    <3> HIDE DEF gaveUp
    <3> QED
      BY <2>1, <3>1, <3>2, <3>3, <3>4, <3>5, InstallMove
  <2> QED
    BY <1>2, <2>5, <2>6, <2>7, <2>8, <2>9, <2>10, <2>11, <2>12, <2>13, <2>14
       DEF InstallStep
<1> QED
  BY <1>1, <1>2 DEF InstallNext

(* The installer's inductive invariant, one run at a time.                 *)
THEOREM InstallInvariant ==
  ASSUME OneInstaller PROVE InstallSpec => []InstallInv
<1>1. InstallInit => InstallInv
  BY InstallInitInv
<1>2. InstallInv /\ [InstallNext]_installVars => InstallInv'
  BY InstallStepInv
<1> QED
  BY <1>1, <1>2, PTL DEF InstallSpec

(* Wherever runs of the installer were killed, one after the other, a      *)
(* directory that carries the marker has every file of the release.        *)
THEOREM AcceptedIsWholeAlways ==
  ASSUME OneInstaller PROVE InstallSpec => []AcceptedIsWhole
<1>1. InstallInv => AcceptedIsWhole
  BY DEF InstallInv
<1> QED
  BY <1>1, InstallInvariant, PTL

(* A run in which nothing fails installs a whole release and the link to   *)
(* it, whatever earlier runs left; the link never leads nowhere.           *)
THEOREM RepairsItselfAlways ==
  ASSUME OneInstaller PROVE InstallSpec => []RepairsItself
<1>1. InstallInv => RepairsItself
  BY ProtocAssumption
     DEF InstallInv, RepairsItself, RunKnows, At, Whole
<1> QED
  BY <1>1, InstallInvariant, PTL
=============================================================================
