-------------------------- MODULE MigrationsProofs --------------------------
(***************************************************************************)
(* What runMigrations() guarantees for any number of boots and statements: *)
(* SchemaInv, and with it the typing, is inductive through any pooler;     *)
(* ExclusiveInv is over direct connections.                                *)
(***************************************************************************)
EXTENDS Migrations, TLAPS

\* A boot that executes DDL is at a statement of applyMigrations.
LEMMA AtStatement ==
    ASSUME TypeOK, ProgressInv, NEW b \in Boot, pc[b] \in {"ddl", "create"}
    PROVE  next[b] \in Statement
  BY ConstantsAssumption DEF TypeOK, ProgressInv, Statement

\* Every step keeps the variables typed.
LEMMA TypeStep ==
    ASSUME TypeOK, ProgressInv, [Next]_vars
    PROVE  TypeOK'
<1> USE ConstantsAssumption, AtStatement
<1> USE DEF TypeOK, Where, Held, Ended, Work, Statement, Required, Idle,
            Stamp, None, Ghost
<1>1. ASSUME NEW b \in Boot, Connect(b) PROVE TypeOK'
  BY <1>1 DEF Connect, Goto, db, bounds
<1>2. ASSUME NEW b \in Boot, Check(b) PROVE TypeOK'
  BY <1>2 DEF Check, Goto, db, bounds
<1>3. ASSUME NEW b \in Boot, TryLock(b) PROVE TypeOK'
  BY <1>3 DEF TryLock, Granted, Goto, bounds
<1>4. ASSUME NEW b \in Boot, Late(b) PROVE TypeOK'
  BY <1>4 DEF Late, LateBoot, Goto, db, bounds
<1>5. ASSUME NEW b \in Boot, Recheck(b) PROVE TypeOK'
  BY <1>5 DEF Recheck, RecheckOutcome, Leave, Goto, db, bounds
<1>6. ASSUME NEW b \in Boot, Apply(b) PROVE TypeOK'
  <2>1. next[b] \in Statement
    BY <1>6 DEF Apply
  <2>2. next' \in [Boot -> 1..(Last + 1)]
    BY <1>6, <2>1 DEF Apply, Advance
  <2>3. made' \subseteq Statement
    BY <1>6, <2>1 DEF Apply
  <2> QED
    BY <1>6, <2>2, <2>3 DEF Apply, Advance, Goto, bounds
<1>7. ASSUME NEW b \in Boot, Probe(b) PROVE TypeOK'
  BY <1>7 DEF Probe, Present, Advance, Goto, db, bounds
<1>8. ASSUME NEW b \in Boot, CreateIndex(b) PROVE TypeOK'
  <2>1. next[b] \in Statement
    BY <1>8 DEF CreateIndex
  <2>2. next' \in [Boot -> 1..(Last + 1)]
    BY <1>8, <2>1 DEF CreateIndex, Advance
  <2>3. made' \subseteq Statement
    BY <1>8, <2>1 DEF CreateIndex
  <2> QED
    BY <1>8, <2>2, <2>3 DEF CreateIndex, Advance, Goto, bounds
<1>9. ASSUME NEW b \in Boot, LockTimeout(b) PROVE TypeOK'
  BY <1>9 DEF LockTimeout, Leave, Goto, db, bounds
<1>10. ASSUME NEW b \in Boot, StampVersions(b) PROVE TypeOK'
  BY <1>10 DEF StampVersions, Stamped, Leave, Goto, bounds
<1>11. ASSUME NEW b \in Boot, Unlock(b) PROVE TypeOK'
  BY <1>11 DEF Unlock, Goto, bounds
<1>12. ASSUME NEW b \in Boot, StatementFails(b) PROVE TypeOK'
  BY <1>12 DEF StatementFails, CanFail, Leave, Goto, db
<1>13. ASSUME NEW b \in Boot, UnlockFails(b) PROVE TypeOK'
  BY <1>13 DEF UnlockFails, CanFail, Goto, db
<1>14. ASSUME NEW b \in Boot, ConnectionLost(b) PROVE TypeOK'
  BY <1>14 DEF ConnectionLost, CanFail, Sent
<1>15. ASSUME NEW b \in Boot, SessionEnds(b) PROVE TypeOK'
  BY <1>15 DEF SessionEnds, bounds
<1>16. ASSUME NEW b \in Boot, BootsAgain(b) PROVE TypeOK'
  BY <1>16 DEF BootsAgain, Goto, db
<1>17. CASE GhostGoes
  BY <1>17 DEF GhostGoes, Stamped, bounds
<1>18. CASE Flush
  BY <1>18 DEF Flush, bounds
<1>19. CASE UNCHANGED vars
  BY <1>19 DEF vars, db, bounds
<1> QED
  BY <1>1, <1>2, <1>3, <1>4, <1>5, <1>6, <1>7, <1>8, <1>9, <1>10,
     <1>11, <1>12, <1>13, <1>14, <1>15, <1>16, <1>17, <1>18, <1>19
  DEF Next, BootStep, Fault

\* Every step keeps the lock with the one boot that migrates.
LEMMA LockStep ==
    ASSUME TypeOK, LockInv, [Next]_vars
    PROVE  LockInv'
<1> USE ConstantsAssumption
<1> USE DEF TypeOK, LockInv, Migrating, Where, Held, Ended, Idle, None, Ghost
<1>1. ASSUME NEW b \in Boot, Connect(b) PROVE LockInv'
  BY <1>1 DEF Connect, Goto, db, bounds
<1>2. ASSUME NEW b \in Boot, Check(b) PROVE LockInv'
  BY <1>2 DEF Check, Goto, db, bounds
<1>3. ASSUME NEW b \in Boot, TryLock(b) PROVE LockInv'
  BY <1>3 DEF TryLock, Granted, Goto, bounds
<1>4. ASSUME NEW b \in Boot, Late(b) PROVE LockInv'
  BY <1>4 DEF Late, LateBoot, Goto, db, bounds
<1>5. ASSUME NEW b \in Boot, Recheck(b) PROVE LockInv'
  BY <1>5 DEF Recheck, RecheckOutcome, Leave, Goto, db, bounds
<1>6. ASSUME NEW b \in Boot, Apply(b) PROVE LockInv'
  BY <1>6 DEF Apply, Advance, Goto, bounds
<1>7. ASSUME NEW b \in Boot, Probe(b) PROVE LockInv'
  BY <1>7 DEF Probe, Present, Advance, Goto, db, bounds
<1>8. ASSUME NEW b \in Boot, CreateIndex(b) PROVE LockInv'
  BY <1>8 DEF CreateIndex, Advance, Goto, bounds
<1>9. ASSUME NEW b \in Boot, LockTimeout(b) PROVE LockInv'
  BY <1>9 DEF LockTimeout, Leave, Goto, db, bounds
<1>10. ASSUME NEW b \in Boot, StampVersions(b) PROVE LockInv'
  BY <1>10 DEF StampVersions, Stamped, Leave, Goto, bounds
<1>11. ASSUME NEW b \in Boot, Unlock(b) PROVE LockInv'
  BY <1>11 DEF Unlock, Goto, bounds
<1>12. ASSUME NEW b \in Boot, StatementFails(b) PROVE LockInv'
  BY <1>12 DEF StatementFails, CanFail, Leave, Goto, db
<1>13. ASSUME NEW b \in Boot, UnlockFails(b) PROVE LockInv'
  BY <1>13 DEF UnlockFails, CanFail, Goto, db
<1>14. ASSUME NEW b \in Boot, ConnectionLost(b) PROVE LockInv'
  BY <1>14 DEF ConnectionLost, CanFail, Sent
<1>15. ASSUME NEW b \in Boot, SessionEnds(b) PROVE LockInv'
  BY <1>15 DEF SessionEnds, bounds
<1>16. ASSUME NEW b \in Boot, BootsAgain(b) PROVE LockInv'
  BY <1>16 DEF BootsAgain, Goto, db
<1>17. CASE GhostGoes
  BY <1>17 DEF GhostGoes, Stamped, bounds
<1>18. CASE Flush
  BY <1>18 DEF Flush, bounds
<1>19. CASE UNCHANGED vars
  BY <1>19 DEF vars, db, bounds
<1> QED
  BY <1>1, <1>2, <1>3, <1>4, <1>5, <1>6, <1>7, <1>8, <1>9, <1>10,
     <1>11, <1>12, <1>13, <1>14, <1>15, <1>16, <1>17, <1>18, <1>19
  DEF Next, BootStep, Fault

\* Every step keeps the record of what the DDL has reached.
LEMMA ProgressStep ==
    ASSUME TypeOK, ProgressInv, StampedMeansComplete, [Next]_vars
    PROVE  ProgressInv'
<1> USE ConstantsAssumption
<1> USE DEF TypeOK, ProgressInv, StampedMeansComplete,
            Migrated, Where, Held, Ended, Statement, Required, Idle, Stamp
<1>1. ASSUME NEW b \in Boot, Connect(b) PROVE ProgressInv'
  BY <1>1 DEF Connect, Goto, db, bounds
<1>2. ASSUME NEW b \in Boot, Check(b) PROVE ProgressInv'
  BY <1>2 DEF Check, Goto, db, bounds
<1>3. ASSUME NEW b \in Boot, TryLock(b) PROVE ProgressInv'
  BY <1>3 DEF TryLock, Granted, Goto, bounds
<1>4. ASSUME NEW b \in Boot, Late(b) PROVE ProgressInv'
  BY <1>4 DEF Late, LateBoot, Goto, db, bounds
<1>5. ASSUME NEW b \in Boot, Recheck(b) PROVE ProgressInv'
  BY <1>5 DEF Recheck, RecheckOutcome, Leave, Goto, db, bounds
<1>6. ASSUME NEW b \in Boot, Apply(b) PROVE ProgressInv'
  BY <1>6 DEF Apply, Advance, Goto, bounds
<1>7. ASSUME NEW b \in Boot, Probe(b) PROVE ProgressInv'
  BY <1>7 DEF Probe, Present, Advance, Goto, db, bounds
<1>8. ASSUME NEW b \in Boot, CreateIndex(b) PROVE ProgressInv'
  BY <1>8 DEF CreateIndex, Advance, Goto, bounds
<1>9. ASSUME NEW b \in Boot, LockTimeout(b) PROVE ProgressInv'
  BY <1>9 DEF LockTimeout, Leave, Goto, db, bounds
<1>10. ASSUME NEW b \in Boot, StampVersions(b) PROVE ProgressInv'
  BY <1>10 DEF StampVersions, Stamped, Leave, Goto, bounds
<1>11. ASSUME NEW b \in Boot, Unlock(b) PROVE ProgressInv'
  BY <1>11 DEF Unlock, Goto, bounds
<1>12. ASSUME NEW b \in Boot, StatementFails(b) PROVE ProgressInv'
  BY <1>12 DEF StatementFails, CanFail, Leave, Goto, db
<1>13. ASSUME NEW b \in Boot, UnlockFails(b) PROVE ProgressInv'
  BY <1>13 DEF UnlockFails, CanFail, Goto, db
<1>14. ASSUME NEW b \in Boot, ConnectionLost(b) PROVE ProgressInv'
  BY <1>14 DEF ConnectionLost, CanFail, Sent
<1>15. ASSUME NEW b \in Boot, SessionEnds(b) PROVE ProgressInv'
  BY <1>15 DEF SessionEnds, bounds
<1>16. ASSUME NEW b \in Boot, BootsAgain(b) PROVE ProgressInv'
  BY <1>16 DEF BootsAgain, Goto, db
<1>17. CASE GhostGoes
  BY <1>17 DEF GhostGoes, Stamped, bounds
<1>18. CASE Flush
  BY <1>18 DEF Flush, bounds
<1>19. CASE UNCHANGED vars
  BY <1>19 DEF vars, db, bounds
<1> QED
  BY <1>1, <1>2, <1>3, <1>4, <1>5, <1>6, <1>7, <1>8, <1>9, <1>10,
     <1>11, <1>12, <1>13, <1>14, <1>15, <1>16, <1>17, <1>18, <1>19
  DEF Next, BootStep, Fault

\* Every step keeps the stamp, and a boot that is done, on a complete schema.
LEMMA CompleteStep ==
    ASSUME TypeOK, ProgressInv, StampedMeansComplete, DoneMeansMigrated,
           [Next]_vars
    PROVE  StampedMeansComplete' /\ DoneMeansMigrated'
<1> USE ConstantsAssumption
<1> USE DEF TypeOK, ProgressInv, StampedMeansComplete, DoneMeansMigrated,
            Migrated, Where, Held, Ended, Statement, Required, Idle, Stamp
<1>1. ASSUME NEW b \in Boot, Connect(b) PROVE StampedMeansComplete' /\ DoneMeansMigrated'
  BY <1>1 DEF Connect, Goto, db, bounds
<1>2. ASSUME NEW b \in Boot, Check(b) PROVE StampedMeansComplete' /\ DoneMeansMigrated'
  BY <1>2 DEF Check, Goto, db, bounds
<1>3. ASSUME NEW b \in Boot, TryLock(b) PROVE StampedMeansComplete' /\ DoneMeansMigrated'
  BY <1>3 DEF TryLock, Granted, Goto, bounds
<1>4. ASSUME NEW b \in Boot, Late(b) PROVE StampedMeansComplete' /\ DoneMeansMigrated'
  BY <1>4 DEF Late, LateBoot, Goto, db, bounds
<1>5. ASSUME NEW b \in Boot, Recheck(b) PROVE StampedMeansComplete' /\ DoneMeansMigrated'
  BY <1>5 DEF Recheck, RecheckOutcome, Leave, Goto, db, bounds
<1>6. ASSUME NEW b \in Boot, Apply(b) PROVE StampedMeansComplete' /\ DoneMeansMigrated'
  BY <1>6 DEF Apply, Advance, Goto, bounds
<1>7. ASSUME NEW b \in Boot, Probe(b) PROVE StampedMeansComplete' /\ DoneMeansMigrated'
  BY <1>7 DEF Probe, Present, Advance, Goto, db, bounds
<1>8. ASSUME NEW b \in Boot, CreateIndex(b) PROVE StampedMeansComplete' /\ DoneMeansMigrated'
  BY <1>8 DEF CreateIndex, Advance, Goto, bounds
<1>9. ASSUME NEW b \in Boot, LockTimeout(b) PROVE StampedMeansComplete' /\ DoneMeansMigrated'
  BY <1>9 DEF LockTimeout, Leave, Goto, db, bounds
<1>10. ASSUME NEW b \in Boot, StampVersions(b) PROVE StampedMeansComplete' /\ DoneMeansMigrated'
  BY <1>10 DEF StampVersions, Stamped, Leave, Goto, bounds
<1>11. ASSUME NEW b \in Boot, Unlock(b) PROVE StampedMeansComplete' /\ DoneMeansMigrated'
  BY <1>11 DEF Unlock, Goto, bounds
<1>12. ASSUME NEW b \in Boot, StatementFails(b) PROVE StampedMeansComplete' /\ DoneMeansMigrated'
  BY <1>12 DEF StatementFails, CanFail, Leave, Goto, db
<1>13. ASSUME NEW b \in Boot, UnlockFails(b) PROVE StampedMeansComplete' /\ DoneMeansMigrated'
  BY <1>13 DEF UnlockFails, CanFail, Goto, db
<1>14. ASSUME NEW b \in Boot, ConnectionLost(b) PROVE StampedMeansComplete' /\ DoneMeansMigrated'
  BY <1>14 DEF ConnectionLost, CanFail, Sent
<1>15. ASSUME NEW b \in Boot, SessionEnds(b) PROVE StampedMeansComplete' /\ DoneMeansMigrated'
  BY <1>15 DEF SessionEnds, bounds
<1>16. ASSUME NEW b \in Boot, BootsAgain(b) PROVE StampedMeansComplete' /\ DoneMeansMigrated'
  BY <1>16 DEF BootsAgain, Goto, db
<1>17. CASE GhostGoes
  BY <1>17 DEF GhostGoes, Stamped, bounds
<1>18. CASE Flush
  BY <1>18 DEF Flush, bounds
<1>19. CASE UNCHANGED vars
  BY <1>19 DEF vars, db, bounds
<1> QED
  BY <1>1, <1>2, <1>3, <1>4, <1>5, <1>6, <1>7, <1>8, <1>9, <1>10,
     <1>11, <1>12, <1>13, <1>14, <1>15, <1>16, <1>17, <1>18, <1>19
  DEF Next, BootStep, Fault

\* Every step keeps a boot from queueing for an index that is there.
LEMMA WaitStep ==
    ASSUME TypeOK, LockInv, ProgressInv, NoNeedlessWait,
           [Next]_vars
    PROVE  NoNeedlessWait'
<1> USE ConstantsAssumption
<1> USE DEF TypeOK, LockInv, ProgressInv, Migrating, NoNeedlessWait, Where,
            Held, Ended, Statement, Required, Idle, Stamp, None, Ghost
<1>1. ASSUME NEW b \in Boot, Connect(b) PROVE NoNeedlessWait'
  BY <1>1 DEF Connect, Goto, db, bounds
<1>2. ASSUME NEW b \in Boot, Check(b) PROVE NoNeedlessWait'
  BY <1>2 DEF Check, Goto, db, bounds
<1>3. ASSUME NEW b \in Boot, TryLock(b) PROVE NoNeedlessWait'
  BY <1>3 DEF TryLock, Granted, Goto, bounds
<1>4. ASSUME NEW b \in Boot, Late(b) PROVE NoNeedlessWait'
  BY <1>4 DEF Late, LateBoot, Goto, db, bounds
<1>5. ASSUME NEW b \in Boot, Recheck(b) PROVE NoNeedlessWait'
  BY <1>5 DEF Recheck, RecheckOutcome, Leave, Goto, db, bounds
<1>6. ASSUME NEW b \in Boot, Apply(b) PROVE NoNeedlessWait'
  BY <1>6 DEF Apply, Advance, Goto, bounds
<1>7. ASSUME NEW b \in Boot, Probe(b) PROVE NoNeedlessWait'
  BY <1>7 DEF Probe, Present, Advance, Goto, db, bounds
<1>8. ASSUME NEW b \in Boot, CreateIndex(b) PROVE NoNeedlessWait'
  BY <1>8 DEF CreateIndex, Advance, Goto, bounds
<1>9. ASSUME NEW b \in Boot, LockTimeout(b) PROVE NoNeedlessWait'
  BY <1>9 DEF LockTimeout, Leave, Goto, db, bounds
<1>10. ASSUME NEW b \in Boot, StampVersions(b) PROVE NoNeedlessWait'
  BY <1>10 DEF StampVersions, Stamped, Leave, Goto, bounds
<1>11. ASSUME NEW b \in Boot, Unlock(b) PROVE NoNeedlessWait'
  BY <1>11 DEF Unlock, Goto, bounds
<1>12. ASSUME NEW b \in Boot, StatementFails(b) PROVE NoNeedlessWait'
  BY <1>12 DEF StatementFails, CanFail, Leave, Goto, db
<1>13. ASSUME NEW b \in Boot, UnlockFails(b) PROVE NoNeedlessWait'
  BY <1>13 DEF UnlockFails, CanFail, Goto, db
<1>14. ASSUME NEW b \in Boot, ConnectionLost(b) PROVE NoNeedlessWait'
  BY <1>14 DEF ConnectionLost, CanFail, Sent
<1>15. ASSUME NEW b \in Boot, SessionEnds(b) PROVE NoNeedlessWait'
  BY <1>15 DEF SessionEnds, bounds
<1>16. ASSUME NEW b \in Boot, BootsAgain(b) PROVE NoNeedlessWait'
  BY <1>16 DEF BootsAgain, Goto, db
<1>17. CASE GhostGoes
  BY <1>17 DEF GhostGoes, Stamped, bounds
<1>18. CASE Flush
  BY <1>18 DEF Flush, bounds
<1>19. CASE UNCHANGED vars
  BY <1>19 DEF vars, db, bounds
<1> QED
  BY <1>1, <1>2, <1>3, <1>4, <1>5, <1>6, <1>7, <1>8, <1>9, <1>10,
     <1>11, <1>12, <1>13, <1>14, <1>15, <1>16, <1>17, <1>18, <1>19
  DEF Next, BootStep, Fault

\* The initial states satisfy the invariant.
LEMMA InitInv == Init => TypeOK /\ SchemaInv /\ ExclusiveInv
<1> USE ConstantsAssumption
<1> SUFFICES ASSUME Init PROVE TypeOK /\ SchemaInv /\ ExclusiveInv
  OBVIOUS
<1>1. TypeOK
  <2>1. made \subseteq Statement
    <3>1. PICK k \in 0..Last : made = 1..k \ Lacking
      BY DEF Init
    <3> QED
      BY <3>1 DEF Statement
  <2>2. version \in Nat /\ inFlight \in Work /\ next \in [Boot -> 1..(Last + 1)]
    BY DEF Init, Work, Idle, Stamp
  <2> QED
    BY <2>1, <2>2 DEF Init, TypeOK, Where, Ended, None
<1>2. LockInv /\ ProgressInv
  BY DEF Init, LockInv, ProgressInv, Migrating, Held, Idle, Stamp
<1>3. StampedMeansComplete
  BY DEF Init, StampedMeansComplete, Migrated
<1>4. DoneMeansMigrated /\ NoNeedlessWait
  BY DEF Init, DoneMeansMigrated, NoNeedlessWait
<1> QED
  BY <1>1, <1>2, <1>3, <1>4 DEF SchemaInv, ExclusiveInv

\* The schema's invariant needs no lock: every boot stamps only what it has
\* made itself.
LEMMA SchemaInvariant == Spec => [](TypeOK /\ SchemaInv)
<1>1. TypeOK /\ SchemaInv /\ [Next]_vars => (TypeOK /\ SchemaInv)'
  BY TypeStep, ProgressStep, CompleteStep DEF SchemaInv
<1> QED
  BY <1>1, InitInv, PTL DEF Spec

\* The lock belongs to one boot at a time.
LEMMA ExclusiveInvariant ==
    Spec => [](TypeOK /\ SchemaInv /\ ExclusiveInv)
<1>1. TypeOK /\ SchemaInv /\ ExclusiveInv /\ [Next]_vars => ExclusiveInv'
  BY LockStep, WaitStep DEF SchemaInv, ExclusiveInv
<1> QED
  BY <1>1, InitInv, SchemaInvariant, PTL DEF Spec

\* Every reachable state of the boots, the lock and the schema is well typed.
THEOREM TypeCorrect == Spec => []TypeOK
  BY SchemaInvariant, PTL

\* The advisory lock of runMigrations keeps all
\* sessions but one out of the DDL, dead sessions included.
THEOREM OneMigratorAtATime == Spec => []OneMigrator
<1>1. TypeOK /\ ExclusiveInv => OneMigrator
  BY ConstantsAssumption DEF ExclusiveInv, LockInv, OneMigrator, Ghost
<1> QED
  BY <1>1, ExclusiveInvariant, PTL

\* The stamp in schema_version, on which every later boot's fast path relies,
\* is never there before the whole schema is.
THEOREM StampIsTruthful == Spec => []StampedMeansComplete
<1>1. SchemaInv => StampedMeansComplete
  BY DEF SchemaInv
<1> QED
  BY <1>1, SchemaInvariant, PTL

\* A call of runMigrations that returns leaves a complete schema.
THEOREM ReturnMeansMigrated == Spec => []DoneMeansMigrated
<1>1. SchemaInv => DoneMeansMigrated
  BY DEF SchemaInv
<1> QED
  BY <1>1, SchemaInvariant, PTL

\* ensureIndex never makes a boot wait for the table lock of an index that
\* exists already.
THEOREM WaitsOnlyForMissingIndex == Spec => []NoNeedlessWait
<1>1. ExclusiveInv => NoNeedlessWait
  BY DEF ExclusiveInv
<1> QED
  BY <1>1, ExclusiveInvariant, PTL

\* Every way out of the locked section goes through the finally block, and that
\* gives the lock up: only a failing unlock or a lost connection leaves it.
THEOREM LockAlwaysReleased == Spec => LockIsReleased
<1>1. ASSUME TypeOK, [Next]_vars, NEW b \in Boot, pc[b] \in Held,
             pc'[b] \in Ended, faults' = faults
      PROVE  lock' # b
  <2> USE <1>1, ConstantsAssumption DEF TypeOK, Held, Ended, None
  <2>0. pc' # pc /\ faults \in Nat /\ pc'[b] # pc[b]
    OBVIOUS
  <2>1. ASSUME NEW c \in Boot, NEW p \in Where \ Ended,
               pc' = [pc EXCEPT ![c] = p] PROVE FALSE
    BY <2>1 DEF Where
  <2>2. ASSUME NEW c \in Boot, Connect(c) PROVE FALSE
    BY <2>2, <2>1 DEF Connect, Goto, Where
  <2>3. ASSUME NEW c \in Boot, Check(c) \/ Late(c) PROVE FALSE
    BY <2>3 DEF Check, Late, Goto
  <2>4. ASSUME NEW c \in Boot, TryLock(c) PROVE FALSE
    BY <2>4 DEF TryLock, Goto
  <2>5. ASSUME NEW c \in Boot, Recheck(c) PROVE FALSE
    BY <2>5, <2>1 DEF Recheck, RecheckOutcome, Leave, Goto, Where
  <2>6. ASSUME NEW c \in Boot, Apply(c) \/ Probe(c) \/ CreateIndex(c) PROVE FALSE
    BY <2>6, <2>1, <2>0 DEF Apply, Probe, CreateIndex, Advance, Goto, Where
  <2>7. ASSUME NEW c \in Boot, LockTimeout(c) \/ StampVersions(c) PROVE FALSE
    BY <2>7, <2>1 DEF LockTimeout, StampVersions, Leave, Goto, Where
  <2>8. ASSUME NEW c \in Boot, Unlock(c) PROVE lock' # b
    BY <2>8 DEF Unlock
  <2>9. ASSUME NEW c \in Boot, Fault(c) PROVE FALSE
    BY <2>9, <2>0 DEF Fault, StatementFails, UnlockFails, ConnectionLost, CanFail
  <2>10. ASSUME NEW c \in Boot, SessionEnds(c) PROVE FALSE
    BY <2>10, <2>0 DEF SessionEnds
  <2>11. ASSUME NEW c \in Boot, BootsAgain(c) PROVE FALSE
    BY <2>11, <2>1 DEF BootsAgain, Goto, Where
  <2>12. ~GhostGoes /\ ~Flush /\ ~UNCHANGED vars
    BY <2>0 DEF GhostGoes, Flush, vars
  <2> QED
    BY <2>2, <2>3, <2>4, <2>5, <2>6, <2>7, <2>8, <2>9, <2>10, <2>11, <2>12
    DEF Next, BootStep
<1>2. ASSUME TypeOK, [Next]_vars
      PROVE  [\A b \in Boot : pc[b] \in Held /\ pc'[b] \in Ended
                  /\ faults' = faults => lock' # b]_vars
  BY <1>1, <1>2
<1> QED
  BY <1>2, TypeCorrect, PTL DEF Spec, LockIsReleased

-----------------------------------------------------------------------------
(* Refinement of SchemaPromise *)

ready == {b \in Boot : pc[b] = "done"}

\* No step of a boot, a ghost or another sandbox takes DDL back.
LEMMA SchemaOnlyGrows ==
    ASSUME TypeOK, [Next]_vars
    PROVE  made \subseteq made'
<1>1. ASSUME NEW b \in Boot, Connect(b) PROVE made \subseteq made'
  BY <1>1 DEF Connect, Goto, db, bounds
<1>2. ASSUME NEW b \in Boot, Check(b) PROVE made \subseteq made'
  BY <1>2 DEF Check, Goto, db, bounds
<1>3. ASSUME NEW b \in Boot, TryLock(b) PROVE made \subseteq made'
  BY <1>3 DEF TryLock, Granted, Goto, bounds
<1>4. ASSUME NEW b \in Boot, Late(b) PROVE made \subseteq made'
  BY <1>4 DEF Late, LateBoot, Goto, db, bounds
<1>5. ASSUME NEW b \in Boot, Recheck(b) PROVE made \subseteq made'
  BY <1>5 DEF Recheck, RecheckOutcome, Leave, Goto, db, bounds
<1>6. ASSUME NEW b \in Boot, Apply(b) PROVE made \subseteq made'
  BY <1>6 DEF Apply, Advance, Goto, bounds
<1>7. ASSUME NEW b \in Boot, Probe(b) PROVE made \subseteq made'
  BY <1>7 DEF Probe, Present, Advance, Goto, db, bounds
<1>8. ASSUME NEW b \in Boot, CreateIndex(b) PROVE made \subseteq made'
  BY <1>8 DEF CreateIndex, Advance, Goto, bounds
<1>9. ASSUME NEW b \in Boot, LockTimeout(b) PROVE made \subseteq made'
  BY <1>9 DEF LockTimeout, Leave, Goto, db, bounds
<1>10. ASSUME NEW b \in Boot, StampVersions(b) PROVE made \subseteq made'
  BY <1>10 DEF StampVersions, Stamped, Leave, Goto, bounds
<1>11. ASSUME NEW b \in Boot, Unlock(b) PROVE made \subseteq made'
  BY <1>11 DEF Unlock, Goto, bounds
<1>12. ASSUME NEW b \in Boot, StatementFails(b) PROVE made \subseteq made'
  BY <1>12 DEF StatementFails, CanFail, Leave, Goto, db
<1>13. ASSUME NEW b \in Boot, UnlockFails(b) PROVE made \subseteq made'
  BY <1>13 DEF UnlockFails, CanFail, Goto, db
<1>14. ASSUME NEW b \in Boot, ConnectionLost(b) PROVE made \subseteq made'
  BY <1>14 DEF ConnectionLost, CanFail, Sent
<1>15. ASSUME NEW b \in Boot, SessionEnds(b) PROVE made \subseteq made'
  BY <1>15 DEF SessionEnds, bounds
<1>16. ASSUME NEW b \in Boot, BootsAgain(b) PROVE made \subseteq made'
  BY <1>16 DEF BootsAgain, Goto, db
<1>17. CASE GhostGoes
  BY <1>17 DEF GhostGoes, Stamped, bounds
<1>18. CASE Flush
  BY <1>18 DEF Flush, bounds
<1>19. CASE UNCHANGED vars
  BY <1>19 DEF vars, db, bounds
<1> QED
  BY <1>1, <1>2, <1>3, <1>4, <1>5, <1>6, <1>7, <1>8, <1>9, <1>10,
     <1>11, <1>12, <1>13, <1>14, <1>15, <1>16, <1>17, <1>18, <1>19
  DEF Next, BootStep, Fault

OneMoves ==
    \/ ready' = ready
    \/ \E b \in Boot : pc'[b] = "done" /\ ready' = ready \cup {b}
    \/ \E b \in Boot : ready' = ready \ {b}

\* At most one boot comes to an end, or begins again, in one step.
LEMMA OneBootMoves ==
    ASSUME TypeOK, [Next]_vars
    PROVE  OneMoves
<1>0. ASSUME NEW b \in Boot, NEW p \in Where, pc' = [pc EXCEPT ![b] = p]
      PROVE  OneMoves
  <2>1. CASE p = "done"
    <3>1. ready' = ready \cup {b}
      BY <1>0, <2>1 DEF TypeOK, ready
    <3> QED
      BY <1>0, <2>1, <3>1 DEF TypeOK, OneMoves
  <2>2. CASE p # "done"
    <3>1. ready' = ready \ {b}
      BY <1>0, <2>2 DEF TypeOK, ready
    <3> QED
      BY <3>1 DEF OneMoves
  <2> QED
    BY <2>1, <2>2
<1>00. ASSUME UNCHANGED pc PROVE OneMoves
  BY <1>00 DEF ready, OneMoves
<1> USE <1>0, <1>00 DEF TypeOK, Where, Held, Ended
<1>1. ASSUME NEW b \in Boot, Connect(b) PROVE OneMoves
  BY <1>1 DEF Connect, Goto, db, bounds
<1>2. ASSUME NEW b \in Boot, Check(b) PROVE OneMoves
  BY <1>2 DEF Check, Goto, db, bounds
<1>3. ASSUME NEW b \in Boot, TryLock(b) PROVE OneMoves
  BY <1>3 DEF TryLock, Granted, Goto, bounds
<1>4. ASSUME NEW b \in Boot, Late(b) PROVE OneMoves
  BY <1>4 DEF Late, LateBoot, Goto, db, bounds
<1>5. ASSUME NEW b \in Boot, Recheck(b) PROVE OneMoves
  BY <1>5 DEF Recheck, RecheckOutcome, Leave, Goto, db, bounds
<1>6. ASSUME NEW b \in Boot, Apply(b) PROVE OneMoves
  BY <1>6 DEF Apply, Advance, Goto, bounds
<1>7. ASSUME NEW b \in Boot, Probe(b) PROVE OneMoves
  BY <1>7 DEF Probe, Present, Advance, Goto, db, bounds
<1>8. ASSUME NEW b \in Boot, CreateIndex(b) PROVE OneMoves
  BY <1>8 DEF CreateIndex, Advance, Goto, bounds
<1>9. ASSUME NEW b \in Boot, LockTimeout(b) PROVE OneMoves
  BY <1>9 DEF LockTimeout, Leave, Goto, db, bounds
<1>10. ASSUME NEW b \in Boot, StampVersions(b) PROVE OneMoves
  BY <1>10 DEF StampVersions, Stamped, Leave, Goto, bounds
<1>11. ASSUME NEW b \in Boot, Unlock(b) PROVE OneMoves
  BY <1>11 DEF Unlock, Goto, bounds
<1>12. ASSUME NEW b \in Boot, StatementFails(b) PROVE OneMoves
  BY <1>12 DEF StatementFails, CanFail, Leave, Goto, db
<1>13. ASSUME NEW b \in Boot, UnlockFails(b) PROVE OneMoves
  BY <1>13 DEF UnlockFails, CanFail, Goto, db
<1>14. ASSUME NEW b \in Boot, ConnectionLost(b) PROVE OneMoves
  BY <1>14 DEF ConnectionLost, CanFail, Sent
<1>15. ASSUME NEW b \in Boot, SessionEnds(b) PROVE OneMoves
  BY <1>15 DEF SessionEnds, bounds
<1>16. ASSUME NEW b \in Boot, BootsAgain(b) PROVE OneMoves
  BY <1>16 DEF BootsAgain, Goto, db
<1>17. CASE GhostGoes
  BY <1>17 DEF GhostGoes, Stamped, bounds
<1>18. CASE Flush
  BY <1>18 DEF Flush, bounds
<1>19. CASE UNCHANGED vars
  BY <1>19 DEF vars, db, bounds
<1> QED
  BY <1>1, <1>2, <1>3, <1>4, <1>5, <1>6, <1>7, <1>8, <1>9, <1>10,
     <1>11, <1>12, <1>13, <1>14, <1>15, <1>16, <1>17, <1>18, <1>19
  DEF Next, BootStep, Fault

\* Detailed calls implement the promise: the schema completes once and for
\* all, and a call goes on only when it has.
THEOREM MigrationsKeepPromise == Spec => KeepsPromise
<1>1. Init => Promise!Init
  BY DEF Init, Promise!Init
<1>2. ASSUME TypeOK, SchemaInv, TypeOK', SchemaInv', [Next]_vars
      PROVE  [Promise!Next]_(Promise!vars)
  <2> DEFINE complete == Required \subseteq made
  <2>1. complete => complete'
    BY <1>2, SchemaOnlyGrows DEF Required, Statement
  <2>2. \A b \in Boot : pc'[b] = "done" => complete'
    BY <1>2 DEF SchemaInv, DoneMeansMigrated, Required, Statement
  <2> USE DEF Promise!Next, Promise!vars, Promise!Complete, Promise!GoOn,
              Promise!BootAgain, ready
  <2>3. CASE ready' = ready
    BY <2>1, <2>3
  <2>4. CASE \E b \in Boot : pc'[b] = "done" /\ ready' = ready \cup {b}
    BY <2>2, <2>4
  <2>5. ASSUME NEW b \in Boot, ready' = ready \ {b}, ready' # ready
        PROVE  Promise!BootAgain(b)
    <3>1. complete
      BY <1>2, <2>5 DEF SchemaInv, DoneMeansMigrated, Required, Statement
    <3> QED
      BY <2>1, <2>5, <3>1
  <2> QED
    BY <1>2, <2>3, <2>4, <2>5, OneBootMoves DEF OneMoves
<1> QED
  BY <1>1, <1>2, SchemaInvariant, PTL DEF Spec, KeepsPromise, Promise!Spec
=============================================================================
