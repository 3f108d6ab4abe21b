----------------------------- MODULE Migrations -----------------------------
(***************************************************************************)
(* runMigrations() of openrind-shell-js/src/db/migrations.ts: several      *)
(* sandboxes boot against one database, each over a session of its own,    *)
(* and bring its schema to SchemaVersion under a polled advisory lock.     *)
(*                                                                         *)
(* A boot that loses its connection, or whose process dies, leaves a       *)
(* session the server has yet to notice: it still holds the advisory lock  *)
(* and its statement in flight may still take effect.                      *)
(***************************************************************************)
EXTENDS Integers, FiniteSets

CONSTANTS
    Boot,          \* calls of runMigrations, one per sandbox that boots
    SchemaVersion, \* SCHEMA_VERSION
    Last,          \* DDL statements of applyMigrations, numbered from 1
    Guarded,       \* the CREATE INDEX statements behind ensureIndex
    Optional,      \* the GRANTs, whose 42704 (no such role) is swallowed
    Lacking,       \* the GRANTs whose role this database does not have
    Table,         \* the statement that creates the table others write to
    FaultKinds,    \* which failures occur, see FaultKind
    MaxPolls,      \* LOCK_WAIT_MS / LOCK_POLL_MS
    MaxFaults, MaxReboots          \* bounds of the model

None  == "none"   \* nobody holds the lock
Ghost == "ghost"  \* a dead session does

\* statement    a query raises (statement_timeout, cancelled, ...)
\* unlock       pg_advisory_unlock raises
\* connection   the connection or the whole process is lost
FaultKind == {"statement", "unlock", "connection"}

Statement == 1..Last
Required  == Statement \ Optional

ASSUME ConstantsAssumption ==
    /\ None \notin Boot /\ Ghost \notin Boot
    /\ SchemaVersion \in Nat \ {0} /\ Last \in Nat \ {0}
    /\ Table \in Required /\ Guarded \subseteq Required
    /\ Lacking \subseteq Optional /\ Optional \subseteq Statement
    /\ FaultKinds \subseteq FaultKind
    /\ MaxPolls \in Nat /\ MaxFaults \in Nat /\ MaxReboots \in Nat

VARIABLES
    made,      \* statements whose effect is in the database
    version,   \* MAX(version) of _openrind.schema_version, 0 without it
    lock,      \* session that holds the advisory lock
    inFlight,  \* what the ghost's session was executing, see Work
    flushing,  \* another sandbox's write holds a lock on the table
    pc,        \* Boot -> where its runMigrations is
    next,      \* Boot -> the DDL statement it is at
    polls,     \* Boot -> tries of acquireMigrationLock so far
    ending,    \* Boot -> how the call ends after its finally block
    open,      \* boots whose session is open
    faults, reboots                \* counters of the bounds

db     == <<made, version, lock, inFlight, flushing>>
bounds == <<faults, reboots>>
vars   == <<db, pc, next, polls, ending, open, bounds>>

Idle  == 0
Stamp == Last + 1               \* the INSERT into schema_version
Work  == {Idle, Stamp} \cup Statement

Held  == {"recheck", "ddl", "create", "stamp", "finally"}  \* with the lock
Ended == {"done", "failed"}
Where == {"out", "check", "try", "late"} \cup Held \cup Ended

TypeOK ==
    /\ made \subseteq Statement
    /\ version \in Nat
    /\ lock \in Boot \cup {None, Ghost}
    /\ inFlight \in Work
    /\ flushing \in BOOLEAN
    /\ pc \in [Boot -> Where]
    /\ next \in [Boot -> 1..(Last + 1)]
    /\ polls \in [Boot -> Nat]
    /\ ending \in [Boot -> Ended]
    /\ open \subseteq Boot
    /\ faults \in Nat /\ reboots \in Nat

\* A fresh database, one an older build or an interrupted boot left behind,
\* or one this build or a newer one has migrated.
Init ==
    /\ \E k \in 0..Last : made = 1..k \ Lacking
    /\ version \in {0, SchemaVersion, SchemaVersion + 1}
    /\ version > 0 => Required \subseteq made
    /\ lock = None /\ inFlight = Idle /\ flushing = FALSE
    /\ pc = [b \in Boot |-> "out"]
    /\ next = [b \in Boot |-> 1]
    /\ polls = [b \in Boot |-> 0]
    /\ ending = [b \in Boot |-> "done"]
    /\ open = {}
    /\ faults = 0 /\ reboots = 0

-----------------------------------------------------------------------------
Goto(b, place) == pc' = [pc EXCEPT ![b] = place]

\* leave the try block: return or throw, by way of its finally
Leave(b, how) ==
    /\ Goto(b, "finally")
    /\ ending' = [ending EXCEPT ![b] = how]

Migrated == version >= SchemaVersion

Connect(b) ==
    /\ pc[b] = "out"
    /\ Goto(b, "check")
    /\ open' = open \cup {b}
    /\ UNCHANGED <<db, next, polls, ending, bounds>>

\* The fast path: one SELECT, no lock.
Check(b) ==
    /\ pc[b] = "check"
    /\ Goto(b, IF Migrated THEN "done" ELSE "try")
    /\ UNCHANGED <<db, next, polls, ending, open, bounds>>

GrantedWhateverHolds == TRUE

\* pg_try_advisory_lock; the lock belongs to the boot's session
Granted == lock = None

\* acquireMigrationLock: polled until the deadline, never blocking
TryLock(b) ==
    /\ pc[b] = "try"
    /\ \/ /\ Granted
          /\ lock' = b
          /\ Goto(b, "recheck")
          /\ UNCHANGED polls
       \/ /\ lock # None /\ polls[b] < MaxPolls
          /\ polls' = [polls EXCEPT ![b] = @ + 1]
          /\ UNCHANGED <<lock, pc>>
       \/ /\ lock # None /\ polls[b] >= MaxPolls
          /\ Goto(b, "late")
          /\ UNCHANGED <<lock, polls>>
    /\ UNCHANGED <<made, version, inFlight, flushing, next, ending, open, bounds>>

LateBootGoesOn == "done"

LateBoot == IF Migrated THEN "done" ELSE "failed"

\* The lock was not granted in time: fine if its holder has finished.
Late(b) ==
    /\ pc[b] = "late"
    /\ Goto(b, LateBoot)
    /\ UNCHANGED <<db, next, polls, ending, open, bounds>>

RecheckReturnsAtOnce(b) ==
    IF Migrated THEN Goto(b, "done") /\ UNCHANGED ending
    ELSE Goto(b, "ddl") /\ UNCHANGED ending

RecheckOutcome(b) ==
    IF Migrated THEN Leave(b, "done")
    ELSE Goto(b, "ddl") /\ UNCHANGED ending

\* Re-check under the lock; SET lock_timeout before the DDL.
Recheck(b) ==
    /\ pc[b] = "recheck"
    /\ RecheckOutcome(b)
    /\ next' = [next EXCEPT ![b] = 1]
    /\ UNCHANGED <<db, polls, open, bounds>>

AdvanceNeverStamps(b) ==
    /\ next' = [next EXCEPT ![b] = @ + 1]
    /\ Goto(b, "ddl")

Advance(b) ==
    /\ next' = [next EXCEPT ![b] = @ + 1]
    /\ Goto(b, IF next[b] = Last THEN "stamp" ELSE "ddl")

\* CREATE ... IF NOT EXISTS, or a GRANT
Apply(b) ==
    /\ pc[b] = "ddl" /\ next[b] \notin Guarded
    /\ made' = made \cup ({next[b]} \ Lacking)
    /\ Advance(b)
    /\ UNCHANGED <<version, lock, inFlight, flushing, polls, ending, open, bounds>>

PresentNever(s) == FALSE

\* to_regclass(...) IS NOT NULL
Present(s) == s \in made

Probe(b) ==
    /\ pc[b] = "ddl" /\ next[b] \in Guarded
    /\ IF Present(next[b]) THEN Advance(b)
       ELSE Goto(b, "create") /\ UNCHANGED next
    /\ UNCHANGED <<db, polls, ending, open, bounds>>

\* CREATE INDEX takes its ShareLock when no write holds the table.
CreateIndex(b) ==
    /\ pc[b] = "create" /\ ~flushing
    /\ made' = made \cup {next[b]}
    /\ Advance(b)
    /\ UNCHANGED <<version, lock, inFlight, flushing, polls, ending, open, bounds>>

LockTimeoutSwallowed(b) ==
    /\ pc[b] = "create" /\ flushing
    /\ Advance(b)
    /\ UNCHANGED <<db, polls, ending, open, bounds>>

LockTimeoutNever(b) == pc[b] = "create" /\ flushing /\ UNCHANGED vars

\* lock_timeout while a write goes on
LockTimeout(b) ==
    /\ pc[b] = "create" /\ flushing
    /\ Leave(b, "failed")
    /\ UNCHANGED <<db, next, polls, open, bounds>>

Stamped == IF version < SchemaVersion THEN SchemaVersion ELSE version

StampVersions(b) ==
    /\ pc[b] = "stamp"
    /\ version' = Stamped
    /\ Leave(b, "done")
    /\ UNCHANGED <<made, lock, inFlight, flushing, next, polls, open, bounds>>

\* pg_advisory_unlock in the finally block
Unlock(b) ==
    /\ pc[b] = "finally"
    /\ lock' = None
    /\ Goto(b, ending[b])
    /\ UNCHANGED <<made, version, inFlight, flushing, next, polls, ending, open,
                   bounds>>

-----------------------------------------------------------------------------
(* Failures, sessions and the other sandboxes *)

CanFail(kind) ==
    /\ kind \in FaultKinds /\ faults < MaxFaults
    /\ faults' = faults + 1

\* A query raises: outside the inner try the call throws at once, inside it
\* by way of the finally block.
StatementFails(b) ==
    /\ CanFail("statement")
    /\ \/ /\ pc[b] \in {"check", "try", "late"}
          /\ Goto(b, "failed")
          /\ UNCHANGED ending
       \/ /\ pc[b] \in Held \ {"finally"}
          /\ Leave(b, "failed")
    /\ UNCHANGED <<db, next, polls, open, reboots>>

\* The catch around pg_advisory_unlock: the session goes back to the pool
\* with the lock.
UnlockFails(b) ==
    /\ CanFail("unlock") /\ pc[b] = "finally"
    /\ Goto(b, ending[b])
    /\ UNCHANGED <<db, next, polls, ending, open, reboots>>

\* The statement a boot has sent when its connection is lost.
Sent(b) ==
    CASE pc[b] = "ddl" /\ next[b] \notin Guarded -> next[b]
      [] pc[b] = "create" -> next[b]
      [] pc[b] = "stamp" -> Stamp
      [] OTHER -> Idle

\* Every later query of this boot throws, its unlock too.
ConnectionLost(b) ==
    /\ CanFail("connection") /\ b \in open
    /\ open' = open \ {b}
    /\ pc' = IF pc[b] \in Ended THEN pc ELSE [pc EXCEPT ![b] = "failed"]
    /\ \/ /\ lock = b
          /\ lock' = Ghost /\ inFlight' = Sent(b)
       \/ /\ lock = None /\ pc[b] = "try"    \* granted, the answer lost
          /\ lock' = Ghost /\ inFlight' = Idle
       \/ /\ lock # b
          /\ UNCHANGED <<lock, inFlight>>
    /\ UNCHANGED <<made, version, flushing, next, polls, ending, reboots>>

\* The server finishes the ghost's statement, or drops it, and then ends the
\* session: only that releases its lock.
GhostGoes ==
    /\ lock = Ghost
    /\ lock' = None /\ inFlight' = Idle
    /\ \/ UNCHANGED <<made, version>>
       \/ /\ inFlight \in Statement
          /\ made' = made \cup ({inFlight} \ Lacking)
          /\ UNCHANGED version
       \/ /\ inFlight = Stamp
          /\ version' = Stamped
          /\ UNCHANGED made
    /\ UNCHANGED <<flushing, pc, next, polls, ending, open, bounds>>

\* The pool closes the session of a call that is over.
SessionEnds(b) ==
    /\ pc[b] \in Ended /\ b \in open
    /\ open' = open \ {b}
    /\ lock' = IF lock = b THEN None ELSE lock
    /\ UNCHANGED <<made, version, inFlight, flushing, pc, next, polls, ending,
                   bounds>>

\* The sandbox boots again, in a new process.
BootsAgain(b) ==
    /\ pc[b] \in Ended /\ b \notin open /\ reboots < MaxReboots
    /\ Goto(b, "out")
    /\ polls' = [polls EXCEPT ![b] = 0]
    /\ reboots' = reboots + 1
    /\ UNCHANGED <<db, next, ending, open, faults>>

\* A write of another sandbox to the indexed table begins, or ends.
Flush ==
    /\ Table \in made
    /\ flushing' = ~flushing
    /\ UNCHANGED <<made, version, lock, inFlight, pc, next, polls, ending, open,
                   bounds>>

-----------------------------------------------------------------------------
BootStep(b) ==
    \/ Connect(b) \/ Check(b) \/ TryLock(b) \/ Late(b) \/ Recheck(b)
    \/ Apply(b) \/ Probe(b) \/ CreateIndex(b) \/ LockTimeout(b)
    \/ StampVersions(b) \/ Unlock(b)

Fault(b) == StatementFails(b) \/ UnlockFails(b) \/ ConnectionLost(b)

Next ==
    \/ \E b \in Boot : BootStep(b) \/ Fault(b) \/ SessionEnds(b) \/ BootsAgain(b)
    \/ GhostGoes \/ Flush

Spec == Init /\ [][Next]_vars

\* A boot's event loop makes progress and the server notices dead sessions.
\* A pooled session owes nothing: a busy process may keep it for ever.
Fairness == WF_vars(GhostGoes) /\ \A b \in Boot : WF_vars(BootStep(b))

FairSpec == Spec /\ Fairness

-----------------------------------------------------------------------------
(* Properties *)

Migrating(b) == pc[b] \in Held

\* Never two sessions between the grant of the migration lock and its release,
\* not even when one of them belongs to a boot that is already dead.
OneMigrator ==
    /\ \A b, c \in Boot : Migrating(b) /\ Migrating(c) => b = c
    /\ lock = Ghost => \A b \in Boot : ~Migrating(b)

\* A recorded version means the whole DDL has run, wherever boots failed or
\* died before: the stamp is what every later boot trusts blindly.
StampedMeansComplete == Migrated => Required \subseteq made

\* A call that returned left its caller a complete schema, whichever of its
\* three version checks or its own DDL let it return.
DoneMeansMigrated == \A b \in Boot : pc[b] = "done" => Required \subseteq made

\* A boot queues for the table lock of CREATE INDEX only for an index that is
\* really missing (ensureIndex): otherwise it would stall the other sandboxes'
\* writes for nothing.
NoNeedlessWait == \A b \in Boot : pc[b] = "create" => next[b] \notin made

\* Every boot ends, with the schema or an error: the lock is polled up to a
\* deadline, never waited for.
EveryBootEnds == \A b \in Boot : pc[b] # "out" ~> pc[b] \in Ended

\* A call that leaves the locked section, by whichever way out, has given the
\* lock up, unless the unlock itself or the connection failed.
LockIsReleased ==
    [][\A b \in Boot :
          pc[b] \in Held /\ pc'[b] \in Ended /\ faults' = faults => lock' # b]_vars

\* The promise of SchemaPromise, for the schema as the database has it.
Promise == INSTANCE SchemaPromise
    WITH complete <- Required \subseteq made,
         ready <- {b \in Boot : pc[b] = "done"}

KeepsPromise == Promise!Spec

-----------------------------------------------------------------------------
(* The inductive invariants *)

\* What the DDL has reached is there: statements before next[b], all of them
\* before the stamp, also when the stamp is in a ghost's hands.
ProgressInv ==
    /\ \A b \in Boot :
          /\ pc[b] \in {"ddl", "create"} =>
                next[b] <= Last /\ \A s \in Required : s < next[b] => s \in made
          /\ pc[b] = "create" => next[b] \in Guarded
          /\ pc[b] = "stamp" => Required \subseteq made
          /\ pc[b] = "finally" /\ ending[b] = "done" => Required \subseteq made
    /\ inFlight = Stamp => Required \subseteq made

\* needs no mutual exclusion
SchemaInv == ProgressInv /\ StampedMeansComplete /\ DoneMeansMigrated

\* The lock's holder and the boots in the locked section are one.
LockInv ==
    /\ \A b \in Boot : Migrating(b) => lock = b
    /\ inFlight # Idle => lock = Ghost

ExclusiveInv == LockInv /\ NoNeedlessWait

=============================================================================
