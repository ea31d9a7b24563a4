--------------------------- MODULE AccountMigration ---------------------------
(***************************************************************************)
(* The migration of the account database to the schema of this build, and  *)
(* the opening of the store (account_migrations.py, account_migration_lock,*)
(* AccountStore.__init__).  Several processes migrate and open; the        *)
(* previous release, which knows the schema before this one, still creates *)
(* databases, registers accounts and erases them.                          *)
(*                                                                         *)
(* What BEGIN EXCLUSIVE covers is private to its connection until COMMIT,  *)
(* so only the committed database is a variable and the migrations of the  *)
(* chain are one step.  A process that dies loses its transaction and its  *)
(* lock; the backup file it was writing stays.  Checksums, tables, columns *)
(* and indexes are left out: a database has a version.                     *)
(***************************************************************************)
EXTENDS Naturals, FiniteSets

CONSTANTS
    Processes,   \* processes of this build
    Nobody,      \* the holder of a free lock
    OldRows,     \* rows accounts of the previous release leave in the tables
    Instants     \* bound: times a backup file can be named after

Target == 2      \* ACCOUNT_SCHEMA_VERSION

ASSUME MigrationAssumption ==
    /\ IsFiniteSet(Processes) /\ Nobody \notin Processes
    /\ IsFiniteSet(OldRows) /\ IsFiniteSet(Instants) /\ Instants \subseteq Nat \ {0}

VARIABLES
    version,     \* the last version in the committed migration ledger, 0 without tables
    rows,        \* the committed rows of the previous schema
    backups,     \* [Instants -> file]; NoFile where there is none
    lock,        \* the holder of the migration lock
    migrators,   \* [Processes -> progress]
    stores,      \* processes with an open AccountStore
    changed      \* history: the versions of existing schemas that a migration changed

migrationVars == <<version, rows, backups, lock, migrators, stores, changed>>

NoFile == [state |-> "none", version |-> 0, rows |-> {}]
Partial == [state |-> "partial", version |-> 0, rows |-> {}]
Copy == [state |-> "whole", version |-> version, rows |-> rows]
Files == [state : {"none", "partial", "whole"}, version : 0..Target, rows : SUBSET OldRows]

\* start is the version read first, at the instant the backup is named after.
Progress == [step : {"locked", "backing", "ready", "exclusive"}, start : 0..Target,
             at : Instants \cup {0}]
Resting == [step |-> "resting", start |-> 0, at |-> 0]
At(step, start, at) == [step |-> step, start |-> start, at |-> at]

\* The database, its backups and the processes that migrate it.
MigrationTypeOK ==
    /\ version \in 0..Target /\ rows \subseteq OldRows
    /\ backups \in [Instants -> Files]
    /\ lock \in Processes \cup {Nobody}
    /\ migrators \in [Processes -> Progress \cup {Resting}]
    /\ stores \subseteq Processes /\ changed \subseteq 1..Target

MigrationInit ==
    /\ version = 0 /\ rows = {}
    /\ backups = [i \in Instants |-> NoFile]
    /\ lock = Nobody
    /\ migrators = [p \in Processes |-> Resting]
    /\ stores = {} /\ changed = {}

\* A database in use.
Migrated(p) ==
    /\ version = Target /\ rows = {}
    /\ backups = [i \in Instants |-> NoFile]
    /\ lock = Nobody
    /\ migrators = [q \in Processes |-> Resting]
    /\ stores = {p} /\ changed = {}

-----------------------------------------------------------------------------
Moves(p, progress) == migrators' = [migrators EXCEPT ![p] = progress]
LetsGo(p) == Moves(p, Resting) /\ lock' = Nobody

\* Fails at once when the lock is held.
Lock(p) ==
    /\ migrators[p] = Resting /\ lock = Nobody
    /\ lock' = p
    /\ Moves(p, At("locked", 0, 0))
    /\ UNCHANGED <<version, rows, backups, stores, changed>>

\* Mutant: the first schema with accounts counts as empty.
BacksUpLate(v) == v > 1

BacksUp(v) == v > 0

\* A current database needs nothing, an empty one no backup; the name of the backup
\* must be new.
ReadsVersion(p) ==
    /\ migrators[p].step = "locked"
    /\ \/ version = Target /\ LetsGo(p) /\ UNCHANGED backups
       \/ /\ version < Target /\ ~BacksUp(version)
          /\ Moves(p, At("ready", version, 0))
          /\ UNCHANGED <<lock, backups>>
       \/ /\ version < Target /\ BacksUp(version)
          /\ \E i \in Instants :
               IF backups[i] # NoFile THEN LetsGo(p) /\ UNCHANGED backups
               ELSE /\ backups' = [backups EXCEPT ![i] = Partial]
                    /\ Moves(p, At("backing", version, i))
                    /\ UNCHANGED lock
    /\ UNCHANGED <<version, rows, stores, changed>>

\* One consistent copy of the committed database, then its integrity check.
BackupAndVerify(p) ==
    /\ migrators[p].step = "backing"
    /\ backups' = [backups EXCEPT ![migrators[p].at] = Copy]
    /\ Moves(p, [migrators[p] EXCEPT !.step = "ready"])
    /\ UNCHANGED <<version, rows, lock, stores, changed>>

\* BEGIN EXCLUSIVE; the ledger must still say what was read before.
BeginExclusive(p) ==
    /\ migrators[p].step = "ready"
    /\ IF version = migrators[p].start
       THEN Moves(p, [migrators[p] EXCEPT !.step = "exclusive"]) /\ UNCHANGED lock
       ELSE LetsGo(p)
    /\ UNCHANGED <<version, rows, backups, stores, changed>>

\* Mutant: the guard looks at the verified backup instead of the locked database.
GuardOnBackup(p) == migrators[p].at # 0 => backups[migrators[p].at].rows = {}

\* Migration 002 drops the tables of the previous schema: they must be empty.
Guard(p) == rows = {}

\* The chain, its validation, COMMIT and the release of the lock.
Migrate(p) ==
    /\ migrators[p].step = "exclusive" /\ Guard(p)
    /\ version' = Target /\ rows' = {}
    /\ changed' = changed \cup ({version} \ {0})
    /\ LetsGo(p)
    /\ UNCHANGED <<backups, stores>>

\* The guard rejects, or anything else raises: ROLLBACK, the lock is released.
Fails(p) ==
    /\ migrators[p] # Resting
    /\ LetsGo(p)
    /\ UNCHANGED <<version, rows, backups, stores, changed>>

\* The process dies; the system closes its connections and releases its lock.
Dies(p) ==
    /\ migrators' = [migrators EXCEPT ![p] = Resting]
    /\ lock' = IF lock = p THEN Nobody ELSE lock
    /\ stores' = stores \ {p}
    /\ UNCHANGED <<version, rows, backups, changed>>

\* Refused unless the ledger names this version and the schema and accounts are whole.
OpenStore(p) ==
    /\ migrators[p] = Resting /\ version = Target
    /\ stores' = stores \cup {p}
    /\ UNCHANGED <<version, rows, backups, lock, migrators, changed>>

-----------------------------------------------------------------------------
(* The previous release.  It takes the same lock, and its transactions     *)
(* wait for an exclusive one.                                              *)

Writable == \A p \in Processes : migrators[p].step # "exclusive"

OldReleaseMigrates ==
    /\ version = 0 /\ lock = Nobody
    /\ version' = 1
    /\ UNCHANGED <<rows, backups, lock, migrators, stores, changed>>

OldReleaseWrites(row) ==
    /\ version = 1 /\ Writable
    /\ rows' = IF row \in rows THEN rows \ {row} ELSE rows \cup {row}
    /\ UNCHANGED <<version, backups, lock, migrators, stores, changed>>

MigrationNext ==
    \/ \E p \in Processes :
         \/ Lock(p) \/ ReadsVersion(p) \/ BackupAndVerify(p) \/ BeginExclusive(p)
         \/ Migrate(p) \/ Fails(p) \/ Dies(p) \/ OpenStore(p)
    \/ OldReleaseMigrates
    \/ \E row \in OldRows : OldReleaseWrites(row)

MigrationSpec == MigrationInit /\ [][MigrationNext]_migrationVars

-----------------------------------------------------------------------------
(* Properties.                                                             *)

\* A migration never loses an account: whatever the previous release wrote since the
\* version was read or the backup was made, a step that changes the version keeps every
\* committed row (the guard of migration 002 inside BEGIN EXCLUSIVE).
RowsSurvive == [][version' # version => rows \subseteq rows']_migrationVars

\* An existing schema is changed only after a whole backup of it was verified, also when
\* earlier attempts died over theirs, and an open store is on a migrated database.
ChangesBackedUp ==
    /\ \A v \in changed :
         \E i \in Instants : backups[i].state = "whole" /\ backups[i].version = v
    /\ stores # {} => version = Target /\ rows = {}

=============================================================================
