------------------------ MODULE AccountMigrationProofs ------------------------
(***************************************************************************)
(* The safety of the migration for any number of processes, rows and       *)
(* backups.  The backup rule is inductive only together with what a        *)
(* process in progress knows: it holds the lock, the version it read is    *)
(* still the committed one, and its own backup is whole.                   *)
(***************************************************************************)
EXTENDS AccountMigration, TLAPS

\* A process in progress holds the lock, so at most one is.
LockHeld == \A p \in Processes : migrators[p] # Resting => lock = p

\* From the first read on, the version a process read is the committed one.
StartCurrent ==
    \A p \in Processes : migrators[p].step \in {"backing", "ready", "exclusive"} =>
        migrators[p].start = version /\ version < Target

\* A whole backup of version v.
Backed(i, v) == i \in Instants /\ backups[i].state = "whole" /\ backups[i].version = v

\* A process writes its backup to a file of its own; past the backup of an existing schema
\* it has a whole one.
BackupOwned ==
    \A p \in Processes :
        /\ migrators[p].step = "backing" =>
             migrators[p].at \in Instants /\ backups[migrators[p].at] = Partial
        /\ migrators[p].step \in {"ready", "exclusive"} /\ migrators[p].start > 0 =>
             Backed(migrators[p].at, migrators[p].start)

\* Only the schema before this one has rows of the previous release.
RowsOld == version # 1 => rows = {}

\* An open store is on a migrated database; a change of an existing one is backed up.
OpenMigrated == stores # {} => version = Target
ChangeBacked == \A v \in changed : \E i \in Instants : Backed(i, v)

MigrationInv ==
    /\ MigrationTypeOK /\ LockHeld /\ StartCurrent /\ BackupOwned /\ RowsOld
    /\ OpenMigrated /\ ChangeBacked

-----------------------------------------------------------------------------
\* The files the backup step writes have their type.
LEMMA FileTypes == MigrationTypeOK => Copy \in Files /\ Partial \in Files /\ NoFile \in Files
  BY DEF MigrationTypeOK, Copy, Partial, NoFile, Files, Target

\* The empty database satisfies the invariant.
LEMMA MigrationInitInv == MigrationInit => MigrationInv
  <1> SUFFICES ASSUME MigrationInit PROVE MigrationInv
    OBVIOUS
  <1>1. NoFile \in Files
    BY DEF NoFile, Files, Target
  <1>2. MigrationTypeOK
    BY <1>1 DEF MigrationInit, MigrationTypeOK, Target
  <1>3. LockHeld /\ StartCurrent /\ BackupOwned
    BY DEF MigrationInit, LockHeld, StartCurrent, BackupOwned, Resting
  <1>4. RowsOld /\ OpenMigrated /\ ChangeBacked
    BY DEF MigrationInit, RowsOld, OpenMigrated, ChangeBacked
  <1> QED
    BY <1>2, <1>3, <1>4 DEF MigrationInv

\* The rule the runs check follows from the invariant.
LEMMA MigrationInvBacked == MigrationInv => ChangesBackedUp
  BY DEF MigrationInv, MigrationTypeOK, OpenMigrated, ChangeBacked, Backed, RowsOld,
         ChangesBackedUp, Target

\* The types are kept by every step.
LEMMA MigrationTypes == MigrationInv /\ [MigrationNext]_migrationVars => MigrationTypeOK'
  <1> SUFFICES ASSUME MigrationTypeOK, BackupOwned, [MigrationNext]_migrationVars
               PROVE  MigrationTypeOK'
    BY DEF MigrationInv
  <1>1. Copy \in Files /\ Partial \in Files
    BY FileTypes
  <1> USE DEF MigrationTypeOK, Moves, LetsGo, At, Progress, Resting, Target
  <1>2. ASSUME NEW p \in Processes, Lock(p) PROVE MigrationTypeOK'
    BY <1>2 DEF Lock
  <1>3. ASSUME NEW p \in Processes, ReadsVersion(p) PROVE MigrationTypeOK'
    BY <1>1, <1>3 DEF ReadsVersion
  <1>4. ASSUME NEW p \in Processes, BackupAndVerify(p) PROVE MigrationTypeOK'
    BY <1>1, <1>4 DEF BackupAndVerify, BackupOwned
  <1>5. ASSUME NEW p \in Processes, BeginExclusive(p) PROVE MigrationTypeOK'
    BY <1>5 DEF BeginExclusive
  <1>6. ASSUME NEW p \in Processes, Migrate(p) PROVE MigrationTypeOK'
    BY <1>6 DEF Migrate
  <1>7. ASSUME NEW p \in Processes, Fails(p) \/ Dies(p) \/ OpenStore(p) PROVE MigrationTypeOK'
    BY <1>7 DEF Fails, Dies, OpenStore
  <1>8. CASE OldReleaseMigrates
    BY <1>8 DEF OldReleaseMigrates
  <1>10. ASSUME NEW row \in OldRows, OldReleaseWrites(row) PROVE MigrationTypeOK'
    <2>1. rows' \subseteq OldRows
      BY <1>10 DEF OldReleaseWrites
    <2> QED
      BY <1>10, <2>1 DEF OldReleaseWrites
  <1>9. CASE UNCHANGED migrationVars
    BY <1>9 DEF migrationVars
  <1> QED
    BY <1>2, <1>3, <1>4, <1>5, <1>6, <1>7, <1>8, <1>9, <1>10 DEF MigrationNext

\* The lock and what its holder knows are kept by every step.
LEMMA MigrationProgress ==
    MigrationInv /\ [MigrationNext]_migrationVars => LockHeld' /\ StartCurrent' /\ BackupOwned'
  <1> SUFFICES ASSUME MigrationInv, [MigrationNext]_migrationVars
               PROVE  LockHeld' /\ StartCurrent' /\ BackupOwned'
    OBVIOUS
  <1> USE MigrationAssumption DEF MigrationInv, MigrationTypeOK, LockHeld, StartCurrent, BackupOwned,
          Backed, Moves, LetsGo, At, Resting, Target
  <1>2. ASSUME NEW p \in Processes, Lock(p) PROVE LockHeld' /\ StartCurrent' /\ BackupOwned'
    BY <1>2 DEF Lock
  <1>3. ASSUME NEW p \in Processes, ReadsVersion(p)
        PROVE  LockHeld' /\ StartCurrent' /\ BackupOwned'
    BY <1>3 DEF ReadsVersion, BacksUp
  <1>4. ASSUME NEW p \in Processes, BackupAndVerify(p)
        PROVE  LockHeld' /\ StartCurrent' /\ BackupOwned'
    BY <1>4 DEF BackupAndVerify, Copy
  <1>5. ASSUME NEW p \in Processes, BeginExclusive(p)
        PROVE  LockHeld' /\ StartCurrent' /\ BackupOwned'
    <2>1. CASE version = migrators[p].start
      <3>1. migrators' = [migrators EXCEPT ![p] = [migrators[p] EXCEPT !.step = "exclusive"]]
        BY <1>5, <2>1 DEF BeginExclusive
      <3>2. /\ migrators[p] \in Progress /\ migrators'[p] \in Progress
            /\ migrators'[p].start = migrators[p].start /\ migrators'[p].at = migrators[p].at
        BY <1>5, <3>1 DEF BeginExclusive, Progress
      <3>3. UNCHANGED <<version, backups, lock>>
        BY <1>5, <2>1 DEF BeginExclusive
      <3>4. \A q \in Processes \ {p} : migrators'[q] = migrators[q]
        BY <3>1
      <3>5. LockHeld'
        BY <1>5, <3>3, <3>4 DEF BeginExclusive
      <3>6. StartCurrent'
        BY <1>5, <3>2, <3>3, <3>4 DEF BeginExclusive
      <3>7. BackupOwned'
        BY <1>5, <3>1, <3>2, <3>3, <3>4 DEF BeginExclusive
      <3> QED
        BY <3>5, <3>6, <3>7
    <2>2. CASE version # migrators[p].start
      BY <1>5, <2>2 DEF BeginExclusive
    <2> QED
      BY <2>1, <2>2
  <1>6. ASSUME NEW p \in Processes, Migrate(p) PROVE LockHeld' /\ StartCurrent' /\ BackupOwned'
    BY <1>6 DEF Migrate
  <1>7. ASSUME NEW p \in Processes, Fails(p) \/ Dies(p) \/ OpenStore(p)
        PROVE  LockHeld' /\ StartCurrent' /\ BackupOwned'
    BY <1>7 DEF Fails, Dies, OpenStore
  <1>8. CASE OldReleaseMigrates \/ \E row \in OldRows : OldReleaseWrites(row)
    BY <1>8 DEF OldReleaseMigrates, OldReleaseWrites
  <1>9. CASE UNCHANGED migrationVars
    BY <1>9 DEF migrationVars
  <1> QED
    BY <1>2, <1>3, <1>4, <1>5, <1>6, <1>7, <1>8, <1>9 DEF MigrationNext

\* So are the rows, the open stores and the backups of what was changed.
LEMMA MigrationRecord ==
    MigrationInv /\ [MigrationNext]_migrationVars => RowsOld' /\ OpenMigrated' /\ ChangeBacked'
  <1> SUFFICES ASSUME MigrationInv, [MigrationNext]_migrationVars
               PROVE  RowsOld' /\ OpenMigrated' /\ ChangeBacked'
    OBVIOUS
  <1> USE MigrationAssumption DEF MigrationInv, MigrationTypeOK, RowsOld, OpenMigrated, ChangeBacked, Backed, Target
  <1>2. ASSUME NEW p \in Processes, Lock(p) \/ BeginExclusive(p) \/ Fails(p) \/ Dies(p) \/ OpenStore(p)
        PROVE  RowsOld' /\ OpenMigrated' /\ ChangeBacked'
    BY <1>2 DEF Lock, BeginExclusive, Fails, Dies, OpenStore
  <1>3. ASSUME NEW p \in Processes, ReadsVersion(p)
        PROVE  RowsOld' /\ OpenMigrated' /\ ChangeBacked'
    BY <1>3 DEF ReadsVersion, NoFile, Partial
  <1>4. ASSUME NEW p \in Processes, BackupAndVerify(p)
        PROVE  RowsOld' /\ OpenMigrated' /\ ChangeBacked'
    <2>1. backups[migrators[p].at] = Partial
      BY <1>4 DEF BackupAndVerify, BackupOwned
    <2>2. ASSUME NEW v \in changed, NEW i \in Instants, Backed(i, v) PROVE Backed(i, v)'
      <3>1. i # migrators[p].at
        BY <2>1, <2>2 DEF Partial
      <3> QED
        BY <1>4, <2>2, <3>1 DEF BackupAndVerify
    <2>3. ChangeBacked'
      BY <1>4, <2>2 DEF BackupAndVerify
    <2> QED
      BY <1>4, <2>3 DEF BackupAndVerify
  <1>6. ASSUME NEW p \in Processes, Migrate(p)
        PROVE  RowsOld' /\ OpenMigrated' /\ ChangeBacked'
    <2>1. version' = Target /\ rows' = {} /\ UNCHANGED <<backups, stores>>
      BY <1>6 DEF Migrate
    <2>2. migrators[p].start = version
      BY <1>6 DEF Migrate, StartCurrent
    <2>3. version # 0 => Backed(migrators[p].at, version)
      BY <1>6, <2>2 DEF Migrate, BackupOwned
    <2>4. ASSUME NEW v \in changed' PROVE \E i \in Instants : Backed(i, v)
      <3>1. v \in changed \/ (v = version /\ version # 0)
        BY <1>6 DEF Migrate
      <3> QED
        BY <2>3, <3>1
    <2>5. ChangeBacked'
      BY <2>1, <2>4
    <2> QED
      BY <2>1, <2>5
  <1>8. CASE OldReleaseMigrates
    BY <1>8 DEF OldReleaseMigrates
  <1>10. ASSUME NEW row \in OldRows, OldReleaseWrites(row) PROVE RowsOld' /\ OpenMigrated' /\ ChangeBacked'
    <2>1. rows' \subseteq OldRows
      BY <1>10 DEF OldReleaseWrites
    <2> QED
      BY <1>10, <2>1 DEF OldReleaseWrites
  <1>9. CASE UNCHANGED migrationVars
    BY <1>9 DEF migrationVars
  <1> QED
    BY <1>2, <1>3, <1>4, <1>6, <1>8, <1>9, <1>10 DEF MigrationNext

-----------------------------------------------------------------------------
\* Every change of an existing schema is backed by a whole backup of the very version it
\* changed, and a store is open only on a migrated database, however many processes
\* migrate, die and take over (migrate_account_database, AccountStore.__init__).
THEOREM MigrationBackedUp == MigrationSpec => []ChangesBackedUp
  <1>1. MigrationInv /\ [MigrationNext]_migrationVars => MigrationInv'
    BY MigrationTypes, MigrationProgress, MigrationRecord DEF MigrationInv
  <1> QED
    BY <1>1, MigrationInitInv, MigrationInvBacked, PTL DEF MigrationSpec

\* The migration keeps its types: the version never passes that of this build, a lock has
\* a process for a holder, a backup file is absent, partial or whole (MigrationSpec).
THEOREM MigrationTypesHold == MigrationSpec => []MigrationTypeOK
  <1>1. MigrationInv /\ [MigrationNext]_migrationVars => MigrationInv'
    BY MigrationTypes, MigrationProgress, MigrationRecord DEF MigrationInv
  <1>2. MigrationInv => MigrationTypeOK
    BY DEF MigrationInv
  <1> QED
    BY <1>1, <1>2, MigrationInitInv, PTL DEF MigrationSpec

\* No step that changes the version loses a row the previous release committed (the guard
\* of migration 002 is evaluated inside the exclusive transaction).
THEOREM MigrationKeepsRows == MigrationSpec => RowsSurvive
  <1>1. [MigrationNext]_migrationVars => [version' # version => rows \subseteq rows']_migrationVars
    <2> SUFFICES ASSUME MigrationNext, version' # version PROVE rows \subseteq rows'
      OBVIOUS
    <2>1. CASE \E p \in Processes : Migrate(p)
      BY <2>1 DEF Migrate, Guard
    <2>2. CASE OldReleaseMigrates
      BY <2>2 DEF OldReleaseMigrates
    <2> QED
      BY <2>1, <2>2 DEF MigrationNext, Lock, ReadsVersion, BackupAndVerify, BeginExclusive,
                        Fails, Dies, OpenStore, OldReleaseWrites
  <1> QED
    BY <1>1, PTL DEF MigrationSpec, RowsSurvive

=============================================================================
