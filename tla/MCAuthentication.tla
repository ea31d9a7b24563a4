-------------------------- MODULE MCAuthentication ---------------------------
(***************************************************************************)
(* Small instances of Authentication for TLC.  All operations at once have *)
(* too many interleavings; a behaviour here mixes the groups of operations *)
(* of one workload, chosen at the start.  Every group is in some workload. *)
(* In "migration" the database is still to be made or migrated; in all     *)
(* others a migrated one is open.                                          *)
(***************************************************************************)
EXTENDS Authentication, AccountMigration

CONSTANTS p1, p2, m1, m2

CONSTANT Workloads    \* the workloads a run explores

VARIABLE workload     \* the workload of this behaviour

MCLimits == [phone |-> 2, client |-> 2, ip |-> 3]
MCStarts == {<<>>, <<p1>>}

MCInit ==
    /\ workload \in Workloads
    /\ IF workload = "migration" THEN MigrationInit ELSE Migrated(m1)
    /\ StartedFrom(IF workload \in {"registration", "migration"} THEN <<>> ELSE <<p1>>)

In(workloads) == workload \in workloads /\ stores # {} /\ UNCHANGED <<workload, migrationVars>>

\* In "sanctions" one code is requested, when the first account is gone.
Successor == Registered = {} /\ (call # Idle \/ Free(challenges, NoChallenge) = Challenges)

MCNext ==
    \/ In({"registration"}) /\ Codes({"phone_continue"}, {p1})
    \/ In({"credentials"}) /\ Codes({"password_reset", "phone_change"}, {p1, p2})
    \/ In({"erasure"}) /\ Codes({"account_erasure"}, {p1})
    \/ In({"appeals"}) /\ Codes({"phone_appeal"}, {p1})
    \/ In({"sanctions"}) /\ Successor /\ Codes({"phone_continue"}, {p1})
    \/ In({"registration", "credentials", "erasure", "sanctions"}) /\ Answers
    \/ In({"registration"}) /\ CodeFaults
    \/ In({"registration", "erasure"}) /\ CodeLifetimes
    \/ In({"registration", "sanctions"}) /\ Registrations
    \/ In({"credentials"}) /\ Credentials
    \/ In({"erasure", "sanctions"}) /\ Erasures
    \/ In({"limits", "devices", "expiry"}) /\ Logins
    \/ In({"limits", "appeals"}) /\ RateLimits
    \/ In({"devices"}) /\ Logouts
    \/ In({"devices", "expiry"}) /\ Refreshes
    \/ In({"core"}) /\ CoreSessions
    \/ In({"expiry"}) /\ SessionLifetimes
    \/ In({"core", "erasure", "sanctions"}) /\ StatusChanges
    \/ In({"core"}) /\ Attachments
    \/ In({"erasure", "sanctions"}) /\ QualifyingBans
    \/ In({"core", "sanctions"}) /\ AdministrativeBlocks
    \/ workload = "migration" /\ MigrationNext /\ UNCHANGED <<workload, vars>>

MCSpec == MCInit /\ [][MCNext]_<<vars, migrationVars, workload>>
=============================================================================
