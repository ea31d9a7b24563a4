------------------------------- MODULE Accounts -------------------------------
(***************************************************************************)
(* Users, their identities, passwords and sessions (account.py, and the    *)
(* sanctions of phone_reputation.py that suspend users and end sessions).  *)
(*                                                                         *)
(* Every action is one BEGIN IMMEDIATE transaction of AccountStore: it     *)
(* commits as a whole or, on any exception, is rolled back and changes     *)
(* nothing.  Actions are therefore written for their success; a refused    *)
(* request is no step.  Time is not a clock: a deadline that passes is an  *)
(* action of its own, ordered with the others only where the lifetimes in  *)
(* the code order them.  Audit events are left out.                        *)
(***************************************************************************)
EXTENDS PhoneLedger

CONSTANTS
    Users,          \* user ids, numbered in the order they are given out
    Subjects,       \* subjects of identity providers other than the phone
    MaxFamilies,    \* active session families of a user; 5 in the code
    MaxLogins,      \* bound: families a user ever has
    MaxRotations    \* bound: sessions of one family

ASSUME AccountAssumption ==
    /\ Users \subseteq Nat /\ IsFiniteSet(Users)
    /\ Phones \cap Subjects = {}
    /\ MaxFamilies \in Nat \ {0} /\ MaxLogins \in Nat /\ MaxRotations \in Nat \ {0}

VARIABLES
    users,        \* [Users -> status]; "absent" before registration, "erased" after deletion
    identities,   \* rows [user, subject, status] of auth_identities
    passwords,    \* users that have a password credential
    families,     \* [Users -> Seq(family)] in the order of creation
    bans          \* rows [user, phone, event, overturned] of account_qualifying_bans

accountVars == <<users, identities, passwords, families, bans>>
databaseVars == <<accountVars, ledgerVars>>

\* A family's sessions are in the order of rotation: a replaced session was replaced by
\* the next one.  access is the session's access token.  replayed is a history: a
\* replaced refresh token of this family was presented again.
Sessions == [revoked : BOOLEAN, replaced : BOOLEAN, expired : BOOLEAN,
             access : {"none", "live", "expired", "revoked"}]
Families == [revoked : BOOLEAN, aged : BOOLEAN, replayed : BOOLEAN, sessions : Seq(Sessions)]
Identities == [user : Users, subject : Phones \cup Subjects, status : {"active", "detached"}]
Bans == [user : Users, phone : Phones, event : Nat, overturned : BOOLEAN]

AccountTypeOK ==
    /\ LedgerTypeOK
    /\ users \in [Users -> {"absent", "active", "suspended", "erased"}]
    /\ identities \subseteq Identities
    /\ passwords \subseteq Users
    /\ families \in [Users -> Seq(Families)]
    /\ bans \subseteq Bans

Registered == {u \in Users : users[u] \in {"active", "suspended"}}
ActivePhones(u) ==
    {i.subject : i \in {j \in identities : j.user = u /\ j.status = "active" /\ j.subject \in Phones}}
ActivePhone(u) == CHOOSE p \in ActivePhones(u) : TRUE
Holders(subject) ==
    {i.user : i \in {j \in identities : j.subject = subject /\ j.status = "active"}}
Normal(p) == reputations[p].status # "blocked"      \* require_normal: an unknown phone is normal
PhoneNormal(u) ==
    \E p \in ActivePhones(u) : reputations[p].status = "normal"
EffectiveBan(u) == \E b \in bans : b.user = u /\ ~b.overturned

\* A user who may authenticate (_require_effective_user_tx).
Effective(u) == users[u] = "active" /\ u \in passwords /\ PhoneNormal(u)

-----------------------------------------------------------------------------
(* Sessions.                                                               *)

LiveLeaf(s) == ~s.revoked /\ ~s.replaced
ActiveSession(f, s) == LiveLeaf(s) /\ ~s.expired /\ ~f.revoked /\ ~f.aged

\* The one decision on the validity of a session.
SessionIsActive(u, i, j) ==
    /\ ActiveSession(families[u][i], families[u][i].sessions[j])
    /\ users[u] = "active" /\ PhoneNormal(u)

RevokedToken(s) == [s EXCEPT !.access = IF @ = "none" THEN "none" ELSE "revoked"]
RevokedSession(s) == [RevokedToken(s) EXCEPT !.revoked = TRUE]
RevokedFamily(f) ==
    [f EXCEPT !.revoked = TRUE, !.sessions = [j \in DOMAIN @ |-> RevokedSession(@[j])]]
RevokedAll(fs) == [i \in DOMAIN fs |-> RevokedFamily(fs[i])]

ActiveFamilies(fs) ==
    {i \in DOMAIN fs : \E j \in DOMAIN fs[i].sessions : ActiveSession(fs[i], fs[i].sessions[j])}

\* Mutant: eviction starts one family late.
EvictedLate(fs) ==
    LET active == ActiveFamilies(fs) IN
    [i \in DOMAIN fs |->
        IF i \in active /\ Cardinality({k \in active : k >= i}) > MaxFamilies
        THEN RevokedFamily(fs[i]) ELSE fs[i]]

\* The oldest active families go until fewer than MaxFamilies are left.
Evicted(fs) ==
    LET active == ActiveFamilies(fs) IN
    [i \in DOMAIN fs |->
        IF i \in active /\ Cardinality({k \in active : k >= i}) >= MaxFamilies
        THEN RevokedFamily(fs[i]) ELSE fs[i]]

NewSession(access) == [revoked |-> FALSE, replaced |-> FALSE, expired |-> FALSE, access |-> access]
LoggedIn(fs, access) ==
    Append(Evicted(fs), [revoked |-> FALSE, aged |-> FALSE, replayed |-> FALSE,
                         sessions |-> <<NewSession(access)>>])

Rotated(f, j, access) ==
    [f EXCEPT !.sessions =
        Append([f.sessions EXCEPT ![j] = [RevokedSession(f.sessions[j]) EXCEPT !.replaced = TRUE]],
               NewSession(access))]

\* Mutant: only the session that was presented is ended.
ReusedSessionOnly(f) == [f EXCEPT !.replayed = TRUE]

\* A replaced refresh token came back: the whole family is ended.
Reused(f) == [RevokedFamily(f) EXCEPT !.replayed = TRUE]

CanLogIn(u) == Len(families[u]) < MaxLogins                        \* bound
CanRotate(u, i) == Len(families[u][i].sessions) < MaxRotations     \* bound

SetUserStatus(u, status) ==
    /\ u \in Registered /\ users[u] # status
    /\ users' = [users EXCEPT ![u] = status]
    /\ families' = IF status = "suspended" THEN [families EXCEPT ![u] = RevokedAll(@)] ELSE families
    /\ UNCHANGED <<identities, passwords, bans, ledgerVars>>

AttachIdentity(u, subject) ==
    /\ Effective(u)
    /\ Holders(subject) = {}
    /\ identities' = identities \cup {[user |-> u, subject |-> subject, status |-> "active"]}
    /\ UNCHANGED <<users, passwords, families, bans, ledgerVars>>

\* The core requires an active user only, not a normal phone.
CreateSession(u) ==
    /\ users[u] = "active" /\ CanLogIn(u)
    /\ families' = [families EXCEPT ![u] = LoggedIn(@, "none")]
    /\ UNCHANGED <<users, identities, passwords, bans, ledgerVars>>

RotateSession(u, i, j) ==
    /\ SessionIsActive(u, i, j) /\ CanRotate(u, i)
    /\ families' = [families EXCEPT ![u][i] = Rotated(@, j, "none")]
    /\ UNCHANGED <<users, identities, passwords, bans, ledgerVars>>

\* The session alone: its access token stays, useless, until it expires.
RevokeSession(u, i, j) ==
    /\ ~families[u][i].sessions[j].revoked
    /\ families' = [families EXCEPT ![u][i].sessions[j].revoked = TRUE]
    /\ UNCHANGED <<users, identities, passwords, bans, ledgerVars>>

RevokeSessionFamily(u, i) ==
    /\ families' = [families EXCEPT ![u][i] = RevokedFamily(@)]
    /\ UNCHANGED <<users, identities, passwords, bans, ledgerVars>>

RevokeAllSessions(u) ==
    /\ u \in Registered
    /\ families' = [families EXCEPT ![u] = RevokedAll(@)]
    /\ UNCHANGED <<users, identities, passwords, bans, ledgerVars>>

\* Every table the account owns; the ledger of its phone is not among them.
DeleteOwnedRows(u) ==
    /\ users' = [users EXCEPT ![u] = "erased"]
    /\ identities' = {i \in identities : i.user # u}
    /\ passwords' = passwords \ {u}
    /\ families' = [families EXCEPT ![u] = <<>>]
    /\ bans' = {b \in bans : b.user # u}

-----------------------------------------------------------------------------
(* Deadlines: 15 minutes for an access token, 30 days for a session, 180   *)
(* days for a family.  Of dead rows they decide nothing.                   *)

AccessExpires(u, i, j) ==
    /\ families[u][i].sessions[j].access = "live"
    /\ families' = [families EXCEPT ![u][i].sessions[j].access = "expired"]
    /\ UNCHANGED <<users, identities, passwords, bans, ledgerVars>>

SessionExpires(u, i, j) ==
    LET s == families[u][i].sessions[j] IN
    /\ LiveLeaf(s) /\ ~s.expired /\ s.access # "live"
    /\ families' = [families EXCEPT ![u][i].sessions[j].expired = TRUE]
    /\ UNCHANGED <<users, identities, passwords, bans, ledgerVars>>

FamilyAges(u, i) ==
    /\ ~families[u][i].revoked /\ ~families[u][i].aged
    /\ families' = [families EXCEPT ![u][i].aged = TRUE]
    /\ UNCHANGED <<users, identities, passwords, bans, ledgerVars>>

-----------------------------------------------------------------------------
(* Sanctions.                                                              *)

RevokedHolders(p) ==
    [u \in Users |-> IF u \in Holders(p) THEN RevokedAll(families[u]) ELSE families[u]]

\* Mutant: a phone is blocked and its sessions are left to the next check.
BlockWithoutRevoking(op, p) ==
    /\ NewOperation(op) /\ reputations[p] # NoRow
    /\ BlockPhone(op, p)
    /\ UNCHANGED accountVars

AdministrativeBlockPhone(op, p) ==
    /\ NewOperation(op) /\ reputations[p] # NoRow
    /\ BlockPhone(op, p)
    /\ families' = IF reputations[p].status = "blocked" THEN families ELSE RevokedHolders(p)
    /\ UNCHANGED <<users, identities, passwords, bans>>

AdministrativeUnblockPhone(op, p) ==
    /\ NewOperation(op) /\ reputations[p] # NoRow
    /\ UnblockPhone(op, p)
    /\ UNCHANGED accountVars

\* Mutant: an account's earlier ban does not stop a second one.
BanAgain(op, u) ==
    /\ NewOperation(op) /\ ActivePhones(u) # {}
    /\ BanPhone(op, ActivePhone(u))
    /\ bans' = bans \cup {[user |-> u, phone |-> ActivePhone(u),
                           event |-> Len(ledger[ActivePhone(u)]) + 1, overturned |-> FALSE]}
    /\ users' = [users EXCEPT ![u] = "suspended"]
    /\ families' = [families EXCEPT ![u] = RevokedAll(@)]
    /\ UNCHANGED <<identities, passwords>>

ApplyQualifyingBan(op, u) ==
    LET p == ActivePhone(u) IN
    /\ NewOperation(op)
    /\ ActivePhones(u) # {} /\ reputations[p] # NoRow
    /\ ~EffectiveBan(u)
    /\ BanPhone(op, p)
    /\ bans' = bans \cup {[user |-> u, phone |-> p, event |-> Len(ledger[p]) + 1,
                           overturned |-> FALSE]}
    /\ users' = [users EXCEPT ![u] = "suspended"]
    /\ families' = [families EXCEPT ![u] = RevokedAll(@)]
    /\ UNCHANGED <<identities, passwords>>

\* The user stays suspended; the bridge row may be gone with its account.
OverturnQualifyingBan(op, p, e) ==
    /\ NewOperation(op) /\ IsBan(p, e)
    /\ OverturnBan(op, p, e)
    /\ bans' = {IF b.phone = p /\ b.event = e THEN [b EXCEPT !.overturned = TRUE] ELSE b : b \in bans}
    /\ UNCHANGED <<users, identities, passwords, families>>

ResetForReassignment(op, p) ==
    /\ NewOperation(op) /\ reputations[p] # NoRow
    /\ Holders(p) = {}
    /\ ReassignPhone(op, p)
    /\ UNCHANGED accountVars

-----------------------------------------------------------------------------
(* Properties.                                                             *)

\* The invariant the store checks when it opens (validate_account_invariants).
ValidateAccountInvariants ==
    \A u \in Registered :
        /\ Cardinality({i \in identities : i.user = u /\ i.status = "active" /\ i.subject \in Phones}) = 1
        /\ reputations[ActivePhone(u)] # NoRow
        /\ u \in passwords

\* Registration, phone change and erasure, in any order and from several requests,
\* leave complete accounts: each user has one phone with a reputation and a password,
\* each phone one user, and nothing of an erased account is left.
CompleteAccounts ==
    /\ ValidateAccountInvariants
    /\ \A x \in Phones \cup Subjects : Cardinality(Holders(x)) <= 1
    /\ \A u \in Users \ Registered :
         /\ u \notin passwords /\ families[u] = <<>>
         /\ \A i \in identities : i.user # u
         /\ \A b \in bans : b.user # u

\* A user never has more than MaxFamilies active families, however logins, rotations,
\* logouts and expiries mix; the oldest is evicted by the login that would exceed it.
FamilyLimit == \A u \in Users : Cardinality(ActiveFamilies(families[u])) <= MaxFamilies

\* A family is one device: at most one of its sessions is live, and none ever again
\* once a replaced refresh token was presented (refresh_session).
FamilyIsOneDevice ==
    \A u \in Users : \A i \in DOMAIN families[u] :
        LET f == families[u][i]
            live == {j \in DOMAIN f.sessions : LiveLeaf(f.sessions[j])}
        IN  Cardinality(live) <= 1 /\ (f.replayed => live = {})

\* The bans the accounts carry agree with the ledger of their phone, also after an
\* overturn, a reassignment or a new phone: each names a ban event, is overturned
\* exactly if the ledger says so, and a user carries at most one that is not.
BansMatchLedger ==
    /\ \A b \in bans : IsBan(b.phone, b.event) /\ (b.overturned <=> Overturned(b.phone, b.event))
    /\ \A b, c \in bans : b.user = c.user /\ ~b.overturned /\ ~c.overturned => b = c

\* A step that suspends a user, blocks the user's phone or gives the user another
\* phone ends every session the user had: no later unblock or activation revives one.
\* What was revoked stays revoked.
Barred(u) == users[u] = "suspended" \/ ~PhoneNormal(u)
NoSessionOutlivesItsBasis ==
    [][\A u \in Registered : u \in Registered' => \A i \in DOMAIN families[u] :
          /\ families[u][i].revoked => families'[u][i].revoked
          /\ (Barred(u)' /\ ~Barred(u)) \/ ActivePhones(u)' # ActivePhones(u)
               => families'[u][i].revoked]_databaseVars

=============================================================================
