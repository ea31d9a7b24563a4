---------------------------- MODULE Authentication ----------------------------
(***************************************************************************)
(* Registration, login and verification by SMS code (auth.py) over the     *)
(* account store.  A request for a code has three transactions' worth of   *)
(* steps: checks read outside any transaction, the transaction that counts *)
(* the request and inserts the challenge, and, after the provider answered,*)
(* the one that activates or fails it.  Everything else may happen between *)
(* them, the process may die between them, and the checks may be stale by  *)
(* the time they are used.  Every other operation is one transaction.      *)
(*                                                                         *)
(* Codes, tokens, grants' secrets and hashes are left out: whoever has     *)
(* received an id may present it, with the right secret or a wrong one.    *)
(* A lifetime that ends is an action; a grant (10 minutes) is issued while *)
(* its challenge (5 minutes) lives, so it always ends after it.            *)
(***************************************************************************)
EXTENDS Accounts

CONSTANTS
    NoUser,        \* the NULL user of a challenge or a grant
    Challenges,    \* ids of challenges: a bound on those that exist at once
    Grants,        \* ids of grants: likewise
    MaxAttempts,   \* wrong answers a challenge takes; 5 in the code
    Clients, Addresses,
    Limits,        \* requests per window by bucket type; 5, 10, 20 in the code
    Starts         \* the databases an instance starts from: the phones of users 1, 2, ...

BucketTypes == {"phone", "client", "ip"}

ASSUME AuthenticationAssumption ==
    /\ NoUser \notin Users
    /\ Challenges \subseteq Nat /\ IsFiniteSet(Challenges)
    /\ Grants \subseteq Nat /\ IsFiniteSet(Grants)
    /\ MaxAttempts \in Nat \ {0}
    /\ Limits \in [BucketTypes -> Nat \ {0}]
    /\ \A start \in Starts : /\ start \in Seq(Phones) /\ DOMAIN start \subseteq Users
                             /\ Len(start) <= MaxOperations
                             /\ \A i, k \in DOMAIN start : start[i] = start[k] => i = k

VARIABLES
    challenges,   \* [Challenges -> row]; NoChallenge where there is none
    grants,       \* [Grants -> row]; NoGrant where there is none
    buckets,      \* the rate limit rows; NoBucket where there is none
    call          \* the request for a code in progress

authVars == <<challenges, grants, buckets, call>>
vars == <<databaseVars, authVars>>

Purposes == {"phone_continue", "password_reset", "phone_change", "account_erasure", "phone_appeal"}
BlockedPhoneMayAsk == {"account_erasure", "phone_appeal"}
Bearers == Users \cup {NoUser}

\* known: the request returned and its caller has the id.  answered is a history: how
\* often the challenge was answered correctly.
ChallengeRows == [phone : Phones, purpose : Purposes, user : Bearers,
                  status : {"pending", "sent", "verified", "failed"},
                  attempts : 0..MaxAttempts, expired : BOOLEAN, known : BOOLEAN, answered : Nat]
NoChallenge == [status |-> "none"]
\* uses is a history: how often the grant was accepted for an operation.
GrantRows == [challenge : Challenges, phone : Phones, purpose : Purposes, user : Bearers,
              consumed : BOOLEAN, expired : BOOLEAN, uses : Nat]
NoGrant == [challenge |-> 0]
\* count saturates one above the limit, beyond which only the length of the cooldown
\* grows.  passed is a history: what the limits let through in this window.
BucketNames == [type : {"phone"}, key : Phones, for : Purposes \cup {"login"}]
          \cup [type : {"client"}, key : Clients, for : Purposes \cup {"login"}]
          \cup [type : {"ip"}, key : Addresses, for : Purposes \cup {"login"}]
BucketRows == [count : Nat, cooling : BOOLEAN, elapsed : BOOLEAN, passed : Nat]
NoBucket == [count |-> 0, cooling |-> FALSE, elapsed |-> FALSE, passed |-> 0]

Idle == [step |-> "idle"]
Calls == [step : {"checked"}, phone : Phones, purpose : Purposes, user : Bearers,
          client : Clients, address : Addresses]
    \cup [step : {"sending"}, challenge : Challenges]
    \cup {Idle}

TypeOK ==
    /\ AccountTypeOK
    /\ challenges \in [Challenges -> ChallengeRows \cup {NoChallenge}]
    /\ grants \in [Grants -> GrantRows \cup {NoGrant}]
    /\ buckets \in [BucketNames -> BucketRows]
    /\ call \in Calls

\* The database some registrations leave behind: user i has registered the phone start[i],
\* is logged in, and the challenges and grants are purged.
StartedFrom(start) ==
    LET registered(u) == u \in DOMAIN start
        owned(p) == \E i \in DOMAIN start : start[i] = p
        op(p) == CHOOSE i \in DOMAIN start : start[i] = p
    IN
    /\ reputations = [p \in Phones |-> IF owned(p) THEN NewRow(1) ELSE NoRow]
    /\ ledger = [p \in Phones |-> IF ~owned(p) THEN <<>> ELSE
            << Event(1, 1, "status", "generation_started", op(p), 0),
               Event(1, 2, "sanction", "generation_started", op(p), 0) >>]
    /\ operations = [i \in DOMAIN start |->
            [phone |-> start[i], generation |-> 1, sanctions |-> 1, statuses |-> 1]]
    /\ users = [u \in Users |-> IF registered(u) THEN "active" ELSE "absent"]
    /\ identities = {[user |-> i, subject |-> start[i], status |-> "active"] : i \in DOMAIN start}
    /\ passwords = DOMAIN start
    /\ families = [u \in Users |-> IF registered(u) THEN LoggedIn(<<>>, "live") ELSE <<>>]
    /\ bans = {}
    /\ challenges = [c \in Challenges |-> NoChallenge]
    /\ grants = [g \in Grants |-> NoGrant]
    /\ buckets = [b \in BucketNames |-> NoBucket]
    /\ call = Idle

Init == \E start \in Starts : StartedFrom(start)

Free(rows, none) == {x \in DOMAIN rows : rows[x] = none}
GrantsOf(c) == {g \in Grants : grants[g] # NoGrant /\ grants[g].challenge = c}

-----------------------------------------------------------------------------
(* Rate limits.                                                            *)

BucketsFor(p, client, address, for) ==
    { [type |-> "phone", key |-> p, for |-> for],
      [type |-> "client", key |-> client, for |-> for],
      [type |-> "ip", key |-> address, for |-> for] }

Fresh(b) == buckets[b].count = 0 \/ buckets[b].elapsed

\* Mutant: the attempt that exceeds the limit is still let through.
RefusesLate(b) == ~Fresh(b) /\ (buckets[b].cooling \/ buckets[b].count > Limits[b.type])

\* _consume_rate_limit_tx returned a number of seconds to wait.
Refuses(b) == ~Fresh(b) /\ (buckets[b].cooling \/ buckets[b].count >= Limits[b.type])

\* Every bucket is charged, also when another one refuses; a cooling one is not.
Charged(bs, passes) ==
    LET pass == IF passes THEN 1 ELSE 0 IN
    [b \in BucketNames |->
        IF b \notin bs THEN buckets[b]
        ELSE IF Fresh(b)
        THEN [count |-> 1, cooling |-> FALSE, elapsed |-> FALSE, passed |-> pass]
        ELSE IF buckets[b].cooling THEN buckets[b]
        ELSE [count |-> Min({buckets[b].count + 1, Limits[b.type] + 1}),
              cooling |-> buckets[b].count + 1 > Limits[b.type],
              elapsed |-> FALSE, passed |-> buckets[b].passed + pass]]

\* _check_rate_limit_tx: the login looks first, and is charged only when it fails.
LoginRefused(b) ==
    \/ buckets[b].cooling
    \/ ~Fresh(b) /\ buckets[b].count >= Limits[b.type]

Cleared(bs) == [b \in BucketNames |-> IF b \in bs THEN NoBucket ELSE buckets[b]]

CooldownEnds(b) ==
    /\ buckets[b].cooling
    /\ buckets' = [buckets EXCEPT ![b].cooling = FALSE]
    /\ UNCHANGED <<databaseVars, challenges, grants, call>>

WindowEnds(b) ==
    /\ buckets[b].count > 0 /\ ~buckets[b].elapsed
    /\ buckets' = [buckets EXCEPT ![b].elapsed = TRUE]
    /\ UNCHANGED <<databaseVars, challenges, grants, call>>

-----------------------------------------------------------------------------
(* Requesting a code.                                                      *)

\* What each request reads before its first transaction.  The phone change wants a
\* logged-in user and a free phone, the erasure a user suspended for a ban.
HasAccess(u) ==
    \E i \in DOMAIN families[u] : \E j \in DOMAIN families[u][i].sessions :
        families[u][i].sessions[j].access = "live" /\ SessionIsActive(u, i, j)

MayChangePhone(p, u) == u \in Registered /\ HasAccess(u) /\ Holders(p) = {}
MayErase(p, u) == u \in Holders(p) /\ users[u] = "suspended" /\ EffectiveBan(u)

MayRequest(p, purpose, u) ==
    /\ purpose \notin BlockedPhoneMayAsk => Normal(p)
    /\ CASE purpose = "phone_change" -> MayChangePhone(p, u)
         [] purpose = "account_erasure" -> MayErase(p, u)
         [] OTHER -> u = NoUser

RequestPhoneCode(p, purpose, u, client, address) ==
    /\ call = Idle
    /\ MayRequest(p, purpose, u)
    /\ call' = [step |-> "checked", phone |-> p, purpose |-> purpose, user |-> u,
                client |-> client, address |-> address]
    /\ UNCHANGED <<databaseVars, challenges, grants, buckets>>

NewChallenge(r) ==
    [phone |-> r.phone, purpose |-> r.purpose, user |-> r.user, status |-> "pending",
     attempts |-> MaxAttempts, expired |-> FALSE, known |-> FALSE, answered |-> 0]

\* The transaction: a user deleted meanwhile refuses it.
InsertChallenge ==
    /\ call.step = "checked"
    /\ LET bs == BucketsFor(call.phone, call.client, call.address, call.purpose)
           refused == \E b \in bs : Refuses(b)
           c == Min(Free(challenges, NoChallenge))
       IN
       \/ /\ call.user # NoUser /\ call.user \notin Registered
          /\ call' = Idle
          /\ UNCHANGED <<challenges, buckets>>
       \/ /\ call.user = NoUser \/ call.user \in Registered
          /\ refused
          /\ buckets' = Charged(bs, FALSE)
          /\ call' = Idle
          /\ UNCHANGED challenges
       \/ /\ call.user = NoUser \/ call.user \in Registered
          /\ ~refused
          /\ Free(challenges, NoChallenge) # {}
          /\ buckets' = Charged(bs, TRUE)
          /\ challenges' = [challenges EXCEPT ![c] = NewChallenge(call)]
          /\ call' = [step |-> "sending", challenge |-> c]
    /\ UNCHANGED <<databaseVars, grants>>

\* The provider took the code.  A challenge that is not pending any more (it was purged)
\* cannot be activated, and its caller gets an error instead of the id.
SendSucceeds ==
    /\ call.step = "sending"
    /\ LET c == call.challenge IN
       challenges' = IF challenges[c].status # "pending" THEN challenges
                     ELSE [challenges EXCEPT ![c].status = "sent", ![c].known = TRUE]
    /\ call' = Idle
    /\ UNCHANGED <<databaseVars, grants, buckets>>

SendFails ==
    /\ call.step = "sending"
    /\ LET c == call.challenge IN
       challenges' = IF challenges[c] = NoChallenge THEN challenges
                     ELSE [challenges EXCEPT ![c].status = "failed"]
    /\ call' = Idle
    /\ UNCHANGED <<databaseVars, grants, buckets>>

\* The process dies with a request in progress.
Crash ==
    /\ call # Idle
    /\ call' = Idle
    /\ UNCHANGED <<databaseVars, challenges, grants, buckets>>

-----------------------------------------------------------------------------
(* Answering a challenge.  An expired one is refused; the status "expired" *)
(* that the code writes there is rolled back by the exception it raises.   *)

Answerable(c) == challenges[c] # NoChallenge /\ challenges[c].known /\ ~challenges[c].expired

\* Mutant: an answer to a challenge that is not open costs no attempt.
FailedFree(row) ==
    [row EXCEPT !.attempts = IF row.status = "sent" THEN @ - 1 ELSE @,
                !.status = IF row.status = "sent" /\ row.attempts = 1 THEN "failed" ELSE "sent"]

\* Mutant: the remaining attempts have no floor.
FailedBelowZero(row) ==
    [row EXCEPT !.attempts = @ - 1, !.status = IF row.attempts = 1 THEN "failed" ELSE "sent"]

\* A wrong answer reopens the challenge, whatever its status was, while attempts last.
FailedAttempt(row) ==
    LET left == Max({0, row.attempts - 1}) IN
    [row EXCEPT !.attempts = left, !.status = IF left = 0 THEN "failed" ELSE "sent"]

\* A wrong code, phone or purpose, or any answer to a challenge that is not open.
VerifyFails(c) ==
    /\ Answerable(c)
    /\ challenges' = [challenges EXCEPT ![c] = FailedAttempt(@)]
    /\ UNCHANGED <<databaseVars, grants, buckets, call>>

Verified(c) == [challenges EXCEPT ![c].status = "verified", ![c].answered = @ + 1]

CanVerify(c) ==
    /\ Answerable(c) /\ challenges[c].status = "sent"
    /\ challenges[c].purpose \notin BlockedPhoneMayAsk => Normal(challenges[c].phone)

\* The phone of an account: phone_continue logs in.
VerifyLogsIn(c) ==
    /\ CanVerify(c) /\ challenges[c].purpose = "phone_continue"
    /\ \E u \in Holders(challenges[c].phone) :
         /\ Effective(u) /\ CanLogIn(u)
         /\ families' = [families EXCEPT ![u] = LoggedIn(@, "live")]
    /\ challenges' = Verified(c)
    /\ UNCHANGED <<users, identities, passwords, bans, ledgerVars, grants, buckets, call>>

NewGrant(c) ==
    [challenge |-> c, phone |-> challenges[c].phone, purpose |-> challenges[c].purpose,
     user |-> challenges[c].user, consumed |-> FALSE, expired |-> FALSE, uses |-> 0]

\* Otherwise a grant is issued, for the user the challenge is bound to.
VerifyGrants(c) ==
    LET free == Free(grants, NoGrant) IN
    /\ CanVerify(c) /\ free # {}
    /\ challenges[c].purpose = "phone_continue" => Holders(challenges[c].phone) = {}
    /\ challenges' = Verified(c)
    /\ grants' = [grants EXCEPT ![Min(free)] = NewGrant(c)]
    /\ UNCHANGED <<databaseVars, buckets, call>>

-----------------------------------------------------------------------------
(* Grants.                                                                 *)

Usable(g, purpose) ==
    grants[g] # NoGrant /\ grants[g].purpose = purpose /\ ~grants[g].consumed /\ ~grants[g].expired

\* Mutant: the operation is carried out and the grant left as it is.
AcceptedOnly(g) == [grants EXCEPT ![g].uses = @ + 1]

Consumed(g) == [grants EXCEPT ![g].consumed = TRUE, ![g].uses = @ + 1]

\* Mutant: the phone is not looked up again inside the transaction.
FreeWhenVerified(p) == Normal(p)

FreePhone(p) == Holders(p) = {} /\ Normal(p)

CompleteRegistration(g) ==
    LET p == grants[g].phone
        absent == {u \in Users : users[u] = "absent"}
        u == Min(absent)
    IN
    /\ Usable(g, "phone_continue") /\ absent # {}
    /\ FreePhone(p)
    /\ EnsurePhone(p)
    /\ users' = [users EXCEPT ![u] = "active"]
    /\ identities' = identities \cup {[user |-> u, subject |-> p, status |-> "active"]}
    /\ passwords' = passwords \cup {u}
    /\ families' = [families EXCEPT ![u] = LoggedIn(@, "live")]
    /\ grants' = Consumed(g)
    /\ UNCHANGED <<bans, challenges, buckets, call>>

\* Deletes the grant and its challenge; a second grant of the challenge makes the
\* database refuse, and the whole cancellation is rolled back.
CancelRegistration(g) ==
    /\ grants[g] # NoGrant /\ ~grants[g].consumed
    /\ GrantsOf(grants[g].challenge) = {g}
    /\ grants' = [grants EXCEPT ![g] = NoGrant]
    /\ challenges' = [challenges EXCEPT ![grants[g].challenge] = NoChallenge]
    /\ UNCHANGED <<databaseVars, buckets, call>>

ResetPassword(g) ==
    /\ Usable(g, "password_reset")
    /\ \E u \in Holders(grants[g].phone) :
         /\ Effective(u)
         /\ families' = [families EXCEPT ![u] = RevokedAll(@)]
    /\ grants' = Consumed(g)
    /\ UNCHANGED <<users, identities, passwords, bans, ledgerVars, challenges, buckets, call>>

CompletePhoneChange(u, g) ==
    LET p == grants[g].phone
        old == ActivePhone(u)
    IN
    /\ Usable(g, "phone_change") /\ grants[g].user = u
    /\ HasAccess(u) /\ Effective(u) /\ CanLogIn(u)
    /\ FreePhone(p)
    /\ EnsurePhone(p)
    /\ identities' = (identities \ {[user |-> u, subject |-> old, status |-> "active"]})
            \cup {[user |-> u, subject |-> old, status |-> "detached"],
                  [user |-> u, subject |-> p, status |-> "active"]}
    /\ families' = [families EXCEPT ![u] = LoggedIn(RevokedAll(@), "live")]
    /\ grants' = Consumed(g)
    /\ UNCHANGED <<users, passwords, bans, challenges, buckets, call>>

\* ON DELETE SET NULL.
ForgetUser(rows, none, u) ==
    [x \in DOMAIN rows |-> IF rows[x] # none /\ rows[x].user = u
                           THEN [rows[x] EXCEPT !.user = NoUser] ELSE rows[x]]

EraseAccount(u) ==
    /\ users[u] = "active"
    /\ DeleteOwnedRows(u)
    /\ challenges' = ForgetUser(challenges, NoChallenge, u)
    /\ grants' = ForgetUser(grants, NoGrant, u)
    /\ UNCHANGED <<ledgerVars, buckets, call>>

EraseQualifyingBannedAccount(g) ==
    LET u == grants[g].user IN
    /\ Usable(g, "account_erasure") /\ u # NoUser
    /\ users[u] = "suspended" /\ EffectiveBan(u)
    /\ ActivePhone(u) = grants[g].phone
    /\ DeleteOwnedRows(u)
    /\ challenges' = ForgetUser(challenges, NoChallenge, u)
    /\ grants' = ForgetUser(Consumed(g), NoGrant, u)
    /\ UNCHANGED <<ledgerVars, buckets, call>>

-----------------------------------------------------------------------------
(* Login and sessions.                                                     *)

\* The check of the phone before the transaction may be stale; the one that counts is
\* repeated inside it.  Success clears the buckets.
LoginWithPassword(p, client, address) ==
    LET bs == BucketsFor(p, client, address, "login") IN
    /\ \A b \in bs : ~LoginRefused(b)
    /\ \/ /\ \E u \in Holders(p) :
               /\ Effective(u) /\ CanLogIn(u)
               /\ families' = [families EXCEPT ![u] = LoggedIn(@, "live")]
          /\ buckets' = Cleared(bs)
       \/ /\ buckets' = Charged(bs, TRUE)
          /\ UNCHANGED families
    /\ UNCHANGED <<users, identities, passwords, bans, ledgerVars, challenges, grants, call>>

\* Rotation, or the answer to a refresh token that was replaced before.
RefreshSession(u, i, j) ==
    /\ u \in Registered
    /\ \/ /\ SessionIsActive(u, i, j) /\ CanRotate(u, i)
          /\ families' = [families EXCEPT ![u][i] = Rotated(@, j, "live")]
       \/ /\ families[u][i].sessions[j].replaced
          /\ families' = [families EXCEPT ![u][i] = Reused(@)]
    /\ UNCHANGED <<users, identities, passwords, bans, ledgerVars, authVars>>

ChangePassword(u) ==
    /\ HasAccess(u) /\ Effective(u) /\ CanLogIn(u)
    /\ families' = [families EXCEPT ![u] = LoggedIn(RevokedAll(@), "live")]
    /\ UNCHANGED <<users, identities, passwords, bans, ledgerVars, authVars>>

LogoutCurrentSession(u, i, j) ==
    /\ families[u][i].sessions[j].access = "live" /\ SessionIsActive(u, i, j)
    /\ families' = [families EXCEPT ![u][i].sessions[j] = RevokedSession(@)]
    /\ UNCHANGED <<users, identities, passwords, bans, ledgerVars, authVars>>

LogoutAllSessions(u) ==
    /\ HasAccess(u)
    /\ families' = [families EXCEPT ![u] = RevokedAll(@)]
    /\ UNCHANGED <<users, identities, passwords, bans, ledgerVars, authVars>>

-----------------------------------------------------------------------------
(* Lifetimes and their cleanup.                                            *)

ChallengeExpires(c) ==
    /\ challenges[c] # NoChallenge /\ ~challenges[c].expired
    /\ challenges' = [challenges EXCEPT ![c].expired = TRUE]
    /\ UNCHANGED <<databaseVars, grants, buckets, call>>

GrantExpires(g) ==
    /\ grants[g] # NoGrant /\ ~grants[g].expired
    /\ challenges[grants[g].challenge].expired
    /\ grants' = [grants EXCEPT ![g].expired = TRUE]
    /\ UNCHANGED <<databaseVars, challenges, buckets, call>>

ExpiredChallenges == {c \in Challenges : challenges[c] # NoChallenge /\ challenges[c].expired}
ExpiredGrants == {g \in Grants : grants[g] # NoGrant /\ grants[g].expired}

\* Expired grants first, then expired challenges; a challenge that a grant still refers
\* to makes the database refuse (ON DELETE RESTRICT), and the purge is rolled back.
PurgeExpiredAuthState ==
    /\ ExpiredChallenges \cup ExpiredGrants # {}
    /\ \A c \in ExpiredChallenges : GrantsOf(c) \subseteq ExpiredGrants
    /\ grants' = [g \in Grants |-> IF g \in ExpiredGrants THEN NoGrant ELSE grants[g]]
    /\ challenges' = [c \in Challenges |-> IF c \in ExpiredChallenges THEN NoChallenge ELSE challenges[c]]
    /\ UNCHANGED <<databaseVars, buckets, call>>

-----------------------------------------------------------------------------
(* The specification, by group of operations.                              *)

Codes(purposes, phones) ==
    \/ \E p \in phones, purpose \in purposes, u \in Bearers, c \in Clients, a \in Addresses :
         RequestPhoneCode(p, purpose, u, c, a)
    \/ InsertChallenge \/ SendSucceeds

Answers ==
    \E c \in Challenges : VerifyLogsIn(c) \/ VerifyGrants(c)

CodeFaults ==
    \/ SendFails \/ Crash
    \/ \E c \in Challenges : VerifyFails(c)

CodeLifetimes ==
    \/ \E c \in Challenges : ChallengeExpires(c)
    \/ \E g \in Grants : GrantExpires(g)
    \/ PurgeExpiredAuthState

Registrations ==
    \E g \in Grants : CompleteRegistration(g) \/ CancelRegistration(g)

Credentials ==
    \/ \E g \in Grants : ResetPassword(g) \/ \E u \in Users : CompletePhoneChange(u, g)
    \/ \E u \in Users : ChangePassword(u)

Erasures ==
    \/ \E u \in Users : EraseAccount(u)
    \/ \E g \in Grants : EraseQualifyingBannedAccount(g)

Logins ==
    \E p \in Phones, c \in Clients, a \in Addresses : LoginWithPassword(p, c, a)

RateLimits ==
    \E b \in BucketNames : CooldownEnds(b) \/ WindowEnds(b)

Logouts ==
    \E u \in Registered :
        \/ LogoutAllSessions(u)
        \/ \E i \in DOMAIN families[u] : \E j \in DOMAIN families[u][i].sessions :
              LogoutCurrentSession(u, i, j)

Refreshes ==
    \E u \in Registered : \E i \in DOMAIN families[u] : \E j \in DOMAIN families[u][i].sessions :
        RefreshSession(u, i, j)

\* The operations of the account core.
CoreSessions ==
    /\ \E u \in Registered :
         \/ CreateSession(u) \/ RevokeAllSessions(u)
         \/ \E i \in DOMAIN families[u] :
              \/ RevokeSessionFamily(u, i)
              \/ \E j \in DOMAIN families[u][i].sessions :
                    RevokeSession(u, i, j) \/ RotateSession(u, i, j)
    /\ UNCHANGED authVars

SessionLifetimes ==
    /\ \E u \in Registered : \E i \in DOMAIN families[u] :
         \/ FamilyAges(u, i)
         \/ \E j \in DOMAIN families[u][i].sessions : AccessExpires(u, i, j) \/ SessionExpires(u, i, j)
    /\ UNCHANGED authVars

StatusChanges ==
    /\ \E u \in Users : \E status \in {"active", "suspended"} : SetUserStatus(u, status)
    /\ UNCHANGED authVars

Attachments ==
    /\ \E u \in Users : \E subject \in Subjects : AttachIdentity(u, subject)
    /\ UNCHANGED authVars

QualifyingBans ==
    /\ \E op \in 1..MaxOperations :
         \/ \E u \in Users : ApplyQualifyingBan(op, u)
         \/ \E p \in Phones :
              \/ ResetForReassignment(op, p)
              \/ \E e \in DOMAIN ledger[p] : OverturnQualifyingBan(op, p, e)
    /\ UNCHANGED authVars

AdministrativeBlocks ==
    /\ \E op \in 1..MaxOperations : \E p \in Phones :
         AdministrativeBlockPhone(op, p) \/ AdministrativeUnblockPhone(op, p)
    /\ UNCHANGED authVars

Next ==
    \/ Codes(Purposes, Phones) \/ Answers \/ CodeFaults \/ CodeLifetimes \/ Registrations \/ Credentials \/ Erasures
    \/ Logins \/ RateLimits \/ Logouts \/ Refreshes \/ CoreSessions \/ SessionLifetimes
    \/ StatusChanges \/ Attachments \/ QualifyingBans \/ AdministrativeBlocks

Spec == Init /\ [][Next]_vars

-----------------------------------------------------------------------------
(* Properties.                                                             *)

\* However often a challenge is reopened by wrong, repeated or late answers, its
\* answers are bounded: each further correct one was paid for with a lost attempt, and
\* with the last attempt the challenge is closed for good (verify_phone_code).
AttemptBudget ==
    \A c \in Challenges : challenges[c] # NoChallenge =>
        /\ challenges[c].answered <= 1 + MaxAttempts - challenges[c].attempts
        /\ challenges[c].attempts = 0 => challenges[c].status = "failed"
        /\ Cardinality(GrantsOf(c)) <= challenges[c].answered

\* A grant is accepted for one operation at most, whatever is retried, and belongs to
\* the challenge, phone, purpose and user that were verified: no slip of the cleanup
\* or of an erasure leaves a grant with a missing challenge or a deleted user.
GrantSpentOnce ==
    \A g \in Grants : grants[g] # NoGrant =>
        LET row == grants[g]
            c == challenges[row.challenge]
        IN  /\ row.uses <= 1 /\ (row.uses = 1 <=> row.consumed)
            /\ c # NoChallenge
            /\ c.phone = row.phone /\ c.purpose = row.purpose /\ c.user = row.user
            /\ row.user = NoUser \/ row.user \in Registered

\* In one window a bucket lets through no more codes, or failed logins, than its limit,
\* also when cooldowns end within the window or another bucket refuses.
LimitHolds == \A b \in BucketNames : buckets[b].passed <= Limits[b.type]

\* The cleanup of expired codes and grants is never refused by the database: no expired
\* challenge has a grant that is still alive (purge_expired_auth_state).
PurgeNeverRefused == \A c \in ExpiredChallenges : GrantsOf(c) \subseteq ExpiredGrants

=============================================================================
