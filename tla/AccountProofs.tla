---------------------------- MODULE AccountProofs ----------------------------
(***************************************************************************)
(* Accounts and the ledger of their phones, for any number of users,       *)
(* phones, sanctions and reassignments: accounts are complete, the bans    *)
(* they carry agree with the ledger, a block is lifted only by the ban     *)
(* that caused it, no session outlives what it was based on, and every     *)
(* ledger replays to the row of its phone.                                 *)
(***************************************************************************)
EXTENDS AuthenticationProofs

-----------------------------------------------------------------------------
(* The steps of the ledger.                                                *)

\* What a step does to the phones' records.
LEMMA LedgerMoves ==
    ASSUME TypeOK, [Next]_vars
    PROVE  \/ UNCHANGED ledgerVars
           \/ \E p \in Phones, g \in 1..MaxGenerations :
                g = reputations[p].generation + 1 /\ StartGeneration(p, Len(operations) + 1, g)
           \/ \E op \in 1..MaxOperations, p \in Phones :
                /\ NewOperation(op)
                /\ \/ BlockPhone(op, p) \/ UnblockPhone(op, p)
                   \/ reputations[p] # NoRow /\ BanPhone(op, p)
                   \/ \E e \in DOMAIN ledger[p] : IsBan(p, e) /\ OverturnBan(op, p, e)
  <1>1. AccountTypeOK /\ LedgerTypeOK /\ 1 \in 1..MaxGenerations
    BY LedgerAssumption DEF TypeOK, AccountTypeOK
  <1>2. CASE SessionsOnly
    BY <1>2 DEF SessionsOnly
  <1>3. ASSUME NEW p \in Phones, EnsurePhone(p)
        PROVE  \/ UNCHANGED ledgerVars
               \/ \E g \in 1..MaxGenerations :
                    g = reputations[p].generation + 1 /\ StartGeneration(p, Len(operations) + 1, g)
    <2>1. NoRow.generation + 1 = 1
      BY DEF NoRow
    <2> QED
      BY <1>1, <1>3, <2>1 DEF EnsurePhone
  <1>4. ASSUME NEW g \in Grants,
               CompleteRegistration(g) \/ \E u \in Users : CompletePhoneChange(u, g)
        PROVE  grants[g].phone \in Phones /\ EnsurePhone(grants[g].phone)
    <2>1. grants[g] # NoGrant /\ EnsurePhone(grants[g].phone)
      BY <1>4 DEF CompleteRegistration, CompletePhoneChange, Usable
    <2> QED
      BY <2>1, CodeRows, GrantFields
  <1>5. ASSUME NEW u \in Users, EraseAccount(u) PROVE UNCHANGED ledgerVars
    BY <1>5 DEF EraseAccount
  <1>6. ASSUME NEW g \in Grants, EraseQualifyingBannedAccount(g) PROVE UNCHANGED ledgerVars
    BY <1>6 DEF EraseQualifyingBannedAccount
  <1>7. ASSUME NEW u \in Users, NEW status, SetUserStatus(u, status) PROVE UNCHANGED ledgerVars
    BY <1>7 DEF SetUserStatus
  <1>8. ASSUME NEW u \in Users, NEW subject, AttachIdentity(u, subject) PROVE UNCHANGED ledgerVars
    BY <1>8 DEF AttachIdentity
  <1>9. ASSUME NEW op \in 1..MaxOperations, NEW u \in Users, ApplyQualifyingBan(op, u)
        PROVE  \E p \in Phones : NewOperation(op) /\ reputations[p] # NoRow /\ BanPhone(op, p)
    BY <1>9, ActivePhoneIn DEF ApplyQualifyingBan
  <1>10. ASSUME NEW op \in 1..MaxOperations, NEW p \in Phones, ResetForReassignment(op, p)
         PROVE  \E g \in 1..MaxGenerations :
                  g = reputations[p].generation + 1 /\ StartGeneration(p, Len(operations) + 1, g)
    <2> DEFINE g == reputations[p].generation + 1
    <2>1. reputations[p] \in Rows /\ reputations[p].generation < MaxGenerations
          /\ op = Len(operations) + 1 /\ StartGeneration(p, op, g)
      BY <1>1, <1>10, RowFacts DEF ResetForReassignment, ReassignPhone, NewOperation
    <2>2. g \in 1..MaxGenerations
      BY <2>1, LedgerAssumption DEF Rows
    <2> QED
      BY <2>1, <2>2
  <1>11. ASSUME NEW op \in 1..MaxOperations, NEW p \in Phones,
                AdministrativeBlockPhone(op, p) \/ AdministrativeUnblockPhone(op, p)
         PROVE  NewOperation(op) /\ (BlockPhone(op, p) \/ UnblockPhone(op, p))
    BY <1>11 DEF AdministrativeBlockPhone, AdministrativeUnblockPhone
  <1>12. ASSUME NEW op \in 1..MaxOperations, NEW p \in Phones, NEW e \in DOMAIN ledger[p],
                OverturnQualifyingBan(op, p, e)
         PROVE  NewOperation(op) /\ IsBan(p, e) /\ OverturnBan(op, p, e)
    BY <1>12 DEF OverturnQualifyingBan
  <1> QED
    <2>1. CASE \E op \in 1..MaxOperations : Sanction(op)
      BY <2>1, <1>9, <1>10, <1>11, <1>12 DEF Sanction
    <2>2. CASE \E g \in Grants : CompleteRegistration(g)
      BY <2>2, <1>3, <1>4
    <2>3. CASE \E g \in Grants, u \in Users : CompletePhoneChange(u, g)
      BY <2>3, <1>3, <1>4
    <2> QED
      BY <1>2, <1>5, <1>6, <1>7, <1>8, <2>1, <2>2, <2>3, DatabaseMoves

\* A phone once known stays known.
LEMMA KnownStay ==
    ASSUME TypeOK, [Next]_vars, NEW p \in Phones, reputations[p] # NoRow
    PROVE  reputations'[p] # NoRow
  <1>1. LedgerTypeOK
    BY DEF TypeOK, AccountTypeOK
  <1>2. ASSUME NEW q, LedgerStep(q) PROVE reputations'[p] # NoRow
    BY <1>1, <1>2 DEF LedgerStep, LedgerTypeOK
  <1>3. CASE UNCHANGED ledgerVars
    BY <1>3 DEF ledgerVars
  <1> QED
    BY <1>1, <1>2, <1>3, LedgerMoves, StartStep, StatusStep, BanStep, OverturnStep

-----------------------------------------------------------------------------
(* Identities.                                                             *)

\* The user has the identity, active.
Attached(u, x) == [user |-> u, subject |-> x, status |-> "active"] \in identities

LEMMA AttachedFacts ==
    ASSUME identities \subseteq Identities, NEW u, NEW x
    PROVE  /\ u \in Holders(x) <=> Attached(u, x)
           /\ x \in ActivePhones(u) <=> x \in Phones /\ Attached(u, x)
           /\ Attached(u, x) => u \in Users /\ x \in Phones \cup Subjects
  <1>1. ASSUME NEW i \in identities, i.user = u, i.subject = x, i.status = "active"
        PROVE  Attached(u, x)
    <2>1. i = [user |-> u, subject |-> x, status |-> "active"]
      BY <1>1 DEF Identities
    <2> QED
      BY <2>1 DEF Attached
  <1>2. Attached(u, x) => \E i \in identities : i.user = u /\ i.subject = x /\ i.status = "active"
    BY DEF Attached
  <1>3. u \in Holders(x) <=> \E i \in identities : i.user = u /\ i.subject = x /\ i.status = "active"
    BY DEF Holders
  <1>4. x \in ActivePhones(u) <=>
          x \in Phones /\ \E i \in identities : i.user = u /\ i.subject = x /\ i.status = "active"
    BY DEF ActivePhones
  <1>5. Attached(u, x) => u \in Users /\ x \in Phones \cup Subjects
    BY DEF Attached, Identities
  <1> QED
    BY <1>1, <1>2, <1>3, <1>4, <1>5

-----------------------------------------------------------------------------
(* Complete accounts.                                                      *)

\* An account has one phone, which has a record, and a password.
Complete(u) ==
    /\ \E p \in Phones : /\ Attached(u, p) /\ reputations[p] # NoRow
                         /\ \A q \in Phones : Attached(u, q) => q = p
    /\ u \in passwords

\* Of a user who is not registered nothing is there.
Gone(u) ==
    /\ u \notin passwords /\ families[u] = <<>>
    /\ \A i \in identities : i.user # u
    /\ \A b \in bans : b.user # u

OneHolder == \A x, u, v : Attached(u, x) /\ Attached(v, x) => u = v

AccountInv ==
    /\ \A u \in Registered : Complete(u)
    /\ OneHolder
    /\ \A u \in Users \ Registered : Gone(u)

\* Only who is or becomes active logs in.
LEMMA FamiliesStayGone ==
    ASSUME SessionInv, FamiliesStep, NEW u \in Users, families[u] = <<>>, users'[u] # "active"
    PROVE  families'[u] = <<>>
  <1>1. UserMove(users'[u], <<>>, families'[u])
    BY DEF FamiliesStep
  <1>2. ASSUME LaterAll(<<>>, families'[u]) PROVE families'[u] = <<>>
    <2>1. families'[u] \in Seq(Families) /\ Len(families'[u]) = 0
      BY <1>2 DEF LaterAll
    <2> QED
      BY <2>1
  <1> QED
    BY <1>1, <1>2 DEF UserMove

\* What a step has to show: the accounts after it are complete, the identities have one
\* holder, and of a user who is not registered after it nothing was left or is now.
LEMMA AccountsKept ==
    ASSUME TypeOK, SessionInv, AccountInv, [Next]_vars,
           \A u \in Registered' : Complete(u)', OneHolder',
           \A u \in Users \ Registered' :
              /\ u \in Registered => families'[u] = <<>>
              /\ u \notin passwords' /\ (\A i \in identities' : i.user # u)
              /\ (\A b \in bans' : b.user # u)
    PROVE  AccountInv'
  <1>1. FamiliesStep
    BY FamiliesMove
  <1>2. ASSUME NEW u \in Users \ Registered' PROVE Gone(u)'
    <2>1. users'[u] # "active"
      BY <1>2 DEF Registered
    <2>2. families'[u] = <<>>
      BY <1>1, <1>2, <2>1, FamiliesStayGone DEF AccountInv, Gone
    <2> QED
      BY <1>2, <2>2 DEF Gone
  <1> QED
    BY <1>2 DEF AccountInv

\* An account whose phones and password a step leaves alone stays complete.
LEMMA StillComplete ==
    ASSUME TypeOK, [Next]_vars, NEW u, Complete(u),
           \A q \in Phones : Attached(u, q)' <=> Attached(u, q), u \in passwords'
    PROVE  Complete(u)'
  <1>1. PICK p \in Phones : /\ Attached(u, p) /\ reputations[p] # NoRow
                            /\ \A q \in Phones : Attached(u, q) => q = p
    BY DEF Complete
  <1>2. reputations'[p] # NoRow
    BY <1>1, KnownStay
  <1>3. Attached(u, p)' /\ \A q \in Phones : Attached(u, q)' => q = p
    BY <1>1
  <1> QED
    BY <1>2, <1>3 DEF Complete

\* Steps that leave identities and passwords alone, and register or suspend nobody new.
LEMMA QuietAccounts ==
    ASSUME TypeOK, SessionInv, AccountInv, [Next]_vars,
           UNCHANGED <<identities, passwords>>, Registered' = Registered,
           \A b \in bans' : b.user \in Registered \/ \E c \in bans : c.user = b.user
    PROVE  AccountInv'
  <1>1. \A u, x : Attached(u, x)' <=> Attached(u, x)
    BY DEF Attached
  <1>2. \A u \in Registered' : Complete(u)'
    BY <1>1, StillComplete DEF AccountInv, Complete
  <1>3. OneHolder'
    BY <1>1 DEF AccountInv, OneHolder
  <1>4. \A u \in Users \ Registered' :
              /\ u \in Registered => families'[u] = <<>>
              /\ u \notin passwords' /\ (\A i \in identities' : i.user # u)
              /\ (\A b \in bans' : b.user # u)
    BY DEF AccountInv, Gone
  <1> QED
    BY <1>2, <1>3, <1>4, AccountsKept

\* A user is registered or not, whatever the status.
LEMMA RegisteredIf ==
    ASSUME AccountTypeOK, NEW u, NEW status \in {"active", "suspended"},
           users' = [users EXCEPT ![u] = status]
    PROVE  Registered' = Registered \cup (Users \cap {u})
  BY DEF AccountTypeOK, Registered

LEMMA RegistrationStep ==
    ASSUME TypeOK, SessionInv, AccountInv, [Next]_vars, NEW g \in Grants, CompleteRegistration(g)
    PROVE  AccountInv'
  <1> DEFINE absent == {v \in Users : users[v] = "absent"}
  <1>1. PICK u, p : u = Min(absent) /\ p = grants[g].phone
    OBVIOUS
  <1>2. u \in Users /\ users[u] = "absent"
    <2>1. absent \in SUBSET Nat /\ absent # {}
      BY AccountAssumption DEF CompleteRegistration
    <2>2. Min(absent) \in absent
      BY <2>1, MinIn
    <2> QED
      BY <1>1, <2>2
  <1>3. p \in Phones
    BY <1>1, CodeRows, GrantFields DEF CompleteRegistration, Usable
  <1>4. /\ users' = [users EXCEPT ![u] = "active"]
        /\ identities' = identities \cup {[user |-> u, subject |-> p, status |-> "active"]}
        /\ passwords' = passwords \cup {u} /\ bans' = bans
        /\ Holders(p) = {} /\ EnsurePhone(p)
    BY <1>1 DEF CompleteRegistration, FreePhone
  <1>5. AccountTypeOK /\ Registered' = Registered \cup {u} /\ u \notin Registered
    BY <1>2, <1>4, RegisteredIf DEF TypeOK, Registered
  <1>6. \A v, x : Attached(v, x)' <=> Attached(v, x) \/ (v = u /\ x = p)
    BY <1>4 DEF Attached
  <1>7. \A x : ~Attached(u, x)
    <2>1. \A i \in identities : i.user # u
      BY <1>2, <1>5 DEF AccountInv, Gone
    <2> QED
      BY <2>1 DEF Attached
  <1>8. \A v : ~Attached(v, p)
    BY <1>4, <1>5, AttachedFacts DEF AccountTypeOK
  <1>9. reputations'[p] # NoRow
    <2>1. CASE reputations[p] # NoRow
      BY <1>3, <2>1, KnownStay
    <2>2. CASE StartGeneration(p, Len(operations) + 1, 1)
      <3>1. reputations'[p] = NewRow(1)
        BY <1>3, <1>5, <2>2 DEF StartGeneration, AccountTypeOK, LedgerTypeOK
      <3>2. NewRow(1).generation # NoRow.generation
        BY DEF NewRow, NoRow
      <3> QED
        BY <3>1, <3>2
    <2> QED
      BY <1>4, <2>1, <2>2 DEF EnsurePhone
  <1>10. ASSUME NEW v \in Registered' PROVE Complete(v)'
    <2>1. CASE v = u
      <3>1. Attached(u, p)' /\ \A q \in Phones : Attached(u, q)' => q = p
        BY <1>6, <1>7
      <3> QED
        BY <1>3, <1>4, <1>9, <2>1, <3>1 DEF Complete
    <2>2. CASE v # u
      BY <1>4, <1>5, <1>6, <1>10, <2>2, StillComplete DEF AccountInv, Complete
    <2> QED
      BY <2>1, <2>2
  <1>11. OneHolder'
    BY <1>6, <1>8 DEF AccountInv, OneHolder
  <1>12. ASSUME NEW v \in Users \ Registered'
         PROVE  /\ v \notin Registered
                /\ v \notin passwords' /\ (\A i \in identities' : i.user # v)
                /\ (\A b \in bans' : b.user # v)
    BY <1>4, <1>5, <1>12 DEF AccountInv, Gone
  <1> QED
    BY <1>10, <1>11, <1>12, AccountsKept

\* A user without phone is not registered, and one with an identity is.
LEMMA AttachedRegistered ==
    ASSUME AccountTypeOK, AccountInv, NEW u, NEW x, Attached(u, x)
    PROVE  u \in Registered
  <1>1. u \in Users /\ \E i \in identities : i.user = u
    BY DEF Attached, AccountTypeOK, Identities
  <1> QED
    BY <1>1 DEF AccountInv, Gone

LEMMA PhoneChangeStep ==
    ASSUME TypeOK, SessionInv, AccountInv, [Next]_vars, NEW g \in Grants, NEW u \in Users,
           CompletePhoneChange(u, g)
    PROVE  AccountInv'
  <1>1. PICK old, p : old = ActivePhone(u) /\ p = grants[g].phone
    OBVIOUS
  <1>2. AccountTypeOK /\ identities \subseteq Identities
    BY DEF TypeOK, AccountTypeOK
  <1>3. ActivePhones(u) # {} /\ users[u] = "active"
    BY DEF CompletePhoneChange, Effective, PhoneNormal
  <1>4. Attached(u, old) /\ old \in Phones /\ p \in Phones
    BY <1>1, <1>2, <1>3, ActivePhoneIn, AttachedFacts, CodeRows, GrantFields
       DEF CompletePhoneChange, Usable
  <1>5. /\ identities' = (identities \ {[user |-> u, subject |-> old, status |-> "active"]})
               \cup {[user |-> u, subject |-> old, status |-> "detached"],
                     [user |-> u, subject |-> p, status |-> "active"]}
        /\ UNCHANGED <<users, passwords, bans>>
        /\ Holders(p) = {} /\ EnsurePhone(p)
    BY <1>1 DEF CompletePhoneChange, FreePhone
  <1>6. \A v : ~Attached(v, p)
    BY <1>2, <1>5, AttachedFacts
  <1>7. \A v, x : Attached(v, x)' <=> (Attached(v, x) /\ ~(v = u /\ x = old)) \/ (v = u /\ x = p)
    BY <1>5 DEF Attached
  <1>8. Registered' = Registered /\ u \in Registered
    BY <1>3, <1>5 DEF Registered
  <1>9. reputations'[p] # NoRow
    <2>1. CASE reputations[p] # NoRow
      BY <1>4, <2>1, KnownStay
    <2>2. CASE StartGeneration(p, Len(operations) + 1, 1)
      <3>1. reputations'[p] = NewRow(1)
        BY <1>2, <1>4, <2>2 DEF StartGeneration, AccountTypeOK, LedgerTypeOK
      <3>2. NewRow(1).generation # NoRow.generation
        BY DEF NewRow, NoRow
      <3> QED
        BY <3>1, <3>2
    <2> QED
      BY <1>5, <2>1, <2>2 DEF EnsurePhone
  <1>10. ASSUME NEW v \in Registered' PROVE Complete(v)'
    <2>1. Complete(v)
      BY <1>8, <1>10 DEF AccountInv
    <2>2. CASE v = u
      <3>1. \A q \in Phones : Attached(u, q) => q = old
        BY <1>4, <2>1, <2>2 DEF Complete
      <3>2. Attached(u, p)' /\ \A q \in Phones : Attached(u, q)' => q = p
        BY <1>7, <3>1
      <3> QED
        BY <1>4, <1>5, <1>9, <2>1, <2>2, <3>2 DEF Complete
    <2>3. CASE v # u
      BY <1>5, <1>7, <2>1, <2>3, StillComplete DEF Complete
    <2> QED
      BY <2>2, <2>3
  <1>11. OneHolder'
    BY <1>6, <1>7 DEF AccountInv, OneHolder
  <1>12. ASSUME NEW v \in Users \ Registered'
         PROVE  /\ v \notin Registered
                /\ v \notin passwords' /\ (\A i \in identities' : i.user # v)
                /\ (\A b \in bans' : b.user # v)
    BY <1>5, <1>8, <1>12 DEF AccountInv, Gone
  <1> QED
    BY <1>10, <1>11, <1>12, AccountsKept

LEMMA EraseAccountStep ==
    ASSUME TypeOK, SessionInv, AccountInv, [Next]_vars, NEW u \in Users, DeleteOwnedRows(u)
    PROVE  AccountInv'
  <1>1. AccountTypeOK
    BY DEF TypeOK
  <1>2. Registered' = Registered \ {u}
    BY <1>1 DEF DeleteOwnedRows, AccountTypeOK, Registered
  <1>3. \A v, x : Attached(v, x)' <=> Attached(v, x) /\ v # u
    BY DEF DeleteOwnedRows, Attached
  <1>4. ASSUME NEW v \in Registered' PROVE Complete(v)'
    <2>1. Complete(v) /\ v # u
      BY <1>2, <1>4 DEF AccountInv
    <2>2. v \in passwords'
      BY <2>1 DEF Complete, DeleteOwnedRows
    <2> QED
      BY <1>3, <2>1, <2>2, StillComplete
  <1>5. OneHolder'
    BY <1>3 DEF AccountInv, OneHolder
  <1>6. ASSUME NEW v \in Users \ Registered'
        PROVE  /\ v \in Registered => families'[v] = <<>>
               /\ v \notin passwords' /\ (\A i \in identities' : i.user # v)
               /\ (\A b \in bans' : b.user # v)
    <2>1. CASE v = u
      BY <1>1, <2>1 DEF DeleteOwnedRows, AccountTypeOK
    <2>2. CASE v # u
      BY <1>2, <1>6, <2>2 DEF DeleteOwnedRows, AccountInv, Gone
    <2> QED
      BY <2>1, <2>2
  <1> QED
    BY <1>4, <1>5, <1>6, AccountsKept

LEMMA AttachStep ==
    ASSUME TypeOK, SessionInv, AccountInv, [Next]_vars, NEW u \in Users, NEW x \in Subjects,
           AttachIdentity(u, x)
    PROVE  AccountInv'
  <1>1. AccountTypeOK /\ identities \subseteq Identities
    BY DEF TypeOK, AccountTypeOK
  <1>2. /\ identities' = identities \cup {[user |-> u, subject |-> x, status |-> "active"]}
        /\ UNCHANGED <<users, passwords, bans>> /\ Holders(x) = {} /\ users[u] = "active"
    BY DEF AttachIdentity, Effective
  <1>3. Registered' = Registered /\ u \in Registered /\ x \notin Phones
    BY <1>2, AccountAssumption DEF Registered
  <1>4. \A v, y : Attached(v, y)' <=> Attached(v, y) \/ (v = u /\ y = x)
    BY <1>2 DEF Attached
  <1>5. \A v : ~Attached(v, x)
    BY <1>1, <1>2, AttachedFacts
  <1>6. \A v \in Registered' : Complete(v)'
    BY <1>2, <1>3, <1>4, StillComplete DEF AccountInv, Complete
  <1>7. OneHolder'
    BY <1>4, <1>5 DEF AccountInv, OneHolder
  <1>8. ASSUME NEW v \in Users \ Registered'
        PROVE  /\ v \notin Registered
               /\ v \notin passwords' /\ (\A i \in identities' : i.user # v)
               /\ (\A b \in bans' : b.user # v)
    BY <1>2, <1>3, <1>8 DEF AccountInv, Gone
  <1> QED
    BY <1>6, <1>7, <1>8, AccountsKept

LEMMA AccountSanctions ==
    ASSUME TypeOK, SessionInv, AccountInv, [Next]_vars, NEW op \in 1..MaxOperations, Sanction(op)
    PROVE  AccountInv'
  <1>1. AccountTypeOK
    BY DEF TypeOK
  <1>2. ASSUME NEW u \in Users, ApplyQualifyingBan(op, u) PROVE AccountInv'
    <2>1. ActivePhones(u) # {}
      BY <1>2 DEF ApplyQualifyingBan
    <2>2. u \in Registered
      BY <1>1, <2>1, ActivePhoneIn, AttachedFacts, AttachedRegistered DEF AccountTypeOK
    <2>3. users' = [users EXCEPT ![u] = "suspended"] /\ UNCHANGED <<identities, passwords>>
      BY <1>2 DEF ApplyQualifyingBan
    <2>4. Registered' = Registered
      BY <1>1, <2>2, <2>3, RegisteredIf
    <2>5. \A b \in bans' : b \in bans \/ b.user = u
      BY <1>2 DEF ApplyQualifyingBan
    <2> QED
      BY <2>2, <2>3, <2>4, <2>5, QuietAccounts
  <1>3. ASSUME NEW p \in Phones, \/ AdministrativeBlockPhone(op, p) \/ AdministrativeUnblockPhone(op, p)
                                 \/ ResetForReassignment(op, p)
        PROVE  AccountInv'
    <2>1. UNCHANGED <<users, identities, passwords, bans>>
      BY <1>3 DEF AdministrativeBlockPhone, AdministrativeUnblockPhone, ResetForReassignment, accountVars
    <2> QED
      BY <2>1, QuietAccounts DEF Registered
  <1>4. ASSUME NEW p \in Phones, NEW e \in DOMAIN ledger[p], OverturnQualifyingBan(op, p, e)
        PROVE  AccountInv'
    <2>1. /\ UNCHANGED <<users, identities, passwords>>
          /\ bans' = {IF b.phone = p /\ b.event = e THEN [b EXCEPT !.overturned = TRUE] ELSE b : b \in bans}
      BY <1>4 DEF OverturnQualifyingBan
    <2>2. \A b \in bans : [b EXCEPT !.overturned = TRUE].user = b.user
      BY <1>1 DEF AccountTypeOK, Bans
    <2>3. \A b \in bans' : \E c \in bans : c.user = b.user
      BY <2>1, <2>2
    <2> QED
      BY <2>1, <2>3, QuietAccounts DEF Registered
  <1> QED
    BY <1>2, <1>3, <1>4 DEF Sanction

\* Every step leaves complete accounts.
LEMMA AccountsStep ==
    ASSUME TypeOK, SessionInv, AccountInv, [Next]_vars
    PROVE  AccountInv'
  <1>1. CASE SessionsOnly
    BY <1>1, QuietAccounts DEF SessionsOnly, Registered
  <1>2. ASSUME NEW u \in Users, EraseAccount(u) PROVE AccountInv'
    BY <1>2, EraseAccountStep DEF EraseAccount
  <1>3. ASSUME NEW g \in Grants, EraseQualifyingBannedAccount(g) PROVE AccountInv'
    <2>1. grants[g].user \in Users
      BY <1>3, CodeRows, GrantFields DEF EraseQualifyingBannedAccount, Usable, Bearers
    <2> QED
      BY <1>3, <2>1, EraseAccountStep DEF EraseQualifyingBannedAccount
  <1>4. ASSUME NEW u \in Users, NEW status \in {"active", "suspended"}, SetUserStatus(u, status)
        PROVE  AccountInv'
    <2>1. AccountTypeOK /\ u \in Registered /\ users' = [users EXCEPT ![u] = status]
          /\ UNCHANGED <<identities, passwords, bans>>
      BY <1>4 DEF SetUserStatus, TypeOK
    <2>2. Registered' = Registered
      BY <2>1, RegisteredIf
    <2> QED
      BY <2>1, <2>2, QuietAccounts
  <1> QED
    BY <1>1, <1>2, <1>3, <1>4, RegistrationStep, PhoneChangeStep, AttachStep, AccountSanctions,
       DatabaseMoves

\* So do the databases a behaviour starts from.
LEMMA AccountsInit ==
    ASSUME Init
    PROVE  AccountInv
  <1>1. PICK start \in Starts : StartedFrom(start)
    BY DEF Init
  <1>2. /\ start \in Seq(Phones) /\ DOMAIN start \subseteq Users
        /\ \A i, k \in DOMAIN start : start[i] = start[k] => i = k
    BY AuthenticationAssumption
  <1>3. /\ users = [u \in Users |-> IF u \in DOMAIN start THEN "active" ELSE "absent"]
        /\ identities = {[user |-> i, subject |-> start[i], status |-> "active"] : i \in DOMAIN start}
        /\ passwords = DOMAIN start /\ bans = {}
        /\ families = [u \in Users |-> IF u \in DOMAIN start THEN LoggedIn(<<>>, "live") ELSE <<>>]
    BY <1>1 DEF StartedFrom
  <1>4. Registered = DOMAIN start
    BY <1>2, <1>3 DEF Registered
  <1>5. \A u, x : Attached(u, x) <=> u \in DOMAIN start /\ x = start[u]
    BY <1>3 DEF Attached
  <1>6. ASSUME NEW u \in DOMAIN start PROVE start[u] \in Phones /\ reputations[start[u]] # NoRow
    <2>1. start[u] \in Phones
      BY <1>2
    <2>2. \E i \in DOMAIN start : start[i] = start[u]
      OBVIOUS
    <2>3. reputations[start[u]] = NewRow(1)
      BY <1>1, <2>1, <2>2 DEF StartedFrom
    <2>4. NewRow(1).generation # NoRow.generation
      BY DEF NewRow, NoRow
    <2> QED
      BY <2>1, <2>3, <2>4
  <1>7. \A u \in Registered : Complete(u)
    BY <1>3, <1>4, <1>5, <1>6 DEF Complete
  <1>8. OneHolder
    BY <1>2, <1>5 DEF OneHolder
  <1>9. \A u \in Users \ Registered : Gone(u)
    BY <1>3, <1>4 DEF Gone
  <1> QED
    BY <1>7, <1>8, <1>9 DEF AccountInv

LEMMA AccountInvariant == Spec => [](TypeOK /\ SessionInv /\ AccountInv)
  <1>1. Init => AccountInv
    BY AccountsInit
  <1>2. TypeOK /\ SessionInv /\ AccountInv /\ [Next]_vars => AccountInv'
    BY AccountsStep
  <1> QED
    BY <1>1, <1>2, AccountTypes, SessionInvariant, PTL DEF Spec

\* What the invariant says in the words of the code.
LEMMA OnePhone ==
    ASSUME AccountTypeOK, AccountInv, NEW u \in Registered
    PROVE  \E p \in Phones : /\ ActivePhones(u) = {p} /\ ActivePhone(u) = p /\ reputations[p] # NoRow
                             /\ {i \in identities : /\ i.user = u /\ i.status = "active"
                                                    /\ i.subject \in Phones}
                                  = {[user |-> u, subject |-> p, status |-> "active"]}
  <1>1. PICK p \in Phones : /\ Attached(u, p) /\ reputations[p] # NoRow
                            /\ \A q \in Phones : Attached(u, q) => q = p
    BY DEF AccountInv, Complete
  <1>2. identities \subseteq Identities
    BY DEF AccountTypeOK
  <1>3. ActivePhones(u) = {p}
    BY <1>1, <1>2, AttachedFacts
  <1>4. ActivePhone(u) = p
    BY <1>3 DEF ActivePhone
  <1>5. ASSUME NEW i \in identities, i.user = u, i.status = "active", i.subject \in Phones
        PROVE  i = [user |-> u, subject |-> p, status |-> "active"]
    <2>1. i = [user |-> u, subject |-> i.subject, status |-> "active"]
      BY <1>2, <1>5 DEF Identities
    <2>2. Attached(u, i.subject)
      BY <2>1 DEF Attached
    <2> QED
      BY <1>1, <1>5, <2>1, <2>2
  <1>6. [user |-> u, subject |-> p, status |-> "active"] \in identities
    BY <1>1 DEF Attached
  <1> QED
    BY <1>1, <1>3, <1>4, <1>5, <1>6

\* Registration, phone change and erasure leave complete accounts: one phone with a record
\* and a password each, one holder per phone and subject, nothing of who is erased
\* (validate_account_invariants).
THEOREM AccountsAreComplete == Spec => []CompleteAccounts
  <1>1. ASSUME TypeOK, AccountInv PROVE CompleteAccounts
    <2>1. AccountTypeOK /\ identities \subseteq Identities
      BY <1>1 DEF TypeOK, AccountTypeOK
    <2>2. ASSUME NEW u \in Registered
          PROVE  /\ Cardinality({i \in identities : /\ i.user = u /\ i.status = "active"
                                                    /\ i.subject \in Phones}) = 1
                 /\ reputations[ActivePhone(u)] # NoRow
                 /\ u \in passwords
      <3>1. u \in passwords
        BY <1>1 DEF AccountInv, Complete
      <3>2. PICK p \in Phones :
               /\ ActivePhone(u) = p /\ reputations[p] # NoRow
               /\ {i \in identities : /\ i.user = u /\ i.status = "active" /\ i.subject \in Phones}
                    = {[user |-> u, subject |-> p, status |-> "active"]}
        BY <1>1, <2>1, OnePhone
      <3>3. Cardinality({[user |-> u, subject |-> p, status |-> "active"]}) = 1
        BY FS_Singleton
      <3> QED
        BY <3>1, <3>2, <3>3
    <2>3. ASSUME NEW x PROVE Cardinality(Holders(x)) <= 1
      <3>1. \A v \in Holders(x) : v \in Users /\ Attached(v, x)
        BY <2>1, AttachedFacts
      <3>2. IsFiniteSet(Holders(x))
        BY <3>1, AccountAssumption, FS_Subset
      <3>3. \A v, w \in Holders(x) : v = w
        BY <1>1, <3>1 DEF AccountInv, OneHolder
      <3> QED
        BY <3>2, <3>3, AtMostOne
    <2> QED
      BY <1>1, <2>2, <2>3 DEF CompleteAccounts, ValidateAccountInvariants, AccountInv, Gone
  <1> QED
    BY <1>1, AccountInvariant, PTL

-----------------------------------------------------------------------------
(* The ledger, which is only appended to.                                  *)

\* The events s are appended to the ledger of p.
Appended(p, s) ==
    p \in Phones /\ s \in Seq(Events) /\ ledger' = [ledger EXCEPT ![p] = ledger[p] \o s]

LEMMA AppendFacts ==
    ASSUME LedgerTypeOK, NEW p, NEW s, Appended(p, s)
    PROVE  /\ \A q \in Phones : q # p => ledger'[q] = ledger[q]
           /\ Len(ledger[p]) \in Nat /\ DOMAIN ledger[p] = 1..Len(ledger[p])
           /\ DOMAIN s = 1..Len(s) /\ Len(s) \in Nat
           /\ DOMAIN ledger'[p] = 1..(Len(ledger[p]) + Len(s))
           /\ \A i \in DOMAIN ledger[p] : i \in DOMAIN ledger'[p] /\ ledger'[p][i] = ledger[p][i]
           /\ \A k \in DOMAIN s : /\ Len(ledger[p]) + k \in DOMAIN ledger'[p]
                                  /\ ledger'[p][Len(ledger[p]) + k] = s[k]
           /\ \A i \in DOMAIN ledger'[p] :
                i \in DOMAIN ledger[p] \/ \E k \in DOMAIN s : i = Len(ledger[p]) + k
  <1> DEFINE n == Len(ledger[p])
  <1>1. /\ ledger[p] \in Seq(Events) /\ n \in Nat /\ DOMAIN ledger[p] = 1..n
        /\ Len(s) \in Nat /\ DOMAIN s = 1..Len(s)
    BY RowFacts DEF Appended
  <1>2. /\ ledger'[p] = ledger[p] \o s /\ \A q \in Phones : q # p => ledger'[q] = ledger[q]
    BY DEF LedgerTypeOK, Appended
  <1>3. /\ DOMAIN ledger'[p] = 1..(n + Len(s))
        /\ \A i \in 1..n : ledger'[p][i] = ledger[p][i]
        /\ \A k \in 1..Len(s) : ledger'[p][n + k] = s[k]
    BY <1>1, <1>2
  <1>4. \A i \in 1..(n + Len(s)) : i \in 1..n \/ \E k \in 1..Len(s) : i = n + k
    <2> SUFFICES ASSUME NEW i \in 1..(n + Len(s)), i \notin 1..n PROVE \E k \in 1..Len(s) : i = n + k
      OBVIOUS
    <2>1. i - n \in 1..Len(s) /\ i = n + (i - n)
      BY <1>1
    <2> QED
      BY <2>1
  <1>5. /\ \A i \in 1..n : i \in 1..(n + Len(s))
        /\ \A k \in 1..Len(s) : n + k \in 1..(n + Len(s))
    BY <1>1
  <1> HIDE DEF n
  <1>6. /\ DOMAIN ledger[p] = 1..n /\ DOMAIN s = 1..Len(s) /\ DOMAIN ledger'[p] = 1..(n + Len(s))
    BY <1>1, <1>3
  <1> QED
    BY <1>1, <1>2, <1>3, <1>4, <1>5, <1>6 DEF n

LEMMA AppendOld ==
    ASSUME LedgerTypeOK, NEW p, NEW s, Appended(p, s)
    PROVE  /\ p \in Phones /\ \A q \in Phones : q # p => ledger'[q] = ledger[q]
           /\ \A i \in DOMAIN ledger[p] : i \in DOMAIN ledger'[p] /\ ledger'[p][i] = ledger[p][i]
  BY AppendFacts DEF Appended

LEMMA AppendNew ==
    ASSUME LedgerTypeOK, NEW p, NEW s, Appended(p, s), NEW n, n = Len(ledger[p])
    PROVE  /\ n \in Nat /\ DOMAIN ledger[p] = 1..n
           /\ \A k \in DOMAIN s : k \in Nat /\ k > 0 /\ n + k \in DOMAIN ledger'[p] /\ ledger'[p][n + k] = s[k]
           /\ \A i \in DOMAIN ledger'[p] : i \in 1..n \/ \E k \in DOMAIN s : i = n + k
  <1>1. /\ n \in Nat /\ DOMAIN ledger[p] = 1..n /\ DOMAIN s = 1..Len(s) /\ Len(s) \in Nat
    BY AppendFacts
  <1>2. \A k \in DOMAIN s : n + k \in DOMAIN ledger'[p] /\ ledger'[p][n + k] = s[k]
    BY AppendFacts
  <1>3. ASSUME NEW i \in DOMAIN ledger'[p] PROVE i \in 1..n \/ \E k \in DOMAIN s : i = n + k
    <2>1. \A x \in DOMAIN ledger'[p] : x \in DOMAIN ledger[p] \/ \E k \in DOMAIN s : x = Len(ledger[p]) + k
      BY AppendFacts
    <2> QED
      BY <1>1, <1>3, <2>1
  <1> QED
    BY <1>1, <1>2, <1>3

\* An unblock that names a ban follows the block that names it.
Unblocks(p, i) ==
    LET e == ledger[p][i]
        before == {k \in Positions(p, "status", e.generation) : k < i}
    IN  e.type = "phone_unblocked" /\ e.ref # 0 =>
          /\ before # {}
          /\ ledger[p][Max(before)].type = "phone_blocked"
          /\ ledger[p][Max(before)].ref = e.ref

\* An overturn names a ban; every generation begins with a status event.
LedgerInv ==
    /\ \A p \in Phones : \A i \in DOMAIN ledger[p] :
         /\ ledger[p][i].type = "qualifying_ban_overturned" => IsBan(p, ledger[p][i].ref)
         /\ Positions(p, "status", ledger[p][i].generation) # {}
         /\ Unblocks(p, i)
    /\ \A p \in Phones : reputations[p] # NoRow =>
         Positions(p, "status", reputations[p].generation) # {}

\* What the appended events must be for that.
StatusIn(s, g) == \E m \in DOMAIN s : s[m].stream = "status" /\ s[m].generation = g

Lifts(p, s, k) ==
    LET P == Positions(p, "status", s[k].generation) IN
    s[k].type = "phone_unblocked" /\ s[k].ref # 0 =>
        /\ P # {}
        /\ ledger[p][Max(P)].type = "phone_blocked" /\ ledger[p][Max(P)].ref = s[k].ref
        /\ \A m \in 1..(k - 1) : s[m].stream = "sanction"

Appends(p, s) ==
    /\ Appended(p, s)
    /\ \A k \in DOMAIN s :
         /\ s[k].type = "qualifying_ban_overturned" => IsBan(p, s[k].ref)
         /\ Positions(p, "status", s[k].generation) # {} \/ StatusIn(s, s[k].generation)
         /\ Lifts(p, s, k)
    /\ \A q \in Phones : q # p => reputations'[q] = reputations[q]
    /\ reputations'[p] # NoRow =>
         \/ Positions(p, "status", reputations'[p].generation) # {}
         \/ StatusIn(s, reputations'[p].generation)

\* The status events of a generation after that.
LEMMA PositionsGrow ==
    ASSUME LedgerTypeOK, NEW p, NEW s, Appended(p, s), NEW g
    PROVE  /\ \A i \in DOMAIN ledger[p] :
                i \in Positions(p, "status", g)' <=> i \in Positions(p, "status", g)
           /\ Positions(p, "status", g) # {} \/ StatusIn(s, g) => Positions(p, "status", g)' # {}
  <1>1. \A i \in DOMAIN ledger[p] : i \in DOMAIN ledger'[p] /\ ledger'[p][i] = ledger[p][i]
    BY AppendOld
  <1>2. \A i \in DOMAIN ledger[p] :
          i \in Positions(p, "status", g)' <=> i \in Positions(p, "status", g)
    BY <1>1 DEF Positions
  <1>3. ASSUME NEW m \in DOMAIN s, s[m].stream = "status", s[m].generation = g
        PROVE  Positions(p, "status", g)' # {}
    <2>1. PICK n : n = Len(ledger[p])
      OBVIOUS
    <2>2. n + m \in DOMAIN ledger'[p] /\ ledger'[p][n + m] = s[m]
      BY <1>3, <2>1, AppendNew
    <2>3. n + m \in Positions(p, "status", g)'
      BY <1>3, <2>2 DEF Positions
    <2> QED
      BY <2>3
  <1>4. Positions(p, "status", g) \subseteq DOMAIN ledger[p]
    BY DEF Positions
  <1> QED
    BY <1>2, <1>3, <1>4 DEF StatusIn

\* What an old event followed stays what it followed.
LEMMA OldUnblocks ==
    ASSUME LedgerTypeOK, NEW p, NEW s, Appended(p, s), NEW i \in DOMAIN ledger[p], Unblocks(p, i)
    PROVE  Unblocks(p, i)'
  <1> DEFINE g == ledger[p][i].generation
             B == {k \in Positions(p, "status", g) : k < i}
             C == {k \in Positions(p, "status", g)' : k < i}
  <1>1. /\ DOMAIN ledger[p] = 1..Len(ledger[p]) /\ Len(ledger[p]) \in Nat
        /\ DOMAIN ledger'[p] = 1..(Len(ledger[p]) + Len(s)) /\ Len(s) \in Nat
        /\ \A k \in DOMAIN ledger[p] : ledger'[p][k] = ledger[p][k]
    BY AppendFacts
  <1>2. PICK e, n : e = ledger[p][i] /\ n = e.generation
    OBVIOUS
  <1>3. {k \in Positions(p, "status", n)' : k < i} = {k \in Positions(p, "status", n) : k < i}
    <2>1. \A k \in Positions(p, "status", n)' : k < i => k \in DOMAIN ledger[p]
      BY <1>1 DEF Positions
    <2>2. \A k \in Positions(p, "status", n) : k \in DOMAIN ledger[p]
      BY DEF Positions
    <2> QED
      BY <2>1, <2>2, PositionsGrow
  <1>4. PICK before : before = {k \in Positions(p, "status", n) : k < i}
    OBVIOUS
  <1>5. ASSUME before # {} PROVE Max(before) \in DOMAIN ledger[p]
    <2>1. before \subseteq DOMAIN ledger[p] /\ \A k \in before : k <= i
      BY <1>1, <1>4 DEF Positions
    <2>2. before \in SUBSET Nat /\ i \in Nat
      BY <1>1, <2>1
    <2>3. Max(before) \in before
      BY <1>5, <2>1, <2>2, MaxIn
    <2> QED
      BY <2>1, <2>3
  <1>6. e.type = "phone_unblocked" /\ e.ref # 0 =>
          /\ before # {}
          /\ ledger[p][Max(before)].type = "phone_blocked"
          /\ ledger[p][Max(before)].ref = e.ref
    BY <1>2, <1>4 DEF Unblocks
  <1>7. /\ ledger'[p][i] = e
        /\ before # {} => ledger'[p][Max(before)] = ledger[p][Max(before)]
    BY <1>1, <1>2, <1>5
  <1>8. before = {k \in Positions(p, "status", n)' : k < i}
    BY <1>3, <1>4
  <1> QED
    BY <1>2, <1>6, <1>7, <1>8 DEF Unblocks

\* A new unblock follows the block it lifts.
LEMMA NewUnblocks ==
    ASSUME LedgerTypeOK, NEW p, NEW s, Appends(p, s), NEW k \in DOMAIN s,
           NEW n, n = Len(ledger[p]), NEW j, j = n + k
    PROVE  Unblocks(p, j)'
  <1>1. Appended(p, s) /\ Lifts(p, s, k)
    BY DEF Appends
  <1>2. /\ n \in Nat /\ DOMAIN ledger[p] = 1..n
        /\ \A m \in DOMAIN s : m \in Nat /\ m > 0 /\ ledger'[p][n + m] = s[m]
        /\ \A i \in DOMAIN ledger'[p] : i \in 1..n \/ \E m \in DOMAIN s : i = n + m
    BY <1>1, AppendNew
  <1>3. \A i \in 1..n : ledger'[p][i] = ledger[p][i]
    BY <1>1, <1>2, AppendOld
  <1>4. PICK g, P : g = s[k].generation /\ P = Positions(p, "status", g)
    OBVIOUS
  <1>5. SUFFICES ASSUME s[k].type = "phone_unblocked", s[k].ref # 0
                 PROVE  LET before == {i \in Positions(p, "status", g)' : i < j}
                        IN  /\ before # {}
                            /\ ledger'[p][Max(before)].type = "phone_blocked"
                            /\ ledger'[p][Max(before)].ref = s[k].ref
    <2>1. ledger'[p][j] = s[k]
      BY <1>2
    <2>2. PICK e : e = s[k]
      OBVIOUS
    <2>3. ledger'[p][j] = e /\ g = e.generation
      BY <1>4, <2>1, <2>2
    <2> QED
      BY <1>5, <2>2, <2>3 DEF Unblocks
  <1>6. /\ P # {} /\ ledger[p][Max(P)].type = "phone_blocked" /\ ledger[p][Max(P)].ref = s[k].ref
        /\ \A m \in 1..(k - 1) : s[m].stream = "sanction"
    BY <1>1, <1>4, <1>5 DEF Lifts
  <1>7. {i \in Positions(p, "status", g)' : i < j} = P
    <2>1. ASSUME NEW i \in Positions(p, "status", g)', i < j PROVE i \in P
      <3>1. i \in DOMAIN ledger'[p] /\ ledger'[p][i].stream = "status"
        BY <2>1 DEF Positions
      <3>2. CASE i \in 1..n
        BY <1>1, <1>2, <1>4, <2>1, <3>2, PositionsGrow
      <3>3. ASSUME NEW m \in DOMAIN s, i = n + m PROVE FALSE
        <4>1. m \in 1..(k - 1)
          BY <1>2, <2>1, <3>3
        <4> QED
          BY <1>2, <1>6, <3>1, <3>3, <4>1
      <3> QED
        BY <1>2, <3>1, <3>2, <3>3
    <2>2. ASSUME NEW i \in P PROVE i \in Positions(p, "status", g)' /\ i < j
      <3>1. i \in 1..n
        BY <1>2, <1>4, <2>2 DEF Positions
      <3>2. i \in Positions(p, "status", g)'
        BY <1>1, <1>2, <1>4, <2>2, <3>1, PositionsGrow
      <3> QED
        BY <1>2, <3>1, <3>2
    <2> QED
      BY <2>1, <2>2
  <1>8. Max(P) \in 1..n
    <2>1. P \in SUBSET Nat /\ P \subseteq 1..n /\ \A i \in P : i <= n
      BY <1>2, <1>4 DEF Positions
    <2>2. Max(P) \in P
      BY <1>2, <1>6, <2>1, MaxIn
    <2> QED
      BY <2>1, <2>2
  <1> QED
    BY <1>3, <1>6, <1>7, <1>8

\* So the invariant is kept.
LEMMA LedgerKept ==
    ASSUME LedgerTypeOK, LedgerInv, NEW p, NEW s, Appends(p, s)
    PROVE  LedgerInv'
  <1>1. PICK n : Appended(p, s) /\ p \in Phones /\ n = Len(ledger[p])
    BY DEF Appends, Appended
  <1>2. /\ \A q \in Phones : q # p => ledger'[q] = ledger[q]
        /\ \A i \in DOMAIN ledger[p] : i \in DOMAIN ledger'[p] /\ ledger'[p][i] = ledger[p][i]
        /\ \A k \in DOMAIN s : ledger'[p][n + k] = s[k]
        /\ \A i \in DOMAIN ledger'[p] : i \in DOMAIN ledger[p] \/ \E k \in DOMAIN s : i = n + k
    BY <1>1, AppendOld, AppendNew
  <1>3. \A e : IsBan(p, e) => IsBan(p, e)'
    BY <1>2 DEF IsBan
  <1>4. ASSUME NEW q \in Phones, q # p, NEW i \in DOMAIN ledger'[q]
        PROVE  /\ ledger'[q][i].type = "qualifying_ban_overturned" => IsBan(q, ledger[q][i].ref)'
               /\ Positions(q, "status", ledger[q][i].generation)' # {}
               /\ Unblocks(q, i)'
    <2>1. ledger'[q] = ledger[q]
      BY <1>2, <1>4
    <2>2. \A g : Positions(q, "status", g)' = Positions(q, "status", g)
      BY <2>1 DEF Positions
    <2>3. i \in DOMAIN ledger[q]
      BY <1>4, <2>1
    <2>4. PICK e : e = ledger[q][i] /\ e = ledger'[q][i]
      BY <2>1
    <2>5. /\ e.type = "qualifying_ban_overturned" => IsBan(q, e.ref)
          /\ Positions(q, "status", e.generation) # {} /\ Unblocks(q, i)
      BY <1>4, <2>3, <2>4 DEF LedgerInv
    <2>6. \A x : IsBan(q, x) => IsBan(q, x)'
      BY <2>1 DEF IsBan
    <2>7. Unblocks(q, i)'
      BY <2>1, <2>2, <2>5 DEF Unblocks
    <2> QED
      BY <2>2, <2>4, <2>5, <2>6, <2>7
  <1>5. ASSUME NEW i \in DOMAIN ledger[p]
        PROVE  /\ ledger'[p][i].type = "qualifying_ban_overturned" => IsBan(p, ledger[p][i].ref)'
               /\ Positions(p, "status", ledger[p][i].generation)' # {}
               /\ Unblocks(p, i)'
    <2>1. /\ ledger[p][i].type = "qualifying_ban_overturned" => IsBan(p, ledger[p][i].ref)
          /\ Positions(p, "status", ledger[p][i].generation) # {}
          /\ Unblocks(p, i) /\ ledger'[p][i] = ledger[p][i]
      BY <1>1, <1>2 DEF LedgerInv
    <2>2. Unblocks(p, i)'
      BY <1>1, <2>1, OldUnblocks
    <2>3. PICK e : e = ledger[p][i]
      OBVIOUS
    <2>4. Positions(p, "status", e.generation)' # {}
      BY <1>1, <2>1, <2>3, PositionsGrow
    <2>5. e.type = "qualifying_ban_overturned" => IsBan(p, e.ref)'
      BY <1>3, <2>1, <2>3
    <2> QED
      BY <2>1, <2>2, <2>3, <2>4, <2>5
  <1>6. ASSUME NEW k \in DOMAIN s, NEW i, i = n + k
        PROVE  /\ ledger'[p][i].type = "qualifying_ban_overturned" => IsBan(p, ledger[p][i].ref)'
               /\ Positions(p, "status", ledger[p][i].generation)' # {}
               /\ Unblocks(p, i)'
    <2>1. /\ s[k].type = "qualifying_ban_overturned" => IsBan(p, s[k].ref)
          /\ Positions(p, "status", s[k].generation) # {} \/ StatusIn(s, s[k].generation)
      BY DEF Appends
    <2>2. ledger'[p][i] = s[k]
      BY <1>2, <1>6
    <2>3. Unblocks(p, i)'
      BY <1>1, <1>6, NewUnblocks
    <2>4. PICK e : e = s[k]
      OBVIOUS
    <2>5. Positions(p, "status", e.generation)' # {}
      BY <1>1, <2>1, <2>4, PositionsGrow
    <2>6. e.type = "qualifying_ban_overturned" => IsBan(p, e.ref)'
      BY <1>3, <2>1, <2>4
    <2> QED
      BY <2>2, <2>3, <2>4, <2>5, <2>6
  <1>7. ASSUME NEW q \in Phones, reputations'[q] # NoRow
        PROVE  Positions(q, "status", reputations[q].generation)' # {}
    <2>1. CASE q = p
      <3>1. PICK r : r = reputations'[p]
        OBVIOUS
      <3>2. Positions(p, "status", r.generation) # {} \/ StatusIn(s, r.generation)
        BY <1>7, <2>1, <3>1 DEF Appends
      <3>3. Positions(p, "status", r.generation)' # {}
        BY <1>1, <3>2, PositionsGrow
      <3> QED
        BY <2>1, <3>1, <3>3
    <2>2. CASE q # p
      <3>1. reputations'[q] = reputations[q] /\ ledger'[q] = ledger[q]
        BY <1>2, <2>2 DEF Appends
      <3> QED
        BY <1>7, <3>1 DEF LedgerInv, Positions
    <2> QED
      BY <2>1, <2>2
  <1> QED
    BY <1>2, <1>4, <1>5, <1>6, <1>7 DEF LedgerInv

-----------------------------------------------------------------------------
(* What each operation appends.                                            *)

LEMMA EventFields ==
    ASSUME NEW g, NEW n, NEW stream, NEW type, NEW op, NEW ref, NEW e,
           e = Event(g, n, stream, type, op, ref)
    PROVE  e.generation = g /\ e.stream = stream /\ e.type = type /\ e.ref = ref
  BY DEF Event

\* The row of p keeps a generation that has a status event, or gets one of the new event's.
RowsFollow(p, s) ==
    /\ \A q \in Phones : q # p => reputations'[q] = reputations[q]
    /\ reputations'[p] # NoRow =>
         \/ Positions(p, "status", reputations'[p].generation) # {}
         \/ StatusIn(s, reputations'[p].generation)

LEMMA AppendsNone ==
    ASSUME LedgerTypeOK, NEW p \in Phones, UNCHANGED ledger, RowsFollow(p, <<>>)
    PROVE  Appends(p, <<>>)
  <1>1. <<>> \in Seq(Events) /\ ledger' = [ledger EXCEPT ![p] = ledger[p] \o <<>>]
    BY RowFacts DEF LedgerTypeOK
  <1>2. DOMAIN <<>> = {}
    OBVIOUS
  <1> QED
    BY <1>1, <1>2 DEF Appends, Appended, RowsFollow

LEMMA AppendsOne ==
    ASSUME NEW p \in Phones, NEW a \in Events, NEW s, s = <<a>>,
           ledger' = [ledger EXCEPT ![p] = ledger[p] \o s],
           a.type = "qualifying_ban_overturned" => IsBan(p, a.ref),
           Positions(p, "status", a.generation) # {} \/ a.stream = "status",
           a.type = "phone_unblocked" => a.ref = 0,
           RowsFollow(p, s)
    PROVE  Appends(p, s) /\ DOMAIN s = {1} /\ s[1] = a
  <1>1. s \in Seq(Events) /\ DOMAIN s = {1} /\ s[1] = a
    OBVIOUS
  <1>2. Positions(p, "status", s[1].generation) # {} \/ StatusIn(s, s[1].generation)
    BY <1>1 DEF StatusIn
  <1>3. Lifts(p, s, 1)
    BY <1>1 DEF Lifts
  <1> QED
    BY <1>1, <1>2, <1>3 DEF Appends, Appended, RowsFollow

\* The latest status event of the generation is the block the event e lifts.
LiftsBlock(p, e) ==
    LET P == Positions(p, "status", e.generation)
    IN  P # {} /\ ledger[p][Max(P)].type = "phone_blocked" /\ ledger[p][Max(P)].ref = e.ref

LEMMA AppendsTwo ==
    ASSUME NEW p, NEW a, NEW b, NEW s, s = <<a, b>>, Appended(p, s),
           a.type = "qualifying_ban_overturned" => IsBan(p, a.ref),
           a.type # "phone_unblocked", b.type # "qualifying_ban_overturned",
           a.generation = b.generation,
           Positions(p, "status", a.generation) # {} \/ a.stream = "status" \/ b.stream = "status",
           b.type = "phone_unblocked" => a.stream = "sanction" /\ LiftsBlock(p, b),
           RowsFollow(p, s)
    PROVE  Appends(p, s) /\ DOMAIN s = {1, 2} /\ s[1] = a /\ s[2] = b
  <1>1. DOMAIN s = {1, 2} /\ s[1] = a /\ s[2] = b
    OBVIOUS
  <1>2. \A k \in {1, 2} : Positions(p, "status", s[k].generation) # {} \/ StatusIn(s, s[k].generation)
    BY <1>1 DEF StatusIn
  <1>3. Lifts(p, s, 1)
    BY <1>1 DEF Lifts
  <1>4. Lifts(p, s, 2)
    <2>1. \A m \in 1..(2 - 1) : m = 1
      OBVIOUS
    <2> QED
      BY <1>1, <2>1 DEF Lifts, LiftsBlock
  <1>5. \A k \in DOMAIN s : s[k].type = "qualifying_ban_overturned" => IsBan(p, s[k].ref)
    BY <1>1
  <1> QED
    BY <1>1, <1>2, <1>3, <1>4, <1>5 DEF Appends, RowsFollow

\* Nothing is overturned by these events.
Overturns(s, e) == \E k \in DOMAIN s : s[k].type = "qualifying_ban_overturned" /\ s[k].ref = e

LEMMA StartAppends ==
    ASSUME LedgerTypeOK, LedgerInv, NEW p \in Phones, NEW g \in 1..MaxGenerations,
           StartGeneration(p, Len(operations) + 1, g)
    PROVE  \E s : Appends(p, s) /\ \A e : ~Overturns(s, e)
  <1> DEFINE op == Len(operations) + 1
  <1>1. PICK a, b, s : /\ a = Event(g, 1, "status", "generation_started", op, 0)
                       /\ b = Event(g, 2, "sanction", "generation_started", op, 0)
                       /\ s = <<a, b>>
    OBVIOUS
  <1>2. op \in 1..MaxOperations
    BY RecordType DEF StartGeneration
  <1>3. ledger' = [ledger EXCEPT ![p] = ledger[p] \o s]
    BY <1>1 DEF StartGeneration
  <1> HIDE DEF op
  <1>4. a \in Events /\ b \in Events
    BY <1>1, <1>2, EventType DEF EventTypes
  <1>5. /\ a.generation = g /\ a.stream = "status" /\ a.type = "generation_started" /\ a.ref = 0
        /\ b.generation = g /\ b.stream = "sanction" /\ b.type = "generation_started" /\ b.ref = 0
    BY <1>1, EventFields
  <1>6. DOMAIN s = {1, 2} /\ s[1] = a /\ s[2] = b
    BY <1>1
  <1>10. Appended(p, s)
    BY <1>1, <1>3, <1>4 DEF Appended
  <1>7. RowsFollow(p, s)
    <2>1. reputations' = [reputations EXCEPT ![p] = NewRow(g)] /\ NewRow(g).generation = g
      BY DEF StartGeneration, NewRow
    <2>2. \A q \in Phones : q # p => reputations'[q] = reputations[q]
      BY <2>1 DEF LedgerTypeOK
    <2>3. reputations'[p].generation = g
      BY <2>1 DEF LedgerTypeOK
    <2>4. StatusIn(s, g)
      BY <1>5, <1>6 DEF StatusIn
    <2> QED
      BY <2>2, <2>3, <2>4 DEF RowsFollow
  <1>8. Appends(p, s)
    <2>1. /\ a.type # "qualifying_ban_overturned" /\ a.type # "phone_unblocked"
          /\ b.type # "qualifying_ban_overturned" /\ b.type # "phone_unblocked"
          /\ a.generation = b.generation /\ a.stream = "status" /\ s = <<a, b>>
      BY <1>1, <1>5
    <2> QED
      BY <1>7, <1>10, <2>1, AppendsTwo
  <1>9. \A e : ~Overturns(s, e)
    BY <1>5, <1>6 DEF Overturns
  <1> QED
    BY <1>8, <1>9

\* The row keeps its generation.
LEMMA SameGeneration ==
    ASSUME LedgerTypeOK, LedgerInv, NEW p \in Phones, NEW s,
           reputations[p] # NoRow \/ UNCHANGED reputations, NEW r,
           reputations' = [reputations EXCEPT ![p] = r], r.generation = reputations[p].generation
    PROVE  RowsFollow(p, s)
  <1>1. \A q \in Phones : q # p => reputations'[q] = reputations[q]
    BY DEF LedgerTypeOK
  <1>2. reputations'[p] = r
    BY DEF LedgerTypeOK
  <1>3. reputations'[p] # NoRow => reputations[p] # NoRow
    BY <1>2
  <1>4. reputations[p] # NoRow => Positions(p, "status", reputations[p].generation) # {}
    BY DEF LedgerInv
  <1> QED
    BY <1>1, <1>2, <1>3, <1>4 DEF RowsFollow

LEMMA StatusAppends ==
    ASSUME LedgerTypeOK, LedgerInv, NEW p \in Phones, NEW op, NewOperation(op),
           BlockPhone(op, p) \/ UnblockPhone(op, p)
    PROVE  \E s : Appends(p, s) /\ \A e : ~Overturns(s, e)
  <1>1. PICK row, g, n : row = reputations[p] /\ g = row.generation /\ n = NextSequence(p, g)
    OBVIOUS
  <1>2. row \in Rows /\ g \in 1..MaxGenerations /\ n \in Nat /\ reputations[p] # NoRow
    <2>1. reputations[p] \in Rows
      BY RowFacts DEF BlockPhone, UnblockPhone
    <2> QED
      BY <1>1, <2>1, RowFacts, NextSequenceType, KnownRow
  <1>3. op \in 1..MaxOperations
    <2>1. \E k \in 0..1 : Record(p, g, 0, k)
      BY <1>1 DEF BlockPhone, UnblockPhone
    <2> QED
      BY <1>2, <2>1, RecordType DEF NewOperation
  <1>4. CASE UNCHANGED <<reputations, ledger>>
    <2>1. reputations' = [reputations EXCEPT ![p] = row]
      BY <1>1, <1>4 DEF LedgerTypeOK
    <2>2. Appends(p, <<>>)
      BY <1>1, <1>2, <1>4, <2>1, SameGeneration, AppendsNone
    <2>3. \A e : ~Overturns(<<>>, e)
      BY DEF Overturns
    <2> QED
      BY <2>2, <2>3
  <1>5. ASSUME NEW type \in {"phone_blocked", "phone_unblocked"}, NEW r,
               ledger' = [ledger EXCEPT ![p] = Append(ledger[p], Event(g, n, "status", type, op, 0))],
               reputations' = [reputations EXCEPT ![p] = r], r.generation = g
        PROVE  \E s : Appends(p, s) /\ \A e : ~Overturns(s, e)
    <2>1. PICK a, s : a = Event(g, n, "status", type, op, 0) /\ s = <<a>>
      OBVIOUS
    <2>2. a \in Events
      BY <1>2, <1>3, <2>1, EventType DEF EventTypes
    <2>3. a.generation = g /\ a.stream = "status" /\ a.type = type /\ a.ref = 0
      BY <2>1, EventFields
    <2>4. Append(ledger[p], a) = ledger[p] \o s
      BY <2>1, <2>2, RowFacts
    <2>5. ledger' = [ledger EXCEPT ![p] = ledger[p] \o s]
      BY <1>5, <2>1, <2>4
    <2>6. RowsFollow(p, s)
      BY <1>1, <1>2, <1>5, SameGeneration
    <2>7. a.type # "qualifying_ban_overturned"
      BY <2>3
    <2>8. Appends(p, s) /\ DOMAIN s = {1} /\ s[1] = a
      BY <2>1, <2>2, <2>3, <2>5, <2>6, <2>7, AppendsOne
    <2> QED
      BY <2>7, <2>8 DEF Overturns
  <1>6. CASE /\ AppendStatus(p, op, "phone_blocked", 0)
             /\ reputations' = [reputations EXCEPT ![p].status = "blocked", ![p].blockedAt = op]
    <2>1. PICK r : r = [row EXCEPT !.status = "blocked", !.blockedAt = op]
      OBVIOUS
    <2>2. reputations' = [reputations EXCEPT ![p] = r] /\ r.generation = g
      BY <1>1, <1>2, <1>6, <2>1 DEF LedgerTypeOK, Rows
    <2>3. ledger' = [ledger EXCEPT ![p] = Append(ledger[p], Event(g, n, "status", "phone_blocked", op, 0))]
      BY <1>1, <1>6 DEF AppendStatus
    <2> QED
      BY <1>5, <2>2, <2>3
  <1>7. CASE /\ AppendStatus(p, op, "phone_unblocked", 0)
             /\ reputations' = [reputations EXCEPT ![p].status = "normal", ![p].blockedAt = 0]
    <2>1. PICK r : r = [row EXCEPT !.status = "normal", !.blockedAt = 0]
      OBVIOUS
    <2>2. reputations' = [reputations EXCEPT ![p] = r] /\ r.generation = g
      BY <1>1, <1>2, <1>7, <2>1 DEF LedgerTypeOK, Rows
    <2>3. ledger' = [ledger EXCEPT ![p] = Append(ledger[p], Event(g, n, "status", "phone_unblocked", op, 0))]
      BY <1>1, <1>7 DEF AppendStatus
    <2> QED
      BY <1>5, <2>2, <2>3
  <1> QED
    BY <1>4, <1>6, <1>7 DEF BlockPhone, UnblockPhone

LEMMA BanAppends ==
    ASSUME LedgerTypeOK, LedgerInv, NEW p \in Phones, reputations[p] # NoRow,
           NEW op, NewOperation(op), BanPhone(op, p)
    PROVE  \E s : /\ Appends(p, s) /\ \A e : ~Overturns(s, e)
                  /\ 1 \in DOMAIN s /\ s[1].type = "qualifying_ban_applied"
  <1>1. PICK row, g, n, blocks, a, b :
           /\ row = reputations[p] /\ g = row.generation /\ n = NextSequence(p, g)
           /\ blocks = ShouldBlock(p)
           /\ a = Event(g, n, "sanction", "qualifying_ban_applied", op, 0)
           /\ b = Event(g, n + 1, "status", "phone_blocked", op, Len(ledger[p]) + 1)
    OBVIOUS
  <1>2. /\ row \in Rows /\ g \in 1..MaxGenerations
        /\ n \in Nat /\ n + 1 \in Nat /\ Len(ledger[p]) + 1 \in Nat
    BY <1>1, RowFacts, NextSequenceType
  <1>3. op \in 1..MaxOperations
    <2>1. \E k \in 0..1 : Record(p, g, 1, k)
      BY <1>1 DEF BanPhone
    <2> QED
      BY <1>2, <2>1, RecordType DEF NewOperation
  <1>4. a \in Events /\ b \in Events
    BY <1>1, <1>2, <1>3, EventType DEF EventTypes
  <1>5. /\ a.generation = g /\ a.stream = "sanction" /\ a.type = "qualifying_ban_applied" /\ a.ref = 0
        /\ b.generation = g /\ b.stream = "status" /\ b.type = "phone_blocked"
    BY <1>1, EventFields
  <1>6. Positions(p, "status", g) # {}
    BY <1>1 DEF LedgerInv
  <1>7. ASSUME NEW s PROVE RowsFollow(p, s)
    <2>1. PICK r : r = [row EXCEPT !.count = row.count + 1, !.lastBanAt = op,
                                   !.status = IF blocks THEN "blocked" ELSE row.status,
                                   !.blockedAt = IF blocks THEN op ELSE row.blockedAt]
      OBVIOUS
    <2>2. reputations' = [reputations EXCEPT ![p] = r]
      BY <1>1, <2>1 DEF BanPhone
    <2>3. r.generation = g
      BY <1>1, <1>2, <2>1 DEF Rows
    <2> QED
      BY <1>1, <2>2, <2>3, SameGeneration
  <1>8. ledger' = [ledger EXCEPT ![p] = ledger[p] \o IF blocks THEN <<a, b>> ELSE <<a>>]
    BY <1>1 DEF BanPhone
  <1>9. /\ a.type # "qualifying_ban_overturned" /\ a.type # "phone_unblocked"
        /\ b.type # "qualifying_ban_overturned" /\ b.type # "phone_unblocked"
        /\ a.generation = b.generation /\ Positions(p, "status", a.generation) # {}
    BY <1>5, <1>6
  <1>10. CASE blocks
    <2>1. PICK s : s = <<a, b>>
      OBVIOUS
    <2>2. ledger' = [ledger EXCEPT ![p] = ledger[p] \o s]
      BY <1>8, <1>10, <2>1
    <2>3. Appended(p, s)
      BY <1>4, <2>1, <2>2 DEF Appended
    <2>4. Appends(p, s) /\ DOMAIN s = {1, 2} /\ s[1] = a /\ s[2] = b
      BY <1>7, <1>9, <2>1, <2>3, AppendsTwo
    <2> QED
      BY <1>5, <1>9, <2>4 DEF Overturns
  <1>11. CASE ~blocks
    <2>1. PICK s : s = <<a>>
      OBVIOUS
    <2>2. ledger' = [ledger EXCEPT ![p] = ledger[p] \o s]
      BY <1>8, <1>11, <2>1
    <2>3. Appends(p, s) /\ DOMAIN s = {1} /\ s[1] = a
      BY <1>4, <1>7, <1>9, <2>1, <2>2, AppendsOne
    <2> QED
      BY <1>5, <1>9, <2>3 DEF Overturns
  <1> QED
    BY <1>10, <1>11

LEMMA OverturnAppends ==
    ASSUME LedgerTypeOK, LedgerInv, NEW p \in Phones, NEW e, IsBan(p, e),
           NEW op, NewOperation(op), OverturnBan(op, p, e)
    PROVE  \E s : Appends(p, s) /\ \A x : Overturns(s, x) <=> x = e
  <1>1. PICK g, n, unblocks, a, b :
           /\ g = ledger[p][e].generation /\ n = NextSequence(p, g)
           /\ unblocks = ShouldUnblock(p, e)
           /\ a = Event(g, n, "sanction", "qualifying_ban_overturned", op, e)
           /\ b = Event(g, n + 1, "status", "phone_unblocked", op, e)
    OBVIOUS
  <1>2. e \in DOMAIN ledger[p] /\ e \in Nat /\ g \in 1..MaxGenerations /\ n \in Nat /\ n + 1 \in Nat
    BY <1>1, RowFacts, NextSequenceType DEF IsBan
  <1>3. op \in 1..MaxOperations
    <2>1. \E k \in 0..1 : Record(p, g, 1, k)
      BY <1>1 DEF OverturnBan
    <2> QED
      BY <1>2, <2>1, RecordType DEF NewOperation
  <1>4. a \in Events /\ b \in Events
    BY <1>1, <1>2, <1>3, EventType DEF EventTypes
  <1>5. /\ a.generation = g /\ a.stream = "sanction" /\ a.type = "qualifying_ban_overturned" /\ a.ref = e
        /\ b.generation = g /\ b.stream = "status" /\ b.type = "phone_unblocked" /\ b.ref = e
    BY <1>1, EventFields
  <1>6. Positions(p, "status", g) # {}
    BY <1>1, <1>2 DEF LedgerInv
  <1>7. ASSUME NEW s PROVE RowsFollow(p, s)
    <2>1. PICK row : row = reputations[p]
      OBVIOUS
    <2>2. CASE Counted(p, e)
      <3>1. row \in Rows /\ row # NoRow
        BY <1>1, <1>2, <2>1, <2>2, RowFacts, KnownRow DEF Counted
      <3>2. PICK r : r = [row EXCEPT !.count = row.count - 1,
                                     !.status = IF unblocks THEN "normal" ELSE row.status,
                                     !.blockedAt = IF unblocks THEN 0 ELSE row.blockedAt]
        OBVIOUS
      <3>3. reputations' = [reputations EXCEPT ![p] = r]
        BY <1>1, <2>1, <2>2, <3>2 DEF OverturnBan, LedgerTypeOK
      <3>4. r.generation = row.generation
        BY <3>1, <3>2 DEF Rows
      <3> QED
        BY <2>1, <3>1, <3>3, <3>4, SameGeneration
    <2>3. CASE ~Counted(p, e)
      <3>1. UNCHANGED reputations /\ reputations' = [reputations EXCEPT ![p] = row]
        BY <2>1, <2>3 DEF OverturnBan, LedgerTypeOK
      <3> QED
        BY <2>1, <3>1, SameGeneration
    <2> QED
      BY <2>2, <2>3
  <1>8. ledger' = [ledger EXCEPT ![p] = ledger[p] \o IF unblocks THEN <<a, b>> ELSE <<a>>]
    BY <1>1 DEF OverturnBan
  <1>9. /\ a.type # "phone_unblocked" /\ b.type # "qualifying_ban_overturned"
        /\ a.generation = b.generation /\ Positions(p, "status", a.generation) # {}
        /\ IsBan(p, a.ref) /\ a.stream = "sanction"
    BY <1>5, <1>6
  <1>10. CASE unblocks
    <2>1. PICK s : s = <<a, b>>
      OBVIOUS
    <2>2. ledger' = [ledger EXCEPT ![p] = ledger[p] \o s]
      BY <1>8, <1>10, <2>1
    <2>3. PICK P : P = Positions(p, "status", g)
      OBVIOUS
    <2>4. ledger[p][Max(P)].type = "phone_blocked" /\ ledger[p][Max(P)].ref = e
      BY <1>1, <1>10, <2>3 DEF ShouldUnblock
    <2>5. LiftsBlock(p, b)
      BY <1>5, <1>6, <2>3, <2>4 DEF LiftsBlock
    <2>7. Appended(p, s)
      BY <1>4, <2>1, <2>2 DEF Appended
    <2>6. Appends(p, s) /\ DOMAIN s = {1, 2} /\ s[1] = a /\ s[2] = b
      BY <1>7, <1>9, <2>1, <2>5, <2>7, AppendsTwo
    <2> QED
      BY <1>5, <1>9, <2>6 DEF Overturns
  <1>11. CASE ~unblocks
    <2>1. PICK s : s = <<a>>
      OBVIOUS
    <2>2. ledger' = [ledger EXCEPT ![p] = ledger[p] \o s]
      BY <1>8, <1>11, <2>1
    <2>3. Appends(p, s) /\ DOMAIN s = {1} /\ s[1] = a
      BY <1>4, <1>7, <1>9, <2>1, <2>2, AppendsOne
    <2> QED
      BY <1>5, <2>3 DEF Overturns
  <1> QED
    BY <1>10, <1>11

\* The steps, as the ledger and the bans see them.
LEMMA BanMoves ==
    ASSUME TypeOK, LedgerInv, [Next]_vars
    PROVE  \/ UNCHANGED ledgerVars /\ bans' \subseteq bans
           \/ \E p, s : Appends(p, s) /\ (\A e : ~Overturns(s, e)) /\ bans' \subseteq bans
           \/ \E op \in 1..MaxOperations, u \in Users : ApplyQualifyingBan(op, u)
           \/ \E op \in 1..MaxOperations, p \in Phones : \E e \in DOMAIN ledger[p] :
                OverturnQualifyingBan(op, p, e)
  <1> DEFINE Still == UNCHANGED ledgerVars /\ bans' \subseteq bans
             Grows == \E p, s : Appends(p, s) /\ (\A e : ~Overturns(s, e)) /\ bans' \subseteq bans
  <1>1. LedgerTypeOK /\ 1 \in 1..MaxGenerations
    BY LedgerAssumption DEF TypeOK, AccountTypeOK
  <1>2. ASSUME SessionsOnly PROVE Still
    BY <1>2 DEF SessionsOnly
  <1>3. ASSUME NEW g \in Grants,
               CompleteRegistration(g) \/ \E u \in Users : CompletePhoneChange(u, g)
        PROVE  Still \/ Grows
    <2>1. PICK p : p = grants[g].phone /\ EnsurePhone(p) /\ bans' = bans
      BY <1>3 DEF CompleteRegistration, CompletePhoneChange
    <2>2. p \in Phones
      <3>1. grants[g] # NoGrant
        BY <1>3 DEF CompleteRegistration, CompletePhoneChange, Usable
      <3> QED
        BY <2>1, <3>1, CodeRows, GrantFields
    <2>3. CASE UNCHANGED ledgerVars
      BY <2>1, <2>3
    <2>4. CASE StartGeneration(p, Len(operations) + 1, 1)
      BY <1>1, <2>1, <2>2, <2>4, StartAppends
    <2> QED
      BY <2>1, <2>3, <2>4 DEF EnsurePhone
  <1>4. ASSUME NEW u, DeleteOwnedRows(u), UNCHANGED ledgerVars PROVE Still
    BY <1>4 DEF DeleteOwnedRows
  <1>5. ASSUME NEW u \in Users, EraseAccount(u) PROVE Still
    BY <1>4, <1>5 DEF EraseAccount
  <1>6. ASSUME NEW g \in Grants, EraseQualifyingBannedAccount(g) PROVE Still
    BY <1>4, <1>6 DEF EraseQualifyingBannedAccount
  <1>7. ASSUME NEW u \in Users, NEW status, SetUserStatus(u, status) PROVE Still
    BY <1>7 DEF SetUserStatus
  <1>8. ASSUME NEW u \in Users, NEW subject, AttachIdentity(u, subject) PROVE Still
    BY <1>8 DEF AttachIdentity
  <1>9. ASSUME NEW op \in 1..MaxOperations, NEW p \in Phones, ResetForReassignment(op, p)
        PROVE  Grows
    <2> DEFINE g == reputations[p].generation + 1
    <2>1. /\ reputations[p] \in Rows /\ reputations[p].generation < MaxGenerations
          /\ op = Len(operations) + 1 /\ StartGeneration(p, op, g) /\ bans' = bans
      BY <1>1, <1>9, RowFacts DEF ResetForReassignment, ReassignPhone, NewOperation, accountVars
    <2>2. g \in 1..MaxGenerations
      BY <2>1, LedgerAssumption DEF Rows
    <2> QED
      BY <1>1, <2>1, <2>2, StartAppends
  <1>10. ASSUME NEW op \in 1..MaxOperations, NEW p \in Phones,
                AdministrativeBlockPhone(op, p) \/ AdministrativeUnblockPhone(op, p)
         PROVE  Grows
    <2>1. NewOperation(op) /\ (BlockPhone(op, p) \/ UnblockPhone(op, p)) /\ bans' = bans
      BY <1>10 DEF AdministrativeBlockPhone, AdministrativeUnblockPhone, accountVars
    <2> QED
      BY <1>1, <2>1, StatusAppends
  <1> HIDE DEF Still, Grows
  <1>11. Still \/ Grows \/ (\E op \in 1..MaxOperations, u \in Users : ApplyQualifyingBan(op, u))
         \/ \E op \in 1..MaxOperations, p \in Phones : \E e \in DOMAIN ledger[p] :
              OverturnQualifyingBan(op, p, e)
    <2>1. CASE \E op \in 1..MaxOperations : Sanction(op)
      BY <2>1, <1>9, <1>10 DEF Sanction
    <2>2. CASE \E g \in Grants : CompleteRegistration(g)
      BY <2>2, <1>3
    <2>3. CASE \E g \in Grants, u \in Users : CompletePhoneChange(u, g)
      BY <2>3, <1>3
    <2>4. CASE SessionsOnly
      BY <1>2, <2>4
    <2> QED
      BY <1>5, <1>6, <1>7, <1>8, <2>1, <2>2, <2>3, <2>4, DatabaseMoves
  <1> QED
    BY <1>11 DEF Still, Grows

\* Bans stay bans; what is overturned is what was and what the events overturn.
LEMMA OverturnedAfter ==
    ASSUME LedgerTypeOK, NEW p, NEW s, Appends(p, s)
    PROVE  /\ \A q \in Phones : \A e : IsBan(q, e) => IsBan(q, e)'
           /\ \A q \in Phones : \A e :
                Overturned(q, e)' <=> Overturned(q, e) \/ (q = p /\ Overturns(s, e))
  <1>1. PICK n : Appended(p, s) /\ p \in Phones /\ n = Len(ledger[p])
    BY DEF Appends, Appended
  <1>2. /\ \A q \in Phones : q # p => ledger'[q] = ledger[q]
        /\ \A i \in DOMAIN ledger[p] : i \in DOMAIN ledger'[p] /\ ledger'[p][i] = ledger[p][i]
        /\ \A k \in DOMAIN s : n + k \in DOMAIN ledger'[p] /\ ledger'[p][n + k] = s[k]
        /\ \A i \in DOMAIN ledger'[p] : i \in DOMAIN ledger[p] \/ \E k \in DOMAIN s : i = n + k
    BY <1>1, AppendOld, AppendNew
  <1>3. ASSUME NEW q \in Phones, NEW e, IsBan(q, e) PROVE IsBan(q, e)'
    BY <1>2, <1>3 DEF IsBan
  <1>4. ASSUME NEW e PROVE Overturned(p, e)' <=> Overturned(p, e) \/ Overturns(s, e)
    <2>1. Overturned(p, e) => Overturned(p, e)'
      BY <1>2 DEF Overturned
    <2>2. Overturns(s, e) => Overturned(p, e)'
      BY <1>2 DEF Overturned, Overturns
    <2>3. ASSUME NEW i \in DOMAIN ledger'[p], ledger'[p][i].type = "qualifying_ban_overturned",
                 ledger'[p][i].ref = e
          PROVE  Overturned(p, e) \/ Overturns(s, e)
      <3>1. CASE i \in DOMAIN ledger[p]
        BY <1>2, <2>3, <3>1 DEF Overturned
      <3>2. CASE \E k \in DOMAIN s : i = n + k
        BY <1>2, <2>3, <3>2 DEF Overturns
      <3> QED
        BY <1>2, <3>1, <3>2
    <2> QED
      BY <2>1, <2>2, <2>3 DEF Overturned
  <1>5. ASSUME NEW q \in Phones, q # p, NEW e PROVE Overturned(q, e)' <=> Overturned(q, e)
    BY <1>2, <1>5 DEF Overturned
  <1> QED
    BY <1>3, <1>4, <1>5

\* The ban's event is new, and not overturned.
LEMMA NewBan ==
    ASSUME LedgerTypeOK, LedgerInv, NEW p, NEW s, Appends(p, s), \A e : ~Overturns(s, e),
           1 \in DOMAIN s, s[1].type = "qualifying_ban_applied", NEW e, e = Len(ledger[p]) + 1
    PROVE  IsBan(p, e)' /\ ~Overturned(p, e)'
  <1>1. PICK n : Appended(p, s) /\ p \in Phones /\ n = Len(ledger[p]) /\ e = n + 1
    BY DEF Appends, Appended
  <1>2. n + 1 \in DOMAIN ledger'[p] /\ ledger'[p][n + 1] = s[1] /\ n \in Nat /\ DOMAIN ledger[p] = 1..n
    BY <1>1, AppendNew
  <1>3. IsBan(p, e)'
    BY <1>1, <1>2 DEF IsBan
  <1>4. ~IsBan(p, e)
    BY <1>1, <1>2 DEF IsBan
  <1>5. Overturned(p, e) => IsBan(p, e)
    BY <1>1 DEF Overturned, LedgerInv
  <1> QED
    BY <1>1, <1>3, <1>4, <1>5, OverturnedAfter

LEMMA LedgerStays ==
    ASSUME LedgerInv, UNCHANGED ledgerVars
    PROVE  /\ LedgerInv'
           /\ \A p \in Phones : \A e : (IsBan(p, e)' <=> IsBan(p, e)) /\ (Overturned(p, e)' <=> Overturned(p, e))
  <1>1. ledger' = ledger /\ reputations' = reputations
    BY DEF ledgerVars
  <1>2. \A p \in Phones : \A e : (IsBan(p, e)' <=> IsBan(p, e)) /\ (Overturned(p, e)' <=> Overturned(p, e))
    BY <1>1 DEF IsBan, Overturned
  <1>3. \A p \in Phones : \A g : Positions(p, "status", g)' = Positions(p, "status", g)
    BY <1>1 DEF Positions
  <1>4. ASSUME NEW p \in Phones, NEW i \in DOMAIN ledger'[p]
        PROVE  /\ ledger'[p][i].type = "qualifying_ban_overturned" => IsBan(p, ledger[p][i].ref)'
               /\ Positions(p, "status", ledger[p][i].generation)' # {}
               /\ Unblocks(p, i)'
    <2>1. PICK e : e = ledger[p][i] /\ e = ledger'[p][i]
      BY <1>1
    <2>2. /\ e.type = "qualifying_ban_overturned" => IsBan(p, e.ref)
          /\ Positions(p, "status", e.generation) # {} /\ Unblocks(p, i)
      BY <1>1, <1>4, <2>1 DEF LedgerInv
    <2>3. Unblocks(p, i)'
      BY <1>1, <1>3, <2>2 DEF Unblocks
    <2> QED
      BY <1>2, <1>3, <2>1, <2>2, <2>3
  <1>5. ASSUME NEW p \in Phones, reputations'[p] # NoRow
        PROVE  Positions(p, "status", reputations[p].generation)' # {}
    BY <1>1, <1>3, <1>5 DEF LedgerInv
  <1> QED
    BY <1>2, <1>4, <1>5 DEF LedgerInv

\* Bans that only disappear with their accounts still agree.
LEMMA FewerBans ==
    ASSUME BansMatchLedger, bans \subseteq Bans, bans' \subseteq bans,
           \A p \in Phones : \A e : /\ IsBan(p, e) => IsBan(p, e)'
                                    /\ Overturned(p, e)' <=> Overturned(p, e)
    PROVE  BansMatchLedger'
  <1>1. \A b \in bans' : b \in bans /\ b.phone \in Phones
    BY DEF Bans
  <1>2. ASSUME NEW b \in bans'
        PROVE  IsBan(b.phone, b.event)' /\ (b.overturned <=> Overturned(b.phone, b.event)')
    <2>1. PICK q, e : q = b.phone /\ e = b.event /\ q \in Phones
      BY <1>1, <1>2
    <2>2. IsBan(q, e) /\ (b.overturned <=> Overturned(q, e))
      BY <1>1, <1>2, <2>1 DEF BansMatchLedger
    <2>3. IsBan(q, e)' /\ (Overturned(q, e)' <=> Overturned(q, e))
      BY <2>1, <2>2
    <2> QED
      BY <2>1, <2>2, <2>3
  <1>3. \A b, c \in bans' : b.user = c.user /\ ~b.overturned /\ ~c.overturned => b = c
    BY <1>1 DEF BansMatchLedger
  <1> QED
    BY <1>2, <1>3 DEF BansMatchLedger

LEMMA BanKeepsMatch ==
    ASSUME TypeOK, LedgerInv, BansMatchLedger,
           NEW op \in 1..MaxOperations, NEW u \in Users, ApplyQualifyingBan(op, u)
    PROVE  LedgerInv' /\ BansMatchLedger'
  <1>1. LedgerTypeOK /\ bans \subseteq Bans
    BY DEF TypeOK, AccountTypeOK
  <1>2. PICK p, n, b : /\ p = ActivePhone(u) /\ n = Len(ledger[p]) + 1
                       /\ b = [user |-> u, phone |-> p, event |-> n, overturned |-> FALSE]
    OBVIOUS
  <1>3. /\ NewOperation(op) /\ p \in Phones /\ reputations[p] # NoRow /\ BanPhone(op, p)
        /\ ~EffectiveBan(u) /\ bans' = bans \cup {b}
    BY <1>2, ActivePhoneIn DEF ApplyQualifyingBan
  <1>4. PICK s : /\ Appends(p, s) /\ \A e : ~Overturns(s, e)
                 /\ 1 \in DOMAIN s /\ s[1].type = "qualifying_ban_applied"
    BY <1>1, <1>3, BanAppends
  <1>5. /\ \A q \in Phones : \A e : IsBan(q, e) => IsBan(q, e)'
        /\ \A q \in Phones : \A e : Overturned(q, e)' <=> Overturned(q, e)
    BY <1>1, <1>4, OverturnedAfter
  <1>6. IsBan(p, n)' /\ ~Overturned(p, n)'
    BY <1>1, <1>2, <1>4, NewBan
  <1>7. b.user = u /\ b.phone = p /\ b.event = n /\ b.overturned = FALSE
    BY <1>2
  <1>8. ASSUME NEW c \in bans'
        PROVE  IsBan(c.phone, c.event)' /\ (c.overturned <=> Overturned(c.phone, c.event)')
    <2>1. CASE c \in bans
      <3>1. c.phone \in Phones
        BY <1>1, <2>1 DEF Bans
      <3> QED
        BY <1>5, <2>1, <3>1 DEF BansMatchLedger
    <2>2. CASE c = b
      BY <1>6, <1>7, <2>2
    <2> QED
      BY <1>3, <1>8, <2>1, <2>2
  <1>9. ASSUME NEW c \in bans', NEW d \in bans', c.user = d.user, ~c.overturned, ~d.overturned
        PROVE  c = d
    <2>1. \A x \in bans : x.user = u => x.overturned
      BY <1>3 DEF EffectiveBan
    <2>2. \A x \in bans' : x \in bans \/ x = b
      BY <1>3
    <2> QED
      BY <1>7, <1>9, <2>1, <2>2 DEF BansMatchLedger
  <1> QED
    BY <1>1, <1>4, <1>8, <1>9, LedgerKept DEF BansMatchLedger

LEMMA OverturnKeepsMatch ==
    ASSUME TypeOK, LedgerInv, BansMatchLedger,
           NEW op \in 1..MaxOperations, NEW p \in Phones, NEW e \in DOMAIN ledger[p],
           OverturnQualifyingBan(op, p, e)
    PROVE  LedgerInv' /\ BansMatchLedger'
  <1>1. LedgerTypeOK /\ bans \subseteq Bans
    BY DEF TypeOK, AccountTypeOK
  <1>2. /\ NewOperation(op) /\ IsBan(p, e) /\ OverturnBan(op, p, e)
        /\ bans' = {IF b.phone = p /\ b.event = e THEN [b EXCEPT !.overturned = TRUE] ELSE b : b \in bans}
    BY DEF OverturnQualifyingBan
  <1>3. PICK s : Appends(p, s) /\ \A x : Overturns(s, x) <=> x = e
    BY <1>1, <1>2, OverturnAppends
  <1>4. /\ \A q \in Phones : \A x : IsBan(q, x) => IsBan(q, x)'
        /\ \A q \in Phones : \A x : Overturned(q, x)' <=> Overturned(q, x) \/ (q = p /\ x = e)
    BY <1>1, <1>3, OverturnedAfter
  <1>5. ASSUME NEW c \in bans'
        PROVE  \E b \in bans : /\ b.phone \in Phones /\ c.user = b.user
                               /\ c.phone = b.phone /\ c.event = b.event
                               /\ c.overturned <=> b.overturned \/ (b.phone = p /\ b.event = e)
                               /\ ~c.overturned => c = b
    <2>1. PICK b \in bans :
             c = IF b.phone = p /\ b.event = e THEN [b EXCEPT !.overturned = TRUE] ELSE b
      BY <1>2, <1>5
    <2>2. b \in Bans
      BY <1>1
    <2>3. CASE b.phone = p /\ b.event = e
      <3>1. c = [b EXCEPT !.overturned = TRUE]
        BY <2>1, <2>3
      <3>2. c.overturned = TRUE /\ c.user = b.user /\ c.phone = b.phone /\ c.event = b.event
        BY <2>2, <3>1 DEF Bans
      <3>3. b.phone \in Phones
        BY <2>2 DEF Bans
      <3> QED
        BY <2>3, <3>2, <3>3
    <2>4. CASE ~(b.phone = p /\ b.event = e)
      <3>1. c = b
        BY <2>1, <2>4
      <3>2. b.phone \in Phones
        BY <2>2 DEF Bans
      <3> QED
        BY <2>4, <3>1, <3>2
    <2> QED
      BY <2>3, <2>4
  <1>6. ASSUME NEW c \in bans'
        PROVE  IsBan(c.phone, c.event)' /\ (c.overturned <=> Overturned(c.phone, c.event)')
    BY <1>4, <1>5, <1>6 DEF BansMatchLedger
  <1>7. ASSUME NEW c \in bans', NEW d \in bans', c.user = d.user, ~c.overturned, ~d.overturned
        PROVE  c = d
    <2>1. c \in bans /\ d \in bans
      BY <1>5, <1>7
    <2> QED
      BY <1>7, <2>1 DEF BansMatchLedger
  <1> QED
    BY <1>1, <1>3, <1>6, <1>7, LedgerKept DEF BansMatchLedger

LEMMA BansStep ==
    ASSUME TypeOK, LedgerInv, BansMatchLedger, [Next]_vars
    PROVE  LedgerInv' /\ BansMatchLedger'
  <1>1. LedgerTypeOK /\ bans \subseteq Bans
    BY DEF TypeOK, AccountTypeOK
  <1>2. CASE UNCHANGED ledgerVars /\ bans' \subseteq bans
    BY <1>1, <1>2, LedgerStays, FewerBans
  <1>3. ASSUME NEW p, NEW s, Appends(p, s), \A e : ~Overturns(s, e), bans' \subseteq bans
        PROVE  LedgerInv' /\ BansMatchLedger'
    <2>1. \A q \in Phones : \A e : /\ IsBan(q, e) => IsBan(q, e)'
                                   /\ Overturned(q, e)' <=> Overturned(q, e)
      BY <1>1, <1>3, OverturnedAfter
    <2> QED
      BY <1>1, <1>3, <2>1, LedgerKept, FewerBans
  <1> QED
    BY <1>2, <1>3, BanMoves, BanKeepsMatch, OverturnKeepsMatch

LEMMA BansInit ==
    ASSUME Init
    PROVE  LedgerInv /\ BansMatchLedger
  <1>1. PICK start \in Starts : StartedFrom(start)
    BY DEF Init
  <1>2. bans = {}
    BY <1>1 DEF StartedFrom
  <1>3. ASSUME NEW p \in Phones, ledger[p] # <<>> \/ reputations[p] # NoRow
        PROVE  \E op : /\ ledger[p] = << Event(1, 1, "status", "generation_started", op, 0),
                                         Event(1, 2, "sanction", "generation_started", op, 0) >>
                       /\ reputations[p] = NewRow(1)
    BY <1>1, <1>3 DEF StartedFrom
  <1>4. ASSUME NEW p \in Phones, ledger[p] # <<>> \/ reputations[p] # NoRow
        PROVE  /\ DOMAIN ledger[p] = {1, 2} /\ reputations[p].generation = 1
               /\ \A i \in {1, 2} : /\ ledger[p][i].type = "generation_started"
                                    /\ ledger[p][i].generation = 1
               /\ Positions(p, "status", 1) # {}
    <2>1. PICK op, a, b : /\ a = Event(1, 1, "status", "generation_started", op, 0)
                          /\ b = Event(1, 2, "sanction", "generation_started", op, 0)
                          /\ ledger[p] = <<a, b>> /\ reputations[p] = NewRow(1)
      BY <1>3, <1>4
    <2>2. /\ a.generation = 1 /\ a.stream = "status" /\ a.type = "generation_started"
          /\ b.generation = 1 /\ b.type = "generation_started"
      BY <2>1, EventFields
    <2>3. DOMAIN ledger[p] = {1, 2} /\ ledger[p][1] = a /\ ledger[p][2] = b
      BY <2>1
    <2>4. 1 \in Positions(p, "status", 1)
      BY <2>2, <2>3 DEF Positions
    <2>5. reputations[p].generation = 1
      BY <2>1 DEF NewRow
    <2> QED
      BY <2>2, <2>3, <2>4, <2>5
  <1>5. ASSUME NEW p \in Phones, NEW i \in DOMAIN ledger[p]
        PROVE  /\ ledger[p][i].type = "generation_started"
               /\ Positions(p, "status", ledger[p][i].generation) # {}
    <2>1. ledger[p] # <<>>
      BY <1>5
    <2> QED
      BY <1>4, <1>5, <2>1
  <1>6. \A p \in Phones : reputations[p] # NoRow =>
          Positions(p, "status", reputations[p].generation) # {}
    BY <1>4
  <1>7. LedgerInv
    BY <1>5, <1>6 DEF LedgerInv, Unblocks
  <1>8. BansMatchLedger
    BY <1>2 DEF BansMatchLedger
  <1> QED
    BY <1>7, <1>8

\* The bans the accounts carry agree with the ledger of their phone, after overturns,
\* reassignments, phone changes and erasures as well (account_qualifying_bans).
THEOREM BansAgree == Spec => []BansMatchLedger
  <1>1. Init => LedgerInv /\ BansMatchLedger
    BY BansInit
  <1>2. TypeOK /\ LedgerInv /\ BansMatchLedger /\ [Next]_vars => (LedgerInv /\ BansMatchLedger)'
    BY BansStep
  <1> QED
    BY <1>1, <1>2, AccountTypes, PTL DEF Spec

\* An overturn lifts the block its own ban caused, and no other (overturn_qualifying_ban).
THEOREM OnlyItsOwnBlock == Spec => []UnblocksMatchBlocks
  <1>1. Init => LedgerInv /\ BansMatchLedger
    BY BansInit
  <1>2. TypeOK /\ LedgerInv /\ BansMatchLedger /\ [Next]_vars => (LedgerInv /\ BansMatchLedger)'
    BY BansStep
  <1>3. LedgerInv => UnblocksMatchBlocks
    BY DEF LedgerInv, Unblocks, UnblocksMatchBlocks
  <1> QED
    BY <1>1, <1>2, <1>3, AccountTypes, PTL DEF Spec

-----------------------------------------------------------------------------
(* Sessions and what they are based on.                                    *)

StaysNormal(q) == reputations[q].status = "normal" => reputations'[q].status = "normal"

\* A step that leaves the user's phones as they are and bars nobody, and one that ends
\* the user's sessions.
Kept(v) == ActivePhones(v)' = ActivePhones(v) /\ (Barred(v)' => Barred(v))
Ended(v) == \A i \in DOMAIN families[v] : families'[v][i].revoked

LEMMA KeptIf ==
    ASSUME NEW v, ActivePhones(v)' = ActivePhones(v),
           users'[v] = "suspended" => users[v] = "suspended",
           \A q \in ActivePhones(v) : StaysNormal(q)
    PROVE  Kept(v)
  BY DEF Kept, Barred, PhoneNormal, StaysNormal

LEMMA SamePhones ==
    ASSUME UNCHANGED identities
    PROVE  \A v : ActivePhones(v)' = ActivePhones(v)
  BY DEF ActivePhones

LEMMA PhonesOf ==
    ASSUME NEW v
    PROVE  ActivePhones(v) \subseteq Phones
  BY DEF ActivePhones

\* The ledger's operations block one phone at most, and only a block or a ban does.
LEMMA StartNormal ==
    ASSUME LedgerTypeOK, NEW p \in Phones, NEW op, NEW g, StartGeneration(p, op, g)
    PROVE  \A q \in Phones : StaysNormal(q)
  <1>1. reputations' = [reputations EXCEPT ![p] = NewRow(g)] /\ NewRow(g).status = "normal"
    BY DEF StartGeneration, NewRow
  <1> QED
    BY <1>1 DEF LedgerTypeOK, StaysNormal

LEMMA UnblockNormal ==
    ASSUME LedgerTypeOK, NEW p \in Phones, NEW op, UnblockPhone(op, p)
    PROVE  \A q \in Phones : StaysNormal(q)
  <1>1. CASE UNCHANGED reputations
    BY <1>1 DEF StaysNormal
  <1>2. CASE /\ reputations[p].status = "blocked"
             /\ reputations' = [reputations EXCEPT ![p].status = "normal", ![p].blockedAt = 0]
    BY <1>2 DEF LedgerTypeOK, StaysNormal
  <1> QED
    BY <1>1, <1>2 DEF UnblockPhone

LEMMA OverturnNormal ==
    ASSUME LedgerTypeOK, NEW p \in Phones, NEW e, IsBan(p, e), NEW op, OverturnBan(op, p, e)
    PROVE  \A q \in Phones : StaysNormal(q)
  <1>1. PICK row, unblocks : row = reputations[p] /\ unblocks = ShouldUnblock(p, e)
    OBVIOUS
  <1>2. CASE Counted(p, e)
    <2>1. row \in Rows
      BY <1>1, <1>2, RowFacts DEF Counted, IsBan
    <2>2. PICK r : r = [row EXCEPT !.count = row.count - 1,
                                   !.status = IF unblocks THEN "normal" ELSE row.status,
                                   !.blockedAt = IF unblocks THEN 0 ELSE row.blockedAt]
      OBVIOUS
    <2>3. reputations' = [reputations EXCEPT ![p] = r]
      BY <1>1, <1>2, <2>2 DEF OverturnBan, LedgerTypeOK
    <2>4. r.status = IF unblocks THEN "normal" ELSE row.status
      BY <2>1, <2>2 DEF Rows
    <2> QED
      BY <1>1, <2>3, <2>4 DEF LedgerTypeOK, StaysNormal
  <1>3. CASE ~Counted(p, e)
    BY <1>3 DEF OverturnBan, StaysNormal
  <1> QED
    BY <1>2, <1>3

LEMMA OthersNormal ==
    ASSUME LedgerTypeOK, NEW p \in Phones, NEW op, BlockPhone(op, p) \/ BanPhone(op, p)
    PROVE  \A q \in Phones : q # p => StaysNormal(q)
  BY DEF BlockPhone, BanPhone, LedgerTypeOK, StaysNormal

LEMMA EnsureNormal ==
    ASSUME LedgerTypeOK, NEW p \in Phones, EnsurePhone(p)
    PROVE  \A q \in Phones : StaysNormal(q)
  BY StartNormal DEF EnsurePhone, StaysNormal, ledgerVars

\* Steps that touch nobody's identities and suspend nobody.
LEMMA QuietKept ==
    ASSUME UNCHANGED <<identities, users>>, \A q \in Phones : StaysNormal(q), NEW v
    PROVE  Kept(v)
  BY SamePhones, PhonesOf, KeptIf

\* Ending all families ends every session, also when a login follows.
LEMMA RevokedEnds ==
    ASSUME SessionInv, NEW v \in Users,
           \/ families'[v] = RevokedAll(families[v])
           \/ \E access \in {"none", "live"} : families'[v] = LoggedIn(RevokedAll(families[v]), access)
    PROVE  Ended(v)
  <1>1. PICK fs, gs : fs = families[v] /\ gs = RevokedAll(fs)
    OBVIOUS
  <1>2. UserSessions(fs) /\ LaterAll(fs, gs) /\ \A i \in DOMAIN fs : gs[i].revoked
    BY <1>1, RevokedAllLater DEF SessionInv
  <1>3. UserSessions(gs) /\ DOMAIN gs = DOMAIN fs
    <2>1. UserSessions(gs)
      BY <1>2, LaterLimit
    <2>2. fs \in Seq(Families) /\ gs \in Seq(Families) /\ Len(gs) = Len(fs)
      BY <1>2 DEF UserSessions, LaterAll
    <2> QED
      BY <2>1, <2>2
  <1>4. CASE families'[v] = gs
    BY <1>1, <1>2, <1>4 DEF Ended
  <1>5. ASSUME NEW access \in {"none", "live"}, families'[v] = LoggedIn(gs, access)
        PROVE  Ended(v)
    <2>1. LaterAll(gs, Evicted(gs)) /\ \A i \in DOMAIN gs : LoggedIn(gs, access)[i] = Evicted(gs)[i]
      BY <1>3, EvictedLater, LoginLimit
    <2> QED
      BY <1>1, <1>2, <1>3, <1>5, <2>1 DEF Ended, LaterAll, Later
  <1> QED
    BY <1>1, <1>4, <1>5

\* Whatever a step does, what was revoked stays revoked.
LEMMA RevokedStays ==
    ASSUME SessionInv, FamiliesStep, NEW v \in Users, users'[v] # "erased", NEW i \in DOMAIN families[v],
           families[v][i].revoked
    PROVE  families'[v][i].revoked
  <1>1. PICK fs, gs : fs = families[v] /\ gs = families'[v] /\ UserMove(users'[v], fs, gs)
    BY DEF FamiliesStep
  <1>2. UserSessions(fs) /\ i \in DOMAIN fs /\ fs[i].revoked
    BY <1>1 DEF SessionInv
  <1>3. CASE LaterAll(fs, gs)
    BY <1>1, <1>2, <1>3 DEF LaterAll, Later
  <1>4. ASSUME NEW hs \in Seq(Families), NEW access \in {"none", "live"},
               LaterAll(fs, hs), gs = LoggedIn(hs, access)
        PROVE  gs[i].revoked
    <2>1. UserSessions(hs) /\ hs[i].revoked /\ i \in DOMAIN hs
      <3>1. fs \in Seq(Families) /\ Len(hs) = Len(fs) /\ Later(fs[i], hs[i])
        BY <1>2, <1>4 DEF UserSessions, LaterAll
      <3> QED
        BY <1>2, <1>4, <3>1, LaterLimit DEF Later
    <2>2. LaterAll(hs, Evicted(hs)) /\ \A k \in DOMAIN hs : LoggedIn(hs, access)[k] = Evicted(hs)[k]
      BY <2>1, EvictedLater, LoginLimit
    <2> QED
      BY <1>4, <2>1, <2>2 DEF LaterAll, Later
  <1> QED
    BY <1>1, <1>3, <1>4 DEF UserMove

\* A registration opens a new account and leaves the others alone.
LEMMA RegistrationEnds ==
    ASSUME TypeOK, AccountInv, NEW g \in Grants, CompleteRegistration(g), NEW v \in Registered
    PROVE  Kept(v)
  <1> DEFINE absent == {w \in Users : users[w] = "absent"}
  <1>1. PICK u, p : u = Min(absent) /\ p = grants[g].phone
    OBVIOUS
  <1>2. u \in Users /\ users[u] = "absent"
    <2>1. absent \in SUBSET Nat /\ absent # {}
      BY AccountAssumption DEF CompleteRegistration
    <2>2. Min(absent) \in absent
      BY <2>1, MinIn
    <2> QED
      BY <1>1, <2>2
  <1>3. LedgerTypeOK /\ p \in Phones
    BY <1>1, CodeRows, GrantFields DEF CompleteRegistration, Usable, TypeOK, AccountTypeOK
  <1>4. /\ users' = [users EXCEPT ![u] = "active"]
        /\ identities' = identities \cup {[user |-> u, subject |-> p, status |-> "active"]}
        /\ EnsurePhone(p)
    BY <1>1 DEF CompleteRegistration
  <1>5. v # u /\ v \in Users
    BY <1>2 DEF Registered
  <1>6. ActivePhones(v)' = ActivePhones(v)
    <2>3. PICK i : i = [user |-> u, subject |-> p, status |-> "active"]
      OBVIOUS
    <2>1. i = [user |-> u, subject |-> p, status |-> "active"] /\ i.user = u
      BY <2>3
    <2>2. \A j : j \in identities' /\ j.user = v <=> j \in identities /\ j.user = v
      BY <1>4, <1>5, <2>1
    <2> QED
      BY <2>2 DEF ActivePhones
  <1>7. users'[v] = users[v]
    BY <1>4, <1>5 DEF TypeOK, AccountTypeOK
  <1>8. \A q \in Phones : StaysNormal(q)
    BY <1>3, <1>4, EnsureNormal
  <1> QED
    BY <1>6, <1>7, <1>8, PhonesOf, KeptIf

\* A phone change ends the sessions of the account it is for.
LEMMA PhoneChangeEnds ==
    ASSUME TypeOK, SessionInv, AccountInv, NEW g \in Grants, NEW u \in Users,
           CompletePhoneChange(u, g), NEW v \in Registered
    PROVE  Kept(v) \/ Ended(v)
  <1>1. PICK old, p : old = ActivePhone(u) /\ p = grants[g].phone
    OBVIOUS
  <1>2. LedgerTypeOK /\ p \in Phones
    BY <1>1, CodeRows, GrantFields DEF CompletePhoneChange, Usable, TypeOK, AccountTypeOK
  <1>3. /\ identities' = (identities \ {[user |-> u, subject |-> old, status |-> "active"]})
               \cup {[user |-> u, subject |-> old, status |-> "detached"],
                     [user |-> u, subject |-> p, status |-> "active"]}
        /\ users' = users /\ EnsurePhone(p)
        /\ families' = [families EXCEPT ![u] = LoggedIn(RevokedAll(families[u]), "live")]
    BY <1>1 DEF CompletePhoneChange
  <1>4. v \in Users
    BY DEF Registered
  <1>5. CASE v = u
    <2>1. families'[v] = LoggedIn(RevokedAll(families[v]), "live")
      BY <1>3, <1>4, <1>5 DEF SessionInv
    <2> QED
      BY <1>4, <2>1, RevokedEnds
  <1>6. CASE v # u
    <2>1. PICK a, b, c : /\ a = [user |-> u, subject |-> old, status |-> "active"]
                         /\ b = [user |-> u, subject |-> old, status |-> "detached"]
                         /\ c = [user |-> u, subject |-> p, status |-> "active"]
      OBVIOUS
    <2>2. identities' = (identities \ {a}) \cup {b, c} /\ a.user = u /\ b.user = u /\ c.user = u
      BY <1>3, <2>1
    <2>3. \A j : j \in identities' /\ j.user = v <=> j \in identities /\ j.user = v
      BY <1>6, <2>2
    <2>4. ActivePhones(v)' = ActivePhones(v)
      BY <2>3 DEF ActivePhones
    <2>5. \A q \in Phones : StaysNormal(q)
      BY <1>2, <1>3, EnsureNormal
    <2> QED
      BY <1>3, <2>4, <2>5, PhonesOf, KeptIf
  <1> QED
    BY <1>5, <1>6

\* An erasure takes the account with it.
LEMMA ErasureEnds ==
    ASSUME TypeOK, NEW u \in Users, DeleteOwnedRows(u), UNCHANGED ledgerVars,
           NEW v \in Registered, v \in Registered'
    PROVE  Kept(v)
  <1>1. /\ users' = [users EXCEPT ![u] = "erased"] /\ identities' = {i \in identities : i.user # u}
        /\ reputations' = reputations
    BY DEF DeleteOwnedRows, ledgerVars
  <1>2. v # u /\ users'[v] = users[v]
    BY <1>1 DEF Registered, TypeOK, AccountTypeOK
  <1>3. ActivePhones(v)' = ActivePhones(v)
    BY <1>1, <1>2 DEF ActivePhones
  <1>4. \A q \in Phones : StaysNormal(q)
    BY <1>1 DEF StaysNormal
  <1> QED
    BY <1>2, <1>3, <1>4, PhonesOf, KeptIf

\* A suspension ends the sessions of the user, an activation bars nobody.
LEMMA StatusEnds ==
    ASSUME TypeOK, SessionInv, NEW u \in Users, NEW status \in {"active", "suspended"},
           SetUserStatus(u, status), NEW v \in Registered
    PROVE  Kept(v) \/ Ended(v)
  <1>1. /\ users' = [users EXCEPT ![u] = status] /\ UNCHANGED <<identities, reputations>>
        /\ families' = IF status = "suspended" THEN [families EXCEPT ![u] = RevokedAll(families[u])]
                                               ELSE families
    BY DEF SetUserStatus, ledgerVars
  <1>2. v \in Users
    BY DEF Registered
  <1>3. CASE status = "suspended" /\ v = u
    <2>1. families'[v] = RevokedAll(families[v])
      BY <1>1, <1>2, <1>3 DEF SessionInv
    <2> QED
      BY <1>2, <2>1, RevokedEnds
  <1>4. CASE ~(status = "suspended" /\ v = u)
    <2>1. users'[v] = "suspended" => users[v] = "suspended"
      BY <1>1, <1>2, <1>4 DEF TypeOK, AccountTypeOK
    <2>2. \A q \in Phones : StaysNormal(q)
      BY <1>1 DEF StaysNormal
    <2>3. ActivePhones(v)' = ActivePhones(v)
      BY <1>1, SamePhones
    <2> QED
      BY <2>1, <2>2, <2>3, PhonesOf, KeptIf
  <1> QED
    BY <1>3, <1>4

LEMMA AttachKept ==
    ASSUME TypeOK, NEW u \in Users, NEW subject \in Subjects, AttachIdentity(u, subject), NEW v
    PROVE  Kept(v)
  <1>1. PICK i : i = [user |-> u, subject |-> subject, status |-> "active"]
    OBVIOUS
  <1>2. identities' = identities \cup {i} /\ UNCHANGED <<users, reputations>> /\ i.subject = subject
    BY <1>1 DEF AttachIdentity, ledgerVars
  <1>3. subject \notin Phones
    BY AccountAssumption
  <1>4. ActivePhones(v)' = ActivePhones(v)
    <2>1. \A j : j \in identities' /\ j.subject \in Phones <=> j \in identities /\ j.subject \in Phones
      BY <1>2, <1>3
    <2> QED
      BY <2>1 DEF ActivePhones
  <1>5. \A q \in Phones : StaysNormal(q)
    BY <1>2 DEF StaysNormal
  <1> QED
    BY <1>2, <1>4, <1>5, PhonesOf, KeptIf

\* A ban ends the sessions of the user it is on; nobody else has the phone it may block.
LEMMA BanEnds ==
    ASSUME TypeOK, SessionInv, AccountInv, NEW op \in 1..MaxOperations, NEW u \in Users,
           ApplyQualifyingBan(op, u), NEW v \in Registered
    PROVE  Kept(v) \/ Ended(v)
  <1>1. PICK p : /\ p = ActivePhone(u) /\ p \in Phones /\ p \in ActivePhones(u) /\ BanPhone(op, p)
    BY ActivePhoneIn DEF ApplyQualifyingBan
  <1>2. /\ users' = [users EXCEPT ![u] = "suspended"] /\ UNCHANGED identities
        /\ families' = [families EXCEPT ![u] = RevokedAll(families[u])]
    BY DEF ApplyQualifyingBan
  <1>3. v \in Users /\ LedgerTypeOK /\ identities \subseteq Identities
    BY DEF Registered, TypeOK, AccountTypeOK
  <1>4. CASE v = u
    <2>1. families'[v] = RevokedAll(families[v])
      BY <1>2, <1>3, <1>4 DEF SessionInv
    <2> QED
      BY <1>3, <2>1, RevokedEnds
  <1>5. CASE v # u
    <2>1. p \notin ActivePhones(v)
      BY <1>1, <1>3, <1>5, AttachedFacts DEF AccountInv, OneHolder
    <2>2. \A q \in Phones : q # p => StaysNormal(q)
      BY <1>1, <1>3, OthersNormal
    <2>3. users'[v] = users[v]
      BY <1>2, <1>3, <1>5 DEF TypeOK, AccountTypeOK
    <2>4. ActivePhones(v)' = ActivePhones(v)
      BY <1>2, SamePhones
    <2>5. \A q \in ActivePhones(v) : StaysNormal(q)
      BY <2>1, <2>2, PhonesOf
    <2> QED
      BY <2>3, <2>4, <2>5, KeptIf
  <1> QED
    BY <1>4, <1>5

\* A block ends the sessions of the phone's holder.
LEMMA BlockEnds ==
    ASSUME TypeOK, SessionInv, AccountInv, NEW op \in 1..MaxOperations, NEW p \in Phones,
           AdministrativeBlockPhone(op, p), NEW v \in Registered
    PROVE  Kept(v) \/ Ended(v)
  <1>1. /\ BlockPhone(op, p) /\ UNCHANGED <<users, identities>>
        /\ families' = IF reputations[p].status = "blocked" THEN families ELSE RevokedHolders(p)
    BY DEF AdministrativeBlockPhone
  <1>2. v \in Users /\ LedgerTypeOK /\ identities \subseteq Identities
    BY DEF Registered, TypeOK, AccountTypeOK
  <1>3. CASE UNCHANGED reputations
    BY <1>1, <1>3, QuietKept DEF StaysNormal
  <1>4. CASE reputations[p].status = "normal"
    <2>1. families' = RevokedHolders(p)
      BY <1>1, <1>4
    <2>2. CASE v \in Holders(p)
      <3>1. families'[v] = RevokedAll(families[v])
        BY <1>2, <2>1, <2>2 DEF RevokedHolders
      <3> QED
        BY <1>2, <3>1, RevokedEnds
    <2>3. CASE v \notin Holders(p)
      <3>1. p \notin ActivePhones(v)
        BY <1>2, <2>3, AttachedFacts
      <3>2. \A q \in Phones : q # p => StaysNormal(q)
        BY <1>1, <1>2, OthersNormal
      <3>3. \A q \in ActivePhones(v) : StaysNormal(q)
        BY <3>1, <3>2, PhonesOf
      <3>4. ActivePhones(v)' = ActivePhones(v) /\ users'[v] = users[v]
        BY <1>1, SamePhones
      <3> QED
        BY <3>3, <3>4, KeptIf
    <2> QED
      BY <2>2, <2>3
  <1> QED
    BY <1>1, <1>3, <1>4 DEF BlockPhone

LEMMA OtherSanctionsKept ==
    ASSUME TypeOK, NEW op \in 1..MaxOperations, NEW p \in Phones,
           \/ AdministrativeUnblockPhone(op, p) \/ ResetForReassignment(op, p)
           \/ \E e \in DOMAIN ledger[p] : OverturnQualifyingBan(op, p, e),
           NEW v
    PROVE  Kept(v)
  <1>1. LedgerTypeOK /\ UNCHANGED <<users, identities>>
    BY DEF TypeOK, AccountTypeOK, AdministrativeUnblockPhone, ResetForReassignment,
           OverturnQualifyingBan, accountVars
  <1>2. CASE AdministrativeUnblockPhone(op, p)
    BY <1>1, <1>2, UnblockNormal, QuietKept DEF AdministrativeUnblockPhone
  <1>3. CASE ResetForReassignment(op, p)
    BY <1>1, <1>3, StartNormal, QuietKept DEF ResetForReassignment, ReassignPhone
  <1>4. ASSUME NEW e \in DOMAIN ledger[p], OverturnQualifyingBan(op, p, e) PROVE Kept(v)
    BY <1>1, <1>4, OverturnNormal, QuietKept DEF OverturnQualifyingBan
  <1> QED
    BY <1>2, <1>3, <1>4

\* Every step keeps a user's basis or ends the user's sessions.
LEMMA KeptOrEnded ==
    ASSUME TypeOK, SessionInv, AccountInv, [Next]_vars, NEW v \in Registered, v \in Registered'
    PROVE  Kept(v) \/ Ended(v)
  <1>1. CASE SessionsOnly
    BY <1>1, QuietKept DEF SessionsOnly, ledgerVars, StaysNormal
  <1>2. ASSUME NEW u \in Users, EraseAccount(u) PROVE Kept(v)
    BY <1>2, ErasureEnds DEF EraseAccount
  <1>3. ASSUME NEW g \in Grants, EraseQualifyingBannedAccount(g) PROVE Kept(v)
    <2>1. grants[g].user \in Users
      BY <1>3, CodeRows, GrantFields DEF EraseQualifyingBannedAccount, Usable, Bearers
    <2> QED
      BY <1>3, <2>1, ErasureEnds DEF EraseQualifyingBannedAccount
  <1>4. ASSUME NEW op \in 1..MaxOperations, Sanction(op) PROVE Kept(v) \/ Ended(v)
    BY <1>4, BanEnds, BlockEnds, OtherSanctionsKept DEF Sanction
  <1> QED
    BY <1>1, <1>2, <1>3, <1>4, RegistrationEnds, PhoneChangeEnds, StatusEnds, AttachKept, DatabaseMoves

\* No session outlives what it was based on: a suspension, a block of the user's phone or
\* a new phone ends every session the user had, and nothing revives a revoked one.
THEOREM SessionsFollowTheirBasis == Spec => NoSessionOutlivesItsBasis
  <1> DEFINE Step ==
        \A u \in Registered : u \in Registered' => \A i \in DOMAIN families[u] :
          /\ families[u][i].revoked => families'[u][i].revoked
          /\ (Barred(u)' /\ ~Barred(u)) \/ ActivePhones(u)' # ActivePhones(u)
               => families'[u][i].revoked
  <1>1. TypeOK /\ SessionInv /\ AccountInv /\ [Next]_vars => [Step]_databaseVars
    <2> SUFFICES ASSUME TypeOK, SessionInv, AccountInv, [Next]_vars,
                        NEW u \in Registered, u \in Registered', NEW i \in DOMAIN families[u]
                 PROVE  /\ families[u][i].revoked => families'[u][i].revoked
                        /\ (Barred(u)' /\ ~Barred(u)) \/ ActivePhones(u)' # ActivePhones(u)
                             => families'[u][i].revoked
      OBVIOUS
    <2>1. FamiliesStep /\ u \in Users /\ users'[u] # "erased"
      BY FamiliesMove DEF Registered
    <2>2. families[u][i].revoked => families'[u][i].revoked
      BY <2>1, RevokedStays
    <2>3. (Barred(u)' /\ ~Barred(u)) \/ ActivePhones(u)' # ActivePhones(u) => families'[u][i].revoked
      BY KeptOrEnded DEF Kept, Ended
    <2> QED
      BY <2>2, <2>3
  <1> QED
    BY <1>1, AccountInvariant, PTL DEF Spec, NoSessionOutlivesItsBasis

-----------------------------------------------------------------------------
(* The log of a phone, and its generations as the events are appended.     *)

\* Events are numbered in the order they are appended.
Ordered(log) ==
    \A i, j \in DOMAIN log :
        i < j /\ log[i].generation = log[j].generation => log[i].sequence < log[j].sequence

\* The heads of a generation, found by their number.
LEMMA HeadAt ==
    ASSUME NEW log \in Seq(Events), Ordered(log), NEW g, NEW i \in Heads(log, g)
    PROVE  /\ log[i].sequence \in DOMAIN Generation(log, g)
           /\ Generation(log, g)[log[i].sequence] = log[i]
  <1> DEFINE n == log[i].sequence
             c == CHOOSE j \in Heads(log, g) : log[j].sequence = n
  <1>1. n \in {log[j].sequence : j \in Heads(log, g)}
    OBVIOUS
  <1>2. c \in Heads(log, g) /\ log[c].sequence = n
    OBVIOUS
  <1>3. /\ DOMAIN log = 1..Len(log) /\ Len(log) \in Nat
        /\ \A j \in DOMAIN log : log[j].sequence \in Nat
    <2>1. \A j \in DOMAIN log : log[j] \in Events
      OBVIOUS
    <2> QED
      BY <2>1 DEF Events
  <1>4. /\ i \in 1..Len(log) /\ c \in 1..Len(log)
        /\ log[i].generation = g /\ log[c].generation = g
    BY <1>2, <1>3 DEF Heads
  <1> HIDE DEF c
  <1>5. c = i
    <2>1. ~(c < i) /\ ~(i < c)
      BY <1>2, <1>3, <1>4 DEF Ordered
    <2> QED
      BY <1>3, <1>4, <2>1
  <1> QED
    BY <1>1, <1>5 DEF Generation, c

\* The generation has an event for each head, and no other.
Indexed(log, g) ==
    /\ \A i \in Heads(log, g) : /\ log[i].sequence \in DOMAIN Generation(log, g)
                                /\ Generation(log, g)[log[i].sequence] = log[i]
    /\ \A n \in DOMAIN Generation(log, g) :
         \E i \in Heads(log, g) : log[i].sequence = n /\ Generation(log, g)[n] = log[i]

LEMMA HeadsIndexed ==
    ASSUME NEW log \in Seq(Events), Ordered(log), NEW g
    PROVE  Indexed(log, g)
  <1>1. \A i \in Heads(log, g) : /\ log[i].sequence \in DOMAIN Generation(log, g)
                                 /\ Generation(log, g)[log[i].sequence] = log[i]
    BY HeadAt
  <1>2. \A n \in DOMAIN Generation(log, g) : \E i \in Heads(log, g) : log[i].sequence = n
    BY DEF Generation
  <1> HIDE DEF Generation
  <1> QED
    BY <1>1, <1>2 DEF Indexed

LEMMA HeadsFinite ==
    ASSUME NEW log \in Seq(Events), NEW g
    PROVE  IsFiniteSet(Heads(log, g)) /\ Cardinality(Heads(log, g)) \in Nat
  <1>1. DOMAIN log = 1..Len(log) /\ Len(log) \in Nat
    OBVIOUS
  <1>2. IsFiniteSet(1..Len(log)) /\ Heads(log, g) \in SUBSET (1..Len(log))
    BY <1>1, FS_Interval DEF Heads
  <1> QED
    BY <1>2, FS_Subset, FS_CardinalityType

\* The numbered events s go to the end of generation g of the log: n events are
\* followed by m, and of the generation's, N are followed by them.
Continues(log, g, s, longer, n, m, N) ==
    /\ log \in Seq(Events) /\ longer \in Seq(Events) /\ Ordered(log) /\ Contiguous(log, g)
    /\ n \in Nat /\ m \in Nat /\ N \in Nat /\ N = Cardinality(Heads(log, g))
    /\ DOMAIN log = 1..n /\ DOMAIN s = 1..m /\ DOMAIN longer = 1..(n + m)
    /\ \A i \in 1..n : longer[i] = log[i]
    /\ \A k \in 1..m : /\ longer[n + k] = s[k]
                       /\ s[k].generation = g /\ s[k].sequence = N + k
    /\ \A i \in 1..(n + m) : i \in 1..n \/ \E k \in 1..m : i = n + k

LEMMA LogGrows ==
    ASSUME NEW log \in Seq(Events), NEW g, NEW s \in Seq(Events), Ordered(log), Contiguous(log, g),
           \A k \in DOMAIN s : /\ s[k].generation = g
                               /\ s[k].sequence = Cardinality(Heads(log, g)) + k,
           NEW longer, longer = log \o s
    PROVE  Continues(log, g, s, longer, Len(log), Len(s), Cardinality(Heads(log, g)))
  <1>1. /\ Len(log) \in Nat /\ Len(s) \in Nat /\ DOMAIN log = 1..Len(log) /\ DOMAIN s = 1..Len(s)
    OBVIOUS
  <1>2. /\ longer \in Seq(Events) /\ DOMAIN longer = 1..(Len(log) + Len(s))
        /\ \A i \in 1..Len(log) : longer[i] = log[i]
        /\ \A k \in 1..Len(s) : longer[Len(log) + k] = s[k]
    BY <1>1
  <1>3. ASSUME NEW i \in 1..(Len(log) + Len(s)), i \notin 1..Len(log)
        PROVE  \E k \in 1..Len(s) : i = Len(log) + k
    <2>1. i - Len(log) \in 1..Len(s) /\ i = Len(log) + (i - Len(log))
      BY <1>1, <1>3
    <2> QED
      BY <2>1
  <1>4. Cardinality(Heads(log, g)) \in Nat
    BY HeadsFinite
  <1> QED
    BY <1>1, <1>2, <1>3, <1>4 DEF Continues

\* The heads of the generations after that.
LEMMA HeadsGrow ==
    ASSUME NEW log, NEW g, NEW s, NEW longer, NEW n, NEW m, NEW N,
           Continues(log, g, s, longer, n, m, N)
    PROVE  /\ \A h : h # g => Heads(longer, h) = Heads(log, h)
           /\ Heads(longer, g) = Heads(log, g) \cup (n + 1)..(n + m)
           /\ Cardinality(Heads(longer, g)) = N + m
  <1>1. /\ n \in Nat /\ m \in Nat /\ N \in Nat /\ DOMAIN log = 1..n /\ DOMAIN longer = 1..(n + m)
        /\ \A i \in 1..n : longer[i] = log[i]
        /\ \A k \in 1..m : longer[n + k] = s[k] /\ s[k].generation = g
        /\ \A i \in 1..(n + m) : i \in 1..n \/ \E k \in 1..m : i = n + k
        /\ log \in Seq(Events) /\ N = Cardinality(Heads(log, g))
    BY DEF Continues
  <1>2. ASSUME NEW h, h # g PROVE Heads(longer, h) = Heads(log, h)
    <2>1. ASSUME NEW i \in Heads(longer, h) PROVE i \in Heads(log, h)
      BY <1>1, <1>2, <2>1 DEF Heads
    <2>2. ASSUME NEW i \in Heads(log, h) PROVE i \in Heads(longer, h)
      BY <1>1, <2>2 DEF Heads
    <2> QED
      BY <2>1, <2>2
  <1>3. Heads(longer, g) = Heads(log, g) \cup (n + 1)..(n + m)
    <2>1. ASSUME NEW i \in (n + 1)..(n + m) PROVE i \in DOMAIN longer /\ longer[i].generation = g
      <3>1. i - n \in 1..m /\ i = n + (i - n) /\ i \in 1..(n + m)
        BY <1>1
      <3> QED
        BY <1>1, <3>1
    <2>2. \A i \in Heads(log, g) : i \in Heads(longer, g)
      BY <1>1 DEF Heads
    <2>3. \A i \in Heads(longer, g) : i \in Heads(log, g) \/ i \in (n + 1)..(n + m)
      BY <1>1 DEF Heads
    <2> QED
      BY <2>1, <2>2, <2>3 DEF Heads
  <1>4. Cardinality(Heads(longer, g)) = N + m
    <2>1. PICK S, T : S = Heads(log, g) /\ T = (n + 1)..(n + m)
      OBVIOUS
    <2>2. IsFiniteSet(S) /\ S \subseteq 1..n
      BY <1>1, <2>1, HeadsFinite DEF Heads
    <2>3. IsFiniteSet(T) /\ Cardinality(T) = m
      <3>1. n + 1 \in Int /\ n + m \in Int /\ (n + m) - (n + 1) + 1 = m
            /\ (n + 1 > n + m => m = 0)
        BY <1>1
      <3> QED
        BY <2>1, <3>1, FS_Interval
    <2>4. Cardinality(S \cup T) = Cardinality(S) + Cardinality(T) - Cardinality(S \cap T)
      BY <2>2, <2>3, FS_Union
    <2>5. S \cap T = {} /\ Cardinality({}) = 0
      BY <1>1, <2>1, <2>2, FS_EmptySet
    <2>6. Cardinality(Heads(longer, g)) = Cardinality(S \cup T)
      BY <1>3, <2>1
    <2>7. Cardinality(S) = N /\ Cardinality(S \cap T) = 0
      BY <1>1, <2>1, <2>5
    <2> QED
      BY <1>1, <2>3, <2>4, <2>6, <2>7
  <1> QED
    BY <1>2, <1>3, <1>4

LEMMA OrderGrows ==
    ASSUME NEW log, NEW g, NEW s, NEW longer, NEW n, NEW m, NEW N,
           Continues(log, g, s, longer, n, m, N)
    PROVE  Ordered(longer)
  <1>1. /\ n \in Nat /\ m \in Nat /\ N \in Nat /\ DOMAIN log = 1..n /\ DOMAIN longer = 1..(n + m)
        /\ \A i \in 1..n : longer[i] = log[i]
        /\ \A k \in 1..m : longer[n + k] = s[k] /\ s[k].generation = g /\ s[k].sequence = N + k
        /\ \A i \in 1..(n + m) : i \in 1..n \/ \E k \in 1..m : i = n + k
    BY DEF Continues
  <1>2. Indexed(log, g) /\ Ordered(log) /\ DOMAIN Generation(log, g) = 1..N
    BY HeadsIndexed DEF Continues, Contiguous
  <1>3. ASSUME NEW i \in 1..n, log[i].generation = g PROVE log[i].sequence \in 1..N
    BY <1>1, <1>2, <1>3 DEF Heads, Indexed
  <1>4. ASSUME NEW i \in 1..(n + m), NEW j \in 1..(n + m), i < j,
               longer[i].generation = longer[j].generation
        PROVE  longer[i].sequence < longer[j].sequence
    <2>1. CASE j \in 1..n
      <3>1. i \in 1..n
        BY <1>1, <1>4, <2>1
      <3> QED
        BY <1>1, <1>2, <1>4, <2>1, <3>1 DEF Ordered
    <2>2. ASSUME NEW k \in 1..m, j = n + k PROVE longer[i].sequence < longer[j].sequence
      <3>1. longer[j].generation = g /\ longer[j].sequence = N + k
        BY <1>1, <2>2
      <3>2. CASE i \in 1..n
        <4>1. longer[i].sequence \in 1..N
          BY <1>1, <1>3, <1>4, <3>1, <3>2
        <4>2. N < N + k
          BY <1>1
        <4>3. PICK x : x = longer[i].sequence
          OBVIOUS
        <4> QED
          BY <1>1, <3>1, <4>1, <4>2, <4>3
      <3>3. ASSUME NEW l \in 1..m, i = n + l PROVE longer[i].sequence < longer[j].sequence
        <4>1. longer[i].sequence = N + l
          BY <1>1, <3>3
        <4>2. l < k
          BY <1>1, <1>4, <2>2, <3>3
        <4> QED
          BY <1>1, <3>1, <4>1, <4>2
      <3> QED
        BY <1>1, <3>2, <3>3
    <2> QED
      BY <1>1, <2>1, <2>2
  <1> QED
    BY <1>1, <1>4 DEF Ordered

\* A generation that is appended to keeps its events and numbers; the others stay.
LEMMA GenerationGrows ==
    ASSUME NEW log, NEW g, NEW s, NEW longer, NEW n, NEW m, NEW N,
           Continues(log, g, s, longer, n, m, N)
    PROVE  /\ DOMAIN Generation(log, g) = 1..N
           /\ DOMAIN Generation(longer, g) = 1..(N + m) /\ Contiguous(longer, g)
           /\ \A i \in 1..N : Generation(longer, g)[i] = Generation(log, g)[i]
           /\ \A k \in 1..m : Generation(longer, g)[N + k] = s[k]
           /\ \A h : h # g => Generation(longer, h) = Generation(log, h)
  <1>1. /\ n \in Nat /\ m \in Nat /\ N \in Nat /\ DOMAIN log = 1..n /\ DOMAIN longer = 1..(n + m)
        /\ \A i \in 1..n : longer[i] = log[i]
        /\ \A k \in 1..m : longer[n + k] = s[k] /\ s[k].generation = g /\ s[k].sequence = N + k
    BY DEF Continues
  <1>2. DOMAIN Generation(log, g) = 1..N
    BY DEF Continues, Contiguous
  <1>3. \A h : Indexed(log, h) /\ Indexed(longer, h)
    <2>1. Ordered(longer)
      BY OrderGrows
    <2> QED
      BY <2>1, HeadsIndexed DEF Continues
  <1>4. /\ Heads(longer, g) = Heads(log, g) \cup (n + 1)..(n + m)
        /\ Cardinality(Heads(longer, g)) = N + m
        /\ \A h : h # g => Heads(longer, h) = Heads(log, h)
    BY HeadsGrow
  <1>5. \A h : Heads(log, h) \subseteq 1..n
    BY <1>1 DEF Heads
  <1>6. ASSUME NEW i \in 1..N
        PROVE  i \in DOMAIN Generation(longer, g) /\ Generation(longer, g)[i] = Generation(log, g)[i]
    <2>1. PICK j \in Heads(log, g) : log[j].sequence = i /\ Generation(log, g)[i] = log[j]
      <3>1. i \in DOMAIN Generation(log, g) /\ Indexed(log, g)
        BY <1>2, <1>3
      <3> QED
        BY <3>1 DEF Indexed
    <2>2. j \in Heads(longer, g) /\ longer[j] = log[j]
      BY <1>1, <1>4, <1>5
    <2> QED
      BY <1>3, <2>1, <2>2 DEF Indexed
  <1>7. ASSUME NEW k \in 1..m
        PROVE  N + k \in DOMAIN Generation(longer, g) /\ Generation(longer, g)[N + k] = s[k]
    <2>1. n + k \in (n + 1)..(n + m)
      BY <1>1
    <2>2. n + k \in Heads(longer, g) /\ longer[n + k] = s[k] /\ s[k].sequence = N + k
      BY <1>1, <1>4, <2>1
    <2> QED
      BY <1>3, <2>2 DEF Indexed
  <1>8. ASSUME NEW x \in DOMAIN Generation(longer, g) PROVE x \in 1..(N + m)
    <2>1. PICK j \in Heads(longer, g) : longer[j].sequence = x
      BY <1>3 DEF Indexed
    <2>2. CASE j \in Heads(log, g)
      <3>1. x \in 1..N
        BY <1>1, <1>2, <1>3, <1>5, <2>1, <2>2 DEF Indexed
      <3> QED
        BY <1>1, <3>1
    <2>3. CASE j \in (n + 1)..(n + m)
      <3>1. j - n \in 1..m /\ j = n + (j - n)
        BY <1>1, <2>3
      <3>2. x = N + (j - n)
        BY <1>1, <2>1, <3>1
      <3> QED
        BY <1>1, <3>1, <3>2
    <2> QED
      BY <1>4, <2>1, <2>2, <2>3
  <1>9. ASSUME NEW x \in 1..(N + m), x \notin 1..N PROVE \E k \in 1..m : x = N + k
    <2>1. x - N \in 1..m /\ x = N + (x - N)
      BY <1>1, <1>9
    <2> QED
      BY <2>1
  <1>10. DOMAIN Generation(longer, g) = 1..(N + m)
    BY <1>6, <1>7, <1>8, <1>9
  <1>11. ASSUME NEW h, h # g PROVE Generation(longer, h) = Generation(log, h)
    <2>1. Heads(longer, h) = Heads(log, h) /\ \A i \in Heads(log, h) : longer[i] = log[i]
      BY <1>1, <1>4, <1>5, <1>11
    <2>2. ASSUME NEW x \in DOMAIN Generation(log, h)
          PROVE  x \in DOMAIN Generation(longer, h) /\ Generation(longer, h)[x] = Generation(log, h)[x]
      BY <1>3, <2>1, <2>2 DEF Indexed
    <2>3. ASSUME NEW x \in DOMAIN Generation(longer, h) PROVE x \in DOMAIN Generation(log, h)
      BY <1>3, <2>1, <2>3 DEF Indexed
    <2>4. PICK A, B, E, F : /\ A = DOMAIN E /\ B = DOMAIN F
                            /\ E = Generation(log, h) /\ F = Generation(longer, h)
      OBVIOUS
    <2>5. E = [x \in A |-> E[x]]
      BY <2>4 DEF Generation
    <2>6. F = [x \in B |-> F[x]]
      BY <2>4 DEF Generation
    <2>7. A = B /\ \A x \in A : E[x] = F[x]
      BY <2>2, <2>3, <2>4
    <2> QED
      BY <2>4, <2>5, <2>6, <2>7
  <1> QED
    BY <1>2, <1>4, <1>6, <1>7, <1>10, <1>11 DEF Contiguous

-----------------------------------------------------------------------------
(* The replay of a generation, event by event.                             *)

LEMMA LatestFacts ==
    ASSUME NEW E, NEW n \in Nat, NEW T, NEW l, l = LatestIn(E, n, T)
    PROVE  /\ l \in 0..n /\ (l # 0 => l \in 1..n /\ E[l].type \in T)
           /\ \A i \in 1..n : E[i].type \in T => i <= l
  <1>1. PICK S : S = {0} \cup {i \in 1..n : E[i].type \in T}
    OBVIOUS
  <1>2. S \in SUBSET Nat /\ S # {} /\ \A i \in S : i <= n
    BY <1>1
  <1>3. Max(S) \in S /\ \A i \in S : i <= Max(S)
    BY <1>2, MaxIn
  <1>4. l = Max(S)
    BY <1>1 DEF LatestIn
  <1> QED
    BY <1>1, <1>3, <1>4

LEMMA LatestIs ==
    ASSUME NEW E, NEW n \in Nat, NEW T, NEW l \in 0..n, l # 0 => E[l].type \in T,
           \A i \in 1..n : E[i].type \in T => i <= l
    PROVE  LatestIn(E, n, T) = l
  <1>1. PICK k : k = LatestIn(E, n, T)
    OBVIOUS
  <1>2. /\ k \in 0..n /\ (k # 0 => k \in 1..n /\ E[k].type \in T)
        /\ \A i \in 1..n : E[i].type \in T => i <= k
    BY <1>1, LatestFacts
  <1>3. k <= l
    BY <1>2
  <1>4. l <= k
    BY <1>2
  <1> QED
    BY <1>1, <1>2, <1>3, <1>4

LEMMA LatestSame ==
    ASSUME NEW E, NEW F, NEW n \in Nat, \A i \in 1..n : F[i] = E[i]
    PROVE  \A T : LatestIn(F, n, T) = LatestIn(E, n, T)
  <1> SUFFICES ASSUME NEW T PROVE LatestIn(F, n, T) = LatestIn(E, n, T)
    OBVIOUS
  <1>1. {i \in 1..n : F[i].type \in T} = {i \in 1..n : E[i].type \in T}
    OBVIOUS
  <1> QED
    BY <1>1 DEF LatestIn

LEMMA LatestNext ==
    ASSUME NEW E, NEW n \in Nat, NEW T
    PROVE  LatestIn(E, n + 1, T) = IF E[n + 1].type \in T THEN n + 1 ELSE LatestIn(E, n, T)
  <1>1. CASE E[n + 1].type \in T
    <2>1. LatestIn(E, n + 1, T) = n + 1
      BY <1>1, LatestIs
    <2> QED
      BY <1>1, <2>1
  <1>2. CASE E[n + 1].type \notin T
    <2>1. PICK l : l = LatestIn(E, n, T)
      OBVIOUS
    <2>2. /\ l \in 0..n /\ (l # 0 => E[l].type \in T)
          /\ \A i \in 1..n : E[i].type \in T => i <= l
      BY <2>1, LatestFacts
    <2>3. l \in 0..(n + 1) /\ \A i \in 1..(n + 1) : E[i].type \in T => i <= l
      BY <1>2, <2>2
    <2>4. LatestIn(E, n + 1, T) = l
      BY <2>2, <2>3, LatestIs
    <2> QED
      BY <1>2, <2>1, <2>4
  <1> QED
    BY <1>1, <1>2

\* How many of the first n events are of a type.
CountOf(E, n, type) == Cardinality({i \in 1..n : E[i].type = type})

LEMMA CountOfNext ==
    ASSUME NEW E, NEW n \in Nat, NEW type
    PROVE  /\ CountOf(E, n, type) \in Nat /\ CountOf(E, 0, type) = 0
           /\ CountOf(E, n + 1, type) = CountOf(E, n, type) + IF E[n + 1].type = type THEN 1 ELSE 0
  <1>1. PICK S : S = {i \in 1..n : E[i].type = type}
    OBVIOUS
  <1>2. IsFiniteSet(S) /\ Cardinality(S) \in Nat
    <2>1. IsFiniteSet(1..n) /\ S \in SUBSET (1..n)
      BY <1>1, FS_Interval
    <2> QED
      BY <2>1, FS_Subset, FS_CardinalityType
  <1>3. CountOf(E, n, type) = Cardinality(S) /\ CountOf(E, 0, type) = 0
    <2>1. {i \in 1..0 : E[i].type = type} = {}
      OBVIOUS
    <2> QED
      BY <1>1, <2>1, FS_EmptySet DEF CountOf
  <1>4. CASE E[n + 1].type = type
    <2>1. {i \in 1..(n + 1) : E[i].type = type} = S \cup {n + 1} /\ n + 1 \notin S
      BY <1>1, <1>4
    <2>2. Cardinality(S \cup {n + 1}) = Cardinality(S) + 1
      BY <1>2, <2>1, FS_AddElement
    <2>3. CountOf(E, n + 1, type) = Cardinality(S) + 1
      BY <2>1, <2>2 DEF CountOf
    <2> QED
      BY <1>2, <1>4, <1>3, <2>3
  <1>5. CASE E[n + 1].type # type
    <2>1. {i \in 1..(n + 1) : E[i].type = type} = S
      BY <1>1, <1>5
    <2>2. CountOf(E, n + 1, type) = Cardinality(S)
      BY <2>1 DEF CountOf
    <2> QED
      BY <1>2, <1>5, <1>3, <2>2
  <1> QED
    BY <1>4, <1>5

LEMMA CountNext ==
    ASSUME NEW E, NEW n \in Nat
    PROVE  /\ ReplayedCount(E, n) \in Int /\ ReplayedCount(E, 0) = 0
           /\ ReplayedCount(E, n + 1) =
                CASE E[n + 1].type = "qualifying_ban_applied"    -> ReplayedCount(E, n) + 1
                  [] E[n + 1].type = "qualifying_ban_overturned" -> ReplayedCount(E, n) - 1
                  [] OTHER                                       -> ReplayedCount(E, n)
  <1> DEFINE ban == "qualifying_ban_applied"
             overturn == "qualifying_ban_overturned"
  <1>1. \A k : ReplayedCount(E, k) = CountOf(E, k, ban) - CountOf(E, k, overturn)
    BY DEF ReplayedCount, CountOf
  <1>2. ban # overturn
    OBVIOUS
  <1> HIDE DEF ban, overturn
  <1>3. \A type : /\ CountOf(E, n, type) \in Nat /\ CountOf(E, 0, type) = 0
                  /\ CountOf(E, n + 1, type) = CountOf(E, n, type) + IF E[n + 1].type = type THEN 1 ELSE 0
    BY CountOfNext
  <1> QED
    BY <1>1, <1>2, <1>3 DEF ban, overturn

LEMMA CountSame ==
    ASSUME NEW E, NEW F, NEW n \in Nat, \A i \in 1..n : F[i] = E[i]
    PROVE  ReplayedCount(F, n) = ReplayedCount(E, n)
  <1>1. \A type : {i \in 1..n : F[i].type = type} = {i \in 1..n : E[i].type = type}
    OBVIOUS
  <1> QED
    BY <1>1 DEF ReplayedCount

LEMMA StatusSame ==
    ASSUME NEW E, NEW F, NEW n \in Nat, \A i \in 1..n : F[i] = E[i]
    PROVE  ReplayedStatus(F, n) = ReplayedStatus(E, n)
  <1>1. PICK T, l : T = {"phone_blocked", "phone_unblocked"} /\ l = LatestIn(E, n, T)
    OBVIOUS
  <1>2. LatestIn(F, n, T) = l /\ l \in 0..n
    BY <1>1, LatestSame, LatestFacts
  <1>3. l # 0 => F[l] = E[l]
    BY <1>2
  <1> QED
    BY <1>1, <1>2, <1>3 DEF ReplayedStatus

LEMMA StatusNext ==
    ASSUME NEW E, NEW n \in Nat
    PROVE  /\ ReplayedStatus(E, n) \in {"normal", "blocked"} /\ ReplayedStatus(E, 0) = "normal"
           /\ ReplayedStatus(E, n + 1) = CASE E[n + 1].type = "phone_blocked"   -> "blocked"
                                           [] E[n + 1].type = "phone_unblocked" -> "normal"
                                           [] OTHER                             -> ReplayedStatus(E, n)
  <1>1. PICK T, l : T = {"phone_blocked", "phone_unblocked"} /\ l = LatestIn(E, n, T)
    OBVIOUS
  <1>2. l \in 0..n
    BY <1>1, LatestFacts
  <1>3. LatestIn(E, 0, T) = 0
    BY LatestIs
  <1>4. LatestIn(E, n + 1, T) = IF E[n + 1].type \in T THEN n + 1 ELSE l
    BY <1>1, LatestNext
  <1>5. ReplayedStatus(E, n) = IF l # 0 /\ E[l].type = "phone_blocked" THEN "blocked" ELSE "normal"
    BY <1>1 DEF ReplayedStatus
  <1>6. PICK k : k = LatestIn(E, n + 1, T)
    OBVIOUS
  <1>7. ReplayedStatus(E, n + 1) = IF k # 0 /\ E[k].type = "phone_blocked" THEN "blocked" ELSE "normal"
    BY <1>1, <1>6 DEF ReplayedStatus
  <1>8. ReplayedStatus(E, 0) = "normal"
    BY <1>1, <1>3 DEF ReplayedStatus
  <1> QED
    BY <1>1, <1>2, <1>4, <1>5, <1>6, <1>7, <1>8

\* The row after one more event.
After(row, e) ==
    [row EXCEPT
        !.count = CASE e.type = "qualifying_ban_applied"    -> row.count + 1
                    [] e.type = "qualifying_ban_overturned" -> row.count - 1
                    [] OTHER                                -> row.count,
        !.status = CASE e.type = "phone_blocked"   -> "blocked"
                     [] e.type = "phone_unblocked" -> "normal"
                     [] OTHER                      -> row.status,
        !.blockedAt = CASE e.type = "phone_blocked"   -> e.op
                        [] e.type = "phone_unblocked" -> 0
                        [] OTHER                      -> row.blockedAt,
        !.lastBanAt = IF e.type = "qualifying_ban_applied" THEN e.op ELSE row.lastBanAt]

\* The first n events replay to the row.
Replays(row, E, n) ==
    /\ row.count = ReplayedCount(E, n)
    /\ row.status = ReplayedStatus(E, n)
    /\ row.blockedAt = IF row.status = "blocked"
                       THEN TimeOf(E, LatestIn(E, n, {"phone_blocked"})) ELSE 0
    /\ row.lastBanAt = TimeOf(E, LatestIn(E, n, {"qualifying_ban_applied"}))

\* The phone is blocked at the threshold, or was unblocked after its last ban.
Excused(row, E, n) ==
    row.count >= BanThreshold /\ row.status = "normal" =>
        LatestIn(E, n, {"phone_unblocked"}) > LatestIn(E, n, {"qualifying_ban_applied"})

IsRow(row) == row \in [generation : Nat, count : Int, status : {"normal", "blocked"},
                       blockedAt : Nat, lastBanAt : Nat]

LEMMA AfterFields ==
    ASSUME NEW row, IsRow(row), NEW e, e.op \in Nat, NEW r, r = After(row, e)
    PROVE  /\ IsRow(r) /\ r.generation = row.generation
           /\ r.count = CASE e.type = "qualifying_ban_applied"    -> row.count + 1
                          [] e.type = "qualifying_ban_overturned" -> row.count - 1
                          [] OTHER                                -> row.count
           /\ r.status = CASE e.type = "phone_blocked"   -> "blocked"
                           [] e.type = "phone_unblocked" -> "normal"
                           [] OTHER                      -> row.status
           /\ r.blockedAt = CASE e.type = "phone_blocked"   -> e.op
                              [] e.type = "phone_unblocked" -> 0
                              [] OTHER                      -> row.blockedAt
           /\ r.lastBanAt = IF e.type = "qualifying_ban_applied" THEN e.op ELSE row.lastBanAt
  <1>1. PICK c, s, b, l :
          /\ c = CASE e.type = "qualifying_ban_applied"    -> row.count + 1
                   [] e.type = "qualifying_ban_overturned" -> row.count - 1
                   [] OTHER                                -> row.count
          /\ s = CASE e.type = "phone_blocked"   -> "blocked"
                   [] e.type = "phone_unblocked" -> "normal"
                   [] OTHER                      -> row.status
          /\ b = CASE e.type = "phone_blocked"   -> e.op
                   [] e.type = "phone_unblocked" -> 0
                   [] OTHER                      -> row.blockedAt
          /\ l = IF e.type = "qualifying_ban_applied" THEN e.op ELSE row.lastBanAt
    OBVIOUS
  <1>2. r = [row EXCEPT !.count = c, !.status = s, !.blockedAt = b, !.lastBanAt = l]
    BY <1>1 DEF After
  <1>3. r.generation = row.generation /\ r.count = c /\ r.status = s /\ r.blockedAt = b /\ r.lastBanAt = l
    BY <1>2 DEF IsRow
  <1>4. c \in Int /\ b \in Nat /\ l \in Nat
    BY <1>1 DEF IsRow
  <1>5. s \in {"normal", "blocked"}
    BY <1>1 DEF IsRow
  <1>6. IsRow(r)
    BY <1>2, <1>4, <1>5 DEF IsRow
  <1> QED
    BY <1>1, <1>3, <1>6

LEMMA ReplayNext ==
    ASSUME NEW row, IsRow(row), NEW E, NEW n \in Nat, Replays(row, E, n),
           NEW e, e = E[n + 1], e.op \in Nat
    PROVE  Replays(After(row, e), E, n + 1)
  <1>1. PICK r : r = After(row, e)
    OBVIOUS
  <1>2. /\ r.count = CASE e.type = "qualifying_ban_applied"    -> row.count + 1
                       [] e.type = "qualifying_ban_overturned" -> row.count - 1
                       [] OTHER                                -> row.count
        /\ r.status = CASE e.type = "phone_blocked"   -> "blocked"
                        [] e.type = "phone_unblocked" -> "normal"
                        [] OTHER                      -> row.status
        /\ r.blockedAt = CASE e.type = "phone_blocked"   -> e.op
                           [] e.type = "phone_unblocked" -> 0
                           [] OTHER                      -> row.blockedAt
        /\ r.lastBanAt = IF e.type = "qualifying_ban_applied" THEN e.op ELSE row.lastBanAt
    BY <1>1, AfterFields
  <1>3. r.count = ReplayedCount(E, n + 1)
    BY <1>2, CountNext DEF Replays
  <1>4. r.status = ReplayedStatus(E, n + 1)
    BY <1>2, StatusNext DEF Replays
  <1>5. ASSUME NEW type, NEW l, l = LatestIn(E, n, {type})
        PROVE  TimeOf(E, LatestIn(E, n + 1, {type})) = IF e.type = type THEN e.op ELSE TimeOf(E, l)
    <2>1. LatestIn(E, n + 1, {type}) = IF E[n + 1].type \in {type} THEN n + 1 ELSE l
      BY <1>5, LatestNext
    <2>2. CASE e.type = type
      <3>1. LatestIn(E, n + 1, {type}) = n + 1 /\ n + 1 # 0
        BY <2>1, <2>2
      <3> QED
        BY <2>2, <3>1 DEF TimeOf
    <2>3. CASE e.type # type
      <3>1. LatestIn(E, n + 1, {type}) = l
        BY <2>1, <2>3
      <3> QED
        BY <2>3, <3>1
    <2> QED
      BY <2>2, <2>3
  <1>6. r.lastBanAt = TimeOf(E, LatestIn(E, n + 1, {"qualifying_ban_applied"}))
    BY <1>2, <1>5 DEF Replays
  <1>7. r.blockedAt = IF r.status = "blocked"
                      THEN TimeOf(E, LatestIn(E, n + 1, {"phone_blocked"})) ELSE 0
    <2>1. TimeOf(E, LatestIn(E, n + 1, {"phone_blocked"}))
            = IF e.type = "phone_blocked" THEN e.op ELSE TimeOf(E, LatestIn(E, n, {"phone_blocked"}))
      BY <1>5
    <2> QED
      BY <1>2, <2>1 DEF Replays
  <1> QED
    BY <1>1, <1>3, <1>4, <1>6, <1>7 DEF Replays

LEMMA ReplaySame ==
    ASSUME NEW row, NEW E, NEW F, NEW n \in Nat, \A i \in 1..n : F[i] = E[i]
    PROVE  /\ Replays(row, E, n) => Replays(row, F, n)
           /\ Excused(row, E, n) => Excused(row, F, n)
  <1>1. \A T : LatestIn(F, n, T) = LatestIn(E, n, T)
    BY LatestSame
  <1>2. ASSUME NEW T PROVE TimeOf(F, LatestIn(F, n, T)) = TimeOf(E, LatestIn(E, n, T))
    <2>1. PICK l : l = LatestIn(E, n, T)
      OBVIOUS
    <2>2. l \in 0..n
      BY <2>1, LatestFacts
    <2>3. l # 0 => F[l] = E[l]
      BY <2>2
    <2> QED
      BY <1>1, <2>1, <2>3 DEF TimeOf
  <1>3. ReplayedCount(F, n) = ReplayedCount(E, n) /\ ReplayedStatus(F, n) = ReplayedStatus(E, n)
    BY CountSame, StatusSame
  <1> QED
    BY <1>1, <1>2, <1>3 DEF Replays, Excused

\* A ban that leaves the phone normal leaves it below the threshold.
LEMMA ExcusedNext ==
    ASSUME NEW row, IsRow(row), NEW E, NEW n \in Nat, Excused(row, E, n),
           NEW e, e = E[n + 1], e.op \in Nat,
           e.type = "qualifying_ban_applied" => row.status = "blocked" \/ row.count + 1 < BanThreshold
    PROVE  Excused(After(row, e), E, n + 1)
  <1>1. PICK r, l, b, l1, b1 :
          /\ r = After(row, e)
          /\ l = LatestIn(E, n, {"phone_unblocked"}) /\ l1 = LatestIn(E, n + 1, {"phone_unblocked"})
          /\ b = LatestIn(E, n, {"qualifying_ban_applied"})
          /\ b1 = LatestIn(E, n + 1, {"qualifying_ban_applied"})
    OBVIOUS
  <1>2. /\ r.count = CASE e.type = "qualifying_ban_applied"    -> row.count + 1
                       [] e.type = "qualifying_ban_overturned" -> row.count - 1
                       [] OTHER                                -> row.count
        /\ r.status = CASE e.type = "phone_blocked"   -> "blocked"
                        [] e.type = "phone_unblocked" -> "normal"
                        [] OTHER                      -> row.status
    BY <1>1, AfterFields
  <1>3. /\ l1 = IF e.type = "phone_unblocked" THEN n + 1 ELSE l
        /\ b1 = IF e.type = "qualifying_ban_applied" THEN n + 1 ELSE b
    BY <1>1, LatestNext
  <1>4. b \in 0..n /\ l \in 0..n /\ row.count \in Int /\ BanThreshold \in Nat
    BY <1>1, LatestFacts, LedgerAssumption DEF IsRow
  <1>5. row.count >= BanThreshold /\ row.status = "normal" => l > b
    BY <1>1 DEF Excused
  <1>6. ASSUME r.count >= BanThreshold, r.status = "normal" PROVE l1 > b1
    <2>1. CASE e.type = "qualifying_ban_applied"
      BY <1>2, <1>4, <1>6, <2>1
    <2>2. CASE e.type = "phone_unblocked"
      BY <1>3, <1>4, <2>2
    <2>3. CASE e.type \notin {"qualifying_ban_applied", "phone_unblocked"}
      BY <1>2, <1>3, <1>4, <1>5, <1>6, <2>3
    <2> QED
      BY <2>1, <2>2, <2>3
  <1> QED
    BY <1>1, <1>6 DEF Excused

-----------------------------------------------------------------------------
(* Events that replay.                                                     *)

\* An overturn targets a ban before it, that no overturn before it targets.
OverturnFits(log, E, i) ==
    E[i].type = "qualifying_ban_overturned" =>
      /\ E[i].ref \in DOMAIN log
      /\ \E k \in 1..(i - 1) : E[k] = log[E[i].ref] /\ E[k].type = "qualifying_ban_applied"
      /\ \A k \in 1..(i - 1) : E[k].type = E[i].type => E[k].ref # E[i].ref

\* So overturns are no more than bans: each has a ban of its own.
LEMMA CountNatural ==
    ASSUME NEW log \in Seq(Events), Ordered(log), NEW g, NEW E, E = Generation(log, g),
           NEW n \in Nat, 1..n \subseteq DOMAIN E, \A i \in 1..n : OverturnFits(log, E, i)
    PROVE  ReplayedCount(E, n) >= 0
  <1> DEFINE O == {i \in 1..n : E[i].type = "qualifying_ban_overturned"}
             B == {i \in 1..n : E[i].type = "qualifying_ban_applied"}
             f == [i \in O |-> log[E[i].ref].sequence]
  <1>1. Indexed(log, g)
    BY HeadsIndexed
  <1>2. \A k \in 1..n : \E j \in DOMAIN log : log[j].sequence = k /\ E[k] = log[j] /\ log[j].generation = g
    BY <1>1 DEF Indexed, Heads
  <1>3. ASSUME NEW i \in O
        PROVE  /\ E[i].ref \in DOMAIN log
               /\ \E k \in B : /\ k < i /\ f[i] = k /\ log[E[i].ref].sequence = k
                               /\ log[E[i].ref].generation = g
    <2>1. /\ i \in 1..n /\ E[i].ref \in DOMAIN log
          /\ \E k \in 1..(i - 1) : E[k] = log[E[i].ref] /\ E[k].type = "qualifying_ban_applied"
      BY <1>3 DEF OverturnFits
    <2>2. PICK k \in 1..(i - 1) : E[k] = log[E[i].ref] /\ E[k].type = "qualifying_ban_applied"
      BY <2>1
    <2>3. k \in 1..n /\ k < i
      BY <2>1, <2>2
    <2>4. E[k].sequence = k /\ E[k].generation = g
      BY <1>2, <2>3
    <2>5. f[i] = log[E[i].ref].sequence
      BY <1>3
    <2>6. k \in B
      BY <2>2, <2>3
    <2> QED
      BY <2>1, <2>2, <2>3, <2>4, <2>5, <2>6
  <1>4. f \in [O -> B]
    <2> HIDE DEF B
    <2> QED
      BY <1>3
  <1>5. ASSUME NEW i \in O, NEW j \in O, f[i] = f[j] PROVE i = j
    <2>1. PICK a, b : a = E[i].ref /\ b = E[j].ref
      OBVIOUS
    <2>2. /\ a \in DOMAIN log /\ b \in DOMAIN log /\ log[a].sequence = log[b].sequence
          /\ log[a].generation = log[b].generation /\ log[a].sequence \in Nat
      BY <1>3, <1>5, <2>1
    <2>3. a = b
      <3>1. DOMAIN log = 1..Len(log) /\ Len(log) \in Nat
        OBVIOUS
      <3>2. ~(a < b) /\ ~(b < a)
        BY <2>2 DEF Ordered
      <3>3. a \in Nat /\ b \in Nat
        BY <2>2, <3>1
      <3> QED
        BY <3>2, <3>3
    <2>4. /\ i \in 1..n /\ j \in 1..n /\ E[i].type = E[j].type
          /\ \A k \in 1..(i - 1) : E[k].type = E[i].type => E[k].ref # E[i].ref
          /\ \A k \in 1..(j - 1) : E[k].type = E[j].type => E[k].ref # E[j].ref
      BY <1>5 DEF OverturnFits
    <2>5. ~(i < j)
      <3> SUFFICES ASSUME i < j PROVE FALSE
        OBVIOUS
      <3>1. i \in 1..(j - 1)
        BY <2>4
      <3> QED
        BY <2>1, <2>3, <2>4, <3>1
    <2>6. ~(j < i)
      <3> SUFFICES ASSUME j < i PROVE FALSE
        OBVIOUS
      <3>1. j \in 1..(i - 1)
        BY <2>4
      <3> QED
        BY <2>1, <2>3, <2>4, <3>1
    <2> QED
      BY <2>4, <2>5, <2>6
  <1>6. IsFiniteSet(O) /\ IsFiniteSet(B)
    <2>1. IsFiniteSet(1..n) /\ O \in SUBSET (1..n) /\ B \in SUBSET (1..n)
      BY FS_Interval
    <2> QED
      BY <2>1, FS_Subset
  <1> HIDE DEF O, B, f
  <1>7. f \in Injection(O, B)
    BY <1>4, <1>5 DEF Injection, IsInjective
  <1>8. Cardinality(O) <= Cardinality(B) /\ Cardinality(O) \in Nat /\ Cardinality(B) \in Nat
    BY <1>6, <1>7, FS_Injection, FS_CardinalityType
  <1>9. ReplayedCount(E, n) = Cardinality(B) - Cardinality(O)
    BY DEF ReplayedCount, O, B
  <1> QED
    BY <1>8, <1>9

\* What makes the next event valid.
LEMMA ValidNext ==
    ASSUME NEW log, NEW E, NEW n \in Nat, NEW e, e = E[n + 1],
           e.type = "generation_started" => n + 1 = IF e.stream = "status" THEN 1 ELSE 2,
           e.type = "phone_blocked" => ReplayedStatus(E, n) = "normal",
           e.type = "phone_unblocked" => ReplayedStatus(E, n) = "blocked",
           OverturnFits(log, E, n + 1), ReplayedCount(E, n + 1) >= 0
    PROVE  ValidEvent(log, E, n + 1)
  <1>1. (n + 1) - 1 = n
    OBVIOUS
  <1> QED
    BY <1>1 DEF ValidEvent, OverturnFits

LEMMA ValidFits ==
    ASSUME NEW log, NEW E, NEW i, ValidEvent(log, E, i)
    PROVE  OverturnFits(log, E, i) /\ ReplayedCount(E, i) >= 0
  BY DEF ValidEvent, OverturnFits

\* A valid event stays valid when the log grows.
LEMMA ValidStays ==
    ASSUME NEW log, NEW longer, DOMAIN log \subseteq DOMAIN longer,
           \A i \in DOMAIN log : longer[i] = log[i],
           NEW E, NEW F, NEW N \in Nat, \A i \in 1..N : F[i] = E[i],
           NEW i \in 1..N, ValidEvent(log, E, i)
    PROVE  ValidEvent(longer, F, i)
  <1>1. i - 1 \in Nat /\ i \in Nat /\ i \in 1..N /\ \A k \in 1..(i - 1) : k \in 1..N /\ F[k] = E[k]
    OBVIOUS
  <1>2. F[i] = E[i]
    OBVIOUS
  <1>3. ReplayedCount(F, i) = ReplayedCount(E, i)
    BY <1>1, CountSame
  <1>4. ReplayedStatus(F, i - 1) = ReplayedStatus(E, i - 1)
    BY <1>1, StatusSame
  <1>5. OverturnFits(longer, F, i)
    <2>1. OverturnFits(log, E, i)
      BY ValidFits
    <2> QED
      BY <1>1, <1>2, <2>1 DEF OverturnFits
  <1>6. PICK e : e = F[i]
    OBVIOUS
  <1>7. /\ ReplayedCount(E, i) >= 0
        /\ e.type = "generation_started" => i = IF e.stream = "status" THEN 1 ELSE 2
        /\ e.type = "phone_blocked" => ReplayedStatus(E, i - 1) = "normal"
        /\ e.type = "phone_unblocked" => ReplayedStatus(E, i - 1) = "blocked"
    BY <1>2, <1>6 DEF ValidEvent
  <1> QED
    BY <1>3, <1>4, <1>5, <1>6, <1>7 DEF ValidEvent, OverturnFits

\* Every generation up to the given one replays.
LogReplays(log, top) ==
    \A g \in 1..top : /\ Contiguous(log, g)
                      /\ \A i \in DOMAIN Generation(log, g) : ValidEvent(log, Generation(log, g), i)

LEMMA LogReplaysOn ==
    ASSUME NEW log, NEW g, NEW s, NEW longer, NEW n, NEW m, NEW N,
           Continues(log, g, s, longer, n, m, N),
           NEW top, NEW next, \A h \in 1..next : h = g \/ h \in 1..top, LogReplays(log, top),
           \A i \in 1..N : ValidEvent(log, Generation(log, g), i),
           \A k \in 1..m : ValidEvent(longer, Generation(longer, g), N + k)
    PROVE  LogReplays(longer, next)
  <1>1. /\ n \in Nat /\ m \in Nat /\ N \in Nat /\ DOMAIN log = 1..n /\ DOMAIN longer = 1..(n + m)
        /\ \A i \in 1..n : longer[i] = log[i]
    BY DEF Continues
  <1>2. DOMAIN log \subseteq DOMAIN longer /\ \A i \in DOMAIN log : longer[i] = log[i]
    BY <1>1
  <1>3. /\ DOMAIN Generation(longer, g) = 1..(N + m) /\ Contiguous(longer, g)
        /\ \A i \in 1..N : Generation(longer, g)[i] = Generation(log, g)[i]
        /\ \A h : h # g => Generation(longer, h) = Generation(log, h)
    BY GenerationGrows
  <1>4. ASSUME NEW i \in DOMAIN Generation(longer, g)
        PROVE  ValidEvent(longer, Generation(longer, g), i)
    <2>1. CASE i \in 1..N
      BY <1>1, <1>2, <1>3, <2>1, ValidStays
    <2>2. CASE i \notin 1..N
      <3>1. i - N \in 1..m /\ i = N + (i - N)
        BY <1>1, <1>3, <1>4, <2>2
      <3> QED
        BY <3>1
    <2> QED
      BY <2>1, <2>2
  <1>5. ASSUME NEW h \in 1..next, h # g
        PROVE  /\ Contiguous(longer, h)
               /\ \A i \in DOMAIN Generation(longer, h) : ValidEvent(longer, Generation(longer, h), i)
    <2>1. h \in 1..top /\ Generation(longer, h) = Generation(log, h) /\ Heads(longer, h) = Heads(log, h)
      BY <1>3, <1>5, HeadsGrow
    <2>2. Contiguous(log, h) /\ \A i \in DOMAIN Generation(log, h) : ValidEvent(log, Generation(log, h), i)
      BY <2>1 DEF LogReplays
    <2>3. Contiguous(longer, h)
      BY <2>1, <2>2 DEF Contiguous
    <2>4. PICK E, M : E = Generation(log, h) /\ M = Cardinality(Heads(log, h))
      OBVIOUS
    <2>5. M \in Nat /\ DOMAIN E = 1..M
      <3>1. log \in Seq(Events)
        BY DEF Continues
      <3> QED
        BY <2>2, <2>4, <3>1, HeadsFinite DEF Contiguous
    <2>6. \A i \in 1..M : ValidEvent(longer, E, i)
      BY <1>2, <2>2, <2>4, <2>5, ValidStays
    <2> QED
      BY <2>1, <2>3, <2>4, <2>5, <2>6
  <1> QED
    BY <1>3, <1>4, <1>5 DEF LogReplays

-----------------------------------------------------------------------------
(* The row and the log of a phone.                                         *)

StatusStream(e) == e.type \in {"phone_blocked", "phone_unblocked"} => e.stream = "status"

\* The log replays to the row, generation by generation.
RowReplays(row, log) ==
    /\ Ordered(log)
    /\ \A i \in DOMAIN log : log[i].generation <= row.generation /\ StatusStream(log[i])
    /\ row = NoRow => log = <<>>
    /\ LogReplays(log, row.generation)
    /\ row # NoRow =>
         LET E == Generation(log, row.generation)
             n == Cardinality(Heads(log, row.generation))
         IN  n > 0 /\ Replays(row, E, n) /\ Excused(row, E, n)

\* What the events s must be for row to become next.
Advances(row, next, log, longer, g, N, m) ==
    LET F == Generation(longer, g) IN
    /\ next \in Rows
    /\ \/ row \in Rows /\ g \in 1..row.generation /\ next.generation = row.generation
       \/ g = row.generation + 1 /\ next.generation = g
    /\ \A k \in 1..m : ValidEvent(longer, F, N + k) /\ StatusStream(F[N + k])
    /\ next.generation = g => N + m > 0 /\ Replays(next, F, N + m) /\ Excused(next, F, N + m)
    /\ next.generation # g => next = row

LEMMA RowKinds ==
    ASSUME NEW row \in Rows \cup {NoRow}
    PROVE  /\ row.generation \in Nat /\ (row \in Rows <=> row # NoRow)
           /\ row \in Rows => IsRow(row) /\ row.generation \in 1..MaxGenerations
           /\ row = NoRow <=> row.generation = 0
  <1>1. MaxGenerations \in Nat /\ MaxOperations \in Nat
    BY LedgerAssumption
  <1>2. NoRow.generation = 0
    BY DEF NoRow
  <1>3. row \in Rows => row.generation \in 1..MaxGenerations
    BY DEF Rows
  <1>4. row \in Rows => IsRow(row)
    BY <1>1 DEF Rows, IsRow
  <1>5. row \in Rows => row.generation \in Nat /\ row.generation # 0
    BY <1>1, <1>3
  <1> QED
    BY <1>2, <1>3, <1>4, <1>5

\* A generation that has not begun.
LEMMA NotBegun ==
    ASSUME NEW log \in Seq(Events), NEW g \in Nat, \A i \in DOMAIN log : log[i].generation < g
    PROVE  Heads(log, g) = {} /\ Cardinality(Heads(log, g)) = 0 /\ Contiguous(log, g)
  <1>1. \A i \in DOMAIN log : log[i].generation # g
    <2>1. \A i \in DOMAIN log : log[i] \in Events
      OBVIOUS
    <2>2. \A i \in DOMAIN log : log[i].generation \in 1..MaxGenerations
      BY <2>1 DEF Events
    <2> QED
      BY <2>2
  <1>2. Heads(log, g) = {}
    BY <1>1 DEF Heads
  <1>3. Cardinality(Heads(log, g)) = 0
    BY <1>2, FS_EmptySet
  <1>4. DOMAIN Generation(log, g) = {}
    BY <1>2 DEF Generation
  <1>5. 1..0 = {}
    OBVIOUS
  <1> QED
    BY <1>2, <1>3, <1>4, <1>5 DEF Contiguous

LEMMA RowReplaysOn ==
    ASSUME NEW row \in Rows \cup {NoRow}, NEW log, RowReplays(row, log),
           NEW g, NEW s, NEW longer, NEW n, NEW m, NEW N,
           Continues(log, g, s, longer, n, m, N),
           NEW next, Advances(row, next, log, longer, g, N, m)
    PROVE  RowReplays(next, longer)
  <1>1. /\ n \in Nat /\ m \in Nat /\ N \in Nat /\ N = Cardinality(Heads(log, g))
        /\ DOMAIN log = 1..n /\ DOMAIN longer = 1..(n + m) /\ log \in Seq(Events)
        /\ \A i \in 1..n : longer[i] = log[i]
        /\ \A k \in 1..m : longer[n + k] = s[k] /\ s[k].generation = g
        /\ \A i \in 1..(n + m) : i \in 1..n \/ \E k \in 1..m : i = n + k
    BY DEF Continues
  <1>2. PICK E, F : E = Generation(log, g) /\ F = Generation(longer, g)
    OBVIOUS
  <1>3. /\ \A i \in 1..N : F[i] = E[i]
        /\ \A k \in 1..m : F[N + k] = s[k]
        /\ \A h : h # g => Generation(longer, h) = Generation(log, h) /\ Heads(longer, h) = Heads(log, h)
        /\ Cardinality(Heads(longer, g)) = N + m /\ DOMAIN E = 1..N
    BY <1>2, GenerationGrows, HeadsGrow
  <1>4. /\ next \in Rows /\ next # NoRow /\ next.generation \in Nat /\ row.generation \in Nat
        /\ g \in Nat /\ g <= next.generation /\ row.generation <= next.generation
        /\ \A h \in 1..next.generation : h = g \/ h \in 1..row.generation
        /\ next.generation # g => next = row /\ row \in Rows
        /\ \A k \in 1..m : ValidEvent(longer, F, N + k) /\ StatusStream(F[N + k])
    <2>1. /\ next \in Rows
          /\ \/ row \in Rows /\ g \in 1..row.generation /\ next.generation = row.generation
             \/ g = row.generation + 1 /\ next.generation = g
          /\ next.generation # g => next = row
          /\ \A k \in 1..m : ValidEvent(longer, F, N + k) /\ StatusStream(F[N + k])
      BY <1>2 DEF Advances
    <2>2. next # NoRow /\ next.generation \in Nat /\ row.generation \in Nat
      BY <2>1, RowKinds
    <2> QED
      BY <2>1, <2>2
  <1>5. Ordered(longer)
    BY OrderGrows
  <1>6. ASSUME NEW i \in DOMAIN longer
        PROVE  longer[i].generation <= next.generation /\ StatusStream(longer[i])
    <2>1. CASE i \in 1..n
      <3>1. log[i].generation <= row.generation /\ StatusStream(log[i]) /\ longer[i] = log[i]
        BY <1>1, <2>1 DEF RowReplays
      <3>2. log[i].generation \in Nat
        <4>1. log[i] \in Events
          BY <1>1, <2>1
        <4> QED
          BY <4>1, LedgerAssumption DEF Events
      <3> QED
        BY <1>4, <3>1, <3>2
    <2>2. ASSUME NEW k \in 1..m, i = n + k
          PROVE  longer[i].generation <= next.generation /\ StatusStream(longer[i])
      <3>1. longer[i] = s[k] /\ s[k].generation = g /\ StatusStream(s[k])
        BY <1>1, <1>3, <1>4, <2>2
      <3> QED
        BY <1>4, <3>1
    <2> QED
      BY <1>1, <1>6, <2>1, <2>2
  <1>7. LogReplays(longer, next.generation)
    <2>1. \A i \in 1..N : ValidEvent(log, E, i)
      <3>1. CASE g \in 1..row.generation
        BY <1>2, <1>3, <3>1 DEF RowReplays, LogReplays
      <3>2. CASE g \notin 1..row.generation
        <4>1. g = row.generation + 1
          BY <1>4, <3>2 DEF Advances
        <4>2. \A i \in DOMAIN log : log[i].generation < g
          <5>1. \A i \in DOMAIN log : log[i].generation <= row.generation
            BY DEF RowReplays
          <5>3. \A i \in DOMAIN log : log[i] \in Events
            BY <1>1
          <5>2. \A i \in DOMAIN log : log[i].generation \in 1..MaxGenerations
            BY <5>3 DEF Events
          <5> QED
            BY <1>4, <4>1, <5>1, <5>2, LedgerAssumption
        <4>3. N = 0
          BY <1>1, <1>4, <4>2, NotBegun
        <4> QED
          BY <4>3
      <3> QED
        BY <3>1, <3>2
    <2>2. LogReplays(log, row.generation)
      BY DEF RowReplays
    <2>3. \A k \in 1..m : ValidEvent(longer, F, N + k)
      BY <1>4
    <2> QED
      BY <1>2, <1>4, <2>1, <2>2, <2>3, LogReplaysOn
  <1>8. LET G == Generation(longer, next.generation)
            k == Cardinality(Heads(longer, next.generation))
        IN  k > 0 /\ Replays(next, G, k) /\ Excused(next, G, k)
    <2>1. CASE next.generation = g
      BY <1>2, <1>3, <2>1 DEF Advances
    <2>2. CASE next.generation # g
      <3>1. next = row /\ row # NoRow
        BY <1>4, <2>2
      <3>2. /\ Generation(longer, row.generation) = Generation(log, row.generation)
            /\ Heads(longer, row.generation) = Heads(log, row.generation)
        BY <1>3, <2>2, <3>1
      <3> QED
        BY <3>1, <3>2 DEF RowReplays
    <2> QED
      BY <2>1, <2>2
  <1> QED
    BY <1>4, <1>5, <1>6, <1>7, <1>8 DEF RowReplays

-----------------------------------------------------------------------------
(* The requests on record.                                                 *)

\* The events of a request, in a log, and of a stream, among appended events.
EventsOf(log, id, stream) == {i \in DOMAIN log : log[i].op = id /\ log[i].stream = stream}
InStream(s, stream) == {k \in DOMAIN s : s[k].stream = stream}

\* The record asks for the events of the stream that the log has.
Fulfils(log, id, record) ==
    /\ Cardinality(EventsOf(log, id, "sanction")) = record.sanctions
    /\ Cardinality(EventsOf(log, id, "status")) = record.statuses
    /\ \A i \in EventsOf(log, id, "sanction") \cup EventsOf(log, id, "status") :
         log[i].generation = record.generation

Recorded(log, records, p) ==
    /\ \A i \in DOMAIN log : log[i].op \in DOMAIN records /\ records[log[i].op].phone = p
    /\ \A id \in DOMAIN records : records[id].phone = p => Fulfils(log, id, records[id])

\* The record of a request that appends s to generation g.
RecordOf(p, g, s) == [phone |-> p, generation |-> g, sanctions |-> Cardinality(InStream(s, "sanction")),
                      statuses |-> Cardinality(InStream(s, "status"))]

\* One more request is on record.
Noted(records, more, L, record) ==
    /\ L \in Nat /\ DOMAIN records = 1..L /\ DOMAIN more = 1..(L + 1)
    /\ \A i \in 1..L : more[i] = records[i]
    /\ more[L + 1] = record

LEMMA Shifted ==
    ASSUME NEW n \in Nat, NEW m \in Nat, NEW S, S \subseteq 1..m, NEW T, T = {n + k : k \in S}
    PROVE  Cardinality(T) = Cardinality(S)
  <1> DEFINE f == [k \in S |-> n + k]
  <1>1. IsFiniteSet(S)
    <2>1. IsFiniteSet(1..m) /\ S \in SUBSET (1..m)
      BY FS_Interval
    <2> QED
      BY <2>1, FS_Subset
  <1>2. f \in Bijection(S, T)
    <2>1. f \in [S -> T]
      OBVIOUS
    <2>2. \A j, k \in S : f[j] = f[k] => j = k
      <3>1. \A k \in S : k \in Nat
        OBVIOUS
      <3> QED
        BY <3>1
    <2>3. \A t \in T : \E k \in S : f[k] = t
      OBVIOUS
    <2> HIDE DEF f
    <2> QED
      BY <2>1, <2>2, <2>3 DEF Bijection, Injection, Surjection, IsInjective
  <1>3. ExistsBijection(S, T)
    BY <1>2 DEF ExistsBijection
  <1> QED
    BY <1>1, <1>3, FS_Bijection

LEMMA EventsOfNew ==
    ASSUME NEW log, NEW g, NEW s, NEW longer, NEW n, NEW m, NEW N,
           Continues(log, g, s, longer, n, m, N), NEW op, \A k \in 1..m : s[k].op = op,
           \A i \in 1..n : log[i].op # op, NEW stream
    PROVE  EventsOf(longer, op, stream) = {n + k : k \in InStream(s, stream)}
           /\ Cardinality(EventsOf(longer, op, stream)) = Cardinality(InStream(s, stream))
           /\ \A i \in EventsOf(longer, op, stream) : longer[i].generation = g
  <1>1. /\ n \in Nat /\ m \in Nat /\ DOMAIN longer = 1..(n + m) /\ DOMAIN s = 1..m
        /\ \A i \in 1..n : longer[i] = log[i]
        /\ \A k \in 1..m : longer[n + k] = s[k] /\ s[k].generation = g
        /\ \A i \in 1..(n + m) : i \in 1..n \/ \E k \in 1..m : i = n + k
    BY DEF Continues
  <1>2. \A k \in 1..m : n + k \in 1..(n + m)
    BY <1>1
  <1>3. ASSUME NEW i \in EventsOf(longer, op, stream)
        PROVE  \E k \in InStream(s, stream) : i = n + k
    <2>1. i \in 1..(n + m) /\ longer[i].op = op /\ longer[i].stream = stream
      BY <1>1, <1>3 DEF EventsOf
    <2>2. PICK k \in 1..m : i = n + k
      BY <1>1, <2>1
    <2>3. longer[i] = s[k]
      BY <1>1, <2>2
    <2> QED
      BY <1>1, <2>1, <2>2, <2>3 DEF InStream
  <1>4. ASSUME NEW k \in InStream(s, stream)
        PROVE  n + k \in EventsOf(longer, op, stream)
    <2>1. k \in 1..m /\ s[k].stream = stream
      BY <1>1 DEF InStream
    <2>2. longer[n + k] = s[k] /\ n + k \in DOMAIN longer /\ s[k].op = op
      BY <1>1, <1>2, <2>1
    <2> QED
      BY <2>1, <2>2 DEF EventsOf
  <1>5. EventsOf(longer, op, stream) = {n + k : k \in InStream(s, stream)}
    BY <1>3, <1>4
  <1>6. InStream(s, stream) \subseteq 1..m
    BY <1>1 DEF InStream
  <1>7. \A i \in EventsOf(longer, op, stream) : longer[i].generation = g
    BY <1>1, <1>3, <1>6
  <1> QED
    BY <1>1, <1>5, <1>6, <1>7, Shifted

LEMMA EventsOfOld ==
    ASSUME NEW log, NEW g, NEW s, NEW longer, NEW n, NEW m, NEW N,
           Continues(log, g, s, longer, n, m, N), NEW op, \A k \in 1..m : s[k].op = op,
           NEW id, id # op, NEW record, Fulfils(log, id, record)
    PROVE  Fulfils(longer, id, record)
  <1>1. /\ n \in Nat /\ m \in Nat /\ DOMAIN longer = 1..(n + m) /\ DOMAIN log = 1..n
        /\ \A i \in 1..n : longer[i] = log[i]
        /\ \A k \in 1..m : longer[n + k] = s[k]
        /\ \A i \in 1..(n + m) : i \in 1..n \/ \E k \in 1..m : i = n + k
    BY DEF Continues
  <1>2. \A i \in 1..n : i \in 1..(n + m)
    BY <1>1
  <1>3. ASSUME NEW stream PROVE EventsOf(longer, id, stream) = EventsOf(log, id, stream)
    <2>1. ASSUME NEW i \in EventsOf(longer, id, stream) PROVE i \in EventsOf(log, id, stream)
      <3>1. i \in 1..(n + m) /\ longer[i].op = id /\ longer[i].stream = stream
        BY <1>1, <2>1 DEF EventsOf
      <3>2. i \in 1..n
        BY <1>1, <3>1
      <3> QED
        BY <1>1, <3>1, <3>2 DEF EventsOf
    <2>2. ASSUME NEW i \in EventsOf(log, id, stream) PROVE i \in EventsOf(longer, id, stream)
      BY <1>1, <1>2, <2>2 DEF EventsOf
    <2> QED
      BY <2>1, <2>2
  <1>4. \A stream : \A i \in EventsOf(log, id, stream) : longer[i] = log[i]
    BY <1>1 DEF EventsOf
  <1> QED
    BY <1>3, <1>4 DEF Fulfils

LEMMA RecordedOn ==
    ASSUME NEW log, NEW g, NEW s, NEW longer, NEW n, NEW m, NEW N,
           Continues(log, g, s, longer, n, m, N), NEW records, NEW more, NEW L, NEW p,
           Noted(records, more, L, RecordOf(p, g, s)), \A k \in 1..m : s[k].op = L + 1,
           Recorded(log, records, p)
    PROVE  Recorded(longer, more, p)
  <1>1. /\ n \in Nat /\ m \in Nat /\ DOMAIN longer = 1..(n + m) /\ DOMAIN log = 1..n
        /\ \A i \in 1..n : longer[i] = log[i]
        /\ \A k \in 1..m : longer[n + k] = s[k]
        /\ \A i \in 1..(n + m) : i \in 1..n \/ \E k \in 1..m : i = n + k
    BY DEF Continues
  <1>2. PICK record : record = RecordOf(p, g, s)
    OBVIOUS
  <1>3. /\ record.phone = p /\ record.generation = g
        /\ record.sanctions = Cardinality(InStream(s, "sanction"))
        /\ record.statuses = Cardinality(InStream(s, "status"))
    BY <1>2 DEF RecordOf
  <1>4. /\ L \in Nat /\ DOMAIN records = 1..L /\ DOMAIN more = 1..(L + 1)
        /\ \A i \in 1..L : more[i] = records[i] /\ i # L + 1 /\ i \in 1..(L + 1)
        /\ more[L + 1] = record /\ L + 1 \in 1..(L + 1)
        /\ \A i \in 1..(L + 1) : i \in 1..L \/ i = L + 1
    <2>1. /\ L \in Nat /\ DOMAIN records = 1..L /\ DOMAIN more = 1..(L + 1)
          /\ \A i \in 1..L : more[i] = records[i]
          /\ more[L + 1] = record
      BY <1>2 DEF Noted
    <2> QED
      BY <2>1
  <1>5. \A i \in 1..n : log[i].op \in 1..L /\ records[log[i].op].phone = p
    BY <1>1, <1>4 DEF Recorded
  <1>6. \A i \in DOMAIN longer : longer[i].op \in DOMAIN more /\ more[longer[i].op].phone = p
    <2> SUFFICES ASSUME NEW i \in DOMAIN longer
                 PROVE  longer[i].op \in DOMAIN more /\ more[longer[i].op].phone = p
      OBVIOUS
    <2>1. CASE i \in 1..n
      BY <1>1, <1>4, <1>5, <2>1
    <2>2. ASSUME NEW k \in 1..m, i = n + k
          PROVE  longer[i].op = L + 1
      BY <1>1, <2>2
    <2>3. L + 1 \in DOMAIN more /\ more[L + 1].phone = p
      BY <1>3, <1>4
    <2>4. i \in 1..n \/ \E k \in 1..m : i = n + k
      BY <1>1
    <2> QED
      BY <2>1, <2>2, <2>3, <2>4
  <1>7. Fulfils(longer, L + 1, record)
    <2>1. \A i \in 1..n : log[i].op # L + 1
      BY <1>4, <1>5
    <2>2. \A stream : /\ Cardinality(EventsOf(longer, L + 1, stream)) = Cardinality(InStream(s, stream))
                      /\ \A i \in EventsOf(longer, L + 1, stream) : longer[i].generation = g
      BY <2>1, EventsOfNew
    <2> QED
      BY <1>3, <2>2 DEF Fulfils
  <1>8. ASSUME NEW id \in 1..L, more[id].phone = p PROVE Fulfils(longer, id, more[id])
    <2>1. more[id] = records[id] /\ id # L + 1
      BY <1>4
    <2>2. Fulfils(log, id, records[id])
      BY <1>4, <1>8, <2>1 DEF Recorded
    <2> QED
      BY <2>1, <2>2, EventsOfOld
  <1> QED
    BY <1>4, <1>6, <1>7, <1>8 DEF Recorded

\* The records of another phone.
LEMMA RecordedElsewhere ==
    ASSUME NEW log, NEW records, NEW more, NEW L, NEW record, NEW p,
           Noted(records, more, L, record), record.phone # p, Recorded(log, records, p)
    PROVE  Recorded(log, more, p)
  <1>1. /\ L \in Nat /\ DOMAIN records = 1..L /\ DOMAIN more = 1..(L + 1)
        /\ \A i \in 1..L : more[i] = records[i]
        /\ more[L + 1] = record
    BY DEF Noted
  <1>2. /\ \A i \in 1..L : i \in 1..(L + 1)
        /\ \A i \in 1..(L + 1) : i \in 1..L \/ i = L + 1
    BY <1>1
  <1>3. \A i \in DOMAIN log : log[i].op \in DOMAIN more /\ more[log[i].op].phone = p
    BY <1>1, <1>2 DEF Recorded
  <1>4. \A id \in 1..L : more[id].phone = p => Fulfils(log, id, more[id])
    BY <1>1 DEF Recorded
  <1> QED
    BY <1>1, <1>2, <1>3, <1>4 DEF Recorded

-----------------------------------------------------------------------------
(* What the ledgers keep true.                                             *)

ReplayInv ==
    \A p \in Phones : RowReplays(reputations[p], ledger[p]) /\ Recorded(ledger[p], operations, p)

\* A log that replays passes the validation, and blocks at the threshold.
LEMMA ReplaysValid ==
    ASSUME LedgerTypeOK, ReplayInv
    PROVE  LedgerValid /\ ThresholdBlocks
  <1>1. ASSUME NEW p \in Phones, reputations[p] # NoRow
        PROVE  ValidateOne(p)
    <2>1. PICK row, log : row = reputations[p] /\ log = ledger[p]
      OBVIOUS
    <2>2. /\ row # NoRow /\ LogReplays(log, row.generation)
          /\ \A i \in DOMAIN log : log[i].generation <= row.generation
      BY <1>1, <2>1 DEF ReplayInv, RowReplays
    <2>3. PICK E, n : E = Generation(log, row.generation) /\ n = Cardinality(Heads(log, row.generation))
      OBVIOUS
    <2>4. n > 0 /\ Replays(row, E, n)
      BY <1>1, <2>1, <2>3 DEF ReplayInv, RowReplays
    <2>5. Recorded(log, operations, p)
      BY <2>1 DEF ReplayInv
    <2>6. \A id \in DOMAIN operations : operations[id].phone = p => CompleteOperation(p, id)
      BY <2>1, <2>5 DEF Recorded, Fulfils, EventsOf, CompleteOperation
    <2>7. \A i \in DOMAIN log : log[i].op \in DOMAIN operations /\ operations[log[i].op].phone = p
      BY <2>5 DEF Recorded
    <2> QED
      BY <2>1, <2>2, <2>3, <2>4, <2>6, <2>7 DEF ValidateOne, LogReplays, Replays
  <1>2. ASSUME NEW p \in Phones, reputations[p] # NoRow
        PROVE  Excused(reputations[p], Generation(ledger[p], reputations[p].generation),
                       Cardinality(Heads(ledger[p], reputations[p].generation)))
    BY <1>2 DEF ReplayInv, RowReplays
  <1>3. ThresholdBlocks
    BY <1>2 DEF ThresholdBlocks, Excused
  <1> QED
    BY <1>1, <1>3 DEF LedgerValid

\* A request appends s to generation g of p, and its row follows.
Extends(p, g, s) ==
    LET log == ledger[p]
        N == Cardinality(Heads(log, g))
    IN
    /\ p \in Phones /\ s \in Seq(Events) /\ Contiguous(log, g)
    /\ ledger' = [ledger EXCEPT ![p] = log \o s]
    /\ operations' = Append(operations, RecordOf(p, g, s))
    /\ \A q \in Phones : q # p => reputations'[q] = reputations[q]
    /\ \A k \in DOMAIN s : s[k].generation = g /\ s[k].sequence = N + k /\ s[k].op = Len(operations) + 1
    /\ Advances(reputations[p], reputations'[p], log, log \o s, g, N, Len(s))

LEMMA ReplaysOn ==
    ASSUME LedgerTypeOK, ReplayInv, NEW p, NEW g, NEW s, Extends(p, g, s)
    PROVE  ReplayInv'
  <1>1. PICK log, longer, n, m, N, L, more :
           /\ log = ledger[p] /\ longer = log \o s /\ n = Len(log) /\ m = Len(s)
           /\ N = Cardinality(Heads(log, g)) /\ L = Len(operations) /\ more = operations'
    OBVIOUS
  <1>2. /\ p \in Phones /\ s \in Seq(Events) /\ Contiguous(log, g) /\ m \in Nat /\ DOMAIN s = 1..m
        /\ \A k \in DOMAIN s : s[k].generation = g /\ s[k].sequence = N + k /\ s[k].op = L + 1
        /\ Advances(reputations[p], reputations'[p], log, longer, g, N, m)
        /\ \A q \in Phones : q # p => reputations'[q] = reputations[q]
    BY <1>1 DEF Extends
  <1>3. log \in Seq(Events) /\ reputations[p] \in Rows \cup {NoRow}
    BY <1>1, <1>2, RowFacts
  <1>4. RowReplays(reputations[p], log) /\ Recorded(log, operations, p) /\ Ordered(log)
    BY <1>1, <1>2 DEF ReplayInv, RowReplays
  <1>5. Continues(log, g, s, longer, n, m, N)
    BY <1>1, <1>2, <1>3, <1>4, LogGrows
  <1>6. ledger'[p] = longer /\ \A q \in Phones : q # p => ledger'[q] = ledger[q]
    BY <1>1 DEF Extends, LedgerTypeOK
  <1>7. RowReplays(reputations'[p], longer)
    BY <1>2, <1>3, <1>4, <1>5, RowReplaysOn
  <1>8. Noted(operations, more, L, RecordOf(p, g, s))
    <2>1. PICK record : record = RecordOf(p, g, s)
      OBVIOUS
    <2>2. more = Append(operations, record) /\ L = Len(operations)
      BY <1>1, <2>1 DEF Extends
    <2>3. operations \in Seq(OperationRows)
      BY DEF LedgerTypeOK, OperationRows
    <2>4. /\ L \in Nat /\ DOMAIN operations = 1..L /\ DOMAIN more = 1..(L + 1)
          /\ \A i \in 1..L : more[i] = operations[i]
          /\ more[L + 1] = record
      BY <2>2, <2>3
    <2> QED
      BY <2>1, <2>4 DEF Noted
  <1>9. Recorded(longer, more, p)
    BY <1>2, <1>4, <1>5, <1>8, RecordedOn
  <1>10. ASSUME NEW q \in Phones, q # p
         PROVE  RowReplays(reputations'[q], ledger'[q]) /\ Recorded(ledger'[q], more, q)
    <2>1. reputations'[q] = reputations[q] /\ ledger'[q] = ledger[q]
      BY <1>2, <1>6, <1>10
    <2>2. RowReplays(reputations[q], ledger[q]) /\ Recorded(ledger[q], operations, q)
      BY DEF ReplayInv
    <2>3. RecordOf(p, g, s).phone # q
      BY <1>10 DEF RecordOf
    <2>4. Recorded(ledger[q], more, q)
      BY <1>8, <2>2, <2>3, RecordedElsewhere
    <2> QED
      BY <2>1, <2>2, <2>4
  <1> QED
    <2>1. more = operations'
      BY <1>1
    <2>2. \A q \in Phones : RowReplays(reputations'[q], ledger'[q]) /\ Recorded(ledger'[q], more, q)
      BY <1>6, <1>7, <1>9, <1>10
    <2> QED
      BY <2>1, <2>2 DEF ReplayInv

LEMMA ReplaysUnchanged ==
    ASSUME ReplayInv, UNCHANGED ledgerVars
    PROVE  ReplayInv'
  BY DEF ReplayInv, ledgerVars

-----------------------------------------------------------------------------
(* The next events of a generation.                                        *)

\* The number the next event gets is the one it needs.
LEMMA NextNumber ==
    ASSUME NEW p, NEW g, Contiguous(ledger[p], g), NEW N \in Nat,
           N = Cardinality(Heads(ledger[p], g))
    PROVE  NextSequence(p, g) = N + 1
  <1>1. PICK log : log = ledger[p]
    OBVIOUS
  <1>2. {log[i].sequence : i \in Heads(log, g)} = 1..N
    BY <1>1 DEF Contiguous, Generation
  <1>3. PICK S : S = {0} \cup {log[i].sequence : i \in {k \in DOMAIN log : log[k].generation = g}}
    OBVIOUS
  <1>4. S = {0} \cup 1..N
    BY <1>2, <1>3 DEF Heads
  <1>5. S \in SUBSET Nat /\ S # {} /\ (\A x \in S : x <= N) /\ N \in S
    BY <1>4
  <1>6. Max(S) \in S /\ \A x \in S : x <= Max(S)
    BY <1>5, MaxIn
  <1>7. Max(S) = N
    <2>1. PICK x : x = Max(S)
      OBVIOUS
    <2>2. x \in Nat /\ x <= N /\ N <= x
      BY <1>5, <1>6, <2>1
    <2> QED
      BY <2>1, <2>2
  <1> QED
    BY <1>1, <1>3, <1>7 DEF NextSequence

\* What the events before the new ones come to.
LEMMA RowSoFar ==
    ASSUME NEW row \in Rows, NEW log, RowReplays(row, log), NEW g, g = row.generation,
           NEW s, NEW longer, NEW n, NEW m, NEW N, Continues(log, g, s, longer, n, m, N),
           NEW F, F = Generation(longer, g)
    PROVE  /\ N \in Nat /\ N > 0 /\ IsRow(row) /\ Replays(row, F, N) /\ Excused(row, F, N)
           /\ row.count >= 0 /\ row.status = ReplayedStatus(F, N)
  <1>1. N \in Nat /\ N = Cardinality(Heads(log, g))
    BY DEF Continues
  <1>2. PICK E : E = Generation(log, g)
    OBVIOUS
  <1>3. DOMAIN E = 1..N /\ \A i \in 1..N : F[i] = E[i]
    BY <1>2, GenerationGrows
  <1>4. row # NoRow /\ IsRow(row) /\ g \in 1..g
    <2>1. row # NoRow /\ IsRow(row) /\ row.generation \in 1..MaxGenerations
      BY RowKinds
    <2>2. \A x \in 1..MaxGenerations : x \in 1..x
      OBVIOUS
    <2> QED
      BY <2>1, <2>2
  <1>5. N > 0 /\ Replays(row, E, N) /\ Excused(row, E, N) /\ LogReplays(log, g)
    BY <1>1, <1>2, <1>4 DEF RowReplays
  <1>6. Replays(row, F, N) /\ Excused(row, F, N)
    BY <1>1, <1>3, <1>5, ReplaySame
  <1>7. ReplayedCount(E, N) >= 0
    <2>1. N \in DOMAIN E
      BY <1>1, <1>3, <1>5
    <2>2. ValidEvent(log, E, N)
      BY <1>2, <1>4, <1>5, <2>1 DEF LogReplays
    <2> QED
      BY <2>2 DEF ValidEvent
  <1>8. row.count >= 0
    BY <1>5, <1>7 DEF Replays
  <1>9. row.status = ReplayedStatus(F, N)
    BY <1>6 DEF Replays
  <1> QED
    BY <1>1, <1>4, <1>5, <1>6, <1>8, <1>9

\* An event that may follow a row, an overturn aside.
Fits(row, e) ==
    /\ e.op \in Nat /\ StatusStream(e) /\ e.type # "generation_started"
    /\ e.type = "phone_blocked" => row.status = "normal"
    /\ e.type = "phone_unblocked" => row.status = "blocked"

LEMMA NextValid ==
    ASSUME NEW row, IsRow(row), NEW F, NEW n \in Nat, Replays(row, F, n), row.count >= 0,
           NEW e, e = F[n + 1], Fits(row, e), NEW log,
           e.type # "qualifying_ban_overturned" \/ ValidEvent(log, F, n + 1)
    PROVE  /\ ValidEvent(log, F, n + 1) /\ Replays(After(row, e), F, n + 1)
           /\ IsRow(After(row, e)) /\ After(row, e).count >= 0
           /\ After(row, e).generation = row.generation
  <1>1. PICK r : r = After(row, e)
    OBVIOUS
  <1>2. Replays(r, F, n + 1)
    BY <1>1, ReplayNext DEF Fits
  <1>3. /\ IsRow(r) /\ r.generation = row.generation
        /\ r.count = CASE e.type = "qualifying_ban_applied"    -> row.count + 1
                       [] e.type = "qualifying_ban_overturned" -> row.count - 1
                       [] OTHER                                -> row.count
    BY <1>1, AfterFields DEF Fits
  <1>4. r.count = ReplayedCount(F, n + 1) /\ row.status = ReplayedStatus(F, n)
    BY <1>2 DEF Replays
  <1>5. CASE ValidEvent(log, F, n + 1)
    <2>1. ReplayedCount(F, n + 1) >= 0
      BY <1>5 DEF ValidEvent
    <2> QED
      BY <1>1, <1>2, <1>3, <1>4, <1>5, <2>1
  <1>6. CASE e.type # "qualifying_ban_overturned"
    <2>1. r.count >= 0
      <3>1. row.count \in Int
        BY DEF IsRow
      <3>2. r.count = row.count + 1 \/ r.count = row.count
        BY <1>3, <1>6
      <3> QED
        BY <3>1, <3>2
    <2>2. OverturnFits(log, F, n + 1)
      BY <1>6 DEF OverturnFits
    <2>3. ReplayedCount(F, n + 1) >= 0
      BY <1>4, <2>1
    <2>4. ValidEvent(log, F, n + 1)
      BY <1>4, <2>2, <2>3, ValidNext DEF Fits
    <2> QED
      BY <1>1, <1>2, <1>3, <2>1, <2>4
  <1> QED
    BY <1>5, <1>6

\* The overturn of a ban that no overturn names yet.
LEMMA OverturnValid ==
    ASSUME NEW log, NEW g, NEW s, NEW longer, NEW n, NEW m, NEW N,
           Continues(log, g, s, longer, n, m, N), 1 \in DOMAIN s,
           s[1].type = "qualifying_ban_overturned", NEW x \in DOMAIN log, s[1].ref = x,
           log[x].type = "qualifying_ban_applied", log[x].generation = g,
           \A i \in DOMAIN log : log[i].type = "qualifying_ban_overturned" => log[i].ref # x,
           NEW top, LogReplays(log, top), g \in 1..top, NEW F, F = Generation(longer, g)
    PROVE  ValidEvent(longer, F, N + 1)
  <1>1. /\ n \in Nat /\ m \in Nat /\ N \in Nat /\ DOMAIN log = 1..n /\ DOMAIN longer = 1..(n + m)
        /\ \A i \in 1..n : longer[i] = log[i]
        /\ log \in Seq(Events) /\ Ordered(log) /\ DOMAIN s = 1..m /\ longer \in Seq(Events)
    BY DEF Continues
  <1>2. PICK E : E = Generation(log, g)
    OBVIOUS
  <1>3. /\ DOMAIN E = 1..N /\ DOMAIN F = 1..(N + m) /\ \A i \in 1..N : F[i] = E[i]
        /\ \A k \in 1..m : F[N + k] = s[k]
    BY <1>2, GenerationGrows
  <1>4. F[N + 1] = s[1] /\ x \in DOMAIN longer /\ longer[x] = log[x]
        /\ DOMAIN log \subseteq DOMAIN longer /\ 1..(N + 1) \subseteq DOMAIN F
    BY <1>1, <1>3
  <1>5. Indexed(log, g) /\ Ordered(longer)
    BY <1>1, HeadsIndexed, OrderGrows
  <1>6. \E k \in 1..N : F[k] = longer[x]
    <2>1. x \in Heads(log, g)
      BY DEF Heads
    <2>2. log[x].sequence \in DOMAIN E /\ E[log[x].sequence] = log[x]
      BY <1>2, <1>5, <2>1 DEF Indexed
    <2> QED
      BY <1>3, <1>4, <2>2
  <1>7. \A k \in 1..N : F[k].type = "qualifying_ban_overturned" => F[k].ref # x
    <2> SUFFICES ASSUME NEW k \in 1..N PROVE F[k].type = "qualifying_ban_overturned" => F[k].ref # x
      OBVIOUS
    <2>1. PICK i \in Heads(log, g) : E[k] = log[i]
      BY <1>2, <1>3, <1>5 DEF Indexed
    <2>2. i \in DOMAIN log /\ F[k] = log[i]
      BY <1>3, <2>1 DEF Heads
    <2> QED
      BY <2>2
  <1>8. OverturnFits(longer, F, N + 1)
    <2>1. (N + 1) - 1 = N
      BY <1>1
    <2> QED
      BY <1>4, <1>6, <1>7, <2>1 DEF OverturnFits
  <1>9. \A i \in 1..N : OverturnFits(longer, F, i)
    <2> SUFFICES ASSUME NEW i \in 1..N PROVE OverturnFits(longer, F, i)
      OBVIOUS
    <2>1. ValidEvent(log, E, i)
      BY <1>2, <1>3 DEF LogReplays
    <2>2. ValidEvent(longer, F, i)
      BY <1>1, <1>3, <1>4, <2>1, ValidStays
    <2> QED
      BY <2>2, ValidFits
  <1>10. \A i \in 1..(N + 1) : OverturnFits(longer, F, i)
    <2>1. \A i \in 1..(N + 1) : i \in 1..N \/ i = N + 1
      BY <1>1
    <2> QED
      BY <1>8, <1>9, <2>1
  <1>11. ReplayedCount(F, N + 1) >= 0
    <2>1. N + 1 \in Nat
      BY <1>1
    <2> QED
      BY <1>1, <1>4, <1>5, <1>10, <2>1, CountNatural
  <1> QED
    BY <1>1, <1>4, <1>8, <1>11, ValidNext

\* No event, one, or two, of the row's generation.
LEMMA NoEvent ==
    ASSUME NEW row \in Rows, NEW log, RowReplays(row, log), NEW g, g = row.generation,
           NEW s, NEW longer, NEW n, NEW m, NEW N, Continues(log, g, s, longer, n, m, N), m = 0
    PROVE  Advances(row, row, log, longer, g, N, m)
  <1>1. PICK F : F = Generation(longer, g)
    OBVIOUS
  <1>2. N \in Nat /\ N > 0 /\ Replays(row, F, N) /\ Excused(row, F, N)
    BY <1>1, RowSoFar
  <1>3. g \in 1..row.generation
    BY RowKinds
  <1>4. N + m = N /\ 1..m = {}
    BY <1>2
  <1> QED
    BY <1>1, <1>2, <1>3, <1>4 DEF Advances

LEMMA OneEvent ==
    ASSUME NEW row \in Rows, NEW log, RowReplays(row, log), NEW g, g = row.generation,
           NEW s, NEW longer, NEW n, NEW m, NEW N, Continues(log, g, s, longer, n, m, N), m = 1,
           NEW e, e = s[1], Fits(row, e),
           e.type # "qualifying_ban_overturned" \/ ValidEvent(longer, Generation(longer, g), N + 1),
           e.type = "qualifying_ban_applied" => row.status = "blocked" \/ row.count + 1 < BanThreshold,
           NEW next \in Rows, next = After(row, e)
    PROVE  Advances(row, next, log, longer, g, N, m)
  <1>1. PICK F : F = Generation(longer, g)
    OBVIOUS
  <1>2. /\ N \in Nat /\ N > 0 /\ IsRow(row) /\ Replays(row, F, N) /\ Excused(row, F, N)
        /\ row.count >= 0
    BY <1>1, RowSoFar
  <1>3. F[N + 1] = e
    <2>1. \A k \in 1..m : F[N + k] = s[k]
      BY <1>1, GenerationGrows
    <2> QED
      BY <2>1
  <1>4. ValidEvent(longer, F, N + 1) /\ Replays(next, F, N + 1) /\ next.generation = g
    BY <1>1, <1>2, <1>3, NextValid
  <1>5. Excused(next, F, N + 1)
    BY <1>2, <1>3, ExcusedNext DEF Fits
  <1>6. g \in 1..row.generation
    BY RowKinds
  <1>7. N + 1 > 0 /\ 1..m = {1} /\ StatusStream(e)
    BY <1>2 DEF Fits
  <1> QED
    BY <1>1, <1>3, <1>4, <1>5, <1>6, <1>7 DEF Advances

LEMMA TwoEvents ==
    ASSUME NEW row \in Rows, NEW log, RowReplays(row, log), NEW g, g = row.generation,
           NEW s, NEW longer, NEW n, NEW m, NEW N, Continues(log, g, s, longer, n, m, N), m = 2,
           NEW e, e = s[1], Fits(row, e),
           e.type # "qualifying_ban_overturned" \/ ValidEvent(longer, Generation(longer, g), N + 1),
           NEW middle, middle = After(row, e), NEW f, f = s[2], Fits(middle, f),
           f.type = "phone_blocked" \/ (f.type = "phone_unblocked" /\ e.type # "qualifying_ban_applied"),
           NEW next \in Rows, next = After(middle, f)
    PROVE  Advances(row, next, log, longer, g, N, m)
  <1>1. PICK F : F = Generation(longer, g)
    OBVIOUS
  <1>2. /\ N \in Nat /\ N > 0 /\ IsRow(row) /\ Replays(row, F, N) /\ Excused(row, F, N)
        /\ row.count >= 0
    BY <1>1, RowSoFar
  <1>3. F[N + 1] = e /\ F[N + 2] = f
    <2>1. \A k \in 1..m : F[N + k] = s[k]
      BY <1>1, GenerationGrows
    <2> QED
      BY <2>1
  <1>4. /\ ValidEvent(longer, F, N + 1) /\ Replays(middle, F, N + 1) /\ IsRow(middle)
        /\ middle.count >= 0 /\ middle.generation = g
    BY <1>1, <1>2, <1>3, NextValid
  <1>5. PICK M : M = N + 1
    OBVIOUS
  <1>6. M \in Nat /\ M + 1 = N + 2 /\ F[M + 1] = f
    BY <1>2, <1>3, <1>5
  <1>7. f.type # "qualifying_ban_overturned" /\ f.type # "qualifying_ban_applied"
    OBVIOUS
  <1>8. ValidEvent(longer, F, M + 1) /\ Replays(next, F, M + 1) /\ next.generation = g
    BY <1>4, <1>5, <1>6, <1>7, NextValid
  <1>9. Excused(next, F, M + 1)
    <2>1. CASE f.type = "phone_blocked"
      <3>1. next.status = "blocked"
        BY <1>4, <2>1, AfterFields DEF Fits
      <3> QED
        BY <3>1 DEF Excused
    <2>2. CASE e.type # "qualifying_ban_applied"
      <3>1. Excused(middle, F, M)
        BY <1>2, <1>3, <1>5, <2>2, ExcusedNext DEF Fits
      <3> QED
        BY <1>4, <1>6, <1>7, <3>1, ExcusedNext DEF Fits
    <2> QED
      BY <2>1, <2>2
  <1>10. g \in 1..row.generation
    BY RowKinds
  <1>11. N + 2 > 0 /\ 1..m = {1, 2} /\ StatusStream(e) /\ StatusStream(f)
    BY <1>2 DEF Fits
  <1>12. \A k \in 1..m : ValidEvent(longer, F, N + k) /\ StatusStream(F[N + k])
    BY <1>3, <1>4, <1>6, <1>8, <1>11
  <1>13. N + m > 0 /\ Replays(next, F, N + m) /\ Excused(next, F, N + m)
    BY <1>6, <1>8, <1>9, <1>11
  <1> QED
    BY <1>1, <1>8, <1>10, <1>12, <1>13 DEF Advances

\* An event of an earlier generation.
LEMMA EarlierEvent ==
    ASSUME NEW row \in Rows, NEW log, NEW g \in 1..row.generation, g # row.generation,
           NEW s, NEW longer, NEW n, NEW m, NEW N, Continues(log, g, s, longer, n, m, N), m = 1,
           StatusStream(s[1]), ValidEvent(longer, Generation(longer, g), N + 1)
    PROVE  Advances(row, row, log, longer, g, N, m)
  <1>1. PICK F : F = Generation(longer, g)
    OBVIOUS
  <1>2. F[N + 1] = s[1]
    <2>1. \A k \in 1..m : F[N + k] = s[k]
      BY <1>1, GenerationGrows
    <2> QED
      BY <2>1
  <1>3. 1..m = {1}
    OBVIOUS
  <1> QED
    BY <1>1, <1>2, <1>3 DEF Advances

\* Before any event, and after one that begins a generation.
LEMMA LatestNone ==
    ASSUME NEW E, NEW T
    PROVE  LatestIn(E, 0, T) = 0
  <1>1. 0 \in Nat /\ 0 \in 0..0 /\ \A i \in 1..0 : E[i].type \in T => i <= 0
    OBVIOUS
  <1>2. PICK l : l = 0
    OBVIOUS
  <1>3. \A i \in 1..l : E[i].type \in T => i <= l
    BY <1>1, <1>2
  <1>4. l \in Nat /\ l \in 0..l /\ (l # 0 => E[l].type \in T)
    BY <1>1, <1>2
  <1>5. LatestIn(E, l, T) = l
    BY <1>3, <1>4, LatestIs
  <1> QED
    BY <1>2, <1>5

LEMMA AfterStart ==
    ASSUME NEW row, IsRow(row), NEW e, e.type = "generation_started"
    PROVE  After(row, e) = row
  <1>1. /\ e.type # "qualifying_ban_applied" /\ e.type # "qualifying_ban_overturned"
        /\ e.type # "phone_blocked" /\ e.type # "phone_unblocked"
    OBVIOUS
  <1>2. After(row, e) = [row EXCEPT !.count = row.count, !.status = row.status,
                                    !.blockedAt = row.blockedAt, !.lastBanAt = row.lastBanAt]
    BY <1>1 DEF After
  <1> QED
    BY <1>2 DEF IsRow

\* The two events that begin a generation.
LEMMA FirstEvents ==
    ASSUME NEW row \in Rows \cup {NoRow}, NEW log, RowReplays(row, log), NEW g, g = row.generation + 1,
           NEW s, NEW longer, NEW n, NEW m, NEW N, Continues(log, g, s, longer, n, m, N), m = 2,
           \A k \in 1..2 : s[k].type = "generation_started" /\ s[k].op \in Nat,
           s[1].stream = "status", s[2].stream = "sanction", NEW next \in Rows, next = NewRow(g)
    PROVE  Advances(row, next, log, longer, g, N, m)
  <1>1. PICK F, a, b : F = Generation(longer, g) /\ a = s[1] /\ b = s[2]
    OBVIOUS
  <1>2. log \in Seq(Events) /\ g \in Nat /\ row.generation \in Nat
    BY RowKinds DEF Continues
  <1>3. N = 0
    <2>1. \A i \in DOMAIN log : log[i].generation < g
      <3>1. \A i \in DOMAIN log : log[i].generation <= row.generation
        BY DEF RowReplays
      <3>2. \A i \in DOMAIN log : log[i] \in Events
        BY <1>2
      <3>3. \A i \in DOMAIN log : log[i].generation \in Nat
        BY <3>2, LedgerAssumption DEF Events
      <3> QED
        BY <1>2, <3>1, <3>3
    <2> QED
      BY <1>2, <2>1, NotBegun DEF Continues
  <1>4. F[1] = a /\ F[2] = b
    <2>1. \A k \in 1..m : F[N + k] = s[k]
      BY <1>1, GenerationGrows
    <2>2. N + 1 = 1 /\ N + 2 = 2 /\ 1 \in 1..m /\ 2 \in 1..m
      BY <1>3
    <2> QED
      BY <1>1, <2>1, <2>2
  <1>5. /\ a.type = "generation_started" /\ a.op \in Nat /\ a.stream = "status"
        /\ b.type = "generation_started" /\ b.op \in Nat /\ b.stream = "sanction"
    BY <1>1
  <1>6. /\ IsRow(next) /\ next.generation = g /\ next.count = 0 /\ next.status = "normal"
        /\ next.blockedAt = 0 /\ next.lastBanAt = 0
    BY RowKinds DEF NewRow
  <1>7. Replays(next, F, 0)
    <2>1. ReplayedCount(F, 0) = 0 /\ ReplayedStatus(F, 0) = "normal"
      BY CountNext, StatusNext
    <2>2. LatestIn(F, 0, {"qualifying_ban_applied"}) = 0
      BY LatestNone
    <2> QED
      BY <1>6, <2>1, <2>2 DEF Replays, TimeOf
  <1>8. ASSUME NEW e, e.type = "generation_started", e.op \in Nat PROVE After(next, e) = next
    BY <1>6, <1>8, AfterStart
  <1>9. Replays(next, F, 1)
    <2>1. 0 + 1 = 1 /\ 0 \in Nat
      OBVIOUS
    <2> QED
      BY <1>4, <1>5, <1>6, <1>7, <1>8, <2>1, ReplayNext
  <1>10. Replays(next, F, 2)
    <2>1. 1 + 1 = 2 /\ 1 \in Nat
      OBVIOUS
    <2> QED
      BY <1>4, <1>5, <1>6, <1>8, <1>9, <2>1, ReplayNext
  <1>11. ValidEvent(longer, F, 1) /\ ValidEvent(longer, F, 2)
    <2>1. ReplayedCount(F, 1) = 0 /\ ReplayedCount(F, 2) = 0
      BY <1>6, <1>9, <1>10 DEF Replays
    <2> QED
      BY <1>4, <1>5, <2>1 DEF ValidEvent
  <1>12. Excused(next, F, 2)
    BY <1>6, LedgerAssumption DEF Excused
  <1>13. N + 1 = 1 /\ N + 2 = 2 /\ 1..m = {1, 2} /\ N + m = 2
    BY <1>3
  <1>14. \A k \in 1..m : ValidEvent(longer, F, N + k) /\ StatusStream(F[N + k])
    BY <1>4, <1>5, <1>11, <1>13 DEF StatusStream
  <1> QED
    BY <1>1, <1>6, <1>10, <1>12, <1>13, <1>14 DEF Advances

\* The latest status event of a generation says what its status is.
LEMMA LatestStatus ==
    ASSUME NEW log \in Seq(Events), NEW g, Ordered(log), Contiguous(log, g),
           \A i \in DOMAIN log : StatusStream(log[i]),
           NEW x \in Heads(log, g), log[x].type = "phone_blocked",
           \A i \in Heads(log, g) : log[i].stream = "status" => i <= x,
           NEW E, E = Generation(log, g), NEW N, N = Cardinality(Heads(log, g))
    PROVE  ReplayedStatus(E, N) = "blocked"
  <1>1. N \in Nat /\ DOMAIN E = 1..N
    BY HeadsFinite DEF Contiguous
  <1>2. Indexed(log, g)
    BY HeadsIndexed
  <1>3. PICK l : l = log[x].sequence
    OBVIOUS
  <1>4. l \in 1..N /\ E[l] = log[x]
    BY <1>1, <1>2, <1>3 DEF Indexed
  <1>5. ASSUME NEW k \in 1..N, E[k].type \in {"phone_blocked", "phone_unblocked"} PROVE k <= l
    <2>1. PICK i \in Heads(log, g) : log[i].sequence = k /\ E[k] = log[i]
      BY <1>1, <1>2, <1>5 DEF Indexed
    <2>2. i \in DOMAIN log /\ x \in DOMAIN log /\ log[i].generation = log[x].generation
      BY DEF Heads
    <2>3. log[i].stream = "status"
      BY <1>5, <2>1, <2>2 DEF StatusStream
    <2>4. i <= x
      BY <2>1, <2>3
    <2>5. i \in Nat /\ x \in Nat
      BY <2>2
    <2>6. CASE i = x
      BY <1>3, <1>4, <2>1, <2>6
    <2>7. CASE i < x
      <3>1. log[i].sequence < log[x].sequence
        BY <2>2, <2>7 DEF Ordered
      <3> QED
        BY <1>3, <1>4, <2>1, <3>1
    <2> QED
      BY <2>4, <2>5, <2>6, <2>7
  <1>6. LatestIn(E, N, {"phone_blocked", "phone_unblocked"}) = l
    <2>1. l \in 0..N
      BY <1>1, <1>4
    <2>2. E[l].type \in {"phone_blocked", "phone_unblocked"}
      BY <1>4
    <2> QED
      BY <1>1, <1>5, <2>1, <2>2, LatestIs
  <1> QED
    BY <1>4, <1>6 DEF ReplayedStatus

-----------------------------------------------------------------------------
(* What each operation makes of the row.                                   *)

LEMMA EventNumber ==
    ASSUME NEW g, NEW n, NEW stream, NEW type, NEW op, NEW ref, NEW e,
           e = Event(g, n, stream, type, op, ref)
    PROVE  e.generation = g /\ e.sequence = n /\ e.op = op
  BY DEF Event

LEMMA RecordNone ==
    ASSUME NEW p, NEW g, NEW s, DOMAIN s = {}
    PROVE  RecordOf(p, g, s) = [phone |-> p, generation |-> g, sanctions |-> 0, statuses |-> 0]
  <1>1. InStream(s, "sanction") = {} /\ InStream(s, "status") = {}
    BY DEF InStream
  <1> QED
    BY <1>1, FS_EmptySet DEF RecordOf

LEMMA RecordOne ==
    ASSUME NEW p, NEW g, NEW s, DOMAIN s = {1}
    PROVE  /\ s[1].stream = "sanction" =>
                RecordOf(p, g, s) = [phone |-> p, generation |-> g, sanctions |-> 1, statuses |-> 0]
           /\ s[1].stream = "status" =>
                RecordOf(p, g, s) = [phone |-> p, generation |-> g, sanctions |-> 0, statuses |-> 1]
  <1>1. Cardinality({}) = 0 /\ Cardinality({1}) = 1
    BY FS_EmptySet, FS_Singleton
  <1>2. s[1].stream = "sanction" => InStream(s, "sanction") = {1} /\ InStream(s, "status") = {}
    BY DEF InStream
  <1>3. s[1].stream = "status" => InStream(s, "sanction") = {} /\ InStream(s, "status") = {1}
    BY DEF InStream
  <1> QED
    BY <1>1, <1>2, <1>3 DEF RecordOf

LEMMA RecordTwo ==
    ASSUME NEW p, NEW g, NEW s, DOMAIN s = {1, 2},
           \/ s[1].stream = "sanction" /\ s[2].stream = "status"
           \/ s[1].stream = "status" /\ s[2].stream = "sanction"
    PROVE  RecordOf(p, g, s) = [phone |-> p, generation |-> g, sanctions |-> 1, statuses |-> 1]
  <1>1. Cardinality({1}) = 1 /\ Cardinality({2}) = 1
    BY FS_Singleton
  <1>2. s[1].stream = "sanction" /\ s[2].stream = "status" =>
          InStream(s, "sanction") = {1} /\ InStream(s, "status") = {2}
    BY DEF InStream
  <1>3. s[1].stream = "status" /\ s[2].stream = "sanction" =>
          InStream(s, "sanction") = {2} /\ InStream(s, "status") = {1}
    BY DEF InStream
  <1> QED
    BY <1>1, <1>2, <1>3 DEF RecordOf

\* A generation of a known phone, or the one after.
LEMMA LogFacts ==
    ASSUME LedgerTypeOK, ReplayInv, NEW p \in Phones, NEW row, row = reputations[p],
           NEW log, log = ledger[p], NEW g \in Nat, g \in 1..row.generation \/ g = row.generation + 1,
           NEW N, N = Cardinality(Heads(log, g))
    PROVE  /\ log \in Seq(Events) /\ Ordered(log) /\ Contiguous(log, g) /\ N \in Nat
           /\ NextSequence(p, g) = N + 1
           /\ RowReplays(row, log) /\ row \in Rows \cup {NoRow}
           /\ LogReplays(log, row.generation)
  <1>1. log \in Seq(Events) /\ row \in Rows \cup {NoRow}
    BY RowFacts
  <1>2. RowReplays(row, log)
    BY DEF ReplayInv
  <1>3. Ordered(log) /\ LogReplays(log, row.generation)
    BY <1>2 DEF RowReplays
  <1>4. N \in Nat
    BY <1>1, HeadsFinite
  <1>5. Contiguous(log, g)
    <2>1. CASE g \in 1..row.generation
      BY <1>3, <2>1 DEF LogReplays
    <2>2. CASE g = row.generation + 1
      <3>1. \A i \in DOMAIN log : log[i].generation <= row.generation
        BY <1>2 DEF RowReplays
      <3>2. \A i \in DOMAIN log : log[i] \in Events
        BY <1>1
      <3>3. \A i \in DOMAIN log : log[i].generation \in Nat
        BY <3>2, LedgerAssumption DEF Events
      <3>4. row.generation \in Nat
        BY <1>1, RowKinds
      <3>5. \A i \in DOMAIN log : log[i].generation < g
        BY <2>2, <3>1, <3>3, <3>4
      <3> QED
        BY <1>1, <3>5, NotBegun
    <2> QED
      BY <2>1, <2>2
  <1>6. NextSequence(p, g) = N + 1
    BY <1>4, <1>5, NextNumber
  <1> QED
    BY <1>1, <1>2, <1>3, <1>4, <1>5, <1>6

\* What a request writes, and that the row follows.
Adds(p, g, s, N, next) ==
    /\ Appended(p, s) /\ reputations' = [reputations EXCEPT ![p] = next]
    /\ operations' = Append(operations, RecordOf(p, g, s))
    /\ \A k \in DOMAIN s : s[k].generation = g /\ s[k].sequence = N + k /\ s[k].op = Len(operations) + 1

Follows(row, next, log, g, s, N) ==
    \A longer, n, m : Continues(log, g, s, longer, n, m, N) /\ m = Len(s)
                        => Advances(row, next, log, longer, g, N, m)

LEMMA ExtendsIf ==
    ASSUME LedgerTypeOK, ReplayInv, NEW p \in Phones, NEW row, row = reputations[p],
           NEW log, log = ledger[p], NEW g \in Nat, g \in 1..row.generation \/ g = row.generation + 1,
           NEW N, N = Cardinality(Heads(log, g)), NEW s, NEW next, Adds(p, g, s, N, next),
           Follows(row, next, log, g, s, N)
    PROVE  Extends(p, g, s)
  <1>1. log \in Seq(Events) /\ Ordered(log) /\ Contiguous(log, g) /\ N \in Nat
    BY LogFacts
  <1>2. s \in Seq(Events) /\ ledger' = [ledger EXCEPT ![p] = log \o s]
    BY DEF Adds, Appended
  <1>3. PICK longer, n, m : longer = log \o s /\ n = Len(log) /\ m = Len(s)
    OBVIOUS
  <1>7. \A k \in DOMAIN s : s[k].generation = g /\ s[k].sequence = N + k
    BY DEF Adds
  <1>4. Continues(log, g, s, longer, n, m, N)
    BY <1>1, <1>2, <1>3, <1>7, LogGrows
  <1>5. Advances(row, next, log, longer, g, N, m)
    BY <1>3, <1>4 DEF Follows
  <1>6. reputations'[p] = next /\ \A q \in Phones : q # p => reputations'[q] = reputations[q]
    BY DEF Adds, LedgerTypeOK
  <1> QED
    BY <1>1, <1>2, <1>3, <1>5, <1>6 DEF Adds, Extends

LEMMA StartExtends ==
    ASSUME LedgerTypeOK, ReplayInv, NEW p \in Phones, NEW g \in 1..MaxGenerations,
           g = reputations[p].generation + 1, StartGeneration(p, Len(operations) + 1, g)
    PROVE  \E s : Extends(p, g, s)
  <1>1. PICK row, log, N, op :
           /\ row = reputations[p] /\ log = ledger[p] /\ N = Cardinality(Heads(log, g))
           /\ op = Len(operations) + 1
    OBVIOUS
  <1>2. PICK a, b, s : /\ a = Event(g, 1, "status", "generation_started", op, 0)
                       /\ b = Event(g, 2, "sanction", "generation_started", op, 0)
                       /\ s = <<a, b>>
    OBVIOUS
  <1>3. g \in Nat /\ op \in 1..MaxOperations /\ op \in Nat
    <2>1. op \in 1..MaxOperations
      BY <1>1, RecordType DEF StartGeneration
    <2> QED
      BY <2>1
  <1>4. a \in Events /\ b \in Events
    BY <1>2, <1>3, EventType DEF EventTypes
  <1>5. DOMAIN s = {1, 2} /\ s[1] = a /\ s[2] = b /\ Len(s) = 2
    BY <1>2
  <1>6. /\ a.type = "generation_started" /\ a.stream = "status"
        /\ b.type = "generation_started" /\ b.stream = "sanction"
        /\ a.generation = g /\ a.sequence = 1 /\ a.op = op
        /\ b.generation = g /\ b.sequence = 2 /\ b.op = op
    BY <1>2, EventFields, EventNumber
  <1>7. Appended(p, s)
    <2>1. ledger' = [ledger EXCEPT ![p] = ledger[p] \o s]
      BY <1>1, <1>2 DEF StartGeneration
    <2> QED
      BY <1>2, <1>4, <2>1 DEF Appended
  <1>8. /\ log \in Seq(Events) /\ row \in Rows \cup {NoRow} /\ RowReplays(row, log)
    BY <1>1, <1>3, LogFacts
  <1>9. N = 0
    <2>1. \A i \in DOMAIN log : log[i].generation <= row.generation
      BY <1>8 DEF RowReplays
    <2>2. \A i \in DOMAIN log : log[i] \in Events
      BY <1>8
    <2>3. \A i \in DOMAIN log : log[i].generation \in Nat
      BY <2>2, LedgerAssumption DEF Events
    <2>4. row.generation \in Nat
      BY <1>8, RowKinds
    <2>5. \A i \in DOMAIN log : log[i].generation < g
      BY <1>1, <2>1, <2>3, <2>4
    <2> QED
      BY <1>1, <1>3, <1>8, <2>5, NotBegun
  <1>10. operations' = Append(operations, RecordOf(p, g, s))
    <2>1. RecordOf(p, g, s) = [phone |-> p, generation |-> g, sanctions |-> 1, statuses |-> 1]
      BY <1>5, <1>6, RecordTwo
    <2> QED
      BY <2>1 DEF StartGeneration, Record
  <1>11. PICK next : next = NewRow(g)
    OBVIOUS
  <1>12. reputations' = [reputations EXCEPT ![p] = next] /\ next \in Rows
    <2>1. 0 \in 0..MaxOperations
      BY LedgerAssumption
    <2> QED
      BY <1>11, <2>1 DEF StartGeneration, NewRow, Rows
  <1>13. \A k \in DOMAIN s : s[k].generation = g /\ s[k].sequence = N + k /\ s[k].op = Len(operations) + 1
    BY <1>1, <1>5, <1>6, <1>9
  <1>14. ASSUME NEW longer, NEW n, NEW m, Continues(log, g, s, longer, n, m, N), m = Len(s)
         PROVE  Advances(row, next, log, longer, g, N, m)
    <2>1. m = 2
      BY <1>5, <1>14
    <2>2. \A k \in 1..2 : s[k].type = "generation_started" /\ s[k].op \in Nat
      <3>1. \A k \in 1..2 : k = 1 \/ k = 2
        OBVIOUS
      <3> QED
        BY <1>3, <1>5, <1>6, <3>1
    <2>3. s[1].stream = "status" /\ s[2].stream = "sanction"
      BY <1>5, <1>6
    <2> QED
      BY <1>1, <1>8, <1>11, <1>12, <1>14, <2>1, <2>2, <2>3, FirstEvents
  <1>15. Adds(p, g, s, N, next) /\ Follows(row, next, log, g, s, N)
    BY <1>7, <1>10, <1>12, <1>13, <1>14 DEF Adds, Follows
  <1> QED
    BY <1>1, <1>3, <1>15, ExtendsIf

\* The row's fields.
LEMMA RowFields ==
    ASSUME NEW row \in Rows
    PROVE  /\ IsRow(row) /\ row.generation \in 1..MaxGenerations /\ row.generation \in Nat
           /\ row.generation \in 1..row.generation /\ row.count \in Int
           /\ row.status \in {"normal", "blocked"}
           /\ row.blockedAt \in 0..MaxOperations /\ row.lastBanAt \in 0..MaxOperations
  <1>1. IsRow(row) /\ row.generation \in 1..MaxGenerations
    BY RowKinds
  <1>2. \A x \in 1..MaxGenerations : x \in Nat /\ x \in 1..x
    OBVIOUS
  <1> QED
    BY <1>1, <1>2 DEF Rows

\* An administrator's block or unblock, when it changes nothing, and when it does.
LEMMA IdleExtends ==
    ASSUME LedgerTypeOK, ReplayInv, NEW p \in Phones, NEW row \in Rows, row = reputations[p],
           NEW g, g = row.generation, UNCHANGED <<reputations, ledger>>, Record(p, g, 0, 0)
    PROVE  \E s : Extends(p, g, s)
  <1>1. PICK log, N, s : log = ledger[p] /\ N = Cardinality(Heads(log, g)) /\ s = <<>>
    OBVIOUS
  <1>2. g \in Nat /\ g \in 1..row.generation
    BY RowFields
  <1>3. RowReplays(row, log) /\ log \in Seq(Events)
    BY <1>1, <1>2, LogFacts
  <1>4. DOMAIN s = {} /\ Len(s) = 0 /\ s \in Seq(Events)
    BY <1>1
  <1>5. Adds(p, g, s, N, row)
    <2>1. log \o s = log
      BY <1>1, <1>3
    <2>2. ledger' = [ledger EXCEPT ![p] = log \o s] /\ reputations' = [reputations EXCEPT ![p] = row]
      BY <1>1, <2>1 DEF LedgerTypeOK
    <2>3. operations' = Append(operations, RecordOf(p, g, s))
      BY <1>4, RecordNone DEF Record
    <2> QED
      BY <1>1, <1>4, <2>2, <2>3 DEF Adds, Appended
  <1>6. Follows(row, row, log, g, s, N)
    BY <1>3, <1>4, NoEvent DEF Follows
  <1> QED
    BY <1>1, <1>2, <1>5, <1>6, ExtendsIf

LEMMA StatusExtends ==
    ASSUME LedgerTypeOK, ReplayInv, NEW p \in Phones, NEW row \in Rows, row = reputations[p],
           NEW g, g = row.generation, Record(p, g, 0, 1),
           NEW op, op = Len(operations) + 1, NEW type \in {"phone_blocked", "phone_unblocked"},
           type = "phone_blocked" => row.status = "normal",
           type = "phone_unblocked" => row.status = "blocked",
           AppendStatus(p, op, type, 0),
           reputations' = [reputations EXCEPT
               ![p] = [row EXCEPT !.status = IF type = "phone_blocked" THEN "blocked" ELSE "normal",
                                  !.blockedAt = IF type = "phone_blocked" THEN op ELSE 0]]
    PROVE  \E s : Extends(p, g, s)
  <1>1. PICK log, N, e, s :
           /\ log = ledger[p] /\ N = Cardinality(Heads(log, g))
           /\ e = Event(g, NextSequence(p, g), "status", type, op, 0) /\ s = <<e>>
    OBVIOUS
  <1>2. g \in Nat /\ g \in 1..row.generation /\ g \in 1..MaxGenerations /\ IsRow(row)
    BY RowFields
  <1>3. RowReplays(row, log) /\ log \in Seq(Events) /\ NextSequence(p, g) = N + 1 /\ N \in Nat
    BY <1>1, <1>2, LogFacts
  <1>4. op \in 1..MaxOperations /\ op \in Nat
    <2>1. op \in 1..MaxOperations
      BY <1>2, RecordType
    <2> QED
      BY <2>1
  <1>5. e \in Events
    <2>1. NextSequence(p, g) \in Nat
      BY NextSequenceType
    <2> QED
      BY <1>1, <1>2, <1>4, <2>1, EventType DEF EventTypes
  <1>6. e.generation = g /\ e.sequence = N + 1 /\ e.op = op /\ e.stream = "status" /\ e.type = type
    BY <1>1, <1>3, EventFields, EventNumber
  <1>7. DOMAIN s = {1} /\ s[1] = e /\ Len(s) = 1 /\ s \in Seq(Events)
    BY <1>1, <1>5
  <1>8. PICK next : next = [row EXCEPT !.status = IF type = "phone_blocked" THEN "blocked" ELSE "normal",
                                       !.blockedAt = IF type = "phone_blocked" THEN op ELSE 0]
    OBVIOUS
  <1>9. next = After(row, e) /\ next \in Rows
    <2>1. CASE type = "phone_blocked"
      <3>1. After(row, e) = [row EXCEPT !.count = row.count, !.status = "blocked",
                                        !.blockedAt = op, !.lastBanAt = row.lastBanAt]
        BY <1>6, <2>1 DEF After
      <3>2. next = [row EXCEPT !.status = "blocked", !.blockedAt = op]
        BY <1>8, <2>1
      <3>3. op \in 0..MaxOperations
        BY <1>4
      <3> QED
        BY <3>1, <3>2, <3>3 DEF Rows
    <2>2. CASE type = "phone_unblocked"
      <3>1. After(row, e) = [row EXCEPT !.count = row.count, !.status = "normal",
                                        !.blockedAt = 0, !.lastBanAt = row.lastBanAt]
        BY <1>6, <2>2 DEF After
      <3>2. next = [row EXCEPT !.status = "normal", !.blockedAt = 0]
        BY <1>8, <2>2
      <3>3. 0 \in 0..MaxOperations
        BY LedgerAssumption
      <3> QED
        BY <3>1, <3>2, <3>3 DEF Rows
    <2> QED
      BY <2>1, <2>2
  <1>10. Adds(p, g, s, N, next)
    <2>1. Append(log, e) = log \o s
      BY <1>1, <1>3, <1>5
    <2>2. ledger' = [ledger EXCEPT ![p] = log \o s]
      BY <1>1, <2>1 DEF AppendStatus
    <2>3. operations' = Append(operations, RecordOf(p, g, s))
      BY <1>6, <1>7, RecordOne DEF Record
    <2>4. reputations' = [reputations EXCEPT ![p] = next]
      BY <1>8
    <2>5. \A k \in DOMAIN s : s[k].generation = g /\ s[k].sequence = N + k /\ s[k].op = Len(operations) + 1
      BY <1>6, <1>7
    <2>6. Appended(p, s)
      BY <1>1, <1>7, <2>2 DEF Appended
    <2> QED
      BY <2>3, <2>4, <2>5, <2>6 DEF Adds
  <1>11. Fits(row, e)
    BY <1>4, <1>6 DEF Fits, StatusStream
  <1>12. e.type # "qualifying_ban_overturned" /\ e.type # "qualifying_ban_applied"
    BY <1>6
  <1>13. ASSUME NEW longer, NEW n, NEW m, Continues(log, g, s, longer, n, m, N), m = Len(s)
         PROVE  Advances(row, next, log, longer, g, N, m)
    <2>1. m = 1
      BY <1>7, <1>13
    <2> QED
      BY <1>3, <1>7, <1>9, <1>11, <1>12, <1>13, <2>1, OneEvent
  <1>14. Follows(row, next, log, g, s, N)
    BY <1>13 DEF Follows
  <1> QED
    BY <1>1, <1>2, <1>10, <1>14, ExtendsIf

LEMMA AdministratorExtends ==
    ASSUME LedgerTypeOK, ReplayInv, NEW p \in Phones, NEW op, NewOperation(op),
           BlockPhone(op, p) \/ UnblockPhone(op, p)
    PROVE  \E g, s : Extends(p, g, s)
  <1>1. PICK row, g : row = reputations[p] /\ g = row.generation
    OBVIOUS
  <1>2. row \in Rows
    BY <1>1, RowFacts DEF BlockPhone, UnblockPhone
  <1>3. op = Len(operations) + 1
    BY DEF NewOperation
  <1>4. CASE Record(p, g, 0, 0) /\ UNCHANGED <<reputations, ledger>>
    BY <1>1, <1>2, <1>4, IdleExtends
  <1>5. CASE /\ row.status = "normal" /\ Record(p, g, 0, 1) /\ AppendStatus(p, op, "phone_blocked", 0)
             /\ reputations' = [reputations EXCEPT ![p].status = "blocked", ![p].blockedAt = op]
    <2>1. reputations' = [reputations EXCEPT ![p] = [row EXCEPT !.status = "blocked", !.blockedAt = op]]
      BY <1>1, <1>5 DEF LedgerTypeOK
    <2>2. PICK type : type = "phone_blocked"
      OBVIOUS
    <2>3. reputations' = [reputations EXCEPT
               ![p] = [row EXCEPT !.status = IF type = "phone_blocked" THEN "blocked" ELSE "normal",
                                  !.blockedAt = IF type = "phone_blocked" THEN op ELSE 0]]
      BY <2>1, <2>2
    <2> QED
      BY <1>1, <1>2, <1>3, <1>5, <2>2, <2>3, StatusExtends
  <1>6. CASE /\ row.status = "blocked" /\ Record(p, g, 0, 1) /\ AppendStatus(p, op, "phone_unblocked", 0)
             /\ reputations' = [reputations EXCEPT ![p].status = "normal", ![p].blockedAt = 0]
    <2>1. reputations' = [reputations EXCEPT ![p] = [row EXCEPT !.status = "normal", !.blockedAt = 0]]
      BY <1>1, <1>6 DEF LedgerTypeOK
    <2>2. PICK type : type = "phone_unblocked"
      OBVIOUS
    <2>3. reputations' = [reputations EXCEPT
               ![p] = [row EXCEPT !.status = IF type = "phone_blocked" THEN "blocked" ELSE "normal",
                                  !.blockedAt = IF type = "phone_blocked" THEN op ELSE 0]]
      BY <2>1, <2>2
    <2> QED
      BY <1>1, <1>2, <1>3, <1>6, <2>2, <2>3, StatusExtends
  <1> QED
    BY <1>1, <1>4, <1>5, <1>6 DEF BlockPhone, UnblockPhone

\* The row after each kind of event.
LEMMA AfterBan ==
    ASSUME NEW row, IsRow(row), NEW e, e.type = "qualifying_ban_applied"
    PROVE  After(row, e) = [row EXCEPT !.count = row.count + 1, !.lastBanAt = e.op]
  <1>1. After(row, e) = [row EXCEPT !.count = row.count + 1, !.status = row.status,
                                    !.blockedAt = row.blockedAt, !.lastBanAt = e.op]
    BY DEF After
  <1> QED
    BY <1>1 DEF IsRow

LEMMA AfterOverturn ==
    ASSUME NEW row, IsRow(row), NEW e, e.type = "qualifying_ban_overturned"
    PROVE  After(row, e) = [row EXCEPT !.count = row.count - 1]
  <1>1. After(row, e) = [row EXCEPT !.count = row.count - 1, !.status = row.status,
                                    !.blockedAt = row.blockedAt, !.lastBanAt = row.lastBanAt]
    BY DEF After
  <1> QED
    BY <1>1 DEF IsRow

LEMMA AfterBlock ==
    ASSUME NEW row, IsRow(row), NEW e, e.type = "phone_blocked"
    PROVE  After(row, e) = [row EXCEPT !.status = "blocked", !.blockedAt = e.op]
  <1>1. After(row, e) = [row EXCEPT !.count = row.count, !.status = "blocked",
                                    !.blockedAt = e.op, !.lastBanAt = row.lastBanAt]
    BY DEF After
  <1> QED
    BY <1>1 DEF IsRow

LEMMA AfterUnblock ==
    ASSUME NEW row, IsRow(row), NEW e, e.type = "phone_unblocked"
    PROVE  After(row, e) = [row EXCEPT !.status = "normal", !.blockedAt = 0]
  <1>1. After(row, e) = [row EXCEPT !.count = row.count, !.status = "normal",
                                    !.blockedAt = 0, !.lastBanAt = row.lastBanAt]
    BY DEF After
  <1> QED
    BY <1>1 DEF IsRow

LEMMA BanExtends ==
    ASSUME LedgerTypeOK, ReplayInv, NEW p \in Phones, reputations[p] # NoRow,
           NEW op, NewOperation(op), BanPhone(op, p)
    PROVE  \E g, s : Extends(p, g, s)
  <1>1. PICK row, log, g, N, blocks, a, b :
           /\ row = reputations[p] /\ log = ledger[p] /\ g = row.generation
           /\ N = Cardinality(Heads(log, g)) /\ blocks = ShouldBlock(p)
           /\ a = Event(g, NextSequence(p, g), "sanction", "qualifying_ban_applied", op, 0)
           /\ b = Event(g, NextSequence(p, g) + 1, "status", "phone_blocked", op, Len(ledger[p]) + 1)
    OBVIOUS
  <1>2. row \in Rows /\ Len(log) + 1 \in Nat
    BY <1>1, RowFacts
  <1>3. /\ g \in Nat /\ g \in 1..row.generation /\ g \in 1..MaxGenerations /\ IsRow(row)
        /\ row.count \in Int /\ row.status \in {"normal", "blocked"}
    BY <1>1, <1>2, RowFields
  <1>4. /\ RowReplays(row, log) /\ log \in Seq(Events) /\ N \in Nat /\ NextSequence(p, g) = N + 1
    BY <1>1, <1>3, LogFacts
  <1>5. op \in 1..MaxOperations /\ op = Len(operations) + 1 /\ op \in Nat /\ op \in 0..MaxOperations
    <2>1. \E k \in 0..1 : Record(p, g, 1, k)
      BY <1>1 DEF BanPhone
    <2>2. op \in 1..MaxOperations /\ op = Len(operations) + 1
      BY <1>3, <2>1, RecordType DEF NewOperation
    <2> QED
      BY <2>2
  <1>6. a \in Events /\ b \in Events
    <2>1. N + 1 \in Nat /\ (N + 1) + 1 \in Nat
      BY <1>4
    <2> QED
      BY <1>1, <1>2, <1>3, <1>4, <1>5, <2>1, EventType DEF EventTypes
  <1>7. /\ a.generation = g /\ a.sequence = N + 1 /\ a.op = op /\ a.stream = "sanction"
        /\ a.type = "qualifying_ban_applied"
        /\ b.generation = g /\ b.sequence = N + 2 /\ b.op = op /\ b.stream = "status"
        /\ b.type = "phone_blocked"
    <2>1. (N + 1) + 1 = N + 2
      BY <1>4
    <2> QED
      BY <1>1, <1>4, <2>1, EventFields, EventNumber
  <1>8. blocks <=> row.status = "normal" /\ row.count + 1 >= BanThreshold
    BY <1>1 DEF ShouldBlock
  <1>9. PICK middle : middle = [row EXCEPT !.count = row.count + 1, !.lastBanAt = op]
    OBVIOUS
  <1>10. middle = After(row, a) /\ middle \in Rows /\ middle.status = row.status
    <2>1. middle = After(row, a)
      <3>1. After(row, a) = [row EXCEPT !.count = row.count + 1, !.lastBanAt = a.op]
        BY <1>3, <1>7, AfterBan
      <3> QED
        BY <1>7, <1>9, <3>1
    <2>2. row.count + 1 \in Int
      BY <1>3
    <2>3. middle \in Rows /\ middle.status = row.status
      BY <1>2, <1>5, <1>9, <2>2 DEF Rows
    <2> QED
      BY <2>1, <2>3
  <1>11. Fits(row, a)
    BY <1>5, <1>7 DEF Fits, StatusStream
  <1>12. CASE ~blocks
    <2>1. PICK s : s = <<a>>
      OBVIOUS
    <2>2. DOMAIN s = {1} /\ s[1] = a /\ Len(s) = 1 /\ s \in Seq(Events)
      BY <1>6, <2>1
    <2>3. Adds(p, g, s, N, middle)
      <3>1. Appended(p, s)
        BY <1>1, <1>12, <2>1, <2>2 DEF Appended, BanPhone
      <3>2. operations' = Append(operations, RecordOf(p, g, s))
        <4>1. RecordOf(p, g, s) = [phone |-> p, generation |-> g, sanctions |-> 1, statuses |-> 0]
          BY <1>7, <2>2, RecordOne
        <4> QED
          BY <1>1, <1>12, <4>1 DEF BanPhone, Record
      <3>3. reputations' = [reputations EXCEPT ![p] = middle]
        <4>1. reputations' = [reputations EXCEPT ![p] =
                  [row EXCEPT !.count = row.count + 1, !.lastBanAt = op,
                              !.status = row.status, !.blockedAt = row.blockedAt]]
          BY <1>1, <1>12 DEF BanPhone
        <4>2. middle = [row EXCEPT !.count = row.count + 1, !.lastBanAt = op,
                                   !.status = row.status, !.blockedAt = row.blockedAt]
          BY <1>2, <1>9 DEF Rows
        <4> QED
          BY <4>1, <4>2
      <3>4. \A k \in DOMAIN s : s[k].generation = g /\ s[k].sequence = N + k /\ s[k].op = Len(operations) + 1
        BY <1>5, <1>7, <2>2
      <3> QED
        BY <3>1, <3>2, <3>3, <3>4 DEF Adds
    <2>4. ASSUME NEW longer, NEW n, NEW m, Continues(log, g, s, longer, n, m, N), m = Len(s)
          PROVE  Advances(row, middle, log, longer, g, N, m)
      <3>1. m = 1 /\ a.type # "qualifying_ban_overturned"
        BY <1>7, <2>2, <2>4
      <3>2. row.status = "blocked" \/ row.count + 1 < BanThreshold
        BY <1>3, <1>8, <1>12, LedgerAssumption
      <3> QED
        BY <1>1, <1>2, <1>4, <1>10, <1>11, <2>2, <2>4, <3>1, <3>2, OneEvent
    <2>5. Follows(row, middle, log, g, s, N)
      BY <2>4 DEF Follows
    <2> QED
      BY <1>1, <1>3, <2>3, <2>5, ExtendsIf
  <1>13. CASE blocks
    <2>1. PICK s, next : /\ s = <<a, b>>
                         /\ next = [middle EXCEPT !.status = "blocked", !.blockedAt = op]
      OBVIOUS
    <2>2. DOMAIN s = {1, 2} /\ s[1] = a /\ s[2] = b /\ Len(s) = 2 /\ s \in Seq(Events)
      BY <1>6, <2>1
    <2>3. next = After(middle, b) /\ next \in Rows
      <3>1. IsRow(middle)
        BY <1>10, RowFields
      <3>2. next = After(middle, b)
        <4>1. After(middle, b) = [middle EXCEPT !.status = "blocked", !.blockedAt = b.op]
          BY <1>7, <3>1, AfterBlock
        <4> QED
          BY <1>7, <2>1, <4>1
      <3> QED
        BY <1>5, <1>10, <2>1, <3>2 DEF Rows
    <2>4. Fits(middle, b)
      BY <1>5, <1>7, <1>8, <1>10, <1>13 DEF Fits, StatusStream
    <2>5. Adds(p, g, s, N, next)
      <3>1. Appended(p, s)
        BY <1>1, <1>13, <2>1, <2>2 DEF Appended, BanPhone
      <3>2. operations' = Append(operations, RecordOf(p, g, s))
        <4>1. RecordOf(p, g, s) = [phone |-> p, generation |-> g, sanctions |-> 1, statuses |-> 1]
          BY <1>7, <2>2, RecordTwo
        <4> QED
          BY <1>1, <1>13, <4>1 DEF BanPhone, Record
      <3>3. reputations' = [reputations EXCEPT ![p] = next]
        <4>1. reputations' = [reputations EXCEPT ![p] =
                  [row EXCEPT !.count = row.count + 1, !.lastBanAt = op,
                              !.status = "blocked", !.blockedAt = op]]
          BY <1>1, <1>13 DEF BanPhone
        <4>2. next = [row EXCEPT !.count = row.count + 1, !.lastBanAt = op,
                                 !.status = "blocked", !.blockedAt = op]
          BY <1>2, <1>9, <2>1 DEF Rows
        <4> QED
          BY <4>1, <4>2
      <3>4. \A k \in DOMAIN s : s[k].generation = g /\ s[k].sequence = N + k /\ s[k].op = Len(operations) + 1
        BY <1>5, <1>7, <2>2
      <3> QED
        BY <3>1, <3>2, <3>3, <3>4 DEF Adds
    <2>6. ASSUME NEW longer, NEW n, NEW m, Continues(log, g, s, longer, n, m, N), m = Len(s)
          PROVE  Advances(row, next, log, longer, g, N, m)
      <3>1. m = 2 /\ a.type # "qualifying_ban_overturned" /\ b.type = "phone_blocked"
        BY <1>7, <2>2, <2>6
      <3> QED
        BY <1>1, <1>2, <1>4, <1>10, <1>11, <2>2, <2>3, <2>4, <2>6, <3>1, TwoEvents
    <2>7. Follows(row, next, log, g, s, N)
      BY <2>6 DEF Follows
    <2> QED
      BY <1>1, <1>3, <2>5, <2>7, ExtendsIf
  <1> QED
    BY <1>12, <1>13

\* The block an overturn lifts is in force.
LEMMA LiftsBlocked ==
    ASSUME LedgerTypeOK, LedgerInv, ReplayInv, NEW p \in Phones, NEW row \in Rows, row = reputations[p],
           NEW x \in DOMAIN ledger[p], ShouldUnblock(p, x)
    PROVE  row.status = "blocked" /\ ledger[p][x].generation = row.generation
  <1>1. PICK log, g, P, N, E :
           /\ log = ledger[p] /\ g = row.generation /\ P = Positions(p, "status", g)
           /\ N = Cardinality(Heads(log, g)) /\ E = Generation(log, g)
    OBVIOUS
  <1>2. log[x].generation = g /\ log[Max(P)].type = "phone_blocked"
    BY <1>1 DEF ShouldUnblock
  <1>3. g \in Nat /\ g \in 1..row.generation
    BY <1>1, RowFields
  <1>4. /\ log \in Seq(Events) /\ Ordered(log) /\ Contiguous(log, g) /\ N \in Nat /\ RowReplays(row, log)
    BY <1>1, <1>3, LogFacts
  <1>5. P # {}
    <2>1. row # NoRow
      BY RowKinds
    <2> QED
      BY <1>1, <2>1 DEF LedgerInv
  <1>6. \A i : i \in P <=> i \in Heads(log, g) /\ log[i].stream = "status"
    BY <1>1 DEF Positions, Heads
  <1>7. P \in SUBSET Nat /\ Len(log) \in Nat /\ \A i \in P : i <= Len(log)
    <2>1. DOMAIN log = 1..Len(log) /\ Len(log) \in Nat
      BY <1>4
    <2>2. \A i \in P : i \in 1..Len(log)
      BY <1>6, <2>1 DEF Heads
    <2> QED
      BY <2>1, <2>2
  <1>8. PICK y : y = Max(P)
    OBVIOUS
  <1>9. y \in P /\ \A i \in P : i <= y
    BY <1>5, <1>7, <1>8, MaxIn
  <1>10. y \in Heads(log, g) /\ log[y].type = "phone_blocked"
    BY <1>2, <1>6, <1>8, <1>9
  <1>11. \A i \in Heads(log, g) : log[i].stream = "status" => i <= y
    BY <1>6, <1>9
  <1>12. \A i \in DOMAIN log : StatusStream(log[i])
    BY <1>4 DEF RowReplays
  <1>13. ReplayedStatus(E, N) = "blocked"
    BY <1>1, <1>4, <1>10, <1>11, <1>12, LatestStatus
  <1>14. row.status = ReplayedStatus(E, N)
    <2>1. row # NoRow
      BY RowKinds
    <2>2. Replays(row, E, N)
      BY <1>1, <1>4, <2>1 DEF RowReplays
    <2> QED
      BY <2>2 DEF Replays
  <1> QED
    BY <1>1, <1>2, <1>13, <1>14

LEMMA OverturnExtends ==
    ASSUME LedgerTypeOK, LedgerInv, ReplayInv, NEW p \in Phones, NEW x, IsBan(p, x),
           NEW op, NewOperation(op), OverturnBan(op, p, x)
    PROVE  \E g, s : Extends(p, g, s)
  <1>1. PICK row, log, g, N, unblocks, a, b :
           /\ row = reputations[p] /\ log = ledger[p] /\ g = log[x].generation
           /\ N = Cardinality(Heads(log, g)) /\ unblocks = ShouldUnblock(p, x)
           /\ a = Event(g, NextSequence(p, g), "sanction", "qualifying_ban_overturned", op, x)
           /\ b = Event(g, NextSequence(p, g) + 1, "status", "phone_unblocked", op, x)
    OBVIOUS
  <1>2. x \in DOMAIN log /\ log[x].type = "qualifying_ban_applied" /\ x \in Nat /\ g \in 1..MaxGenerations
    BY <1>1, RowFacts DEF IsBan
  <1>3. row \in Rows /\ g \in 1..row.generation /\ IsRow(row) /\ row.generation \in Nat
    <2>1. row \in Rows \cup {NoRow} /\ RowReplays(row, log)
      BY <1>1, RowFacts DEF ReplayInv
    <2>2. row # NoRow
      <3>1. row = NoRow => log = <<>>
        BY <2>1 DEF RowReplays
      <3> QED
        BY <1>2, <3>1
    <2>3. g <= row.generation
      BY <1>1, <1>2, <2>1 DEF RowReplays
    <2>4. row \in Rows /\ IsRow(row) /\ row.generation \in Nat
      BY <2>1, <2>2, RowFields
    <2> QED
      BY <1>2, <2>3, <2>4
  <1>4. /\ g \in Nat /\ RowReplays(row, log) /\ log \in Seq(Events) /\ N \in Nat
        /\ NextSequence(p, g) = N + 1 /\ LogReplays(log, row.generation)
    <2>1. g \in Nat
      BY <1>2
    <2> QED
      BY <1>1, <1>3, <2>1, LogFacts
  <1>5. op \in 1..MaxOperations /\ op = Len(operations) + 1 /\ op \in Nat /\ op \in 0..MaxOperations
    <2>1. \E k \in 0..1 : Record(p, g, 1, k)
      BY <1>1 DEF OverturnBan
    <2>2. op \in 1..MaxOperations /\ op = Len(operations) + 1
      BY <1>2, <2>1, RecordType DEF NewOperation
    <2> QED
      BY <2>2
  <1>6. a \in Events /\ b \in Events
    <2>1. N + 1 \in Nat /\ (N + 1) + 1 \in Nat
      BY <1>4
    <2> QED
      BY <1>1, <1>2, <1>4, <1>5, <2>1, EventType DEF EventTypes
  <1>7. /\ a.generation = g /\ a.sequence = N + 1 /\ a.op = op /\ a.stream = "sanction"
        /\ a.type = "qualifying_ban_overturned" /\ a.ref = x
        /\ b.generation = g /\ b.sequence = N + 2 /\ b.op = op /\ b.stream = "status"
        /\ b.type = "phone_unblocked"
    <2>1. (N + 1) + 1 = N + 2
      BY <1>4
    <2> QED
      BY <1>1, <1>4, <2>1, EventFields, EventNumber
  <1>8. unblocks => row.status = "blocked" /\ g = row.generation
    BY <1>1, <1>2, <1>3, LiftsBlocked
  <1>9. ASSUME NEW s, 1 \in DOMAIN s, s[1] = a, NEW longer, NEW n, NEW m,
               Continues(log, g, s, longer, n, m, N)
        PROVE  ValidEvent(longer, Generation(longer, g), N + 1)
    <2>1. \A i \in DOMAIN log : log[i].type = "qualifying_ban_overturned" => log[i].ref # x
      BY <1>1 DEF OverturnBan, Overturned
    <2>2. 1 \in DOMAIN s /\ s[1].type = "qualifying_ban_overturned" /\ s[1].ref = x
      BY <1>7, <1>9
    <2>3. PICK top, F : top = row.generation /\ F = Generation(longer, g)
      OBVIOUS
    <2>4. /\ x \in DOMAIN log /\ log[x].type = "qualifying_ban_applied" /\ log[x].generation = g
          /\ LogReplays(log, top) /\ g \in 1..top
      BY <1>1, <1>2, <1>3, <1>4, <2>3
    <2>5. ValidEvent(longer, F, N + 1)
      BY <1>9, <2>1, <2>2, <2>3, <2>4, OverturnValid
    <2> QED
      BY <2>3, <2>5
  <1>10. Counted(p, x) <=> g = row.generation
    BY <1>1 DEF Counted
  <1>11. ASSUME NEW s, NEW next, s = IF unblocks THEN <<a, b>> ELSE <<a>>,
                reputations' = [reputations EXCEPT ![p] = next]
         PROVE  /\ Adds(p, g, s, N, next)
                /\ ~unblocks => DOMAIN s = {1} /\ s[1] = a /\ Len(s) = 1
                /\ unblocks => DOMAIN s = {1, 2} /\ s[1] = a /\ s[2] = b /\ Len(s) = 2
    <2>1. ledger' = [ledger EXCEPT ![p] = log \o s]
      BY <1>1, <1>11 DEF OverturnBan
    <2>2. CASE ~unblocks
      <3>1. s = <<a>>
        BY <1>11, <2>2
      <3>2. DOMAIN s = {1} /\ s[1] = a /\ Len(s) = 1 /\ s \in Seq(Events)
        BY <1>6, <3>1
      <3>3. RecordOf(p, g, s) = [phone |-> p, generation |-> g, sanctions |-> 1, statuses |-> 0]
        BY <1>7, <3>2, RecordOne
      <3>4. operations' = Append(operations, RecordOf(p, g, s))
        BY <1>1, <2>2, <3>3 DEF OverturnBan, Record
      <3>5. \A k \in DOMAIN s : s[k].generation = g /\ s[k].sequence = N + k /\ s[k].op = Len(operations) + 1
        BY <1>5, <1>7, <3>2
      <3>6. Appended(p, s)
        BY <1>1, <2>1, <3>2 DEF Appended
      <3> QED
        BY <1>11, <2>2, <3>2, <3>4, <3>5, <3>6 DEF Adds
    <2>3. CASE unblocks
      <3>1. s = <<a, b>>
        BY <1>11, <2>3
      <3>2. DOMAIN s = {1, 2} /\ s[1] = a /\ s[2] = b /\ Len(s) = 2 /\ s \in Seq(Events)
        BY <1>6, <3>1
      <3>3. RecordOf(p, g, s) = [phone |-> p, generation |-> g, sanctions |-> 1, statuses |-> 1]
        BY <1>7, <3>2, RecordTwo
      <3>4. operations' = Append(operations, RecordOf(p, g, s))
        BY <1>1, <2>3, <3>3 DEF OverturnBan, Record
      <3>5. \A k \in DOMAIN s : s[k].generation = g /\ s[k].sequence = N + k /\ s[k].op = Len(operations) + 1
        BY <1>5, <1>7, <3>2
      <3>6. Appended(p, s)
        BY <1>1, <2>1, <3>2 DEF Appended
      <3> QED
        BY <1>11, <2>3, <3>2, <3>4, <3>5, <3>6 DEF Adds
    <2> QED
      BY <2>2, <2>3
  <1>12. PICK s : s = IF unblocks THEN <<a, b>> ELSE <<a>>
    OBVIOUS
  <1>13. CASE g # row.generation
    <2>1. reputations' = [reputations EXCEPT ![p] = row] /\ ~unblocks
      BY <1>1, <1>8, <1>10, <1>13 DEF OverturnBan, LedgerTypeOK
    <2>2. Adds(p, g, s, N, row) /\ DOMAIN s = {1} /\ s[1] = a /\ Len(s) = 1
      BY <1>11, <1>12, <2>1
    <2>3. ASSUME NEW longer, NEW n, NEW m, Continues(log, g, s, longer, n, m, N), m = Len(s)
          PROVE  Advances(row, row, log, longer, g, N, m)
      <3>1. m = 1 /\ StatusStream(s[1])
        BY <1>7, <2>2, <2>3 DEF StatusStream
      <3>2. ValidEvent(longer, Generation(longer, g), N + 1)
        BY <1>9, <2>2, <2>3
      <3> QED
        BY <1>3, <1>13, <2>3, <3>1, <3>2, EarlierEvent
    <2>4. Follows(row, row, log, g, s, N)
      BY <2>3 DEF Follows
    <2> QED
      BY <1>1, <1>3, <1>4, <2>2, <2>4, ExtendsIf
  <1>14. CASE g = row.generation
    <2>1. PICK middle : middle = [row EXCEPT !.count = row.count - 1]
      OBVIOUS
    <2>2. middle = After(row, a) /\ middle \in Rows /\ middle.status = row.status
      <3>1. middle = After(row, a)
        BY <1>3, <1>7, <2>1, AfterOverturn
      <3>2. row.count - 1 \in Int
        BY <1>3, RowFields
      <3>3. middle \in Rows /\ middle.status = row.status
        BY <1>3, <2>1, <3>2 DEF Rows
      <3> QED
        BY <3>1, <3>3
    <2>3. Fits(row, a)
      BY <1>5, <1>7 DEF Fits, StatusStream
    <2>4. CASE ~unblocks
      <3>1. reputations' = [reputations EXCEPT ![p] = middle]
        <4>1. reputations' = [reputations EXCEPT ![p].count = row.count - 1,
                                  ![p].status = row.status, ![p].blockedAt = row.blockedAt]
          BY <1>1, <1>10, <1>14, <2>4 DEF OverturnBan, LedgerTypeOK
        <4>2. reputations' = [reputations EXCEPT ![p] =
                  [row EXCEPT !.count = row.count - 1, !.status = row.status, !.blockedAt = row.blockedAt]]
          BY <1>1, <4>1 DEF LedgerTypeOK
        <4>3. middle = [row EXCEPT !.count = row.count - 1, !.status = row.status, !.blockedAt = row.blockedAt]
          BY <1>3, <2>1 DEF Rows
        <4> QED
          BY <4>2, <4>3
      <3>2. Adds(p, g, s, N, middle) /\ DOMAIN s = {1} /\ s[1] = a /\ Len(s) = 1
        BY <1>11, <1>12, <2>4, <3>1
      <3>3. ASSUME NEW longer, NEW n, NEW m, Continues(log, g, s, longer, n, m, N), m = Len(s)
            PROVE  Advances(row, middle, log, longer, g, N, m)
        <4>1. m = 1 /\ a.type # "qualifying_ban_applied"
          BY <1>7, <3>2, <3>3
        <4>2. ValidEvent(longer, Generation(longer, g), N + 1)
          BY <1>9, <3>2, <3>3
        <4> QED
          BY <1>3, <1>4, <1>14, <2>2, <2>3, <3>2, <3>3, <4>1, <4>2, OneEvent
      <3>4. Follows(row, middle, log, g, s, N)
        BY <3>3 DEF Follows
      <3> QED
        BY <1>1, <1>3, <1>4, <3>2, <3>4, ExtendsIf
    <2>5. CASE unblocks
      <3>1. PICK next : next = [middle EXCEPT !.status = "normal", !.blockedAt = 0]
        OBVIOUS
      <3>2. next = After(middle, b) /\ next \in Rows
        <4>1. IsRow(middle)
          BY <2>2, RowFields
        <4>2. next = After(middle, b)
          BY <1>7, <3>1, <4>1, AfterUnblock
        <4>3. 0 \in 0..MaxOperations
          BY LedgerAssumption
        <4>4. next \in Rows
          BY <2>2, <3>1, <4>3 DEF Rows
        <4> QED
          BY <4>2, <4>4
      <3>3. reputations' = [reputations EXCEPT ![p] = next]
        <4>1. reputations' = [reputations EXCEPT ![p].count = row.count - 1,
                                  ![p].status = "normal", ![p].blockedAt = 0]
          BY <1>1, <1>10, <1>14, <2>5 DEF OverturnBan, LedgerTypeOK
        <4>2. reputations' = [reputations EXCEPT ![p] =
                  [row EXCEPT !.count = row.count - 1, !.status = "normal", !.blockedAt = 0]]
          BY <1>1, <4>1 DEF LedgerTypeOK
        <4>3. next = [row EXCEPT !.count = row.count - 1, !.status = "normal", !.blockedAt = 0]
          BY <1>3, <2>1, <3>1 DEF Rows
        <4> QED
          BY <4>2, <4>3
      <3>4. Adds(p, g, s, N, next) /\ DOMAIN s = {1, 2} /\ s[1] = a /\ s[2] = b /\ Len(s) = 2
        BY <1>11, <1>12, <2>5, <3>3
      <3>5. Fits(middle, b)
        BY <1>5, <1>7, <1>8, <2>2, <2>5 DEF Fits, StatusStream
      <3>6. ASSUME NEW longer, NEW n, NEW m, Continues(log, g, s, longer, n, m, N), m = Len(s)
            PROVE  Advances(row, next, log, longer, g, N, m)
        <4>1. m = 2 /\ a.type # "qualifying_ban_applied" /\ b.type = "phone_unblocked"
          BY <1>7, <3>4, <3>6
        <4>2. ValidEvent(longer, Generation(longer, g), N + 1)
          BY <1>9, <3>4, <3>6
        <4> QED
          BY <1>3, <1>4, <1>14, <2>2, <2>3, <3>2, <3>4, <3>5, <3>6, <4>1, <4>2, TwoEvents
      <3>7. Follows(row, next, log, g, s, N)
        BY <3>6 DEF Follows
      <3> QED
        BY <1>1, <1>3, <1>4, <3>4, <3>7, ExtendsIf
    <2> QED
      BY <2>4, <2>5
  <1> QED
    BY <1>13, <1>14

\* Every step appends to a ledger that replays, or leaves the ledgers alone.
LEMMA ReplaysStep ==
    ASSUME TypeOK, LedgerInv, ReplayInv, [Next]_vars
    PROVE  ReplayInv'
  <1>1. LedgerTypeOK
    BY DEF TypeOK, AccountTypeOK
  <1>2. ASSUME NEW p \in Phones, NEW g \in 1..MaxGenerations,
               g = reputations[p].generation + 1, StartGeneration(p, Len(operations) + 1, g)
        PROVE  ReplayInv'
    BY <1>1, <1>2, StartExtends, ReplaysOn
  <1>3. ASSUME NEW op, NEW p \in Phones, NewOperation(op), BlockPhone(op, p) \/ UnblockPhone(op, p)
        PROVE  ReplayInv'
    BY <1>1, <1>3, AdministratorExtends, ReplaysOn
  <1>4. ASSUME NEW op, NEW p \in Phones, NewOperation(op), reputations[p] # NoRow, BanPhone(op, p)
        PROVE  ReplayInv'
    BY <1>1, <1>4, BanExtends, ReplaysOn
  <1>5. ASSUME NEW op, NEW p \in Phones, NewOperation(op), NEW e, IsBan(p, e), OverturnBan(op, p, e)
        PROVE  ReplayInv'
    BY <1>1, <1>5, OverturnExtends, ReplaysOn
  <1> QED
    BY <1>2, <1>3, <1>4, <1>5, LedgerMoves, ReplaysUnchanged

\* The ledgers the checks start from: each known phone has begun its first generation.
LEMMA FirstLog ==
    ASSUME NEW log, NEW op \in 1..MaxOperations,
           log = << Event(1, 1, "status", "generation_started", op, 0),
                    Event(1, 2, "sanction", "generation_started", op, 0) >>
    PROVE  /\ RowReplays(NewRow(1), log) /\ DOMAIN log = {1, 2}
           /\ log[1].op = op /\ log[2].op = op /\ log[1].stream = "status" /\ log[2].stream = "sanction"
           /\ log[1].generation = 1 /\ log[2].generation = 1
  <1>1. PICK a, b, old, row, next :
           /\ a = Event(1, 1, "status", "generation_started", op, 0)
           /\ b = Event(1, 2, "sanction", "generation_started", op, 0)
           /\ old = <<>> /\ row = NoRow /\ next = NewRow(1)
    OBVIOUS
  <1>2. a \in Events /\ b \in Events /\ op \in Nat
    BY <1>1, LedgerAssumption, EventType DEF EventTypes
  <1>3. log = <<a, b>> /\ DOMAIN log = {1, 2} /\ log[1] = a /\ log[2] = b /\ Len(log) = 2
        /\ log \in Seq(Events) /\ old \in Seq(Events) /\ DOMAIN old = {} /\ log = old \o log
    BY <1>1, <1>2
  <1>4. /\ a.generation = 1 /\ a.sequence = 1 /\ a.op = op /\ a.stream = "status"
        /\ a.type = "generation_started"
        /\ b.generation = 1 /\ b.sequence = 2 /\ b.op = op /\ b.stream = "sanction"
        /\ b.type = "generation_started"
    BY <1>1, EventFields, EventNumber
  <1>5. Heads(old, 1) = {} /\ Cardinality(Heads(old, 1)) = 0 /\ Contiguous(old, 1) /\ Ordered(old)
    <2>1. \A i \in DOMAIN old : old[i].generation < 1
      BY <1>3
    <2>2. 1 \in Nat
      OBVIOUS
    <2> QED
      BY <1>3, <2>1, <2>2, NotBegun DEF Ordered
  <1>6. PICK g, n, m, N : g = 1 /\ n = Len(old) /\ m = Len(log) /\ N = Cardinality(Heads(old, g))
    OBVIOUS
  <1>7. \A k \in DOMAIN log : log[k].generation = g /\ log[k].sequence = N + k
    BY <1>3, <1>4, <1>5, <1>6
  <1>8. Continues(old, g, log, log, n, m, N)
    <2>1. Contiguous(old, g) /\ \A k \in DOMAIN log : /\ log[k].generation = g
                                                      /\ log[k].sequence = Cardinality(Heads(old, g)) + k
      BY <1>5, <1>6, <1>7
    <2>2. Continues(old, g, log, log, Len(old), Len(log), Cardinality(Heads(old, g)))
      BY <1>3, <1>5, <2>1, LogGrows
    <2> QED
      BY <1>6, <2>2
  <1>9. row \in Rows \cup {NoRow} /\ row.generation = 0 /\ row = NoRow
    BY <1>1 DEF NoRow
  <1>10. RowReplays(row, old)
    <2>1. LogReplays(old, row.generation)
      BY <1>9 DEF LogReplays
    <2> QED
      BY <1>1, <1>3, <1>5, <1>9, <2>1 DEF RowReplays
  <1>11. next \in Rows
    <2>1. 1 \in 1..MaxGenerations /\ 0 \in 0..MaxOperations
      BY LedgerAssumption
    <2> QED
      BY <1>1, <2>1 DEF NewRow, Rows
  <1>12. Advances(row, next, old, log, g, N, m)
    <2>1. m = 2 /\ g = row.generation + 1 /\ next = NewRow(g)
      BY <1>1, <1>3, <1>6, <1>9
    <2>2. \A k \in 1..2 : log[k].type = "generation_started" /\ log[k].op \in Nat
      <3>1. \A k \in 1..2 : k = 1 \/ k = 2
        OBVIOUS
      <3> QED
        BY <1>2, <1>3, <1>4, <3>1
    <2>3. log[1].stream = "status" /\ log[2].stream = "sanction"
      BY <1>3, <1>4
    <2> QED
      BY <1>8, <1>9, <1>10, <1>11, <2>1, <2>2, <2>3, FirstEvents
  <1>13. RowReplays(next, log)
    BY <1>8, <1>9, <1>10, <1>12, RowReplaysOn
  <1> QED
    BY <1>1, <1>3, <1>4, <1>13

LEMMA ReplaysInit ==
    ASSUME Init
    PROVE  ReplayInv
  <1>1. PICK start \in Starts : StartedFrom(start)
    BY DEF Init
  <1>2. PICK L : L = Len(start)
    OBVIOUS
  <1>3. /\ start \in Seq(Phones) /\ L \in Nat /\ DOMAIN start = 1..L /\ L <= MaxOperations
        /\ \A i, k \in DOMAIN start : start[i] = start[k] => i = k
    BY <1>2, AuthenticationAssumption
  <1>4. DOMAIN operations = 1..L /\ \A i \in 1..L : /\ operations[i].phone = start[i]
           /\ operations[i].generation = 1 /\ operations[i].sanctions = 1 /\ operations[i].statuses = 1
    BY <1>1, <1>3 DEF StartedFrom
  <1>5. ASSUME NEW p \in Phones, ~\E i \in DOMAIN start : start[i] = p
        PROVE  RowReplays(reputations[p], ledger[p]) /\ Recorded(ledger[p], operations, p)
    <2>1. reputations[p] = NoRow /\ ledger[p] = <<>>
      BY <1>1, <1>5 DEF StartedFrom
    <2>2. DOMAIN <<>> = {} /\ NoRow.generation = 0
      BY DEF NoRow
    <2>3. RowReplays(NoRow, <<>>)
      BY <2>2 DEF RowReplays, Ordered, LogReplays
    <2>4. Recorded(<<>>, operations, p)
      BY <1>3, <1>4, <1>5, <2>2 DEF Recorded
    <2> QED
      BY <2>1, <2>3, <2>4
  <1>6. ASSUME NEW p \in Phones, NEW op \in DOMAIN start, start[op] = p
        PROVE  RowReplays(reputations[p], ledger[p]) /\ Recorded(ledger[p], operations, p)
    <2>1. (CHOOSE i \in DOMAIN start : start[i] = p) = op
      BY <1>3, <1>6
    <2>2. PICK log : log = ledger[p]
      OBVIOUS
    <2>3. /\ reputations[p] = NewRow(1)
          /\ log = << Event(1, 1, "status", "generation_started", op, 0),
                      Event(1, 2, "sanction", "generation_started", op, 0) >>
      BY <1>1, <1>6, <2>1, <2>2 DEF StartedFrom
    <2>4. op \in 1..MaxOperations
      BY <1>3, LedgerAssumption
    <2>5. /\ RowReplays(NewRow(1), log) /\ DOMAIN log = {1, 2}
          /\ log[1].op = op /\ log[2].op = op /\ log[1].stream = "status" /\ log[2].stream = "sanction"
          /\ log[1].generation = 1 /\ log[2].generation = 1
      BY <2>3, <2>4, FirstLog
    <2>6. \A id \in DOMAIN operations : operations[id].phone = p => id = op
      BY <1>3, <1>4, <1>6
    <2>7. Fulfils(log, op, operations[op])
      <3>1. EventsOf(log, op, "sanction") = {2} /\ EventsOf(log, op, "status") = {1}
        BY <2>5 DEF EventsOf
      <3>2. Cardinality({1}) = 1 /\ Cardinality({2}) = 1
        BY FS_Singleton
      <3> QED
        BY <1>3, <1>4, <2>5, <3>1, <3>2 DEF Fulfils
    <2>8. op \in DOMAIN operations /\ operations[op].phone = p
      BY <1>3, <1>4, <1>6
    <2> QED
      BY <2>2, <2>3, <2>5, <2>6, <2>7, <2>8 DEF Recorded
  <1> QED
    BY <1>5, <1>6 DEF ReplayInv

\* Whatever operations, overturns and reassignments came before, the ledger of every
\* phone replays to its row: the validation never refuses (phone_reputation.validate_one).
THEOREM LedgersReplay == Spec => []LedgerValid
  <1>1. Init => LedgerInv /\ BansMatchLedger /\ ReplayInv
    BY BansInit, ReplaysInit
  <1>2. TypeOK /\ LedgerInv /\ BansMatchLedger /\ ReplayInv /\ [Next]_vars
          => (LedgerInv /\ BansMatchLedger /\ ReplayInv)'
    BY BansStep, ReplaysStep
  <1>3. TypeOK /\ ReplayInv => LedgerValid
    BY ReplaysValid DEF TypeOK, AccountTypeOK
  <1> QED
    BY <1>1, <1>2, <1>3, AccountTypes, PTL DEF Spec

\* A phone with BanThreshold counted bans is blocked, unless it was unblocked after the
\* last of them (phone_reputation.append_qualifying_ban, overturn_qualifying_ban).
THEOREM ThresholdsHold == Spec => []ThresholdBlocks
  <1>1. Init => LedgerInv /\ BansMatchLedger /\ ReplayInv
    BY BansInit, ReplaysInit
  <1>2. TypeOK /\ LedgerInv /\ BansMatchLedger /\ ReplayInv /\ [Next]_vars
          => (LedgerInv /\ BansMatchLedger /\ ReplayInv)'
    BY BansStep, ReplaysStep
  <1>3. TypeOK /\ ReplayInv => ThresholdBlocks
    BY ReplaysValid DEF TypeOK, AccountTypeOK
  <1> QED
    BY <1>1, <1>2, <1>3, AccountTypes, PTL DEF Spec

=============================================================================
