----------------------------- MODULE PhoneLedger -----------------------------
(***************************************************************************)
(* The long-lived record of a phone number (phone_reputation.py): a row    *)
(* with the current generation, the number of qualifying bans and the      *)
(* status, and the ledger of sanction and status events the row must agree *)
(* with.  The operations here are the ledger's half of a transaction;      *)
(* Accounts adds what the same transaction does to users and sessions.     *)
(*                                                                         *)
(* An operation id names one request.  A request whose id is recorded      *)
(* already returns the stored result, or is refused when the fingerprints  *)
(* differ; it changes nothing either way, so only new ids make steps.  Ids *)
(* are numbered in the order of their transactions and stand for their     *)
(* times as well.  Keys, ciphertexts and fingerprints are left out.        *)
(***************************************************************************)
EXTENDS Integers, Sequences, FiniteSets, FiniteSetsExt

CONSTANTS
    Phones,           \* phone numbers in canonical form
    BanThreshold,     \* qualifying bans that block a phone; 3 in the code
    MaxOperations,    \* bound: recorded operations
    MaxGenerations    \* bound: generations of one phone

ASSUME LedgerAssumption ==
    /\ IsFiniteSet(Phones)
    /\ BanThreshold \in Nat \ {0}
    /\ MaxOperations \in Nat /\ MaxGenerations \in Nat \ {0}

VARIABLES
    reputations,   \* [Phones -> row]; NoRow where the phone is unknown
    ledger,        \* [Phones -> Seq(event)]; an event's id is its position
    operations     \* recorded operations with the events they must have; id = position

ledgerVars == <<reputations, ledger, operations>>

\* blockedAt and lastBanAt are operation ids, 0 for NULL.
Rows == [generation : 1..MaxGenerations, count : Int, status : {"normal", "blocked"},
         blockedAt : 0..MaxOperations, lastBanAt : 0..MaxOperations]
NoRow == [generation |-> 0, count |-> 0, status |-> "none", blockedAt |-> 0, lastBanAt |-> 0]
NewRow(g) == [generation |-> g, count |-> 0, status |-> "normal",
              blockedAt |-> 0, lastBanAt |-> 0]

\* An event: the head with its one detail.  ref is the sanction event an overturn
\* targets or a status change is caused by, 0 for none.
EventTypes == {"generation_started", "qualifying_ban_applied", "qualifying_ban_overturned",
               "phone_blocked", "phone_unblocked"}
Event(g, n, stream, type, op, ref) ==
    [generation |-> g, sequence |-> n, stream |-> stream, type |-> type, op |-> op, ref |-> ref]
Events == [generation : 1..MaxGenerations, sequence : Nat, stream : {"sanction", "status"},
           type : EventTypes, op : 1..MaxOperations, ref : Nat]

LedgerTypeOK ==
    /\ reputations \in [Phones -> Rows \cup {NoRow}]
    /\ ledger \in [Phones -> Seq(Events)]
    /\ operations \in Seq([phone : Phones, generation : 1..MaxGenerations,
                           sanctions : 0..1, statuses : 0..1])

Positions(p, stream, g) ==
    {i \in DOMAIN ledger[p] : ledger[p][i].stream = stream /\ ledger[p][i].generation = g}
NextSequence(p, g) ==
    Max({0} \cup {ledger[p][i].sequence : i \in {k \in DOMAIN ledger[p] : ledger[p][k].generation = g}}) + 1

-----------------------------------------------------------------------------
(* Operations.                                                             *)

NewOperation(op) == op = Len(operations) + 1

Record(p, g, sanctions, statuses) ==
    /\ Len(operations) < MaxOperations
    /\ operations' = Append(operations, [phone |-> p, generation |-> g,
                                         sanctions |-> sanctions, statuses |-> statuses])

StartGeneration(p, op, g) ==
    /\ Record(p, g, 1, 1)
    /\ ledger' = [ledger EXCEPT ![p] = @ \o
            << Event(g, 1, "status", "generation_started", op, 0),
               Event(g, 2, "sanction", "generation_started", op, 0) >>]
    /\ reputations' = [reputations EXCEPT ![p] = NewRow(g)]

\* The first account of a phone opens its record; later ones find it.
EnsurePhone(p) ==
    \/ reputations[p] # NoRow /\ UNCHANGED ledgerVars
    \/ reputations[p] = NoRow /\ StartGeneration(p, Len(operations) + 1, 1)

AppendStatus(p, op, type, ref) ==
    LET g == reputations[p].generation
    IN  ledger' = [ledger EXCEPT ![p] =
            Append(@, Event(g, NextSequence(p, g), "status", type, op, ref))]

BlockPhone(op, p) ==
    LET row == reputations[p] IN
    \/ /\ row.status = "blocked"
       /\ Record(p, row.generation, 0, 0)
       /\ UNCHANGED <<reputations, ledger>>
    \/ /\ row.status = "normal"
       /\ Record(p, row.generation, 0, 1)
       /\ AppendStatus(p, op, "phone_blocked", 0)
       /\ reputations' = [reputations EXCEPT ![p].status = "blocked", ![p].blockedAt = op]

UnblockPhone(op, p) ==
    LET row == reputations[p] IN
    \/ /\ row.status = "normal"
       /\ Record(p, row.generation, 0, 0)
       /\ UNCHANGED <<reputations, ledger>>
    \/ /\ row.status = "blocked"
       /\ Record(p, row.generation, 0, 1)
       /\ AppendStatus(p, op, "phone_unblocked", 0)
       /\ reputations' = [reputations EXCEPT ![p].status = "normal", ![p].blockedAt = 0]

\* Mutant: the threshold looks at the count before this ban.
BlocksLate(p) == reputations[p].status = "normal" /\ reputations[p].count >= BanThreshold

ShouldBlock(p) == reputations[p].status = "normal" /\ reputations[p].count + 1 >= BanThreshold

BanPhone(op, p) ==
    LET row == reputations[p]
        n   == NextSequence(p, row.generation)
        ban == Event(row.generation, n, "sanction", "qualifying_ban_applied", op, 0)
        block == Event(row.generation, n + 1, "status", "phone_blocked", op, Len(ledger[p]) + 1)
        blocks == ShouldBlock(p)
    IN
    /\ Record(p, row.generation, 1, IF blocks THEN 1 ELSE 0)
    /\ ledger' = [ledger EXCEPT ![p] = @ \o IF blocks THEN <<ban, block>> ELSE <<ban>>]
    /\ reputations' = [reputations EXCEPT ![p] =
            [row EXCEPT !.count = @ + 1, !.lastBanAt = op,
                        !.status = IF blocks THEN "blocked" ELSE @,
                        !.blockedAt = IF blocks THEN op ELSE @]]

IsBan(p, e) == e \in DOMAIN ledger[p] /\ ledger[p][e].type = "qualifying_ban_applied"
Overturned(p, e) ==
    \E i \in DOMAIN ledger[p] : ledger[p][i].type = "qualifying_ban_overturned" /\ ledger[p][i].ref = e

\* Mutant: whichever ban is overturned, a block is lifted.
UnblocksAny(p, e) ==
    LET g == ledger[p][e].generation IN
    g = reputations[p].generation /\ ledger[p][Max(Positions(p, "status", g))].type = "phone_blocked"

\* The block is lifted when it is the latest status change of the current generation
\* and this ban caused it.
ShouldUnblock(p, e) ==
    LET g == ledger[p][e].generation
        latest == ledger[p][Max(Positions(p, "status", g))]
    IN  g = reputations[p].generation /\ latest.type = "phone_blocked" /\ latest.ref = e

\* Mutant: an old generation's ban counts against the current one.
CountedAnywhere(p, e) == TRUE

Counted(p, e) == ledger[p][e].generation = reputations[p].generation

\* The overturn is appended to the generation of the ban it targets.
OverturnBan(op, p, e) ==
    LET g == ledger[p][e].generation
        n == NextSequence(p, g)
        unblocks == ShouldUnblock(p, e)
        overturn == Event(g, n, "sanction", "qualifying_ban_overturned", op, e)
        unblock == Event(g, n + 1, "status", "phone_unblocked", op, e)
    IN
    /\ ~Overturned(p, e)
    /\ Record(p, g, 1, IF unblocks THEN 1 ELSE 0)
    /\ ledger' = [ledger EXCEPT ![p] = @ \o IF unblocks THEN <<overturn, unblock>> ELSE <<overturn>>]
    /\ reputations' = IF ~Counted(p, e) THEN reputations ELSE
            [reputations EXCEPT ![p].count = @ - 1,
                                ![p].status = IF unblocks THEN "normal" ELSE @,
                                ![p].blockedAt = IF unblocks THEN 0 ELSE @]

ReassignPhone(op, p) ==
    /\ reputations[p].generation < MaxGenerations
    /\ StartGeneration(p, op, reputations[p].generation + 1)

-----------------------------------------------------------------------------
(* The deep validation: what every read of a phone replays.                *)

\* The heads of a generation, in the order of their sequence numbers.
Heads(log, g) == {i \in DOMAIN log : log[i].generation = g}
Generation(log, g) ==
    [n \in {log[i].sequence : i \in Heads(log, g)} |->
        log[CHOOSE i \in Heads(log, g) : log[i].sequence = n]]
Contiguous(log, g) == DOMAIN Generation(log, g) = 1..Cardinality(Heads(log, g))

\* The status, the count, and their times after the first n events of a generation.
LatestIn(events, n, types) == Max({0} \cup {i \in 1..n : events[i].type \in types})
ReplayedStatus(events, n) ==
    LET i == LatestIn(events, n, {"phone_blocked", "phone_unblocked"})
    IN  IF i # 0 /\ events[i].type = "phone_blocked" THEN "blocked" ELSE "normal"
ReplayedCount(events, n) ==
      Cardinality({i \in 1..n : events[i].type = "qualifying_ban_applied"})
    - Cardinality({i \in 1..n : events[i].type = "qualifying_ban_overturned"})
TimeOf(events, i) == IF i = 0 THEN 0 ELSE events[i].op

ValidEvent(log, events, i) ==
    LET e == events[i] IN
    /\ ReplayedCount(events, i) >= 0
    /\ e.type = "generation_started" => i = IF e.stream = "status" THEN 1 ELSE 2
    /\ e.type = "phone_blocked" => ReplayedStatus(events, i - 1) = "normal"
    /\ e.type = "phone_unblocked" => ReplayedStatus(events, i - 1) = "blocked"
    /\ e.type = "qualifying_ban_overturned" =>
         /\ e.ref \in DOMAIN log
         /\ \E k \in 1..(i - 1) : events[k] = log[e.ref] /\ events[k].type = "qualifying_ban_applied"
         /\ \A k \in 1..(i - 1) : events[k].type = e.type => events[k].ref # e.ref

CompleteOperation(p, id) ==
    LET of(stream) == {i \in DOMAIN ledger[p] : ledger[p][i].op = id /\ ledger[p][i].stream = stream}
        record == operations[id]
    IN  /\ Cardinality(of("sanction")) = record.sanctions
        /\ Cardinality(of("status")) = record.statuses
        /\ \A i \in of("sanction") \cup of("status") : ledger[p][i].generation = record.generation

ValidateOne(p) ==
    LET row == reputations[p]
        log == ledger[p]
        events == Generation(log, row.generation)
        n == Cardinality(Heads(log, row.generation))
    IN
    /\ \A id \in DOMAIN operations : operations[id].phone = p => CompleteOperation(p, id)
    /\ \A i \in DOMAIN log :
         /\ log[i].op \in DOMAIN operations
         /\ operations[log[i].op].phone = p
         /\ log[i].generation <= row.generation
    /\ \A g \in 1..row.generation :
         /\ Contiguous(log, g)
         /\ \A i \in DOMAIN Generation(log, g) : ValidEvent(log, Generation(log, g), i)
    /\ n > 0
    /\ row.count = ReplayedCount(events, n)
    /\ row.status = ReplayedStatus(events, n)
    /\ row.blockedAt = IF row.status = "blocked"
                       THEN TimeOf(events, LatestIn(events, n, {"phone_blocked"})) ELSE 0
    /\ row.lastBanAt = TimeOf(events, LatestIn(events, n, {"qualifying_ban_applied"}))

-----------------------------------------------------------------------------
(* Properties.                                                             *)

\* Whatever operations, retries, overturns and reassignments came before, the
\* validation that every login, registration and sanction runs first never refuses a
\* phone: its ledger replays to the row (phone_reputation.validate_one).
LedgerValid == \A p \in Phones : reputations[p] # NoRow => ValidateOne(p)

\* A block is lifted by an overturn only if that very ban caused it: an unblock that
\* names a ban follows, among the status events of its generation, the block that
\* names the same ban.  An administrative block outlives every overturn.
UnblocksMatchBlocks ==
    \A p \in Phones : \A i \in DOMAIN ledger[p] :
        LET e == ledger[p][i]
            before == {k \in Positions(p, "status", e.generation) : k < i}
        IN  e.type = "phone_unblocked" /\ e.ref # 0 =>
              /\ before # {}
              /\ ledger[p][Max(before)].type = "phone_blocked"
              /\ ledger[p][Max(before)].ref = e.ref

\* A phone with BanThreshold counted bans is blocked, unless it was unblocked after
\* the last of them (the design allows count = 3 with status normal only then).
ThresholdBlocks ==
    \A p \in Phones :
        LET row == reputations[p]
            events == Generation(ledger[p], row.generation)
            n == Cardinality(Heads(ledger[p], row.generation))
        IN  row # NoRow /\ row.count >= BanThreshold /\ row.status = "normal" =>
              LatestIn(events, n, {"phone_unblocked"}) > LatestIn(events, n, {"qualifying_ban_applied"})

=============================================================================
