--------------------------- MODULE RemoteJobProofs ---------------------------
(***************************************************************************)
(* Who pays for a remote task, for any number of attempts and rounds.      *)
(***************************************************************************)
EXTENDS RemoteJob, WellFoundedInduction, TLAPS

Working == {"created", "submit", "resume", "post", "receipt", "query", "rejected", "download"}
Open    == {"created", "sending"}

\* Of all rows only the last can be open, and only in a Run that recovery will visit.
OpenIsLast ==
    \A i \in DOMAIN inv :
        inv[i].status \in Open => running /\ i = Len(inv) /\ pc # "stage"

\* A row that ends in doubt after a recorded failure is one the process died in before it
\* acted on that answer, or belongs to Doubao's client, which need not act on it.
DoubtExplained(r) ==
    r.remote = "failed" /\ r.status = "delivery_ambiguous" => r.died \/ EarlyReceipt

\* What a row says of the row it continues, which is older and does not change any more: an
\* attempt nobody asked for continues one with a known task and an open delivery; one that
\* submitted had no task to query; and an id that can be queried is handed on.
Chained(i) ==
    LET p == inv[i].retryOf IN
    /\ ~inv[i].asked => p # 0 /\ inv[p].job # 0 /\ inv[p].status = "delivery_ambiguous"
    /\ inv[i].job # 0 => inv[i].remote # "none"
    /\ p # 0 /\ inv[i].sent => ~Resumable(p)
    /\ p # 0 /\ Resumable(p) => inv[i].job \in {0, inv[p].job}
    /\ DoubtExplained(inv[i])
Chains == \A i \in DOMAIN inv : Chained(i)

\* What the writer knows at its labels.
WriterKnows ==
    /\ pc \in Working => Len(inv) # 0 /\ inv[Current].status \in Open
    /\ pc # "idle" => running
    /\ pc \in {"submit", "post", "receipt"} =>
         (inv[Current].retryOf # 0 => ~Resumable(inv[Current].retryOf))
    /\ pc = "resume" => inv[Current].retryOf # 0 /\ task = inv[inv[Current].retryOf].job
    /\ pc \in {"created", "submit", "resume"} => inv[Current].job = 0
    /\ pc = "receipt" /\ ~EarlyReceipt => inv[Current].job = 0
    /\ pc = "post" => EarlyReceipt /\ task # 0
    /\ pc \in {"post", "receipt"} /\ EarlyReceipt => task = inv[Current].job
    /\ pc \in Working \ {"rejected"} /\ ~EarlyReceipt => inv[Current].remote # "failed"

\* Doubao: every id ever made is recorded, before it is used.
IdsRecorded == EarlyReceipt => \A t \in DOMAIN tasks : \E i \in DOMAIN inv : inv[i].job = t

RemoteInv == TypeOK /\ OpenIsLast /\ Chains /\ WriterKnows /\ IdsRecorded

-----------------------------------------------------------------------------
(* Rows and tables.                                                        *)

\* The rows of one operation in invocations.
InvocationRows ==
    [status : {"created", "sending", "succeeded"} \cup Failed, round : 1..MaxRounds,
     retryOf : Nat, job : Nat,
     remote : {"none", "submitting", "submitted", "pending", "completed", "failed"},
     sent : BOOLEAN, asked : BOOLEAN, died : BOOLEAN]

\* The greatest of a nonempty set of positions exists, so the newest is one of them.
LEMMA NewestIn ==
    ASSUME NEW n \in Nat, NEW S \in SUBSET (1..n), S # {}
    PROVE  Newest(S) \in S
  <1> DEFINE T == {n - x : x \in S}
             R == OpToRel(<, Nat)
  <1>1. T \subseteq Nat /\ T # {}
    <2>1. PICK x \in S : TRUE
      OBVIOUS
    <2>2. n - x \in T /\ \A y \in S : n - y \in Nat
      OBVIOUS
    <2> QED
      BY <2>2
  <1>2. IsWellFoundedOn(R, Nat)
    BY NatLessThanWellFounded
  <1>3. \A x, y \in Nat : x < y => <<x, y>> \in R
    BY DEF OpToRel
  <1> HIDE DEF R, T
  <1>4. PICK m \in T : \A y \in T : ~(<<y, m>> \in R)
    BY <1>1, <1>2, WFMin
  <1>5. PICK x \in S : m = n - x
    BY DEF T
  <1>6. \A j \in S : j <= x
    <2> SUFFICES ASSUME NEW j \in S, ~(j <= x) PROVE FALSE
      OBVIOUS
    <2>1. n - j \in T /\ n - j < m /\ n - j \in Nat /\ m \in Nat
      BY <1>1, <1>5 DEF T
    <2> QED
      BY <1>3, <1>4, <2>1
  <1> QED
    BY <1>5, <1>6 DEF Newest

\* The table of rows is a sequence of rows.
LEMMA RowsTyped ==
    ASSUME TypeOK
    PROVE  /\ inv \in Seq(InvocationRows) /\ Len(inv) \in Nat /\ DOMAIN inv = 1..Len(inv)
           /\ tasks \in Seq({"unused", "working", "done", "failed"})
           /\ Len(tasks) \in Nat /\ DOMAIN tasks = 1..Len(tasks)
           /\ \A i \in DOMAIN inv : inv[i] \in InvocationRows
  <1>1. inv \in Seq(InvocationRows)
    BY DEF TypeOK, InvocationRows
  <1>2. tasks \in Seq({"unused", "working", "done", "failed"})
    BY DEF TypeOK
  <1> QED
    BY <1>1, <1>2

\* Replacing the row of the current attempt leaves the older ones alone.
LEMMA CurrentReplaced ==
    ASSUME TypeOK, Len(inv) # 0, NEW r \in InvocationRows, inv' = [inv EXCEPT ![Current] = r]
    PROVE  /\ inv' \in Seq(InvocationRows) /\ Len(inv') = Len(inv) /\ DOMAIN inv' = DOMAIN inv
           /\ inv'[Current] = r /\ Current \in DOMAIN inv
           /\ \A i \in DOMAIN inv : i # Current => inv'[i] = inv[i]
  BY RowsTyped DEF Current

\* So every chain is kept, if the new row is chained to the row it continues.
LEMMA CurrentChained ==
    ASSUME RemoteInv, Len(inv) # 0, NEW r \in InvocationRows, inv' = [inv EXCEPT ![Current] = r],
           LET p == inv[Current].retryOf IN
           /\ r.retryOf = p /\ r.asked = inv[Current].asked
           /\ r.job # 0 => r.remote # "none"
           /\ p # 0 /\ r.sent => ~Resumable(p)
           /\ p # 0 /\ Resumable(p) => r.job \in {0, inv[p].job}
           /\ DoubtExplained(r),
           UNCHANGED op
    PROVE  Chains'
  <1> DEFINE p == inv[Current].retryOf
  <1>1. /\ inv' \in Seq(InvocationRows) /\ Len(inv') = Len(inv) /\ DOMAIN inv' = DOMAIN inv
        /\ inv'[Current] = r /\ Current \in DOMAIN inv
        /\ \A i \in DOMAIN inv : i # Current => inv'[i] = inv[i]
    BY CurrentReplaced DEF RemoteInv
  <1>2. /\ DOMAIN inv = 1..Len(inv) /\ Len(inv) \in Nat
        /\ \A i \in DOMAIN inv : inv[i].retryOf \in Nat /\ inv[i].retryOf < i
    BY RowsTyped DEF RemoteInv, TypeOK, InvocationRows
  <1>3. \A i \in DOMAIN inv : inv[i].retryOf # 0 => inv'[inv[i].retryOf] = inv[inv[i].retryOf]
    BY <1>1, <1>2 DEF Current
  <1>5. ASSUME NEW i \in DOMAIN inv, i # Current PROVE Chained(i)'
    <2>1. inv'[i] = inv[i] /\ (inv[i].retryOf # 0 => inv'[inv[i].retryOf] = inv[inv[i].retryOf])
      BY <1>1, <1>3, <1>5
    <2>2. Chained(i)
      BY <1>5 DEF RemoteInv, Chains
    <2> QED
      BY <2>1, <2>2 DEF Chained, Resumable, DoubtExplained, EarlyReceipt
  <1>6. ASSUME NEW i \in DOMAIN inv, i = Current PROVE Chained(i)'
    <2>1. Chained(i)
      BY DEF RemoteInv, Chains
    <2>2. inv'[i] = r /\ r.retryOf = p /\ (p # 0 => inv'[p] = inv[p])
      BY <1>1, <1>3, <1>6
    <2> QED
      BY <1>6, <2>1, <2>2 DEF Chained, Resumable, DoubtExplained, EarlyReceipt
  <1> QED
    BY <1>1, <1>5, <1>6 DEF Chains

-----------------------------------------------------------------------------
(* The invariant is kept by every step, one lemma per group of actions.    *)

\* The empty table satisfies the invariant.
LEMMA RemoteInit == Init => RemoteInv
  <1> SUFFICES ASSUME Init PROVE RemoteInv
    OBVIOUS
  <1>1. TypeOK
    <2>1. inv = <<>> /\ tasks = <<>> /\ pc = "idle" /\ named = 0 /\ task = 0
          /\ op \in Operations /\ round = 1 /\ cancel \in BOOLEAN /\ running \in BOOLEAN
      BY DEF Init
    <2>2. round \in 1..MaxRounds
      BY <2>1, AttemptsAssumption
    <2> QED
      BY <2>1, <2>2 DEF TypeOK, Labels
  <1>2. OpenIsLast /\ Chains /\ WriterKnows /\ IdsRecorded
    BY DEF Init, OpenIsLast, Chains, WriterKnows, IdsRecorded, Working
  <1> QED
    BY <1>1, <1>2 DEF RemoteInv

\* Recovery settles every open row and changes nothing else, so no row that another one
\* continues is touched.
LEMMA RecoverRows ==
    ASSUME RemoteInv, Recover, UNCHANGED op
    PROVE  /\ inv' \in Seq(InvocationRows) /\ Len(inv') = Len(inv) /\ DOMAIN inv' = DOMAIN inv
           /\ \A i \in DOMAIN inv : inv'[i].status \notin Open
           /\ \A i \in DOMAIN inv : inv'[i].retryOf = inv[i].retryOf /\ inv'[i].job = inv[i].job
           /\ Chains'
  <1> USE DEF Open
  <1>1. /\ inv \in Seq(InvocationRows) /\ Len(inv) \in Nat /\ DOMAIN inv = 1..Len(inv)
        /\ \A i \in DOMAIN inv : inv[i] \in InvocationRows
    BY RowsTyped DEF RemoteInv
  <1>2. \A i \in DOMAIN inv :
          /\ Recovered(i) \in InvocationRows
          /\ Recovered(i).status \notin Open
          /\ inv[i].status \notin Open => Recovered(i) = inv[i]
          /\ Recovered(i).retryOf = inv[i].retryOf /\ Recovered(i).job = inv[i].job
          /\ Recovered(i).remote = inv[i].remote /\ Recovered(i).sent = inv[i].sent
          /\ Recovered(i).asked = inv[i].asked
          /\ inv[i].status \in Open /\ Recovered(i).status = "delivery_ambiguous" => Recovered(i).died
    BY <1>1 DEF Recovered, InvocationRows, Failed
  <1>3. /\ DOMAIN inv' = DOMAIN inv /\ inv' \in [1..Len(inv) -> InvocationRows]
        /\ \A i \in DOMAIN inv :
             /\ inv'[i].status \notin Open
             /\ inv[i].status \notin Open => inv'[i] = inv[i]
             /\ inv'[i].retryOf = inv[i].retryOf /\ inv'[i].job = inv[i].job
             /\ inv'[i].remote = inv[i].remote /\ inv'[i].sent = inv[i].sent
             /\ inv'[i].asked = inv[i].asked
             /\ inv[i].status \in Open /\ inv'[i].status = "delivery_ambiguous" => inv'[i].died
    <2>1. CASE running
      BY <1>1, <1>2, <2>1 DEF Recover
    <2>2. CASE ~running
      BY <1>1, <2>2 DEF Recover, RemoteInv, OpenIsLast
    <2> QED
      BY <2>1, <2>2
  <1>4. inv' \in Seq(InvocationRows) /\ Len(inv') = Len(inv)
    BY <1>1, <1>3
  <1>5. \A i \in DOMAIN inv : inv[i].retryOf # 0 => inv'[inv[i].retryOf] = inv[inv[i].retryOf]
    <2> SUFFICES ASSUME NEW i \in DOMAIN inv, inv[i].retryOf # 0
                 PROVE  inv'[inv[i].retryOf] = inv[inv[i].retryOf]
      OBVIOUS
    <2>1. inv[i].retryOf \in DOMAIN inv /\ inv[i].retryOf # Len(inv)
      <3>1. inv[i].retryOf \in Nat
        BY <1>1 DEF InvocationRows
      <3>2. inv[i].retryOf < i
        BY DEF RemoteInv, TypeOK
      <3> QED
        BY <1>1, <3>1, <3>2
    <2>2. inv[inv[i].retryOf].status \notin Open
      BY <2>1 DEF RemoteInv, OpenIsLast
    <2> QED
      BY <1>3, <2>1, <2>2
  <1>6. ASSUME NEW i \in DOMAIN inv PROVE Chained(i)'
    <2>1. Chained(i)
      BY DEF RemoteInv, Chains
    <2> QED
      BY <1>3, <1>5, <2>1 DEF Chained, Resumable, DoubtExplained, EarlyReceipt
  <1>7. Chains'
    BY <1>3, <1>6 DEF Chains
  <1> QED
    BY <1>3, <1>4, <1>7

\* A step that replaces the row of the current attempt, keeps what it continues, and may
\* make one task.
LEMMA CurrentStep ==
    ASSUME RemoteInv, pc \in Working, NEW r \in InvocationRows, inv' = [inv EXCEPT ![Current] = r],
           LET p == inv[Current].retryOf IN
           /\ r.retryOf = p /\ r.asked = inv[Current].asked
           /\ r.job # 0 => r.remote # "none"
           /\ p # 0 /\ r.sent => ~Resumable(p)
           /\ p # 0 /\ Resumable(p) => r.job \in {0, inv[p].job}
           /\ DoubtExplained(r),
           inv[Current].job \in {0, r.job}, r.job <= Len(tasks'),
           tasks' \in Seq({"unused", "working", "done", "failed"}), Len(tasks) <= Len(tasks'),
           EarlyReceipt => DOMAIN tasks' \subseteq DOMAIN tasks \cup {r.job},
           r.status \in Open => running' /\ pc' # "stage",
           UNCHANGED <<op, round, cancel>>, running' \in BOOLEAN, pc' \in Labels,
           named' \in {0, named}, task' \in 0..Len(tasks')
    PROVE  TypeOK' /\ OpenIsLast' /\ Chains' /\ IdsRecorded'
  <1>1. Len(inv) # 0 /\ TypeOK
    BY DEF RemoteInv, WriterKnows
  <1>2. /\ inv' \in Seq(InvocationRows) /\ Len(inv') = Len(inv) /\ DOMAIN inv' = DOMAIN inv
        /\ inv'[Current] = r /\ Current \in DOMAIN inv
        /\ \A i \in DOMAIN inv : i # Current => inv'[i] = inv[i]
    BY <1>1, CurrentReplaced
  <1>3. Chains'
    BY <1>1, CurrentChained
  <1>4. /\ Len(inv) \in Nat /\ DOMAIN inv = 1..Len(inv) /\ Len(tasks) \in Nat
        /\ \A i \in DOMAIN inv : inv[i] \in InvocationRows
    BY <1>1, RowsTyped
  <1>5. \A i \in DOMAIN inv : inv'[i].retryOf < i /\ inv'[i].job <= Len(tasks')
    <2> SUFFICES ASSUME NEW i \in DOMAIN inv PROVE inv'[i].retryOf < i /\ inv'[i].job <= Len(tasks')
      OBVIOUS
    <2>1. inv[i].retryOf < i /\ inv[i].job <= Len(tasks) /\ inv[i].job \in Nat
      BY <1>1, <1>4 DEF TypeOK, InvocationRows
    <2>2. Len(tasks') \in Nat
      OBVIOUS
    <2> QED
      BY <1>2, <1>4, <2>1, <2>2
  <1>6. TypeOK'
    <2>1. op' \in Operations /\ round' \in 1..MaxRounds /\ cancel' \in BOOLEAN
      BY <1>1 DEF TypeOK
    <2>2. named' \in 0..Len(inv')
      <3>1. named \in 0..Len(inv)
        BY <1>1 DEF TypeOK
      <3> QED
        BY <1>2, <1>4, <3>1
    <2>3. \A i \in DOMAIN inv' : inv'[i].retryOf < i /\ inv'[i].job <= Len(tasks')
      BY <1>2, <1>5
    <2> QED
      BY <1>2, <2>1, <2>2, <2>3 DEF TypeOK, InvocationRows
  <1>7. OpenIsLast'
    BY <1>2, <1>4 DEF RemoteInv, OpenIsLast, Current
  <1>8. IdsRecorded'
    <2> SUFFICES ASSUME EarlyReceipt, NEW t \in DOMAIN tasks' PROVE \E i \in DOMAIN inv' : inv'[i].job = t
      BY DEF IdsRecorded, EarlyReceipt
    <2>1. CASE t = r.job
      BY <1>2, <2>1
    <2>2. CASE t \in DOMAIN tasks
      <3>1. PICK i \in DOMAIN inv : inv[i].job = t
        BY <2>2 DEF RemoteInv, IdsRecorded
      <3>2. t # 0
        BY <1>4, <2>2, RowsTyped, <1>1
      <3> QED
        BY <1>2, <3>1, <3>2
    <2> QED
      BY <2>1, <2>2
  <1> QED
    BY <1>3, <1>6, <1>7, <1>8

\* One field of the current row.
LEMMA SetRow ==
    ASSUME NEW v
    PROVE  /\ Set("status", v) => inv' = [inv EXCEPT ![Current] = [inv[Current] EXCEPT !.status = v]]
           /\ Set("remote", v) => inv' = [inv EXCEPT ![Current] = [inv[Current] EXCEPT !.remote = v]]
           /\ Set("sent", v) => inv' = [inv EXCEPT ![Current] = [inv[Current] EXCEPT !.sent = v]]
  BY DEF Set

\* The entries: recovery, then a writer with its Run running.
LEMMA EntrySteps ==
    ASSUME RemoteInv, Resume \/ RetryInvocation \/ RetryRun
    PROVE  RemoteInv'
  <1>1. /\ Recover /\ pc' = "stage" /\ running' = TRUE /\ UNCHANGED <<op, tasks, task>>
        /\ round' \in {round, round + 1} /\ (round' # round => round < MaxRounds)
        /\ cancel' \in BOOLEAN /\ named' \in {0, Latest}
    BY DEF Resume, RetryInvocation, RetryRun, RemoteInv, TypeOK
  <1>2. /\ inv' \in Seq(InvocationRows) /\ Len(inv') = Len(inv) /\ DOMAIN inv' = DOMAIN inv
        /\ \A i \in DOMAIN inv : inv'[i].status \notin Open
        /\ \A i \in DOMAIN inv : inv'[i].retryOf = inv[i].retryOf /\ inv'[i].job = inv[i].job
        /\ Chains'
    BY <1>1, RecoverRows
  <1>3. Len(inv) \in Nat
    BY RowsTyped DEF RemoteInv
  <1>4. round' \in 1..MaxRounds /\ running' \in BOOLEAN
    BY <1>1, AttemptsAssumption DEF RemoteInv, TypeOK
  <1>5. named' \in 0..Len(inv)
    BY <1>1, <1>3 DEF Latest
  <1>6. TypeOK'
    BY <1>1, <1>2, <1>4, <1>5 DEF RemoteInv, TypeOK, InvocationRows, Labels
  <1>7. OpenIsLast' /\ WriterKnows'
    BY <1>1, <1>2 DEF OpenIsLast, WriterKnows, Working
  <1>8. IdsRecorded'
    BY <1>1, <1>2 DEF RemoteInv, IdsRecorded, EarlyReceipt
  <1> QED
    BY <1>2, <1>6, <1>7, <1>8 DEF RemoteInv

\* Steps that leave the rows alone.
LEMMA QuietSteps ==
    ASSUME RemoteInv,
           RequestCancel \/ Crash \/ Refuse \/ (\E t \in DOMAIN tasks : TaskEnds(t)) \/ UNCHANGED vars
    PROVE  RemoteInv'
  <1>1. UNCHANGED <<op, round, inv>>
    BY DEF RequestCancel, Crash, Refuse, TaskEnds, vars
  <1>2. Chains'
    BY <1>1 DEF RemoteInv, Chains, Chained, Resumable, DoubtExplained, EarlyReceipt
  <1>3. CASE RequestCancel
    <2>1. cancel' \in BOOLEAN /\ UNCHANGED <<running, tasks, pc, named, task>>
      BY <1>3 DEF RequestCancel, callVars
    <2>2. TypeOK' /\ OpenIsLast' /\ IdsRecorded'
      BY <1>1, <2>1 DEF RemoteInv, TypeOK, OpenIsLast, IdsRecorded, EarlyReceipt
    <2>3. WriterKnows'
      BY <1>1, <2>1 DEF RemoteInv, WriterKnows, EarlyReceipt, Current, Resumable
    <2> QED
      BY <1>2, <2>2, <2>3 DEF RemoteInv
  <1>4. CASE Crash
    <2>1. pc' = "idle" /\ named' = 0 /\ task' = 0 /\ UNCHANGED <<cancel, running, tasks>>
      BY <1>4 DEF Crash
    <2>2. TypeOK'
      BY <1>1, <2>1, RowsTyped DEF RemoteInv, TypeOK, Labels
    <2>3. OpenIsLast' /\ IdsRecorded' /\ WriterKnows'
      BY <1>1, <2>1 DEF RemoteInv, OpenIsLast, IdsRecorded, EarlyReceipt, WriterKnows, Working
    <2> QED
      BY <1>2, <2>2, <2>3 DEF RemoteInv
  <1>5. CASE Refuse
    <2>1. pc = "stage" /\ pc' = "idle" /\ running' = FALSE /\ named' = 0 /\ task' = 0
          /\ running' \in BOOLEAN /\ UNCHANGED <<cancel, tasks>>
      BY <1>5 DEF Refuse, Stop
    <2>2. TypeOK'
      BY <1>1, <2>1, RowsTyped DEF RemoteInv, TypeOK, Labels
    <2>3. OpenIsLast' /\ IdsRecorded' /\ WriterKnows'
      BY <1>1, <2>1 DEF RemoteInv, OpenIsLast, IdsRecorded, EarlyReceipt, WriterKnows, Working
    <2> QED
      BY <1>2, <2>2, <2>3 DEF RemoteInv
  <1>6. ASSUME NEW t \in DOMAIN tasks, TaskEnds(t) PROVE RemoteInv'
    <2>1. PICK s \in {"done", "failed"} : tasks' = [tasks EXCEPT ![t] = s]
      BY <1>6 DEF TaskEnds
    <2>2. tasks' \in Seq({"unused", "working", "done", "failed"}) /\ Len(tasks') = Len(tasks)
          /\ DOMAIN tasks' = DOMAIN tasks
      BY <2>1, RowsTyped DEF RemoteInv
    <2>3. UNCHANGED <<cancel, running, pc, named, task>>
      BY <1>6 DEF TaskEnds, callVars
    <2>4. TypeOK' /\ OpenIsLast' /\ IdsRecorded'
      BY <1>1, <2>2, <2>3 DEF RemoteInv, TypeOK, OpenIsLast, IdsRecorded, EarlyReceipt
    <2>5. WriterKnows'
      BY <1>1, <2>2, <2>3 DEF RemoteInv, WriterKnows, EarlyReceipt, Current, Resumable
    <2> QED
      BY <1>2, <2>4, <2>5 DEF RemoteInv
  <1>7. CASE UNCHANGED vars
    <2>1. UNCHANGED <<cancel, running, tasks, pc, named, task>>
      BY <1>7 DEF vars, callVars
    <2>2. TypeOK' /\ OpenIsLast' /\ IdsRecorded'
      BY <1>1, <2>1 DEF RemoteInv, TypeOK, OpenIsLast, IdsRecorded, EarlyReceipt
    <2>3. WriterKnows'
      BY <1>1, <2>1 DEF RemoteInv, WriterKnows, EarlyReceipt, Current, Resumable
    <2> QED
      BY <1>2, <2>2, <2>3 DEF RemoteInv
  <1> QED
    BY <1>3, <1>4, <1>5, <1>6, <1>7

\* A new attempt continues the latest one of the round, or an older row.
LEMMA PredecessorKnown ==
    ASSUME TypeOK
    PROVE  Predecessor \in 0..Len(inv) /\ (Latest # 0 => Predecessor = Latest)
  <1>1. Len(inv) \in Nat /\ DOMAIN inv = 1..Len(inv)
    BY RowsTyped
  <1>2. Latest = 0 \/ Latest = Len(inv)
    BY DEF Latest
  <1>3. CASE Latest # 0
    <2>1. Predecessor = Latest /\ Latest = Len(inv)
      BY <1>2, <1>3 DEF Predecessor
    <2> QED
      BY <1>1, <2>1
  <1>4. CASE Latest = 0 /\ OpenTasks # {}
    <2>1. Predecessor = Newest(OpenTasks)
      BY <1>4 DEF Predecessor
    <2>2. OpenTasks \in SUBSET (1..Len(inv))
      BY <1>1 DEF OpenTasks
    <2>3. Newest(OpenTasks) \in OpenTasks
      BY <1>1, <1>4, <2>2, NewestIn
    <2>4. Newest(OpenTasks) \in 1..Len(inv)
      BY <2>2, <2>3
    <2> QED
      BY <1>1, <1>4, <2>1, <2>4
  <1>5. CASE Latest = 0 /\ OpenTasks = {}
    <2>1. Predecessor = 0
      BY <1>5 DEF Predecessor
    <2> QED
      BY <1>1, <1>5, <2>1
  <1> QED
    BY <1>3, <1>4, <1>5

\* A new attempt continues an older row, and one nobody asked for only a known task.
LEMMA CreateStep ==
    ASSUME RemoteInv, Create
    PROVE  RemoteInv'
  <1> DEFINE r == [status |-> "created", round |-> round, retryOf |-> Predecessor,
                   job |-> 0, remote |-> "none", sent |-> FALSE,
                   asked |-> Latest # 0 => named = Latest, died |-> FALSE]
  <1>1. /\ pc = "stage" /\ ~Blocked /\ inv' = Append(inv, r) /\ pc' = "created"
        /\ UNCHANGED <<op, round, cancel, running, tasks, named, task>>
    BY DEF Create, callVars
  <1>2. /\ inv \in Seq(InvocationRows) /\ Len(inv) \in Nat /\ DOMAIN inv = 1..Len(inv)
        /\ \A i \in DOMAIN inv : inv[i] \in InvocationRows
    BY RowsTyped DEF RemoteInv
  <1>4. Predecessor \in 0..Len(inv) /\ (Latest # 0 => Predecessor = Latest)
    BY PredecessorKnown DEF RemoteInv
  <1>5. r \in InvocationRows
    BY <1>4, AttemptsAssumption DEF InvocationRows, RemoteInv, TypeOK
  <1>6. r.status = "created" /\ r.retryOf = Predecessor /\ r.job = 0 /\ ~r.sent
        /\ r.remote = "none" /\ (~r.asked => Latest # 0 /\ Latest # named)
    OBVIOUS
  <1> HIDE DEF r
  <1>7. /\ inv' \in Seq(InvocationRows) /\ Len(inv') = Len(inv) + 1 /\ DOMAIN inv' = 1..(Len(inv) + 1)
        /\ inv'[Len(inv) + 1] = r /\ \A i \in DOMAIN inv : inv'[i] = inv[i]
    BY <1>1, <1>2, <1>5
  <1>8. TypeOK'
    <2>1. \A i \in DOMAIN inv : inv'[i].retryOf < i /\ inv'[i].job <= Len(tasks)
      BY <1>7 DEF RemoteInv, TypeOK
    <2>2. /\ inv'[Len(inv) + 1].retryOf < Len(inv) + 1 /\ inv'[Len(inv) + 1].job <= Len(tasks)
          /\ Len(tasks) \in Nat
      BY <1>2, <1>4, <1>6, <1>7, RowsTyped DEF RemoteInv
    <2>3. \A i \in DOMAIN inv' : inv'[i].retryOf < i /\ inv'[i].job <= Len(tasks)
      <3> SUFFICES ASSUME NEW i \in DOMAIN inv', i \notin DOMAIN inv PROVE i = Len(inv) + 1
        BY <2>1, <2>2
      <3> QED
        BY <1>2, <1>7
    <2>4. /\ op \in Operations /\ round \in 1..MaxRounds /\ cancel \in BOOLEAN
          /\ running \in BOOLEAN /\ tasks \in Seq({"unused", "working", "done", "failed"})
          /\ named \in 0..Len(inv) /\ task \in 0..Len(tasks)
      BY DEF RemoteInv, TypeOK
    <2>5. named \in 0..(Len(inv) + 1)
      BY <1>2, <2>4
    <2> QED
      BY <1>1, <1>7, <2>3, <2>4, <2>5 DEF TypeOK, InvocationRows, Labels
  <1>9. \A i \in DOMAIN inv : inv[i].status \notin Open
    BY <1>1 DEF RemoteInv, OpenIsLast
  <1>10. OpenIsLast'
    BY <1>1, <1>2, <1>7, <1>9 DEF RemoteInv, OpenIsLast, WriterKnows
  <1>11. Chains'
    <2>1. ASSUME NEW i \in DOMAIN inv PROVE Chained(i)'
      <3>0. Chained(i) /\ inv[i].retryOf < i
        BY DEF RemoteInv, TypeOK, Chains
      <3>1. Chained(i) /\ inv[i].retryOf \in Nat /\ inv[i].retryOf < i
        BY <1>2, <3>0 DEF InvocationRows
      <3>2. inv'[i] = inv[i] /\ (inv[i].retryOf # 0 => inv'[inv[i].retryOf] = inv[inv[i].retryOf])
        BY <1>2, <1>7, <3>1
      <3> QED
        BY <1>1, <3>1, <3>2 DEF Chained, Resumable, DoubtExplained, EarlyReceipt
    <2>2. ASSUME NEW i \in {Len(inv) + 1} PROVE Chained(i)'
      <3>1. inv'[i] = r /\ (Predecessor # 0 => inv'[Predecessor] = inv[Predecessor])
        BY <1>2, <1>4, <1>7
      <3>2. ~r.asked => Predecessor # 0 /\ inv[Predecessor].job # 0
                        /\ inv[Predecessor].status = "delivery_ambiguous"
        BY <1>1, <1>4, <1>6 DEF Blocked
      <3> QED
        BY <1>6, <3>1, <3>2 DEF Chained, DoubtExplained
    <2> QED
      BY <1>2, <1>7, <2>1, <2>2 DEF Chains
  <1>12. WriterKnows'
    BY <1>1, <1>2, <1>6, <1>7 DEF RemoteInv, WriterKnows, Working, Current, Open
  <1>13. IdsRecorded'
    BY <1>1, <1>2, <1>7 DEF RemoteInv, IdsRecorded, EarlyReceipt
  <1> QED
    BY <1>8, <1>10, <1>11, <1>12, <1>13 DEF RemoteInv

-----------------------------------------------------------------------------
(* The steps of a call.                                                    *)

\* What is known of the current row while the writer works on it.
CurrentFacts ==
    /\ Current \in DOMAIN inv /\ inv[Current] \in InvocationRows /\ Len(inv) # 0
    /\ inv[Current].job <= Len(tasks) /\ Len(tasks) \in Nat
    /\ tasks \in Seq({"unused", "working", "done", "failed"})
    /\ inv[Current].retryOf \in Nat /\ inv[Current].retryOf < Current /\ Current \in Nat
    /\ inv[Current].retryOf # 0 =>
         inv[inv[Current].retryOf] \in InvocationRows /\ inv[inv[Current].retryOf].job \in 0..Len(tasks)
    /\ inv[Current].status \in Open
    /\ Chained(Current) /\ running /\ running \in BOOLEAN /\ named \in 0..Len(inv)
    /\ task \in 0..Len(tasks)

\* The invariant gives it.
LEMMA CurrentKnown ==
    ASSUME RemoteInv, pc \in Working
    PROVE  CurrentFacts
  <1>1. /\ Len(inv) \in Nat /\ DOMAIN inv = 1..Len(inv) /\ Len(tasks) \in Nat
        /\ tasks \in Seq({"unused", "working", "done", "failed"})
        /\ \A i \in DOMAIN inv : inv[i] \in InvocationRows
    BY RowsTyped DEF RemoteInv
  <1>2. Len(inv) # 0 /\ inv[Current].status \in Open /\ running /\ running \in BOOLEAN /\ named \in 0..Len(inv)
        /\ task \in 0..Len(tasks)
    BY DEF RemoteInv, WriterKnows, TypeOK, Working
  <1>3. Current \in DOMAIN inv /\ Current = Len(inv) /\ Current \in Nat
    BY <1>1, <1>2 DEF Current
  <1>4. \A i \in DOMAIN inv : inv[i].retryOf < i /\ inv[i].job <= Len(tasks)
    BY DEF RemoteInv, TypeOK
  <1>5. \A i \in DOMAIN inv : inv[i].job \in Nat /\ inv[i].retryOf \in Nat
    BY <1>1 DEF InvocationRows
  <1>6. inv[Current].retryOf # 0 => inv[Current].retryOf \in DOMAIN inv
    BY <1>1, <1>3, <1>4, <1>5
  <1>7. Chained(Current)
    BY <1>3 DEF RemoteInv, Chains
  <1> QED
    BY <1>1, <1>2, <1>3, <1>4, <1>5, <1>6, <1>7 DEF CurrentFacts

\* A step on the current row that leaves its task alone, and sends only where the chain allows.
LEMMA SameTaskStep ==
    ASSUME RemoteInv, pc \in Working, NEW r \in InvocationRows, inv' = [inv EXCEPT ![Current] = r],
           r.retryOf = inv[Current].retryOf, r.asked = inv[Current].asked,
           r.job = inv[Current].job, r.remote = inv[Current].remote \/ r.remote # "none",
           r.sent => \/ inv[Current].sent
                     \/ inv[Current].retryOf # 0 => ~Resumable(inv[Current].retryOf),
           DoubtExplained(r),
           tasks' \in Seq({"unused", "working", "done", "failed"}), Len(tasks) <= Len(tasks'),
           EarlyReceipt => Len(tasks') = Len(tasks),
           r.status \in Open => running' /\ pc' # "stage",
           UNCHANGED <<op, round, cancel>>, running' \in BOOLEAN, pc' \in Labels,
           named' \in {0, named}, task' \in 0..Len(tasks')
    PROVE  TypeOK' /\ OpenIsLast' /\ Chains' /\ IdsRecorded'
  <1> DEFINE p == inv[Current].retryOf
  <1>1. CurrentFacts
    BY CurrentKnown
  <1>2. /\ r.job # 0 => r.remote # "none"
        /\ p # 0 /\ r.sent => ~Resumable(p)
        /\ p # 0 /\ Resumable(p) => r.job \in {0, inv[p].job}
    BY <1>1 DEF CurrentFacts, Chained
  <1>3. r.job <= Len(tasks')
    <2>1. r.job \in Nat /\ Len(tasks) \in Nat /\ Len(tasks') \in Nat /\ r.job <= Len(tasks)
      BY <1>1 DEF CurrentFacts, InvocationRows
    <2> QED
      BY <2>1
  <1>4. EarlyReceipt => DOMAIN tasks' \subseteq DOMAIN tasks \cup {r.job}
    BY <1>1 DEF CurrentFacts
  <1> QED
    BY <1>2, <1>3, <1>4, CurrentStep

\* The call starts: it queries the task of the row it continues, or submits.
LEMMA SendingStep ==
    ASSUME RemoteInv, Sending
    PROVE  RemoteInv'
  <1> DEFINE r == [inv[Current] EXCEPT !.status = "sending"]
             p == inv[Current].retryOf
  <1>1. /\ pc = "created" /\ inv' = [inv EXCEPT ![Current] = r]
        /\ UNCHANGED <<op, round, cancel, running, tasks, named>>
        /\ \/ p # 0 /\ Resumable(p) /\ task' = inv[p].job /\ pc' = "resume"
           \/ ~(p # 0 /\ Resumable(p)) /\ task' = 0 /\ pc' = "submit"
    BY SetRow DEF Sending
  <1>2. CurrentFacts
    BY <1>1, CurrentKnown DEF Working
  <1>3. /\ r \in InvocationRows /\ r.retryOf = p /\ r.asked = inv[Current].asked
        /\ r.job = inv[Current].job /\ r.remote = inv[Current].remote /\ r.sent = inv[Current].sent
        /\ r.status = "sending"
    BY <1>2 DEF CurrentFacts, InvocationRows
  <1> HIDE DEF r
  <1>4. running /\ inv[Current].job = 0 /\ (~EarlyReceipt => r.remote # "failed")
    BY <1>1, <1>3 DEF RemoteInv, WriterKnows, Working
  <1>5. task' \in 0..Len(tasks)
    BY <1>1, <1>2 DEF CurrentFacts
  <1>6. TypeOK' /\ OpenIsLast' /\ Chains' /\ IdsRecorded'
    <2>1. running' \in BOOLEAN /\ pc' \in Labels /\ pc \in Working /\ pc' # "stage"
      BY <1>1, <1>2 DEF CurrentFacts, Working, Labels
    <2>2. tasks' \in Seq({"unused", "working", "done", "failed"}) /\ Len(tasks') = Len(tasks)
          /\ Len(tasks) <= Len(tasks')
      BY <1>1, <1>2 DEF CurrentFacts
    <2>3. task' \in 0..Len(tasks')
      BY <1>5, <2>2
    <2> QED
      BY <1>1, <1>3, <1>4, <2>1, <2>2, <2>3, SameTaskStep DEF DoubtExplained
  <1>7. Len(inv') = Len(inv) /\ inv'[Current] = r /\ (p # 0 => inv'[p] = inv[p])
    BY <1>1, <1>2, <1>3, CurrentReplaced DEF CurrentFacts, RemoteInv
  <1>8. WriterKnows'
    BY <1>1, <1>3, <1>4, <1>7, <1>2
       DEF WriterKnows, Working, Current, Resumable, CurrentFacts, EarlyReceipt, Open
  <1> QED
    BY <1>6, <1>8 DEF RemoteInv

\* The table of tasks grows by one, or one of its tasks changes.
LEMMA TasksMove ==
    ASSUME NEW T, NEW s \in Seq(T), NEW e \in T, NEW k
    PROVE  /\ [s EXCEPT ![k] = e] \in Seq(T) /\ Len([s EXCEPT ![k] = e]) = Len(s)
           /\ Append(s, e) \in Seq(T) /\ Len(Append(s, e)) = Len(s) + 1
  <1>1. Append(s, e) \in Seq(T) /\ Len(Append(s, e)) = Len(s) + 1
    OBVIOUS
  <1>2. Len(s) \in Nat /\ DOMAIN s = 1..Len(s) /\ s \in [1..Len(s) -> T]
    OBVIOUS
  <1> DEFINE f == [s EXCEPT ![k] = e]
  <1>3. f \in [1..Len(s) -> T]
    BY <1>2
  <1> HIDE DEF f
  <1>4. f \in Seq(T) /\ Len(f) = Len(s)
    BY <1>2, <1>3
  <1> QED
    BY <1>1, <1>4 DEF f

\* A row whose task is recorded.
LEMMA TaskRecorded ==
    ASSUME NEW x \in InvocationRows, NEW j \in Nat, NEW m \in {"submitting", "submitted"}
    PROVE  LET r == [x EXCEPT !.job = j, !.remote = m] IN
           /\ r \in InvocationRows /\ r.retryOf = x.retryOf /\ r.asked = x.asked
           /\ r.job = j /\ r.remote = m /\ r.sent = x.sent /\ r.status = x.status
  BY DEF InvocationRows

\* What stays true when the service takes a submission, or does not.
LEMMA AcceptTasks ==
    ASSUME RemoteInv, CanPost, Accept \/ UNCHANGED tasks
    PROVE  /\ tasks' \in Seq({"unused", "working", "done", "failed"}) /\ Len(tasks) \in Nat
           /\ Len(tasks') \in Nat /\ Len(tasks) <= Len(tasks')
           /\ EarlyReceipt => Len(tasks') = Len(tasks)
           /\ Accept /\ ~EarlyReceipt => Len(tasks') = Len(tasks) + 1
  <1>1. tasks \in Seq({"unused", "working", "done", "failed"}) /\ Len(tasks) \in Nat
        /\ DOMAIN tasks = 1..Len(tasks)
    BY RowsTyped DEF RemoteInv
  <1> DEFINE T == {"unused", "working", "done", "failed"}
  <1>2. ASSUME tasks' = [tasks EXCEPT ![task] = "working"]
        PROVE  tasks' \in Seq(T) /\ Len(tasks') = Len(tasks)
    BY <1>1, <1>2, TasksMove
  <1>3. ASSUME tasks' = Append(tasks, "working")
        PROVE  tasks' \in Seq(T) /\ Len(tasks') = Len(tasks) + 1
    <2>1. tasks \in Seq(T) /\ "working" \in T
      BY <1>1
    <2>2. Append(tasks, "working") \in Seq(T) /\ Len(Append(tasks, "working")) = Len(tasks) + 1
      BY <2>1, TasksMove
    <2> QED
      BY <1>3, <2>2
  <1>4. ASSUME UNCHANGED tasks
        PROVE  tasks' \in Seq(T) /\ Len(tasks') = Len(tasks)
    BY <1>1, <1>4
  <1>5. \/ Accept /\ EarlyReceipt /\ tasks' \in Seq(T) /\ Len(tasks') = Len(tasks)
        \/ Accept /\ ~EarlyReceipt /\ tasks' \in Seq(T) /\ Len(tasks') = Len(tasks) + 1
        \/ ~Accept /\ tasks' \in Seq(T) /\ Len(tasks') = Len(tasks)
    BY <1>2, <1>3, <1>4 DEF Accept
  <1>6. tasks' \in Seq(T) /\ (Len(tasks') = Len(tasks) \/ Len(tasks') = Len(tasks) + 1)
    BY <1>5
  <1>7. Len(tasks') \in Nat /\ Len(tasks) <= Len(tasks')
    BY <1>1, <1>6
  <1> QED
    BY <1>1, <1>5, <1>6, <1>7

\* A step that settles the current row, or leaves it to recovery, and ends the writer.
LEMMA EndStep ==
    ASSUME RemoteInv, pc \in Working,
           NEW r \in InvocationRows, inv' = [inv EXCEPT ![Current] = r],
           r.retryOf = inv[Current].retryOf, r.asked = inv[Current].asked,
           r.job = inv[Current].job, r.remote = inv[Current].remote,
           r.sent => \/ inv[Current].sent
                     \/ inv[Current].retryOf # 0 => ~Resumable(inv[Current].retryOf),
           DoubtExplained(r),
           tasks' \in Seq({"unused", "working", "done", "failed"}), Len(tasks') \in Nat,
           Len(tasks) <= Len(tasks'),
           EarlyReceipt => Len(tasks') = Len(tasks),
           r.status \in Open => running', running' \in BOOLEAN,
           UNCHANGED <<op, round, cancel>>, pc' = "idle", named' = 0, task' = 0
    PROVE  RemoteInv'
  <1>1. pc' \in Labels /\ named' \in {0, named} /\ task' \in 0..Len(tasks') /\ pc' # "stage"
    BY DEF Labels
  <1>2. TypeOK' /\ OpenIsLast' /\ Chains' /\ IdsRecorded'
    BY <1>1, SameTaskStep
  <1>3. WriterKnows'
    BY DEF WriterKnows, Working
  <1> QED
    BY <1>2, <1>3 DEF RemoteInv

\* A call that ends without a request ends with a status that says so.
LEMMA FailStep ==
    ASSUME RemoteInv, pc \in Working, NEW v \in Failed \cup {"succeeded"}, FailWith(v),
           v = "delivery_ambiguous" => pc # "rejected",
           UNCHANGED <<op, round, cancel, tasks>>
    PROVE  RemoteInv'
  <1> DEFINE r == [inv[Current] EXCEPT !.status = v]
  <1>1. inv' = [inv EXCEPT ![Current] = r] /\ Stop
    BY SetRow DEF FailWith
  <1>2. CurrentFacts
    BY CurrentKnown
  <1>3. /\ r \in InvocationRows /\ r.retryOf = inv[Current].retryOf /\ r.asked = inv[Current].asked
        /\ r.job = inv[Current].job /\ r.remote = inv[Current].remote /\ r.sent = inv[Current].sent
        /\ r.status = v /\ r.status \notin Open
    BY <1>2 DEF CurrentFacts, InvocationRows, Open, Failed
  <1> HIDE DEF r
  <1>6. DoubtExplained(r)
    BY <1>3 DEF RemoteInv, WriterKnows, DoubtExplained
  <1>4. pc' = "idle" /\ running' \in BOOLEAN /\ named' = 0 /\ task' = 0
    BY <1>1 DEF Stop
  <1>5. tasks' \in Seq({"unused", "working", "done", "failed"}) /\ Len(tasks') = Len(tasks)
        /\ Len(tasks) <= Len(tasks') /\ Len(tasks') \in Nat
    BY <1>2 DEF CurrentFacts
  <1> QED
    BY <1>1, <1>3, <1>4, <1>5, <1>6, EndStep

\* A request left the process and its call ended, with or without an answer.
LEMMA FailSentStep ==
    ASSUME RemoteInv, CanPost, NEW v \in Failed, FailSent(v), Accept \/ UNCHANGED tasks,
           UNCHANGED <<op, round, cancel>>
    PROVE  RemoteInv'
  <1> DEFINE r == [inv[Current] EXCEPT !.status = v, !.sent = TRUE]
  <1>1. inv' = [inv EXCEPT ![Current] = r] /\ Stop
    BY DEF FailSent
  <1>2. pc \in {"post", "submit"} /\ pc \in Working
    BY DEF CanPost, Working
  <1>3. CurrentFacts
    BY <1>2, CurrentKnown
  <1>4. /\ r \in InvocationRows /\ r.retryOf = inv[Current].retryOf /\ r.asked = inv[Current].asked
        /\ r.job = inv[Current].job /\ r.remote = inv[Current].remote
        /\ r.status \notin Open
    BY <1>3 DEF CurrentFacts, InvocationRows, Open, Failed
  <1> HIDE DEF r
  <1>5. inv[Current].retryOf # 0 => ~Resumable(inv[Current].retryOf)
    BY <1>2 DEF RemoteInv, WriterKnows
  <1>7. DoubtExplained(r)
    BY <1>2, <1>4 DEF RemoteInv, WriterKnows, DoubtExplained
  <1>6. pc' = "idle" /\ running' \in BOOLEAN /\ named' = 0 /\ task' = 0
    BY <1>1 DEF Stop
  <1> QED
    BY <1>1, <1>2, <1>4, <1>5, <1>6, <1>7, AcceptTasks, EndStep

\* The process dies while it waits for the answer: the row stays open, its Run running.
LEMMA PostCrashStep ==
    ASSUME RemoteInv, PostCrash
    PROVE  RemoteInv'
  <1> DEFINE r == [inv[Current] EXCEPT !.sent = TRUE]
  <1>1. /\ CanPost /\ Accept /\ inv' = [inv EXCEPT ![Current] = r]
        /\ pc' = "idle" /\ named' = 0 /\ task' = 0 /\ UNCHANGED <<op, round, cancel, running>>
    BY SetRow DEF PostCrash
  <1>2. pc \in {"post", "submit"} /\ pc \in Working
    BY <1>1 DEF CanPost, Working
  <1>3. CurrentFacts
    BY <1>2, CurrentKnown
  <1>4. /\ r \in InvocationRows /\ r.retryOf = inv[Current].retryOf /\ r.asked = inv[Current].asked
        /\ r.job = inv[Current].job /\ r.remote = inv[Current].remote
        /\ r.status = inv[Current].status
    BY <1>3 DEF CurrentFacts, InvocationRows
  <1> HIDE DEF r
  <1>5. inv[Current].retryOf # 0 => ~Resumable(inv[Current].retryOf)
    BY <1>2 DEF RemoteInv, WriterKnows
  <1>7. DoubtExplained(r)
    BY <1>2, <1>4 DEF RemoteInv, WriterKnows, DoubtExplained
  <1>6. running' /\ running' \in BOOLEAN
    BY <1>1, <1>3 DEF CurrentFacts
  <1> QED
    BY <1>1, <1>2, <1>4, <1>5, <1>6, <1>7, AcceptTasks, EndStep

\* The answer arrives: the writer holds the id, and what it continues had nothing to query.
LEMMA PostAcceptedStep ==
    ASSUME RemoteInv, PostAccepted
    PROVE  RemoteInv'
  <1> DEFINE r == [inv[Current] EXCEPT !.sent = TRUE]
             p == inv[Current].retryOf
  <1>1. /\ CanPost /\ inv' = [inv EXCEPT ![Current] = r]
        /\ Accept \/ (EarlyReceipt /\ UNCHANGED tasks)
        /\ pc' = "receipt" /\ UNCHANGED <<op, round, cancel, running, named>>
        /\ task' = IF EarlyReceipt THEN task ELSE Len(tasks) + 1
    BY SetRow DEF PostAccepted
  <1>2. pc \in {"post", "submit"} /\ pc \in Working /\ (EarlyReceipt => pc = "post")
    BY <1>1 DEF CanPost, Working
  <1>3. CurrentFacts
    BY <1>2, CurrentKnown
  <1>4. /\ r \in InvocationRows /\ r.retryOf = p /\ r.asked = inv[Current].asked
        /\ r.job = inv[Current].job /\ r.remote = inv[Current].remote
        /\ r.status = inv[Current].status
    BY <1>3 DEF CurrentFacts, InvocationRows
  <1> HIDE DEF r
  <1>5. p # 0 => ~Resumable(p)
    BY <1>2 DEF RemoteInv, WriterKnows
  <1>6. running' /\ running' \in BOOLEAN /\ pc' \in Labels /\ pc' # "stage"
    BY <1>1, <1>3 DEF CurrentFacts, Labels
  <1>7. task' \in 0..Len(tasks')
    <2>1. task \in 0..Len(tasks)
      BY <1>3 DEF CurrentFacts
    <2> QED
      BY <1>1, <2>1, AcceptTasks
  <1>12. DoubtExplained(r) /\ (~EarlyReceipt => r.remote # "failed")
    BY <1>2, <1>4 DEF RemoteInv, WriterKnows, DoubtExplained
  <1>8. TypeOK' /\ OpenIsLast' /\ Chains' /\ IdsRecorded'
    BY <1>1, <1>2, <1>4, <1>5, <1>6, <1>7, <1>12, AcceptTasks, SameTaskStep
  <1>9. Len(inv') = Len(inv) /\ inv'[Current] = r /\ (p # 0 => inv'[p] = inv[p])
    BY <1>1, <1>3, <1>4, CurrentReplaced DEF CurrentFacts, RemoteInv
  <1>10. (EarlyReceipt => task' = inv[Current].job) /\ (~EarlyReceipt => inv[Current].job = 0)
    <2>1. EarlyReceipt => task' = inv[Current].job
      BY <1>1, <1>2 DEF RemoteInv, WriterKnows
    <2>2. ~EarlyReceipt => pc = "submit"
      BY <1>1 DEF CanPost
    <2> QED
      BY <2>1, <2>2 DEF RemoteInv, WriterKnows
  <1>11. WriterKnows'
    BY <1>1, <1>3, <1>4, <1>5, <1>6, <1>9, <1>10, <1>12
       DEF WriterKnows, Working, Current, Resumable, CurrentFacts, EarlyReceipt, Open
  <1> QED
    BY <1>8, <1>11 DEF RemoteInv

\* Doubao makes the id and records it in the row in one step.
LEMMA MintStep ==
    ASSUME RemoteInv, Mint
    PROVE  RemoteInv'
  <1> DEFINE r == [inv[Current] EXCEPT !.job = Len(tasks) + 1, !.remote = "submitting"]
             p == inv[Current].retryOf
  <1>1. /\ pc = "submit" /\ EarlyReceipt /\ tasks' = Append(tasks, "unused")
        /\ task' = Len(tasks) + 1 /\ inv' = [inv EXCEPT ![Current] = r]
        /\ pc' = "post" /\ UNCHANGED <<op, round, cancel, running, named>>
    BY DEF Mint
  <1>2. CurrentFacts /\ pc \in Working
    BY <1>1, CurrentKnown DEF Working
  <1>3. /\ r \in InvocationRows /\ r.retryOf = p /\ r.asked = inv[Current].asked
        /\ r.job = Len(tasks) + 1 /\ r.remote = "submitting" /\ r.sent = inv[Current].sent
        /\ r.status = inv[Current].status
    <2>1. inv[Current] \in InvocationRows /\ Len(tasks) \in Nat
      BY <1>2 DEF CurrentFacts
    <2>2. Len(tasks) + 1 \in Nat
      BY <2>1
    <2> QED
      BY <2>1, <2>2, TaskRecorded
  <1> HIDE DEF r
  <1>4. (p # 0 => ~Resumable(p)) /\ inv[Current].job = 0
    BY <1>1 DEF RemoteInv, WriterKnows
  <1>5. /\ tasks' \in Seq({"unused", "working", "done", "failed"}) /\ Len(tasks') = Len(tasks) + 1
        /\ Len(tasks) \in Nat /\ DOMAIN tasks = 1..Len(tasks) /\ DOMAIN tasks' = 1..(Len(tasks) + 1)
    BY <1>1, <1>2 DEF CurrentFacts
  <1>6. running' /\ running' \in BOOLEAN /\ pc' \in Labels /\ pc' # "stage"
    BY <1>1, <1>2 DEF CurrentFacts, Labels
  <1>7. DoubtExplained(r)
    BY <1>3 DEF DoubtExplained
  <1>8. /\ r.job <= Len(tasks') /\ Len(tasks) <= Len(tasks') /\ task' \in 0..Len(tasks')
        /\ DOMAIN tasks' \subseteq DOMAIN tasks \cup {r.job}
    BY <1>1, <1>3, <1>5
  <1>9. TypeOK' /\ OpenIsLast' /\ Chains' /\ IdsRecorded'
    BY <1>1, <1>2, <1>3, <1>4, <1>5, <1>6, <1>7, <1>8, CurrentStep
  <1>10. Len(inv') = Len(inv) /\ inv'[Current] = r /\ (p # 0 => inv'[p] = inv[p])
    BY <1>1, <1>2, <1>3, CurrentReplaced DEF CurrentFacts, RemoteInv
  <1>11. task' # 0 /\ task' = r.job
    BY <1>1, <1>3, <1>5
  <1>12. WriterKnows'
    BY <1>1, <1>2, <1>3, <1>4, <1>6, <1>10, <1>11
       DEF WriterKnows, Working, Current, Resumable, CurrentFacts, EarlyReceipt, Open
  <1> QED
    BY <1>9, <1>12 DEF RemoteInv

\* The id is recorded as submitted; a resumption records the one it took over.
LEMMA ReceiptStep ==
    ASSUME RemoteInv, Receipt
    PROVE  RemoteInv'
  <1> DEFINE r == [inv[Current] EXCEPT !.job = task, !.remote = "submitted"]
             p == inv[Current].retryOf
  <1>1. /\ pc \in {"resume", "receipt"} /\ inv' = [inv EXCEPT ![Current] = r]
        /\ pc' = "query" /\ UNCHANGED <<op, round, cancel, running, tasks, named, task>>
    BY DEF Receipt, callVars
  <1>2. CurrentFacts /\ pc \in Working
    BY <1>1, CurrentKnown DEF Working
  <1>3. task \in Nat /\ task \in 0..Len(tasks) /\ task <= Len(tasks)
    BY <1>2 DEF CurrentFacts
  <1>4. /\ r \in InvocationRows /\ r.retryOf = p /\ r.asked = inv[Current].asked
        /\ r.job = task /\ r.remote = "submitted" /\ r.sent = inv[Current].sent
        /\ r.status = inv[Current].status
    BY <1>2, <1>3 DEF CurrentFacts, InvocationRows
  <1> HIDE DEF r
  <1>5. /\ tasks' \in Seq({"unused", "working", "done", "failed"}) /\ Len(tasks) <= Len(tasks')
        /\ task' \in 0..Len(tasks') /\ r.job <= Len(tasks') /\ tasks' = tasks
    BY <1>1, <1>2, <1>3, <1>4 DEF CurrentFacts
  <1>6. running' /\ running' \in BOOLEAN /\ pc' \in Labels /\ pc' # "stage"
    BY <1>1, <1>2 DEF CurrentFacts, Labels
  <1>7. DoubtExplained(r)
    BY <1>4 DEF DoubtExplained
  <1>8. p # 0 /\ Resumable(p) => r.job = inv[p].job
    <2>1. pc = "receipt" /\ p # 0 => ~Resumable(p)
      BY DEF RemoteInv, WriterKnows
    <2>2. pc = "resume" => task = inv[p].job
      BY DEF RemoteInv, WriterKnows
    <2> QED
      BY <1>1, <1>4, <2>1, <2>2
  <1>9. p # 0 /\ r.sent => ~Resumable(p)
    BY <1>2, <1>4 DEF CurrentFacts, Chained
  <1>11. inv[Current].job \in {0, r.job}
    <2>1. pc = "receipt" /\ EarlyReceipt => inv[Current].job = r.job
      BY <1>4 DEF RemoteInv, WriterKnows
    <2>2. pc = "resume" \/ (pc = "receipt" /\ ~EarlyReceipt) => inv[Current].job = 0
      BY DEF RemoteInv, WriterKnows
    <2>3. inv[Current].job = r.job \/ inv[Current].job = 0
      BY <1>1, <2>1, <2>2
    <2> QED
      BY <2>3
  <1>12. TypeOK' /\ OpenIsLast' /\ Chains' /\ IdsRecorded'
    BY <1>1, <1>2, <1>4, <1>5, <1>6, <1>7, <1>8, <1>9, <1>11, CurrentStep
  <1>13. Len(inv') = Len(inv) /\ inv'[Current] = r
    BY <1>1, <1>2, <1>4, CurrentReplaced DEF CurrentFacts, RemoteInv
  <1>14. WriterKnows'
    BY <1>1, <1>2, <1>4, <1>6, <1>13 DEF WriterKnows, Working, CurrentFacts, Current
  <1> QED
    BY <1>12, <1>14 DEF RemoteInv

\* An answer of the service is recorded, and the call goes on.  Only Doubao's client keeps
\* polling a task whose last answer it recorded as "failed".
LEMMA AnswerStep ==
    ASSUME RemoteInv, pc = "query", NEW a \in {"completed", "pending", "failed"},
           Set("remote", a), pc' \in {"download", "rejected", "query"},
           a = "failed" => pc' = "rejected" \/ EarlyReceipt,
           UNCHANGED <<op, round, cancel, running, tasks, named, task>>
    PROVE  RemoteInv'
  <1> DEFINE r == [inv[Current] EXCEPT !.remote = a]
  <1>1. inv' = [inv EXCEPT ![Current] = r]
    BY SetRow
  <1>2. CurrentFacts /\ pc \in Working
    BY CurrentKnown DEF Working
  <1>4. /\ r \in InvocationRows /\ r.retryOf = inv[Current].retryOf /\ r.asked = inv[Current].asked
        /\ r.job = inv[Current].job /\ r.remote = a /\ r.sent = inv[Current].sent
        /\ r.remote # "none" /\ r.status = inv[Current].status
    BY <1>2 DEF CurrentFacts, InvocationRows
  <1> HIDE DEF r
  <1>5. /\ tasks' \in Seq({"unused", "working", "done", "failed"}) /\ Len(tasks) <= Len(tasks')
        /\ Len(tasks') = Len(tasks) /\ task' \in 0..Len(tasks')
    BY <1>2 DEF CurrentFacts
  <1>6. running' /\ running' \in BOOLEAN /\ pc' \in Labels /\ pc' # "stage"
    BY <1>2 DEF CurrentFacts, Labels
  <1>7. DoubtExplained(r)
    BY <1>2, <1>4 DEF CurrentFacts, DoubtExplained, Open
  <1>8. TypeOK' /\ OpenIsLast' /\ Chains' /\ IdsRecorded'
    BY <1>1, <1>2, <1>4, <1>5, <1>6, <1>7, SameTaskStep
  <1>9. Len(inv') = Len(inv) /\ inv'[Current] = r
    BY <1>1, <1>2, <1>4, CurrentReplaced DEF CurrentFacts, RemoteInv
  <1>10. WriterKnows'
    BY <1>2, <1>4, <1>6, <1>9 DEF WriterKnows, Working, CurrentFacts, Current, EarlyReceipt
  <1> QED
    BY <1>8, <1>10 DEF RemoteInv

-----------------------------------------------------------------------------
(* The invariant, and what follows from it.                                *)

\* Every step keeps the invariant.
LEMMA RemoteStep ==
    ASSUME RemoteInv, [Next]_vars
    PROVE  RemoteInv'
  <1>1. CASE Resume \/ RetryInvocation \/ RetryRun
    BY <1>1, EntrySteps
  <1>2. CASE RequestCancel \/ Crash \/ Refuse \/ (\E t \in DOMAIN tasks : TaskEnds(t))
             \/ UNCHANGED vars
    BY <1>2, QuietSteps
  <1>3. CASE Create
    BY <1>3, CreateStep
  <1>4. CASE Sending
    BY <1>4, SendingStep
  <1>5. CASE NotSent
    BY <1>5, FailStep DEF NotSent, Working, Failed
  <1>6. CASE Mint
    BY <1>6, MintStep
  <1>7. CASE PostAccepted
    BY <1>7, PostAcceptedStep
  <1>8. CASE PostLost
    BY <1>8, FailSentStep DEF PostLost, Failed
  <1>9. CASE PostCrash
    BY <1>9, PostCrashStep
  <1>10. CASE PostRefused
    BY <1>10, FailSentStep DEF PostRefused, Failed
  <1>11. CASE Receipt
    BY <1>11, ReceiptStep
  <1>12. CASE Query
    <2>1. PICK a \in Answers :
            Set("remote", a) /\ pc' = CASE a = "completed" -> "download"
                                        [] a = "failed"    -> "rejected"
                                        [] OTHER           -> "query"
      BY <1>12 DEF Query
    <2>2. a \in {"completed", "pending", "failed"}
      BY DEF Answers
    <2>3. /\ pc = "query" /\ pc' \in {"download", "rejected", "query"}
          /\ a = "failed" => pc' = "rejected"
          /\ UNCHANGED <<op, round, cancel, running, tasks, named, task>>
      BY <1>12, <2>1, <2>2 DEF Query, callVars
    <2> QED
      BY <2>1, <2>2, <2>3, AnswerStep
  <1>16. CASE QueryWithoutCode
    <2>1. /\ pc = "query" /\ pc' = "query" /\ Set("remote", "failed") /\ EarlyReceipt
          /\ UNCHANGED <<op, round, cancel, running, tasks, named, task>>
      BY <1>16 DEF QueryWithoutCode, EarlyReceipt, callVars
    <2> QED
      BY <2>1, AnswerStep
  <1>13. CASE QueryFails
    BY <1>13, FailStep DEF QueryFails, Working, Failed
  <1>14. CASE Rejected
    BY <1>14, FailStep DEF Rejected, Working, Failed
  <1>15. CASE Finish
    BY <1>15, FailStep DEF Finish, Working, Failed
  <1> QED
    BY <1>1, <1>2, <1>3, <1>4, <1>5, <1>6, <1>7, <1>8, <1>9, <1>10, <1>11, <1>12, <1>13, <1>14,
       <1>15, <1>16 DEF Next

\* The chain of attempts is as the invariant says, however many attempts, rounds and crashes.
LEMMA RemoteInvariant == Spec => []RemoteInv
  BY RemoteInit, RemoteStep, PTL DEF Spec

\* Rows, tasks and the writer's locals stay well formed, and every recorded id names a task.
THEOREM RemoteTypes == Spec => []TypeOK
  <1>1. RemoteInv => TypeOK
    BY DEF RemoteInv
  <1> QED
    BY <1>1, RemoteInvariant, PTL

\* Whatever the program submits by itself continues an attempt whose id is known, whose
\* delivery is in doubt and whose last answer was recorded as "failed"; and the process died
\* in that attempt before it acted on the answer, or it is Doubao's client, which need not
\* act on it.  No other attempt in doubt is ever sent again unasked.
THEOREM PaysWhenAllowed == Spec => []PostsAuthorised
  <1>1. RemoteInv => PostsAuthorised
    <2> SUFFICES ASSUME RemoteInv, NEW i \in DOMAIN inv, Unasked(i)
                 PROVE  LET p == inv[i].retryOf IN
                        /\ p # 0 /\ inv[p].job # 0 /\ inv[p].status = "delivery_ambiguous"
                        /\ inv[p].remote = "failed" /\ (inv[p].died \/ EarlyReceipt)
      BY DEF PostsAuthorised, EarlyReceipt
    <2> DEFINE p == inv[i].retryOf
    <2>1. /\ Len(inv) \in Nat /\ DOMAIN inv = 1..Len(inv)
          /\ \A j \in DOMAIN inv : inv[j] \in InvocationRows
      BY RowsTyped DEF RemoteInv
    <2>2. p \in Nat /\ p < i
      BY <2>1 DEF RemoteInv, TypeOK, InvocationRows
    <2>3. Chained(i)
      BY DEF RemoteInv, Chains
    <2>4. p # 0 /\ inv[p].job # 0 /\ inv[p].status = "delivery_ambiguous" /\ ~Resumable(p)
      BY <2>3 DEF Chained, Unasked
    <2>5. p \in DOMAIN inv
      BY <2>1, <2>2, <2>4
    <2>6. inv[p].remote # "none" /\ DoubtExplained(inv[p])
      BY <2>4, <2>5 DEF RemoteInv, Chains, Chained
    <2>7. inv[p].remote = "failed"
      BY <2>1, <2>4, <2>5, <2>6 DEF Resumable, InvocationRows
    <2> QED
      BY <2>4, <2>6, <2>7 DEF DoubtExplained
  <1> QED
    BY <1>1, RemoteInvariant, PTL

\* A retry of an attempt whose task was not recorded as failed, or whose submission under a
\* known id is in doubt, queries that very task.
THEOREM RetriesQuery == Spec => []RetryQueries
  <1>1. RemoteInv => RetryQueries
    <2> SUFFICES ASSUME RemoteInv, NEW i \in DOMAIN inv, inv[i].retryOf # 0,
                        Live(inv[i].retryOf) \/ InDoubt(inv[i].retryOf)
                 PROVE  ~inv[i].sent /\ inv[i].job \in {0, inv[inv[i].retryOf].job}
      BY DEF RetryQueries
    <2>1. Chained(i)
      BY DEF RemoteInv, Chains
    <2>2. Resumable(inv[i].retryOf)
      BY DEF Live, InDoubt, Resumable
    <2>3. inv[i].sent \in BOOLEAN
      BY RowsTyped DEF RemoteInv, InvocationRows
    <2> QED
      BY <2>1, <2>2, <2>3 DEF Chained
  <1> QED
    BY <1>1, RemoteInvariant, PTL

\* Doubao: the service never works on a task no row knows, wherever the process died.
THEOREM NoTaskIsOrphaned == Spec => []NoOrphanTask
  <1>1. RemoteInv => NoOrphanTask
    BY DEF RemoteInv, IdsRecorded, NoOrphanTask
  <1> QED
    BY <1>1, RemoteInvariant, PTL

=============================================================================
