------------------------------ MODULE RemoteJob ------------------------------
(***************************************************************************)
(* One paid remote operation of one Run (Qwen ASR, Doubao ASR or ATA): the *)
(* chain of its invocations, the task ids they record                      *)
(* (provider_control, Registry.update_remote_job), the rules that decide   *)
(* whether an attempt submits a new task or queries a known one            *)
(* (run_runtime._retry_identity, _new_invocation, bind_control), and the   *)
(* service that runs the tasks.  Every accepted submission is paid for.    *)
(* The process may die between any two steps; requests may be refused,     *)
(* lost, or answered after the client stopped listening.                   *)
(*                                                                         *)
(* The inputs of the operation are the same in every round here; RunEngine *)
(* covers what happens when they are not.                                  *)
(***************************************************************************)
EXTENDS Naturals, Sequences

CONSTANTS
    MaxAttempts,   \* bound: invocations of the operation
    MaxRounds,     \* bound: execution rounds
    Operations     \* the operations an instance explores

ASSUME AttemptsAssumption ==
    /\ MaxAttempts \in Nat /\ MaxRounds \in Nat \ {0}
    /\ Operations \subseteq {"qwen_asr", "doubao_asr", "ata"}

Failed == {"explicit_failure", "definitely_not_sent", "delivery_ambiguous"}

VARIABLES
    op,        \* the operation; it never changes
    round,     \* the current execution round
    cancel,    \* its cancellation flag
    running,   \* the Run's status is "running"
    inv,       \* invocations: [status, round, retryOf, job, remote], and three histories:
               \* sent, its submission left the process; asked, a user asked for it;
               \* died, the process died in it while it was sending
    tasks,     \* ids ever made: "unused", "working", "done" or "failed"
    pc,        \* the next step of the writer
    named,     \* the invocation an explicit retry names, 0 if none
    task       \* the task id the provider client holds, 0 if none

callVars == <<named, task>>
vars == <<op, round, cancel, running, inv, tasks, pc, callVars>>

Init ==
    /\ op \in Operations
    /\ round = 1 /\ cancel = FALSE /\ running = FALSE
    /\ inv = <<>> /\ tasks = <<>>
    /\ pc = "idle" /\ named = 0 /\ task = 0

EarlyReceipt == op = "doubao_asr"    \* the client makes the id, and records it first

Current == Len(inv)
Latest  == IF \E i \in DOMAIN inv : inv[i].round = round THEN Len(inv) ELSE 0
Succeeded == \E i \in DOMAIN inv : inv[i].status = "succeeded" /\ inv[i].round = round

-----------------------------------------------------------------------------
(* Entries.                                                                *)

\* Mutant: a call the crash interrupted keeps the status of the Run.
RecoveredAsRun(i) ==
    IF inv[i].status \in {"created", "sending"}
    THEN [inv[i] EXCEPT !.status = "interrupted"] ELSE inv[i]

Recovered(i) ==
    CASE inv[i].status = "created" -> [inv[i] EXCEPT !.status = "definitely_not_sent"]
      [] inv[i].status = "sending" -> [inv[i] EXCEPT !.status = "delivery_ambiguous", !.died = TRUE]
      [] OTHER                     -> inv[i]

\* recover_running_source_runs, at every entry, before anything else.
Recover ==
    inv' = IF running THEN [i \in DOMAIN inv |-> Recovered(i)] ELSE inv

\* resume_run: no new round, no invocation is named.
Resume ==
    /\ pc = "idle" /\ ~Succeeded
    /\ Recover
    /\ pc' = "stage" /\ running' = TRUE /\ named' = 0
    /\ UNCHANGED <<op, round, cancel, tasks, task>>

\* retry_invocation: the user names the latest failed attempt of the round.
RetryInvocation ==
    /\ pc = "idle" /\ ~Succeeded /\ Latest # 0
    /\ Recover
    /\ inv'[Latest].status \in Failed
    /\ pc' = "stage" /\ running' = TRUE /\ named' = Latest
    /\ UNCHANGED <<op, round, cancel, tasks, task>>

\* retry_run: a new round; nothing in it has been tried yet.
RetryRun ==
    /\ pc = "idle" /\ ~Succeeded /\ round < MaxRounds
    /\ Recover
    /\ round' = round + 1 /\ cancel' = FALSE
    /\ pc' = "stage" /\ running' = TRUE /\ named' = 0
    /\ UNCHANGED <<op, tasks, task>>

RequestCancel ==
    /\ pc # "idle" /\ ~cancel
    /\ cancel' = TRUE
    /\ UNCHANGED <<op, round, running, inv, tasks, pc, callVars>>

\* The writer dies wherever it is.
Crash ==
    /\ pc # "idle"
    /\ pc' = "idle" /\ named' = 0 /\ task' = 0
    /\ UNCHANGED <<op, round, cancel, running, inv, tasks>>

-----------------------------------------------------------------------------
(* The stage.                                                              *)

\* Mutant: any attempt whose delivery is open may go on by itself.
BlockedUnlessAmbiguous ==
    Latest # 0 /\ Latest # named /\ inv[Latest].status # "delivery_ambiguous"

\* _retry_identity: an attempt of this round that failed blocks the stage, unless the
\* user names it, or its task is known and its delivery open.
Blocked ==
    /\ Latest # 0 /\ Latest # named
    /\ ~(inv[Latest].job # 0 /\ inv[Latest].status = "delivery_ambiguous")

\* _new_invocation: a first attempt of a round looks through all rounds for a task whose
\* delivery is open.
OpenTasks == {i \in DOMAIN inv : inv[i].job # 0 /\ inv[i].status = "delivery_ambiguous"}
Newest(S) == CHOOSE i \in S : \A j \in S : j <= i
Predecessor == IF Latest # 0 THEN Latest
               ELSE IF OpenTasks # {} THEN Newest(OpenTasks) ELSE 0

\* The Run stops: the call's failure, the block or the cancellation reaches _fail_run.
Stop == pc' = "idle" /\ running' = FALSE /\ named' = 0 /\ task' = 0

\* Blocked, cancelled, or the provider's factory or the presigned URL failed.
Refuse ==
    /\ pc = "stage"
    /\ Stop
    /\ UNCHANGED <<op, round, cancel, inv, tasks>>

Create ==
    /\ pc = "stage" /\ ~Blocked /\ ~cancel /\ Len(inv) < MaxAttempts
    /\ inv' = Append(inv, [status |-> "created", round |-> round, retryOf |-> Predecessor,
                           job |-> 0, remote |-> "none", sent |-> FALSE,
                           asked |-> Latest # 0 => named = Latest, died |-> FALSE])
    /\ pc' = "created"
    /\ UNCHANGED <<op, round, cancel, running, tasks, callVars>>

Set(field, value) == inv' = [inv EXCEPT ![Current][field] = value]

\* Mutant: a task that was still pending when the call ended is not queried again.
ResumableButPending(i) ==
    \/ inv[i].remote \in {"submitted", "completed"}
    \/ inv[i].remote = "submitting" /\ inv[i].status = "delivery_ambiguous"

\* bind_control: which predecessors hand their task id on.
Resumable(i) ==
    \/ inv[i].remote \in {"submitted", "pending", "completed"}
    \/ inv[i].remote = "submitting" /\ inv[i].status = "delivery_ambiguous"

Sending ==
    /\ pc = "created"
    /\ Set("status", "sending")
    /\ LET p == inv[Current].retryOf IN
       IF p # 0 /\ Resumable(p)
       THEN task' = inv[p].job /\ pc' = "resume"
       ELSE task' = 0 /\ pc' = "submit"
    /\ UNCHANGED <<op, round, cancel, running, tasks, named>>

\* _record_invocation_failure.
FailWith(status) == Set("status", status) /\ Stop
FailSent(status) ==
    inv' = [inv EXCEPT ![Current].status = status, ![Current].sent = TRUE] /\ Stop

\* Missing credentials, and the checkpoint before the submission.
NotSent ==
    /\ pc \in {"submit", "resume"}
    /\ \/ FailWith("definitely_not_sent")
       \/ pc = "submit" /\ cancel /\ FailWith("delivery_ambiguous")
    /\ UNCHANGED <<op, round, cancel, tasks>>

\* Mutant: the id is recorded with the answer, as the other services do it.
MintLate ==
    /\ pc = "submit" /\ ~cancel /\ EarlyReceipt
    /\ tasks' = Append(tasks, "unused") /\ task' = Len(tasks) + 1
    /\ pc' = "post"
    /\ UNCHANGED <<op, round, cancel, running, inv, named>>

\* Doubao: the request id is made and recorded before the request is sent.
Mint ==
    /\ pc = "submit" /\ ~cancel /\ EarlyReceipt
    /\ tasks' = Append(tasks, "unused") /\ task' = Len(tasks) + 1
    /\ inv' = [inv EXCEPT ![Current].job = Len(tasks) + 1, ![Current].remote = "submitting"]
    /\ pc' = "post"
    /\ UNCHANGED <<op, round, cancel, running, named>>

\* The request is sent; the service takes it, or not.
Accept ==
    IF EarlyReceipt THEN tasks' = [tasks EXCEPT ![task] = "working"]
                    ELSE tasks' = Append(tasks, "working")
CanPost == pc = IF EarlyReceipt THEN "post" ELSE "submit"

\* The answer arrives and holds the id.  Doubao's client made the id itself and takes an
\* answer without a code for an acceptance.
PostAccepted ==
    /\ CanPost /\ (EarlyReceipt \/ ~cancel)
    /\ Accept \/ (EarlyReceipt /\ UNCHANGED tasks)
    /\ task' = IF EarlyReceipt THEN task ELSE Len(tasks) + 1
    /\ Set("sent", TRUE) /\ pc' = "receipt"
    /\ UNCHANGED <<op, round, cancel, running, named>>

\* No answer arrives, whether the service took the request or not.
PostLost ==
    /\ CanPost /\ (EarlyReceipt \/ ~cancel)
    /\ Accept \/ UNCHANGED tasks
    /\ FailSent("delivery_ambiguous")
    /\ UNCHANGED <<op, round, cancel>>

\* The process dies while it waits for the answer: the task exists, nobody knows its id.
PostCrash ==
    /\ CanPost /\ (EarlyReceipt \/ ~cancel)
    /\ Accept /\ Set("sent", TRUE)
    /\ pc' = "idle" /\ named' = 0 /\ task' = 0
    /\ UNCHANGED <<op, round, cancel, running>>

\* The answer is an error, or holds no usable id, also of a request that was taken.
PostRefused ==
    /\ CanPost /\ (EarlyReceipt \/ ~cancel)
    /\ Accept \/ UNCHANGED tasks
    /\ FailSent("explicit_failure")
    /\ UNCHANGED <<op, round, cancel>>

\* receipt(task_id, "submitted"): right after the answer, and first thing of a resumption.
Receipt ==
    /\ pc \in {"resume", "receipt"}
    /\ inv' = [inv EXCEPT ![Current].job = task, ![Current].remote = "submitted"]
    /\ pc' = "query"
    /\ UNCHANGED <<op, round, cancel, running, tasks, callVars>>

\* What the client records of an answer.  ATA's and Doubao's clients record every code they
\* do not know as "failed", Qwen's a status "UNKNOWN", whatever the service does with the task.
Answers == {"failed"} \cup (CASE tasks[task] = "done"    -> {"completed"}
                              [] tasks[task] = "working" -> {"pending"}
                              [] OTHER                   -> {})

\* One round of _poll: the answer is recorded, then acted on.
Query ==
    /\ pc = "query" /\ ~cancel
    /\ \E answer \in Answers :
         /\ Set("remote", answer)
         /\ pc' = CASE answer = "completed" -> "download"
                    [] answer = "failed"    -> "rejected"
                    [] OTHER                -> "query"
    /\ UNCHANGED <<op, round, cancel, running, tasks, callVars>>

\* Doubao: an answer without a code is recorded as "failed" and is no error; polling
\* goes on until the deadline.
QueryWithoutCode ==
    /\ pc = "query" /\ ~cancel /\ op = "doubao_asr"
    /\ Set("remote", "failed")
    /\ UNCHANGED <<op, round, cancel, running, tasks, pc, callVars>>

\* The query is cancelled, lost, past its deadline, or answered with an HTTP error.
QueryFails ==
    /\ pc = "query"
    /\ \/ FailWith("delivery_ambiguous")
       \/ ~cancel /\ FailWith("explicit_failure")
    /\ UNCHANGED <<op, round, cancel, tasks>>

Rejected ==
    /\ pc = "rejected" /\ FailWith("explicit_failure")
    /\ UNCHANGED <<op, round, cancel, tasks>>

\* The result is fetched, parsed and published with the invocation, or one of them fails.
Finish ==
    /\ pc = "download"
    /\ \E s \in {"succeeded", "explicit_failure", "delivery_ambiguous"} : FailWith(s)
    /\ UNCHANGED <<op, round, cancel, tasks>>

\* External: the service works on its tasks at its own pace.  That a task has ended shows
\* in its answers only, so it may as well end while the client asks.
TaskEnds(t) ==
    /\ pc = "query" /\ t = task /\ tasks[t] = "working"
    /\ \E s \in {"done", "failed"} : tasks' = [tasks EXCEPT ![t] = s]
    /\ UNCHANGED <<op, round, cancel, running, inv, pc, callVars>>

Next ==
    \/ Resume \/ RetryInvocation \/ RetryRun \/ RequestCancel \/ Crash
    \/ Refuse \/ Create \/ Sending \/ NotSent \/ Mint
    \/ PostAccepted \/ PostLost \/ PostCrash \/ PostRefused
    \/ Receipt \/ Query \/ QueryWithoutCode \/ QueryFails \/ Rejected \/ Finish
    \/ \E t \in DOMAIN tasks : TaskEnds(t)

Spec == Init /\ [][Next]_vars

-----------------------------------------------------------------------------
(* Properties.                                                             *)

Labels == {"idle", "stage", "created", "submit", "resume", "post", "receipt", "query", "rejected",
           "download"}

\* Rows, tasks and the writer's locals are well formed; every id names an existing task.
TypeOK ==
    /\ op \in Operations /\ round \in 1..MaxRounds
    /\ cancel \in BOOLEAN /\ running \in BOOLEAN
    /\ inv \in Seq([status : {"created", "sending", "succeeded"} \cup Failed,
                    round : 1..MaxRounds, retryOf : Nat, job : Nat,
                    remote : {"none", "submitting", "submitted", "pending", "completed",
                              "failed"},
                    sent : BOOLEAN, asked : BOOLEAN, died : BOOLEAN])
    /\ \A i \in DOMAIN inv : inv[i].retryOf < i /\ inv[i].job <= Len(tasks)
    /\ tasks \in Seq({"unused", "working", "done", "failed"})
    /\ pc \in Labels
    /\ named \in 0..Len(inv) /\ task \in 0..Len(tasks)

\* What the program submits by itself, without being asked.  It continues an attempt whose
\* id is known, whose delivery is in doubt and whose last answer was recorded as "failed";
\* and either the process died before it acted on that answer, or Doubao's client does not
\* act on it.  So a request in doubt is never sent again while its id is unknown, or while
\* the last word was that it is taken, pending or done (_retry_identity, bind_control).
Unasked(i) == inv[i].sent /\ ~inv[i].asked
PostsAuthorised ==
    \A i \in DOMAIN inv : Unasked(i) =>
        LET p == inv[i].retryOf IN
        /\ p # 0 /\ inv[p].job # 0 /\ inv[p].status = "delivery_ambiguous"
        /\ inv[p].remote = "failed" /\ (inv[p].died \/ op = "doubao_asr")

\* docs/failure-model.md: what ended without a completion marker, in doubt or past its
\* deadline is not retried automatically.  So nothing is submitted without being asked for.
DoubtNotRetried == \A i \in DOMAIN inv : ~Unasked(i)

\* A retry whose predecessor holds a task whose last recorded word is not a failure, or an
\* id whose submission is in doubt, queries that task; it never pays for another.
Live(i) == inv[i].remote \in {"submitted", "pending", "completed"}
InDoubt(i) == inv[i].remote = "submitting" /\ inv[i].status = "delivery_ambiguous"
RetryQueries ==
    \A i \in DOMAIN inv :
        inv[i].retryOf # 0 /\ (Live(inv[i].retryOf) \/ InDoubt(inv[i].retryOf)) =>
            /\ ~inv[i].sent
            /\ inv[i].job \in {0, inv[inv[i].retryOf].job}

\* Doubao: whatever the service works on is known to the Registry, even if the process
\* died before the answer.
NoOrphanTask ==
    EarlyReceipt =>
        \A t \in DOMAIN tasks : tasks[t] # "unused" =>
            \E i \in DOMAIN inv : inv[i].job = t

\* docs/v0.5.4-design.md: delivery recovery of a known remote task only queries its id.
\* So no later attempt submits while an earlier one's delivery is open and its task known.
KnownTaskQueried ==
    \A i, j \in DOMAIN inv :
        i < j /\ Live(i) /\ inv[i].status = "delivery_ambiguous" => ~inv[j].sent

=============================================================================
