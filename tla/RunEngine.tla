------------------------------ MODULE RunEngine ------------------------------
(***************************************************************************)
(* One CueFlow Run: the Registry rows it owns (runs, execution_rounds,     *)
(* invocations, artifacts, run_checkpoints, current_pointers,              *)
(* reference_preparations) and the single writer process that executes the *)
(* subtitle pipeline over them (orchestrator._execute and its entry        *)
(* points).  Every action is one durable transaction or one answer of a    *)
(* provider; the process may die between any two of them, and a client may *)
(* request cancellation, without the writer lock, between any two of them. *)
(*                                                                         *)
(* Abstractions.  An artifact is its content identity: kind, scope, direct *)
(* inputs, a mark for what else distinguishes two contents of a kind (the  *)
(* round that _save hashes into the producer, or the invocation whose      *)
(* response it holds) and the part of its payload the control flow reads.  *)
(* The input_digest of a checkpoint is a function of run, config, stage,   *)
(* scope and round only, so it is the index of cp.  runs.status and the    *)
(* status of the current execution_rounds row are written together by      *)
(* every transaction that writes either, so they are one variable.         *)
(***************************************************************************)
EXTENDS Naturals, Sequences, FiniteSets

CONSTANTS
    Batches,     \* the selection batches a merge plan may need
    Oversized,   \* conflicting cases too large for any selection request
    Refs,        \* the Reference files frozen at intake
    MaxRounds,   \* bound: execution rounds of the Run
    MaxFaults,   \* bound: crashes, failures and cancellations
    Faulty       \* which of them an instance explores (see FaultClasses)

SharedStages == {"media_probe", "timeline_audio", "media_object", "base_asr",
                 "peer_asr", "asr_comparison"}

RoundStages == {"job_input", "correction_transcript", "merge_plan",
                "selection_batch", "selection_result", "edit_resolution",
                "review_queue", "review_resolution", "transcript",
                "ata_response", "ata_result", "srt_render"}

Kinds == SharedStages \cup RoundStages
Arms  == {"qwen", "kimi"}

G(kind) == <<kind, "global">>

Keys == {G(k) : k \in Kinds \ {"correction_transcript", "selection_batch",
                               "selection_result"}}
        \cup {<<"correction_transcript", a>> : a \in Arms}
        \cup ({"selection_batch", "selection_result"} \X Batches)

\* lifecycle.DOWNSTREAM: which kinds are computed directly from a kind.
Downstream(kind) ==
    CASE kind = "job_input"             -> {"correction_transcript"}
      [] kind = "media_probe"           -> {"timeline_audio"}
      [] kind = "timeline_audio"        -> {"media_object"}
      [] kind = "media_object"          -> {"base_asr", "peer_asr", "ata_response"}
      [] kind \in {"base_asr", "peer_asr"} -> {"asr_comparison"}
      [] kind = "asr_comparison"        -> {"correction_transcript"}
      [] kind = "correction_transcript" -> {"merge_plan"}
      [] kind = "merge_plan"            -> {"selection_batch", "edit_resolution"}
      [] kind = "selection_batch"       -> {"selection_result"}
      [] kind = "selection_result"      -> {"edit_resolution"}
      [] kind = "edit_resolution"       -> {"review_queue", "review_resolution",
                                            "transcript"}
      [] kind = "transcript"            -> {"ata_response"}
      [] kind = "ata_response"          -> {"ata_result"}
      [] kind = "ata_result"            -> {"srt_render"}
      [] OTHER                          -> {}

\* lifecycle.descendants: everything reachable in one or more edges.  Each use of Twice
\* doubles the length of the paths covered; the longest path has 13 edges.
Twice(t) == [k \in Kinds |-> t[k] \cup UNION {t[j] : j \in t[k]}]
DescendantTable == Twice(Twice(Twice(Twice([k \in Kinds |-> Downstream(k)]))))

Descendants(roots) == UNION {DescendantTable[k] : k \in roots}

\* Kinds whose pointers a publication marks stale, per published kind.
TextStages == {"correction_transcript", "merge_plan", "selection_batch",
               "selection_result", "edit_resolution", "review_queue"}
TailStages == {"ata_response", "ata_result", "srt_render"}

StaleTargets(kind) ==
    CASE kind = "job_input"      -> TextStages \cup TailStages
                                    \cup {"review_resolution", "transcript"}
      [] kind = "timeline_audio" -> TextStages \cup TailStages
                                    \cup {"media_object", "base_asr", "peer_asr",
                                          "asr_comparison", "review_resolution",
                                          "transcript"}
      [] kind = "media_object"   -> {"base_asr", "peer_asr", "asr_comparison"}
                                    \cup TailStages
      [] kind \in {"base_asr", "peer_asr"} ->
                 {"asr_comparison", "transcript"} \cup TextStages \cup TailStages
      [] kind = "asr_comparison" -> {"transcript"} \cup TextStages \cup TailStages
      [] kind = "ata_response"   -> {"ata_result", "srt_render"}
      [] OTHER                   -> {}

RemoteOps == {"qwen_asr", "doubao_asr", "ata"}   \* task id, resumable by query
ArmOp(a)  == IF a = "qwen" THEN "qwen_correction" ELSE "kimi_correction"

Ops == RemoteOps \cup {"media_upload", "qwen_correction", "kimi_correction",
                       "glm_selection"}

\* lifecycle.OPERATIONS and the scope part of logical_operation_key.
ResultKind(op) ==
    CASE op = "media_upload" -> "media_object"
      [] op = "qwen_asr"     -> "base_asr"
      [] op = "doubao_asr"   -> "peer_asr"
      [] op \in {"qwen_correction", "kimi_correction"} -> "correction_transcript"
      [] op = "glm_selection" -> "selection_result"
      [] op = "ata"          -> "ata_response"

FaultClasses == Ops \cup {"crash", "cancel", "local", "reference"}

ASSUME BoundsAssumption ==
    /\ MaxRounds \in Nat \ {0}
    /\ MaxFaults \in Nat
    /\ Faulty \subseteq FaultClasses

Terminal       == {"succeeded", "failed", "cancelled", "interrupted"}
FailedStatuses == {"explicit_failure", "definitely_not_sent", "delivery_ambiguous"}
NoResult       == [status |-> "none", srt |-> 0]
NoSlot         == [inv |-> 0, tries |-> 0]
Slots          == {"main"} \cup Arms
Rounds         == 1..MaxRounds

VARIABLES
    \* durable: the Registry
    round,      \* runs.execution_round
    status,     \* status of each round; "none" before the round exists
    cancel,     \* execution_rounds.cancellation_requested
    result,     \* execution_rounds.result_json
    bound,      \* runs.source_asset_id and config_hash are set
    inv,        \* invocations, in creation order
    art,        \* artifacts, in creation order; an id is a position
    cp,         \* run_checkpoints: round (0 = shared) -> key -> id, 0 = no row
    ptr,        \* current_pointers: key -> id and is_stale
    prep,       \* reference_preparations of each round
    \* the writer process
    pc,         \* the next step of the writer, "idle" when nobody holds the lock
    exc,        \* the exception on its way to _fail_run
    retryOf,    \* the invocation named by retry_invocation, 0 if none
    slot,       \* call in flight and automatic retries: main thread, two arms
    todo,       \* batches _selection_stage has not visited yet
    unsel,      \* batches it could not decide
    \* the environment
    faults      \* crashes, failures and cancellations so far

rowVars   == <<round, status, cancel, result, bound>>
dataVars  == <<art, cp, ptr>>
localVars == <<retryOf, slot, todo, unsel>>
vars == <<rowVars, inv, dataVars, prep, pc, exc, localVars, faults>>

-----------------------------------------------------------------------------
(* Registry primitives.                                                    *)

\* Registry.round_number: shared stages live in round 0.
RoundOf(kind) == IF kind \in SharedStages THEN 0 ELSE round
Cp(key)       == cp[RoundOf(key[1])][key]
RunStatus     == status[round]

Artifact(key, deps, mark, body) ==
    [kind |-> key[1], scope |-> key[2], deps |-> deps, mark |-> mark, body |-> body]
KeyOf(a) == <<a.kind, a.scope>>

\* Content addressing: publishing the same content again yields the same id.
With(s, a) == IF \E i \in DOMAIN s : s[i] = a THEN s ELSE Append(s, a)
IdIn(s, a) == IF \E i \in DOMAIN s : s[i] = a
              THEN CHOOSE i \in DOMAIN s : s[i] = a
              ELSE Len(s) + 1

\* Registry._stale and Registry._activate, as functions on the pointers.
Stale(p, kinds) ==
    [k \in Keys |-> IF k[1] \in kinds THEN [p[k] EXCEPT !.stale = TRUE] ELSE p[k]]
Activate(p, ids) ==
    [k \in Keys |-> IF k \in DOMAIN ids THEN [id |-> ids[k], stale |-> FALSE] ELSE p[k]]
Only(key, id) == [k \in {key} |-> id]

Bind(key, id) == cp' = [cp EXCEPT ![RoundOf(key[1])][key] = id]
BindAll(ids) ==
    cp' = [cp EXCEPT ![round] = [k \in Keys |-> IF k \in DOMAIN ids THEN ids[k]
                                                ELSE cp[round][k]]]

\* publish_artifact with make_current and no checkpoint.
PublishOnly(a) ==
    /\ art' = With(art, a)
    /\ ptr' = Activate(Stale(ptr, StaleTargets(a.kind)),
                       Only(KeyOf(a), IdIn(art, a)))

\* publish_artifact with a checkpoint: artifact, pointers, checkpoint in one transaction.
Publish(a) == PublishOnly(a) /\ Bind(KeyOf(a), IdIn(art, a))

\* orchestrator._save: the producer config carries the round of the kind.
Saved(key, deps, body) == Artifact(key, deps, RoundOf(key[1]), body)

SetStatus(s) == status' = [status EXCEPT ![round] = s]

\* The job_input frozen at intake (runs.job_input_artifact_id): no prepared Reference yet.
OriginalJob   == Artifact(G("job_input"), {}, 0, {})
OriginalJobId == IdIn(art, OriginalJob)

-----------------------------------------------------------------------------
(* Writer control.                                                         *)

Goto(l)  == pc' = l /\ exc' = exc
Raise(e) == pc' = "fail" /\ exc' = e
Fault(class) == class \in Faulty /\ faults < MaxFaults /\ faults' = faults + 1
Cancelled == cancel[round]

\* The lock is released and every local of the call is gone.
Release ==
    /\ pc' = "idle" /\ exc' = "none" /\ retryOf' = 0
    /\ slot' = [s \in Slots |-> NoSlot] /\ todo' = {} /\ unsel' = {}

Init ==
    /\ round = 1
    /\ status = [r \in Rounds |-> IF r = 1 THEN "queued" ELSE "none"]
    /\ cancel = [r \in Rounds |-> FALSE]
    /\ result = [r \in Rounds |-> NoResult]
    /\ bound = FALSE
    /\ inv = <<>> /\ art = <<>>
    /\ cp = [r \in 0..MaxRounds |-> [k \in Keys |-> 0]]
    /\ ptr = [k \in Keys |-> [id |-> 0, stale |-> TRUE]]
    /\ prep = [r \in Rounds |-> [f \in Refs |-> "none"]]
    /\ pc = "idle" /\ exc = "none" /\ retryOf = 0
    /\ slot = [s \in Slots |-> NoSlot] /\ todo = {} /\ unsel = {}
    /\ faults = 0

-----------------------------------------------------------------------------
(* The environment: a control process that cancels, and process death.     *)

\* lifecycle.request_cancel: its own connection, no writer lock.
RequestCancel ==
    /\ RunStatus \notin Terminal /\ ~Cancelled
    /\ Fault("cancel")
    /\ cancel' = [cancel EXCEPT ![round] = TRUE]
    /\ UNCHANGED <<round, status, result, bound, inv, dataVars, prep, pc, exc,
                   localVars>>

\* The writer dies: the OS drops its lock, only the Registry survives.
Crash ==
    /\ pc # "idle"
    /\ Fault("crash")
    /\ Release
    /\ UNCHANGED <<rowVars, inv, dataVars, prep>>

-----------------------------------------------------------------------------
(* Entry points.                                                           *)

Commands == {"intake", "resume", "retry_run", "retry_inv", "review"}

\* Mutants: recovery forgets "created"; recovery touches failures already settled;
\* recovery gives the calls the status of the Run.
RecoveredAsRun(i) ==
    IF inv[i].status \in {"created", "sending"}
    THEN [inv[i] EXCEPT !.status = "interrupted"] ELSE inv[i]
RecoveredMissesCreated(i) ==
    IF inv[i].status = "sending"
    THEN [inv[i] EXCEPT !.status = "delivery_ambiguous"] ELSE inv[i]
RecoveredTouchesSettled(i) ==
    IF inv[i].status = "succeeded" THEN inv[i]
    ELSE [inv[i] EXCEPT !.status = "delivery_ambiguous"]

\* single_writer, then recover_running_source_runs before anything is decided.
Recovered(i) ==
    CASE inv[i].status = "created" -> [inv[i] EXCEPT !.status = "definitely_not_sent"]
      [] inv[i].status = "sending" -> [inv[i] EXCEPT !.status = "delivery_ambiguous"]
      [] OTHER                     -> inv[i]

Recover ==
    IF RunStatus = "running"
    THEN inv' = [i \in DOMAIN inv |-> Recovered(i)] /\ SetStatus("interrupted")
    ELSE UNCHANGED <<inv, status>>

Enter(c) ==
    /\ pc = "idle"
    /\ c = "retry_run" => round < MaxRounds
    /\ Recover
    /\ pc' = c
    /\ UNCHANGED <<round, cancel, result, bound, dataVars, prep, exc, localVars, faults>>

\* _initialize_inputs: publish the job_input, bind the Run to its inputs, bind the
\* checkpoint; run_project then executes, initialize_inputs returns.
IntakeJob ==
    /\ pc = "intake" /\ ~bound
    /\ PublishOnly(OriginalJob)
    /\ Goto("intakeBind")
    /\ UNCHANGED <<rowVars, inv, cp, prep, localVars, faults>>

IntakeBind ==
    /\ pc = "intakeBind"
    /\ bound' = TRUE
    /\ Goto("intakeCheckpoint")
    /\ UNCHANGED <<round, status, cancel, result, inv, dataVars, prep, localVars, faults>>

IntakeCheckpoint ==
    /\ pc = "intakeCheckpoint"
    /\ Bind(G("job_input"), OriginalJobId)
    /\ \E l \in {"start", "idle"} : Goto(l)
    /\ UNCHANGED <<rowVars, inv, art, ptr, prep, localVars, faults>>

ResumeRun ==
    /\ pc = "resume"
    /\ bound /\ RunStatus # "succeeded"
    /\ Goto("start")
    /\ UNCHANGED <<rowVars, inv, dataVars, prep, localVars, faults>>

\* The latest attempt of each logical operation of the current round.
Attempts(op, scope) ==
    {i \in DOMAIN inv : inv[i].op = op /\ inv[i].scope = scope /\ inv[i].round = round}
Last(S) == CHOOSE i \in S : \A j \in S : j <= i
IsLatest(i) == inv[i].round = round /\ i = Last(Attempts(inv[i].op, inv[i].scope))

Failures == {i \in DOMAIN inv : IsLatest(i) /\ inv[i].status # "succeeded"}
FailedKeys == {<<ResultKind(inv[i].op), inv[i].scope>> : i \in Failures}
FailedRefs == {f \in Refs : prep[round][f] = "unavailable"}

\* Mutants: only direct successors of a failed stage are dropped; a round that failed
\* without a failed call is blamed on ATA; the render is no stage of the pipeline.
ExcludedKeepsRender ==
    (Descendants({ResultKind(inv[i].op) : i \in Failures})
     \cup IF Failures = {} /\ FailedRefs = {} /\ RunStatus = "succeeded"
          THEN {"correction_transcript"} \cup Descendants({"correction_transcript"})
          ELSE {}) \ {"srt_render"}
ExcludedDirect == UNION {Downstream(ResultKind(inv[i].op)) : i \in Failures}
ExcludedBlamesAta ==
    Descendants({ResultKind(inv[i].op) : i \in Failures})
    \cup IF Failures = {} THEN {"ata_response"} \cup Descendants({"ata_response"}) ELSE {}

\* begin_retry: the kinds the next round must not inherit.
Excluded ==
    Descendants({ResultKind(inv[i].op) : i \in Failures})
    \cup IF Failures = {} /\ FailedRefs = {} /\ RunStatus = "succeeded"
         THEN {"correction_transcript"} \cup Descendants({"correction_transcript"})
         ELSE {}

RetryRun ==
    /\ pc = "retry_run"
    /\ bound /\ RunStatus \notin {"queued", "running"}
    /\ round' = round + 1
    /\ status' = [status EXCEPT ![round + 1] = "queued"]
    /\ cp' = [cp EXCEPT ![round + 1] =
                [k \in Keys |-> IF k[1] \in Excluded \/ k \in FailedKeys
                                THEN 0 ELSE cp[round][k]]]
    /\ ptr' = Stale(ptr, Excluded)
    /\ Goto("start")
    /\ UNCHANGED <<cancel, result, bound, inv, art, prep, localVars, faults>>

Sealed(id)  == art[id].body = {}
SealedFinal == Cp(G("edit_resolution")) # 0 /\ Sealed(Cp(G("edit_resolution")))

RetryInvocation ==
    /\ pc = "retry_inv"
    /\ bound /\ RunStatus # "succeeded"
    /\ \E i \in DOMAIN inv :
        /\ IsLatest(i) /\ inv[i].status \in FailedStatuses
        /\ inv[i].op = "glm_selection" => ~SealedFinal
        /\ retryOf' = i
    /\ Goto("start")
    /\ UNCHANGED <<rowVars, inv, dataVars, prep, slot, todo, unsel, faults>>

\* Mutant: the decisions are matched by their ids, not by the queue they were read from.
ReviewAcceptedByIds(q) ==
    /\ Cp(G("review_queue")) # 0 /\ ~Sealed(Cp(G("review_queue")))
    /\ ~Sealed(Cp(G("edit_resolution")))

\* resolve_review with the queue q the reviewer read: the decisions cover q's items.
ReviewAccepted(q) ==
    /\ q = Cp(G("review_queue")) /\ ~Sealed(q)
    /\ Cp(G("edit_resolution")) \in art[q].deps
    /\ ~Sealed(Cp(G("edit_resolution")))

Queues == {i \in DOMAIN art : art[i].kind = "review_queue"}

ResolveReview ==
    /\ pc = "review"
    /\ bound /\ RunStatus # "succeeded"
    /\ \E q \in Queues :
        /\ ReviewAccepted(q)
        /\ art[q].body = art[Cp(G("review_queue"))].body
        /\ LET base   == Cp(G("base_asr"))
               review == Saved(G("review_resolution"), {q, base}, {})
               art1   == With(art, review)
               final  == Saved(G("edit_resolution"),
                               {base, Cp(G("merge_plan")), Cp(G("edit_resolution")),
                                IdIn(art, review)}, {})
               art2   == With(art1, final)
               queue  == Saved(G("review_queue"), {IdIn(art1, final)}, {})
               ids    == [k \in {G("review_resolution"), G("edit_resolution"),
                                 G("review_queue")} |->
                            CASE k = G("review_resolution") -> IdIn(art, review)
                              [] k = G("edit_resolution")   -> IdIn(art1, final)
                              [] k = G("review_queue")      -> IdIn(art2, queue)]
           IN  /\ art' = With(art2, queue)
               /\ ptr' = Activate(ptr, ids)
               /\ BindAll(ids)
    /\ Goto("start")
    /\ UNCHANGED <<rowVars, inv, prep, localVars, faults>>

\* A command whose preconditions fail raises ContractError (and resume of a succeeded
\* Run only repairs its local projections): the Registry is left as recovery left it.
Refuse ==
    /\ pc \in Commands
    /\ Release
    /\ UNCHANGED <<rowVars, inv, dataVars, prep, faults>>

-----------------------------------------------------------------------------
(* _execute: status, progress and local stages.                            *)

SetRunning ==
    /\ pc = "start"
    /\ SetStatus("running")
    /\ Goto("preparing")
    /\ UNCHANGED <<round, cancel, result, bound, inv, dataVars, prep, localVars, faults>>

\* lifecycle.progress at each phase boundary: stop here if cancellation was requested.
AfterProgress ==
    [preparing |-> "job", asr |-> "base", correction |-> "qwen", reviewing |-> "plan",
     aligning |-> "ata", exporting |-> "result"]

Progress ==
    /\ pc \in DOMAIN AfterProgress
    /\ IF Cancelled THEN Raise("cancel") ELSE Goto(AfterProgress[pc])
    /\ UNCHANGED <<rowVars, inv, dataVars, prep, localVars, faults>>

\* A round without its own job_input checkpoint starts from the one frozen at intake.
JobStage ==
    /\ pc = "job"
    /\ IF Cp(G("job_input")) # 0
       THEN UNCHANGED cp
       ELSE Bind(G("job_input"), OriginalJobId)
    /\ Goto("media")
    /\ UNCHANGED <<rowVars, inv, art, ptr, prep, localVars, faults>>

\* prepare_media: both envelopes are stored without pointers, then activated together.
Probe    == Artifact(G("media_probe"), {}, 0, {})
Timeline == Artifact(G("timeline_audio"), {IdIn(art, Probe)}, 0, {})
TimelineId == IdIn(With(art, Probe), Timeline)

MediaReuse ==
    /\ pc = "media" /\ Cp(G("timeline_audio")) # 0
    /\ IF Cp(G("media_probe")) = 0 THEN Raise("integrity") ELSE Goto("upload")
    /\ UNCHANGED <<rowVars, inv, dataVars, prep, localVars, faults>>

MediaPrepare ==
    /\ pc = "media" /\ Cp(G("timeline_audio")) = 0
    /\ art' = With(With(art, Probe), Timeline)
    /\ ptr' = Activate(Stale(ptr, StaleTargets("timeline_audio")),
                       [k \in {G("media_probe"), G("timeline_audio")} |->
                          IF k = G("media_probe") THEN IdIn(art, Probe) ELSE TimelineId])
    /\ Goto("bindProbe")
    /\ UNCHANGED <<rowVars, inv, cp, prep, localVars, faults>>

BindMedia ==
    /\ \/ pc = "bindProbe" /\ Bind(G("media_probe"), IdIn(art, Probe))
          /\ Goto("bindTimeline")
       \/ pc = "bindTimeline" /\ Bind(G("timeline_audio"), TimelineId)
          /\ Goto("upload")
    /\ UNCHANGED <<rowVars, inv, art, ptr, prep, localVars, faults>>

\* _comparison publishes, _bind checkpoints it in a second transaction.
Comparison == Artifact(G("asr_comparison"), {Cp(G("base_asr")), Cp(G("peer_asr"))}, 0, {})

Compare ==
    /\ pc = "compare"
    /\ IF Cp(G("asr_comparison")) # 0
       THEN UNCHANGED <<art, ptr>> /\ Goto("refs")
       ELSE PublishOnly(Comparison) /\ Goto("bindCompare")
    /\ UNCHANGED <<rowVars, inv, cp, prep, localVars, faults>>

BindCompare ==
    /\ pc = "bindCompare"
    /\ Bind(G("asr_comparison"), IdIn(art, Comparison))
    /\ Goto("refs")
    /\ UNCHANGED <<rowVars, inv, art, ptr, prep, localVars, faults>>

\* prepare_references: one row per Reference and round; an available one is immutable,
\* an unavailable one is tried again once per round.
RefRows(f)    == {r \in 1..round : prep[r][f] # "none"}
RefReady(f)   == RefRows(f) # {} /\ prep[Last(RefRows(f))][f] = "available"
PrepRow(f) == round                      \* execution_round of the inserted row

UnpreparedRefs == {f \in Refs : prep[round][f] = "none"}
PreparedRefs   == {f \in Refs : prep[round][f] = "available"}

PrepareReference ==
    /\ pc = "refs" /\ UnpreparedRefs # {} /\ ~Cancelled
    /\ LET f == CHOOSE f \in UnpreparedRefs : TRUE IN
        \/ /\ prep' = [prep EXCEPT ![PrepRow(f)][f] = "available"]
           /\ UNCHANGED faults
        \/ /\ ~RefReady(f)
           /\ Fault("reference")
           /\ prep' = [prep EXCEPT ![PrepRow(f)][f] = "unavailable"]
    /\ UNCHANGED <<rowVars, inv, dataVars, pc, exc, localVars>>

ReferencesPrepared ==
    /\ pc = "refs"
    /\ \/ Cancelled /\ Refs # {} /\ Raise("cancel")
       \/ UnpreparedRefs = {} /\ (Cancelled => Refs = {}) /\ Goto("effective")
    /\ UNCHANGED <<rowVars, inv, dataVars, prep, localVars, faults>>

\* Mutants: only a lost Reference counts as a change; every entry counts as one.
RefsAlways == Refs # {}
RefsLost == ~(art[Cp(G("job_input"))].body \subseteq PreparedRefs)

\* A changed effective Reference set invalidates the job_input and all it feeds.
RefsChanged == art[Cp(G("job_input"))].body # PreparedRefs
EffectiveJob == Artifact(G("job_input"), {}, 0, PreparedRefs)

SameReferences ==
    /\ pc = "effective" /\ ~RefsChanged
    /\ Goto("correction")
    /\ UNCHANGED <<rowVars, inv, dataVars, prep, localVars, faults>>

Invalidate ==
    /\ pc = "effective" /\ RefsChanged
    /\ LET stages == {"job_input"} \cup Descendants({"job_input"}) IN
        /\ cp' = [cp EXCEPT
                    ![0] = [k \in Keys |-> IF k[1] \in stages \cap SharedStages
                                           THEN 0 ELSE cp[0][k]],
                    ![round] = [k \in Keys |-> IF k[1] \in stages \ SharedStages
                                               THEN 0 ELSE cp[round][k]]]
        /\ ptr' = Stale(ptr, stages)
    /\ Goto("publishJob")
    /\ UNCHANGED <<rowVars, inv, art, prep, localVars, faults>>

PublishJob ==
    /\ pc = "publishJob"
    /\ PublishOnly(EffectiveJob)
    /\ Goto("bindJob")
    /\ UNCHANGED <<rowVars, inv, cp, prep, localVars, faults>>

BindJob ==
    /\ pc = "bindJob"
    /\ Bind(G("job_input"), IdIn(art, EffectiveJob))
    /\ Goto("correction")
    /\ UNCHANGED <<rowVars, inv, art, ptr, prep, localVars, faults>>

-----------------------------------------------------------------------------
(* Paid calls.  The main thread owns every invocation row: it creates the  *)
(* row, commits "sending", waits, and commits the answer.  The two         *)
(* correction arms wait in pool threads and are collected by the main      *)
(* thread; everything else waits in the main thread itself.                *)

MainCall == [upload |-> "media_upload", base |-> "qwen_asr", peer |-> "doubao_asr",
             select |-> "glm_selection", ata |-> "ata"]
AfterCall == [upload |-> "asr", base |-> "peer", peer |-> "compare", ata |-> "activate"]

Batch == CHOOSE b \in todo : TRUE           \* _selection_stage's current batch
CallScope == IF pc = "select" THEN Batch ELSE "global"
CallKey   == <<ResultKind(MainCall[pc]), CallScope>>

\* The ordered inputs frozen into the invocation.
Inputs(op, scope) ==
    CASE op = "media_upload" -> {Cp(G("timeline_audio"))}
      [] op \in {"qwen_asr", "doubao_asr"} -> {Cp(G("media_object")), OriginalJobId}
      [] op \in {"qwen_correction", "kimi_correction"} ->
            {Cp(G("base_asr")), Cp(G("peer_asr")), Cp(G("job_input")),
             Cp(G("asr_comparison"))}
      [] op = "glm_selection" -> {Cp(<<"selection_batch", scope>>)}
      [] op = "ata" -> {Cp(G("media_object")), Cp(G("transcript"))}

\* _retry_identity.
Broken(op, scope) ==
    LET tried == Attempts(op, scope) IN
    tried # {} /\ inv[Last(tried)].status = "succeeded"
NeedsExplicitRetry(op, scope) ==
    LET tried == Attempts(op, scope)
        last  == Last(tried)
    IN  /\ tried # {} /\ inv[last].status # "succeeded"
        /\ \/ last # retryOf /\ ~(inv[last].remote /\ inv[last].status = "delivery_ambiguous")
           \/ inv[last].status \notin FailedStatuses

\* The attempt a new invocation continues: the failed one of this round, or for a
\* remote task the newest one of any round whose delivery is still unknown.
OpenTasks(op) ==
    {i \in DOMAIN inv : inv[i].op = op /\ inv[i].remote
                        /\ inv[i].status = "delivery_ambiguous"}

\* Mutant: a repeated call is a new call.
PredecessorForgotten(op, scope) == 0

Predecessor(op, scope) ==
    IF Attempts(op, scope) # {} THEN Last(Attempts(op, scope))
    ELSE IF /\ op \in RemoteOps /\ OpenTasks(op) # {}
            /\ inv[Last(OpenTasks(op))].inputs = Inputs(op, scope)
         THEN Last(OpenTasks(op)) ELSE 0
ChangedIdentity(op, scope) ==
    LET p == Predecessor(op, scope) IN p # 0 /\ inv[p].inputs # Inputs(op, scope)

NewInvocation(op, scope, s, previous, tries) ==
    /\ inv' = Append(inv, [op |-> op, scope |-> scope, status |-> "created",
                           round |-> round, retryOf |-> previous,
                           inputs |-> Inputs(op, scope), remote |-> FALSE, art |-> 0])
    /\ slot' = [slot EXCEPT ![s] = [inv |-> Len(inv) + 1, tries |-> tries]]

\* The batch goes to review; any other stage lets the error reach _fail_run.
StageError(e) ==
    IF pc = "select"
    THEN /\ unsel' = unsel \cup {Batch} /\ todo' = todo \ {Batch}
         /\ UNCHANGED <<pc, exc>>
    ELSE Raise(e) /\ UNCHANGED <<unsel, todo>>

CallPending == /\ pc \in DOMAIN MainCall /\ slot["main"].inv = 0
               /\ pc = "select" => todo # {} /\ Cp(<<"selection_batch", Batch>>) # 0

\* _stage with a checkpoint: nothing is called.
CallReuse ==
    /\ CallPending /\ Cp(CallKey) # 0
    /\ IF pc = "select"
       THEN todo' = todo \ {Batch} /\ UNCHANGED <<pc, exc>>
       ELSE Goto(AfterCall[pc]) /\ UNCHANGED todo
    /\ UNCHANGED <<rowVars, inv, dataVars, prep, retryOf, slot, unsel, faults>>

\* _stage without one, refused before an invocation exists: by _retry_identity, by
\* the provider's factory or the presigned URL, or by check_cancellation.
CallRefused ==
    /\ CallPending /\ Cp(CallKey) = 0
    /\ LET op == MainCall[pc] IN
        \/ Broken(op, CallScope) /\ Raise("integrity") /\ UNCHANGED <<todo, unsel, faults>>
        \/ NeedsExplicitRetry(op, CallScope) /\ StageError("provider") /\ UNCHANGED faults
        \/ /\ ~Broken(op, CallScope) /\ ~NeedsExplicitRetry(op, CallScope)
           /\ \/ Fault(op) /\ StageError("provider")
              \/ Cancelled /\ Raise("cancel") /\ UNCHANGED <<todo, unsel, faults>>
              \/ /\ ~Cancelled /\ ChangedIdentity(op, CallScope)
                 /\ Raise("integrity") /\ UNCHANGED <<todo, unsel, faults>>
    /\ UNCHANGED <<rowVars, inv, dataVars, prep, retryOf, slot>>

CallBegin ==
    /\ CallPending /\ Cp(CallKey) = 0 /\ ~Cancelled
    /\ LET op == MainCall[pc] IN
        /\ ~Broken(op, CallScope) /\ ~NeedsExplicitRetry(op, CallScope)
        /\ ~ChangedIdentity(op, CallScope)
        /\ NewInvocation(op, CallScope, "main", Predecessor(op, CallScope), 0)
    /\ UNCHANGED <<rowVars, dataVars, prep, pc, exc, retryOf, todo, unsel, faults>>

\* _correction_transcripts, first loop: one arm after the other is submitted; whatever
\* stops one arm is remembered and the other is still submitted.
AfterArm   == [qwen |-> "kimi", kimi |-> "collect"]
ArmKey(a)  == <<"correction_transcript", a>>
FirstError(e) == IF exc = "none" THEN e ELSE exc

ArmReuse ==
    /\ pc \in Arms /\ slot[pc].inv = 0 /\ Cp(ArmKey(pc)) # 0
    /\ Goto(AfterArm[pc])
    /\ UNCHANGED <<rowVars, inv, dataVars, prep, localVars, faults>>

\* Mutant: the loop over the arms does not move on after an error.
ArmRefusedStays ==
    /\ pc \in Arms /\ slot[pc].inv = 0 /\ Cp(ArmKey(pc)) = 0
    /\ NeedsExplicitRetry(ArmOp(pc), pc) /\ exc' = FirstError("provider")
    /\ UNCHANGED <<rowVars, inv, dataVars, prep, pc, localVars, faults>>

ArmRefused ==
    /\ pc \in Arms /\ slot[pc].inv = 0 /\ Cp(ArmKey(pc)) = 0
    /\ LET op == ArmOp(pc) IN
        \/ Broken(op, pc) /\ exc' = FirstError("integrity") /\ UNCHANGED faults
        \/ NeedsExplicitRetry(op, pc) /\ exc' = FirstError("provider") /\ UNCHANGED faults
        \/ /\ ~Broken(op, pc) /\ ~NeedsExplicitRetry(op, pc)
           /\ \/ Fault(op) /\ exc' = FirstError("provider")
              \/ Cancelled /\ exc' = FirstError("cancel") /\ UNCHANGED faults
              \/ /\ ~Cancelled /\ ChangedIdentity(op, pc)
                 /\ exc' = FirstError("integrity") /\ UNCHANGED faults
    /\ pc' = AfterArm[pc]
    /\ UNCHANGED <<rowVars, inv, dataVars, prep, localVars>>

ArmBegin ==
    /\ pc \in Arms /\ slot[pc].inv = 0 /\ Cp(ArmKey(pc)) = 0 /\ ~Cancelled
    /\ LET op == ArmOp(pc) IN
        /\ ~Broken(op, pc) /\ ~NeedsExplicitRetry(op, pc) /\ ~ChangedIdentity(op, pc)
        /\ NewInvocation(op, pc, pc, Predecessor(op, pc), 0)
    /\ UNCHANGED <<rowVars, dataVars, prep, pc, exc, retryOf, todo, unsel, faults>>

\* What an occupied slot is doing.
Active   == pc \in DOMAIN MainCall \cup Arms \cup {"collect"}
Doing(s) == IF slot[s].inv = 0 THEN "nothing" ELSE inv[slot[s].inv].status

\* The invocation is committed as "sending" before the provider is called.
MarkSending(s) ==
    /\ Active /\ Doing(s) = "created"
    /\ inv' = [inv EXCEPT ![slot[s].inv].status = "sending"]
    /\ IF pc \in Arms THEN Goto(AfterArm[pc]) ELSE UNCHANGED <<pc, exc>>
    /\ UNCHANGED <<rowVars, dataVars, prep, localVars, faults>>

\* The provider's answer can be handled: the main thread waits in its own call or in
\* wait(pending), and is not in the middle of submitting another attempt.
Answered(s) ==
    /\ Doing(s) = "sending"
    /\ pc \in DOMAIN MainCall \cup {"collect"}
    /\ \A t \in Slots : Doing(t) \notin {"created", "explicit_failure"}

\* provider_control.receipt: a remote task id becomes durable before the result.
Receipt ==
    /\ Answered("main")
    /\ LET i == slot["main"].inv IN
        /\ inv[i].op \in RemoteOps /\ ~inv[i].remote
        /\ inv' = [inv EXCEPT ![i].remote = TRUE]
    /\ UNCHANGED <<rowVars, dataVars, prep, pc, exc, localVars, faults>>

\* _succeed_with_metadata: artifact, pointers, checkpoint and invocation commit together.
Succeed(s) ==
    /\ Answered(s)
    /\ LET i   == slot[s].inv
           key == <<ResultKind(inv[i].op), inv[i].scope>>
           a   == Artifact(key,
                           inv[i].inputs \cup IF inv[i].op = "ata"
                                              THEN {Cp(G("timeline_audio"))} ELSE {},
                           i, {})
       IN  /\ inv[i].op \in RemoteOps => inv[i].remote
           /\ Publish(a)
           /\ inv' = [inv EXCEPT ![i].status = "succeeded", ![i].art = IdIn(art, a)]
    /\ slot' = [slot EXCEPT ![s] = NoSlot]
    /\ todo' = IF pc = "select" THEN todo \ {Batch} ELSE todo
    /\ IF pc \in DOMAIN AfterCall THEN Goto(AfterCall[pc]) ELSE UNCHANGED <<pc, exc>>
    /\ UNCHANGED <<rowVars, prep, retryOf, unsel, faults>>

\* _record_invocation_failure, and where the exception goes next.
RecordFailure(s, st) ==
    /\ inv' = [inv EXCEPT ![slot[s].inv].status = st]
    /\ slot' = [slot EXCEPT ![s] = NoSlot]

\* The provider fails: unavailable before delivery, an explicit refusal, or silence.
CallFails(s, st) ==
    /\ Answered(s)
    /\ Fault(inv[slot[s].inv].op)
    /\ st = "definitely_not_sent" => ~inv[slot[s].inv].remote
    /\ RecordFailure(s, st)
    /\ IF s = "main"
       THEN StageError("provider")
       ELSE exc' = FirstError("provider") /\ UNCHANGED <<pc, todo, unsel>>
    /\ UNCHANGED <<rowVars, dataVars, prep, retryOf>>

\* provider_control.checkpoint notices the cancellation while the call is in flight.
CallCancelled(s) ==
    /\ Answered(s) /\ Cancelled /\ inv[slot[s].inv].op # "media_upload"
    /\ RecordFailure(s, "delivery_ambiguous")
    /\ IF s = "main" THEN Raise("cancel") ELSE exc' = FirstError("cancel") /\ pc' = pc
    /\ UNCHANGED <<rowVars, dataVars, prep, retryOf, todo, unsel, faults>>

\* A completed response that violates the output contract (CompletedResponseError) of a
\* correction arm or a selection batch is retried once, automatically.
CompletedInvalid(s) ==
    /\ Answered(s) /\ slot[s].tries = 0
    /\ inv[slot[s].inv].op \notin RemoteOps \cup {"media_upload"}
    /\ Fault(inv[slot[s].inv].op)
    /\ inv' = [inv EXCEPT ![slot[s].inv].status = "explicit_failure"]
    /\ UNCHANGED <<rowVars, dataVars, prep, pc, exc, localVars>>

Resubmit(s) ==
    /\ Active /\ Doing(s) = "explicit_failure" /\ ~Cancelled
    /\ LET i == slot[s].inv IN NewInvocation(inv[i].op, inv[i].scope, s, i, 1)
    /\ UNCHANGED <<rowVars, dataVars, prep, pc, exc, retryOf, todo, unsel, faults>>

\* The second submission is outside every handler of the collect loop: an error of its
\* factory, its presigned URLs or its cancellation check leaves the loop at once.
ResubmitFails(s) ==
    /\ Active /\ Doing(s) = "explicit_failure"
    /\ \/ Cancelled /\ Raise("cancel") /\ UNCHANGED <<todo, unsel, faults>>
       \/ /\ Fault(inv[slot[s].inv].op)
          /\ StageError("provider")
    /\ slot' = [slot EXCEPT ![s] = NoSlot]
    /\ UNCHANGED <<rowVars, inv, dataVars, prep, retryOf>>

Collected ==
    /\ pc = "collect" /\ \A a \in Arms : slot[a].inv = 0
    /\ IF exc = "none" THEN Goto("reviewing") ELSE Raise(exc)
    /\ UNCHANGED <<rowVars, inv, dataVars, prep, localVars, faults>>

-----------------------------------------------------------------------------
(* Merge, selection, review gate.                                          *)

\* build_merge_plan: the batches of conflicting cases, and whether a case is too large
\* for any request; they depend on texts this model leaves open.
PlanStage ==
    /\ pc = "plan"
    /\ IF Cp(G("merge_plan")) # 0
       THEN UNCHANGED dataVars
       ELSE \E cases \in SUBSET (Batches \cup Oversized) :
              Publish(Saved(G("merge_plan"),
                            {Cp(G("base_asr")), Cp(G("peer_asr")),
                             Cp(ArmKey("qwen")), Cp(ArmKey("kimi"))}, cases))
    /\ Goto("resolve")
    /\ UNCHANGED <<rowVars, inv, prep, localVars, faults>>

Plan == art[Cp(G("merge_plan"))]

\* Mutant: a retry rebuilds the resolution even when it is sealed.
NeedsSelectionOnRetry == Cp(G("edit_resolution")) = 0 \/ retryOf # 0

\* An unsealed resolution is rebuilt only when a retry was asked for.
NeedsSelection ==
    LET final == Cp(G("edit_resolution"))
    IN  IF final = 0 THEN TRUE ELSE ~Sealed(final) /\ retryOf # 0

ResolveStage ==
    /\ pc = "resolve"
    /\ IF NeedsSelection
       THEN Goto("select") /\ todo' = Plan.body \cap Batches
       ELSE Goto("gate") /\ UNCHANGED todo
    /\ UNCHANGED <<rowVars, inv, dataVars, prep, retryOf, slot, unsel, faults>>

SaveBatch ==
    /\ pc = "select" /\ todo # {} /\ Cp(<<"selection_batch", Batch>>) = 0
    /\ Publish(Saved(<<"selection_batch", Batch>>, {Cp(G("merge_plan"))}, {}))
    /\ UNCHANGED <<rowVars, inv, prep, pc, exc, localVars, faults>>

\* _finalize_resolution_stage: the resolution and its review queue in one transaction.
Finalize ==
    /\ pc = "select" /\ todo = {}
    /\ LET visited  == Plan.body \cap Batches
           evidence == {Cp(<<"selection_batch", b>>) : b \in visited}
                       \cup {Cp(<<"selection_result", b>>) : b \in visited \ unsel}
           items == unsel \cup (Plan.body \cap Oversized)
           final == Saved(G("edit_resolution"),
                          {Cp(G("base_asr")), Cp(G("merge_plan"))} \cup evidence, items)
           art1  == With(art, final)
           queue == Saved(G("review_queue"), {IdIn(art, final)}, items)
           ids   == [k \in {G("edit_resolution"), G("review_queue")} |->
                       IF k = G("edit_resolution") THEN IdIn(art, final)
                       ELSE IdIn(art1, queue)]
       IN  /\ art' = With(art1, queue)
           /\ ptr' = Activate(ptr, ids)
           /\ BindAll(ids)
    /\ unsel' = {}
    /\ Goto("gate")
    /\ UNCHANGED <<rowVars, inv, prep, retryOf, slot, todo, faults>>

\* Mutant: the queue is written, but nobody waits for it.
GateAlwaysOpen == TRUE

\* An unsealed resolution parks the Run; nothing downstream may run.
GateOpen == Sealed(Cp(G("edit_resolution")))

ReviewGate ==
    /\ pc = "gate"
    /\ IF GateOpen
       THEN Goto("transcript") /\ UNCHANGED status
       ELSE /\ SetStatus("needs_review")
            /\ IF Cp(G("review_queue")) = 0 THEN Raise("integrity") ELSE Goto("snapshot")
    /\ UNCHANGED <<round, cancel, result, bound, inv, dataVars, prep, localVars, faults>>

SaveTranscript ==
    /\ pc = "transcript"
    /\ IF Cp(G("transcript")) # 0
       THEN UNCHANGED dataVars
       ELSE Publish(Saved(G("transcript"),
                          {Cp(G("base_asr")), Cp(G("edit_resolution"))}, {}))
    /\ Goto("aligning")
    /\ UNCHANGED <<rowVars, inv, prep, localVars, faults>>

-----------------------------------------------------------------------------
(* Export and terminal states.                                             *)

Exported == {G(k) : k \in SharedStages \cup {"job_input", "merge_plan", "edit_resolution",
                                             "transcript", "ata_response"}}
            \cup {ArmKey(a) : a \in Arms}

ActivateInputs ==
    /\ pc = "activate"
    /\ ptr' = Activate(ptr, [k \in Exported |-> Cp(k)])
    /\ Goto("exporting")
    /\ UNCHANGED <<rowVars, inv, art, cp, prep, localVars, faults>>

\* _publish_downstream: parse the raw response once, then make the result current.
SaveAtaResult ==
    /\ pc = "result"
    /\ IF Cp(G("ata_result")) # 0
       THEN UNCHANGED dataVars
       ELSE Publish(Saved(G("ata_result"),
                          {Cp(G("ata_response")), Cp(G("transcript")),
                           Cp(G("timeline_audio"))}, {}))
    /\ Goto("activateResult")
    /\ UNCHANGED <<rowVars, inv, prep, localVars, faults>>

ActivateResult ==
    /\ pc = "activateResult"
    /\ ptr' = Activate(ptr, Only(G("ata_result"), Cp(G("ata_result"))))
    /\ Goto("render")
    /\ UNCHANGED <<rowVars, inv, art, cp, prep, localVars, faults>>

\* export.validate_export_gate.
IsCurrent(id) == ptr[KeyOf(art[id])] = [id |-> id, stale |-> FALSE]

ExportGate ==
    LET ids      == {Cp(G(k)) : k \in {"timeline_audio", "transcript", "ata_response",
                                       "ata_result"}}
        response == art[Cp(G("ata_response"))]
        object   == Cp(G("media_object"))
    IN  /\ 0 \notin ids \cup {object}
        /\ \A id \in ids \cup {object} : IsCurrent(id)
        /\ \A e \in {d \in art[Cp(G("transcript"))].deps : art[d].kind = "edit_resolution"} :
              IsCurrent(e) /\ Sealed(e)
        /\ art[object].deps = {Cp(G("timeline_audio"))}
        /\ response.deps = {object, Cp(G("timeline_audio")), Cp(G("transcript"))}
        /\ art[Cp(G("ata_result"))].deps = {Cp(G("ata_response")), Cp(G("transcript")),
                                           Cp(G("timeline_audio"))}
        /\ inv[response.mark].op = "ata" /\ inv[response.mark].status = "succeeded"
        /\ inv[response.mark].art = Cp(G("ata_response"))
        /\ inv[response.mark].inputs = {object, Cp(G("transcript"))}

Srt == Artifact(G("srt_render"), {Cp(G("ata_result"))}, 0, {})

Render ==
    /\ pc = "render"
    /\ IF ExportGate
       THEN PublishOnly(Srt) /\ Goto("persist")
       ELSE Raise("integrity") /\ UNCHANGED <<art, ptr>>
    /\ UNCHANGED <<rowVars, inv, cp, prep, localVars, faults>>

\* publish_result up to its transaction: two objects are persisted, with a
\* cancellation check before, between and after them.
PersistOutputs ==
    /\ pc = "persist"
    /\ IF Cancelled THEN Raise("cancel") ELSE Goto("commit")
    /\ UNCHANGED <<rowVars, inv, dataVars, prep, localVars, faults>>

\* Mutant: the result is built before the SRT is known.
FreshResultEarly(s, srt) == [status |-> s, srt |-> 0]

FreshResult(s, srt) == [status |-> s, srt |-> srt]

\* Mutant: success is committed without looking at the flag again.
CommitNeverStops == FALSE

\* commit_result("succeeded"): the cancellation flag is read inside the transaction.
CommitStops == Cancelled

CommitSuccess ==
    /\ pc = "commit"
    /\ IF CommitStops
       THEN Raise("cancel") /\ UNCHANGED <<status, result>>
       ELSE /\ SetStatus("succeeded")
            /\ result' = [result EXCEPT ![round] =
                            FreshResult("succeeded", ptr[G("srt_render")].id)]
            /\ Goto("project")
    /\ UNCHANGED <<round, cancel, bound, inv, dataVars, prep, localVars, faults>>

\* project_result rewrites files the Registry can always rebuild.
ProjectResult ==
    /\ pc = "project"
    /\ Release
    /\ UNCHANGED <<rowVars, inv, dataVars, prep, faults>>

\* Errors of local work: ffmpeg or the source file, a changed Reference, an unreadable
\* ATA response, an unserialisable time, the object store, the local projection.
LocalSteps == {"media", "refs", "result", "render", "persist", "project"}

LocalFailure ==
    /\ pc \in LocalSteps
    /\ Fault("local")
    /\ Raise("provider")
    /\ UNCHANGED <<rowVars, inv, dataVars, prep, localVars>>

\* Mutant: every failure overwrites the status, a published success included.
FailRunAlways ==
    /\ pc = "fail"
    /\ SetStatus(IF exc = "cancel" THEN "cancelled" ELSE "failed")
    /\ Goto("failCommit")
    /\ UNCHANGED <<round, cancel, result, bound, inv, dataVars, prep, localVars, faults>>

\* _fail_run: the status first, then the result of the failed round.
FailRun ==
    /\ pc = "fail"
    /\ IF RunStatus \in {"succeeded", "needs_review"}
       THEN UNCHANGED status /\ Goto("snapshot")
       ELSE /\ SetStatus(IF exc = "cancel" THEN "cancelled" ELSE "failed")
            /\ Goto("failCommit")
    /\ UNCHANGED <<round, cancel, result, bound, inv, dataVars, prep, localVars, faults>>

FailCommit ==
    /\ pc = "failCommit"
    /\ result' = [result EXCEPT ![round] = FreshResult(RunStatus, 0)]
    /\ Goto("snapshot")
    /\ UNCHANGED <<round, status, cancel, bound, inv, dataVars, prep, localVars, faults>>

\* publish_terminal_snapshot: result_snapshot keeps a saved result of the same status.
Snapshot ==
    /\ pc = "snapshot"
    /\ result' = IF result[round].status = RunStatus
                 THEN result
                 ELSE [result EXCEPT ![round] = FreshResult(RunStatus, 0)]
    /\ Release
    /\ UNCHANGED <<round, status, cancel, bound, inv, dataVars, prep, faults>>

-----------------------------------------------------------------------------

EntrySteps ==
    \/ IntakeJob \/ IntakeBind \/ IntakeCheckpoint
    \/ ResumeRun \/ RetryRun \/ RetryInvocation \/ ResolveReview \/ Refuse

LocalStage ==
    \/ SetRunning \/ Progress \/ JobStage
    \/ MediaReuse \/ MediaPrepare \/ BindMedia
    \/ Compare \/ BindCompare
    \/ PrepareReference \/ ReferencesPrepared \/ SameReferences
    \/ Invalidate \/ PublishJob \/ BindJob
    \/ PlanStage \/ ResolveStage \/ SaveBatch \/ Finalize \/ ReviewGate
    \/ SaveTranscript

CallStep ==
    \/ CallReuse \/ CallRefused \/ CallBegin
    \/ ArmReuse \/ ArmRefused \/ ArmBegin
    \/ Receipt \/ Collected
    \/ \E s \in Slots :
         \/ MarkSending(s) \/ Succeed(s) \/ CallCancelled(s)
         \/ CompletedInvalid(s) \/ Resubmit(s) \/ ResubmitFails(s)
         \/ \E st \in FailedStatuses : CallFails(s, st)

ExportStep ==
    \/ ActivateInputs \/ SaveAtaResult \/ ActivateResult \/ Render
    \/ PersistOutputs \/ CommitSuccess \/ ProjectResult
    \/ LocalFailure \/ FailRun \/ FailCommit \/ Snapshot

Writer == EntrySteps \/ LocalStage \/ CallStep \/ ExportStep

Next ==
    \/ Writer
    \/ \E c \in Commands : Enter(c)
    \/ RequestCancel
    \/ Crash

\* A living writer keeps going: every wait of a provider has a deadline.
Fairness == WF_vars(Writer)

Spec == Init /\ [][Next]_vars /\ Fairness

-----------------------------------------------------------------------------
(* Properties.                                                             *)

Statuses    == {"none", "queued", "running", "needs_review"} \cup Terminal
InvStatuses == {"created", "sending", "succeeded"} \cup FailedStatuses
Scopes      == {"global"} \cup Arms \cup Batches
Labels      == Commands \cup LocalSteps \cup DOMAIN MainCall \cup DOMAIN AfterProgress
               \cup Arms
               \cup {"idle", "intakeBind", "intakeCheckpoint", "start", "job", "bindProbe",
                     "bindTimeline", "compare", "bindCompare", "effective", "publishJob",
                     "bindJob", "collect", "plan", "resolve", "gate", "transcript",
                     "activate", "activateResult", "commit", "fail", "failCommit",
                     "snapshot"}

InvocationRows == {i \in [op : Ops, scope : Scopes, status : InvStatuses, round : Rounds,
                          retryOf : Nat, inputs : SUBSET Nat, remote : BOOLEAN, art : Nat] :
                     i.op = "glm_selection" => i.scope \in Batches}
ArtifactRows   == [kind : Kinds, scope : Scopes, deps : SUBSET Nat, mark : Nat,
                   body : SUBSET (Batches \cup Oversized \cup Refs)]
Pointers       == [Keys -> [id : Nat, stale : BOOLEAN]]
Checkpoints    == [0..MaxRounds -> [Keys -> Nat]]

RowsOK ==
    /\ round \in Rounds
    /\ status \in [Rounds -> Statuses]
    /\ cancel \in [Rounds -> BOOLEAN]
    /\ result \in [Rounds -> [status : Statuses, srt : Nat]]
    /\ bound \in BOOLEAN
DataOK ==
    /\ inv \in Seq(InvocationRows)
    /\ art \in Seq(ArtifactRows)
    /\ cp \in Checkpoints
    /\ ptr \in Pointers
    /\ prep \in [Rounds -> [Refs -> {"none", "available", "unavailable"}]]
LocalsOK ==
    /\ pc \in Labels
    /\ exc \in {"none", "provider", "cancel", "integrity"}
    /\ retryOf \in Nat
    /\ slot \in [Slots -> [inv : Nat, tries : 0..1]]
    /\ todo \subseteq Batches /\ unsel \subseteq Batches
    /\ faults \in 0..MaxFaults

\* Every row, pointer and local of the writer keeps its type.
TypeOK == RowsOK /\ DataOK /\ LocalsOK

\* A cancellation that request_cancel accepted for a round is final: the round can end
\* in any way but success, whatever races with the last transaction.
CancelNeverSucceeds == \A r \in Rounds : cancel[r] => status[r] # "succeeded"

\* The integrity checks of the engine guard against damaged data only: no interleaving of
\* legal calls, crashes, failures and retries makes _retry_identity, _new_invocation,
\* _require or the export gate raise one.
NoIntegrityFailure == exc # "integrity"

\* The checkpoints of a round never mix rounds or inputs: whatever a checkpoint was
\* computed from is itself the checkpoint of that round (or the shared one).
CpIn(r, key) == cp[IF key[1] \in SharedStages THEN 0 ELSE r][key]
RoundCoherent ==
    \A r \in 1..round : \A k \in Keys :
        LET id == CpIn(r, k) IN
        /\ id # 0 => id \in DOMAIN art /\ KeyOf(art[id]) = k
        /\ id # 0 /\ k[1] \in {"correction_transcript", "merge_plan", "selection_batch",
                               "selection_result", "transcript", "ata_response", "ata_result"}
           => \A d \in art[id].deps : CpIn(r, KeyOf(art[d])) = d
        /\ id # 0 /\ k[1] = "review_queue"
           => art[id].deps = {CpIn(r, G("edit_resolution"))}

\* What the current pointers offer as the subtitle's last stages is never built from
\* something superseded: their inputs are current, too.
TailKeys == {G(k) : k \in TailStages \cup {"transcript"}}
TailCurrent ==
    \A k \in TailKeys :
        ~ptr[k].stale => \A d \in art[ptr[k].id].deps : IsCurrent(d)

\* A succeeded round names an SRT made from that round's own ATA result, and the current
\* round's is what repair_completed_result finds behind the pointer.
SuccessExport ==
    \A r \in Rounds :
        status[r] = "succeeded" =>
            /\ result[r].status = "succeeded"
            /\ result[r].srt \in DOMAIN art
            /\ art[result[r].srt].kind = "srt_render"
            /\ art[result[r].srt].deps = {CpIn(r, G("ata_result"))}
            /\ r = round => ptr[G("srt_render")] = [id |-> result[r].srt, stale |-> FALSE]

\* Every paid result that was committed is still a checkpoint of the round that paid for
\* it: no invalidation, crash or retry loses it.
PaidResultsKept ==
    \A i \in DOMAIN inv :
        inv[i].status = "succeeded" =>
            CpIn(inv[i].round, <<ResultKind(inv[i].op), inv[i].scope>>) = inv[i].art

\* The shared stages are paid for once per Run, and ATA once per sealed transcript.
PaidOnce ==
    \A i, j \in DOMAIN inv :
        (/\ i < j /\ inv[i].op = inv[j].op
         /\ inv[i].status = "succeeded" /\ inv[j].status = "succeeded")
        => /\ ResultKind(inv[i].op) \notin SharedStages
           /\ inv[i].op = "ata" => inv[i].inputs # inv[j].inputs
           /\ inv[i].scope = inv[j].scope => inv[i].round # inv[j].round

\* Within a round a second attempt at an operation always continues the failed attempt
\* before it, with the same frozen inputs: an ancestor is never retried twice and no
\* call is repeated silently.
RetryChains ==
    \A i, j \in DOMAIN inv :
        (/\ i < j /\ inv[i].op = inv[j].op /\ inv[i].scope = inv[j].scope
         /\ inv[i].round = inv[j].round
         /\ \A m \in i+1..j-1 : inv[m].op # inv[i].op \/ inv[m].scope # inv[i].scope)
        => /\ inv[j].retryOf = i
           /\ inv[j].inputs = inv[i].inputs
           /\ inv[i].status \in FailedStatuses

\* Review not cleared, selection not finished or resolution not sealed: no ATA call.
AtaOnlySealed ==
    \A i \in DOMAIN inv :
        inv[i].op = "ata" =>
            \A t \in {d \in inv[i].inputs : art[d].kind = "transcript"} :
                \E e \in art[t].deps : art[e].kind = "edit_resolution" /\ Sealed(e)

\* A human decision is applied to exactly the resolution whose queue the reviewer read.
HumanDecisions ==
    \A e \in DOMAIN art :
        \A v \in {d \in art[e].deps : art[e].kind = "edit_resolution"
                                      /\ art[d].kind = "review_resolution"} :
            \A q \in {d \in art[v].deps : art[d].kind = "review_queue"} :
                art[q].deps \subseteq art[e].deps

\* Both arms of a round read exactly the References that round could prepare.
CorrectionsUseRefs ==
    \A i \in DOMAIN inv :
        \A j \in {d \in inv[i].inputs : ResultKind(inv[i].op) = "correction_transcript"
                                        /\ art[d].kind = "job_input"} :
            art[j].body = {f \in Refs : prep[inv[i].round][f] = "available"}

\* Outside the correction arms, a call is settled before its writer lets go: an open
\* invocation belongs to a round that recovery will still find running.
Open(i) == inv[i].status \in {"created", "sending"}
CallsSettled ==
    \A i \in DOMAIN inv :
        Open(i) /\ ResultKind(inv[i].op) # "correction_transcript"
            => status[inv[i].round] = "running"

\* Action properties.

\* Rounds before the current one are history: no step changes their status, cancellation,
\* result, checkpoints or Reference rows, and no step changes a settled invocation.
EarlierRoundsFrozen ==
    [][/\ \A r \in 1..round - 1 :
            /\ status'[r] = status[r] /\ cancel'[r] = cancel[r] /\ result'[r] = result[r]
            /\ cp'[r] = cp[r] /\ prep'[r] = prep[r]
       /\ \A i \in DOMAIN inv : ~Open(i) => inv'[i] = inv[i]]_vars

\* A sealed resolution is never decided again in its round; only a wider set of usable
\* References, found before any call of the round, may drop a carried one.
SealedStays ==
    [][SealedFinal /\ round' = round =>
         \/ cp'[round][G("edit_resolution")] = cp[round][G("edit_resolution")]
         \/ cp'[round][G("edit_resolution")] = 0 /\ Attempts("qwen_correction", "qwen") = {}
      ]_vars

\* Liveness.

\* A writer that stays alive lets go of the Run: no retry, review or cancellation path
\* loops or waits for ever.
WriterStops == pc # "idle" ~> pc = "idle"

\* The engine, seen from outside, behaves as RunContract promises.
Contract == INSTANCE RunContract
            WITH result <- [r \in Rounds |-> result[r].status]
ContractHolds == Contract!Spec

\* Claims of the documentation that the code does not keep.

\* docs/failure-model.md: one arm failing, the other's completed result is still collected
\* and saved.  So no call stays open once its round has ended.
BothArmsCollected == \A i \in DOMAIN inv : Open(i) => status[inv[i].round] = "running"

\* docs/v0.5.4-design.md, retry table: after a failed ATA the new round reuses the
\* corrections, the merge and the sealed transcript.
AtaRetryReuses ==
    [][round' = round + 1 /\ (\E i \in Failures : inv[i].op = "ata")
         => cp'[round'][G("transcript")] = cp[round][G("transcript")]]_vars

=============================================================================
