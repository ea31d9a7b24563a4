-------------------------- MODULE RunArtifactProofs --------------------------
(***************************************************************************)
(* Artifacts, checkpoints and pointers of one Run, for any batches,        *)
(* References, rounds and faults.  ArtInv is the inductive invariant: what *)
(* is stored is stored once and stays (StoreInv), the References of a      *)
(* round are settled before any call reads them (JobInv), the writer is    *)
(* only where the checkpoints it reads exist (PlaceInv), and what a call   *)
(* was asked about is stored (ReadInv).  On it rest what a success shows   *)
(* (ExportInv), where paid results are kept (PaidInv), and what a          *)
(* transcript may be aligned for (TextInv).                                *)
(***************************************************************************)
EXTENDS RunEngineProofs

-----------------------------------------------------------------------------
(* The table of artifacts.                                                 *)

Unique(s)   == \A i, j \in DOMAIN s : s[i] = s[j] => i = j
Extends(s, t) == \A i \in DOMAIN s : i \in DOMAIN t /\ t[i] = s[i]
Holds(s, a) == \E i \in DOMAIN s : s[i] = a

\* Publishing keeps what is there, and the new content is at its id.
LEMMA WithHolds ==
    ASSUME NEW S, NEW s \in Seq(S), NEW a
    PROVE  /\ Extends(s, With(s, a))
           /\ IdIn(s, a) \in DOMAIN With(s, a) /\ With(s, a)[IdIn(s, a)] = a
           /\ \A i \in DOMAIN With(s, a) : i \in DOMAIN s \/ (i = IdIn(s, a) /\ ~Holds(s, a))
           /\ Unique(s) => Unique(With(s, a))
  <1>1. CASE Holds(s, a)
    <2>1. With(s, a) = s
      BY <1>1 DEF With, Holds
    <2>2. IdIn(s, a) \in DOMAIN s /\ s[IdIn(s, a)] = a
      <3>1. (CHOOSE i \in DOMAIN s : s[i] = a) \in DOMAIN s /\ s[CHOOSE i \in DOMAIN s : s[i] = a] = a
        BY <1>1 DEF Holds
      <3> QED BY <1>1, <3>1 DEF Holds, IdIn
    <2> QED BY <2>1, <2>2 DEF Extends
  <1>2. CASE ~Holds(s, a)
    <2>1. With(s, a) = Append(s, a) /\ IdIn(s, a) = Len(s) + 1
      BY <1>2 DEF With, IdIn, Holds
    <2>2. /\ DOMAIN s = 1..Len(s) /\ Len(s) \in Nat
          /\ DOMAIN Append(s, a) = 1..Len(s) + 1
          /\ \A i \in 1..Len(s) : Append(s, a)[i] = s[i]
          /\ Append(s, a)[Len(s) + 1] = a
      OBVIOUS
    <2>3. Unique(s) => Unique(Append(s, a))
      BY <1>2, <2>2 DEF Unique, Holds
    <2> QED BY <1>2, <2>1, <2>2, <2>3 DEF Extends
  <1> QED BY <1>1, <1>2

\* The id of a stored content is a place of it, and stays its id.
LEMMA IdOfHeld ==
    ASSUME NEW s, NEW a, Holds(s, a)
    PROVE  IdIn(s, a) \in DOMAIN s /\ s[IdIn(s, a)] = a
  <1>1. (CHOOSE i \in DOMAIN s : s[i] = a) \in DOMAIN s /\ s[CHOOSE i \in DOMAIN s : s[i] = a] = a
    BY DEF Holds
  <1> QED BY <1>1 DEF Holds, IdIn

LEMMA IdStays ==
    ASSUME NEW s, NEW t, NEW a, Extends(s, t), Unique(t), Holds(s, a)
    PROVE  Holds(t, a) /\ IdIn(t, a) = IdIn(s, a)
  <1>1. IdIn(s, a) \in DOMAIN t /\ t[IdIn(s, a)] = a
    BY IdOfHeld DEF Extends
  <1>2. Holds(t, a)
    BY <1>1 DEF Holds
  <1>3. IdIn(t, a) \in DOMAIN t /\ t[IdIn(t, a)] = a
    BY <1>2, IdOfHeld
  <1> QED BY <1>1, <1>2, <1>3 DEF Unique

\* So a new content keeps the id it was published under.
LEMMA IdPublished ==
    ASSUME NEW S, NEW s \in Seq(S), NEW a, Unique(s)
    PROVE  Holds(With(s, a), a) /\ IdIn(With(s, a), a) = IdIn(s, a)
  <1>1. IdIn(s, a) \in DOMAIN With(s, a) /\ With(s, a)[IdIn(s, a)] = a /\ Unique(With(s, a))
    BY WithHolds
  <1>2. Holds(With(s, a), a)
    BY <1>1 DEF Holds
  <1>3. IdIn(With(s, a), a) \in DOMAIN With(s, a) /\ With(s, a)[IdIn(With(s, a), a)] = a
    BY <1>2, IdOfHeld
  <1> QED BY <1>1, <1>2, <1>3 DEF Unique

LEMMA ExtendsTwice ==
    ASSUME NEW s, NEW t, NEW u, Extends(s, t), Extends(t, u)
    PROVE  Extends(s, u)
  BY DEF Extends

\* The steps that publish artifacts.
Publishers ==
    \/ IntakeJob \/ ResolveReview \/ MediaPrepare \/ Compare \/ PublishJob \/ PlanStage
    \/ SaveBatch \/ Finalize \/ SaveTranscript \/ SaveAtaResult \/ Render
    \/ \E s \in Slots : Succeed(s)

\* All others leave the table of artifacts alone.
LEMMA ArtQuiet == ASSUME Next, ~Publishers PROVE UNCHANGED art
  <1> USE DEF dataVars
  <1>1. CASE EntrySteps
    BY <1>1 DEF Publishers, EntrySteps, IntakeBind, IntakeCheckpoint, ResumeRun, RetryRun,
                RetryInvocation, Refuse
  <1>2. CASE LocalStage
    BY <1>2 DEF Publishers, LocalStage, SetRunning, Progress, JobStage, MediaReuse, BindMedia,
                BindCompare, PrepareReference, ReferencesPrepared, SameReferences,
                Invalidate, BindJob, ResolveStage, ReviewGate
  <1>3. CASE CallStep
    BY <1>3 DEF Publishers, CallStep, CallReuse, CallRefused, CallBegin, ArmReuse, ArmRefused,
                ArmBegin, Receipt, Collected, MarkSending, CallCancelled, CompletedInvalid,
                Resubmit, ResubmitFails, CallFails
  <1>4. CASE ExportStep
    BY <1>4 DEF Publishers, ExportStep, ActivateInputs, ActivateResult, PersistOutputs,
                CommitSuccess, ProjectResult, LocalFailure, FailRun, FailCommit, Snapshot
  <1>5. CASE RequestCancel \/ Crash
    BY <1>5 DEF RequestCancel, Crash
  <1>6. ASSUME NEW c \in Commands, Enter(c) PROVE UNCHANGED art
    BY <1>6 DEF Enter
  <1> QED BY <1>1, <1>2, <1>3, <1>4, <1>5, <1>6 DEF Next, Writer

\* A publication adds at most a few contents to the table, one after the other.
Adds(s, t) == \E a : t = With(s, a)
LEMMA PublicationAdds ==
    ASSUME Publishers
    PROVE  \/ art' = art \/ Adds(art, art')
           \/ \E a, b : art' = With(With(art, a), b)
           \/ \E a, b, c : art' = With(With(With(art, a), b), c)
  <1> USE DEF dataVars
  <1>1. CASE IntakeJob \/ Compare \/ PublishJob \/ Render
    BY <1>1 DEF IntakeJob, Compare, PublishJob, Render, PublishOnly, Adds
  <1>2. CASE PlanStage \/ SaveBatch \/ SaveTranscript \/ SaveAtaResult
    BY <1>2 DEF PlanStage, SaveBatch, SaveTranscript, SaveAtaResult, Publish, PublishOnly, Adds
  <1>3. CASE MediaPrepare
    BY <1>3 DEF MediaPrepare
  <1>4. CASE Finalize
    BY <1>4 DEF Finalize
  <1>5. CASE ResolveReview
    BY <1>5 DEF ResolveReview
  <1>6. ASSUME NEW s \in Slots, Succeed(s) PROVE Adds(art, art')
    BY <1>6 DEF Succeed, Publish, PublishOnly, Adds
  <1> QED BY <1>1, <1>2, <1>3, <1>4, <1>5, <1>6 DEF Publishers

\* Artifacts are never changed, removed or stored twice.
ArtStays == Extends(art, art') /\ (Unique(art) => Unique(art'))
LEMMA ArtStaysAlways == ASSUME TypeInv, Next PROVE ArtStays
  <1>0. art \in Seq(ArtifactRows)
    BY DEF TypeInv, TypeOK, DataOK
  <1>1. ASSUME NEW S, NEW s \in Seq(S), NEW a
        PROVE  \E T : With(s, a) \in Seq(T)
    <2>1. s \in Seq(S \cup {a}) /\ a \in S \cup {a}
      BY <1>1
    <2>2. With(s, a) \in Seq(S \cup {a})
      BY <2>1, WithType
    <2> QED BY <2>2
  <1>2. CASE art' = art
    BY <1>2 DEF ArtStays, Extends
  <1>3. CASE Adds(art, art')
    BY <1>0, <1>3, WithHolds DEF ArtStays, Adds
  <1>4. ASSUME NEW a, NEW b, art' = With(With(art, a), b) PROVE ArtStays
    <2>1. PICK T : With(art, a) \in Seq(T)
      BY <1>0, <1>1
    <2>2. Extends(art, With(art, a)) /\ (Unique(art) => Unique(With(art, a)))
      BY <1>0, WithHolds
    <2>3. Extends(With(art, a), art') /\ (Unique(With(art, a)) => Unique(art'))
      BY <1>4, <2>1, WithHolds
    <2> QED BY <2>2, <2>3, ExtendsTwice DEF ArtStays
  <1>5. ASSUME NEW a, NEW b, NEW c, art' = With(With(With(art, a), b), c) PROVE ArtStays
    <2>1. PICK T : With(art, a) \in Seq(T)
      BY <1>0, <1>1
    <2>2. PICK U : With(With(art, a), b) \in Seq(U)
      BY <2>1, <1>1
    <2>3. Extends(art, With(art, a)) /\ (Unique(art) => Unique(With(art, a)))
      BY <1>0, WithHolds
    <2>4. Extends(With(art, a), With(With(art, a), b))
          /\ (Unique(With(art, a)) => Unique(With(With(art, a), b)))
      BY <2>1, WithHolds
    <2>5. Extends(With(With(art, a), b), art') /\ (Unique(With(With(art, a), b)) => Unique(art'))
      BY <1>5, <2>2, WithHolds
    <2>6. Extends(art, With(With(art, a), b))
      BY <2>3, <2>4, ExtendsTwice
    <2> QED BY <2>3, <2>4, <2>5, <2>6, ExtendsTwice DEF ArtStays
  <1> QED BY <1>2, <1>3, <1>4, <1>5, ArtQuiet, PublicationAdds

-----------------------------------------------------------------------------
(* What a step may do to the checkpoints.                                  *)

\* The kinds a paid call produces, and the keys of a human or automatic decision.
CallKinds    == {"media_object", "base_asr", "peer_asr", "correction_transcript",
                 "selection_result", "ata_response"}
DecisionKeys == {G("review_resolution"), G("edit_resolution"), G("review_queue")}

\* A step that may write the checkpoint of one key, or those of a decision.
WritesOnly(key) == UNCHANGED round /\ (UNCHANGED cp \/ \E id : Bind(key, id))
Decides == UNCHANGED round /\ \E ids : BindAll(ids) /\ DOMAIN ids \subseteq DecisionKeys

LocalWriters ==
    \/ IntakeCheckpoint \/ JobStage \/ BindJob \/ BindMedia \/ BindCompare \/ PlanStage
    \/ SaveBatch \/ SaveTranscript \/ SaveAtaResult
Deciders == ResolveReview \/ Finalize

\* Which key each step writes.
LEMMA WriterKeys ==
    /\ IntakeCheckpoint \/ JobStage \/ BindJob => WritesOnly(G("job_input"))
    /\ BindMedia => \/ pc = "bindProbe" /\ WritesOnly(G("media_probe"))
                    \/ pc = "bindTimeline" /\ WritesOnly(G("timeline_audio"))
    /\ BindCompare => WritesOnly(G("asr_comparison"))
    /\ PlanStage => WritesOnly(G("merge_plan"))
    /\ SaveBatch => WritesOnly(<<"selection_batch", Batch>>)
    /\ SaveTranscript => WritesOnly(G("transcript"))
    /\ SaveAtaResult => WritesOnly(G("ata_result"))
    /\ Deciders => Decides
    /\ \A s \in Slots : Succeed(s) => WritesOnly(CallKeyOf(slot[s].inv))
  <1> USE DEF rowVars, dataVars, WritesOnly
  <1>1. IntakeCheckpoint \/ JobStage \/ BindJob => WritesOnly(G("job_input"))
    BY DEF IntakeCheckpoint, JobStage, BindJob
  <1>2. BindMedia => \/ pc = "bindProbe" /\ WritesOnly(G("media_probe"))
                     \/ pc = "bindTimeline" /\ WritesOnly(G("timeline_audio"))
    BY DEF BindMedia
  <1>3. BindCompare => WritesOnly(G("asr_comparison"))
    BY DEF BindCompare
  <1>4. \A key, deps, body : KeyOf(Saved(key, deps, body)) = <<key[1], key[2]>>
    BY DEF KeyOf, Saved, Artifact
  <1>5. \A key, deps, mark, body : KeyOf(Artifact(key, deps, mark, body)) = <<key[1], key[2]>>
    BY DEF KeyOf, Artifact
  <1>6. PlanStage => WritesOnly(G("merge_plan"))
    BY <1>4 DEF PlanStage, Publish, G
  <1>7. SaveBatch => WritesOnly(<<"selection_batch", Batch>>)
    BY <1>4 DEF SaveBatch, Publish
  <1>8. SaveTranscript => WritesOnly(G("transcript"))
    BY <1>4 DEF SaveTranscript, Publish, G
  <1>9. SaveAtaResult => WritesOnly(G("ata_result"))
    BY <1>4 DEF SaveAtaResult, Publish, G
  <1>10. ResolveReview => Decides
    BY DEF ResolveReview, Decides, DecisionKeys
  <1>11. Finalize => Decides
    BY DEF Finalize, Decides, DecisionKeys
  <1>12. ASSUME NEW s \in Slots, Succeed(s) PROVE WritesOnly(CallKeyOf(slot[s].inv))
    <2>1. PICK a : Publish(a) /\ KeyOf(a) = CallKeyOf(slot[s].inv)
      BY <1>5, <1>12 DEF Succeed, CallKeyOf
    <2> QED BY <1>12, <2>1 DEF Succeed, Publish
  <1> QED BY <1>1, <1>2, <1>3, <1>6, <1>7, <1>8, <1>9, <1>10, <1>11, <1>12 DEF Deciders

\* All other steps but the opening of a round and the invalidation write none.
LEMMA CpQuiet ==
    ASSUME Next, ~LocalWriters, ~Deciders, ~RetryRun, ~Invalidate, \A s \in Slots : ~Succeed(s)
    PROVE  UNCHANGED <<cp, round>>
  <1> USE DEF dataVars, rowVars
  <1>1. CASE EntrySteps
    BY <1>1 DEF LocalWriters, Deciders, EntrySteps, IntakeJob, IntakeBind, ResumeRun,
                RetryInvocation, Refuse
  <1>2. CASE LocalStage
    BY <1>2 DEF LocalWriters, Deciders, LocalStage, SetRunning, Progress, MediaReuse,
                MediaPrepare, Compare, PrepareReference, ReferencesPrepared, SameReferences,
                PublishJob, ResolveStage, ReviewGate
  <1>3. CASE CallStep
    BY <1>3 DEF CallStep, CallReuse, CallRefused, CallBegin, ArmReuse, ArmRefused,
                ArmBegin, Receipt, Collected, MarkSending, CallCancelled, CompletedInvalid,
                Resubmit, ResubmitFails, CallFails
  <1>4. CASE ExportStep
    BY <1>4 DEF LocalWriters, ExportStep, ActivateInputs, ActivateResult, Render, PersistOutputs,
                CommitSuccess, ProjectResult, LocalFailure, FailRun, FailCommit, Snapshot
  <1>5. CASE RequestCancel \/ Crash
    BY <1>5 DEF RequestCancel, Crash
  <1>6. ASSUME NEW c \in Commands, Enter(c) PROVE UNCHANGED <<cp, round>>
    BY <1>6 DEF Enter
  <1> QED BY <1>1, <1>2, <1>3, <1>4, <1>5, <1>6 DEF Next, Writer


-----------------------------------------------------------------------------
(* Where the writer goes.                                                  *)

\* The places from which _execute cannot go on, and its path through all others.
Resting == Commands \cup {"idle", "fail", "failCommit", "snapshot", "project"}
Leads(p, q) ==
    \/ p = "intake" /\ q = "intakeBind"
    \/ p = "intakeBind" /\ q = "intakeCheckpoint"
    \/ p \in {"intakeCheckpoint", "resume", "retry_run", "retry_inv", "review"} /\ q = "start"
    \/ p = "start" /\ q = "preparing"
    \/ p = "preparing" /\ q = "job"
    \/ p = "job" /\ q = "media"
    \/ p = "media" /\ q \in {"upload", "bindProbe"}
    \/ p = "bindProbe" /\ q = "bindTimeline"
    \/ p = "bindTimeline" /\ q = "upload"
    \/ p = "upload" /\ q = "asr"
    \/ p = "asr" /\ q = "base"
    \/ p = "base" /\ q = "peer"
    \/ p = "peer" /\ q = "compare"
    \/ p = "compare" /\ q \in {"refs", "bindCompare"}
    \/ p = "bindCompare" /\ q = "refs"
    \/ p = "refs" /\ q = "effective"
    \/ p = "effective" /\ q \in {"correction", "publishJob"}
    \/ p = "publishJob" /\ q = "bindJob"
    \/ p = "bindJob" /\ q = "correction"
    \/ p = "correction" /\ q = "qwen"
    \/ p = "qwen" /\ q = "kimi"
    \/ p = "kimi" /\ q = "collect"
    \/ p = "collect" /\ q = "reviewing"
    \/ p = "reviewing" /\ q = "plan"
    \/ p = "plan" /\ q = "resolve"
    \/ p = "resolve" /\ q \in {"select", "gate"}
    \/ p = "select" /\ q = "gate"
    \/ p = "gate" /\ q = "transcript"
    \/ p = "transcript" /\ q = "aligning"
    \/ p = "aligning" /\ q = "ata"
    \/ p = "ata" /\ q = "activate"
    \/ p = "activate" /\ q = "exporting"
    \/ p = "exporting" /\ q = "result"
    \/ p = "result" /\ q = "activateResult"
    \/ p = "activateResult" /\ q = "render"
    \/ p = "render" /\ q = "persist"
    \/ p = "persist" /\ q = "commit"
Moves == pc' = pc \/ pc' \in Resting \/ Leads(pc, pc')

LEMMA MovesEntry == ASSUME EntrySteps PROVE Moves
  BY DEF EntrySteps, IntakeJob, IntakeBind, IntakeCheckpoint, ResumeRun, RetryRun,
         RetryInvocation, ResolveReview, Refuse, Goto, Release, Moves, Leads, Resting

LEMMA MovesLocal == ASSUME LocalStage PROVE Moves
  <1> USE DEF Goto, Raise, Moves
  <1>1. CASE Progress
    BY <1>1 DEF Progress, AfterProgress, Leads, Resting
  <1>2. CASE SetRunning \/ JobStage \/ MediaReuse \/ MediaPrepare \/ BindMedia
    BY <1>2 DEF SetRunning, JobStage, MediaReuse, MediaPrepare, BindMedia, Leads, Resting
  <1>3. CASE Compare \/ BindCompare \/ PrepareReference \/ ReferencesPrepared \/ SameReferences
    BY <1>3 DEF Compare, BindCompare, PrepareReference, ReferencesPrepared, SameReferences,
                Leads, Resting
  <1>4. CASE Invalidate \/ PublishJob \/ BindJob \/ PlanStage
    BY <1>4 DEF Invalidate, PublishJob, BindJob, PlanStage, Leads, Resting
  <1>5. CASE ResolveStage \/ SaveBatch \/ Finalize \/ ReviewGate \/ SaveTranscript
    BY <1>5 DEF ResolveStage, SaveBatch, Finalize, ReviewGate, SaveTranscript, Leads, Resting
  <1> QED BY <1>1, <1>2, <1>3, <1>4, <1>5 DEF LocalStage

LEMMA MovesCall == ASSUME CallStep PROVE Moves
  <1> USE DEF Goto, Raise, Moves, StageError
  <1>1. \A p \in DOMAIN AfterCall : Leads(p, AfterCall[p])
    BY DEF AfterCall, Leads
  <1>2. \A p \in Arms : Leads(p, AfterArm[p])
    BY DEF AfterArm, Arms, Leads
  <1>3. "fail" \in Resting /\ "reviewing" \in Resting \cup {"reviewing"}
    BY DEF Resting
  <1>4. pc \in DOMAIN MainCall => pc = "select" \/ pc \in DOMAIN AfterCall
    BY DEF MainCall, AfterCall
  <1>5. CASE CallReuse \/ CallRefused \/ CallBegin
    BY <1>1, <1>3, <1>4, <1>5 DEF CallReuse, CallRefused, CallBegin, CallPending
  <1>6. CASE ArmReuse \/ ArmRefused \/ ArmBegin
    BY <1>2, <1>6 DEF ArmReuse, ArmRefused, ArmBegin
  <1>7. CASE Receipt \/ Collected
    BY <1>3, <1>7 DEF Receipt, Collected, Leads
  <1>8. ASSUME NEW s \in Slots, MarkSending(s) \/ Succeed(s) \/ CallCancelled(s)
                                \/ CompletedInvalid(s) \/ Resubmit(s) \/ ResubmitFails(s)
        PROVE  Moves
    BY <1>1, <1>2, <1>3, <1>8
    DEF MarkSending, Succeed, CallCancelled, CompletedInvalid, Resubmit, ResubmitFails
  <1>9. ASSUME NEW s \in Slots, NEW st \in FailedStatuses, CallFails(s, st) PROVE Moves
    BY <1>3, <1>9 DEF CallFails
  <1> QED BY <1>5, <1>6, <1>7, <1>8, <1>9 DEF CallStep

LEMMA MovesExport == ASSUME ExportStep PROVE Moves
  BY DEF ExportStep, ActivateInputs, SaveAtaResult, ActivateResult, Render, PersistOutputs,
         CommitSuccess, ProjectResult, LocalFailure, FailRun, FailCommit, Snapshot,
         Goto, Raise, Release, Moves, Leads, Resting

\* Every step stays, stops, or goes along the path.
LEMMA WriterMoves == ASSUME Next PROVE Moves
  <1>1. RequestCancel \/ Crash \/ (\E c \in Commands : Enter(c)) => Moves
    BY DEF RequestCancel, Crash, Enter, Release, Moves, Resting
  <1> QED BY <1>1, MovesEntry, MovesLocal, MovesCall, MovesExport DEF Next, Writer


\* Where each step of the entry points, of the local stages and of the export is taken.
LEMMA StepPlaces ==
    /\ /\ IntakeJob => pc = "intake"
       /\ IntakeBind => pc = "intakeBind"
       /\ IntakeCheckpoint => pc = "intakeCheckpoint"
       /\ ResumeRun => pc = "resume"
       /\ RetryRun => pc = "retry_run"
       /\ RetryInvocation => pc = "retry_inv"
       /\ ResolveReview => pc = "review"
       /\ Refuse => pc \in Commands
    /\ /\ SetRunning => pc = "start"
       /\ Progress => pc \in DOMAIN AfterProgress
       /\ JobStage => pc = "job"
       /\ MediaReuse \/ MediaPrepare => pc = "media"
       /\ BindMedia => pc \in {"bindProbe", "bindTimeline"}
       /\ Compare => pc = "compare"
       /\ BindCompare => pc = "bindCompare"
       /\ PrepareReference \/ ReferencesPrepared => pc = "refs"
       /\ SameReferences \/ Invalidate => pc = "effective"
       /\ PublishJob => pc = "publishJob"
       /\ BindJob => pc = "bindJob"
       /\ PlanStage => pc = "plan"
       /\ ResolveStage => pc = "resolve"
       /\ SaveBatch \/ Finalize => pc = "select"
       /\ ReviewGate => pc = "gate"
       /\ SaveTranscript => pc = "transcript"
    /\ /\ ActivateInputs => pc = "activate"
       /\ SaveAtaResult => pc = "result"
       /\ ActivateResult => pc = "activateResult"
       /\ Render => pc = "render"
       /\ PersistOutputs => pc = "persist"
       /\ CommitSuccess => pc = "commit"
       /\ ProjectResult => pc = "project"
       /\ LocalFailure => pc \in LocalSteps
       /\ FailRun => pc = "fail"
       /\ FailCommit => pc = "failCommit"
       /\ Snapshot => pc = "snapshot"
  <1>1. /\ IntakeJob => pc = "intake"
        /\ IntakeBind => pc = "intakeBind"
        /\ IntakeCheckpoint => pc = "intakeCheckpoint"
        /\ ResumeRun => pc = "resume"
        /\ RetryRun => pc = "retry_run"
        /\ RetryInvocation => pc = "retry_inv"
        /\ ResolveReview => pc = "review"
        /\ Refuse => pc \in Commands
    BY DEF IntakeJob, IntakeBind, IntakeCheckpoint, ResumeRun, RetryRun, RetryInvocation,
           ResolveReview, Refuse
  <1>2. /\ SetRunning => pc = "start"
        /\ Progress => pc \in DOMAIN AfterProgress
        /\ JobStage => pc = "job"
        /\ MediaReuse \/ MediaPrepare => pc = "media"
        /\ BindMedia => pc \in {"bindProbe", "bindTimeline"}
        /\ Compare => pc = "compare"
        /\ BindCompare => pc = "bindCompare"
        /\ PrepareReference \/ ReferencesPrepared => pc = "refs"
        /\ SameReferences \/ Invalidate => pc = "effective"
        /\ PublishJob => pc = "publishJob"
        /\ BindJob => pc = "bindJob"
    BY DEF SetRunning, Progress, JobStage, MediaReuse, MediaPrepare, BindMedia, Compare,
           BindCompare, PrepareReference, ReferencesPrepared, SameReferences, Invalidate,
           PublishJob, BindJob
  <1>3. /\ PlanStage => pc = "plan"
        /\ ResolveStage => pc = "resolve"
        /\ SaveBatch \/ Finalize => pc = "select"
        /\ ReviewGate => pc = "gate"
        /\ SaveTranscript => pc = "transcript"
    BY DEF PlanStage, ResolveStage, SaveBatch, Finalize, ReviewGate, SaveTranscript
  <1>4. /\ ActivateInputs => pc = "activate"
        /\ SaveAtaResult => pc = "result"
        /\ ActivateResult => pc = "activateResult"
        /\ Render => pc = "render"
        /\ PersistOutputs => pc = "persist"
        /\ CommitSuccess => pc = "commit"
        /\ ProjectResult => pc = "project"
        /\ LocalFailure => pc \in LocalSteps
        /\ FailRun => pc = "fail"
        /\ FailCommit => pc = "failCommit"
        /\ Snapshot => pc = "snapshot"
    BY DEF ActivateInputs, SaveAtaResult, ActivateResult, Render, PersistOutputs, CommitSuccess,
           ProjectResult, LocalFailure, FailRun, FailCommit, Snapshot
  <1> QED BY <1>1, <1>2, <1>3, <1>4

\* A paid call is begun, waited for and collected in its own places.
LEMMA CallStepPlaces == ASSUME CallStep PROVE pc \in CallPlaces
  <1>1. DOMAIN MainCall \cup Arms \cup {"collect"} = CallPlaces
    BY CallLabels DEF Arms, CallPlaces
  <1> QED BY <1>1
      DEF CallStep, CallReuse, CallRefused, CallBegin, CallPending, ArmReuse, ArmRefused,
          ArmBegin, Receipt, Collected, MarkSending, Succeed, CallCancelled, CompletedInvalid,
          Resubmit, ResubmitFails, CallFails, Answered, Active

\* The steps that may be taken at a place of the intake or of the local stages, and do not
\* let go of the Run: the place's own, and a cancellation.
LEMMA StepsAt ==
    ASSUME Next, pc' \notin Resting
    PROVE  /\ pc = "idle" => RequestCancel
           /\ pc = "intake" => IntakeJob \/ RequestCancel
           /\ pc = "intakeBind" => IntakeBind \/ RequestCancel
           /\ pc = "intakeCheckpoint" => IntakeCheckpoint \/ RequestCancel
           /\ pc = "job" => JobStage \/ RequestCancel
           /\ pc = "media" => MediaReuse \/ MediaPrepare \/ RequestCancel
           /\ pc \in {"bindProbe", "bindTimeline"} => BindMedia \/ RequestCancel
           /\ pc = "compare" => Compare \/ RequestCancel
           /\ pc = "bindCompare" => BindCompare \/ RequestCancel
           /\ pc = "refs" => PrepareReference \/ ReferencesPrepared \/ RequestCancel
           /\ pc = "effective" => SameReferences \/ Invalidate \/ RequestCancel
           /\ pc = "publishJob" => PublishJob \/ RequestCancel
           /\ pc = "bindJob" => BindJob \/ RequestCancel
           /\ pc = "plan" => PlanStage \/ RequestCancel
           /\ pc = "resolve" => ResolveStage \/ RequestCancel
           /\ pc = "gate" => ReviewGate \/ RequestCancel
           /\ pc = "transcript" => SaveTranscript \/ RequestCancel
           /\ pc \in DOMAIN AfterProgress => Progress \/ RequestCancel
           /\ pc = "select" => SaveBatch \/ Finalize \/ CallStep \/ RequestCancel
           /\ pc \in CallPlaces \ {"select"} => CallStep \/ RequestCancel
           /\ pc = "activate" => ActivateInputs \/ RequestCancel
           /\ pc = "result" => SaveAtaResult \/ RequestCancel
           /\ pc = "activateResult" => ActivateResult \/ RequestCancel
           /\ pc = "render" => Render \/ RequestCancel
           /\ pc = "persist" => PersistOutputs \/ RequestCancel
           /\ pc = "commit" => RequestCancel
  <1>1. DOMAIN AfterProgress = {"preparing", "asr", "correction", "reviewing", "aligning",
                                "exporting"}
    BY DEF AfterProgress
  <1>2. ~Crash /\ ~LocalFailure /\ ~Refuse /\ \A c \in Commands : ~Enter(c)
    BY DEF Crash, Release, LocalFailure, Raise, Refuse, Enter, Resting
  <1>3. RequestCancel \/ EntrySteps \/ LocalStage \/ CallStep \/ ExportStep
    BY <1>2 DEF Next, Writer
  <1>3a. CallPlaces = {"upload", "base", "peer", "select", "ata", "qwen", "kimi", "collect"}
    BY DEF CallPlaces
  <1>4. CASE EntrySteps
    BY <1>1, <1>2, <1>3a, <1>4, StepPlaces DEF EntrySteps, Commands
  <1>5. CASE LocalStage
    BY <1>1, <1>3a, <1>5, StepPlaces DEF LocalStage
  <1>6. CASE CallStep
    BY <1>1, <1>6, CallStepPlaces DEF CallPlaces
  <1>7. CASE ExportStep
    <2>1. ~CommitSuccess
      BY DEF CommitSuccess, Goto, Raise, Resting, CommitStops
    <2> QED BY <1>1, <1>2, <1>3a, <1>7, <2>1, StepPlaces DEF ExportStep
  <1> QED BY <1>3, <1>4, <1>5, <1>6, <1>7


-----------------------------------------------------------------------------
(* What is stored: contents once, prepared contents, checkpoints of stored contents. *)

\* What a step has published and the next one looks up again by its content.
Prepared ==
    /\ bound \/ pc = "intakeBind" => Holds(art, OriginalJob)
    /\ pc \in {"bindProbe", "bindTimeline"} => Holds(art, Probe) /\ Holds(art, Timeline)
    /\ pc = "bindCompare" => Holds(art, Comparison)
    /\ pc = "bindJob" => Holds(art, EffectiveJob)

\* A checkpoint names a stored artifact of its own kind and scope.
KeptAt(id, key) == id \in DOMAIN art /\ KeyOf(art[id]) = key
CpStored == \A r \in 0..MaxRounds : \A k \in Keys : cp[r][k] # 0 => KeptAt(cp[r][k], k)

StoreInv == Unique(art) /\ Prepared /\ CpStored

\* Nothing is stored before the first command.
LEMMA InitStore == Init => StoreInv
  BY DEF Init, StoreInv, Unique, Prepared, CpStored

\* What is stored stays.
LEMMA HoldsOn == ASSUME ArtStays, NEW a, Holds(art, a) PROVE Holds(art', a)
  BY DEF ArtStays, Extends, Holds

LEMMA KeptOn == ASSUME ArtStays, NEW id, NEW key, KeptAt(id, key) PROVE KeptAt(id, key)'
  BY DEF ArtStays, Extends, KeptAt

\* The run is bound to its inputs by one step only.
LEMMA BoundOnce == ASSUME Next, ~IntakeBind PROVE bound' = bound
  <1> USE DEF rowVars
  <1>1. CASE EntrySteps
    BY <1>1 DEF EntrySteps, IntakeJob, IntakeCheckpoint, ResumeRun, RetryRun, RetryInvocation,
                ResolveReview, Refuse
  <1>2. CASE LocalStage
    BY <1>2 DEF LocalStage, SetRunning, Progress, JobStage, MediaReuse, MediaPrepare, BindMedia,
                Compare, BindCompare, PrepareReference, ReferencesPrepared, SameReferences,
                Invalidate, PublishJob, BindJob, PlanStage, ResolveStage, SaveBatch, Finalize,
                ReviewGate, SaveTranscript
  <1>3. CASE CallStep
    BY <1>3 DEF CallStep, CallReuse, CallRefused, CallBegin, ArmReuse, ArmRefused, ArmBegin,
                Receipt, Collected, MarkSending, Succeed, CallCancelled, CompletedInvalid,
                Resubmit, ResubmitFails, CallFails
  <1>4. CASE ExportStep
    BY <1>4 DEF ExportStep, ActivateInputs, SaveAtaResult, ActivateResult, Render, PersistOutputs,
                CommitSuccess, ProjectResult, LocalFailure, FailRun, FailCommit, Snapshot
  <1>5. CASE RequestCancel \/ Crash
    BY <1>5 DEF RequestCancel, Crash
  <1>6. ASSUME NEW c \in Commands, Enter(c) PROVE bound' = bound
    BY <1>6 DEF Enter
  <1> QED BY <1>1, <1>2, <1>3, <1>4, <1>5, <1>6 DEF Next, Writer

\* The checkpoints are read alike after a step that writes none.
LEMMA CpSame == ASSUME UNCHANGED <<cp, round>> PROVE \A k : Cp(k)' = Cp(k)
  BY DEF Cp, RoundOf

\* What is prepared for the next step is there when it comes.
LEMMA PreparedStep ==
    ASSUME TypeInv, Prepared, Unique(art), Next, ArtStays
    PROVE  Prepared'
  <1>1. art \in Seq(ArtifactRows)
    BY DEF TypeInv, TypeOK, DataOK
  <1>2. Moves
    BY WriterMoves
  <1>3. OriginalJob' = OriginalJob /\ Probe' = Probe
    BY DEF OriginalJob, Probe, Artifact
  <1>4. ASSUME bound' \/ pc' = "intakeBind" PROVE Holds(art', OriginalJob')
    <2>1. CASE bound \/ pc = "intakeBind"
      BY <1>3, <2>1, HoldsOn DEF Prepared
    <2>2. CASE ~bound /\ pc # "intakeBind"
      <3>1. pc' = "intakeBind"
        BY <1>4, <2>2, BoundOnce, StepPlaces
      <3>2. pc = "intake"
        BY <1>2, <2>2, <3>1 DEF Moves, Resting, Commands, Leads
      <3>3. IntakeJob \/ RequestCancel
        BY <3>1, <3>2, StepsAt DEF Resting, Commands
      <3>4. IntakeJob
        BY <3>1, <3>2, <3>3 DEF RequestCancel
      <3>5. art' = With(art, OriginalJob)
        BY <3>4 DEF IntakeJob, PublishOnly
      <3> QED BY <1>1, <1>3, <3>5, WithHolds DEF Holds
    <2> QED BY <2>1, <2>2
  <1>5. ASSUME pc' \in {"bindProbe", "bindTimeline"}
        PROVE  Holds(art', Probe') /\ Holds(art', Timeline')
    <2>1. pc \in {"bindProbe", "bindTimeline"} \/ pc = "media"
      BY <1>2, <1>5 DEF Moves, Resting, Commands, Leads
    <2>2. CASE pc \in {"bindProbe", "bindTimeline"}
      <3>1. BindMedia \/ RequestCancel
        BY <1>5, <2>2, StepsAt DEF Resting, Commands
      <3>2. art' = art
        BY <3>1 DEF BindMedia, RequestCancel, dataVars
      <3>3. Timeline' = Timeline
        BY <1>3, <3>2 DEF Timeline, Artifact, IdIn
      <3> QED BY <1>3, <2>2, <3>2, <3>3 DEF Prepared
    <2>3. CASE pc = "media"
      <3>1. MediaReuse \/ MediaPrepare \/ RequestCancel
        BY <1>5, <2>3, StepsAt DEF Resting, Commands
      <3>2. MediaPrepare
        BY <1>5, <2>3, <3>1 DEF MediaReuse, RequestCancel, Goto, Raise
      <3>3. PICK p, t : p = Probe /\ t = Timeline
        OBVIOUS
      <3>4. PICK u : u = With(art, p)
        OBVIOUS
      <3>5. art' = With(u, t)
        BY <3>2, <3>3, <3>4 DEF MediaPrepare
      <3>6. u \in Seq(ArtifactRows \cup {p})
        <4>1. art \in Seq(ArtifactRows \cup {p}) /\ p \in ArtifactRows \cup {p}
          BY <1>1
        <4> QED BY <3>4, <4>1, WithType
      <3>7. Holds(u, p) /\ IdIn(u, p) = IdIn(art, p) /\ Unique(u)
        BY <1>1, <3>4, IdPublished, WithHolds
      <3>8. Extends(u, art') /\ Unique(art') /\ Holds(art', t)
        BY <3>5, <3>6, <3>7, WithHolds DEF Holds
      <3>9. Holds(art', p) /\ IdIn(art', p) = IdIn(art, p)
        BY <3>7, <3>8, IdStays
      <3>10. Timeline' = Artifact(G("timeline_audio"), {IdIn(art', p)}, 0, {})
        BY <1>3, <3>3 DEF Timeline, Artifact
      <3>11. Timeline' = t
        BY <3>3, <3>9, <3>10 DEF Timeline
      <3> QED BY <1>3, <3>3, <3>8, <3>9, <3>11
    <2> QED BY <2>1, <2>2, <2>3
  <1>6. ASSUME pc' = "bindCompare" PROVE Holds(art', Comparison')
    <2>1. pc = "bindCompare" \/ pc = "compare"
      BY <1>2, <1>6 DEF Moves, Resting, Commands, Leads
    <2>2. CASE pc = "bindCompare"
      <3>1. RequestCancel
        BY <1>6, <2>2, StepsAt DEF Resting, Commands, BindCompare, Goto
      <3>2. art' = art /\ UNCHANGED <<cp, round>>
        BY <3>1 DEF RequestCancel, dataVars
      <3>3. Comparison' = Comparison
        BY <3>2, CpSame DEF Comparison, Artifact
      <3> QED BY <2>2, <3>2, <3>3 DEF Prepared
    <2>3. CASE pc = "compare"
      <3>1. Compare
        BY <1>6, <2>3, StepsAt DEF Resting, Commands, RequestCancel
      <3>2. art' = With(art, Comparison) /\ UNCHANGED <<cp, round>>
        BY <1>6, <3>1 DEF Compare, PublishOnly, Goto, rowVars
      <3>3. Comparison' = Comparison
        BY <3>2, CpSame DEF Comparison, Artifact
      <3> QED BY <1>1, <3>2, <3>3, WithHolds DEF Holds
    <2> QED BY <2>1, <2>2, <2>3
  <1>7. ASSUME pc' = "bindJob" PROVE Holds(art', EffectiveJob')
    <2>1. pc = "bindJob" \/ pc = "publishJob"
      BY <1>2, <1>7 DEF Moves, Resting, Commands, Leads
    <2>2. CASE pc = "bindJob"
      <3>1. RequestCancel
        BY <1>7, <2>2, StepsAt DEF Resting, Commands, BindJob, Goto
      <3>2. art' = art /\ UNCHANGED <<prep, round>>
        BY <3>1 DEF RequestCancel, dataVars
      <3>3. EffectiveJob' = EffectiveJob
        BY <3>2 DEF EffectiveJob, PreparedRefs, Artifact
      <3> QED BY <2>2, <3>2, <3>3 DEF Prepared
    <2>3. CASE pc = "publishJob"
      <3>1. PublishJob
        BY <1>7, <2>3, StepsAt DEF Resting, Commands, RequestCancel
      <3>2. art' = With(art, EffectiveJob) /\ UNCHANGED <<prep, round>>
        BY <3>1 DEF PublishJob, PublishOnly, rowVars
      <3>3. EffectiveJob' = EffectiveJob
        BY <3>2 DEF EffectiveJob, PreparedRefs, Artifact
      <3> QED BY <1>1, <3>2, <3>3, WithHolds DEF Holds
    <2> QED BY <2>1, <2>2, <2>3
  <1> QED BY <1>4, <1>5, <1>6, <1>7 DEF Prepared


\* Writing one checkpoint, or several of a decision, leaves all others as they are.
LEMMA BindCells ==
    ASSUME TypeInv, NEW key \in Keys, NEW id, Bind(key, id)
    PROVE  /\ cp'[RoundOf(key[1])][key] = id
           /\ \A r \in 0..MaxRounds : \A k \in Keys :
                 r # RoundOf(key[1]) \/ k # key => cp'[r][k] = cp[r][k]
  <1>1. cp \in Checkpoints /\ RoundOf(key[1]) \in 0..MaxRounds
    BY BoundsAssumption DEF TypeInv, TypeOK, RowsOK, DataOK, RoundOf, Rounds
  <1>2. cp' = [cp EXCEPT ![RoundOf(key[1])] = [cp[RoundOf(key[1])] EXCEPT ![key] = id]]
    BY DEF Bind
  <1> QED BY <1>1, <1>2 DEF Checkpoints

LEMMA BindAllCells ==
    ASSUME TypeInv, NEW ids, BindAll(ids)
    PROVE  \A r \in 0..MaxRounds : \A k \in Keys :
              cp'[r][k] = IF r = round /\ k \in DOMAIN ids THEN ids[k] ELSE cp[r][k]
  <1> DEFINE row == [k \in Keys |-> IF k \in DOMAIN ids THEN ids[k] ELSE cp[round][k]]
  <1>1. cp \in Checkpoints /\ round \in 0..MaxRounds
    BY BoundsAssumption DEF TypeInv, TypeOK, RowsOK, DataOK, Rounds
  <1>2. cp' = [cp EXCEPT ![round] = row]
    BY DEF BindAll
  <1>3. \A k \in Keys : row[k] = IF k \in DOMAIN ids THEN ids[k] ELSE cp[round][k]
    OBVIOUS
  <1> HIDE DEF row
  <1> QED BY <1>1, <1>2, <1>3 DEF Checkpoints

\* A checkpoint of a stored artifact of its kind may be written.
LEMMA BindStored ==
    ASSUME TypeInv, CpStored, ArtStays, NEW key \in Keys, NEW id, Bind(key, id),
           id \in DOMAIN art', KeyOf(art'[id]) = key
    PROVE  CpStored'
  <1> SUFFICES ASSUME NEW r \in 0..MaxRounds, NEW k \in Keys, cp'[r][k] # 0
               PROVE  cp'[r][k] \in DOMAIN art' /\ KeyOf(art'[cp'[r][k]]) = k
    BY DEF CpStored, KeptAt
  <1>1. CASE r = RoundOf(key[1]) /\ k = key
    BY <1>1, BindCells
  <1>2. CASE ~(r = RoundOf(key[1]) /\ k = key)
    <2>1. cp'[r][k] = cp[r][k]
      BY <1>2, BindCells
    <2>2. KeptAt(cp[r][k], k)
      BY <2>1 DEF CpStored
    <2> QED BY <2>1, <2>2 DEF KeptAt, ArtStays, Extends
  <1> QED BY <1>1, <1>2

\* So may that of an artifact looked up by its content, and of one just published.
LEMMA LookedUpStored ==
    ASSUME TypeInv, CpStored, ArtStays, UNCHANGED art, NEW a, KeyOf(a) \in Keys, Holds(art, a),
           Bind(KeyOf(a), IdIn(art, a))
    PROVE  CpStored'
  <1>1. IdIn(art, a) \in DOMAIN art' /\ art'[IdIn(art, a)] = a
    BY IdOfHeld
  <1>2. PICK i, k : i = IdIn(art, a) /\ k = KeyOf(a)
    OBVIOUS
  <1>3. Bind(k, i) /\ i \in DOMAIN art' /\ KeyOf(art'[i]) = k /\ k \in Keys
    BY <1>1, <1>2 DEF KeyOf
  <1> QED BY <1>3, BindStored

LEMMA PublishStored ==
    ASSUME TypeInv, CpStored, ArtStays, NEW a, KeyOf(a) \in Keys, Publish(a)
    PROVE  CpStored'
  <1>1. IdIn(art, a) \in DOMAIN art' /\ art'[IdIn(art, a)] = a
    BY WithHolds DEF Publish, PublishOnly, TypeInv, TypeOK, DataOK
  <1>2. PICK i, k : i = IdIn(art, a) /\ k = KeyOf(a)
    OBVIOUS
  <1>3. Bind(k, i) /\ i \in DOMAIN art' /\ KeyOf(art'[i]) = k /\ k \in Keys
    BY <1>1, <1>2 DEF KeyOf, Publish
  <1> QED BY <1>3, BindStored

\* The artifacts of a decision are checkpointed under their own keys.
Decided(ids) ==
    /\ BindAll(ids) /\ DOMAIN ids \subseteq DecisionKeys
    /\ \A k \in DOMAIN ids : ids[k] \in DOMAIN art' /\ KeyOf(art'[ids[k]]) = k

LEMMA FinalizeDecides == ASSUME TypeInv, Finalize
                         PROVE  \E ids : Decided(ids) /\ G("edit_resolution") \in DOMAIN ids
  <1>1. PICK deps, items, queueDeps :
          LET final == Saved(G("edit_resolution"), deps, items)
              art1  == With(art, final)
              queue == Saved(G("review_queue"), queueDeps, items)
              ids   == [k \in {G("edit_resolution"), G("review_queue")} |->
                          IF k = G("edit_resolution") THEN IdIn(art, final)
                          ELSE IdIn(art1, queue)]
          IN  art' = With(art1, queue) /\ BindAll(ids)
    BY DEF Finalize
  <1>2. PICK final, queue : final = Saved(G("edit_resolution"), deps, items)
                            /\ queue = Saved(G("review_queue"), queueDeps, items)
    OBVIOUS
  <1>3. PICK i, j : i = IdIn(art, final) /\ j = IdIn(With(art, final), queue)
    OBVIOUS
  <1>4. art' = With(With(art, final), queue)
    BY <1>1, <1>2
  <1>5. PICK ids : ids = [k \in {G("edit_resolution"), G("review_queue")} |->
                            IF k = G("edit_resolution") THEN i ELSE j]
    OBVIOUS
  <1>6. BindAll(ids)
    BY <1>1, <1>2, <1>3, <1>5
  <1>7. i \in DOMAIN art' /\ art'[i] = final /\ j \in DOMAIN art' /\ art'[j] = queue
    <2>1. art \in Seq(ArtifactRows)
      BY DEF TypeInv, TypeOK, DataOK
    <2>2. PICK u : u = With(art, final)
      OBVIOUS
    <2>3. u \in Seq(ArtifactRows \cup {final})
      <3>1. art \in Seq(ArtifactRows \cup {final}) /\ final \in ArtifactRows \cup {final}
        BY <2>1
      <3> QED BY <2>2, <3>1, WithType
    <2>4. i \in DOMAIN u /\ u[i] = final
      BY <1>3, <2>1, <2>2, WithHolds
    <2>5. Extends(u, art') /\ j \in DOMAIN art' /\ art'[j] = queue
      BY <1>3, <1>4, <2>2, <2>3, WithHolds
    <2> QED BY <2>4, <2>5 DEF Extends
  <1>8. KeyOf(final) = G("edit_resolution") /\ KeyOf(queue) = G("review_queue")
    BY <1>2 DEF Saved, Artifact, KeyOf, G
  <1>9. /\ DOMAIN ids = {G("edit_resolution"), G("review_queue")}
        /\ ids[G("edit_resolution")] = i /\ ids[G("review_queue")] = j
    BY <1>5 DEF G
  <1> QED BY <1>6, <1>7, <1>8, <1>9 DEF Decided, DecisionKeys

LEMMA ReviewDecides == ASSUME TypeInv, ResolveReview PROVE \E ids : Decided(ids)
  <1>0. PICK q \in Queues :
          LET base   == Cp(G("base_asr"))
              review == Saved(G("review_resolution"), {q, base}, {})
              art1   == With(art, review)
              final  == Saved(G("edit_resolution"),
                              {base, Cp(G("merge_plan")), Cp(G("edit_resolution")),
                               IdIn(art, review)}, {})
              art2   == With(art1, final)
              queue  == Saved(G("review_queue"), {IdIn(art1, final)}, {})
              ids    == [k \in {G("review_resolution"), G("edit_resolution"),
                                G("review_queue")} |->
                           CASE k = G("review_resolution") -> IdIn(art, review)
                             [] k = G("edit_resolution")   -> IdIn(art1, final)
                             [] k = G("review_queue")      -> IdIn(art2, queue)]
          IN  art' = With(art2, queue) /\ BindAll(ids)
    BY DEF ResolveReview
  <1>1. PICK review : review = Saved(G("review_resolution"), {q, Cp(G("base_asr"))}, {})
    OBVIOUS
  <1>2. art \in Seq(ArtifactRows)
    BY DEF TypeInv, TypeOK, DataOK
  <1>3. PICK u : u = With(art, review)
    OBVIOUS
  <1>3a. PICK final : final = Saved(G("edit_resolution"),
                                    {Cp(G("base_asr")), Cp(G("merge_plan")),
                                     Cp(G("edit_resolution")), IdIn(art, review)}, {})
    OBVIOUS
  <1>3b. PICK queue : queue = Saved(G("review_queue"), {IdIn(u, final)}, {})
    OBVIOUS
  <1>4. PICK h, i, j : h = IdIn(art, review) /\ i = IdIn(u, final) /\ j = IdIn(With(u, final), queue)
    OBVIOUS
  <1>5. art' = With(With(u, final), queue)
    BY <1>0, <1>1, <1>3, <1>3a, <1>3b
  <1>6. PICK ids : ids = [k \in {G("review_resolution"), G("edit_resolution"),
                                 G("review_queue")} |->
                            CASE k = G("review_resolution") -> h
                              [] k = G("edit_resolution")   -> i
                              [] k = G("review_queue")      -> j]
    OBVIOUS
  <1>7. BindAll(ids)
    BY <1>0, <1>1, <1>3, <1>3a, <1>3b, <1>4, <1>6
  <1>8. u \in Seq(ArtifactRows \cup {review})
    <2>1. art \in Seq(ArtifactRows \cup {review}) /\ review \in ArtifactRows \cup {review}
      BY <1>2
    <2> QED BY <1>3, <2>1, WithType
  <1>9. h \in DOMAIN u /\ u[h] = review
    BY <1>2, <1>3, <1>4, WithHolds
  <1>10. PICK v : v = With(u, final)
    OBVIOUS
  <1>11. /\ Extends(u, v) /\ i \in DOMAIN v /\ v[i] = final
         /\ v \in Seq(ArtifactRows \cup {review} \cup {final})
    <2>1. Extends(u, v) /\ i \in DOMAIN v /\ v[i] = final
      BY <1>4, <1>8, <1>10, WithHolds
    <2>2. u \in Seq(ArtifactRows \cup {review} \cup {final})
          /\ final \in ArtifactRows \cup {review} \cup {final}
      BY <1>8
    <2> QED BY <1>10, <2>1, <2>2, WithType
  <1>12. Extends(v, art') /\ j \in DOMAIN art' /\ art'[j] = queue
    BY <1>4, <1>5, <1>10, <1>11, WithHolds
  <1>13. h \in DOMAIN art' /\ art'[h] = review /\ i \in DOMAIN art' /\ art'[i] = final
    BY <1>9, <1>11, <1>12 DEF Extends
  <1>14. /\ KeyOf(final) = G("edit_resolution") /\ KeyOf(queue) = G("review_queue")
         /\ KeyOf(review) = G("review_resolution")
    BY <1>1, <1>3a, <1>3b DEF Saved, Artifact, KeyOf, G
  <1>15. /\ DOMAIN ids = {G("review_resolution"), G("edit_resolution"), G("review_queue")}
         /\ ids[G("review_resolution")] = h
         /\ ids[G("edit_resolution")] = i /\ ids[G("review_queue")] = j
    BY <1>6 DEF G
  <1> QED BY <1>7, <1>12, <1>13, <1>14, <1>15 DEF Decided, DecisionKeys


\* The result of a call in flight has its place among the checkpoints.
LEMMA SlotKey ==
    ASSUME TypeInv, CallInv, NEW s \in Slots, slot[s].inv # 0, pc \notin Ending
    PROVE  CallKeyOf(slot[s].inv) \in Keys
  <1>1. /\ inv[slot[s].inv].op = OpOf(s) /\ inv[slot[s].inv].scope = ScopeOf(s)
    BY DEF CallInv, CallsKnown, InFlight
  <1>2. CASE s # "main"
    <2>1. s \in Arms
      BY <1>2 DEF Slots
    <2>2. OpOf(s) = ArmOp(s) /\ ScopeOf(s) = s
      BY <1>2 DEF OpOf, ScopeOf
    <2>3. ResultKind(ArmOp(s)) = "correction_transcript"
      BY <2>1 DEF ResultKind, ArmOp, Arms
    <2> QED BY <1>1, <2>1, <2>2, <2>3, KeysOfKinds DEF CallKeyOf, ArmKey
  <1>3. CASE s = "main" /\ pc # "select"
    <2>1. pc \in {"upload", "base", "peer", "ata"}
      BY <1>3 DEF TypeInv, CallsInPlace, Ending, Arms
    <2>2. OpOf(s) = MainCall[pc] /\ ScopeOf(s) = "global"
      BY <1>3 DEF OpOf, ScopeOf, CallScope
    <2>3. ResultKind(MainCall[pc]) \in {"media_object", "base_asr", "peer_asr", "ata_response"}
      BY <2>1 DEF ResultKind, MainCall
    <2>4. CallKeyOf(slot[s].inv) = G(ResultKind(MainCall[pc]))
      BY <1>1, <2>2 DEF CallKeyOf, G
    <2> QED BY <2>3, <2>4, KeysOfKinds, KindSet
  <1>4. CASE s = "main" /\ pc = "select"
    <2>1. todo # {} /\ todo \subseteq Batches
      BY <1>4 DEF TypeInv, CallsInPlace, Ending, Arms, TypeOK, LocalsOK
    <2>2. Batch \in Batches
      BY <2>1 DEF Batch
    <2>3. OpOf(s) = "glm_selection" /\ ScopeOf(s) = Batch
      BY <1>4 DEF OpOf, ScopeOf, CallScope, MainCall
    <2>4. ResultKind("glm_selection") = "selection_result"
      BY DEF ResultKind
    <2> QED BY <1>1, <2>2, <2>3, <2>4, KeysOfKinds DEF CallKeyOf
  <1> QED BY <1>2, <1>3, <1>4

\* What a call in flight is known to be, when it can be answered.
LEMMA AnsweredCall ==
    ASSUME TypeInv, CallInv, NEW s \in Slots, Answered(s)
    PROVE  /\ slot[s].inv # 0 /\ pc \notin Ending /\ slot[s].inv \in DOMAIN inv
           /\ InFlight(s) /\ CallKeyOf(slot[s].inv) \in Keys
  <1>1. slot[s].inv # 0 /\ pc \notin Ending
    BY BusySlot DEF Answered, Doing, Active
  <1>2. slot[s].inv \in DOMAIN inv
    BY SlotRow DEF Answered
  <1> QED BY <1>1, <1>2, SlotKey DEF CallInv, CallsKnown

\* Every step that writes a checkpoint writes that of a stored artifact.
LEMMA LocalWritersStored ==
    ASSUME TypeInv, ControlInv, StoreInv, ArtStays, LocalWriters
    PROVE  CpStored'
  <1> USE DEF dataVars
  <1>1. CpStored /\ Prepared
    BY DEF StoreInv
  <1>2. UNCHANGED <<cp, art>> => CpStored'
    BY <1>1 DEF CpStored, KeptAt
  <1>3. /\ KeyOf(OriginalJob) = G("job_input") /\ KeyOf(EffectiveJob) = G("job_input")
        /\ KeyOf(Probe) = G("media_probe") /\ KeyOf(Timeline) = G("timeline_audio")
        /\ KeyOf(Comparison) = G("asr_comparison")
    BY DEF OriginalJob, EffectiveJob, Probe, Timeline, Comparison, Artifact, KeyOf, G
  <1>4. \A k \in {"job_input", "media_probe", "timeline_audio", "asr_comparison", "merge_plan",
                  "transcript", "ata_result"} : G(k) \in Keys
    BY KeysOfKinds, KindSet
  <1>5. \A key, deps, body : KeyOf(Saved(key, deps, body)) = <<key[1], key[2]>>
    BY DEF Saved, Artifact, KeyOf
  <1>6. CASE IntakeCheckpoint \/ JobStage
    <2>1. bound
      BY <1>6, ExecutingSet DEF IntakeCheckpoint, JobStage, ControlInv, BoundAt
    <2>2. Holds(art, OriginalJob)
      BY <1>1, <2>1 DEF Prepared
    <2>3. UNCHANGED art /\ (UNCHANGED cp \/ Bind(KeyOf(OriginalJob), IdIn(art, OriginalJob)))
      BY <1>3, <1>6 DEF IntakeCheckpoint, JobStage, OriginalJobId
    <2>4. KeyOf(OriginalJob) \in Keys
      BY <1>3, <1>4
    <2> QED BY <1>1, <1>2, <2>2, <2>3, <2>4, LookedUpStored
  <1>7. CASE BindMedia
    <2>1. Holds(art, Probe) /\ Holds(art, Timeline) /\ UNCHANGED art
      BY <1>1, <1>7 DEF Prepared, BindMedia
    <2>2. With(art, Probe) = art
      BY <2>1 DEF With, Holds
    <2>3. \/ Bind(KeyOf(Probe), IdIn(art, Probe)) \/ Bind(KeyOf(Timeline), IdIn(art, Timeline))
      BY <1>3, <1>7, <2>2 DEF BindMedia, TimelineId
    <2>4. KeyOf(Probe) \in Keys /\ KeyOf(Timeline) \in Keys
      BY <1>3, <1>4
    <2> QED BY <1>1, <2>1, <2>3, <2>4, LookedUpStored
  <1>8. CASE BindCompare
    <2>1. Holds(art, Comparison) /\ UNCHANGED art /\ Bind(KeyOf(Comparison), IdIn(art, Comparison))
      BY <1>1, <1>3, <1>8 DEF Prepared, BindCompare
    <2>2. KeyOf(Comparison) \in Keys
      BY <1>3, <1>4
    <2> QED BY <1>1, <2>1, <2>2, LookedUpStored
  <1>9. CASE BindJob
    <2>1. Holds(art, EffectiveJob) /\ UNCHANGED art
          /\ Bind(KeyOf(EffectiveJob), IdIn(art, EffectiveJob))
      BY <1>1, <1>3, <1>9 DEF Prepared, BindJob
    <2>2. KeyOf(EffectiveJob) \in Keys
      BY <1>3, <1>4
    <2> QED BY <1>1, <2>1, <2>2, LookedUpStored
  <1>10. CASE PlanStage \/ SaveTranscript \/ SaveAtaResult
    <2>1. \/ UNCHANGED <<cp, art>>
          \/ \E a : Publish(a) /\ KeyOf(a) \in {G("merge_plan"), G("transcript"), G("ata_result")}
      BY <1>5, <1>10 DEF PlanStage, SaveTranscript, SaveAtaResult, G
    <2> QED BY <1>1, <1>2, <1>4, <2>1, PublishStored
  <1>11. CASE SaveBatch
    <2>1. todo # {} /\ todo \subseteq Batches
      BY <1>11 DEF SaveBatch, TypeInv, TypeOK, LocalsOK
    <2>2. Batch \in Batches
      BY <2>1 DEF Batch
    <2>3. \E a : Publish(a) /\ KeyOf(a) = <<"selection_batch", Batch>>
      BY <1>5, <1>11 DEF SaveBatch
    <2> QED BY <1>1, <2>2, <2>3, KeysOfKinds, PublishStored
  <1> QED BY <1>6, <1>7, <1>8, <1>9, <1>10, <1>11 DEF LocalWriters

\* The checkpoints of a new round are those of the old one, or missing.
LEMMA RetryCells ==
    ASSUME TypeInv, RetryRun
    PROVE  /\ \A r \in 0..MaxRounds : \A k \in Keys : r # round + 1 => cp'[r][k] = cp[r][k]
           /\ round + 1 \in 0..MaxRounds
           /\ \A k \in Keys : cp'[round + 1][k] =
                 IF k[1] \in Excluded \/ k \in FailedKeys THEN 0 ELSE cp[round][k]
  <1> DEFINE row == [k \in Keys |-> IF k[1] \in Excluded \/ k \in FailedKeys
                                    THEN 0 ELSE cp[round][k]]
  <1>1. cp \in Checkpoints /\ round + 1 \in 0..MaxRounds
    BY BoundsAssumption DEF TypeInv, TypeOK, RowsOK, DataOK, Rounds, RetryRun, RoomForRound
  <1>2. cp' = [cp EXCEPT ![round + 1] = row]
    BY DEF RetryRun
  <1>3. \A k \in Keys : row[k] = IF k[1] \in Excluded \/ k \in FailedKeys THEN 0 ELSE cp[round][k]
    OBVIOUS
  <1> HIDE DEF row
  <1> QED BY <1>1, <1>2, <1>3 DEF Checkpoints

\* An invalidation only removes checkpoints.
LEMMA InvalidateCells ==
    ASSUME TypeInv, Invalidate
    PROVE  LET stages == {"job_input"} \cup Descendants({"job_input"})
           IN  \A r \in 0..MaxRounds : \A k \in Keys :
                  cp'[r][k] = IF \/ r = 0 /\ k[1] \in stages \cap SharedStages
                                 \/ r = round /\ k[1] \in stages \ SharedStages
                              THEN 0 ELSE cp[r][k]
  <1> DEFINE stages == {"job_input"} \cup Descendants({"job_input"})
             shared == [k \in Keys |-> IF k[1] \in stages \cap SharedStages THEN 0 ELSE cp[0][k]]
             own    == [k \in Keys |-> IF k[1] \in stages \ SharedStages
                                       THEN 0 ELSE cp[round][k]]
  <1>1. cp \in Checkpoints /\ round \in 0..MaxRounds /\ 0 \in 0..MaxRounds /\ round # 0
    BY BoundsAssumption DEF TypeInv, TypeOK, RowsOK, DataOK, Rounds
  <1>2. cp' = [cp EXCEPT ![0] = shared, ![round] = own]
    BY DEF Invalidate
  <1>3. \A k \in Keys : /\ shared[k] = IF k[1] \in stages \cap SharedStages THEN 0 ELSE cp[0][k]
                        /\ own[k] = IF k[1] \in stages \ SharedStages THEN 0 ELSE cp[round][k]
    OBVIOUS
  <1> HIDE DEF stages, shared, own
  <1>4. \A r \in 0..MaxRounds : \A k \in Keys :
                  cp'[r][k] = IF \/ r = 0 /\ k[1] \in stages \cap SharedStages
                                 \/ r = round /\ k[1] \in stages \ SharedStages
                              THEN 0 ELSE cp[r][k]
    BY <1>1, <1>2, <1>3 DEF Checkpoints
  <1> QED BY <1>4 DEF stages

LEMMA CpStoredStep ==
    ASSUME TypeInv, ControlInv, CallInv, StoreInv, Next, ArtStays
    PROVE  CpStored'
  <1>1. CpStored
    BY DEF StoreInv
  <1>2. (\A r \in 0..MaxRounds : \A k \in Keys :
            \/ cp'[r][k] \in {0, cp[r][k], cp[round][k]}
            \/ cp'[r][k] \in DOMAIN art' /\ KeyOf(art'[cp'[r][k]]) = k)
          => CpStored'
    <2> SUFFICES ASSUME NEW r \in 0..MaxRounds, NEW k \in Keys, cp'[r][k] # 0,
                        cp'[r][k] = cp[r][k] \/ cp'[r][k] = cp[round][k]
                 PROVE  cp'[r][k] \in DOMAIN art' /\ KeyOf(art'[cp'[r][k]]) = k
      BY DEF CpStored, KeptAt
    <2>1. round \in 0..MaxRounds
      BY BoundsAssumption DEF TypeInv, TypeOK, RowsOK, Rounds
    <2>2. cp'[r][k] \in DOMAIN art /\ KeyOf(art[cp'[r][k]]) = k
      BY <1>1, <2>1 DEF CpStored, KeptAt
    <2> QED BY <2>2 DEF ArtStays, Extends
  <1>3. CASE LocalWriters
    BY <1>3, LocalWritersStored
  <1>4. CASE Deciders
    <2>1. PICK ids : Decided(ids)
      BY <1>4, FinalizeDecides, ReviewDecides DEF Deciders
    <2> QED BY <1>2, <2>1, BindAllCells DEF Decided
  <1>5. CASE RetryRun
    BY <1>2, <1>5, RetryCells
  <1>6. CASE Invalidate
    BY <1>2, <1>6, InvalidateCells
  <1>7. ASSUME NEW s \in Slots, Succeed(s) PROVE CpStored'
    <2>1. CallKeyOf(slot[s].inv) \in Keys
      BY <1>7, AnsweredCall DEF Succeed
    <2>2. \E a : Publish(a) /\ KeyOf(a) = CallKeyOf(slot[s].inv)
      <3>1. \A key, deps, mark, body : KeyOf(Artifact(key, deps, mark, body)) = <<key[1], key[2]>>
        BY DEF Artifact, KeyOf
      <3> QED BY <1>7, <3>1 DEF Succeed, CallKeyOf
    <2> QED BY <1>1, <2>1, <2>2, PublishStored
  <1>8. CASE UNCHANGED <<cp, round>>
    BY <1>2, <1>8
  <1> QED BY <1>3, <1>4, <1>5, <1>6, <1>7, <1>8, CpQuiet

\* The store is in order in every execution.
LEMMA StoreStep ==
    ASSUME TypeInv, ControlInv, CallInv, StoreInv, Next
    PROVE  StoreInv'
  <1>1. ArtStays
    BY ArtStaysAlways
  <1> QED BY <1>1, PreparedStep, CpStoredStep DEF StoreInv, ArtStays


-----------------------------------------------------------------------------
(* Where rows come from and where successes come from.                     *)

\* A new row asks for a result that is missing, with the inputs of now: at the place of
\* the call, or again for a call that has just failed.
Asks(op, scope) ==
    /\ Len(inv') = Len(inv) + 1 /\ \A j \in DOMAIN inv : inv'[j] = inv[j]
    /\ inv'[Len(inv) + 1] = [op |-> op, scope |-> scope, status |-> "created", round |-> round,
                             retryOf |-> inv'[Len(inv) + 1].retryOf,
                             inputs |-> Inputs(op, scope), remote |-> FALSE, art |-> 0]
    /\ UNCHANGED <<rowVars, dataVars, prep, pc>>
    /\ Cp(<<ResultKind(op), scope>>) = 0
    /\ \/ pc \in DOMAIN MainCall /\ op = MainCall[pc] /\ scope = CallScope
       \/ pc \in Arms /\ op = ArmOp(pc) /\ scope = pc
       \/ \E k \in DOMAIN inv : /\ inv[k].op = op /\ inv[k].scope = scope
                                /\ inv[k].round = round /\ inv[k].inputs = Inputs(op, scope)

Askers == CallBegin \/ ArmBegin \/ \E s \in Slots : Resubmit(s)

LEMMA AskersAsk ==
    ASSUME TypeInv, CallInv, Askers
    PROVE  \E op, scope : Asks(op, scope)
  <1>1. ASSUME NEW op, NEW scope, NEW s, NEW previous, NEW tries,
               NewInvocation(op, scope, s, previous, tries)
        PROVE  /\ Len(inv') = Len(inv) + 1 /\ \A j \in DOMAIN inv : inv'[j] = inv[j]
               /\ inv'[Len(inv) + 1] = [op |-> op, scope |-> scope, status |-> "created",
                                        round |-> round,
                                        retryOf |-> inv'[Len(inv) + 1].retryOf,
                                        inputs |-> Inputs(op, scope), remote |-> FALSE,
                                        art |-> 0]
    <2>1. /\ Len(inv') = Len(inv) + 1 /\ \A j \in DOMAIN inv : inv'[j] = inv[j]
          /\ inv'[Len(inv) + 1] = [op |-> op, scope |-> scope, status |-> "created",
                                   round |-> round, retryOf |-> previous,
                                   inputs |-> Inputs(op, scope), remote |-> FALSE, art |-> 0]
      BY <1>1, AppendRows
    <2>2. inv'[Len(inv) + 1].retryOf = previous
      BY <2>1
    <2> QED BY <2>1, <2>2
  <1>2. CASE CallBegin
    <2>1. PICK op, scope : op = MainCall[pc] /\ scope = CallScope
      OBVIOUS
    <2>2. NewInvocation(op, scope, "main", Predecessor(op, scope), 0)
      BY <1>2, <2>1 DEF CallBegin
    <2>3. Cp(<<ResultKind(op), scope>>) = 0 /\ pc \in DOMAIN MainCall
          /\ UNCHANGED <<rowVars, dataVars, prep, pc>>
      BY <1>2, <2>1 DEF CallBegin, CallKey, CallPending
    <2>4. Asks(op, scope)
      BY <1>1, <2>1, <2>2, <2>3 DEF Asks
    <2> QED BY <2>4
  <1>3. CASE ArmBegin
    <2>1. PICK op, scope : op = ArmOp(pc) /\ scope = pc
      OBVIOUS
    <2>2. NewInvocation(op, scope, scope, Predecessor(op, scope), 0) /\ pc \in Arms
          /\ UNCHANGED <<rowVars, dataVars, prep, pc>>
      BY <1>3, <2>1 DEF ArmBegin
    <2>3. <<ResultKind(op), scope>> = ArmKey(pc)
      BY <2>1, <2>2 DEF ResultKind, ArmOp, Arms, ArmKey
    <2>4. Cp(<<ResultKind(op), scope>>) = 0
      BY <1>3, <2>3 DEF ArmBegin
    <2>5. Asks(op, scope)
      BY <1>1, <2>1, <2>2, <2>4 DEF Asks
    <2> QED BY <2>5
  <1>4. ASSUME NEW s \in Slots, Resubmit(s) PROVE \E op, scope : Asks(op, scope)
    <2>1. Active /\ Doing(s) = "explicit_failure"
      BY <1>4 DEF Resubmit
    <2>2. slot[s].inv # 0 /\ pc \notin Ending /\ slot[s].inv \in DOMAIN inv
      BY <2>1, BusySlot, SlotRow
    <2>3. InFlight(s)
      BY <2>2 DEF CallInv, CallsKnown
    <2>4. PICK op, scope, k : k = slot[s].inv /\ op = inv[k].op /\ scope = inv[k].scope
      OBVIOUS
    <2>5. NewInvocation(op, scope, s, k, 1) /\ UNCHANGED <<rowVars, dataVars, prep, pc>>
      BY <1>4, <2>4 DEF Resubmit
    <2>6. /\ inv[k].round = round /\ inv[k].inputs = Inputs(op, scope)
          /\ Cp(<<ResultKind(op), scope>>) = 0
      BY <2>3, <2>4 DEF InFlight, CallKeyOf
    <2>7. Asks(op, scope)
      BY <1>1, <2>2, <2>4, <2>5, <2>6 DEF Asks
    <2> QED BY <2>7
  <1> QED BY <1>2, <1>3, <1>4 DEF Askers

\* Rows are created by the steps that ask, and a call succeeds by its answer only.
LEMMA RowOrigins ==
    ASSUME TypeInv, Next, ~Askers
    PROVE  /\ DOMAIN inv' = DOMAIN inv
           /\ \A i \in DOMAIN inv :
                inv'[i].status = "succeeded" /\ inv[i].status # "succeeded" =>
                   \E s \in Slots : Succeed(s) /\ i = slot[s].inv
  <1> DEFINE Fine == /\ DOMAIN inv' = DOMAIN inv
                     /\ \A i \in DOMAIN inv :
                          inv'[i].status = "succeeded" /\ inv[i].status # "succeeded" =>
                             \E s \in Slots : Succeed(s) /\ i = slot[s].inv
  <1>0. inv \in Seq(InvocationRows) /\ DOMAIN inv = 1..Len(inv)
    BY DEF TypeInv, TypeOK, DataOK
  <1>1. ASSUME NEW k, NEW r, Answer(k, r), r.status # "succeeded" PROVE Fine
    <2>1. /\ inv' = [inv EXCEPT ![k] = r] /\ k \in DOMAIN inv
      BY <1>1 DEF Answer
    <2> QED BY <1>0, <1>1, <2>1
  <1>2. ASSUME NEW c \in Commands, Enter(c) PROVE Fine
    <2>1. Recover
      BY <1>2 DEF Enter
    <2>2. CASE RunStatus = "running"
      <3>1. inv' = [i \in DOMAIN inv |-> Recovered(i)]
        BY <2>1, <2>2 DEF Recover
      <3>2. \A i \in DOMAIN inv : Recovered(i).status = "succeeded" => inv[i].status = "succeeded"
        BY <1>0 DEF Recovered, InvocationRows
      <3> QED BY <3>1, <3>2
    <2>3. CASE RunStatus # "running"
      BY <2>1, <2>3 DEF Recover
    <2> QED BY <2>2, <2>3
  <1>3. CASE Receipt
    <2>1. "main" \in Slots
      BY DEF Slots
    <2>2. Doing("main") = "sending" /\ slot["main"].inv \in DOMAIN inv
      BY <1>3, <2>1, SlotRow DEF Receipt, Answered
    <2>3. inv[slot["main"].inv].status # "succeeded" /\ inv[slot["main"].inv] \in InvocationRows
      BY <1>0, <2>2 DEF Doing
    <2>4. [inv[slot["main"].inv] EXCEPT !.remote = TRUE].status # "succeeded"
      BY <2>3 DEF InvocationRows
    <2> QED BY <1>1, <1>3, <2>1, <2>4, FlightAnswers
  <1>4. ASSUME NEW s \in Slots, NEW st \in {"sending", "explicit_failure"} \cup FailedStatuses,
               Answer(slot[s].inv, [inv[slot[s].inv] EXCEPT !.status = st])
        PROVE  Fine
    <2>1. inv[slot[s].inv] \in InvocationRows
      BY <1>0, <1>4 DEF Answer
    <2>2. [inv[slot[s].inv] EXCEPT !.status = st].status # "succeeded"
      BY <2>1 DEF InvocationRows, FailedStatuses
    <2> QED BY <1>1, <1>4, <2>2
  <1>5. ASSUME NEW s \in Slots, MarkSending(s) \/ CompletedInvalid(s) \/ CallCancelled(s)
        PROVE  Fine
    BY <1>4, <1>5, FlightAnswers DEF FailedStatuses
  <1>6. ASSUME NEW s \in Slots, NEW st \in FailedStatuses, CallFails(s, st) PROVE Fine
    BY <1>4, <1>6, FlightAnswers
  <1>7. ASSUME NEW s \in Slots, Succeed(s) PROVE Fine
    <2>1. PICK id : Answer(slot[s].inv, [inv[slot[s].inv] EXCEPT !.status = "succeeded", !.art = id])
      BY <1>7, FlightAnswers
    <2>2. PICK k, r : /\ k = slot[s].inv /\ k \in DOMAIN inv
                      /\ inv' = [inv EXCEPT ![k] = r]
      BY <2>1 DEF Answer
    <2> QED BY <1>0, <1>7, <2>2
  <1>8. CASE UNCHANGED inv
    BY <1>8
  <1> QED BY <1>2, <1>3, <1>5, <1>6, <1>7, <1>8, QuietRows DEF Askers


\* A row that was not there is one that has just been asked for.
LEMMA NewRow ==
    ASSUME TypeInv, CallInv, Next, NEW i \in DOMAIN inv', i \notin DOMAIN inv
    PROVE  i = Len(inv) + 1 /\ \E op, scope : Asks(op, scope)
  <1>1. Askers
    BY RowOrigins
  <1>2. PICK op, scope : Asks(op, scope)
    BY <1>1, AskersAsk
  <1>3. DOMAIN inv = 1..Len(inv) /\ Len(inv) \in Nat /\ DOMAIN inv' = 1..Len(inv')
    <2>1. inv \in Seq(InvocationRows)
      BY DEF TypeInv, TypeOK, DataOK
    <2>2. \E row : inv' = Append(inv, row)
      BY <1>1 DEF Askers, CallBegin, ArmBegin, Resubmit, NewInvocation
    <2> QED BY <2>1, <2>2
  <1>4. Len(inv') = Len(inv) + 1
    BY <1>2 DEF Asks
  <1>5. i = Len(inv) + 1
    BY <1>3, <1>4
  <1> QED BY <1>2, <1>5

\* How an answered call commits: its row succeeds with the id of what it published, which
\* is the checkpoint of its key, missing until now.
LEMMA SucceedRow ==
    ASSUME TypeInv, CallInv, NEW s \in Slots, Succeed(s), NEW k, k = slot[s].inv
    PROVE  /\ k \in DOMAIN inv /\ DOMAIN inv' = DOMAIN inv
           /\ \A j \in DOMAIN inv : j # k => inv'[j] = inv[j]
           /\ inv'[k].status = "succeeded" /\ inv'[k].art # 0
           /\ UNCHANGED <<round, prep>> /\ InFlight(s) /\ CallKeyOf(k) \in Keys
           /\ Bind(CallKeyOf(k), inv'[k].art)
  <1>2. InFlight(s) /\ k \in DOMAIN inv /\ CallKeyOf(k) \in Keys
    BY AnsweredCall DEF Succeed
  <1>3. PICK a : /\ Publish(a) /\ KeyOf(a) = CallKeyOf(k)
                 /\ inv' = [inv EXCEPT ![k].status = "succeeded", ![k].art = IdIn(art, a)]
    <2>1. PICK a : a = Artifact(<<ResultKind(inv[k].op), inv[k].scope>>,
                                inv[k].inputs \cup IF inv[k].op = "ata"
                                                   THEN {Cp(G("timeline_audio"))} ELSE {},
                                k, {})
      OBVIOUS
    <2>2. Publish(a) /\ inv' = [inv EXCEPT ![k].status = "succeeded", ![k].art = IdIn(art, a)]
      BY <2>1 DEF Succeed
    <2>3. KeyOf(a) = CallKeyOf(k)
      BY <2>1 DEF Artifact, KeyOf, CallKeyOf
    <2> QED BY <2>2, <2>3
  <1>4. PICK id : id = IdIn(art, a)
    OBVIOUS
  <1>5. id \in Nat \ {0}
    BY <1>4, IdInPositive DEF TypeInv, TypeOK, DataOK
  <1>6. inv \in Seq(InvocationRows) /\ inv[k] \in InvocationRows
    BY <1>2 DEF TypeInv, TypeOK, DataOK
  <1>7. inv' = [inv EXCEPT ![k] = [inv[k] EXCEPT !.status = "succeeded", !.art = id]]
    BY <1>3, <1>4
  <1>8. /\ DOMAIN inv' = DOMAIN inv /\ \A j \in DOMAIN inv : j # k => inv'[j] = inv[j]
        /\ inv'[k] = [inv[k] EXCEPT !.status = "succeeded", !.art = id]
    BY <1>2, <1>6, <1>7
  <1>9. inv'[k].status = "succeeded" /\ inv'[k].art = id
    BY <1>6, <1>8 DEF InvocationRows
  <1>10. Bind(CallKeyOf(k), id) /\ UNCHANGED <<round, prep>>
    BY <1>3, <1>4 DEF Publish, Succeed, rowVars
  <1> QED BY <1>2, <1>5, <1>8, <1>9, <1>10


-----------------------------------------------------------------------------
(* Descendants of a stage.                                                 *)

\* A set of stages that feeds only itself contains all descendants of what feeds only it.
LEMMA TwiceWithin ==
    ASSUME NEW S \in SUBSET Kinds, NEW x \in Kinds, NEW t, \A k \in S : t[k] \subseteq S,
           t[x] \subseteq S
    PROVE  (\A k \in S : Twice(t)[k] \subseteq S) /\ Twice(t)[x] \subseteq S
  BY DEF Twice

LEMMA DescendantsWithin ==
    ASSUME NEW S \in SUBSET Kinds, NEW x \in Kinds, \A k \in S : Downstream(k) \subseteq S,
           Downstream(x) \subseteq S
    PROVE  Descendants({x}) \subseteq S
  <1> DEFINE t0 == [k \in Kinds |-> Downstream(k)]
             t1 == Twice(t0)
             t2 == Twice(t1)
             t3 == Twice(t2)
             t4 == Twice(t3)
  <1>0. (\A k \in S : t0[k] \subseteq S) /\ t0[x] \subseteq S
    OBVIOUS
  <1> HIDE DEF t0
  <1>1. (\A k \in S : t1[k] \subseteq S) /\ t1[x] \subseteq S
    BY <1>0, TwiceWithin
  <1> HIDE DEF t1
  <1>2. (\A k \in S : t2[k] \subseteq S) /\ t2[x] \subseteq S
    BY <1>1, TwiceWithin
  <1> HIDE DEF t2
  <1>3. (\A k \in S : t3[k] \subseteq S) /\ t3[x] \subseteq S
    BY <1>2, TwiceWithin
  <1> HIDE DEF t3
  <1>4. (\A k \in S : t4[k] \subseteq S) /\ t4[x] \subseteq S
    BY <1>3, TwiceWithin
  <1>5. DescendantTable = t4
    BY DEF DescendantTable, t0, t1, t2, t3
  <1> HIDE DEF t4
  <1> QED BY <1>4, <1>5 DEF Descendants

\* The job_input feeds no stage that rounds share.
LEMMA JobFeeds == Descendants({"job_input"}) \cap SharedStages = {}
  <1>1. RoundStages \in SUBSET Kinds /\ "job_input" \in RoundStages
    BY DEF Kinds, RoundStages
  <1>2. \A k \in RoundStages : Downstream(k) \subseteq RoundStages
    BY DEF RoundStages, Downstream
  <1>3. Descendants({"job_input"}) \subseteq RoundStages
    BY <1>1, <1>2, DescendantsWithin
  <1> QED BY <1>3 DEF RoundStages, SharedStages

-----------------------------------------------------------------------------
(* The Reference inputs of a round.                                        *)

\* One step opens rounds, and one prepares References.
LEMMA RoundStays == ASSUME Next, ~RetryRun PROVE round' = round
  <1> USE DEF rowVars
  <1>1. CASE EntrySteps
    BY <1>1 DEF EntrySteps, IntakeJob, IntakeBind, IntakeCheckpoint, ResumeRun, RetryInvocation,
                ResolveReview, Refuse
  <1>2. CASE LocalStage
    BY <1>2 DEF LocalStage, SetRunning, Progress, JobStage, MediaReuse, MediaPrepare, BindMedia,
                Compare, BindCompare, PrepareReference, ReferencesPrepared, SameReferences,
                Invalidate, PublishJob, BindJob, PlanStage, ResolveStage, SaveBatch, Finalize,
                ReviewGate, SaveTranscript
  <1>3. CASE CallStep
    BY <1>3 DEF CallStep, CallReuse, CallRefused, CallBegin, ArmReuse, ArmRefused, ArmBegin,
                Receipt, Collected, MarkSending, Succeed, CallCancelled, CompletedInvalid,
                Resubmit, ResubmitFails, CallFails
  <1>4. CASE ExportStep
    BY <1>4 DEF ExportStep, ActivateInputs, SaveAtaResult, ActivateResult, Render, PersistOutputs,
                CommitSuccess, ProjectResult, LocalFailure, FailRun, FailCommit, Snapshot
  <1>5. CASE RequestCancel \/ Crash
    BY <1>5 DEF RequestCancel, Crash
  <1>6. ASSUME NEW c \in Commands, Enter(c) PROVE round' = round
    BY <1>6 DEF Enter
  <1> QED BY <1>1, <1>2, <1>3, <1>4, <1>5, <1>6 DEF Next, Writer

LEMMA PrepStays == ASSUME Next, ~PrepareReference PROVE prep' = prep
  <1>1. CASE EntrySteps
    BY <1>1 DEF EntrySteps, IntakeJob, IntakeBind, IntakeCheckpoint, ResumeRun, RetryRun,
                RetryInvocation, ResolveReview, Refuse
  <1>2. CASE LocalStage
    BY <1>2 DEF LocalStage, SetRunning, Progress, JobStage, MediaReuse, MediaPrepare, BindMedia,
                Compare, BindCompare, ReferencesPrepared, SameReferences,
                Invalidate, PublishJob, BindJob, PlanStage, ResolveStage, SaveBatch, Finalize,
                ReviewGate, SaveTranscript
  <1>3. CASE CallStep
    BY <1>3 DEF CallStep, CallReuse, CallRefused, CallBegin, ArmReuse, ArmRefused, ArmBegin,
                Receipt, Collected, MarkSending, Succeed, CallCancelled, CompletedInvalid,
                Resubmit, ResubmitFails, CallFails
  <1>4. CASE ExportStep
    BY <1>4 DEF ExportStep, ActivateInputs, SaveAtaResult, ActivateResult, Render, PersistOutputs,
                CommitSuccess, ProjectResult, LocalFailure, FailRun, FailCommit, Snapshot
  <1>5. CASE RequestCancel \/ Crash
    BY <1>5 DEF RequestCancel, Crash
  <1>6. ASSUME NEW c \in Commands, Enter(c) PROVE prep' = prep
    BY <1>6 DEF Enter
  <1> QED BY <1>1, <1>2, <1>3, <1>4, <1>5, <1>6 DEF Next, Writer

\* The steps that may write a checkpoint of the round in place.
Writes(key) ==
    \/ key = G("job_input") /\ (IntakeCheckpoint \/ JobStage \/ BindJob)
    \/ key \in {G("media_probe"), G("timeline_audio")} /\ BindMedia
    \/ key = G("asr_comparison") /\ BindCompare
    \/ key = G("merge_plan") /\ PlanStage
    \/ key[1] = "selection_batch" /\ SaveBatch
    \/ key = G("transcript") /\ SaveTranscript
    \/ key = G("ata_result") /\ SaveAtaResult
    \/ key \in DecisionKeys /\ Deciders
    \/ key[1] \in CallKinds /\ \E s \in Slots : Succeed(s) /\ CallKeyOf(slot[s].inv) = key

\* Nobody else does.
LEMMA CpStays ==
    ASSUME TypeInv, CallInv, Next, ~RetryRun, ~Invalidate, NEW key \in Keys, ~Writes(key)
    PROVE  Cp(key)' = Cp(key)
  <1>0. UNCHANGED <<cp, round>> => Cp(key)' = Cp(key)
    BY CpSame
  <1>1. ASSUME NEW k \in Keys, WritesOnly(k), k # key PROVE Cp(key)' = Cp(key)
    BY <1>0, <1>1, CpBind DEF WritesOnly
  <1>2. \A kind \in Kinds \ {"correction_transcript", "selection_batch", "selection_result"} :
          G(kind) \in Keys
    BY KeysOfKinds
  <1>3. CASE IntakeCheckpoint \/ JobStage \/ BindJob
    BY <1>1, <1>2, <1>3, WriterKeys, KindSet DEF Writes
  <1>4. CASE BindMedia
    BY <1>1, <1>2, <1>4, WriterKeys, KindSet DEF Writes
  <1>5. CASE BindCompare \/ PlanStage \/ SaveTranscript \/ SaveAtaResult
    BY <1>1, <1>2, <1>5, WriterKeys, KindSet DEF Writes
  <1>6. CASE SaveBatch
    <2>1. todo # {} /\ todo \subseteq Batches
      BY <1>6 DEF SaveBatch, TypeInv, TypeOK, LocalsOK
    <2>2. Batch \in Batches
      BY <2>1 DEF Batch
    <2>3. PICK k : k = <<"selection_batch", Batch>>
      OBVIOUS
    <2>4. k \in Keys /\ WritesOnly(k) /\ k[1] = "selection_batch"
      BY <1>6, <2>2, <2>3, KeysOfKinds, WriterKeys
    <2> QED BY <1>1, <1>6, <2>4 DEF Writes
  <1>7. CASE Deciders
    <2>1. PICK ids : BindAll(ids) /\ DOMAIN ids \subseteq DecisionKeys
      BY <1>7, WriterKeys DEF Decides
    <2>2. key \notin DOMAIN ids /\ round' = round
      BY <1>7, <2>1, WriterKeys DEF Writes, Decides
    <2>3. RoundOf(key[1]) \in 0..MaxRounds /\ RoundOf(key[1])' = RoundOf(key[1])
      BY <2>2, BoundsAssumption DEF RoundOf, TypeInv, TypeOK, RowsOK, Rounds
    <2> QED BY <2>1, <2>2, <2>3, BindAllCells DEF Cp
  <1>8. ASSUME NEW s \in Slots, Succeed(s) PROVE Cp(key)' = Cp(key)
    <2>1. PICK k : k = CallKeyOf(slot[s].inv)
      OBVIOUS
    <2>2. k \in Keys /\ WritesOnly(k) /\ slot[s].inv \in DOMAIN inv
      BY <1>8, <2>1, AnsweredCall, WriterKeys DEF Succeed
    <2>3. inv[slot[s].inv].op \in Ops
      BY <2>2 DEF TypeInv, TypeOK, DataOK, InvocationRows
    <2>4. ResultKind(inv[slot[s].inv].op) \in CallKinds
      BY <2>3 DEF ResultKind, Ops, RemoteOps, CallKinds
    <2>5. k[1] \in CallKinds
      BY <2>1, <2>4 DEF CallKeyOf
    <2> QED BY <1>1, <1>8, <2>1, <2>2, <2>5 DEF Writes
  <1> QED BY <1>0, <1>3, <1>4, <1>5, <1>6, <1>7, <1>8, CpQuiet DEF LocalWriters


Has(key) == Cp(key) # 0

\* From the job stage on the round has its job_input; from the corrections on it is the one
\* of the References the round could prepare, and so it is as soon as the round has asked
\* for a call that depends on it.
WithJob == {"media", "bindProbe", "bindTimeline", "upload", "asr", "base", "peer", "compare",
            "bindCompare", "refs", "effective"}
Reading == {"correction", "qwen", "kimi", "collect", "reviewing", "plan", "resolve", "select",
            "gate", "transcript", "aligning", "ata", "activate", "exporting", "result",
            "activateResult", "render", "persist", "commit"}
LateCall(i) == ResultKind(inv[i].op) \notin SharedStages /\ inv[i].round = round
AnyLate     == \E i \in DOMAIN inv : LateCall(i)
JobReady    == /\ UnpreparedRefs = {} /\ Has(G("job_input"))
               /\ art[Cp(G("job_input"))].body = PreparedRefs

JobInv ==
    /\ ~bound \/ pc \in {"intakeBind", "intakeCheckpoint"} => DOMAIN inv = {}
    /\ pc \in WithJob => Has(G("job_input"))
    /\ pc \in {"effective", "publishJob", "bindJob"} => UnpreparedRefs = {}
    /\ pc \in Reading \/ AnyLate => JobReady

LEMMA InitJob == Init => JobInv
  BY DEF Init, JobInv, WithJob, Reading, AnyLate

\* Before the intake is over no call is made.
LEMMA IntakeFirst ==
    ASSUME TypeInv, ControlInv, CallInv, JobInv, Next
    PROVE  ~bound' \/ pc' \in {"intakeBind", "intakeCheckpoint"} => DOMAIN inv' = {}
  <1> SUFFICES ASSUME ~bound' \/ pc' \in {"intakeBind", "intakeCheckpoint"}
               PROVE  DOMAIN inv' = {}
    OBVIOUS
  <1>1. Moves
    BY WriterMoves
  <1>2. ~bound \/ pc \in {"intakeBind", "intakeCheckpoint"}
    <2>1. CASE ~bound'
      <3>1. ~IntakeBind
        BY <2>1 DEF IntakeBind
      <3> QED BY <2>1, <3>1, BoundOnce
    <2>2. CASE pc' \in {"intakeBind", "intakeCheckpoint"}
      <3>1. pc \in {"intake", "intakeBind", "intakeCheckpoint"}
        BY <1>1, <2>2 DEF Moves, Resting, Commands, Leads
      <3>2. CASE pc = "intake"
        <4>1. IntakeJob
          BY <2>2, <3>2, StepsAt DEF RequestCancel, Resting, Commands
        <4> QED BY <4>1 DEF IntakeJob
      <3> QED BY <3>1, <3>2
    <2> QED BY <2>1, <2>2
  <1>3. DOMAIN inv = {}
    BY <1>2 DEF JobInv
  <1>4. ~Askers
    <2>1. pc \notin CallPlaces
      BY <1>2, ExecutingSet DEF ControlInv, BoundAt, CallPlaces
    <2> QED BY <2>1, CallStepPlaces DEF Askers, CallStep
  <1> QED BY <1>3, <1>4, RowOrigins

\* A late call comes from a place where the job_input is read, or from one before it.
LEMMA LateBefore ==
    ASSUME TypeInv, CallInv, Next, ~RetryRun, AnyLate'
    PROVE  pc \in Reading \/ AnyLate
  <1>1. PICK i \in DOMAIN inv' : LateCall(i)'
    BY DEF AnyLate
  <1>2. round' = round
    BY RoundStays
  <1>3. CASE i \in DOMAIN inv
    <2>1. inv'[i].op = inv[i].op /\ inv'[i].round = inv[i].round
      BY <1>3, RowsStayAlways DEF RowsStay, Asked
    <2> QED BY <1>1, <1>2, <1>3, <2>1 DEF LateCall, AnyLate
  <1>4. CASE i \notin DOMAIN inv
    <2>4. i = Len(inv) + 1 /\ \E op, scope : Asks(op, scope)
      BY <1>1, <1>4, NewRow
    <2>2. PICK op, scope : Asks(op, scope)
      BY <2>4
    <2>5. inv'[i].op = op
      BY <2>2, <2>4 DEF Asks
    <2>6. ResultKind(op) \notin SharedStages
      BY <1>1, <2>5 DEF LateCall
    <2>7. CASE pc \in DOMAIN MainCall /\ op = MainCall[pc]
      <3>1. pc \in {"select", "ata"}
        BY <2>6, <2>7 DEF MainCall, ResultKind, SharedStages
      <3> QED BY <3>1 DEF Reading
    <2>8. CASE pc \in Arms
      BY <2>8 DEF Arms, Reading
    <2>9. CASE \E k \in DOMAIN inv : inv[k].op = op /\ inv[k].round = round
      BY <2>6, <2>9 DEF AnyLate, LateCall
    <2> QED BY <2>2, <2>7, <2>8, <2>9 DEF Asks
  <1> QED BY <1>3, <1>4

\* The new effective job_input is the one the round reads.
LEMMA BindJobReady ==
    ASSUME TypeInv, StoreInv, BindJob, UnpreparedRefs = {}
    PROVE  JobReady'
  <1>1. G("job_input") \in Keys
    BY KeysOfKinds, KindSet
  <1>2. UNCHANGED <<round, prep, art>>
    BY DEF BindJob, rowVars
  <1>3. UnpreparedRefs' = UnpreparedRefs /\ PreparedRefs' = PreparedRefs
    BY <1>2 DEF UnpreparedRefs, PreparedRefs
  <1>4. Holds(art, EffectiveJob)
    BY DEF StoreInv, Prepared, BindJob
  <1>5. PICK id : id = IdIn(art, EffectiveJob)
    OBVIOUS
  <1>6. art'[id] = EffectiveJob /\ id \in DOMAIN art
    BY <1>2, <1>4, <1>5, IdOfHeld
  <1>7. Cp(G("job_input"))' = id
    BY <1>1, <1>2, <1>5, CpBind DEF BindJob
  <1>8. id # 0
    BY <1>6 DEF TypeInv, TypeOK, DataOK
  <1>9. art'[id].body = PreparedRefs
    BY <1>6 DEF EffectiveJob, Artifact
  <1> QED BY <1>3, <1>7, <1>8, <1>9 DEF JobReady, Has

\* What the round reads does not change under it.
LEMMA JobReadyStays ==
    ASSUME TypeInv, CallInv, StoreInv, ArtStays, Next, JobReady, ~RetryRun, ~IntakeCheckpoint
    PROVE  JobReady'
  <1>1. G("job_input") \in Keys
    BY KeysOfKinds, KindSet
  <1>2. round' = round
    BY RoundStays
  <1>3. prep' = prep
    <2>1. ~PrepareReference
      BY DEF PrepareReference, JobReady
    <2> QED BY <2>1, PrepStays
  <1>4. UnpreparedRefs' = UnpreparedRefs /\ PreparedRefs' = PreparedRefs
    BY <1>2, <1>3 DEF UnpreparedRefs, PreparedRefs
  <1>5. ~Invalidate
    BY DEF Invalidate, RefsChanged, JobReady
  <1>6. RoundOf("job_input") \in 0..MaxRounds
    BY BoundsAssumption DEF RoundOf, TypeInv, TypeOK, RowsOK, Rounds
  <1>7. CASE Cp(G("job_input"))' = Cp(G("job_input"))
    <2>1. KeptAt(Cp(G("job_input")), G("job_input"))
      BY <1>1, <1>6 DEF StoreInv, CpStored, JobReady, Has, Cp, G
    <2>2. PICK id : id = Cp(G("job_input"))
      OBVIOUS
    <2>3. art'[id] = art[id] /\ Cp(G("job_input"))' = id
      BY <1>7, <2>1, <2>2 DEF KeptAt, ArtStays, Extends
    <2> QED BY <1>4, <2>2, <2>3 DEF JobReady, Has
  <1>8. CASE BindJob
    BY <1>8, BindJobReady DEF JobReady
  <1>9. CASE JobStage
    <2>1. UNCHANGED <<cp, round>>
      BY <1>9 DEF JobStage, JobReady, Has, rowVars
    <2> QED BY <1>7, <2>1, CpSame
  <1>10. CASE ~BindJob /\ ~JobStage
    <2>1. ~Writes(G("job_input"))
      BY <1>10 DEF Writes, DecisionKeys, CallKinds, G
    <2> QED BY <1>1, <1>5, <1>7, <2>1, CpStays
  <1> QED BY <1>8, <1>9, <1>10


-----------------------------------------------------------------------------
(* Checkpoints that stay.                                                  *)

\* Within a round, and but for the invalidation, checkpoints are only ever set.
LEMMA WritesSome ==
    ASSUME TypeInv, CallInv, Next, ~RetryRun, ~Invalidate
    PROVE  /\ UNCHANGED round
           /\ \/ UNCHANGED cp
              \/ \E key \in Keys : \E id \in Nat \ {0} : Bind(key, id)
              \/ \E ids : BindAll(ids) /\ \A k \in DOMAIN ids : ids[k] # 0
  <1> USE DEF dataVars
  <1>0. UNCHANGED round
    BY RoundStays
  <1>1. art \in Seq(ArtifactRows)
    BY DEF TypeInv, TypeOK, DataOK
  <1>2. \A a : IdIn(art, a) \in Nat \ {0}
    BY <1>1, IdInPositive
  <1>3. \A kind \in Kinds \ {"correction_transcript", "selection_batch", "selection_result"} :
          G(kind) \in Keys
    BY KeysOfKinds
  <1>4. CASE IntakeCheckpoint \/ JobStage \/ BindJob
    <2>1. UNCHANGED cp \/ Bind(G("job_input"), OriginalJobId)
          \/ Bind(G("job_input"), IdIn(art, EffectiveJob))
      BY <1>4 DEF IntakeCheckpoint, JobStage, BindJob
    <2>2. OriginalJobId \in Nat \ {0} /\ G("job_input") \in Keys
      BY <1>2, <1>3, KindSet DEF OriginalJobId
    <2> QED BY <1>0, <1>2, <2>1, <2>2
  <1>5. CASE BindMedia
    <2>1. PICK p : p = Probe
      OBVIOUS
    <2>2. art \in Seq(ArtifactRows \cup {p}) /\ p \in ArtifactRows \cup {p}
      BY <1>1
    <2>3. With(art, p) \in Seq(ArtifactRows \cup {p})
      BY <2>2, WithType
    <2>4. TimelineId \in Nat \ {0}
      BY <2>1, <2>3, IdInPositive DEF TimelineId
    <2>5. Bind(G("media_probe"), IdIn(art, Probe)) \/ Bind(G("timeline_audio"), TimelineId)
      BY <1>5 DEF BindMedia
    <2>6. G("media_probe") \in Keys /\ G("timeline_audio") \in Keys
      BY <1>3, KindSet
    <2> QED BY <1>0, <1>2, <2>4, <2>5, <2>6
  <1>6. CASE BindCompare
    <2>1. G("asr_comparison") \in Keys
      BY <1>3, KindSet
    <2> QED BY <1>0, <1>2, <1>6, <2>1 DEF BindCompare
  <1>7. ASSUME NEW a, Publish(a), KeyOf(a) \in Keys
        PROVE  \E key \in Keys : \E id \in Nat \ {0} : Bind(key, id)
    <2>1. PICK key, id : key = KeyOf(a) /\ id = IdIn(art, a)
      OBVIOUS
    <2> QED BY <1>2, <1>7, <2>1 DEF Publish
  <1>8. CASE PlanStage \/ SaveTranscript \/ SaveAtaResult
    <2>1. \A key, deps, body : KeyOf(Saved(key, deps, body)) = <<key[1], key[2]>>
      BY DEF Saved, Artifact, KeyOf
    <2>2. \/ UNCHANGED cp
          \/ \E a : Publish(a) /\ KeyOf(a) \in {G("merge_plan"), G("transcript"), G("ata_result")}
      BY <1>8, <2>1 DEF PlanStage, SaveTranscript, SaveAtaResult, G
    <2>3. {G("merge_plan"), G("transcript"), G("ata_result")} \subseteq Keys
      BY <1>3, KindSet
    <2> QED BY <1>0, <1>7, <2>2, <2>3
  <1>9. CASE SaveBatch
    <2>1. todo # {} /\ todo \subseteq Batches
      BY <1>9 DEF SaveBatch, TypeInv, TypeOK, LocalsOK
    <2>2. Batch \in Batches
      BY <2>1 DEF Batch
    <2>3. \E a : Publish(a) /\ KeyOf(a) = <<"selection_batch", Batch>>
      BY <1>9 DEF SaveBatch, Saved, Artifact, KeyOf
    <2> QED BY <1>0, <1>7, <2>2, <2>3, KeysOfKinds
  <1>10. CASE Deciders
    <2>1. PICK ids : Decided(ids)
      BY <1>10, FinalizeDecides, ReviewDecides DEF Deciders
    <2>2. DOMAIN art' \subseteq Nat \ {0}
      <3>1. art' \in Seq(ArtifactRows) \/ \E S : art' \in Seq(S)
        <4>1. ASSUME NEW S, NEW s \in Seq(S), NEW a
              PROVE  \E T : With(s, a) \in Seq(T)
          <5>1. s \in Seq(S \cup {a}) /\ a \in S \cup {a}
            BY <4>1
          <5>2. With(s, a) \in Seq(S \cup {a})
            BY <5>1, WithType
          <5> QED BY <5>2
        <4>2. \/ \E a, b : art' = With(With(art, a), b)
              \/ \E a, b, c : art' = With(With(With(art, a), b), c)
          BY <1>10 DEF Deciders, Finalize, ResolveReview
        <4>3. ASSUME NEW a, NEW b PROVE \E T : With(With(art, a), b) \in Seq(T)
          <5>1. PICK T : With(art, a) \in Seq(T)
            BY <1>1, <4>1
          <5> QED BY <4>1, <5>1
        <4>4. ASSUME NEW a, NEW b, NEW c PROVE \E T : With(With(With(art, a), b), c) \in Seq(T)
          <5>1. PICK T : With(With(art, a), b) \in Seq(T)
            BY <4>3
          <5> QED BY <4>1, <5>1
        <4> QED BY <4>2, <4>3, <4>4
      <3> QED BY <3>1
    <2>3. \A k \in DOMAIN ids : ids[k] # 0
      BY <2>1, <2>2 DEF Decided
    <2> QED BY <1>0, <2>1, <2>3 DEF Decided
  <1>11. ASSUME NEW s \in Slots, Succeed(s)
         PROVE  \E key \in Keys : \E id \in Nat \ {0} : Bind(key, id)
    <2>1. CallKeyOf(slot[s].inv) \in Keys
      BY <1>11, AnsweredCall DEF Succeed
    <2>2. \E a : Publish(a) /\ KeyOf(a) = CallKeyOf(slot[s].inv)
      <3>1. \A key, deps, mark, body : KeyOf(Artifact(key, deps, mark, body)) = <<key[1], key[2]>>
        BY DEF Artifact, KeyOf
      <3> QED BY <1>11, <3>1 DEF Succeed, CallKeyOf
    <2> QED BY <1>7, <2>1, <2>2
  <1>12. CASE UNCHANGED <<cp, round>>
    BY <1>12
  <1> QED BY <1>0, <1>4, <1>5, <1>6, <1>8, <1>9, <1>10, <1>11, <1>12, CpQuiet DEF LocalWriters

LEMMA HasStays ==
    ASSUME TypeInv, CallInv, Next, ~RetryRun, ~Invalidate, NEW key \in Keys, Has(key)
    PROVE  Has(key)'
  <1>0. round' = round
    BY RoundStays
  <1>1. round' = round /\ RoundOf(key[1]) \in 0..MaxRounds /\ RoundOf(key[1])' = RoundOf(key[1])
    BY <1>0, BoundsAssumption DEF RoundOf, TypeInv, TypeOK, RowsOK, Rounds
  <1>2. CASE UNCHANGED cp
    BY <1>1, <1>2 DEF Has, Cp
  <1>3. ASSUME NEW k \in Keys, NEW id \in Nat \ {0}, Bind(k, id) PROVE Has(key)'
    <2>1. Cp(key)' = id \/ Cp(key)' = Cp(key)
      BY <1>1, <1>3, CpBind
    <2> QED BY <2>1 DEF Has
  <1>4. ASSUME NEW ids, BindAll(ids), \A k \in DOMAIN ids : ids[k] # 0 PROVE Has(key)'
    BY <1>1, <1>4, BindAllCells DEF Has, Cp
  <1> QED BY <1>2, <1>3, <1>4, WritesSome

\* The checkpoints all rounds share are never taken back.
LEMMA SharedStays ==
    ASSUME TypeInv, CallInv, Next, NEW key \in Keys, key[1] \in SharedStages, Has(key)
    PROVE  Has(key)'
  <1>1. Cp(key) = cp[0][key] /\ Cp(key)' = cp'[0][key]
    BY DEF Cp, RoundOf
  <1>2. CASE RetryRun
    <2>1. 0 # round + 1 /\ 0 \in 0..MaxRounds
      BY BoundsAssumption DEF TypeInv, TypeOK, RowsOK, Rounds
    <2> QED BY <1>1, <1>2, <2>1, RetryCells DEF Has
  <1>3. CASE Invalidate
    <2>1. key[1] \notin {"job_input"} \cup Descendants({"job_input"})
      BY JobFeeds DEF SharedStages
    <2>2. 0 \in 0..MaxRounds
      BY BoundsAssumption
    <2> QED BY <1>1, <1>3, <2>1, <2>2, InvalidateCells DEF Has
  <1> QED BY <1>2, <1>3, HasStays

\* Every step keeps the Reference inputs of the round in order.
LEMMA JobStep ==
    ASSUME TypeInv, ControlInv, CallInv, StoreInv, JobInv, Next
    PROVE  JobInv'
  <1>0. Moves /\ ArtStays
    BY WriterMoves, ArtStaysAlways
  <1>1. G("job_input") \in Keys
    BY KeysOfKinds, KindSet
  <1>2. ASSUME pc' \in WithJob PROVE Has(G("job_input"))'
    <2>1. pc \in WithJob \cup {"job"}
      BY <1>0, <1>2 DEF Moves, Leads, WithJob, Resting, Commands
    <2>2. ~RetryRun
      BY <2>1, StepPlaces DEF WithJob
    <2>3. ~Invalidate
      BY <1>2 DEF Invalidate, Goto, WithJob
    <2>4. CASE Has(G("job_input"))
      BY <1>1, <2>2, <2>3, <2>4, HasStays
    <2>5. CASE ~Has(G("job_input"))
      <3>1. pc = "job"
        BY <2>1, <2>5 DEF JobInv
      <3>2. JobStage
        BY <1>2, <3>1, StepsAt DEF WithJob, Resting, Commands, RequestCancel
      <3>3. Bind(G("job_input"), OriginalJobId) /\ round' = round
        BY <2>5, <3>2 DEF JobStage, Has, rowVars
      <3>4. OriginalJobId # 0
        BY IdInPositive DEF OriginalJobId, TypeInv, TypeOK, DataOK
      <3>5. PICK id : id = OriginalJobId
        OBVIOUS
      <3>6. Cp(G("job_input"))' = id
        BY <1>1, <3>3, <3>5, CpBind
      <3> QED BY <3>4, <3>5, <3>6 DEF Has
    <2> QED BY <2>4, <2>5
  <1>3. ASSUME pc' \in {"effective", "publishJob", "bindJob"} PROVE UnpreparedRefs' = {}
    <2>1. pc \in {"refs", "effective", "publishJob", "bindJob"}
      BY <1>0, <1>3 DEF Moves, Leads, Resting, Commands
    <2>2. ~RetryRun
      BY <2>1, StepPlaces
    <2>3. ~PrepareReference
      BY <1>3 DEF PrepareReference
    <2>4. prep' = prep /\ round' = round
      BY <2>2, <2>3, PrepStays, RoundStays
    <2>5. UnpreparedRefs = {}
      <3>1. CASE pc = "refs"
        <4>1. ReferencesPrepared
          BY <1>3, <2>3, <3>1, StepsAt DEF Resting, Commands, RequestCancel
        <4> QED BY <1>3, <4>1 DEF ReferencesPrepared, Raise
      <3> QED BY <2>1, <3>1 DEF JobInv
    <2> QED BY <2>4, <2>5 DEF UnpreparedRefs
  <1>4. ASSUME pc' \in Reading \/ AnyLate' PROVE JobReady'
    <2>1. ~RetryRun
      <3> SUFFICES ASSUME RetryRun PROVE FALSE
        OBVIOUS
      <3>1. pc' \notin Reading /\ UNCHANGED inv /\ round' = round + 1
        BY DEF RetryRun, Goto, Reading
      <3>2. PICK i \in DOMAIN inv : inv[i].round = round + 1
        BY <1>4, <3>1 DEF AnyLate, LateCall
      <3>3. inv[i].round <= round /\ round \in Nat
        BY DEF CallInv, RoundsPast, TypeInv, TypeOK, RowsOK, Rounds
      <3> QED BY <3>2, <3>3
    <2>2. ~IntakeCheckpoint
      <3> SUFFICES ASSUME IntakeCheckpoint PROVE FALSE
        OBVIOUS
      <3>1. pc = "intakeCheckpoint" /\ pc' \in {"start", "idle"} /\ UNCHANGED inv
        BY DEF IntakeCheckpoint, Goto
      <3>2. DOMAIN inv = {}
        BY <3>1 DEF JobInv
      <3> QED BY <1>4, <3>1, <3>2 DEF AnyLate, Reading
    <2>3. CASE pc \in Reading \/ AnyLate
      BY <1>0, <2>1, <2>2, <2>3, JobReadyStays DEF JobInv
    <2>4. CASE pc \notin Reading /\ ~AnyLate
      <3>1. pc' \in Reading
        BY <1>4, <2>1, <2>4, LateBefore
      <3>2. pc \in {"effective", "bindJob"} /\ pc' = "correction"
        BY <1>0, <2>4, <3>1 DEF Moves, Leads, Resting, Commands, Reading
      <3>3. UnpreparedRefs = {}
        BY <3>2 DEF JobInv
      <3>4. CASE pc = "effective"
        <4>1. SameReferences
          BY <3>2, <3>4, StepsAt DEF Resting, Commands, RequestCancel, Invalidate, Goto
        <4>2. JobReady
          BY <3>3, <3>4, <4>1 DEF SameReferences, RefsChanged, JobReady, JobInv, WithJob
        <4> QED BY <1>0, <2>1, <2>2, <4>2, JobReadyStays
      <3>5. CASE pc = "bindJob"
        <4>1. BindJob
          BY <3>2, <3>5, StepsAt DEF Resting, Commands, RequestCancel
        <4> QED BY <3>3, <4>1, BindJobReady
      <3> QED BY <3>2, <3>4, <3>5
    <2> QED BY <2>3, <2>4
  <1>5. ~bound' \/ pc' \in {"intakeBind", "intakeCheckpoint"} => DOMAIN inv' = {}
    BY IntakeFirst
  <1> QED BY <1>2, <1>3, <1>4, <1>5 DEF JobInv

-----------------------------------------------------------------------------
(* What is there when the writer comes to a place.                         *)

AfterUpload  == {"asr", "base", "peer", "compare", "bindCompare", "refs", "effective",
                 "publishJob", "bindJob"} \cup Reading
AfterBase    == AfterUpload \ {"asr", "base"}
AfterPeer    == AfterBase \ {"peer"}
AfterCompare == AfterPeer \ {"compare", "bindCompare"}

PlaceInv ==
    /\ pc \in AfterUpload  => Has(G("media_object"))
    /\ pc \in AfterBase    => Has(G("base_asr"))
    /\ pc \in AfterPeer    => Has(G("peer_asr"))
    /\ pc \in AfterCompare => Has(G("asr_comparison"))
    /\ pc = "select" => ~SealedFinal
    /\ pc \in {"gate", "transcript"} => Has(G("edit_resolution"))
    /\ pc = "transcript" => Sealed(Cp(G("edit_resolution")))
    /\ pc \in {"aligning", "ata"} => Has(G("transcript"))

LEMMA InitPlace == Init => PlaceInv
  BY DEF Init, PlaceInv, AfterUpload, AfterBase, AfterPeer, AfterCompare, Reading

\* A stage with a paid call is left with its checkpoint, or with an error.
LEMMA CallMoves ==
    ASSUME TypeInv, CallInv, CallStep, pc \in {"upload", "base", "peer", "ata"},
           pc' # pc, pc' # "fail", NEW key, key = G(ResultKind(MainCall[pc]))
    PROVE  key \in Keys /\ Has(key)'
  <1>1. pc \notin Arms \cup {"select", "collect"} /\ key = CallKey
    BY DEF Arms, CallKey, CallScope, G
  <1>2. ResultKind(MainCall[pc]) \in {"media_object", "base_asr", "peer_asr", "ata_response"}
    BY DEF MainCall, ResultKind
  <1>3. key \in Keys
    BY <1>2, KeysOfKinds, KindSet
  <1>4. CASE CallReuse
    <2>1. Cp(key) # 0 /\ UNCHANGED <<cp, round>>
      BY <1>1, <1>4 DEF CallReuse, dataVars, rowVars
    <2> QED BY <1>3, <2>1, CpSame DEF Has
  <1>5. ASSUME NEW s \in Slots, Succeed(s) PROVE Has(key)'
    <2>1. Doing(s) = "sending" /\ Active
      BY <1>5 DEF Succeed, Answered, Active
    <2>2. s = "main"
      BY <1>1, <2>1, BusySlot DEF Slots, Arms
    <2>3. PICK k : k = slot[s].inv
      OBVIOUS
    <2>4. InFlight(s) /\ Bind(CallKeyOf(k), inv'[k].art) /\ inv'[k].art # 0 /\ round' = round
      BY <1>5, <2>3, SucceedRow
    <2>5. CallKeyOf(k) = key
      BY <1>1, <2>2, <2>3, <2>4 DEF InFlight, OpOf, ScopeOf, CallKeyOf, CallKey
    <2>6. PICK id : id = inv'[k].art
      OBVIOUS
    <2>7. Cp(key)' = id
      BY <1>3, <2>4, <2>5, <2>6, CpBind
    <2> QED BY <2>4, <2>6, <2>7 DEF Has
  <1>6. CASE CallRefused \/ CallBegin
    BY <1>1, <1>6 DEF CallRefused, CallBegin, StageError, Raise
  <1>7. ~(ArmReuse \/ ArmRefused \/ ArmBegin \/ Receipt \/ Collected)
    BY <1>1 DEF ArmReuse, ArmRefused, ArmBegin, Receipt, Collected
  <1>8. ASSUME NEW s \in Slots, MarkSending(s) \/ CallCancelled(s) \/ CompletedInvalid(s)
                                \/ Resubmit(s) \/ ResubmitFails(s)
        PROVE  FALSE
    BY <1>1, <1>8
    DEF MarkSending, CallCancelled, CompletedInvalid, Resubmit, ResubmitFails, StageError, Raise
  <1>9. ASSUME NEW s \in Slots, NEW st \in FailedStatuses, CallFails(s, st) PROVE FALSE
    BY <1>1, <1>9 DEF CallFails, StageError, Raise
  <1> QED BY <1>1, <1>3, <1>4, <1>5, <1>6, <1>7, <1>8, <1>9 DEF CallStep

\* The selection is left by its own step, or with an error.
LEMMA SelectMoves == ASSUME CallStep, pc = "select" PROVE pc' \in {"select", "fail"}
  <1>1. pc \notin Arms /\ pc \notin DOMAIN AfterCall /\ pc # "collect"
    BY DEF Arms, AfterCall
  <1>2. CASE CallReuse \/ CallRefused \/ CallBegin
    BY <1>1, <1>2 DEF CallReuse, CallRefused, CallBegin, StageError, Raise
  <1>3. CASE ArmReuse \/ ArmRefused \/ ArmBegin \/ Receipt \/ Collected
    BY <1>1, <1>3 DEF ArmReuse, ArmRefused, ArmBegin, Receipt, Collected
  <1>4. ASSUME NEW s \in Slots, MarkSending(s) \/ Succeed(s) \/ CallCancelled(s)
                                \/ CompletedInvalid(s) \/ Resubmit(s) \/ ResubmitFails(s)
        PROVE  pc' \in {"select", "fail"}
    BY <1>1, <1>4
    DEF MarkSending, Succeed, CallCancelled, CompletedInvalid, Resubmit, ResubmitFails,
        StageError, Raise
  <1>5. ASSUME NEW s \in Slots, NEW st \in FailedStatuses, CallFails(s, st)
        PROVE  pc' \in {"select", "fail"}
    BY <1>1, <1>5 DEF CallFails, StageError, Raise
  <1> QED BY <1>2, <1>3, <1>4, <1>5 DEF CallStep

LEMMA SharedPlaceStep ==
    ASSUME TypeInv, CallInv, PlaceInv, Next
    PROVE  /\ pc' \in AfterUpload  => Has(G("media_object"))'
           /\ pc' \in AfterBase    => Has(G("base_asr"))'
           /\ pc' \in AfterPeer    => Has(G("peer_asr"))'
           /\ pc' \in AfterCompare => Has(G("asr_comparison"))'
  <1> USE DEF AfterUpload, AfterBase, AfterPeer, AfterCompare, Reading
  <1>0. Moves
    BY WriterMoves
  <1>1. \A kind \in {"media_object", "base_asr", "peer_asr", "asr_comparison"} :
          G(kind) \in Keys /\ (Has(G(kind)) => Has(G(kind))')
    <2> TAKE kind \in {"media_object", "base_asr", "peer_asr", "asr_comparison"}
    <2>1. PICK key : key = G(kind)
      OBVIOUS
    <2>2. key \in Keys /\ key[1] \in SharedStages
      BY <2>1, KeysOfKinds, KindSet DEF SharedStages, G
    <2> QED BY <2>1, <2>2, SharedStays
  <1>2. ASSUME NEW p \in {"upload", "base", "peer"}, pc = p, pc' = AfterCall[p],
               NEW key, key = G(ResultKind(MainCall[p]))
        PROVE  Has(key)'
    <2>1. pc' # pc /\ pc' \notin Resting
      BY <1>2 DEF AfterCall, Resting, Commands
    <2>2. CallStep
      BY <1>2, <2>1, StepsAt DEF CallPlaces, RequestCancel
    <2> QED BY <1>2, <2>1, <2>2, CallMoves DEF Resting
  <1>3. ASSUME pc' \in AfterUpload PROVE Has(G("media_object"))'
    <2>1. pc \in AfterUpload \/ (pc = "upload" /\ pc' = "asr")
      BY <1>0, <1>3 DEF Moves, Leads, Resting, Commands
    <2>2. AfterCall["upload"] = "asr" /\ ResultKind(MainCall["upload"]) = "media_object"
      BY DEF AfterCall, MainCall, ResultKind
    <2> QED BY <1>1, <1>2, <2>1, <2>2 DEF PlaceInv
  <1>4. ASSUME pc' \in AfterBase PROVE Has(G("base_asr"))'
    <2>1. pc \in AfterBase \/ (pc = "base" /\ pc' = "peer")
      BY <1>0, <1>4 DEF Moves, Leads, Resting, Commands
    <2>2. AfterCall["base"] = "peer" /\ ResultKind(MainCall["base"]) = "base_asr"
      BY DEF AfterCall, MainCall, ResultKind
    <2> QED BY <1>1, <1>2, <2>1, <2>2 DEF PlaceInv
  <1>5. ASSUME pc' \in AfterPeer PROVE Has(G("peer_asr"))'
    <2>1. pc \in AfterPeer \/ (pc = "peer" /\ pc' = "compare")
      BY <1>0, <1>5 DEF Moves, Leads, Resting, Commands
    <2>2. AfterCall["peer"] = "compare" /\ ResultKind(MainCall["peer"]) = "peer_asr"
      BY DEF AfterCall, MainCall, ResultKind
    <2> QED BY <1>1, <1>2, <2>1, <2>2 DEF PlaceInv
  <1>6. ASSUME pc' \in AfterCompare PROVE Has(G("asr_comparison"))'
    <2>1. pc \in AfterCompare \/ (pc \in {"compare", "bindCompare"} /\ pc' = "refs")
      BY <1>0, <1>6 DEF Moves, Leads, Resting, Commands
    <2>2. CASE pc \in AfterCompare
      BY <1>1, <2>2 DEF PlaceInv
    <2>3. CASE pc = "compare" /\ pc' = "refs"
      <3>1. Compare
        BY <2>3, StepsAt DEF Resting, Commands, RequestCancel
      <3>2. Has(G("asr_comparison"))
        BY <2>3, <3>1 DEF Compare, Goto, Has
      <3> QED BY <1>1, <3>2
    <2>4. CASE pc = "bindCompare" /\ pc' = "refs"
      <3>1. BindCompare
        BY <2>4, StepsAt DEF Resting, Commands, RequestCancel
      <3>2. PICK id : id = IdIn(art, Comparison)
        OBVIOUS
      <3>3. Bind(G("asr_comparison"), id) /\ round' = round
        BY <3>1, <3>2 DEF BindCompare, rowVars
      <3>4. id # 0
        BY <3>2, IdInPositive DEF TypeInv, TypeOK, DataOK
      <3>5. Cp(G("asr_comparison"))' = id
        BY <1>1, <3>3, CpBind
      <3> QED BY <3>4, <3>5 DEF Has
    <2> QED BY <2>1, <2>2, <2>3, <2>4
  <1> QED BY <1>3, <1>4, <1>5, <1>6

\* A sealed resolution stays sealed while its checkpoint stays.
LEMMA SealedKept ==
    ASSUME ArtStays, CpStored, TypeInv, NEW key \in Keys, Has(key), Cp(key)' = Cp(key)
    PROVE  art'[Cp(key)'] = art[Cp(key)]
  <1>1. RoundOf(key[1]) \in 0..MaxRounds
    BY BoundsAssumption DEF RoundOf, TypeInv, TypeOK, RowsOK, Rounds
  <1>2. KeptAt(Cp(key), key)
    BY <1>1 DEF CpStored, Has, Cp
  <1>3. PICK id : id = Cp(key)
    OBVIOUS
  <1>4. art'[id] = art[id] /\ Cp(key)' = id
    BY <1>2, <1>3 DEF KeptAt, ArtStays, Extends
  <1> QED BY <1>3, <1>4

LEMMA PlaceStep ==
    ASSUME TypeInv, CallInv, StoreInv, PlaceInv, Next
    PROVE  PlaceInv'
  <1> DEFINE edit == G("edit_resolution")
             text == G("transcript")
  <1>0. Moves /\ ArtStays /\ CpStored
    BY WriterMoves, ArtStaysAlways DEF StoreInv
  <1>1. edit \in Keys /\ text \in Keys
    BY KeysOfKinds, KindSet
  <1>2. ASSUME pc' = "select" PROVE ~SealedFinal'
    <2>1. pc \in {"select", "resolve"}
      BY <1>0, <1>2 DEF Moves, Leads, Resting, Commands
    <2>2. CASE pc = "resolve"
      <3>1. ResolveStage
        BY <1>2, <2>2, StepsAt DEF Resting, Commands, RequestCancel
      <3>2. ~SealedFinal
        BY <1>2, <3>1 DEF ResolveStage, NeedsSelection, SealedFinal, Goto
      <3>3. UNCHANGED <<cp, art, round>>
        BY <3>1 DEF ResolveStage, dataVars, rowVars
      <3>4. Cp(edit)' = Cp(edit)
        BY <3>3, CpSame
      <3>5. PICK id : id = Cp(edit)
        OBVIOUS
      <3>6. SealedFinal' = (id # 0 /\ art'[id].body = {})
        BY <3>4, <3>5 DEF SealedFinal, Sealed
      <3> QED BY <3>2, <3>3, <3>5, <3>6 DEF SealedFinal, Sealed
    <2>3. CASE pc = "select"
      <3>1. ~Deciders /\ ~RetryRun /\ ~Invalidate
        BY <1>2, <2>3, StepPlaces DEF Deciders, Finalize, Goto
      <3>2. ~Writes(edit)
        BY <3>1 DEF Writes, CallKinds, G
      <3>3. Cp(edit)' = Cp(edit)
        BY <1>1, <3>1, <3>2, CpStays
      <3>4. PICK id : id = Cp(edit)
        OBVIOUS
      <3>5. SealedFinal' = (id # 0 /\ art'[id].body = {}) /\ SealedFinal = (id # 0 /\ art[id].body = {})
        BY <3>3, <3>4 DEF SealedFinal, Sealed
      <3>6. id # 0 => art'[id] = art[id]
        BY <1>0, <1>1, <3>3, <3>4, SealedKept DEF Has
      <3> QED BY <2>3, <3>5, <3>6 DEF PlaceInv
    <2> QED BY <2>1, <2>2, <2>3
  <1>3. ASSUME pc' \in {"gate", "transcript"} PROVE Has(edit)'
    <2>1. pc \in {"gate", "transcript", "resolve", "select"}
      BY <1>0, <1>3 DEF Moves, Leads, Resting, Commands
    <2>2. ~RetryRun /\ ~Invalidate
      BY <2>1, StepPlaces
    <2>3. Has(edit) => Has(edit)'
      BY <1>1, <2>2, HasStays
    <2>4. CASE pc = "resolve"
      <3>1. ResolveStage
        BY <1>3, <2>4, StepsAt DEF Resting, Commands, RequestCancel
      <3> QED BY <1>3, <2>3, <3>1 DEF ResolveStage, NeedsSelection, Goto, Has
    <2>5. CASE pc = "select"
      <3>1. Finalize
        BY <1>3, <2>5, StepsAt, SelectMoves DEF Resting, Commands, RequestCancel, SaveBatch
      <3>2. PICK ids : Decided(ids) /\ edit \in DOMAIN ids
        BY <3>1, FinalizeDecides
      <3>3. round' = round /\ round \in 0..MaxRounds
        BY <3>1, BoundsAssumption DEF Finalize, rowVars, TypeInv, TypeOK, RowsOK, Rounds
      <3>4. RoundOf("edit_resolution") = round /\ RoundOf("edit_resolution")' = round'
        BY DEF RoundOf, SharedStages
      <3>5. Cp(edit)' = ids[edit]
        BY <1>1, <3>2, <3>3, <3>4, BindAllCells DEF Cp, Decided, G
      <3>6. ids[edit] \in DOMAIN art'
        BY <3>2 DEF Decided
      <3>7. 0 \notin DOMAIN art'
        <4>2. PICK a, b : art' = With(With(art, a), b)
          BY <3>1 DEF Finalize
        <4>3. art \in Seq(ArtifactRows \cup {a} \cup {b}) /\ a \in ArtifactRows \cup {a} \cup {b}
              /\ b \in ArtifactRows \cup {a} \cup {b}
          BY DEF TypeInv, TypeOK, DataOK
        <4>4. art' \in Seq(ArtifactRows \cup {a} \cup {b})
          BY <4>2, <4>3, WithType
        <4> QED BY <4>4
      <3> QED BY <3>5, <3>6, <3>7 DEF Has
    <2> QED BY <2>1, <2>3, <2>4, <2>5 DEF PlaceInv
  <1>4. ASSUME pc' = "transcript" PROVE Sealed(Cp(edit))'
    <2>1. pc \in {"gate", "transcript"}
      BY <1>0, <1>4 DEF Moves, Leads, Resting, Commands
    <2>2. ReviewGate \/ RequestCancel
      BY <1>4, <2>1, StepsAt DEF Resting, Commands, SaveTranscript, Goto
    <2>3. UNCHANGED <<art, cp, round>>
      BY <2>2 DEF ReviewGate, RequestCancel, dataVars
    <2>4. Sealed(Cp(edit))
      <3>1. CASE pc = "gate"
        BY <1>4, <2>2, <3>1 DEF ReviewGate, RequestCancel, GateOpen, Raise, Goto
      <3> QED BY <2>1, <3>1 DEF PlaceInv
    <2>5. Cp(edit)' = Cp(edit)
      BY <2>3, CpSame
    <2> QED BY <2>3, <2>4, <2>5 DEF Sealed
  <1>5. ASSUME pc' \in {"aligning", "ata"} PROVE Has(text)'
    <2>1. pc \in {"aligning", "ata", "transcript"}
      BY <1>0, <1>5 DEF Moves, Leads, Resting, Commands
    <2>2. ~RetryRun /\ ~Invalidate
      BY <2>1, StepPlaces
    <2>3. Has(text) => Has(text)'
      BY <1>1, <2>2, HasStays
    <2>4. CASE pc = "transcript"
      <3>1. SaveTranscript
        BY <1>5, <2>4, StepsAt DEF Resting, Commands, RequestCancel
      <3>2. CASE ~Has(text)
        <4>1. PICK a : Publish(a) /\ KeyOf(a) = text /\ round' = round
          BY <3>1, <3>2 DEF SaveTranscript, Has, Saved, Artifact, KeyOf, G, rowVars
        <4>2. PICK id : id = IdIn(art, a)
          OBVIOUS
        <4>3. Bind(text, id) /\ id # 0
          BY <4>1, <4>2, IdInPositive DEF Publish, TypeInv, TypeOK, DataOK
        <4>4. Cp(text)' = id
          BY <1>1, <4>1, <4>3, CpBind
        <4> QED BY <4>3, <4>4 DEF Has
      <3> QED BY <2>3, <3>2
    <2> QED BY <2>1, <2>3, <2>4 DEF PlaceInv
  <1>6. /\ pc' \in AfterUpload  => Has(G("media_object"))'
        /\ pc' \in AfterBase    => Has(G("base_asr"))'
        /\ pc' \in AfterPeer    => Has(G("peer_asr"))'
        /\ pc' \in AfterCompare => Has(G("asr_comparison"))'
    BY SharedPlaceStep
  <1> QED BY <1>2, <1>3, <1>4, <1>5, <1>6 DEF PlaceInv

-----------------------------------------------------------------------------
(* What the calls have read.                                               *)

\* The inputs of a correction and of an alignment are stored artifacts.
Reads(i) == ResultKind(inv[i].op) \in {"correction_transcript", "ata_response"}
InputsStored == \A i \in DOMAIN inv : Reads(i) => inv[i].inputs \subseteq DOMAIN art

\* Every transcript was made from a resolution that was sealed.
SealedText ==
    \A t \in DOMAIN art : art[t].kind = "transcript" =>
        \E e \in art[t].deps \cap DOMAIN art : art[e].kind = "edit_resolution" /\ Sealed(e)

ReadInv == InputsStored /\ CorrectionsUseRefs /\ SealedText

LEMMA InitRead == Init => ReadInv
  BY DEF Init, ReadInv, InputsStored, CorrectionsUseRefs, SealedText

\* The checkpoint of a key is a stored artifact of it.
LEMMA CpKept ==
    ASSUME TypeInv, CpStored, NEW key \in Keys, Has(key)
    PROVE  KeptAt(Cp(key), key)
  BY BoundsAssumption DEF CpStored, Has, Cp, RoundOf, TypeInv, TypeOK, RowsOK, Rounds

\* A row stays what it was asked to be.
LEMMA AskedStays ==
    ASSUME TypeInv, Next, NEW i \in DOMAIN inv
    PROVE  /\ i \in DOMAIN inv' /\ inv'[i].op = inv[i].op /\ inv'[i].scope = inv[i].scope
           /\ inv'[i].round = inv[i].round /\ inv'[i].inputs = inv[i].inputs
  <1>1. i \in DOMAIN inv' /\ Asked(i)' = Asked(i)
    BY RowsStayAlways DEF RowsStay
  <1>2. PICK j, r : j = inv[i] /\ r = inv'[i]
    OBVIOUS
  <1>3. [op |-> r.op, scope |-> r.scope, round |-> r.round, retryOf |-> r.retryOf,
         inputs |-> r.inputs] =
        [op |-> j.op, scope |-> j.scope, round |-> j.round, retryOf |-> j.retryOf,
         inputs |-> j.inputs]
    BY <1>1, <1>2 DEF Asked
  <1> QED BY <1>1, <1>2, <1>3

\* What a new call reads.
LEMMA NewReads ==
    ASSUME TypeInv, CallInv, StoreInv, JobInv, PlaceInv, ReadInv, Next,
           NEW i \in DOMAIN inv', i \notin DOMAIN inv, Reads(i)'
    PROVE  /\ inv'[i].inputs \subseteq DOMAIN art /\ inv'[i].round = round
           /\ UNCHANGED <<art, prep>>
           /\ ResultKind(inv'[i].op) = "correction_transcript" =>
                \A j \in inv'[i].inputs :
                   art[j].kind = "job_input" => art[j].body = PreparedRefs
  <1>1. i = Len(inv) + 1 /\ \E op, scope : Asks(op, scope)
    BY NewRow
  <1>2. PICK op, scope : Asks(op, scope)
    BY <1>1
  <1>3. /\ inv'[i].op = op /\ inv'[i].inputs = Inputs(op, scope) /\ inv'[i].round = round
        /\ UNCHANGED <<art, prep>>
    BY <1>1, <1>2 DEF Asks, dataVars
  <1>4. ResultKind(op) \in {"correction_transcript", "ata_response"}
    BY <1>3 DEF Reads
  <1>5. \A kind \in {"base_asr", "peer_asr", "job_input", "asr_comparison", "media_object",
                     "transcript"} :
          Has(G(kind)) => Cp(G(kind)) \in DOMAIN art /\ art[Cp(G(kind))].kind = kind
    <2> SUFFICES ASSUME NEW kind \in {"base_asr", "peer_asr", "job_input", "asr_comparison",
                                      "media_object", "transcript"}, Has(G(kind))
                 PROVE  Cp(G(kind)) \in DOMAIN art /\ art[Cp(G(kind))].kind = kind
      OBVIOUS
    <2>1. G(kind) \in Keys
      BY KeysOfKinds, KindSet
    <2>2. KeptAt(Cp(G(kind)), G(kind))
      BY <2>1, CpKept DEF StoreInv
    <2> QED BY <2>2 DEF KeptAt, KeyOf, G
  <1>6. CASE pc \in DOMAIN MainCall /\ op = MainCall[pc]
    <2>1. pc = "ata" /\ op = "ata"
      BY <1>4, <1>6 DEF MainCall, ResultKind
    <2>2. Has(G("media_object")) /\ Has(G("transcript"))
      BY <2>1 DEF PlaceInv, AfterUpload, Reading
    <2>3. Inputs(op, scope) = {Cp(G("media_object")), Cp(G("transcript"))}
      BY <2>1 DEF Inputs
    <2> QED BY <1>3, <1>5, <2>1, <2>2, <2>3 DEF ResultKind
  <1>7. CASE pc \in Arms /\ op = ArmOp(pc)
    <2>1. Has(G("base_asr")) /\ Has(G("peer_asr")) /\ Has(G("asr_comparison"))
      BY <1>7 DEF PlaceInv, AfterCompare, AfterPeer, AfterBase, AfterUpload, Reading, Arms
    <2>2. JobReady
      BY <1>7 DEF JobInv, Reading, Arms
    <2>3. Inputs(op, scope) = {Cp(G("base_asr")), Cp(G("peer_asr")), Cp(G("job_input")),
                               Cp(G("asr_comparison"))}
      BY <1>7 DEF Inputs, ArmOp, Arms
    <2> QED BY <1>3, <1>5, <2>1, <2>2, <2>3 DEF JobReady
  <1>8. ASSUME NEW k \in DOMAIN inv, inv[k].op = op, inv[k].round = round,
               inv[k].inputs = Inputs(op, scope)
        PROVE  /\ inv'[i].inputs \subseteq DOMAIN art
               /\ ResultKind(inv'[i].op) = "correction_transcript" =>
                    \A j \in inv'[i].inputs :
                       art[j].kind = "job_input" => art[j].body = PreparedRefs
    <2>1. Reads(k)
      BY <1>4, <1>8 DEF Reads
    <2>2. inv[k].inputs \subseteq DOMAIN art
      BY <2>1 DEF ReadInv, InputsStored
    <2>3. ResultKind(op) = "correction_transcript" =>
            \A j \in inv[k].inputs : art[j].kind = "job_input" => art[j].body = PreparedRefs
      BY <1>8 DEF ReadInv, CorrectionsUseRefs, PreparedRefs
    <2> QED BY <1>3, <1>8, <2>2, <2>3
  <1> QED BY <1>2, <1>3, <1>6, <1>7, <1>8 DEF Asks

\* The References a round could prepare do not change once it has asked for a correction.
LEMMA RefsStay ==
    ASSUME TypeInv, CallInv, JobInv, Next, NEW i \in DOMAIN inv,
           ResultKind(inv[i].op) = "correction_transcript"
    PROVE  prep'[inv[i].round] = prep[inv[i].round]
  <1>1. inv[i].round \in 1..round
    <2>1. inv[i].round <= round
      BY DEF CallInv, RoundsPast
    <2>2. inv[i].round \in Rounds /\ round \in Rounds
      BY DEF TypeInv, TypeOK, RowsOK, DataOK, InvocationRows
    <2> QED BY <2>1, <2>2 DEF Rounds
  <1>2. CASE inv[i].round = round
    <2>1. AnyLate
      BY <1>2 DEF AnyLate, LateCall, SharedStages
    <2>2. ~PrepareReference
      BY <2>1 DEF JobInv, JobReady, PrepareReference
    <2> QED BY <2>2, PrepStays
  <1>3. CASE inv[i].round # round
    <2>1. CASE PrepareReference
      <3>1. \E f, v : prep' = [prep EXCEPT ![round][f] = v]
        BY <2>1 DEF PrepareReference, PrepRow
      <3>2. inv[i].round \in Rounds
        BY DEF TypeInv, TypeOK, DataOK, InvocationRows
      <3> QED BY <1>3, <3>1, <3>2 DEF TypeInv, TypeOK, DataOK
    <2> QED BY <2>1, PrepStays
  <1> QED BY <1>2, <1>3

\* What is new in the table is what was published.
LEMMA WithSeq ==
    ASSUME NEW S, NEW s \in Seq(S), NEW a
    PROVE  \E T : With(s, a) \in Seq(T)
  <1>1. s \in Seq(S \cup {a}) /\ a \in S \cup {a}
    OBVIOUS
  <1>2. With(s, a) \in Seq(S \cup {a})
    BY <1>1, WithType
  <1> QED BY <1>2

LEMMA WithNew ==
    ASSUME NEW S, NEW s \in Seq(S), NEW a, NEW i \in DOMAIN With(s, a), i \notin DOMAIN s
    PROVE  With(s, a)[i] = a
  BY WithHolds

LEMMA WithTwo ==
    ASSUME NEW S, NEW s \in Seq(S), NEW a, NEW b, NEW t, t = With(With(s, a), b),
           NEW i \in DOMAIN t, i \notin DOMAIN s
    PROVE  t[i] \in {a, b}
  <1>1. PICK u : u = With(s, a)
    OBVIOUS
  <1>2. PICK T : u \in Seq(T)
    BY <1>1, WithSeq
  <1>3. t = With(u, b)
    BY <1>1
  <1>4. CASE i \in DOMAIN u
    <2>1. u[i] = a
      BY <1>1, <1>4, WithNew
    <2>2. t[i] = u[i]
      BY <1>2, <1>3, <1>4, WithHolds DEF Extends
    <2> QED BY <2>1, <2>2
  <1>5. CASE i \notin DOMAIN u
    BY <1>2, <1>3, <1>5, WithNew
  <1> QED BY <1>4, <1>5

LEMMA WithThree ==
    ASSUME NEW S, NEW s \in Seq(S), NEW a, NEW b, NEW c, NEW t,
           t = With(With(With(s, a), b), c), NEW i \in DOMAIN t, i \notin DOMAIN s
    PROVE  t[i] \in {a, b, c}
  <1>1. PICK u : u = With(s, a)
    OBVIOUS
  <1>2. PICK T : u \in Seq(T)
    BY <1>1, WithSeq
  <1>3. t = With(With(u, b), c)
    BY <1>1
  <1>4. CASE i \in DOMAIN u
    <2>1. u[i] = a
      BY <1>1, <1>4, WithNew
    <2>2. PICK v : v = With(u, b)
      OBVIOUS
    <2>3. PICK U : v \in Seq(U)
      BY <1>2, <2>2, WithSeq
    <2>4. v[i] = u[i] /\ i \in DOMAIN v
      BY <1>2, <1>4, <2>2, WithHolds DEF Extends
    <2>5. t = With(v, c)
      BY <1>3, <2>2
    <2>6. t[i] = v[i]
      BY <2>3, <2>4, <2>5, WithHolds DEF Extends
    <2> QED BY <2>1, <2>4, <2>6
  <1>5. CASE i \notin DOMAIN u
    <2>1. t[i] \in {b, c}
      BY <1>2, <1>3, <1>5, WithTwo
    <2> QED BY <2>1
  <1> QED BY <1>4, <1>5

\* The kinds each step may publish.
Publishes(a) ==
    \/ IntakeJob /\ a = OriginalJob
    \/ MediaPrepare /\ a \in {Probe, Timeline}
    \/ Compare /\ a = Comparison
    \/ PublishJob /\ a = EffectiveJob
    \/ PlanStage /\ KeyOf(a) = G("merge_plan")
    \/ SaveBatch /\ KeyOf(a) = <<"selection_batch", Batch>>
    \/ Deciders /\ KeyOf(a) \in DecisionKeys
    \/ SaveTranscript /\ a = Saved(G("transcript"), {Cp(G("base_asr")), Cp(G("edit_resolution"))}, {})
    \/ SaveAtaResult /\ KeyOf(a) = G("ata_result")
    \/ Render /\ a = Srt
    \/ \E s \in Slots : Succeed(s) /\ KeyOf(a) = CallKeyOf(slot[s].inv)

LEMMA NewArtifacts ==
    ASSUME TypeInv, Next, NEW i \in DOMAIN art', i \notin DOMAIN art
    PROVE  Publishes(art'[i])
  <1> USE DEF dataVars
  <1>1. art \in Seq(ArtifactRows)
    BY DEF TypeInv, TypeOK, DataOK
  <1>2. \A a : art' = With(art, a) => art'[i] = a
    BY <1>1, WithNew
  <1>3. \A a, b : art' = With(With(art, a), b) => art'[i] \in {a, b}
    BY <1>1, WithTwo
  <1>4. \A a, b, c : art' = With(With(With(art, a), b), c) => art'[i] \in {a, b, c}
    BY <1>1, WithThree
  <1>5. \A key, deps, body : KeyOf(Saved(key, deps, body)) = <<key[1], key[2]>>
    BY DEF Saved, Artifact, KeyOf
  <1>6. CASE IntakeJob \/ Compare \/ PublishJob \/ Render
    BY <1>2, <1>6 DEF IntakeJob, Compare, PublishJob, Render, PublishOnly, Publishes
  <1>7. CASE PlanStage \/ SaveBatch \/ SaveTranscript \/ SaveAtaResult
    <2>1. \A a : Publish(a) => art'[i] = a
      BY <1>2 DEF Publish, PublishOnly
    <2>2. CASE PlanStage
      <3>1. \E a : Publish(a) /\ KeyOf(a) = G("merge_plan")
        BY <1>5, <2>2 DEF PlanStage, G
      <3> QED BY <2>1, <2>2, <3>1 DEF Publishes
    <2>3. CASE SaveBatch
      <3>1. \E a : Publish(a) /\ KeyOf(a) = <<"selection_batch", Batch>>
        BY <1>5, <2>3 DEF SaveBatch
      <3> QED BY <2>1, <2>3, <3>1 DEF Publishes
    <2>4. CASE SaveTranscript
      BY <2>1, <2>4 DEF SaveTranscript, Publishes
    <2>5. CASE SaveAtaResult
      <3>1. \E a : Publish(a) /\ KeyOf(a) = G("ata_result")
        BY <1>5, <2>5 DEF SaveAtaResult, G
      <3> QED BY <2>1, <2>5, <3>1 DEF Publishes
    <2> QED BY <1>7, <2>2, <2>3, <2>4, <2>5
  <1>8. CASE MediaPrepare
    <2>1. art' = With(With(art, Probe), Timeline)
      BY <1>8 DEF MediaPrepare
    <2>2. PICK p, t : p = Probe /\ t = Timeline
      OBVIOUS
    <2>3. art'[i] \in {p, t}
      BY <1>3, <2>1, <2>2
    <2> QED BY <1>8, <2>2, <2>3 DEF Publishes
  <1>9. CASE Finalize
    <2>0. PICK deps, items, queueDeps :
            art' = With(With(art, Saved(G("edit_resolution"), deps, items)),
                        Saved(G("review_queue"), queueDeps, items))
      BY <1>9 DEF Finalize
    <2>1. PICK a, b : art' = With(With(art, a), b) /\ KeyOf(a) = G("edit_resolution")
                      /\ KeyOf(b) = G("review_queue")
      BY <1>5, <2>0 DEF G
    <2>2. art'[i] \in {a, b}
      BY <1>3, <2>1
    <2>3. KeyOf(art'[i]) \in DecisionKeys
      BY <2>1, <2>2 DEF DecisionKeys
    <2> QED BY <1>9, <2>3 DEF Publishes, Deciders
  <1>10. CASE ResolveReview
    <2>0. PICK reviewDeps, deps, queueDeps :
            art' = With(With(With(art, Saved(G("review_resolution"), reviewDeps, {})),
                             Saved(G("edit_resolution"), deps, {})),
                        Saved(G("review_queue"), queueDeps, {}))
      BY <1>10 DEF ResolveReview
    <2>1. PICK a, b, c : art' = With(With(With(art, a), b), c) /\ KeyOf(a) = G("review_resolution")
                         /\ KeyOf(b) = G("edit_resolution") /\ KeyOf(c) = G("review_queue")
      BY <1>5, <2>0 DEF G
    <2>2. art'[i] \in {a, b, c}
      BY <1>4, <2>1
    <2>3. KeyOf(art'[i]) \in DecisionKeys
      BY <2>1, <2>2 DEF DecisionKeys
    <2> QED BY <1>10, <2>3 DEF Publishes, Deciders
  <1>11. ASSUME NEW s \in Slots, Succeed(s) PROVE Publishes(art'[i])
    <2>1. \A key, deps, mark, body : KeyOf(Artifact(key, deps, mark, body)) = <<key[1], key[2]>>
      BY DEF Artifact, KeyOf
    <2>2. \E a : Publish(a) /\ KeyOf(a) = CallKeyOf(slot[s].inv)
      BY <1>11, <2>1 DEF Succeed, CallKeyOf
    <2>3. KeyOf(art'[i]) = CallKeyOf(slot[s].inv)
      BY <1>2, <2>2 DEF Publish, PublishOnly
    <2> QED BY <1>11, <2>3 DEF Publishes
  <1> QED BY <1>6, <1>7, <1>8, <1>9, <1>10, <1>11, ArtQuiet DEF Publishers

\* A transcript is published by its own step only.
LEMMA NewText ==
    ASSUME TypeInv, CallInv, Next, NEW i \in DOMAIN art', i \notin DOMAIN art,
           art'[i].kind = "transcript"
    PROVE  /\ SaveTranscript
           /\ art'[i] = Saved(G("transcript"), {Cp(G("base_asr")), Cp(G("edit_resolution"))}, {})
  <1>1. PICK a : a = art'[i]
    OBVIOUS
  <1>2. Publishes(a) /\ KeyOf(a)[1] = "transcript"
    BY <1>1, NewArtifacts DEF KeyOf
  <1>3. /\ KeyOf(OriginalJob)[1] = "job_input" /\ KeyOf(EffectiveJob)[1] = "job_input"
        /\ KeyOf(Probe)[1] = "media_probe" /\ KeyOf(Timeline)[1] = "timeline_audio"
        /\ KeyOf(Comparison)[1] = "asr_comparison" /\ KeyOf(Srt)[1] = "srt_render"
    BY DEF OriginalJob, EffectiveJob, Probe, Timeline, Comparison, Srt, Artifact, KeyOf, G
  <1>4. \A s \in Slots : Succeed(s) => CallKeyOf(slot[s].inv)[1] \in CallKinds
    <2> TAKE s \in Slots
    <2> HAVE Succeed(s)
    <2>1. slot[s].inv \in DOMAIN inv
      BY AnsweredCall DEF Succeed
    <2>2. inv[slot[s].inv].op \in Ops
      BY <2>1 DEF TypeInv, TypeOK, DataOK, InvocationRows
    <2> QED BY <2>2 DEF ResultKind, Ops, RemoteOps, CallKinds, CallKeyOf
  <1> QED BY <1>1, <1>2, <1>3, <1>4 DEF Publishes, DecisionKeys, CallKinds, G

\* What the calls have read stays what it was, and every step reads the right things.
LEMMA ReadStep ==
    ASSUME TypeInv, CallInv, StoreInv, JobInv, PlaceInv, ReadInv, Next
    PROVE  ReadInv'
  <1>0. ArtStays /\ CpStored
    BY ArtStaysAlways DEF StoreInv
  <1>1. ASSUME NEW i \in DOMAIN inv', Reads(i)' PROVE inv'[i].inputs \subseteq DOMAIN art'
    <2>1. CASE i \in DOMAIN inv
      <3>1. inv'[i].op = inv[i].op /\ inv'[i].inputs = inv[i].inputs
        BY <2>1, AskedStays
      <3>2. inv[i].inputs \subseteq DOMAIN art
        BY <1>1, <2>1, <3>1 DEF Reads, ReadInv, InputsStored
      <3> QED BY <1>0, <3>1, <3>2 DEF ArtStays, Extends
    <2>2. CASE i \notin DOMAIN inv
      BY <1>1, <2>2, NewReads
    <2> QED BY <2>1, <2>2
  <1>2. ASSUME NEW i \in DOMAIN inv', ResultKind(inv'[i].op) = "correction_transcript",
               NEW j \in inv'[i].inputs, art'[j].kind = "job_input"
        PROVE  art'[j].body = {f \in Refs : prep'[inv'[i].round][f] = "available"}
    <2>1. CASE i \in DOMAIN inv
      <3>1. inv'[i].op = inv[i].op /\ inv'[i].inputs = inv[i].inputs /\ inv'[i].round = inv[i].round
        BY <2>1, AskedStays
      <3>2. j \in DOMAIN art /\ j \in inv[i].inputs
        BY <1>2, <2>1, <3>1 DEF Reads, ReadInv, InputsStored
      <3>3. art'[j] = art[j]
        BY <1>0, <3>2 DEF ArtStays, Extends
      <3>4. prep'[inv[i].round] = prep[inv[i].round]
        BY <1>2, <2>1, <3>1, RefsStay
      <3>5. art[j].body = {f \in Refs : prep[inv[i].round][f] = "available"}
        BY <1>2, <2>1, <3>1, <3>2, <3>3 DEF ReadInv, CorrectionsUseRefs
      <3> QED BY <3>1, <3>3, <3>4, <3>5
    <2>2. CASE i \notin DOMAIN inv
      <3>1. Reads(i)'
        BY <1>2 DEF Reads
      <3>2. UNCHANGED <<art, prep>> /\ inv'[i].round = round
        BY <2>2, <3>1, NewReads
      <3>3. art[j].body = PreparedRefs
        BY <1>2, <2>2, <3>1, <3>2, NewReads
      <3> QED BY <3>2, <3>3 DEF PreparedRefs
    <2> QED BY <2>1, <2>2
  <1>3. ASSUME NEW t \in DOMAIN art', art'[t].kind = "transcript"
        PROVE  \E e \in art'[t].deps \cap DOMAIN art' :
                  art'[e].kind = "edit_resolution" /\ art'[e].body = {}
    <2>1. CASE t \in DOMAIN art
      <3>1. art'[t] = art[t]
        BY <1>0, <2>1 DEF ArtStays, Extends
      <3>2. PICK e \in art[t].deps \cap DOMAIN art : art[e].kind = "edit_resolution" /\ Sealed(e)
        BY <1>3, <2>1, <3>1 DEF ReadInv, SealedText
      <3>3. e \in DOMAIN art' /\ art'[e] = art[e]
        BY <1>0, <3>2 DEF ArtStays, Extends
      <3> QED BY <3>1, <3>2, <3>3 DEF Sealed
    <2>2. CASE t \notin DOMAIN art
      <3>1. /\ SaveTranscript
            /\ art'[t] = Saved(G("transcript"), {Cp(G("base_asr")), Cp(G("edit_resolution"))}, {})
        BY <1>3, <2>2, NewText
      <3>2. pc = "transcript"
        BY <3>1, StepPlaces
      <3>3. Has(G("edit_resolution")) /\ Sealed(Cp(G("edit_resolution")))
        BY <3>2 DEF PlaceInv
      <3>4. G("edit_resolution") \in Keys
        BY KeysOfKinds, KindSet
      <3>5. KeptAt(Cp(G("edit_resolution")), G("edit_resolution"))
        BY <1>0, <3>3, <3>4, CpKept
      <3>6. PICK e : e = Cp(G("edit_resolution"))
        OBVIOUS
      <3>7. e \in art'[t].deps
        BY <3>1, <3>6 DEF Saved, Artifact
      <3>8. e \in DOMAIN art' /\ art'[e] = art[e]
        BY <1>0, <3>5, <3>6 DEF KeptAt, ArtStays, Extends
      <3>9. art[e].kind = "edit_resolution" /\ art[e].body = {}
        BY <3>3, <3>5, <3>6 DEF KeptAt, KeyOf, Sealed, G
      <3> QED BY <3>7, <3>8, <3>9
    <2> QED BY <2>1, <2>2
  <1>4. InputsStored'
    BY <1>1 DEF InputsStored
  <1>5. CorrectionsUseRefs'
    BY <1>2 DEF CorrectionsUseRefs
  <1>6. SealedText'
    BY <1>3 DEF SealedText, Sealed
  <1> QED BY <1>4, <1>5, <1>6 DEF ReadInv

\* All of this holds in every execution.
ArtInv == StoreInv /\ JobInv /\ PlaceInv /\ ReadInv

LEMMA ArtQuietly == ASSUME ArtInv, UNCHANGED vars PROVE ArtInv'
  <1>1. UNCHANGED <<round, status, cancel, result, bound, inv, art, cp, ptr, prep, pc, exc,
                    retryOf, slot, todo, unsel, faults>>
    BY DEF vars, rowVars, dataVars, localVars
  <1>2. \A k : Cp(k)' = Cp(k)
    BY <1>1, CpSame
  <1>3. /\ OriginalJob' = OriginalJob /\ Probe' = Probe /\ Timeline' = Timeline
        /\ EffectiveJob' = EffectiveJob /\ Comparison' = Comparison
    BY <1>1, <1>2 DEF OriginalJob, Probe, Timeline, EffectiveJob, Comparison, PreparedRefs, IdIn,
                      Artifact
  <1>4. StoreInv'
    BY <1>1, <1>3 DEF ArtInv, StoreInv, Unique, Prepared, CpStored, KeptAt, KeyOf, Holds
  <1>5. JobInv'
    BY <1>1, <1>2 DEF ArtInv, JobInv, JobReady, AnyLate, LateCall, UnpreparedRefs, PreparedRefs, Has
  <1>6. PlaceInv'
    <2>1. SealedFinal' = SealedFinal /\ Sealed(Cp(G("edit_resolution")))' = Sealed(Cp(G("edit_resolution")))
      BY <1>1, <1>2 DEF SealedFinal, Sealed
    <2> QED BY <1>1, <1>2, <2>1 DEF ArtInv, PlaceInv, Has
  <1>7. ReadInv'
    BY <1>1 DEF ArtInv, ReadInv, InputsStored, Reads, CorrectionsUseRefs, SealedText, Sealed
  <1> QED BY <1>4, <1>5, <1>6, <1>7 DEF ArtInv

LEMMA ArtInvariant == Spec => []ArtInv
  <1>1. Init => ArtInv
    BY InitStore, InitJob, InitPlace, InitRead DEF ArtInv
  <1>2. TypeInv /\ ControlInv /\ CallInv /\ ArtInv /\ [Next]_vars => ArtInv'
    <2>1. ASSUME TypeInv, ControlInv, CallInv, ArtInv, Next PROVE ArtInv'
      BY <2>1, StoreStep, JobStep, PlaceStep, ReadStep DEF ArtInv
    <2> QED BY <2>1, ArtQuietly
  <1> QED BY <1>1, <1>2, TypeInvariant, ControlInvariant, CallInvariant, PTL DEF Spec

\* No ATA call is made on a transcript whose resolution was not sealed: a run whose review is
\* not cleared, or whose selection is not finished, never reaches the alignment.
THEOREM AlignsSealed == Spec => []AtaOnlySealed
  <1>1. ArtInv => AtaOnlySealed
    <2> SUFFICES ASSUME ArtInv, NEW i \in DOMAIN inv, inv[i].op = "ata",
                        NEW t \in inv[i].inputs, art[t].kind = "transcript"
                 PROVE  \E e \in art[t].deps : art[e].kind = "edit_resolution" /\ Sealed(e)
      BY DEF AtaOnlySealed
    <2>1. Reads(i)
      BY DEF Reads, ResultKind
    <2>2. t \in DOMAIN art
      BY <2>1 DEF ArtInv, ReadInv, InputsStored
    <2> QED BY <2>2 DEF ArtInv, ReadInv, SealedText
  <1> QED BY <1>1, ArtInvariant, PTL

\* Both arms of a round read exactly the References that round could prepare.
THEOREM ArmsReadRefs == Spec => []CorrectionsUseRefs
  <1>1. ArtInv => CorrectionsUseRefs
    BY DEF ArtInv, ReadInv
  <1> QED BY <1>1, ArtInvariant, PTL

\* A sealed resolution is never decided again in its round; only a wider set of usable
\* References, found before any call of the round, may drop a carried one.
THEOREM SealedIsFinal == Spec => SealedStays
  <1>1. ASSUME TypeInv, CallInv, ArtInv, Next, SealedFinal, round' = round
        PROVE  \/ cp'[round][G("edit_resolution")] = cp[round][G("edit_resolution")]
               \/ cp'[round][G("edit_resolution")] = 0 /\ Attempts("qwen_correction", "qwen") = {}
    <2> DEFINE edit == G("edit_resolution")
    <2>0. edit \in Keys
      BY KeysOfKinds, KindSet
    <2>1. edit \in Keys /\ round \in 0..MaxRounds
      BY <1>1, <2>0, BoundsAssumption DEF TypeInv, TypeOK, RowsOK, Rounds
    <2>2. ~RetryRun
      BY <1>1 DEF RetryRun, TypeInv, TypeOK, RowsOK, Rounds
    <2>3. CASE Invalidate
      <3>1. cp'[round][edit] \in {0, cp[round][edit]}
        BY <1>1, <2>1, <2>3, InvalidateCells
      <3>2. Attempts("qwen_correction", "qwen") = {}
        <4> SUFFICES ASSUME NEW i \in Attempts("qwen_correction", "qwen") PROVE FALSE
          OBVIOUS
        <4>1. AnyLate
          BY DEF Attempts, AnyLate, LateCall, ResultKind, SharedStages
        <4> QED BY <1>1, <2>3, <4>1 DEF ArtInv, JobInv, JobReady, Invalidate, RefsChanged
      <3> QED BY <3>1, <3>2
    <2>4. CASE ~Invalidate
      <3>1. ~Deciders
        <4>1. ~Finalize
          BY <1>1 DEF Finalize, ArtInv, PlaceInv
        <4>2. ~ResolveReview
          BY <1>1 DEF ResolveReview, ReviewAccepted, SealedFinal
        <4> QED BY <4>1, <4>2 DEF Deciders
      <3>2. ~Writes(edit)
        BY <3>1 DEF Writes, CallKinds, G
      <3>3. Cp(edit)' = Cp(edit)
        BY <1>1, <2>1, <2>2, <2>4, <3>2, CpStays
      <3> QED BY <1>1, <3>3 DEF Cp, RoundOf, SharedStages, G
    <2> QED BY <2>3, <2>4
  <1>2. TypeInv /\ CallInv /\ ArtInv /\ [Next]_vars =>
          [SealedFinal /\ round' = round =>
             \/ cp'[round][G("edit_resolution")] = cp[round][G("edit_resolution")]
             \/ cp'[round][G("edit_resolution")] = 0 /\ Attempts("qwen_correction", "qwen") = {}]_vars
    BY <1>1
  <1> QED BY <1>2, TypeInvariant, CallInvariant, ArtInvariant, PTL DEF Spec, SealedStays

-----------------------------------------------------------------------------
(* The exported subtitle.                                                  *)

\* The render of the round is stored and current from its publication to the commit; a
\* round that does not exist yet has no status.
Rendered == pc \in {"persist", "commit"} =>
                /\ Holds(art, Srt)
                /\ ptr[G("srt_render")] = [id |-> IdIn(art, Srt), stale |-> FALSE]
NoneAhead == \A r \in Rounds : r > round => status[r] = "none"
ExportInv == Rendered /\ NoneAhead /\ SuccessExport

LEMMA InitExport == Init => ExportInv
  BY DEF Init, ExportInv, Rendered, NoneAhead, SuccessExport, Rounds

\* One step makes a round succeed.
LEMMA StatusWrites ==
    ASSUME Next
    PROVE  \/ CommitSuccess \/ RetryRun \/ status' = status
           \/ \E s : s # "succeeded" /\ SetStatus(s)
  <1> USE DEF rowVars
  <1>1. CASE EntrySteps
    BY <1>1 DEF EntrySteps, IntakeJob, IntakeBind, IntakeCheckpoint, ResumeRun, RetryInvocation,
                ResolveReview, Refuse
  <1>2. CASE LocalStage
    <2>1. CASE SetRunning \/ ReviewGate
      BY <2>1 DEF SetRunning, ReviewGate
    <2> QED BY <1>2, <2>1
        DEF LocalStage, Progress, JobStage, MediaReuse, MediaPrepare, BindMedia,
            Compare, BindCompare, PrepareReference, ReferencesPrepared, SameReferences,
            Invalidate, PublishJob, BindJob, PlanStage, ResolveStage, SaveBatch, Finalize,
            SaveTranscript
  <1>3. CASE CallStep
    BY <1>3 DEF CallStep, CallReuse, CallRefused, CallBegin, ArmReuse, ArmRefused, ArmBegin,
                Receipt, Collected, MarkSending, Succeed, CallCancelled, CompletedInvalid,
                Resubmit, ResubmitFails, CallFails
  <1>4. CASE ExportStep
    <2>1. CASE FailRun
      BY <2>1 DEF FailRun
    <2> QED BY <1>4, <2>1
        DEF ExportStep, ActivateInputs, SaveAtaResult, ActivateResult, Render, PersistOutputs,
            ProjectResult, LocalFailure, FailCommit, Snapshot
  <1>5. CASE RequestCancel \/ Crash
    BY <1>5 DEF RequestCancel, Crash
  <1>6. ASSUME NEW c \in Commands, Enter(c)
        PROVE  status' = status \/ SetStatus("interrupted")
    BY <1>6 DEF Enter, Recover
  <1> QED BY <1>1, <1>2, <1>3, <1>4, <1>5, <1>6 DEF Next, Writer

\* A succeeded round is only left by a new one.
LEMMA SuccessQuiet ==
    ASSUME TypeInv, ControlInv, Next, RunStatus = "succeeded", ~RetryRun
    PROVE  UNCHANGED <<round, result, cp, ptr>> /\ ~CommitSuccess
  <1> USE DEF rowVars, dataVars
  <1>1. bound /\ result[round].status = "succeeded"
    BY DEF ControlInv, SuccessKept, RunStatus, TypeInv, TypeOK, RowsOK
  <1>2. /\ pc \notin Executing \cup {"start", "intakeBind", "intakeCheckpoint", "failCommit"}
        /\ ~CommitSuccess
    BY ExecutingSet, StepPlaces DEF ControlInv, StatusAt
  <1>3. CASE EntrySteps
    BY <1>1, <1>2, <1>3, StepPlaces
    DEF EntrySteps, IntakeJob, ResumeRun, RetryInvocation, ResolveReview, Refuse
  <1>4. ~LocalStage
    <2>1. DOMAIN AfterProgress = {"preparing", "asr", "correction", "reviewing", "aligning",
                                  "exporting"}
      BY DEF AfterProgress
    <2> QED BY <1>2, <2>1, ExecutingSet, StepPlaces DEF LocalStage
  <1>5. ~CallStep
    BY <1>2, ExecutingSet, CallStepPlaces DEF CallPlaces
  <1>6. CASE ExportStep
    <2>1. Snapshot => UNCHANGED <<round, result, cp, ptr>>
      BY <1>1 DEF Snapshot
    <2>2. ~(ActivateInputs \/ SaveAtaResult \/ ActivateResult \/ Render \/ PersistOutputs
            \/ FailCommit)
      BY <1>2, ExecutingSet, StepPlaces
    <2>3. ProjectResult \/ LocalFailure => UNCHANGED <<round, result, cp, ptr>>
      BY DEF ProjectResult, LocalFailure
    <2>4. FailRun => UNCHANGED <<round, result, cp, ptr>>
      BY DEF FailRun
    <2>5. ProjectResult \/ LocalFailure \/ FailRun \/ Snapshot
      BY <1>2, <1>6, <2>2 DEF ExportStep
    <2>6. UNCHANGED <<round, result, cp, ptr>>
      BY <2>1, <2>3, <2>4, <2>5
    <2> QED BY <1>2, <2>6
  <1>7. CASE RequestCancel \/ Crash
    BY <1>2, <1>7 DEF RequestCancel, Crash
  <1>8. ASSUME NEW c \in Commands, Enter(c) PROVE UNCHANGED <<round, result, cp, ptr>>
    BY <1>8 DEF Enter
  <1> QED BY <1>2, <1>3, <1>4, <1>5, <1>6, <1>7, <1>8 DEF Next, Writer

\* The render, once published, is what success will name.
LEMMA RenderedStep ==
    ASSUME TypeInv, StoreInv, Rendered, Next
    PROVE  Rendered'
  <1> SUFFICES ASSUME pc' \in {"persist", "commit"}
               PROVE  /\ Holds(art', Srt')
                      /\ ptr'[G("srt_render")] = [id |-> IdIn(art', Srt'), stale |-> FALSE]
    BY DEF Rendered
  <1>1. pc \in {"render", "persist", "commit"}
    BY WriterMoves DEF Moves, Leads, Resting, Commands
  <1>2. Srt' = Srt /\ round' = round
    <2>1. Render \/ PersistOutputs \/ RequestCancel
      BY <1>1, StepsAt DEF Resting, Commands
    <2>2. UNCHANGED <<cp, round>>
      BY <2>1 DEF Render, PersistOutputs, RequestCancel, rowVars, dataVars
    <2> QED BY <2>2, CpSame DEF Srt, Artifact
  <1>3. CASE pc = "render"
    <2>1. Render
      BY <1>3, StepsAt DEF Resting, Commands, RequestCancel
    <2>2. PublishOnly(Srt)
      BY <2>1 DEF Render, Raise
    <2>3. PICK a : a = Srt
      OBVIOUS
    <2>4. /\ art' = With(art, a)
          /\ ptr' = Activate(Stale(ptr, StaleTargets(a.kind)), Only(KeyOf(a), IdIn(art, a)))
      BY <2>2, <2>3 DEF PublishOnly
    <2>5. art \in Seq(ArtifactRows) /\ Unique(art)
      BY DEF TypeInv, TypeOK, DataOK, StoreInv
    <2>6. Holds(art', a) /\ IdIn(art', a) = IdIn(art, a)
      BY <2>4, <2>5, IdPublished
    <2>7. KeyOf(a) = G("srt_render") /\ G("srt_render") \in Keys
      BY <2>3, KeysOfKinds, KindSet DEF Srt, Artifact, KeyOf, G
    <2>8. PICK id : id = IdIn(art, a)
      OBVIOUS
    <2>9. ptr'[G("srt_render")] = [id |-> id, stale |-> FALSE]
      BY <2>4, <2>7, <2>8 DEF Activate, Only
    <2> QED BY <1>2, <2>3, <2>6, <2>8, <2>9
  <1>4. CASE pc # "render"
    <2>1. PersistOutputs \/ RequestCancel
      BY <1>1, <1>4, StepsAt DEF Resting, Commands
    <2>2. UNCHANGED <<art, ptr>>
      BY <2>1 DEF PersistOutputs, RequestCancel, dataVars
    <2> QED BY <1>1, <1>2, <1>4, <2>2 DEF Rendered
  <1> QED BY <1>3, <1>4

LEMMA NoneAheadStep == ASSUME TypeInv, NoneAhead, Next PROVE NoneAhead'
  <1> SUFFICES ASSUME NEW r \in Rounds, r > round' PROVE status'[r] = "none"
    BY DEF NoneAhead
  <1>1. round \in Nat /\ r \in Nat /\ status \in [Rounds -> Statuses]
    BY DEF TypeInv, TypeOK, RowsOK, Rounds
  <1>2. CASE RetryRun
    <2>1. round' = round + 1 /\ status' = [status EXCEPT ![round + 1] = "queued"]
      BY <1>2 DEF RetryRun
    <2> QED BY <1>1, <2>1 DEF NoneAhead
  <1>3. CASE ~RetryRun
    <2>1. round' = round
      BY <1>3, RoundStays
    <2>2. status' = status \/ \E s : status' = [status EXCEPT ![round] = s]
      BY <1>3, StatusWrites DEF CommitSuccess, SetStatus
    <2> QED BY <1>1, <2>1, <2>2 DEF NoneAhead
  <1> QED BY <1>2, <1>3

\* What success says of a round, and keeps saying.
Exports(r) ==
    /\ result[r].status = "succeeded" /\ result[r].srt \in DOMAIN art
    /\ art[result[r].srt].kind = "srt_render"
    /\ art[result[r].srt].deps = {CpIn(r, G("ata_result"))}

LEMMA ExportsKept ==
    ASSUME ArtStays, NEW r, Exports(r), result'[r] = result[r],
           CpIn(r, G("ata_result"))' = CpIn(r, G("ata_result"))
    PROVE  Exports(r)'
  <1>1. PICK id : id = result[r].srt
    OBVIOUS
  <1>2. id \in DOMAIN art' /\ art'[id] = art[id]
    BY <1>1 DEF Exports, ArtStays, Extends
  <1> QED BY <1>1, <1>2 DEF Exports

LEMMA SuccessStep ==
    ASSUME TypeInv, ControlInv, StoreInv, ExportInv, Next
    PROVE  SuccessExport'
  <1> DEFINE srt == G("srt_render")
  <1> SUFFICES ASSUME NEW r \in Rounds, status'[r] = "succeeded"
               PROVE  /\ Exports(r)'
                      /\ r = round' => ptr'[srt] = [id |-> result'[r].srt, stale |-> FALSE]
    BY DEF SuccessExport, Exports
  <1>0. /\ round \in Rounds /\ round \in Nat /\ r \in Nat /\ r # 0
        /\ status \in [Rounds -> Statuses]
        /\ result \in [Rounds -> [status : Statuses, srt : Nat]]
    BY DEF TypeInv, TypeOK, RowsOK, Rounds
  <1>1. ArtStays /\ NoneAhead'
    BY ArtStaysAlways, NoneAheadStep DEF ExportInv
  <1>2. \A x : CpIn(x, G("ata_result")) = cp[x][G("ata_result")]
               /\ CpIn(x, G("ata_result"))' = cp'[x][G("ata_result")]
    BY DEF CpIn, SharedStages, G
  <1>3. status[r] = "succeeded" =>
          Exports(r) /\ (r = round => ptr[srt] = [id |-> result[r].srt, stale |-> FALSE])
    BY DEF ExportInv, SuccessExport, Exports
  <1>4. CASE r < round
    <2>1. r \in 1..round - 1
      BY <1>0, <1>4
    <2>2. status'[r] = status[r] /\ result'[r] = result[r] /\ cp'[r] = cp[r]
      BY <2>1, ColumnsEarlier, CheckpointsEarlier
    <2>3. Exports(r)'
      BY <1>1, <1>2, <1>3, <2>2, ExportsKept
    <2>4. r # round'
      <3>1. round' \in {round, round + 1}
        BY RoundStays DEF RetryRun
      <3> QED BY <1>0, <1>4, <3>1
    <2> QED BY <2>3, <2>4
  <1>5. CASE r > round
    <2>1. RetryRun
      <3> SUFFICES ASSUME ~RetryRun PROVE FALSE
        OBVIOUS
      <3>1. round' = round
        BY RoundStays
      <3> QED BY <1>1, <1>5, <3>1 DEF NoneAhead
    <2>2. status' = [status EXCEPT ![round + 1] = "queued"]
      BY <2>1 DEF RetryRun
    <2>3. status[r] = "none"
      BY <1>5 DEF ExportInv, NoneAhead
    <2> QED BY <1>0, <2>2, <2>3
  <1>6. CASE r = round /\ RetryRun
    <2>1. /\ status' = [status EXCEPT ![round + 1] = "queued"] /\ UNCHANGED result
          /\ round' = round + 1
      BY <1>6 DEF RetryRun
    <2>2. status[r] = "succeeded"
      BY <1>0, <1>6, <2>1
    <2>3. cp'[r][G("ata_result")] = cp[r][G("ata_result")]
      <3>1. G("ata_result") \in Keys
        BY KeysOfKinds, KindSet
      <3>2. r \in 0..MaxRounds /\ r # round + 1
        BY <1>0, <1>6 DEF Rounds
      <3> QED BY <1>6, <3>1, <3>2, RetryCells
    <2>4. Exports(r)'
      BY <1>1, <1>2, <1>3, <2>1, <2>2, <2>3, ExportsKept
    <2> QED BY <1>0, <1>6, <2>1, <2>4
  <1>7. CASE r = round /\ CommitSuccess
    <2>1. pc = "commit"
      BY <1>7, StepPlaces
    <2>2. RunStatus # "succeeded"
      BY <2>1, ExecutingSet DEF ControlInv, StatusAt
    <2>3. /\ result' = [result EXCEPT ![round] = FreshResult("succeeded", ptr[srt].id)]
          /\ UNCHANGED <<round, art, cp, ptr>>
      <3>1. ~CommitStops
        BY <1>7, <2>2 DEF CommitSuccess, RunStatus
      <3> QED BY <1>7, <3>1 DEF CommitSuccess, dataVars
    <2>4. Holds(art, Srt) /\ ptr[srt] = [id |-> IdIn(art, Srt), stale |-> FALSE]
      BY <2>1 DEF ExportInv, Rendered
    <2>5. PICK a, id : a = Srt /\ id = IdIn(art, a)
      OBVIOUS
    <2>6. id \in DOMAIN art /\ art[id] = a
      BY <2>4, <2>5, IdOfHeld
    <2>7. ptr[srt] = [id |-> id, stale |-> FALSE] /\ ptr[srt].id = id
      BY <2>4, <2>5
    <2>8. result'[r] = [status |-> "succeeded", srt |-> id]
      BY <1>0, <1>7, <2>3, <2>7 DEF FreshResult
    <2>9. a.kind = "srt_render" /\ a.deps = {cp[round][G("ata_result")]}
      BY <2>5 DEF Srt, Artifact, Cp, RoundOf, SharedStages, G
    <2>10. Exports(r)'
      BY <1>2, <1>7, <2>3, <2>6, <2>8, <2>9 DEF Exports
    <2>11. result'[r].srt = id /\ ptr'[srt] = [id |-> id, stale |-> FALSE]
      BY <2>3, <2>7, <2>8
    <2> QED BY <2>10, <2>11
  <1>8. CASE r = round /\ ~RetryRun /\ ~CommitSuccess
    <2>1. status[r] = "succeeded"
      <3>1. status' = status \/ \E s : s # "succeeded" /\ status' = [status EXCEPT ![round] = s]
        BY <1>8, StatusWrites DEF SetStatus
      <3> QED BY <1>0, <1>8, <3>1
    <2>2. UNCHANGED <<round, result, cp, ptr>>
      BY <1>8, <2>1, SuccessQuiet DEF RunStatus
    <2>3. result'[r] = result[r] /\ cp'[r][G("ata_result")] = cp[r][G("ata_result")]
      BY <2>2
    <2>4. Exports(r)'
      BY <1>1, <1>2, <1>3, <2>1, <2>3, ExportsKept
    <2>5. ptr[srt] = [id |-> result[r].srt, stale |-> FALSE]
      BY <1>3, <1>8, <2>1
    <2>6. ptr' = ptr /\ result' = result
      BY <2>2
    <2>7. ptr'[srt] = [id |-> result'[r].srt, stale |-> FALSE]
      BY <2>5, <2>6
    <2> QED BY <2>4, <2>7
  <1> QED BY <1>0, <1>4, <1>5, <1>6, <1>7, <1>8

\* A succeeded round names an SRT made from that round's own ATA result, and the current
\* round's is what repair_completed_result finds behind the pointer.
THEOREM SuccessIsExported == Spec => []SuccessExport
  <1>1. ExportInv /\ UNCHANGED vars => ExportInv'
    <2> SUFFICES ASSUME ExportInv, UNCHANGED vars PROVE ExportInv'
      OBVIOUS
    <2>1. UNCHANGED <<round, status, result, art, cp, ptr, pc>>
      BY DEF vars, rowVars, dataVars
    <2>2. Srt' = Srt
      BY <2>1, CpSame DEF Srt, Artifact
    <2>3. Rendered'
      BY <2>1, <2>2 DEF ExportInv, Rendered, Holds, IdIn
    <2>4. SuccessExport'
      BY <2>1 DEF ExportInv, SuccessExport, CpIn
    <2> QED BY <2>1, <2>3, <2>4 DEF ExportInv, NoneAhead
  <1>2. TypeInv /\ ControlInv /\ ArtInv /\ ExportInv /\ [Next]_vars => ExportInv'
    BY <1>1, RenderedStep, NoneAheadStep, SuccessStep DEF ExportInv, ArtInv
  <1>3. ExportInv => SuccessExport
    BY DEF ExportInv
  <1> QED BY <1>2, <1>3, InitExport, TypeInvariant, ControlInvariant, ArtInvariant, PTL DEF Spec

-----------------------------------------------------------------------------
(* Paid results.                                                           *)

\* Every call has a key of its own; a committed result is stored, bears the mark of the call
\* that paid for it, and is found again; the last failed attempt of the round at a call
\* leaves its checkpoint missing.
LastOfRound(i) ==
    /\ inv[i].round = round
    /\ \A j \in DOMAIN inv : j > i /\ SameCall(i, j) => inv[j].round # round

KeysOwned   == \A i \in DOMAIN inv : CallKeyOf(i) \in Keys
Bought      == \A i \in DOMAIN inv : inv[i].status = "succeeded" =>
                  inv[i].art \in DOMAIN art /\ art[inv[i].art].mark = i
FailedEmpty == \A i \in DOMAIN inv :
                  LastOfRound(i) /\ inv[i].status # "succeeded" => ~Has(CallKeyOf(i))

PaidInv == KeysOwned /\ Bought /\ FailedEmpty /\ PaidResultsKept

LEMMA InitPaid == Init => PaidInv
  BY DEF Init, PaidInv, KeysOwned, Bought, FailedEmpty, PaidResultsKept

\* Two calls with one key are attempts at the same operation.
LEMMA KeyIsCall ==
    ASSUME TypeInv, CallInv, NEW i \in DOMAIN inv, NEW j \in DOMAIN inv,
           CallKeyOf(i) = CallKeyOf(j)
    PROVE  SameCall(i, j)
  <1>1. inv[i].op \in Ops /\ inv[j].op \in Ops
    BY DEF TypeInv, TypeOK, DataOK, InvocationRows
  <1>2. ResultKind(inv[i].op) = ResultKind(inv[j].op) /\ inv[i].scope = inv[j].scope
    BY DEF CallKeyOf
  <1>3. CASE ResultKind(inv[i].op) = "correction_transcript"
    <2>1. \A x \in {i, j} : \E a \in Arms : inv[x].op = ArmOp(a) /\ inv[x].scope = a
      <3> SUFFICES ASSUME NEW x \in {i, j} PROVE \E a \in Arms : inv[x].op = ArmOp(a)
        BY DEF CallInv, OwnScope
      <3>1. inv[x].op \in {"qwen_correction", "kimi_correction"}
        BY <1>1, <1>2, <1>3 DEF ResultKind, Ops, RemoteOps
      <3> QED BY <3>1 DEF ArmOp, Arms
    <2> QED BY <1>2, <2>1 DEF SameCall
  <1>4. CASE ResultKind(inv[i].op) # "correction_transcript"
    <2>1. inv[i].op = inv[j].op
      BY <1>1, <1>2, <1>4 DEF ResultKind, Ops, RemoteOps
    <2> QED BY <1>2, <2>1 DEF SameCall
  <1> QED BY <1>3, <1>4

\* The key of a row stays, and a new row has one.
LEMMA KeysOwnedStep ==
    ASSUME TypeInv, TypeInv', CallInv, KeysOwned, Next
    PROVE  KeysOwned'
  <1> SUFFICES ASSUME NEW i \in DOMAIN inv' PROVE CallKeyOf(i)' \in Keys
    BY DEF KeysOwned, Keys
  <1>1. CASE i \in DOMAIN inv
    BY <1>1, AskedStays DEF KeysOwned, CallKeyOf
  <1>2. CASE i \notin DOMAIN inv
    <2>1. i = Len(inv) + 1 /\ \E op, scope : Asks(op, scope)
      BY <1>2, NewRow
    <2>2. PICK op, scope : Asks(op, scope)
      BY <2>1
    <2>3. inv'[i].op = op /\ inv'[i].scope = scope
      BY <2>1, <2>2 DEF Asks
    <2>4. op = "glm_selection" => scope \in Batches
      BY <2>3 DEF TypeInv, TypeOK, DataOK, InvocationRows
    <2>5. CASE pc \in DOMAIN MainCall /\ op = MainCall[pc] /\ scope = CallScope
      <3>1. CASE pc = "select"
        <4>1. op = "glm_selection"
          BY <2>5, <3>1 DEF MainCall
        <4> QED BY <2>3, <2>4, <4>1, KeysOfKinds DEF CallKeyOf, ResultKind
      <3>2. CASE pc # "select"
        <4>1. scope = "global" /\ ResultKind(op) \in {"media_object", "base_asr", "peer_asr",
                                                       "ata_response"}
          BY <2>5, <3>2 DEF MainCall, CallScope, ResultKind
        <4>2. G(ResultKind(op)) \in Keys
          BY <4>1, KeysOfKinds, KindSet
        <4> QED BY <2>3, <4>1, <4>2 DEF CallKeyOf, G
      <3> QED BY <3>1, <3>2
    <2>6. CASE pc \in Arms /\ op = ArmOp(pc) /\ scope = pc
      <3>1. ResultKind(op) = "correction_transcript"
        BY <2>6 DEF ArmOp, ResultKind, Arms
      <3> QED BY <2>3, <2>6, <3>1, KeysOfKinds DEF CallKeyOf, ArmKey
    <2>7. CASE \E k \in DOMAIN inv : inv[k].op = op /\ inv[k].scope = scope
      BY <2>3, <2>7 DEF KeysOwned, CallKeyOf
    <2> QED BY <2>2, <2>5, <2>6, <2>7 DEF Asks
  <1> QED BY <1>1, <1>2

\* What a call succeeds with.
LEMMA SucceedMark ==
    ASSUME TypeInv, CallInv, NEW s \in Slots, Succeed(s), NEW k, k = slot[s].inv
    PROVE  inv'[k].art \in DOMAIN art' /\ art'[inv'[k].art].mark = k
  <1>1. k \in DOMAIN inv /\ inv[k] \in InvocationRows /\ inv \in Seq(InvocationRows)
    BY AnsweredCall DEF Succeed, TypeInv, TypeOK, DataOK
  <1>2. PICK a : /\ Publish(a) /\ a.mark = k
                 /\ inv' = [inv EXCEPT ![k].status = "succeeded", ![k].art = IdIn(art, a)]
    <2>1. PICK a : a = Artifact(<<ResultKind(inv[k].op), inv[k].scope>>,
                                inv[k].inputs \cup IF inv[k].op = "ata"
                                                   THEN {Cp(G("timeline_audio"))} ELSE {},
                                k, {})
      OBVIOUS
    <2>2. Publish(a) /\ inv' = [inv EXCEPT ![k].status = "succeeded", ![k].art = IdIn(art, a)]
      BY <2>1 DEF Succeed
    <2>3. a.mark = k
      BY <2>1 DEF Artifact
    <2> QED BY <2>2, <2>3
  <1>3. PICK id : id = IdIn(art, a)
    OBVIOUS
  <1>4. id \in DOMAIN art' /\ art'[id] = a
    <2>1. art' = With(art, a) /\ art \in Seq(ArtifactRows)
      BY <1>2 DEF Publish, PublishOnly, TypeInv, TypeOK, DataOK
    <2> QED BY <1>3, <2>1, WithHolds
  <1>5. inv' = [inv EXCEPT ![k] = [inv[k] EXCEPT !.status = "succeeded", !.art = id]]
    BY <1>2, <1>3
  <1>6. inv'[k].art = id
    BY <1>1, <1>5 DEF InvocationRows
  <1> QED BY <1>2, <1>4, <1>6

\* A row succeeds with its answer, and a row that has succeeded stays.
LEMMA Successes ==
    ASSUME TypeInv, CallInv, Next, NEW i \in DOMAIN inv', inv'[i].status = "succeeded"
    PROVE  /\ i \in DOMAIN inv
           /\ \/ inv[i].status = "succeeded" /\ inv'[i] = inv[i]
              \/ inv[i].status # "succeeded" /\ \E s \in Slots : Succeed(s) /\ i = slot[s].inv
  <1>1. i \in DOMAIN inv
    <2> SUFFICES ASSUME i \notin DOMAIN inv PROVE FALSE
      OBVIOUS
    <2>1. i = Len(inv) + 1 /\ \E op, scope : Asks(op, scope)
      BY NewRow
    <2>2. PICK op, scope : Asks(op, scope)
      BY <2>1
    <2>3. inv'[i].status = "created"
      BY <2>1, <2>2 DEF Asks
    <2> QED BY <2>3
  <1>2. CASE inv[i].status = "succeeded"
    BY <1>1, <1>2, RowsStayAlways DEF RowsStay, Open
  <1>3. CASE inv[i].status # "succeeded"
    <2>1. CASE Askers
      <3>1. PICK op, scope : Asks(op, scope)
        BY <2>1, AskersAsk
      <3> QED BY <1>1, <1>3, <3>1 DEF Asks
    <2>2. CASE ~Askers
      BY <1>1, <1>3, <2>2, RowOrigins
    <2> QED BY <2>1, <2>2
  <1> QED BY <1>1, <1>2, <1>3

LEMMA BoughtStep ==
    ASSUME TypeInv, CallInv, Bought, Next
    PROVE  Bought'
  <1> SUFFICES ASSUME NEW i \in DOMAIN inv', inv'[i].status = "succeeded"
               PROVE  inv'[i].art \in DOMAIN art' /\ art'[inv'[i].art].mark = i
    BY DEF Bought
  <1>1. i \in DOMAIN inv
    BY Successes
  <1>2. CASE inv[i].status = "succeeded" /\ inv'[i] = inv[i]
    BY <1>1, <1>2, ArtStaysAlways DEF Bought, ArtStays, Extends
  <1>3. ASSUME NEW s \in Slots, Succeed(s), i = slot[s].inv
        PROVE  inv'[i].art \in DOMAIN art' /\ art'[inv'[i].art].mark = i
    BY <1>3, SucceedMark
  <1> QED BY <1>2, <1>3, Successes

\* A checkpoint a call is answered into is missing.
LEMMA AnswersMissing ==
    ASSUME TypeInv, CallInv, NEW s \in Slots, Succeed(s)
    PROVE  ~Has(CallKeyOf(slot[s].inv))
  <1>1. InFlight(s)
    BY AnsweredCall DEF Succeed
  <1> QED BY <1>1 DEF InFlight, Has

\* A checkpoint of a paid result that is there stays what it is, but for an invalidation.
LEMMA PaidStays ==
    ASSUME TypeInv, CallInv, Next, ~RetryRun, ~Invalidate, NEW i \in DOMAIN inv,
           CallKeyOf(i) \in Keys, Has(CallKeyOf(i))
    PROVE  Cp(CallKeyOf(i))' = Cp(CallKeyOf(i))
  <1>1. PICK key \in Keys : key = CallKeyOf(i)
    OBVIOUS
  <1>2. inv[i].op \in Ops
    BY DEF TypeInv, TypeOK, DataOK, InvocationRows
  <1>3. key[1] \in CallKinds
    BY <1>1, <1>2 DEF CallKeyOf, ResultKind, Ops, RemoteOps, CallKinds
  <1>4. ~Writes(key)
    <2> SUFFICES ASSUME Writes(key) PROVE FALSE
      OBVIOUS
    <2>1. \E s \in Slots : Succeed(s) /\ CallKeyOf(slot[s].inv) = key
      BY <1>3 DEF Writes, CallKinds, G, DecisionKeys
    <2> QED BY <1>1, <2>1, AnswersMissing
  <1>5. Cp(key)' = Cp(key)
    BY <1>4, CpStays
  <1>6. key = CallKeyOf(i)'
    BY <1>1, AskedStays DEF CallKeyOf
  <1> QED BY <1>1, <1>5, <1>6

\* The last failed attempt of the round at a call leaves its checkpoint missing.
LEMMA FailedEmptyStep ==
    ASSUME TypeInv, CallInv, KeysOwned, FailedEmpty, Next
    PROVE  FailedEmpty'
  <1> SUFFICES ASSUME NEW i \in DOMAIN inv', LastOfRound(i)', inv'[i].status # "succeeded"
               PROVE  (Cp(CallKeyOf(i)) = 0)'
    BY DEF FailedEmpty, Has
  <1>1. inv'[i].round = round'
    BY DEF LastOfRound
  <1>2. CASE i \notin DOMAIN inv
    <2>1. i = Len(inv) + 1 /\ \E op, scope : Asks(op, scope)
      BY <1>2, NewRow
    <2>2. PICK op, scope : Asks(op, scope)
      BY <2>1
    <2>3. inv'[i].op = op /\ inv'[i].scope = scope /\ Cp(<<ResultKind(op), scope>>) = 0
          /\ UNCHANGED <<cp, round>>
      BY <2>1, <2>2 DEF Asks, rowVars, dataVars
    <2>4. PICK key : key = <<ResultKind(op), scope>>
      OBVIOUS
    <2>5. Cp(key)' = 0 /\ CallKeyOf(i)' = key
      BY <2>3, <2>4, CpSame DEF CallKeyOf
    <2> QED BY <2>5
  <1>3. CASE i \in DOMAIN inv
    <2>1. /\ inv'[i].op = inv[i].op /\ inv'[i].scope = inv[i].scope
          /\ inv'[i].round = inv[i].round
      BY <1>3, AskedStays
    <2>2. ~RetryRun
      <3> SUFFICES ASSUME RetryRun PROVE FALSE
        OBVIOUS
      <3>1. inv[i].round = round + 1
        BY <1>1, <2>1 DEF RetryRun
      <3>2. inv[i].round <= round /\ round \in Nat
        BY <1>3 DEF CallInv, RoundsPast, TypeInv, TypeOK, RowsOK, Rounds
      <3> QED BY <3>1, <3>2
    <2>3. round' = round
      BY <2>2, RoundStays
    <2>4. inv[i].status # "succeeded"
      BY <1>3, RowsStayAlways DEF RowsStay, Open
    <2>5. LastOfRound(i)
      <3> SUFFICES ASSUME NEW j \in DOMAIN inv, j > i, SameCall(i, j) PROVE inv[j].round # round
        BY <1>1, <2>1, <2>3 DEF LastOfRound
      <3>1. j \in DOMAIN inv' /\ SameCall(i, j)' /\ inv'[j].round = inv[j].round
        BY <2>1, AskedStays DEF SameCall
      <3> QED BY <2>3, <3>1 DEF LastOfRound
    <2>6. PICK key \in Keys : key = CallKeyOf(i)
      BY <1>3 DEF KeysOwned
    <2>7. Cp(key) = 0 /\ CallKeyOf(i)' = key
      BY <1>3, <2>1, <2>4, <2>5, <2>6 DEF FailedEmpty, Has, CallKeyOf
    <2>8. Cp(key)' = 0
      <3>1. CASE Invalidate
        <4>1. RoundOf(key[1]) \in 0..MaxRounds /\ RoundOf(key[1])' = RoundOf(key[1])
          BY <2>3, BoundsAssumption DEF RoundOf, TypeInv, TypeOK, RowsOK, Rounds
        <4>2. cp'[RoundOf(key[1])][key] \in {0, cp[RoundOf(key[1])][key]}
          BY <3>1, <4>1, InvalidateCells
        <4> QED BY <2>7, <4>1, <4>2 DEF Cp
      <3>2. CASE Writes(key)
        <4>1. inv[i].op \in Ops
          BY <1>3 DEF TypeInv, TypeOK, DataOK, InvocationRows
        <4>2. key[1] \in CallKinds
          BY <2>6, <4>1 DEF CallKeyOf, ResultKind, Ops, RemoteOps, CallKinds
        <4>3. PICK s \in Slots : Succeed(s) /\ CallKeyOf(slot[s].inv) = key
          BY <3>2, <4>2 DEF Writes, CallKinds, G, DecisionKeys
        <4>4. PICK k : k = slot[s].inv
          OBVIOUS
        <4>5. k \in DOMAIN inv /\ InFlight(s) /\ inv'[k].status = "succeeded"
          BY <4>3, <4>4, SucceedRow
        <4>6. Newest(k) /\ inv[k].round = round
          BY <4>4, <4>5 DEF InFlight
        <4>7. SameCall(i, k) /\ SameCall(k, i)
          BY <1>3, <2>6, <4>3, <4>4, <4>5, KeyIsCall DEF SameCall
        <4>8. i \in Nat /\ k \in Nat
          BY <1>3, <4>5 DEF TypeInv, TypeOK, DataOK
        <4>9. ~(i > k) /\ ~(k > i)
          BY <1>3, <2>5, <4>5, <4>6, <4>7 DEF Newest, LastOfRound
        <4> QED BY <4>5, <4>8, <4>9
      <3> QED BY <2>2, <2>7, <3>1, <3>2, CpStays
    <2> QED BY <2>7, <2>8
  <1> QED BY <1>2, <1>3

\* The cell a paid result is kept in: that of its key, in the round that paid for it or in
\* the shared one, which every round reads.
LEMMA PaidCell ==
    ASSUME TypeInv, CallInv, NEW i \in DOMAIN inv, NEW key, key = CallKeyOf(i)
    PROVE  /\ key[1] \in SharedStages => CpIn(inv[i].round, key) = Cp(key)
           /\ inv[i].round = round => CpIn(inv[i].round, key) = Cp(key)
           /\ key[1] \notin SharedStages => CpIn(inv[i].round, key) = cp[inv[i].round][key]
  BY DEF CpIn, Cp, RoundOf

\* No step takes a paid result back from its round.
LEMMA PaidKeptStep ==
    ASSUME TypeInv, CallInv, JobInv, PaidInv, Next
    PROVE  PaidResultsKept'
  <1> SUFFICES ASSUME NEW i \in DOMAIN inv', inv'[i].status = "succeeded"
               PROVE  (CpIn(inv[i].round, CallKeyOf(i)) = inv[i].art)'
    BY DEF PaidResultsKept, CallKeyOf
  <1>1. /\ i \in DOMAIN inv /\ inv'[i].op = inv[i].op /\ inv'[i].scope = inv[i].scope
        /\ inv'[i].round = inv[i].round
    BY Successes, AskedStays
  <1>2. PICK key \in Keys : key = CallKeyOf(i)
    BY <1>1 DEF PaidInv, KeysOwned
  <1>3. CallKeyOf(i)' = key
    BY <1>1, <1>2 DEF CallKeyOf
  <1>4. PICK r : r = inv[i].round
    OBVIOUS
  <1>5. r \in Nat /\ r >= 1 /\ r <= round /\ round \in Nat /\ r \in 0..MaxRounds
    BY <1>1, <1>4 DEF CallInv, RoundsPast, TypeInv, TypeOK, DataOK, RowsOK, InvocationRows, Rounds
  <1> SUFFICES CpIn(r, key)' = inv'[i].art
    BY <1>1, <1>3, <1>4
  <1>6. CASE inv[i].status = "succeeded" /\ inv'[i] = inv[i]
    <2>1. CpIn(r, key) = inv[i].art /\ inv[i].art # 0
      <3>1. CpIn(inv[i].round, key) = inv[i].art
        BY <1>1, <1>2, <1>6 DEF PaidInv, PaidResultsKept, CallKeyOf
      <3>2. inv[i].art \in DOMAIN art
        BY <1>1, <1>6 DEF PaidInv, Bought
      <3> QED BY <1>4, <3>1, <3>2 DEF TypeInv, TypeOK, DataOK
    <2> SUFFICES CpIn(r, key)' = CpIn(r, key)
      BY <1>6, <2>1
    <2>2. CASE RetryRun
      <3>1. \A x \in 0..MaxRounds : x # round + 1 => cp'[x][key] = cp[x][key]
        BY <2>2, RetryCells
      <3>2. r # round + 1 /\ 0 # round + 1 /\ 0 \in 0..MaxRounds
        BY <1>5, BoundsAssumption
      <3> QED BY <1>5, <3>1, <3>2 DEF CpIn
    <2>3. CASE r < round /\ key[1] \notin SharedStages
      <3>1. cp'[r] = cp[r]
        BY <1>5, <2>3, CheckpointsEarlier
      <3> QED BY <2>3, <3>1 DEF CpIn
    <2>4. CASE Invalidate /\ (r = round \/ key[1] \in SharedStages)
      <3>1. key[1] \in SharedStages
        <4> SUFFICES ASSUME key[1] \notin SharedStages PROVE FALSE
          OBVIOUS
        <4>1. ResultKind(inv[i].op) \notin SharedStages
          BY <1>2 DEF CallKeyOf
        <4>2. AnyLate
          BY <1>1, <1>4, <2>4, <4>1 DEF AnyLate, LateCall
        <4>3. JobReady
          BY <4>2 DEF JobInv
        <4> QED BY <2>4, <4>3 DEF JobReady, Invalidate, RefsChanged
      <3>2. key[1] \notin {"job_input"} \cup Descendants({"job_input"})
        BY <3>1, JobFeeds DEF SharedStages
      <3>3. 0 \in 0..MaxRounds /\ 0 # round
        BY <1>5, BoundsAssumption
      <3>4. cp'[0][key] = cp[0][key]
        BY <2>4, <3>2, <3>3, InvalidateCells
      <3> QED BY <3>1, <3>4 DEF CpIn
    <2>5. CASE ~RetryRun /\ ~Invalidate /\ (r = round \/ key[1] \in SharedStages)
      <3>1. CpIn(r, key) = Cp(key)
        BY <1>1, <1>2, <1>4, <2>5, PaidCell
      <3>2. Cp(CallKeyOf(i))' = Cp(CallKeyOf(i))
        BY <1>1, <1>2, <2>1, <2>5, <3>1, PaidStays DEF Has
      <3>3. Cp(key)' = Cp(key)
        BY <1>2, <1>3, <3>2
      <3>4. round' = round
        BY <2>5, RoundStays
      <3>5. CpIn(r, key)' = Cp(key)'
        BY <2>5, <3>4 DEF CpIn, Cp, RoundOf
      <3> QED BY <3>1, <3>3, <3>5
    <2> QED BY <1>5, <2>2, <2>3, <2>4, <2>5
  <1>7. ASSUME NEW s \in Slots, Succeed(s), i = slot[s].inv
        PROVE  CpIn(r, key)' = inv'[i].art
    <2>1. /\ UNCHANGED round /\ InFlight(s) /\ Bind(CallKeyOf(i), inv'[i].art)
      BY <1>7, SucceedRow
    <2>2. r = round
      BY <1>4, <1>7, <2>1 DEF InFlight
    <2>3. PICK id : id = inv'[i].art
      OBVIOUS
    <2>4. Bind(key, id)
      BY <1>2, <2>1, <2>3
    <2>5. cp'[RoundOf(key[1])][key] = id
      BY <2>4, BindCells
    <2> QED BY <2>1, <2>2, <2>3, <2>5 DEF CpIn, RoundOf
  <1> QED BY <1>6, <1>7, Successes

LEMMA PaidStep ==
    ASSUME TypeInv, TypeInv', CallInv, JobInv, PaidInv, Next
    PROVE  PaidInv'
  BY KeysOwnedStep, BoughtStep, FailedEmptyStep, PaidKeptStep DEF PaidInv

LEMMA PaidQuietly == ASSUME PaidInv, UNCHANGED vars PROVE PaidInv'
  <1> USE DEF vars, rowVars, dataVars
  <1>1. UNCHANGED <<inv, art, cp, round>>
    OBVIOUS
  <1>2. \A k : Cp(k)' = Cp(k)
    BY <1>1, CpSame
  <1>3. KeysOwned' /\ Bought' /\ PaidResultsKept'
    BY <1>1 DEF PaidInv, KeysOwned, Bought, PaidResultsKept, CallKeyOf, CpIn
  <1>4. FailedEmpty'
    <2> SUFFICES ASSUME NEW i \in DOMAIN inv, LastOfRound(i), inv[i].status # "succeeded"
                 PROVE  (Cp(CallKeyOf(i)) = 0)'
      BY <1>1 DEF FailedEmpty, Has, LastOfRound, SameCall
    <2>1. PICK key : key = CallKeyOf(i)
      OBVIOUS
    <2>2. CallKeyOf(i)' = key
      BY <1>1, <2>1 DEF CallKeyOf
    <2>3. Cp(key) = 0
      BY <2>1 DEF PaidInv, FailedEmpty, Has
    <2> QED BY <1>2, <2>2, <2>3
  <1> QED BY <1>3, <1>4 DEF PaidInv

LEMMA PaidInvariant == Spec => []PaidInv
  <1>1. TypeInv /\ TypeInv' /\ CallInv /\ ArtInv /\ PaidInv /\ [Next]_vars => PaidInv'
    BY PaidStep, PaidQuietly DEF ArtInv
  <1> QED BY <1>1, InitPaid, TypeInvariant, CallInvariant, ArtInvariant, PTL DEF Spec

\* Every paid result that was committed is still a checkpoint of the round that paid for
\* it: no invalidation, crash or retry loses it.
THEOREM PaidIsKept == Spec => []PaidResultsKept
  <1>1. PaidInv => PaidResultsKept
    BY DEF PaidInv
  <1> QED BY <1>1, PaidInvariant, PTL

\* Which paths a doubled table knows.
LEMMA TwiceJoins ==
    ASSUME NEW t, NEW k \in Kinds
    PROVE  Twice(t)[k] = t[k] \cup UNION {t[j] : j \in t[k]}
  BY DEF Twice

\* Each stage before it feeds the transcript; the response of ATA does not feed itself.
LEMMA TextBelow ==
    \A k \in {"job_input", "media_object", "base_asr", "peer_asr", "correction_transcript",
              "selection_result"} : "transcript" \in Descendants({k})
  <1> DEFINE t0 == [k \in Kinds |-> Downstream(k)]
             t1 == Twice(t0)
             t2 == Twice(t1)
             t3 == Twice(t2)
             t4 == Twice(t3)
  <1>0. {"job_input", "media_object", "base_asr", "peer_asr", "asr_comparison", "merge_plan",
         "correction_transcript", "selection_result", "edit_resolution"} \subseteq Kinds
    BY KindSet
  <1>1. /\ "correction_transcript" \in t0["job_input"]
        /\ "correction_transcript" \in t0["asr_comparison"]
        /\ "base_asr" \in t0["media_object"]
        /\ "asr_comparison" \in t0["base_asr"] /\ "asr_comparison" \in t0["peer_asr"]
        /\ "merge_plan" \in t0["correction_transcript"]
        /\ "edit_resolution" \in t0["merge_plan"] /\ "edit_resolution" \in t0["selection_result"]
        /\ "transcript" \in t0["edit_resolution"]
    BY <1>0 DEF Downstream
  <1> HIDE DEF t0
  <1>a. \A k \in Kinds : t1[k] = t0[k] \cup UNION {t0[j] : j \in t0[k]}
    BY TwiceJoins
  <1>2. /\ "transcript" \in t1["merge_plan"] /\ "transcript" \in t1["selection_result"]
        /\ "transcript" \in t1["edit_resolution"]
        /\ "edit_resolution" \in t1["correction_transcript"]
        /\ "merge_plan" \in t1["job_input"] /\ "merge_plan" \in t1["asr_comparison"]
        /\ "asr_comparison" \in t1["media_object"]
        /\ "asr_comparison" \in t1["base_asr"] /\ "asr_comparison" \in t1["peer_asr"]
    BY <1>0, <1>1, <1>a
  <1> HIDE DEF t1
  <1>b. \A k \in Kinds : t2[k] = t1[k] \cup UNION {t1[j] : j \in t1[k]}
    BY TwiceJoins
  <1>3. /\ "transcript" \in t2["correction_transcript"] /\ "transcript" \in t2["job_input"]
        /\ "transcript" \in t2["asr_comparison"] /\ "transcript" \in t2["selection_result"]
        /\ "asr_comparison" \in t2["media_object"]
        /\ "asr_comparison" \in t2["base_asr"] /\ "asr_comparison" \in t2["peer_asr"]
    BY <1>0, <1>2, <1>b
  <1> HIDE DEF t2
  <1>c. \A k \in Kinds : t3[k] = t2[k] \cup UNION {t2[j] : j \in t2[k]}
    BY TwiceJoins
  <1> DEFINE Sources == {"job_input", "media_object", "base_asr", "peer_asr",
                         "correction_transcript", "selection_result"}
  <1>4. \A k \in Sources : "transcript" \in t3[k]
    BY <1>0, <1>3, <1>c
  <1> HIDE DEF t3
  <1>d. \A k \in Kinds : t4[k] = t3[k] \cup UNION {t3[j] : j \in t3[k]}
    BY TwiceJoins
  <1>5. \A k \in Sources : k \in Kinds /\ "transcript" \in t4[k]
    BY <1>0, <1>4, <1>d
  <1>6. DescendantTable = t4
    BY DEF DescendantTable, t0, t1, t2, t3
  <1> QED BY <1>5, <1>6 DEF Descendants

LEMMA ResponseApart == "ata_response" \notin Descendants({"ata_response"})
  <1> DEFINE S == {"ata_result", "srt_render"}
  <1>1. S \in SUBSET Kinds /\ "ata_response" \in Kinds
    BY KindSet
  <1>2. (\A k \in S : Downstream(k) \subseteq S) /\ Downstream("ata_response") \subseteq S
    BY DEF Downstream
  <1>3. Descendants({"ata_response"}) \subseteq S
    BY <1>1, <1>2, DescendantsWithin
  <1> QED BY <1>3

LEMMA DescendantsOf ==
    ASSUME NEW roots, NEW x
    PROVE  x \in Descendants(roots) <=> \E k \in roots : x \in Descendants({k})
  BY DEF Descendants

\* The latest attempt of the current round is the last of the round.
LEMMA LatestLast ==
    ASSUME TypeInv, NEW i \in DOMAIN inv, IsLatest(i)
    PROVE  LastOfRound(i)
  <1> SUFFICES ASSUME NEW j \in DOMAIN inv, j > i, SameCall(i, j), inv[j].round = round
               PROVE  FALSE
    BY DEF LastOfRound, IsLatest
  <1>1. PICK S : S = Attempts(inv[i].op, inv[i].scope)
    OBVIOUS
  <1>2. S \in SUBSET (1..Len(inv)) /\ Len(inv) \in Nat /\ j \in S
    BY <1>1 DEF Attempts, SameCall, TypeInv, TypeOK, DataOK
  <1>3. j <= Last(S)
    BY <1>2, LastGreatest
  <1>4. i = Last(S) /\ i \in Nat /\ j \in Nat
    BY <1>1 DEF IsLatest, TypeInv, TypeOK, DataOK
  <1> QED BY <1>3, <1>4

-----------------------------------------------------------------------------
(* ATA is paid for once per transcript.                                    *)

IsAta(i)  == inv[i].op = "ata"
AtaDone(i) == IsAta(i) /\ inv[i].status = "succeeded"

\* A transcript bears the round that made it, and a call reads none of a later one.
TextMarks == \A t \in DOMAIN art : art[t].kind = "transcript" => art[t].mark <= round
AtaMarks  == \A i \in DOMAIN inv : \A t \in inv[i].inputs :
                IsAta(i) /\ art[t].kind = "transcript" => art[t].mark <= inv[i].round

\* A round that has asked for an alignment has its transcript.
AtaHas == \A i \in DOMAIN inv : IsAta(i) /\ inv[i].round = round => Has(G("transcript"))

\* The response of the round's transcript is the one some round has paid for.
AtaPaid == \A i \in DOMAIN inv :
              AtaDone(i) /\ Has(G("transcript")) /\ Cp(G("transcript")) \in inv[i].inputs
                 => Cp(G("ata_response")) = inv[i].art

\* A call is not made again for what an earlier one has answered.
AtaNew == \A i, j \in DOMAIN inv :
             i < j /\ AtaDone(i) /\ IsAta(j) => inv[i].inputs # inv[j].inputs

TextInv == TextMarks /\ AtaMarks /\ AtaHas /\ AtaPaid /\ AtaNew

LEMMA InitText == Init => TextInv
  BY DEF Init, TextInv, TextMarks, AtaMarks, AtaHas, AtaPaid, AtaNew

\* A row of the alignment that is new: the transcript is there, and so asked about.
LEMMA NewAta ==
    ASSUME TypeInv, CallInv, StoreInv, PlaceInv, KeysOwned, AtaHas, Next, NEW i \in DOMAIN inv',
           i \notin DOMAIN inv, IsAta(i)'
    PROVE  /\ UNCHANGED <<round, cp, art>> /\ inv'[i].round = round
           /\ inv'[i].status = "created" /\ Cp(G("ata_response")) = 0
           /\ inv'[i].inputs = {Cp(G("media_object")), Cp(G("transcript"))}
           /\ Has(G("transcript")) /\ i = Len(inv) + 1
           /\ DOMAIN inv' = 1..Len(inv) + 1 /\ \A j \in DOMAIN inv : inv'[j] = inv[j]
  <1>1. i = Len(inv) + 1 /\ \E op, scope : Asks(op, scope)
    BY NewRow
  <1>2. PICK op, scope : Asks(op, scope)
    BY <1>1
  <1>3. inv'[i].op = op /\ inv'[i].round = round /\ inv'[i].status = "created"
        /\ inv'[i].inputs = Inputs(op, scope) /\ inv'[i].scope = scope
    BY <1>1, <1>2 DEF Asks
  <1>4. op = "ata"
    BY <1>3 DEF IsAta
  <1>5. inv'[i].inputs = {Cp(G("media_object")), Cp(G("transcript"))}
    BY <1>3, <1>4 DEF Inputs, RemoteOps
  <1>6. Has(G("transcript"))
    <2>1. CASE pc \in DOMAIN MainCall /\ op = MainCall[pc]
      <3>1. pc = "ata"
        BY <1>4, <2>1 DEF MainCall
      <3> QED BY <3>1 DEF PlaceInv
    <2>2. CASE pc \in Arms /\ op = ArmOp(pc)
      BY <1>4, <2>2 DEF ArmOp
    <2>3. CASE \E k \in DOMAIN inv : inv[k].op = op /\ inv[k].round = round
      BY <1>4, <2>3 DEF AtaHas, IsAta
    <2> QED BY <1>2, <2>1, <2>2, <2>3 DEF Asks
  <1>7. scope = "global"
    <2>1. CASE pc \in DOMAIN MainCall /\ op = MainCall[pc] /\ scope = CallScope
      BY <1>4, <2>1 DEF MainCall, CallScope
    <2>2. CASE pc \in Arms /\ op = ArmOp(pc)
      BY <1>4, <2>2 DEF ArmOp
    <2>3. CASE \E k \in DOMAIN inv : inv[k].op = op /\ inv[k].scope = scope
      <3>1. <<"ata_response", scope>> \in Keys
        BY <1>4, <2>3 DEF KeysOwned, CallKeyOf, ResultKind
      <3>2. PICK key \in Keys : key[1] = "ata_response" /\ key[2] = scope
        BY <3>1
      <3> QED BY <3>2 DEF Keys, G
    <2> QED BY <1>2, <2>1, <2>2, <2>3 DEF Asks
  <1>8. Cp(G("ata_response")) = 0
    <2>1. Cp(<<ResultKind(op), scope>>) = 0
      BY <1>2 DEF Asks
    <2> QED BY <1>4, <1>7, <2>1 DEF ResultKind, G
  <1>9. UNCHANGED <<round, cp, art>> /\ Len(inv') = Len(inv) + 1
        /\ \A j \in DOMAIN inv : inv'[j] = inv[j]
    BY <1>2 DEF Asks, rowVars, dataVars
  <1>10. DOMAIN inv' = 1..Len(inv')
    BY DEF TypeInv, TypeOK, DataOK
  <1> QED BY <1>1, <1>3, <1>5, <1>6, <1>8, <1>9, <1>10

\* The marks of transcripts stay behind the rounds.
LEMMA MarksStep ==
    ASSUME TypeInv, CallInv, ArtInv, KeysOwned, TextInv, Next
    PROVE  TextMarks' /\ AtaMarks'
  <1>0. StoreInv /\ JobInv /\ PlaceInv /\ ReadInv
    BY DEF ArtInv
  <1>1. round' \in {round, round + 1} /\ round \in Nat
    <2>1. CASE RetryRun
      BY <2>1 DEF RetryRun, TypeInv, TypeOK, RowsOK, Rounds
    <2> QED BY <2>1, RoundStays DEF TypeInv, TypeOK, RowsOK, Rounds
  <1>2. ArtStays /\ art \in Seq(ArtifactRows)
    BY ArtStaysAlways DEF TypeInv, TypeOK, DataOK
  <1>3. \A t \in DOMAIN art : art[t].mark \in Nat
    <2>1. \A t \in DOMAIN art : art[t] \in ArtifactRows
      BY <1>2
    <2> QED BY <2>1 DEF ArtifactRows
  <1>4. TextMarks'
    <2> SUFFICES ASSUME NEW t \in DOMAIN art', art'[t].kind = "transcript"
                 PROVE  art'[t].mark <= round'
      BY DEF TextMarks
    <2>1. CASE t \in DOMAIN art
      <3>1. art[t].mark \in Nat /\ art[t].mark <= round /\ art'[t] = art[t]
        BY <1>2, <1>3, <2>1 DEF TextInv, TextMarks, ArtStays, Extends
      <3> QED BY <1>1, <3>1
    <2>2. CASE t \notin DOMAIN art
      <3>1. SaveTranscript
            /\ art'[t] = Saved(G("transcript"), {Cp(G("base_asr")), Cp(G("edit_resolution"))}, {})
        BY <2>2, NewText
      <3>2. art'[t].mark = round /\ round' = round
        BY <3>1 DEF Saved, Artifact, RoundOf, G, SharedStages, SaveTranscript, rowVars
      <3> QED BY <1>1, <3>2
    <2> QED BY <2>1, <2>2
  <1>5. AtaMarks'
    <2> SUFFICES ASSUME NEW i \in DOMAIN inv', NEW t \in inv'[i].inputs, IsAta(i)',
                        art'[t].kind = "transcript"
                 PROVE  art'[t].mark <= inv'[i].round
      BY DEF AtaMarks
    <2>1. CASE i \in DOMAIN inv
      <3>1. IsAta(i) /\ t \in inv[i].inputs /\ inv'[i].round = inv[i].round
        BY <2>1, AskedStays DEF IsAta
      <3>2. t \in DOMAIN art
        <4>1. Reads(i)
          BY <3>1 DEF Reads, IsAta, ResultKind
        <4> QED BY <1>0, <2>1, <3>1, <4>1 DEF ReadInv, InputsStored
      <3>3. art'[t] = art[t]
        BY <1>2, <3>2 DEF ArtStays, Extends
      <3> QED BY <2>1, <3>1, <3>3 DEF TextInv, AtaMarks
    <2>2. CASE i \notin DOMAIN inv
      <3>1. /\ UNCHANGED art /\ inv'[i].round = round
            /\ inv'[i].inputs = {Cp(G("media_object")), Cp(G("transcript"))}
            /\ Has(G("transcript"))
        BY <1>0, <2>2, NewAta DEF TextInv
      <3>2. G("media_object") \in Keys /\ G("transcript") \in Keys
        BY KeysOfKinds, KindSet
      <3>3. CASE t = Cp(G("transcript"))
        <4>1. t \in DOMAIN art
          <5>1. KeptAt(Cp(G("transcript")), G("transcript"))
            BY <1>0, <3>1, <3>2, CpKept DEF StoreInv
          <5> QED BY <3>3, <5>1 DEF KeptAt
        <4> QED BY <3>1, <4>1 DEF TextInv, TextMarks
      <3>4. CASE t = Cp(G("media_object"))
        <4>1. Has(G("media_object"))
          <5>1. Reads(i)'
            BY DEF Reads, IsAta, ResultKind
          <5>2. t \in DOMAIN art
            BY <1>0, <2>2, <5>1, NewReads
          <5> QED BY <3>4, <5>2 DEF Has, TypeInv, TypeOK, DataOK
        <4>2. KeyOf(art[t]) = G("media_object")
          BY <1>0, <3>2, <3>4, <4>1, CpKept DEF StoreInv, KeptAt
        <4> QED BY <3>1, <4>2 DEF KeyOf, G
      <3> QED BY <3>1, <3>3, <3>4
    <2> QED BY <2>1, <2>2
  <1> QED BY <1>4, <1>5

\* Within a round a transcript, once there, stays: an alignment asked for keeps it from
\* being invalidated.
LEMMA AtaHasStep ==
    ASSUME TypeInv, CallInv, StoreInv, JobInv, PlaceInv, KeysOwned, AtaHas, Next
    PROVE  AtaHas'
  <1> SUFFICES ASSUME NEW i \in DOMAIN inv', IsAta(i)', inv'[i].round = round'
               PROVE  Has(G("transcript"))'
    BY DEF AtaHas
  <1>0. G("transcript") \in Keys
    BY KeysOfKinds, KindSet
  <1>1. CASE i \notin DOMAIN inv
    <2>1. UNCHANGED <<round, cp>> /\ Has(G("transcript"))
      BY <1>1, NewAta
    <2> QED BY <2>1, CpSame DEF Has
  <1>2. CASE i \in DOMAIN inv
    <2>1. IsAta(i) /\ inv'[i].round = inv[i].round /\ inv[i].round <= round /\ round \in Nat
      BY <1>2, AskedStays DEF IsAta, CallInv, RoundsPast, TypeInv, TypeOK, RowsOK, Rounds
    <2>2. ~RetryRun
      BY <2>1 DEF RetryRun
    <2>3. inv[i].round = round
      BY <2>1, <2>2, RoundStays
    <2>4. Has(G("transcript"))
      BY <1>2, <2>1, <2>3 DEF AtaHas
    <2>5. ~Invalidate
      <3>1. AnyLate
        BY <1>2, <2>1, <2>3 DEF AnyLate, LateCall, IsAta, ResultKind, SharedStages
      <3>2. JobReady
        BY <3>1 DEF JobInv
      <3> QED BY <3>2 DEF JobReady, Invalidate, RefsChanged
    <2> QED BY <1>0, <2>2, <2>4, <2>5, HasStays
  <1> QED BY <1>1, <1>2

\* What a new round does not inherit: with the response of ATA always the transcript, but
\* for a failed alignment.
LEMMA ExcludedText ==
    ASSUME TypeInv, "transcript" \notin Excluded
    PROVE  "ata_response" \notin Excluded
  <1> SUFFICES ASSUME "ata_response" \in Excluded PROVE FALSE
    OBVIOUS
  <1> DEFINE failed == {ResultKind(inv[i].op) : i \in Failures}
  <1>1. "transcript" \in Descendants({"correction_transcript"})
    BY TextBelow
  <1>2. "ata_response" \in Descendants(failed)
    BY <1>1 DEF Excluded
  <1>3. PICK k \in failed : "ata_response" \in Descendants({k})
    BY <1>2, DescendantsOf
  <1>4. \A i \in Failures : inv[i].op \in Ops
    BY DEF Failures, TypeInv, TypeOK, DataOK, InvocationRows
  <1>5. k \in CallKinds
    BY <1>4 DEF ResultKind, Ops, RemoteOps, CallKinds
  <1>6. k # "ata_response"
    BY <1>3, ResponseApart
  <1>7. "transcript" \in Descendants({k})
    BY <1>5, <1>6, TextBelow DEF CallKinds
  <1>8. "transcript" \in Descendants(failed)
    BY <1>7, DescendantsOf
  <1> QED BY <1>8 DEF Excluded

\* A transcript that was not there is one that no alignment has read.
LEMMA NewTextUnread ==
    ASSUME TypeInv, CallInv, ArtInv, TextInv, Next, SaveTranscript,
           NEW i \in DOMAIN inv, IsAta(i), ~Has(G("transcript"))
    PROVE  Cp(G("transcript"))' \notin inv[i].inputs
  <1> SUFFICES ASSUME Cp(G("transcript"))' \in inv[i].inputs PROVE FALSE
    OBVIOUS
  <1>0. G("transcript") \in Keys
    BY KeysOfKinds, KindSet
  <1>1. PICK a : a = Saved(G("transcript"), {Cp(G("base_asr")), Cp(G("edit_resolution"))}, {})
    OBVIOUS
  <1>2. Publish(a) /\ UNCHANGED round
    BY <1>1 DEF SaveTranscript, Has, rowVars
  <1>3. a.mark = round /\ a.kind = "transcript" /\ KeyOf(a) = G("transcript")
    BY <1>1 DEF Saved, Artifact, RoundOf, G, SharedStages, KeyOf
  <1>4. PICK id : id = IdIn(art, a)
    OBVIOUS
  <1>5. art' = With(art, a) /\ Bind(G("transcript"), id)
    BY <1>2, <1>3, <1>4 DEF Publish, PublishOnly
  <1>6. art \in Seq(ArtifactRows)
    BY DEF TypeInv, TypeOK, DataOK
  <1>7. id \in DOMAIN art' /\ art'[id] = a
    BY <1>4, <1>5, <1>6, WithHolds
  <1>8. Cp(G("transcript"))' = id
    BY <1>0, <1>2, <1>5, CpBind
  <1>9. id \in DOMAIN art
    <2>1. Reads(i)
      BY DEF Reads, IsAta, ResultKind
    <2> QED BY <1>8, <2>1 DEF ArtInv, ReadInv, InputsStored
  <1>10. art[id] = a
    BY <1>7, <1>9, ArtStaysAlways DEF ArtStays, Extends
  <1>11. round <= inv[i].round
    BY <1>3, <1>8, <1>10 DEF TextInv, AtaMarks
  <1>12. inv[i].round <= round /\ round \in Nat /\ inv[i].round \in Nat
    BY DEF CallInv, RoundsPast, TypeInv, TypeOK, DataOK, RowsOK, InvocationRows, Rounds
  <1>13. inv[i].round = round
    BY <1>11, <1>12
  <1> QED BY <1>13 DEF TextInv, AtaHas

\* The response that was paid for the transcript of the round is the one it keeps.
LEMMA AtaPaidStep ==
    ASSUME TypeInv, CallInv, ArtInv, PaidInv, TextInv, Next
    PROVE  AtaPaid'
  <1> DEFINE text == G("transcript")
             response == G("ata_response")
  <1> SUFFICES ASSUME NEW i \in DOMAIN inv', AtaDone(i)', Has(text)',
                      Cp(text)' \in inv'[i].inputs
               PROVE  Cp(response)' = inv'[i].art
    BY DEF AtaPaid
  <1>0. text \in Keys /\ response \in Keys
    BY KeysOfKinds, KindSet
  <1>1. i \in DOMAIN inv /\ IsAta(i) /\ inv'[i].inputs = inv[i].inputs
    BY Successes, AskedStays DEF AtaDone, IsAta
  <1>2. CallKeyOf(i) = response
    <2>1. <<"ata_response", inv[i].scope>> \in Keys
      BY <1>1 DEF PaidInv, KeysOwned, CallKeyOf, IsAta, ResultKind
    <2>2. PICK key \in Keys : key[1] = "ata_response" /\ key[2] = inv[i].scope
      BY <2>1
    <2>3. inv[i].scope = "global"
      BY <2>2 DEF Keys, G
    <2> QED BY <1>1, <2>3 DEF CallKeyOf, IsAta, ResultKind, G
  <1>3. CASE \E s \in Slots : Succeed(s) /\ i = slot[s].inv
    <2>1. PICK s \in Slots : Succeed(s) /\ i = slot[s].inv
      BY <1>3
    <2>2. PICK id : id = inv'[i].art
      OBVIOUS
    <2>3. Bind(response, id) /\ UNCHANGED round
      BY <1>2, <2>1, <2>2, SucceedRow
    <2>4. Cp(response)' = id
      BY <1>0, <2>3, CpBind
    <2> QED BY <2>2, <2>4
  <1>4. CASE inv[i].status = "succeeded" /\ inv'[i] = inv[i]
    <2>1. AtaDone(i) /\ inv[i].art # 0
      <3>1. inv[i].art \in DOMAIN art
        BY <1>1, <1>4 DEF PaidInv, Bought
      <3> QED BY <1>1, <1>4, <3>1 DEF AtaDone, TypeInv, TypeOK, DataOK
    <2>2. Has(text) /\ Cp(text) \in inv[i].inputs => Cp(response) = inv[i].art
      BY <1>1, <2>1 DEF TextInv, AtaPaid
    <2>3. CASE RetryRun
      <3>1. Cp(text) # 0 /\ Cp(text)' = Cp(text) /\ "transcript" \notin Excluded
        <4>1. cp'[round + 1][text] =
                IF text[1] \in Excluded \/ text \in FailedKeys THEN 0 ELSE cp[round][text]
          BY <1>0, <2>3, RetryCells
        <4>2. Cp(text) = cp[round][text] /\ Cp(text)' = cp'[round + 1][text]
          BY <2>3 DEF Cp, RoundOf, SharedStages, G, RetryRun
        <4>3. Cp(text)' # 0
          BY DEF Has
        <4> QED BY <4>1, <4>2, <4>3 DEF G
      <3>2. Cp(response) = inv[i].art
        BY <1>1, <2>2, <3>1 DEF Has
      <3>3. "ata_response" \notin Excluded
        BY <3>1, ExcludedText
      <3>4. response \notin FailedKeys
        <4> SUFFICES ASSUME response \in FailedKeys PROVE FALSE
          OBVIOUS
        <4>1. PICK f \in Failures : CallKeyOf(f) = response
          BY DEF FailedKeys, CallKeyOf
        <4>2. f \in DOMAIN inv /\ LastOfRound(f) /\ inv[f].status # "succeeded"
          BY LatestLast DEF Failures
        <4>3. Cp(response) = 0
          BY <4>1, <4>2 DEF PaidInv, FailedEmpty, Has
        <4> QED BY <2>1, <3>2, <4>3
      <3>5. cp'[round + 1][response] =
              IF response[1] \in Excluded \/ response \in FailedKeys THEN 0 ELSE cp[round][response]
        BY <1>0, <2>3, RetryCells
      <3>6. Cp(response) = cp[round][response] /\ Cp(response)' = cp'[round + 1][response]
        BY <2>3 DEF Cp, RoundOf, SharedStages, G, RetryRun
      <3>7. Cp(response)' = Cp(response)
        BY <3>3, <3>4, <3>5, <3>6 DEF G
      <3> QED BY <1>4, <3>2, <3>7
    <2>4. ~Invalidate
      <3> SUFFICES ASSUME Invalidate PROVE FALSE
        OBVIOUS
      <3>1. round' = round /\ round \in 0..MaxRounds
        BY BoundsAssumption, RoundStays DEF Invalidate, RetryRun, TypeInv, TypeOK, RowsOK, Rounds
      <3>2. "transcript" \in Descendants({"job_input"})
        BY TextBelow
      <3>3. text[1] \in ({"job_input"} \cup Descendants({"job_input"})) \ SharedStages
        BY <3>2 DEF G, SharedStages
      <3>4. cp'[round][text] = 0
        BY <1>0, <3>1, <3>3, InvalidateCells
      <3>5. Cp(text)' = cp'[round][text]
        BY <3>1 DEF Cp, RoundOf, SharedStages, G
      <3> QED BY <3>4, <3>5 DEF Has
    <2>5. CASE ~RetryRun /\ ~Has(text)
      <3>1. SaveTranscript
        <4> SUFFICES ASSUME ~SaveTranscript PROVE FALSE
          OBVIOUS
        <4>1. ~Writes(text)
          BY DEF Writes, CallKinds, G, DecisionKeys
        <4>2. Cp(text)' = Cp(text)
          BY <1>0, <2>4, <2>5, <4>1, CpStays
        <4> QED BY <2>5, <4>2 DEF Has
      <3> QED BY <1>1, <2>5, <3>1, NewTextUnread
    <2>6. CASE ~RetryRun /\ Has(text)
      <3>1. Cp(text)' = Cp(text)
        <4>1. CASE SaveTranscript
          <5>1. UNCHANGED <<cp, round>>
            BY <2>6, <4>1 DEF SaveTranscript, Has, rowVars, dataVars
          <5> QED BY <5>1, CpSame
        <4>2. CASE ~SaveTranscript
          <5>1. ~Writes(text)
            BY <4>2 DEF Writes, CallKinds, G, DecisionKeys
          <5> QED BY <1>0, <2>4, <2>6, <5>1, CpStays
        <4> QED BY <4>1, <4>2
      <3>2. Cp(response) = inv[i].art
        BY <1>1, <2>2, <2>6, <3>1
      <3>3. Cp(CallKeyOf(i))' = Cp(CallKeyOf(i))
        BY <1>0, <1>1, <1>2, <2>1, <2>4, <2>6, <3>2, PaidStays DEF Has
      <3>4. CallKeyOf(i)' = response
        BY <1>1, <1>2, AskedStays DEF CallKeyOf
      <3>5. Cp(response)' = Cp(response)
        BY <1>2, <3>3, <3>4
      <3> QED BY <1>4, <3>2, <3>5
    <2> QED BY <2>3, <2>5, <2>6
  <1> QED BY <1>3, <1>4, Successes DEF AtaDone

\* A call that is asked again is asked about something else than what was answered.
LEMMA AtaNewStep ==
    ASSUME TypeInv, CallInv, ArtInv, PaidInv, TextInv, Next
    PROVE  AtaNew'
  <1> SUFFICES ASSUME NEW i \in DOMAIN inv', NEW j \in DOMAIN inv', i < j, AtaDone(i)', IsAta(j)'
               PROVE  inv'[i].inputs # inv'[j].inputs
    BY DEF AtaNew
  <1>1. i \in DOMAIN inv /\ IsAta(i) /\ inv'[i].inputs = inv[i].inputs
    BY Successes, AskedStays DEF AtaDone, IsAta
  <1>2. CASE j \notin DOMAIN inv
    <2>1. /\ inv'[j].inputs = {Cp(G("media_object")), Cp(G("transcript"))}
          /\ Has(G("transcript")) /\ Cp(G("ata_response")) = 0 /\ inv'[i] = inv[i]
      BY <1>1, <1>2, NewAta DEF ArtInv, TextInv, PaidInv
    <2>2. AtaDone(i)
      BY <2>1 DEF AtaDone, IsAta
    <2>3. inv[i].art \in DOMAIN art
      BY <1>1, <2>2 DEF AtaDone, PaidInv, Bought
    <2>4. inv[i].art # 0
      BY <2>3 DEF TypeInv, TypeOK, DataOK
    <2>5. Cp(G("transcript")) \notin inv[i].inputs
      BY <1>1, <2>1, <2>2, <2>4 DEF TextInv, AtaPaid
    <2> QED BY <1>1, <2>1, <2>5
  <1>3. CASE j \in DOMAIN inv
    <2>1. IsAta(j) /\ inv'[j].inputs = inv[j].inputs
      BY <1>3, AskedStays DEF IsAta
    <2>2. inv[i].status = "succeeded"
      <3> SUFFICES ASSUME NEW s \in Slots, Succeed(s), i = slot[s].inv PROVE FALSE
        BY Successes DEF AtaDone
      <3>1. InFlight(s) /\ Newest(i)
        BY SucceedRow DEF InFlight
      <3>2. CallKeyOf(i) = G("ata_response") /\ CallKeyOf(j) = G("ata_response")
        <4> SUFFICES ASSUME NEW x \in {i, j} PROVE CallKeyOf(x) = G("ata_response")
          OBVIOUS
        <4>1. x \in DOMAIN inv /\ inv[x].op = "ata"
          BY <1>1, <1>3, <2>1 DEF IsAta
        <4>2. <<"ata_response", inv[x].scope>> \in Keys
          BY <4>1 DEF PaidInv, KeysOwned, CallKeyOf, ResultKind
        <4>3. PICK key \in Keys : key[1] = "ata_response" /\ key[2] = inv[x].scope
          BY <4>2
        <4>4. inv[x].scope = "global"
          BY <4>3 DEF Keys, G
        <4> QED BY <4>1, <4>4 DEF CallKeyOf, ResultKind, G
      <3>3. SameCall(i, j)
        BY <1>1, <1>3, <3>2, KeyIsCall
      <3>4. i \in Nat /\ j \in Nat
        BY <1>1, <1>3 DEF TypeInv, TypeOK, DataOK
      <3> QED BY <1>3, <3>1, <3>3, <3>4 DEF Newest
    <2> QED BY <1>1, <1>3, <2>1, <2>2 DEF TextInv, AtaNew, AtaDone
  <1> QED BY <1>2, <1>3

LEMMA TextQuietly == ASSUME TextInv, UNCHANGED vars PROVE TextInv'
  <1> USE DEF vars, rowVars, dataVars
  <1>1. UNCHANGED <<inv, art, cp, round>>
    OBVIOUS
  <1>2. \A k : Cp(k)' = Cp(k)
    BY <1>1, CpSame
  <1>3. Cp(G("transcript"))' = Cp(G("transcript")) /\ Cp(G("ata_response"))' = Cp(G("ata_response"))
    BY <1>2
  <1>4. TextMarks' /\ AtaMarks' /\ AtaNew'
    BY <1>1 DEF TextInv, TextMarks, AtaMarks, AtaNew, AtaDone, IsAta
  <1>5. AtaHas'
    BY <1>1, <1>3 DEF TextInv, AtaHas, Has, IsAta
  <1>6. AtaPaid'
    BY <1>1, <1>3 DEF TextInv, AtaPaid, AtaDone, Has, IsAta
  <1> QED BY <1>4, <1>5, <1>6 DEF TextInv

LEMMA TextInvariant == Spec => []TextInv
  <1>1. ASSUME TypeInv, CallInv, ArtInv, PaidInv, TextInv, Next
        PROVE  TextInv'
    <2>1. StoreInv /\ JobInv /\ PlaceInv /\ KeysOwned /\ AtaHas
      BY <1>1 DEF ArtInv, PaidInv, TextInv
    <2>2. AtaHas'
      BY <1>1, <2>1, AtaHasStep
    <2>3. TextMarks' /\ AtaMarks'
      BY <1>1, <2>1, MarksStep
    <2>4. AtaPaid' /\ AtaNew'
      BY <1>1, AtaPaidStep, AtaNewStep
    <2> QED BY <2>2, <2>3, <2>4 DEF TextInv
  <1>2. TypeInv /\ CallInv /\ ArtInv /\ PaidInv /\ TextInv /\ [Next]_vars => TextInv'
    BY <1>1, TextQuietly
  <1> QED BY <1>2, InitText, TypeInvariant, CallInvariant, ArtInvariant, PaidInvariant, PTL DEF Spec

\* The shared stages are paid for once per Run, and ATA once per sealed transcript; and no
\* operation of a round is paid for twice.
THEOREM NothingPaidTwice == Spec => []PaidOnce
  <1>1. TypeInv /\ CallInv /\ PaidInv /\ TextInv => PaidOnce
    <2> SUFFICES ASSUME TypeInv, CallInv, PaidInv, TextInv,
                        NEW i \in DOMAIN inv, NEW j \in DOMAIN inv, i < j,
                        inv[i].op = inv[j].op, inv[i].status = "succeeded",
                        inv[j].status = "succeeded"
                 PROVE  /\ ResultKind(inv[i].op) \notin SharedStages
                        /\ inv[i].op = "ata" => inv[i].inputs # inv[j].inputs
                        /\ inv[i].scope = inv[j].scope => inv[i].round # inv[j].round
      BY DEF PaidOnce
    <2>0. i \in Nat /\ j \in Nat
      BY DEF TypeInv, TypeOK, DataOK
    <2>1. ResultKind(inv[i].op) \notin SharedStages
      <3> SUFFICES ASSUME ResultKind(inv[i].op) \in SharedStages PROVE FALSE
        OBVIOUS
      <3>1. CallKeyOf(i) \in Keys /\ CallKeyOf(j) \in Keys
        BY DEF PaidInv, KeysOwned
      <3>2. ResultKind(inv[i].op) = ResultKind(inv[j].op)
        OBVIOUS
      <3>3. \A x \in {i, j} : CallKeyOf(x) = G(ResultKind(inv[i].op))
        <4> SUFFICES ASSUME NEW x \in {i, j} PROVE inv[x].scope = "global"
          BY <3>2 DEF CallKeyOf, G
        <4>1. PICK key \in Keys : key[1] = ResultKind(inv[i].op) /\ key[2] = inv[x].scope
          BY <3>1, <3>2 DEF CallKeyOf
        <4>2. key[1] \notin {"correction_transcript", "selection_batch", "selection_result"}
          BY <4>1 DEF SharedStages
        <4> QED BY <4>1, <4>2 DEF Keys, G, ArmKey
      <3>4. PICK key : key = G(ResultKind(inv[i].op))
        OBVIOUS
      <3>5. key[1] \in SharedStages /\ CallKeyOf(i) = key /\ CallKeyOf(j) = key
        BY <3>3, <3>4 DEF G
      <3>6. CpIn(inv[i].round, key) = inv[i].art /\ CpIn(inv[j].round, key) = inv[j].art
        BY <3>5 DEF PaidInv, PaidResultsKept, CallKeyOf
      <3>7. inv[i].art = inv[j].art
        BY <3>5, <3>6 DEF CpIn
      <3>8. art[inv[i].art].mark = i /\ art[inv[j].art].mark = j
        BY DEF PaidInv, Bought
      <3> QED BY <2>0, <3>7, <3>8
    <2>2. inv[i].op = "ata" => inv[i].inputs # inv[j].inputs
      BY DEF TextInv, AtaNew, AtaDone, IsAta
    <2>3. inv[i].scope = inv[j].scope => inv[i].round # inv[j].round
      <3> SUFFICES ASSUME inv[i].scope = inv[j].scope, inv[i].round = inv[j].round PROVE FALSE
        OBVIOUS
      <3>1. inv[i].status \in FailedStatuses
        BY DEF CallInv, OlderFailed, SameCall
      <3> QED BY <3>1 DEF FailedStatuses
    <2> QED BY <2>1, <2>2, <2>3
  <1> QED BY <1>1, TypeInvariant, CallInvariant, PaidInvariant, TextInvariant, PTL

=============================================================================
