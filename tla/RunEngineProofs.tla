-------------------------- MODULE RunEngineProofs --------------------------
(***************************************************************************)
(* Theorems about RunEngine, for every set of batches and References, any  *)
(* number of rounds and any number of faults.                              *)
(***************************************************************************)
EXTENDS RunEngine, WellFoundedInduction, TLAPS

\* TypeOK is inductive together with: a call in flight has its row; it is in flight only
\* where its thread waits for it (or where a failing writer has abandoned it); and a writer
\* that is about to open a round has room for it.
SlotsOpen == \A s \in Slots : slot[s].inv <= Len(inv)
CallsInPlace ==
    \A s \in Slots :
        slot[s].inv # 0 =>
            \/ pc \in {"fail", "failCommit", "snapshot"}
            \/ s = "main" /\ pc \in {"upload", "base", "peer", "select", "ata"}
               /\ (pc = "select" => todo # {})
            \/ s \in Arms /\ pc \in {"qwen", "kimi", "collect"}
RoomForRound == pc = "retry_run" => round < MaxRounds
TypeInv == TypeOK /\ SlotsOpen /\ CallsInPlace /\ RoomForRound

Bodies == SUBSET (Batches \cup Oversized \cup Refs)

-----------------------------------------------------------------------------
(* What the registry primitives return.                                    *)

\* Content addressing keeps a table of artifacts a table of artifacts.
LEMMA WithType ==
    ASSUME NEW S, NEW s \in Seq(S), NEW a \in S
    PROVE  With(s, a) \in Seq(S)
  BY DEF With

\* Every content has a natural id, stored or not.
LEMMA IdInType ==
    ASSUME NEW S, NEW s \in Seq(S), NEW a
    PROVE  IdIn(s, a) \in Nat
  <1>1. CASE \E i \in DOMAIN s : s[i] = a
    <2>1. (CHOOSE i \in DOMAIN s : s[i] = a) \in DOMAIN s
      BY <1>1
    <2> QED BY <1>1, <2>1 DEF IdIn
  <1>2. CASE ~\E i \in DOMAIN s : s[i] = a
    BY <1>2 DEF IdIn
  <1> QED BY <1>1, <1>2

\* Marking pointers stale, and pointing them at ids, yields pointers.
LEMMA StaleType ==
    ASSUME NEW p \in Pointers, NEW kinds
    PROVE  Stale(p, kinds) \in Pointers
  BY DEF Stale, Pointers

\* Pointing keys at ids yields pointers.
LEMMA ActivateType ==
    ASSUME NEW p \in Pointers, NEW ids, \A k \in DOMAIN ids : ids[k] \in Nat
    PROVE  Activate(p, ids) \in Pointers
  BY DEF Activate, Pointers

\* Every singleton kind, every arm and every batch is a key of the tables.
LEMMA KeysOfKinds ==
    /\ \A kind \in Kinds \ {"correction_transcript", "selection_batch", "selection_result"} :
          G(kind) \in Keys
    /\ \A a \in Arms : ArmKey(a) \in Keys
    /\ \A b \in Batches : <<"selection_batch", b>> \in Keys /\ <<"selection_result", b>> \in Keys
  BY DEF Keys, ArmKey

\* The kinds of artifacts, listed.
LEMMA KindSet ==
    Kinds = {"media_probe", "timeline_audio", "media_object", "base_asr",
             "peer_asr", "asr_comparison", "job_input", "correction_transcript", "merge_plan",
             "selection_batch", "selection_result", "edit_resolution",
             "review_queue", "review_resolution", "transcript",
             "ata_response", "ata_result", "srt_render"}
  BY DEF Kinds, SharedStages, RoundStages

\* Registry.checkpoint returns an id, or 0.
LEMMA CpType ==
    ASSUME TypeOK, NEW k \in Keys
    PROVE  Cp(k) \in Nat
  BY BoundsAssumption DEF TypeOK, RowsOK, DataOK, Checkpoints, Cp, RoundOf, Rounds

\* Writing a checkpoint, an artifact, or both, keeps the tables well formed.
LEMMA BindType ==
    ASSUME TypeOK, NEW key, NEW id \in Nat, Bind(key, id)
    PROVE  cp' \in Checkpoints
  BY BoundsAssumption DEF TypeOK, RowsOK, DataOK, Checkpoints, Bind, RoundOf, Rounds

\* Several checkpoints of the round, written together, are checkpoints.
LEMMA BindAllType ==
    ASSUME TypeOK, NEW ids, \A k \in DOMAIN ids : ids[k] \in Nat, BindAll(ids)
    PROVE  cp' \in Checkpoints
  <1> DEFINE row == [k \in Keys |-> IF k \in DOMAIN ids THEN ids[k] ELSE cp[round][k]]
  <1>1. cp \in Checkpoints /\ round \in 0..MaxRounds
    BY BoundsAssumption DEF TypeOK, RowsOK, DataOK, Rounds
  <1>2. row \in [Keys -> Nat]
    BY <1>1 DEF Checkpoints
  <1>3. cp' = [cp EXCEPT ![round] = row]
    BY DEF BindAll
  <1> HIDE DEF row
  <1> QED BY <1>1, <1>2, <1>3 DEF Checkpoints

\* Publishing an artifact keeps the artifacts and the pointers well formed.
LEMMA PublishOnlyType ==
    ASSUME TypeOK, NEW a \in ArtifactRows, PublishOnly(a)
    PROVE  art' \in Seq(ArtifactRows) /\ ptr' \in Pointers
  <1>1. art \in Seq(ArtifactRows) /\ ptr \in Pointers
    BY DEF TypeOK, DataOK
  <1>2. IdIn(art, a) \in Nat
    BY <1>1, IdInType
  <1>3. Stale(ptr, StaleTargets(a.kind)) \in Pointers
    BY <1>1, StaleType
  <1>4. \A k \in DOMAIN Only(KeyOf(a), IdIn(art, a)) : Only(KeyOf(a), IdIn(art, a))[k] \in Nat
    BY <1>2 DEF Only
  <1>5. ptr' \in Pointers
    BY <1>3, <1>4, ActivateType DEF PublishOnly
  <1> QED BY <1>1, <1>5, WithType DEF PublishOnly

\* Publishing with a checkpoint keeps all three tables well formed.
LEMMA PublishType ==
    ASSUME TypeOK, NEW a \in ArtifactRows, Publish(a)
    PROVE  art' \in Seq(ArtifactRows) /\ ptr' \in Pointers /\ cp' \in Checkpoints
  <1>1. IdIn(art, a) \in Nat
    BY IdInType DEF TypeOK, DataOK
  <1> QED BY <1>1, PublishOnlyType, BindType DEF Publish

\* What _save and the other publishers build is an artifact.
LEMMA ArtifactType ==
    ASSUME NEW key, key[1] \in Kinds, key[2] \in Scopes, NEW deps \in SUBSET Nat,
           NEW mark \in Nat, NEW body \in Bodies
    PROVE  Artifact(key, deps, mark, body) \in ArtifactRows
  BY DEF Artifact, ArtifactRows, Bodies

\* What _save builds is an artifact.
LEMMA SavedType ==
    ASSUME TypeOK, NEW key, key[1] \in Kinds, key[2] \in Scopes, NEW deps \in SUBSET Nat,
           NEW body \in Bodies
    PROVE  Saved(key, deps, body) \in ArtifactRows
  <1>1. RoundOf(key[1]) \in Nat
    BY BoundsAssumption DEF RoundOf, TypeOK, RowsOK, Rounds
  <1> QED BY <1>1, ArtifactType DEF Saved

\* The job_input frozen at intake is an artifact.
LEMMA OriginalJobType == OriginalJob \in ArtifactRows
  BY KindSet DEF OriginalJob, Artifact, G, ArtifactRows, Scopes

\* The writer's labels, listed.
LEMMA LabelSet ==
    Labels = {"intake", "resume", "retry_run", "retry_inv", "review",
              "media", "refs", "result", "render", "persist", "project",
              "upload", "base", "peer", "select", "ata",
              "preparing", "asr", "correction", "reviewing", "aligning", "exporting",
              "qwen", "kimi",
              "idle", "intakeBind", "intakeCheckpoint", "start", "job", "bindProbe",
              "bindTimeline", "compare", "bindCompare", "effective", "publishJob",
              "bindJob", "collect", "plan", "resolve", "gate", "transcript",
              "activate", "activateResult", "commit", "fail", "failCommit", "snapshot"}
  <1>1. DOMAIN MainCall = {"upload", "base", "peer", "select", "ata"}
    BY DEF MainCall
  <1>2. DOMAIN AfterProgress
          = {"preparing", "asr", "correction", "reviewing", "aligning", "exporting"}
    BY DEF AfterProgress
  <1> QED BY <1>1, <1>2 DEF Labels, Commands, LocalSteps, Arms

-----------------------------------------------------------------------------
(* TypeInv is inductive.                                                   *)

\* The first state satisfies TypeInv.
LEMMA InitType == Init => TypeInv
  <1> SUFFICES ASSUME Init PROVE TypeInv
    OBVIOUS
  <1>1. RowsOK
    <2>1. round \in Rounds /\ status \in [Rounds -> Statuses]
      BY BoundsAssumption DEF Init, Rounds, Statuses
    <2>2. NoResult \in [status : Statuses, srt : Nat]
      BY DEF NoResult, Statuses
    <2> QED BY <2>1, <2>2 DEF Init, RowsOK
  <1>2. DataOK
    BY DEF Init, DataOK, Pointers, Checkpoints
  <1>3. LocalsOK
    BY BoundsAssumption, LabelSet DEF Init, LocalsOK, NoSlot
  <1>4. SlotsOpen /\ CallsInPlace /\ RoomForRound
    BY DEF Init, SlotsOpen, CallsInPlace, RoomForRound, NoSlot
  <1> QED BY <1>1, <1>2, <1>3, <1>4 DEF TypeInv, TypeOK

\* A cancellation request keeps TypeInv.
LEMMA RequestCancelType == TypeInv /\ RequestCancel => TypeInv'
  BY BoundsAssumption
  DEF TypeInv, TypeOK, RowsOK, DataOK, LocalsOK, SlotsOpen, CallsInPlace, RoomForRound,
      RequestCancel, Fault, dataVars, localVars

\* The death of the writer keeps TypeInv.
LEMMA CrashType == TypeInv /\ Crash => TypeInv'
  BY BoundsAssumption, LabelSet
  DEF TypeInv, TypeOK, RowsOK, DataOK, LocalsOK, SlotsOpen, CallsInPlace, RoomForRound,
      Crash, Fault, Release, NoSlot, rowVars, dataVars

\* A call's row stays a row when its status changes.
LEMMA StatusWrite ==
    ASSUME NEW r \in InvocationRows, NEW st \in InvStatuses
    PROVE  [r EXCEPT !.status = st] \in InvocationRows
  BY DEF InvocationRows

\* Recovery rewrites the status of open calls, and of the Run, and nothing else.
LEMMA RecoverType ==
    ASSUME TypeInv, Recover
    PROVE  /\ inv' \in Seq(InvocationRows) /\ Len(inv') = Len(inv)
           /\ status' \in [Rounds -> Statuses]
  <1>1. CASE RunStatus = "running"
    <2>1. ASSUME NEW i \in DOMAIN inv PROVE Recovered(i) \in InvocationRows
      <3>1. inv[i] \in InvocationRows
        BY DEF TypeInv, TypeOK, DataOK
      <3>2. \A st \in InvStatuses : [inv[i] EXCEPT !.status = st] \in InvocationRows
        BY <3>1, StatusWrite
      <3> QED BY <3>1, <3>2 DEF Recovered, InvStatuses, FailedStatuses
    <2>2. inv' = [i \in 1..Len(inv) |-> Recovered(i)]
      BY <1>1 DEF Recover, TypeInv, TypeOK, DataOK
    <2>3. inv' \in Seq(InvocationRows) /\ Len(inv') = Len(inv)
      BY <2>1, <2>2 DEF TypeInv, TypeOK, DataOK
    <2> QED BY <1>1, <2>3
        DEF Recover, SetStatus, TypeInv, TypeOK, RowsOK, Statuses, Terminal
  <1>2. CASE RunStatus # "running"
    BY <1>2 DEF Recover, TypeInv, TypeOK, DataOK, RowsOK
  <1> QED BY <1>1, <1>2

\* Every command that takes the lock, and recovers, keeps TypeInv.
LEMMA EnterType == ASSUME TypeInv, NEW c \in Commands, Enter(c) PROVE TypeInv'
  <1>1. Recover
    BY DEF Enter
  <1>2. pc' \in Labels
    BY LabelSet DEF Enter, Commands
  <1> QED BY <1>1, <1>2, RecoverType
      DEF Enter, TypeInv, TypeOK, RowsOK, DataOK, LocalsOK, SlotsOpen, CallsInPlace, RoomForRound,
          dataVars, localVars

\* A decided review publishes three artifacts and their checkpoints in one transaction.
LEMMA ResolveReviewType == ASSUME TypeInv, ResolveReview PROVE TypeInv'
  <1>1. PICK q \in Queues :
          LET base   == Cp(G("base_asr"))
              review == Saved(G("review_resolution"), {q, base}, {})
              art1   == With(art, review)
              final  == Saved(G("edit_resolution"),
                              {base, Cp(G("merge_plan")), Cp(G("edit_resolution")),
                               IdIn(art, review)}, {})
              art2   == With(art1, final)
              queue  == Saved(G("review_queue"), {IdIn(art1, final)}, {})
              ids    == [k \in {G("review_resolution"), G("edit_resolution"),
                                G("review_queue")} |->
                           CASE k = G("review_resolution") -> IdIn(art, review)
                             [] k = G("edit_resolution")   -> IdIn(art1, final)
                             [] k = G("review_queue")      -> IdIn(art2, queue)]
          IN  art' = With(art2, queue) /\ ptr' = Activate(ptr, ids) /\ BindAll(ids)
    BY DEF ResolveReview
  <1> DEFINE base   == Cp(G("base_asr"))
             review == Saved(G("review_resolution"), {q, base}, {})
             art1   == With(art, review)
             final  == Saved(G("edit_resolution"),
                             {base, Cp(G("merge_plan")), Cp(G("edit_resolution")),
                              IdIn(art, review)}, {})
             art2   == With(art1, final)
             queue  == Saved(G("review_queue"), {IdIn(art1, final)}, {})
             ids    == [k \in {G("review_resolution"), G("edit_resolution"),
                               G("review_queue")} |->
                          CASE k = G("review_resolution") -> IdIn(art, review)
                            [] k = G("edit_resolution")   -> IdIn(art1, final)
                            [] k = G("review_queue")      -> IdIn(art2, queue)]
  <1>2. TypeOK /\ art \in Seq(ArtifactRows) /\ ptr \in Pointers
    BY DEF TypeInv, TypeOK, DataOK
  <1>3. q \in Nat /\ base \in Nat /\ Cp(G("merge_plan")) \in Nat
        /\ Cp(G("edit_resolution")) \in Nat
    BY <1>2, KindSet, KeysOfKinds, CpType DEF Queues
  <1>4. review \in ArtifactRows
    BY <1>2, <1>3, SavedType, KindSet DEF G, Scopes, Bodies
  <1>5. art1 \in Seq(ArtifactRows) /\ IdIn(art, review) \in Nat
    BY <1>2, <1>4, WithType, IdInType
  <1>6. final \in ArtifactRows
    BY <1>2, <1>3, <1>5, SavedType, KindSet DEF G, Scopes, Bodies
  <1>7. art2 \in Seq(ArtifactRows) /\ IdIn(art1, final) \in Nat
    BY <1>5, <1>6, WithType, IdInType
  <1>8. queue \in ArtifactRows
    BY <1>2, <1>7, SavedType, KindSet DEF G, Scopes, Bodies
  <1>9. art' \in Seq(ArtifactRows) /\ IdIn(art2, queue) \in Nat
    BY <1>1, <1>7, <1>8, WithType, IdInType
  <1>10. \A k \in DOMAIN ids : ids[k] \in Nat
    BY <1>5, <1>7, <1>9
  <1>11. ptr' = Activate(ptr, ids) /\ BindAll(ids)
    BY <1>1
  <1> HIDE DEF ids
  <1>12. ptr' \in Pointers /\ cp' \in Checkpoints
    BY <1>2, <1>10, <1>11, ActivateType, BindAllType
  <1> QED BY <1>9, <1>12, LabelSet
      DEF ResolveReview, TypeInv, TypeOK, RowsOK, DataOK, LocalsOK, SlotsOpen, CallsInPlace, RoomForRound,
          rowVars, localVars, Goto

\* Every step of an entry point keeps TypeInv.
LEMMA EntryStepsType == ASSUME TypeInv, EntrySteps PROVE TypeInv'
  <1> USE DEF TypeInv, TypeOK, RowsOK, DataOK, LocalsOK, SlotsOpen, CallsInPlace, RoomForRound,
              rowVars, dataVars, localVars, Goto
  <1>1. CASE IntakeJob
    <2>1. art' \in Seq(ArtifactRows) /\ ptr' \in Pointers
      BY <1>1, OriginalJobType, PublishOnlyType DEF IntakeJob
    <2> QED BY <1>1, <2>1, LabelSet DEF IntakeJob
  <1>2. CASE IntakeBind
    BY <1>2, LabelSet DEF IntakeBind
  <1>3. CASE IntakeCheckpoint
    <2>1. cp' \in Checkpoints
      BY <1>3, IdInType, BindType DEF IntakeCheckpoint, OriginalJobId
    <2> QED BY <1>3, <2>1, LabelSet DEF IntakeCheckpoint
  <1>4. CASE ResumeRun
    BY <1>4, LabelSet DEF ResumeRun
  <1>5. CASE RetryRun
    <2>1. round' \in Rounds /\ round + 1 \in 0..MaxRounds
      BY <1>5, BoundsAssumption DEF RetryRun, Rounds
    <2>2. status' \in [Rounds -> Statuses]
      BY <1>5 DEF RetryRun, Statuses
    <2>3. cp' \in Checkpoints
      <3> DEFINE row == [k \in Keys |-> IF k[1] \in Excluded \/ k \in FailedKeys
                                        THEN 0 ELSE cp[round][k]]
      <3>1. \A k \in Keys : cp[round][k] \in Nat
        BY BoundsAssumption DEF Rounds, Checkpoints
      <3>2. row \in [Keys -> Nat]
        BY ONLY <3>1
      <3>3. cp' = [cp EXCEPT ![round + 1] = row]
        BY <1>5 DEF RetryRun
      <3> HIDE DEF row
      <3> QED BY <3>2, <3>3 DEF Checkpoints
    <2>4. ptr' \in Pointers
      BY <1>5, StaleType DEF RetryRun
    <2> QED BY <1>5, <2>1, <2>2, <2>3, <2>4, LabelSet DEF RetryRun
  <1>6. CASE RetryInvocation
    BY <1>6, LabelSet DEF RetryInvocation
  <1>7. CASE ResolveReview
    BY <1>7, ResolveReviewType
  <1>8. CASE Refuse
    BY <1>8, LabelSet DEF Refuse, Release, NoSlot
  <1> QED BY <1>1, <1>2, <1>3, <1>4, <1>5, <1>6, <1>7, <1>8 DEF EntrySteps

\* A resolution and its review queue are published and checkpointed together.
LEMMA FinalizeType == ASSUME TypeInv, Finalize PROVE TypeInv'
  <1> DEFINE visited  == Plan.body \cap Batches
             evidence == {Cp(<<"selection_batch", b>>) : b \in visited}
                         \cup {Cp(<<"selection_result", b>>) : b \in visited \ unsel}
             items == unsel \cup (Plan.body \cap Oversized)
             final == Saved(G("edit_resolution"),
                            {Cp(G("base_asr")), Cp(G("merge_plan"))} \cup evidence, items)
             art1  == With(art, final)
             queue == Saved(G("review_queue"), {IdIn(art, final)}, items)
             ids   == [k \in {G("edit_resolution"), G("review_queue")} |->
                         IF k = G("edit_resolution") THEN IdIn(art, final)
                         ELSE IdIn(art1, queue)]
  <1>1. art' = With(art1, queue) /\ ptr' = Activate(ptr, ids) /\ BindAll(ids)
    BY DEF Finalize
  <1>2. TypeOK /\ art \in Seq(ArtifactRows) /\ ptr \in Pointers /\ unsel \subseteq Batches
    BY DEF TypeInv, TypeOK, DataOK, LocalsOK
  <1>3. Cp(G("base_asr")) \in Nat /\ Cp(G("merge_plan")) \in Nat
    BY <1>2, KindSet, KeysOfKinds, CpType
  <1>4. evidence \in SUBSET Nat
    BY <1>2, KeysOfKinds, CpType
  <1>5. items \in Bodies
    BY <1>2 DEF Bodies
  <1> HIDE DEF evidence, items
  <1>6. final \in ArtifactRows
    BY <1>2, <1>3, <1>4, <1>5, SavedType, KindSet DEF G, Scopes
  <1>7. art1 \in Seq(ArtifactRows) /\ IdIn(art, final) \in Nat
    BY <1>2, <1>6, WithType, IdInType
  <1>8. queue \in ArtifactRows
    BY <1>2, <1>5, <1>7, SavedType, KindSet DEF G, Scopes
  <1>9. art' \in Seq(ArtifactRows) /\ IdIn(art1, queue) \in Nat
    BY <1>1, <1>7, <1>8, WithType, IdInType
  <1>10. \A k \in DOMAIN ids : ids[k] \in Nat
    BY <1>7, <1>9
  <1> HIDE DEF ids
  <1>11. ptr' \in Pointers /\ cp' \in Checkpoints
    BY <1>1, <1>2, <1>10, ActivateType, BindAllType
  <1> QED BY <1>9, <1>11, LabelSet
      DEF Finalize, TypeInv, TypeOK, RowsOK, DataOK, LocalsOK, SlotsOpen, CallsInPlace, RoomForRound,
          rowVars, Goto

\* The artifacts the local stages make, and their ids.
LEMMA LocalArtifacts ==
    ASSUME TypeOK
    PROVE  /\ Probe \in ArtifactRows /\ IdIn(art, Probe) \in Nat
           /\ Timeline \in ArtifactRows /\ TimelineId \in Nat
           /\ Comparison \in ArtifactRows /\ IdIn(art, Comparison) \in Nat
           /\ EffectiveJob \in ArtifactRows /\ IdIn(art, EffectiveJob) \in Nat
           /\ OriginalJobId \in Nat
  <1>1. art \in Seq(ArtifactRows)
    BY DEF TypeOK, DataOK
  <1>2. Probe \in ArtifactRows /\ IdIn(art, Probe) \in Nat
    BY <1>1, ArtifactType, IdInType, KindSet DEF Probe, G, Scopes, Bodies
  <1>3. Timeline \in ArtifactRows
    BY <1>2, ArtifactType, KindSet DEF Timeline, G, Scopes, Bodies
  <1>4. TimelineId \in Nat
    BY <1>1, <1>2, WithType, IdInType DEF TimelineId
  <1>5. Comparison \in ArtifactRows
    <2>1. Cp(G("base_asr")) \in Nat /\ Cp(G("peer_asr")) \in Nat
      BY KindSet, KeysOfKinds, CpType
    <2> QED BY <2>1, ArtifactType, KindSet DEF Comparison, G, Scopes, Bodies
  <1>6. EffectiveJob \in ArtifactRows
    <2>1. PreparedRefs \in Bodies
      BY DEF PreparedRefs, Bodies
    <2> QED BY <2>1, ArtifactType, KindSet DEF EffectiveJob, G, Scopes
  <1> QED BY <1>1, <1>2, <1>3, <1>4, <1>5, <1>6, IdInType DEF OriginalJobId

\* Every local stage of _execute keeps TypeInv.
LEMMA LocalStageType == ASSUME TypeInv, LocalStage PROVE TypeInv'
  <1> USE DEF TypeInv, TypeOK, RowsOK, DataOK, LocalsOK, SlotsOpen, CallsInPlace, RoomForRound,
              rowVars, dataVars, localVars, Goto, Raise
  <1>1. CASE SetRunning
    BY <1>1, LabelSet DEF SetRunning, SetStatus, Statuses
  <1>2. CASE Progress
    <2>1. pc \in DOMAIN AfterProgress => AfterProgress[pc] \in Labels \ {"retry_run"}
      BY LabelSet DEF AfterProgress
    <2>2. \A t \in Slots : slot[t].inv = 0
      BY <1>2 DEF Progress, AfterProgress
    <2> QED BY <1>2, <2>1, <2>2, LabelSet DEF Progress
  <1>3. CASE JobStage
    <2>1. cp' \in Checkpoints
      BY <1>3, LocalArtifacts, BindType DEF JobStage
    <2> QED BY <1>3, <2>1, LabelSet DEF JobStage
  <1>4. CASE MediaReuse
    BY <1>4, LabelSet DEF MediaReuse
  <1>5. CASE MediaPrepare
    <2> DEFINE ids == [k \in {G("media_probe"), G("timeline_audio")} |->
                         IF k = G("media_probe") THEN IdIn(art, Probe) ELSE TimelineId]
    <2>1. art' \in Seq(ArtifactRows)
      BY <1>5, LocalArtifacts, WithType DEF MediaPrepare
    <2>2. \A k \in DOMAIN ids : ids[k] \in Nat
      BY LocalArtifacts
    <2>3. ptr' = Activate(Stale(ptr, StaleTargets("timeline_audio")), ids)
      BY <1>5 DEF MediaPrepare
    <2> HIDE DEF ids
    <2>4. ptr' \in Pointers
      BY <2>2, <2>3, StaleType, ActivateType
    <2> QED BY <1>5, <2>1, <2>4, LabelSet DEF MediaPrepare
  <1>6. CASE BindMedia
    <2>1. cp' \in Checkpoints
      BY <1>6, LocalArtifacts, BindType DEF BindMedia
    <2> QED BY <1>6, <2>1, LabelSet DEF BindMedia
  <1>7. CASE Compare
    <2>1. art' \in Seq(ArtifactRows) /\ ptr' \in Pointers
      BY <1>7, LocalArtifacts, PublishOnlyType DEF Compare
    <2> QED BY <1>7, <2>1, LabelSet DEF Compare
  <1>8. CASE BindCompare
    <2>1. cp' \in Checkpoints
      BY <1>8, LocalArtifacts, BindType DEF BindCompare
    <2> QED BY <1>8, <2>1, LabelSet DEF BindCompare
  <1>9. CASE PrepareReference
    <2>1. prep' \in [Rounds -> [Refs -> {"none", "available", "unavailable"}]]
      <3>1. \A f : \A v \in {"available", "unavailable"} :
              [prep EXCEPT ![round][f] = v]
                \in [Rounds -> [Refs -> {"none", "available", "unavailable"}]]
        OBVIOUS
      <3>2. \E f : \E v \in {"available", "unavailable"} :
              prep' = [prep EXCEPT ![round][f] = v]
        BY <1>9 DEF PrepareReference, PrepRow
      <3> QED BY <3>1, <3>2
    <2>2. faults' \in 0..MaxFaults
      BY <1>9, BoundsAssumption DEF PrepareReference, Fault
    <2> QED BY <1>9, <2>1, <2>2 DEF PrepareReference
  <1>10. CASE ReferencesPrepared
    BY <1>10, LabelSet DEF ReferencesPrepared
  <1>11. CASE SameReferences
    BY <1>11, LabelSet DEF SameReferences
  <1>12. CASE Invalidate
    <2> DEFINE stages == {"job_input"} \cup Descendants({"job_input"})
               shared == [k \in Keys |-> IF k[1] \in stages \cap SharedStages
                                         THEN 0 ELSE cp[0][k]]
               own == [k \in Keys |-> IF k[1] \in stages \ SharedStages
                                      THEN 0 ELSE cp[round][k]]
    <2>1. \A k \in Keys : cp[0][k] \in Nat /\ cp[round][k] \in Nat
      BY BoundsAssumption DEF Rounds, Checkpoints
    <2>2. shared \in [Keys -> Nat] /\ own \in [Keys -> Nat]
      BY ONLY <2>1
    <2>3. cp' = [cp EXCEPT ![0] = shared, ![round] = own] /\ ptr' = Stale(ptr, stages)
      BY <1>12 DEF Invalidate
    <2> HIDE DEF shared, own, stages
    <2>4. cp' \in Checkpoints
      BY <2>2, <2>3 DEF Checkpoints
    <2>5. ptr' \in Pointers
      BY <2>3, StaleType
    <2> QED BY <1>12, <2>4, <2>5, LabelSet DEF Invalidate
  <1>13. CASE PublishJob
    <2>1. art' \in Seq(ArtifactRows) /\ ptr' \in Pointers
      BY <1>13, LocalArtifacts, PublishOnlyType DEF PublishJob
    <2> QED BY <1>13, <2>1, LabelSet DEF PublishJob
  <1>14. CASE BindJob
    <2>1. cp' \in Checkpoints
      BY <1>14, LocalArtifacts, BindType DEF BindJob
    <2> QED BY <1>14, <2>1, LabelSet DEF BindJob
  <1>15. CASE PlanStage
    <2>1. Cp(G("base_asr")) \in Nat /\ Cp(G("peer_asr")) \in Nat
          /\ Cp(ArmKey("qwen")) \in Nat /\ Cp(ArmKey("kimi")) \in Nat
      BY KindSet, KeysOfKinds, CpType DEF Arms
    <2>2. ASSUME NEW cases \in SUBSET (Batches \cup Oversized)
          PROVE  Saved(G("merge_plan"), {Cp(G("base_asr")), Cp(G("peer_asr")),
                                         Cp(ArmKey("qwen")), Cp(ArmKey("kimi"))}, cases)
                   \in ArtifactRows
      BY <2>1, SavedType, KindSet DEF G, Scopes, Bodies
    <2>3. dataVars' = dataVars \/
          (art' \in Seq(ArtifactRows) /\ ptr' \in Pointers /\ cp' \in Checkpoints)
      BY <1>15, <2>2, PublishType DEF PlanStage
    <2> QED BY <1>15, <2>3, LabelSet DEF PlanStage
  <1>16. CASE ResolveStage
    BY <1>16, LabelSet DEF ResolveStage
  <1>17. CASE SaveBatch
    <2>1. Batch \in Batches
      BY <1>17 DEF SaveBatch, Batch
    <2>2. Cp(G("merge_plan")) \in Nat
      BY KindSet, KeysOfKinds, CpType
    <2>3. Saved(<<"selection_batch", Batch>>, {Cp(G("merge_plan"))}, {}) \in ArtifactRows
      BY <2>1, <2>2, SavedType, KindSet DEF Scopes, Bodies
    <2>4. art' \in Seq(ArtifactRows) /\ ptr' \in Pointers /\ cp' \in Checkpoints
      BY <1>17, <2>3, PublishType DEF SaveBatch
    <2> QED BY <1>17, <2>4 DEF SaveBatch
  <1>18. CASE Finalize
    BY <1>18, FinalizeType
  <1>19. CASE ReviewGate
    BY <1>19, LabelSet DEF ReviewGate, SetStatus, Statuses
  <1>20. CASE SaveTranscript
    <2>1. Cp(G("base_asr")) \in Nat /\ Cp(G("edit_resolution")) \in Nat
      BY KindSet, KeysOfKinds, CpType
    <2>2. Saved(G("transcript"), {Cp(G("base_asr")), Cp(G("edit_resolution"))}, {})
            \in ArtifactRows
      BY <2>1, SavedType, KindSet DEF G, Scopes, Bodies
    <2>3. dataVars' = dataVars \/
          (art' \in Seq(ArtifactRows) /\ ptr' \in Pointers /\ cp' \in Checkpoints)
      BY <1>20, <2>2, PublishType DEF SaveTranscript
    <2> QED BY <1>20, <2>3, LabelSet DEF SaveTranscript
  <1> QED BY <1>1, <1>2, <1>3, <1>4, <1>5, <1>6, <1>7, <1>8, <1>9, <1>10, <1>11, <1>12,
             <1>13, <1>14, <1>15, <1>16, <1>17, <1>18, <1>19, <1>20 DEF LocalStage

\* What the export makes and reads.
LEMMA ExportStepType == ASSUME TypeInv, ExportStep PROVE TypeInv'
  <1> USE DEF TypeInv, TypeOK, RowsOK, DataOK, LocalsOK, SlotsOpen, CallsInPlace, RoomForRound,
              rowVars, dataVars, localVars, Goto, Raise
  <1>1. CASE ActivateInputs
    <2> DEFINE ids == [k \in Exported |-> Cp(k)]
    <2>1. Exported \subseteq Keys
      BY KindSet, KeysOfKinds DEF Exported, SharedStages
    <2>2. \A k \in DOMAIN ids : ids[k] \in Nat
      BY <2>1, CpType
    <2>3. ptr' = Activate(ptr, ids)
      BY <1>1 DEF ActivateInputs
    <2> HIDE DEF ids
    <2>4. ptr' \in Pointers
      BY <2>2, <2>3, ActivateType
    <2> QED BY <1>1, <2>4, LabelSet DEF ActivateInputs
  <1>2. CASE SaveAtaResult
    <2>1. Cp(G("ata_response")) \in Nat /\ Cp(G("transcript")) \in Nat
          /\ Cp(G("timeline_audio")) \in Nat
      BY KindSet, KeysOfKinds, CpType
    <2>2. Saved(G("ata_result"), {Cp(G("ata_response")), Cp(G("transcript")),
                                  Cp(G("timeline_audio"))}, {}) \in ArtifactRows
      BY <2>1, SavedType, KindSet DEF G, Scopes, Bodies
    <2>3. dataVars' = dataVars \/
          (art' \in Seq(ArtifactRows) /\ ptr' \in Pointers /\ cp' \in Checkpoints)
      BY <1>2, <2>2, PublishType DEF SaveAtaResult
    <2> QED BY <1>2, <2>3, LabelSet DEF SaveAtaResult
  <1>3. CASE ActivateResult
    <2> DEFINE ids == Only(G("ata_result"), Cp(G("ata_result")))
    <2>1. \A k \in DOMAIN ids : ids[k] \in Nat
      BY KindSet, KeysOfKinds, CpType DEF Only
    <2>2. ptr' = Activate(ptr, ids)
      BY <1>3 DEF ActivateResult
    <2> HIDE DEF ids
    <2>3. ptr' \in Pointers
      BY <2>1, <2>2, ActivateType
    <2> QED BY <1>3, <2>3, LabelSet DEF ActivateResult
  <1>4. CASE Render
    <2>1. Cp(G("ata_result")) \in Nat
      BY KindSet, KeysOfKinds, CpType
    <2>2. Srt \in ArtifactRows
      BY <2>1, ArtifactType, KindSet DEF Srt, G, Scopes, Bodies
    <2>3. art' \in Seq(ArtifactRows) /\ ptr' \in Pointers
      BY <1>4, <2>2, PublishOnlyType DEF Render
    <2> QED BY <1>4, <2>3, LabelSet DEF Render
  <1>5. CASE PersistOutputs
    BY <1>5, LabelSet DEF PersistOutputs
  <1>6. CASE CommitSuccess
    <2>1. ptr[G("srt_render")].id \in Nat
      BY KindSet, KeysOfKinds DEF Pointers
    <2>2. FreshResult("succeeded", ptr[G("srt_render")].id)
            \in [status : Statuses, srt : Nat]
      BY <2>1 DEF FreshResult, Statuses, Terminal
    <2>3. result' \in [Rounds -> [status : Statuses, srt : Nat]]
      BY <1>6, <2>2 DEF CommitSuccess
    <2>4. status' \in [Rounds -> Statuses]
      BY <1>6 DEF CommitSuccess, SetStatus, Statuses, Terminal
    <2> QED BY <1>6, <2>3, <2>4, LabelSet DEF CommitSuccess
  <1>7. CASE ProjectResult
    BY <1>7, LabelSet DEF ProjectResult, Release, NoSlot
  <1>8. CASE LocalFailure
    BY <1>8, LabelSet, BoundsAssumption DEF LocalFailure, Fault
  <1>9. CASE FailRun
    BY <1>9, LabelSet DEF FailRun, SetStatus, Statuses, Terminal
  <1>10. FreshResult(RunStatus, 0) \in [status : Statuses, srt : Nat]
    BY DEF FreshResult, RunStatus
  <1>11. CASE FailCommit
    <2>1. result' \in [Rounds -> [status : Statuses, srt : Nat]]
      BY <1>10, <1>11 DEF FailCommit
    <2> QED BY <1>11, <2>1, LabelSet DEF FailCommit
  <1>12. CASE Snapshot
    <2>1. result' \in [Rounds -> [status : Statuses, srt : Nat]]
      BY <1>10, <1>12 DEF Snapshot
    <2> QED BY <1>12, <2>1, LabelSet DEF Snapshot, Release, NoSlot
  <1> QED BY <1>1, <1>2, <1>3, <1>4, <1>5, <1>6, <1>7, <1>8, <1>9, <1>11, <1>12 DEF ExportStep

-----------------------------------------------------------------------------
(* Calls.                                                                  *)

\* The inputs an invocation freezes are ids.
LEMMA InputsType ==
    ASSUME TypeOK, NEW op \in Ops, NEW scope, op = "glm_selection" => scope \in Batches
    PROVE  Inputs(op, scope) \in SUBSET Nat
  <1>1. \A kind \in {"timeline_audio", "media_object", "base_asr", "peer_asr", "job_input",
                      "asr_comparison", "transcript"} : Cp(G(kind)) \in Nat
    BY KindSet, KeysOfKinds, CpType
  <1>2. OriginalJobId \in Nat
    BY LocalArtifacts
  <1>3. scope \in Batches => Cp(<<"selection_batch", scope>>) \in Nat
    BY KeysOfKinds, CpType
  <1> QED BY <1>1, <1>2, <1>3 DEF Inputs, Ops, RemoteOps

\* Last is the greatest element of a nonempty set of positions.
LEMMA LastGreatest ==
    ASSUME NEW n \in Nat, NEW S \in SUBSET (1..n), S # {}
    PROVE  Last(S) \in S /\ \A j \in S : j <= Last(S)
  <1> DEFINE T == {n - x : x \in S}
             R == OpToRel(<, Nat)
  <1>1. T \subseteq Nat /\ T # {}
    <2>1. \A x \in S : n - x \in Nat
      OBVIOUS
    <2>2. PICK x \in S : TRUE
      OBVIOUS
    <2>3. n - x \in T
      OBVIOUS
    <2> QED BY <2>1, <2>3
  <1>2. IsWellFoundedOn(R, Nat)
    BY NatLessThanWellFounded
  <1>3. \A x, y \in Nat : x < y => <<x, y>> \in R
    BY DEF OpToRel
  <1> HIDE DEF R, T
  <1>4. PICK m \in T : \A y \in T : ~(<<y, m>> \in R)
    BY <1>1, <1>2, WFMin
  <1>5. PICK x \in S : m = n - x
    BY DEF T
  <1>6. \A j \in S : j <= x
    <2> SUFFICES ASSUME NEW j \in S, ~(j <= x) PROVE FALSE
      OBVIOUS
    <2>1. n - j \in T /\ n - j < m /\ n - j \in Nat /\ m \in Nat
      BY <1>5 DEF T
    <2> QED BY <2>1, <1>3, <1>4
  <1> QED BY <1>6 DEF Last

\* The attempt a new invocation continues is an id, or 0.
LEMMA PredecessorType ==
    ASSUME TypeOK, NEW op, NEW scope
    PROVE  Predecessor(op, scope) \in Nat
  <1>1. Len(inv) \in Nat /\ Attempts(op, scope) \in SUBSET (1..Len(inv))
        /\ OpenTasks(op) \in SUBSET (1..Len(inv))
    BY DEF TypeOK, DataOK, Attempts, OpenTasks
  <1>2. ASSUME NEW S \in SUBSET (1..Len(inv)), S # {} PROVE Last(S) \in Nat
    <2>1. Last(S) \in S
      BY <1>1, <1>2, LastGreatest
    <2>2. \A x \in S : x \in Nat
      BY <1>1
    <2> QED BY <2>1, <2>2
  <1> QED BY <1>1, <1>2 DEF Predecessor

\* A new invocation is a row, and its slot names it.
LEMMA NewInvocationType ==
    ASSUME TypeInv, NEW op \in Ops, NEW scope \in Scopes, NEW s \in Slots,
           NEW previous \in Nat, NEW tries \in 0..1,
           op = "glm_selection" => scope \in Batches,
           NewInvocation(op, scope, s, previous, tries)
    PROVE  /\ inv' \in Seq(InvocationRows)
           /\ slot' \in [Slots -> [inv : Nat, tries : 0..1]]
           /\ SlotsOpen'
           /\ \A t \in Slots \ {s} : slot'[t] = slot[t]
  <1> DEFINE row == [op |-> op, scope |-> scope, status |-> "created",
                     round |-> round, retryOf |-> previous,
                     inputs |-> Inputs(op, scope), remote |-> FALSE, art |-> 0]
  <1>1. Inputs(op, scope) \in SUBSET Nat
    BY InputsType DEF TypeInv
  <1>2. row \in InvocationRows
    BY <1>1 DEF InvocationRows, InvStatuses, TypeInv, TypeOK, RowsOK
  <1>3. inv' = Append(inv, row)
    BY DEF NewInvocation
  <1> HIDE DEF row
  <1>4. inv' \in Seq(InvocationRows) /\ Len(inv') = Len(inv) + 1 /\ Len(inv) \in Nat
    BY <1>2, <1>3 DEF TypeInv, TypeOK, DataOK
  <1>5. slot' = [slot EXCEPT ![s] = [inv |-> Len(inv) + 1, tries |-> tries]]
    BY DEF NewInvocation
  <1>6. slot \in [Slots -> [inv : Nat, tries : 0..1]] /\ SlotsOpen
    BY DEF TypeInv, TypeOK, LocalsOK
  <1>7. \A t \in Slots : slot'[t].inv <= Len(inv')
    BY <1>4, <1>5, <1>6 DEF SlotsOpen
  <1> QED BY <1>4, <1>5, <1>6, <1>7 DEF SlotsOpen

\* The row a slot is working on exists, and stays a row when the answer is written.
LEMMA SlotRow ==
    ASSUME TypeInv, NEW s \in Slots, Doing(s) # "nothing"
    PROVE  slot[s].inv \in 1..Len(inv) /\ inv[slot[s].inv] \in InvocationRows
           /\ slot[s].inv # 0
  <1>1. slot[s].inv # 0 /\ slot[s].inv \in Nat /\ slot[s].inv <= Len(inv)
    BY DEF Doing, TypeInv, TypeOK, LocalsOK, SlotsOpen
  <1> QED BY <1>1 DEF TypeInv, TypeOK, DataOK

\* Replacing one invocation row by another keeps the table and its length.
LEMMA RowWrite ==
    ASSUME TypeInv, NEW i \in 1..Len(inv), NEW r \in InvocationRows,
           inv' = [inv EXCEPT ![i] = r]
    PROVE  inv' \in Seq(InvocationRows) /\ Len(inv') = Len(inv)
  BY DEF TypeInv, TypeOK, DataOK

\* Where the calls stand in the writer's program, and where it goes after them.
LEMMA CallLabels ==
    /\ DOMAIN MainCall = {"upload", "base", "peer", "select", "ata"}
    /\ \A l \in DOMAIN MainCall : /\ MainCall[l] \in Ops
                                  /\ MainCall[l] = "glm_selection" => l = "select"
    /\ DOMAIN AfterCall = {"upload", "base", "peer", "ata"}
    /\ \A l \in DOMAIN AfterCall : AfterCall[l] \in {"asr", "peer", "compare", "activate"}
    /\ AfterArm["qwen"] = "kimi" /\ AfterArm["kimi"] = "collect"
    /\ \A a \in Arms : ArmOp(a) \in Ops \ {"glm_selection"}
  BY DEF MainCall, AfterCall, AfterArm, Ops, RemoteOps, Arms, ArmOp

\* An error of a stage ends the writer's work or moves a batch to review.
LEMMA StageErrorType ==
    ASSUME TypeInv, StageError("provider"), pc = "select" => todo # {}
    PROVE  /\ pc' \in Labels /\ exc' \in {"none", "provider", "cancel", "integrity"}
           /\ todo' \subseteq Batches /\ unsel' \subseteq Batches
           /\ pc' = "fail" \/ (pc' = pc /\ pc = "select")
  <1>1. pc = "select" => Batch \in Batches
    BY DEF Batch, TypeInv, TypeOK, LocalsOK
  <1> QED BY <1>1, LabelSet DEF StageError, Raise, TypeInv, TypeOK, LocalsOK

\* The steps that ask for a call: reuse it, refuse it, or create its invocation.
LEMMA AskType ==
    ASSUME TypeInv,
           CallReuse \/ CallRefused \/ CallBegin \/ ArmReuse \/ ArmRefused \/ ArmBegin
    PROVE  TypeInv'
  <1> USE DEF TypeInv, TypeOK, RowsOK, DataOK, LocalsOK, SlotsOpen, CallsInPlace, RoomForRound,
              rowVars, dataVars, localVars, Goto, Raise
  <1>1. CASE CallReuse
    <2>1. \A t \in Slots : slot[t].inv = 0
      BY <1>1, CallLabels DEF CallReuse, CallPending, Slots, Arms
    <2>2. pc \in DOMAIN AfterCall \cup {"select"}
      BY <1>1, CallLabels DEF CallReuse, CallPending
    <2>3. pc' \in Labels \ {"retry_run"}
      BY <1>1, <2>2, CallLabels, LabelSet DEF CallReuse
    <2> QED BY <1>1, <2>1, <2>3 DEF CallReuse
  <1>2. CASE CallRefused
    <2>1. \A t \in Slots : slot[t].inv = 0
      BY <1>2, CallLabels DEF CallRefused, CallPending, Slots, Arms
    <2>2. pc = "select" => todo # {}
      BY <1>2 DEF CallRefused, CallPending
    <2>3. /\ pc' \in Labels \ {"retry_run"} /\ exc' \in {"none", "provider", "cancel", "integrity"}
          /\ todo' \subseteq Batches /\ unsel' \subseteq Batches
      BY <1>2, <2>2, StageErrorType, LabelSet DEF CallRefused
    <2>4. faults' \in 0..MaxFaults
      BY <1>2, BoundsAssumption DEF CallRefused, Fault
    <2> QED BY <1>2, <2>1, <2>3, <2>4 DEF CallRefused
  <1>3. CASE CallBegin
    <2>1. MainCall[pc] \in Ops /\ (MainCall[pc] = "glm_selection" => pc = "select")
      BY <1>3, CallLabels DEF CallBegin, CallPending
    <2>2. pc = "select" => Batch \in Batches
      BY <1>3 DEF CallBegin, CallPending, Batch
    <2>3. CallScope \in Scopes /\ (MainCall[pc] = "glm_selection" => CallScope \in Batches)
      BY <2>1, <2>2 DEF CallScope, Scopes
    <2>4. NewInvocation(MainCall[pc], CallScope, "main", Predecessor(MainCall[pc], CallScope), 0)
      BY <1>3 DEF CallBegin
    <2>5. Predecessor(MainCall[pc], CallScope) \in Nat
      BY PredecessorType
    <2>6. /\ inv' \in Seq(InvocationRows) /\ slot' \in [Slots -> [inv : Nat, tries : 0..1]]
          /\ SlotsOpen' /\ \A t \in Slots \ {"main"} : slot'[t] = slot[t]
      <3>1. "main" \in Slots
        BY DEF Slots
      <3> QED BY <2>1, <2>3, <2>4, <2>5, <3>1, NewInvocationType
    <2> QED BY <1>3, <2>6, CallLabels DEF CallBegin, CallPending
  <1>4. CASE ArmReuse
    <2>1. pc' \in {"kimi", "collect"} /\ pc \in {"qwen", "kimi"}
      BY <1>4, CallLabels DEF ArmReuse, Arms
    <2> QED BY <1>4, <2>1, LabelSet DEF ArmReuse
  <1>5. CASE ArmRefused
    <2>1. pc' \in {"kimi", "collect"} /\ pc \in {"qwen", "kimi"}
      BY <1>5, CallLabels DEF ArmRefused, Arms
    <2>2. exc' \in {"none", "provider", "cancel", "integrity"}
      BY <1>5 DEF ArmRefused, FirstError
    <2>3. faults' \in 0..MaxFaults
      BY <1>5, BoundsAssumption DEF ArmRefused, Fault
    <2> QED BY <1>5, <2>1, <2>2, <2>3, LabelSet DEF ArmRefused
  <1>6. CASE ArmBegin
    <2>1. pc \in Arms /\ ArmOp(pc) \in Ops \ {"glm_selection"} /\ pc \in Scopes /\ pc \in Slots
      BY <1>6, CallLabels DEF ArmBegin, Scopes, Slots
    <2>2. NewInvocation(ArmOp(pc), pc, pc, Predecessor(ArmOp(pc), pc), 0)
      BY <1>6 DEF ArmBegin
    <2>3. Predecessor(ArmOp(pc), pc) \in Nat
      BY PredecessorType
    <2>4. /\ inv' \in Seq(InvocationRows) /\ slot' \in [Slots -> [inv : Nat, tries : 0..1]]
          /\ SlotsOpen' /\ \A t \in Slots \ {pc} : slot'[t] = slot[t]
      BY <2>1, <2>2, <2>3, NewInvocationType
    <2> QED BY <1>6, <2>1, <2>4 DEF ArmBegin, Arms
  <1> QED BY <1>1, <1>2, <1>3, <1>4, <1>5, <1>6

\* The steps of a call in flight that leave its slot occupied.
LEMMA FlightType ==
    ASSUME TypeInv, NEW s \in Slots, MarkSending(s) \/ CompletedInvalid(s) \/ Resubmit(s)
    PROVE  TypeInv'
  <1> DEFINE i == slot[s].inv
  <1>0. Doing(s) # "nothing"
    BY DEF MarkSending, CompletedInvalid, Answered, Resubmit
  <1>1. i \in 1..Len(inv) /\ inv[i] \in InvocationRows /\ i # 0 /\ i \in Nat
    BY <1>0, SlotRow DEF TypeInv, TypeOK, DataOK
  <1>2. \A st \in InvStatuses : [inv[i] EXCEPT !.status = st] \in InvocationRows
    BY <1>1, StatusWrite
  <1> HIDE DEF i
  <1>3. ASSUME MarkSending(s) PROVE TypeInv'
    <2>1. inv' = [inv EXCEPT ![i] = [inv[i] EXCEPT !.status = "sending"]]
      BY <1>3 DEF MarkSending, i
    <2>2. inv' \in Seq(InvocationRows) /\ Len(inv') = Len(inv)
      BY <1>1, <1>2, <2>1, RowWrite DEF InvStatuses
    <2>3. pc \in Arms => pc' \in {"kimi", "collect"} /\ exc' = exc
      BY <1>3, CallLabels DEF MarkSending, Arms, Goto
    <2>4. pc \notin Arms => pc' = pc /\ exc' = exc
      BY <1>3 DEF MarkSending
    <2> QED BY <1>3, <2>2, <2>3, <2>4, LabelSet
        DEF TypeInv, TypeOK, RowsOK, DataOK, LocalsOK, SlotsOpen, CallsInPlace, RoomForRound,
            rowVars, dataVars, localVars, MarkSending, Arms
  <1>4. ASSUME CompletedInvalid(s) PROVE TypeInv'
    <2>1. inv' = [inv EXCEPT ![i] = [inv[i] EXCEPT !.status = "explicit_failure"]]
      BY <1>4 DEF CompletedInvalid, i
    <2>2. inv' \in Seq(InvocationRows) /\ Len(inv') = Len(inv)
      BY <1>1, <1>2, <2>1, RowWrite DEF InvStatuses, FailedStatuses
    <2>3. faults' \in 0..MaxFaults
      BY <1>4, BoundsAssumption DEF CompletedInvalid, Fault, TypeInv, TypeOK, LocalsOK
    <2> QED BY <1>4, <2>2, <2>3
        DEF TypeInv, TypeOK, RowsOK, DataOK, LocalsOK, SlotsOpen, CallsInPlace, RoomForRound,
            rowVars, dataVars, localVars, CompletedInvalid
  <1>5. ASSUME Resubmit(s) PROVE TypeInv'
    <2>1. NewInvocation(inv[i].op, inv[i].scope, s, i, 1)
      BY <1>5 DEF Resubmit, i
    <2>2. /\ inv[i].op \in Ops /\ inv[i].scope \in Scopes
          /\ inv[i].op = "glm_selection" => inv[i].scope \in Batches
      BY <1>1 DEF InvocationRows
    <2>3. /\ inv' \in Seq(InvocationRows) /\ slot' \in [Slots -> [inv : Nat, tries : 0..1]]
          /\ SlotsOpen' /\ \A t \in Slots \ {s} : slot'[t] = slot[t]
      BY <1>1, <2>1, <2>2, NewInvocationType
    <2>4. slot[s].inv # 0
      BY <1>1 DEF i
    <2> QED BY <1>5, <2>3, <2>4
        DEF TypeInv, TypeOK, RowsOK, DataOK, LocalsOK, CallsInPlace, RoomForRound,
            rowVars, dataVars, Resubmit
  <1> QED BY <1>3, <1>4, <1>5

\* The receipt of a remote task, and the end of the collection of both arms.
LEMMA ReceiptType == ASSUME TypeInv, Receipt \/ Collected PROVE TypeInv'
  <1>1. ASSUME Receipt PROVE TypeInv'
    <2> DEFINE i == slot["main"].inv
    <2>1. i \in 1..Len(inv) /\ inv[i] \in InvocationRows
      <3>1. "main" \in Slots /\ Doing("main") # "nothing"
        BY <1>1 DEF Receipt, Answered, Slots
      <3> QED BY <3>1, SlotRow
    <2>2. \A r \in InvocationRows : [r EXCEPT !.remote = TRUE] \in InvocationRows
      BY DEF InvocationRows
    <2>3. inv' = [inv EXCEPT ![i] = [inv[i] EXCEPT !.remote = TRUE]]
      BY <1>1 DEF Receipt
    <2> HIDE DEF i
    <2>4. inv' \in Seq(InvocationRows) /\ Len(inv') = Len(inv)
      BY <2>1, <2>2, <2>3, RowWrite
    <2> QED BY <1>1, <2>4
        DEF TypeInv, TypeOK, RowsOK, DataOK, LocalsOK, SlotsOpen, CallsInPlace, RoomForRound,
            rowVars, dataVars, localVars, Receipt
  <1>2. ASSUME Collected PROVE TypeInv'
    <2>1. pc' \in {"reviewing", "fail"} /\ exc' = exc
      BY <1>2 DEF Collected, Goto, Raise
    <2>2. \A t \in Slots : slot[t].inv = 0
      BY <1>2 DEF Collected, Slots, TypeInv, CallsInPlace, Arms
    <2> QED BY <1>2, <2>1, <2>2, LabelSet
        DEF TypeInv, TypeOK, RowsOK, DataOK, LocalsOK, SlotsOpen, CallsInPlace, RoomForRound,
            rowVars, dataVars, localVars, Collected
  <1> QED BY <1>1, <1>2

\* The steps that end a call: its slot is free again and the others are untouched.
LEMMA FreeSlot ==
    ASSUME TypeInv, NEW s \in Slots, slot' = [slot EXCEPT ![s] = NoSlot], Len(inv') = Len(inv),
           inv' \in Seq(InvocationRows)
    PROVE  /\ slot' \in [Slots -> [inv : Nat, tries : 0..1]] /\ SlotsOpen'
           /\ slot'[s].inv = 0 /\ \A t \in Slots \ {s} : slot'[t] = slot[t]
  BY DEF TypeInv, TypeOK, DataOK, LocalsOK, NoSlot, SlotsOpen

\* A paid answer is committed: artifact, pointers, checkpoint and invocation together.
LEMMA SucceedType == ASSUME TypeInv, NEW s \in Slots, Succeed(s) PROVE TypeInv'
  <1> DEFINE i == slot[s].inv
             key == <<ResultKind(inv[i].op), inv[i].scope>>
             deps == inv[i].inputs \cup IF inv[i].op = "ata"
                                        THEN {Cp(G("timeline_audio"))} ELSE {}
             a == Artifact(key, deps, i, {})
  <1>1. i \in 1..Len(inv) /\ inv[i] \in InvocationRows /\ i \in Nat
    <2>1. Doing(s) # "nothing"
      BY DEF Succeed, Answered
    <2> QED BY <2>1, SlotRow DEF TypeInv, TypeOK, DataOK
  <1>2. TypeOK /\ art \in Seq(ArtifactRows)
    BY DEF TypeInv, TypeOK, DataOK
  <1>3. Publish(a) /\ slot' = [slot EXCEPT ![s] = NoSlot]
    BY DEF Succeed
  <1>4. inv' = [inv EXCEPT ![i] = [inv[i] EXCEPT !.status = "succeeded", !.art = IdIn(art, a)]]
    BY DEF Succeed
  <1> HIDE DEF i
  <1>5. /\ inv[i].op \in Ops /\ inv[i].scope \in Scopes /\ inv[i].inputs \in SUBSET Nat
    BY <1>1 DEF InvocationRows
  <1>6. ResultKind(inv[i].op) \in Kinds
    BY <1>5, KindSet DEF ResultKind, Ops, RemoteOps
  <1>7. deps \in SUBSET Nat
    <2>1. Cp(G("timeline_audio")) \in Nat
      BY <1>2, KindSet, KeysOfKinds, CpType
    <2> QED BY <1>5, <2>1
  <1> HIDE DEF deps
  <1>8. a \in ArtifactRows
    BY <1>1, <1>5, <1>6, <1>7, ArtifactType DEF Bodies
  <1> HIDE DEF a
  <1>9. art' \in Seq(ArtifactRows) /\ ptr' \in Pointers /\ cp' \in Checkpoints
    BY <1>2, <1>3, <1>8, PublishType
  <1>10. inv' \in Seq(InvocationRows) /\ Len(inv') = Len(inv)
    <2>1. IdIn(art, a) \in Nat
      BY <1>2, IdInType
    <2>2. \A r \in InvocationRows : \A n \in Nat :
            [r EXCEPT !.status = "succeeded", !.art = n] \in InvocationRows
      BY DEF InvocationRows, InvStatuses
    <2> QED BY <1>1, <1>4, <2>1, <2>2, RowWrite
  <1>11. /\ slot' \in [Slots -> [inv : Nat, tries : 0..1]] /\ SlotsOpen'
         /\ slot'[s].inv = 0 /\ \A t \in Slots \ {s} : slot'[t] = slot[t]
    BY <1>3, <1>10, FreeSlot
  <1>12. pc \in DOMAIN MainCall \cup {"collect"}
    BY DEF Succeed, Answered
  <1>13. pc \in DOMAIN AfterCall => pc' \in Labels \ {"retry_run"} /\ exc' = exc
    BY CallLabels, LabelSet DEF Succeed, Goto
  <1>14. pc \notin DOMAIN AfterCall => pc' = pc /\ exc' = exc
    BY DEF Succeed
  <1>15. \A t \in Slots : slot'[t].inv # 0 => pc = "collect" /\ t \in Arms /\ pc' = pc
    <2> SUFFICES ASSUME NEW t \in Slots, slot'[t].inv # 0
                 PROVE  pc = "collect" /\ t \in Arms /\ pc' = pc
      OBVIOUS
    <2>1. t # s /\ slot[t].inv # 0 /\ slot[s].inv # 0
      BY <1>1, <1>11 DEF i
    <2>2. t \in Arms \/ s \in Arms
      BY <2>1 DEF Slots
    <2>3. pc = "collect"
      BY <2>1, <2>2, <1>12, CallLabels DEF TypeInv, CallsInPlace, Arms
    <2> QED BY <2>1, <2>3, <1>14, CallLabels DEF TypeInv, CallsInPlace
  <1>16. todo' \subseteq Batches
    BY DEF Succeed, TypeInv, TypeOK, LocalsOK
  <1> QED BY <1>9, <1>10, <1>11, <1>12, <1>13, <1>14, <1>15, <1>16, CallLabels
      DEF TypeInv, TypeOK, RowsOK, DataOK, LocalsOK, CallsInPlace, RoomForRound,
          rowVars, Succeed

\* A call ends without a result: refused, lost, cancelled, or not to be submitted again.
LEMMA CallEndsType ==
    ASSUME TypeInv, NEW s \in Slots,
           \/ CallCancelled(s) \/ ResubmitFails(s)
           \/ \E st \in FailedStatuses : CallFails(s, st)
    PROVE  TypeInv'
  <1> DEFINE i == slot[s].inv
  <1>1. i \in 1..Len(inv) /\ inv[i] \in InvocationRows /\ i # 0
    <2>1. Doing(s) # "nothing"
      BY DEF CallCancelled, ResubmitFails, CallFails, Answered
    <2> QED BY <2>1, SlotRow
  <1> HIDE DEF i
  <1>2. slot' = [slot EXCEPT ![s] = NoSlot]
    BY DEF CallCancelled, ResubmitFails, CallFails, RecordFailure
  <1>3. inv' \in Seq(InvocationRows) /\ Len(inv') = Len(inv)
    <2>1. \/ inv' = inv
          \/ \E st \in FailedStatuses : inv' = [inv EXCEPT ![i] = [inv[i] EXCEPT !.status = st]]
      BY DEF CallCancelled, ResubmitFails, CallFails, RecordFailure, i, FailedStatuses
    <2>2. \A st \in FailedStatuses : [inv[i] EXCEPT !.status = st] \in InvocationRows
      BY <1>1, StatusWrite DEF InvStatuses
    <2>3. CASE inv' = inv
      BY <2>3 DEF TypeInv, TypeOK, DataOK
    <2>4. ASSUME NEW st \in FailedStatuses,
                 inv' = [inv EXCEPT ![i] = [inv[i] EXCEPT !.status = st]]
          PROVE  inv' \in Seq(InvocationRows) /\ Len(inv') = Len(inv)
      BY <1>1, <2>2, <2>4, RowWrite
    <2> QED BY <2>1, <2>3, <2>4
  <1>4. /\ slot' \in [Slots -> [inv : Nat, tries : 0..1]] /\ SlotsOpen'
        /\ slot'[s].inv = 0 /\ \A t \in Slots \ {s} : slot'[t] = slot[t]
    BY <1>2, <1>3, FreeSlot
  <1>5. faults' \in 0..MaxFaults
    BY BoundsAssumption
    DEF CallCancelled, ResubmitFails, CallFails, Fault, TypeInv, TypeOK, LocalsOK
  <1>6. slot[s].inv # 0
    BY <1>1 DEF i
  <1>7. pc = "select" => todo # {}
    BY <1>6, LabelSet DEF TypeInv, CallsInPlace
  <1>8. /\ pc' \in Labels /\ exc' \in {"none", "provider", "cancel", "integrity"}
        /\ todo' \subseteq Batches /\ unsel' \subseteq Batches
        /\ pc' = "fail" \/ (pc' = pc /\ (pc = "select" => s = "main"))
           \/ (pc' = pc /\ s # "main" /\ todo' = todo)
    <2>1. CASE CallCancelled(s)
      BY <2>1, LabelSet DEF CallCancelled, Raise, FirstError, TypeInv, TypeOK, LocalsOK
    <2>2. CASE ResubmitFails(s)
      <3>1. CASE StageError("provider")
        BY <1>6, <1>7, <3>1, StageErrorType DEF TypeInv, CallsInPlace
      <3>2. CASE Raise("cancel") /\ UNCHANGED <<todo, unsel>>
        BY <3>2, LabelSet DEF Raise, TypeInv, TypeOK, LocalsOK
      <3> QED BY <2>2, <3>1, <3>2 DEF ResubmitFails
    <2>3. CASE \E st \in FailedStatuses : CallFails(s, st)
      <3>1. CASE s = "main"
        BY <1>7, <2>3, <3>1, StageErrorType DEF CallFails
      <3>2. CASE s # "main"
        BY <2>3, <3>2 DEF CallFails, FirstError, TypeInv, TypeOK, LocalsOK
      <3> QED BY <3>1, <3>2
    <2> QED BY <2>1, <2>2, <2>3
  <1>9. CallsInPlace'
    <2> SUFFICES ASSUME NEW t \in Slots, slot'[t].inv # 0, pc' # "fail"
                 PROVE  \/ pc' \in {"fail", "failCommit", "snapshot"}
                        \/ t = "main" /\ pc' \in {"upload", "base", "peer", "select", "ata"}
                           /\ (pc' = "select" => todo' # {})
                        \/ t \in Arms /\ pc' \in {"qwen", "kimi", "collect"}
      BY DEF CallsInPlace
    <2>1. t # s /\ slot[t].inv # 0 /\ pc' = pc
      BY <1>4, <1>8
    <2>2. t \in Arms \/ s \in Arms
      BY <2>1 DEF Slots
    <2> QED BY <1>6, <2>1, <2>2 DEF TypeInv, CallsInPlace, Slots, Arms
  <1>10. RoomForRound'
    BY <1>6, <1>8 DEF RoomForRound, TypeInv, CallsInPlace
  <1>11. UNCHANGED <<rowVars, dataVars, prep, retryOf>>
    BY DEF CallCancelled, ResubmitFails, CallFails
  <1> QED BY <1>3, <1>4, <1>5, <1>8, <1>9, <1>10, <1>11
      DEF TypeInv, TypeOK, RowsOK, DataOK, LocalsOK, rowVars, dataVars

\* Every step of a paid call keeps TypeInv.
LEMMA CallStepType == ASSUME TypeInv, CallStep PROVE TypeInv'
  BY AskType, FlightType, ReceiptType, SucceedType, CallEndsType DEF CallStep

-----------------------------------------------------------------------------
(* The theorem.                                                            *)

\* TypeInv holds in every state the writer, its clients and its crashes can reach.
LEMMA TypeInvariant == Spec => []TypeInv
  <1>1. ASSUME TypeInv, Next PROVE TypeInv'
    BY <1>1, EntryStepsType, LocalStageType, CallStepType, ExportStepType, EnterType,
       RequestCancelType, CrashType DEF Next, Writer
  <1>2. TypeInv /\ UNCHANGED vars => TypeInv'
    BY DEF TypeInv, TypeOK, RowsOK, DataOK, LocalsOK, SlotsOpen, CallsInPlace, RoomForRound,
           vars, rowVars, dataVars, localVars
  <1> QED BY <1>1, <1>2, InitType, PTL DEF Spec

\* Every row, pointer and local of the writer keeps its type in every execution.
THEOREM TypeCorrect == Spec => []TypeOK
  <1>1. TypeInv => TypeOK
    BY DEF TypeInv
  <1> QED BY <1>1, TypeInvariant, PTL

-----------------------------------------------------------------------------
(* The contract: where the writer is, and what an observer of the Run sees. *)

\* Where the writer is tells how far the current round is: the link between the program
\* counter of _execute and the status column that the contract is about.
Outside   == {"idle", "intake", "resume", "retry_run", "retry_inv", "review", "intakeBind",
              "intakeCheckpoint", "start", "project", "fail", "failCommit", "snapshot"}
Executing == Labels \ Outside
StatusAt ==
    /\ pc \in Executing => RunStatus = "running"
    /\ pc \in {"start", "intakeBind", "intakeCheckpoint"} => RunStatus # "succeeded"
    /\ pc = "project" => RunStatus = "succeeded"
    /\ pc = "fail" => RunStatus \in {"running", "succeeded", "needs_review"}
    /\ pc = "failCommit" => RunStatus \in {"failed", "cancelled"}
    /\ pc = "snapshot" => RunStatus \in {"succeeded", "needs_review", "failed", "cancelled"}
BoundAt == pc \in Executing \cup {"start", "intakeCheckpoint"} => bound
SuccessKept ==
    \A r \in Rounds : status[r] = "succeeded" => bound /\ result[r].status = "succeeded"
ControlInv == StatusAt /\ BoundAt /\ SuccessKept

\* The labels at which _execute works on the Run.
LEMMA ExecutingSet ==
    Executing = {"media", "refs", "result", "render", "persist",
                 "upload", "base", "peer", "select", "ata",
                 "preparing", "asr", "correction", "reviewing", "aligning", "exporting",
                 "qwen", "kimi", "job", "bindProbe", "bindTimeline", "compare", "bindCompare",
                 "effective", "publishJob", "bindJob", "collect", "plan", "resolve", "gate",
                 "transcript", "activate", "activateResult", "commit"}
  BY LabelSet DEF Executing, Outside

\* The writer's position says everything there is to say before the first command.
LEMMA InitControl == Init => ControlInv
  BY ExecutingSet, BoundsAssumption
  DEF Init, ControlInv, StatusAt, BoundAt, SuccessKept, RunStatus, Rounds

\* A step that works on the Run, or fails, without touching its row.
LEMMA WorkingStep ==
    ASSUME ControlInv, pc \in Executing, pc' \in Executing \cup {"fail"},
           UNCHANGED <<round, status, result, bound>>
    PROVE  ControlInv'
  BY ExecutingSet DEF ControlInv, StatusAt, BoundAt, SuccessKept, RunStatus

\* A step after which nobody works on the Run and its row is the same.
LEMMA RestingStep ==
    ASSUME ControlInv, pc' \in Commands \cup {"idle"},
           UNCHANGED <<round, status, result, bound>>
    PROVE  ControlInv'
  BY ExecutingSet DEF ControlInv, StatusAt, BoundAt, SuccessKept, RunStatus, Commands

\* Every local stage but the first and the review gate leaves the row of the Run alone.
LEMMA LocalStageQuiet ==
    ASSUME TypeInv, LocalStage, ~SetRunning, ~ReviewGate
    PROVE  /\ UNCHANGED <<round, status, result, bound, cancel>>
           /\ pc \in Executing /\ pc' \in Executing \cup {"fail"}
  <1> USE DEF rowVars, Goto, Raise
  <1>1. CASE Progress
    <2>1. /\ pc \in {"preparing", "asr", "correction", "reviewing", "aligning", "exporting"}
          /\ AfterProgress[pc] \in {"job", "base", "qwen", "plan", "ata", "result"}
      BY <1>1 DEF Progress, AfterProgress
    <2> QED BY <1>1, <2>1, ExecutingSet DEF Progress
  <1>2. CASE JobStage \/ MediaReuse \/ MediaPrepare \/ BindMedia \/ Compare \/ BindCompare
    BY <1>2, ExecutingSet
    DEF JobStage, MediaReuse, MediaPrepare, BindMedia, Compare, BindCompare
  <1>3. CASE \/ PrepareReference \/ ReferencesPrepared \/ SameReferences
             \/ Invalidate \/ PublishJob \/ BindJob
    BY <1>3, ExecutingSet
    DEF PrepareReference, ReferencesPrepared, SameReferences, Invalidate, PublishJob, BindJob
  <1>4. CASE PlanStage \/ ResolveStage \/ SaveBatch \/ Finalize \/ SaveTranscript
    BY <1>4, ExecutingSet DEF PlanStage, ResolveStage, SaveBatch, Finalize, SaveTranscript
  <1> QED BY <1>1, <1>2, <1>3, <1>4 DEF LocalStage

\* No step of a paid call touches the row of the Run: success and failure are decided by
\* _execute, never by an answer.
LEMMA CallStepQuiet ==
    ASSUME TypeInv, CallStep
    PROVE  /\ UNCHANGED <<round, status, result, bound, cancel>>
           /\ pc \in Executing /\ pc' \in Executing \cup {"fail"}
  <1> USE DEF rowVars, Goto, Raise
  <1>0. {"upload", "base", "peer", "select", "ata", "qwen", "kimi", "collect"} \subseteq Executing
    BY ExecutingSet
  <1>1. CASE CallReuse \/ CallRefused \/ CallBegin
    <2>1. pc \in {"upload", "base", "peer", "select", "ata"}
      BY <1>1, CallLabels DEF CallReuse, CallRefused, CallBegin, CallPending
    <2>2. pc' \in {"fail", "asr", "peer", "compare", "activate"} \/ pc' = pc
      BY <1>1, <2>1, CallLabels DEF CallReuse, CallRefused, CallBegin, StageError
    <2>3. UNCHANGED rowVars
      BY <1>1 DEF CallReuse, CallRefused, CallBegin
    <2> QED BY <2>1, <2>2, <2>3, ExecutingSet
  <1>2. CASE ArmReuse \/ ArmRefused \/ ArmBegin
    <2>1. pc \in {"qwen", "kimi"} /\ pc' \in {"qwen", "kimi", "collect"}
      BY <1>2, CallLabels DEF ArmReuse, ArmRefused, ArmBegin, Arms
    <2>2. UNCHANGED rowVars
      BY <1>2 DEF ArmReuse, ArmRefused, ArmBegin
    <2> QED BY <1>0, <2>1, <2>2
  <1>3. CASE Receipt \/ Collected
    <2>1. pc \in {"upload", "base", "peer", "select", "ata", "collect"}
      BY <1>3, CallLabels DEF Receipt, Answered, Collected
    <2>2. pc' \in {"fail", "reviewing"} \/ pc' = pc
      BY <1>3 DEF Receipt, Collected
    <2> QED BY <1>3, <2>1, <2>2, ExecutingSet DEF Receipt, Collected
  <1>4. ASSUME NEW s \in Slots,
               \/ MarkSending(s) \/ Succeed(s) \/ CallCancelled(s)
               \/ CompletedInvalid(s) \/ Resubmit(s) \/ ResubmitFails(s)
               \/ \E st \in FailedStatuses : CallFails(s, st)
        PROVE  /\ UNCHANGED rowVars
               /\ pc \in Executing /\ pc' \in Executing \cup {"fail"}
    <2>1. pc \in {"upload", "base", "peer", "select", "ata", "qwen", "kimi", "collect"}
      BY <1>4, CallLabels
      DEF MarkSending, Succeed, CallCancelled, CompletedInvalid, Resubmit, ResubmitFails,
          CallFails, Answered, Active, Arms
    <2>2. \/ pc' \in {"fail", "asr", "peer", "compare", "activate", "kimi", "collect"}
          \/ pc' = pc
      BY <1>4, <2>1, CallLabels
      DEF MarkSending, Succeed, CallCancelled, CompletedInvalid, Resubmit, ResubmitFails,
          CallFails, StageError, Arms
    <2>3. UNCHANGED rowVars
      BY <1>4
      DEF MarkSending, Succeed, CallCancelled, CompletedInvalid, Resubmit, ResubmitFails,
          CallFails
    <2> QED BY <2>1, <2>2, <2>3, ExecutingSet
  <1> QED BY <1>1, <1>2, <1>3, <1>4 DEF CallStep

-----------------------------------------------------------------------------
(* ControlInv is inductive.                                                *)

\* The steps of the entry points.
LEMMA EntryControl == ASSUME TypeInv, ControlInv, EntrySteps PROVE ControlInv'
  <1> USE DEF rowVars, Goto
  <1>1. CASE IntakeJob
    <2>1. RunStatus # "succeeded"
      <3>1. ~bound
        BY <1>1 DEF IntakeJob
      <3>2. round \in Rounds
        BY DEF TypeInv, TypeOK, RowsOK
      <3> QED BY <3>1, <3>2 DEF ControlInv, SuccessKept, RunStatus
    <2> QED BY <1>1, <2>1, ExecutingSet
        DEF IntakeJob, ControlInv, StatusAt, BoundAt, SuccessKept, RunStatus
  <1>2. CASE IntakeBind
    BY <1>2, ExecutingSet
    DEF IntakeBind, ControlInv, StatusAt, BoundAt, SuccessKept, RunStatus
  <1>3. CASE IntakeCheckpoint
    BY <1>3, ExecutingSet
    DEF IntakeCheckpoint, ControlInv, StatusAt, BoundAt, SuccessKept, RunStatus
  <1>4. CASE ResumeRun \/ RetryInvocation \/ ResolveReview
    <2>1. pc' = "start" /\ bound /\ RunStatus # "succeeded" /\ UNCHANGED rowVars
      BY <1>4 DEF ResumeRun, RetryInvocation, ResolveReview
    <2> QED BY <2>1, ExecutingSet DEF ControlInv, StatusAt, BoundAt, SuccessKept, RunStatus
  <1>5. CASE RetryRun
    <2>0. bound'
      <3>1. bound /\ bound' = bound
        BY <1>5 DEF RetryRun
      <3> QED BY <3>1
    <2>1. /\ pc' = "start" /\ round' = round + 1 /\ result' = result
          /\ status' = [status EXCEPT ![round + 1] = "queued"]
      BY <1>5 DEF RetryRun
    <2>2. round + 1 \in Rounds
      BY <1>5, BoundsAssumption DEF RetryRun, TypeInv, RoomForRound, TypeOK, RowsOK, Rounds
    <2>3. RunStatus' = "queued"
      BY <2>1, <2>2 DEF RunStatus, TypeInv, TypeOK, RowsOK
    <2>4. SuccessKept'
      BY <2>0, <2>1, <2>2 DEF ControlInv, SuccessKept, TypeInv, TypeOK, RowsOK
    <2> QED BY <2>0, <2>1, <2>3, <2>4, ExecutingSet DEF ControlInv, StatusAt, BoundAt
  <1>6. CASE Refuse
    BY <1>6, RestingStep DEF Refuse, Release
  <1> QED BY <1>1, <1>2, <1>3, <1>4, <1>5, <1>6 DEF EntrySteps

\* Taking the Run up and parking it for review.
LEMMA StageControl == ASSUME TypeInv, ControlInv, SetRunning \/ ReviewGate PROVE ControlInv'
  <1> USE DEF Goto, Raise, RunStatus, SetStatus, TypeInv, TypeOK, RowsOK
  <1>1. CASE SetRunning
    BY <1>1, ExecutingSet DEF SetRunning, ControlInv, StatusAt, BoundAt, SuccessKept
  <1>2. CASE ReviewGate
    <2>1. pc = "gate" /\ bound /\ UNCHANGED <<round, result, bound>> /\ RunStatus = "running"
      BY <1>2, ExecutingSet DEF ReviewGate, ControlInv, StatusAt, BoundAt
    <2>2. CASE pc' = "transcript" /\ UNCHANGED status
      BY <2>1, <2>2, ExecutingSet, WorkingStep
    <2>3. CASE /\ status' = [status EXCEPT ![round] = "needs_review"]
               /\ pc' \in {"fail", "snapshot"}
      BY <2>1, <2>3, ExecutingSet DEF ControlInv, StatusAt, BoundAt, SuccessKept
    <2> QED BY <1>2, <2>2, <2>3 DEF ReviewGate
  <1> QED BY <1>1, <1>2

\* Export, success and failure.
LEMMA ExportControl == ASSUME TypeInv, ControlInv, ExportStep PROVE ControlInv'
  <1> USE DEF Goto, Raise, RunStatus, SetStatus, rowVars
  <1>1. CASE ActivateInputs \/ SaveAtaResult \/ ActivateResult \/ Render \/ PersistOutputs
    <2>1. /\ pc \in Executing /\ pc' \in Executing \cup {"fail"} /\ UNCHANGED rowVars
      BY <1>1, ExecutingSet
      DEF ActivateInputs, SaveAtaResult, ActivateResult, Render, PersistOutputs
    <2> QED BY <2>1, WorkingStep
  <1>2. CASE CommitSuccess
    <2>1. pc = "commit" /\ bound /\ RunStatus = "running" /\ UNCHANGED <<round, bound>>
      BY <1>2, ExecutingSet DEF CommitSuccess, ControlInv, StatusAt, BoundAt
    <2>2. CASE CommitStops
      BY <1>2, <2>1, <2>2, ExecutingSet, WorkingStep DEF CommitSuccess
    <2>3. CASE ~CommitStops
      <3> DEFINE new == FreshResult("succeeded", ptr[G("srt_render")].id)
      <3>1. new.status = "succeeded"
        BY DEF FreshResult
      <3>2. /\ status' = [status EXCEPT ![round] = "succeeded"]
            /\ result' = [result EXCEPT ![round] = new] /\ pc' = "project"
        BY <1>2, <2>3 DEF CommitSuccess
      <3> HIDE DEF new
      <3>3. SuccessKept'
        BY <2>1, <3>1, <3>2 DEF ControlInv, SuccessKept, TypeInv, TypeOK, RowsOK
      <3>4. RunStatus' = "succeeded"
        BY <2>1, <3>2 DEF TypeInv, TypeOK, RowsOK
      <3> QED BY <2>1, <3>2, <3>3, <3>4, ExecutingSet DEF ControlInv, StatusAt, BoundAt
    <2> QED BY <2>2, <2>3
  <1>3. CASE ProjectResult
    BY <1>3, RestingStep DEF ProjectResult, Release
  <1>4. CASE LocalFailure
    BY <1>4, ExecutingSet
    DEF LocalFailure, LocalSteps, ControlInv, StatusAt, BoundAt, SuccessKept
  <1>5. CASE FailRun
    <2>1. CASE RunStatus \in {"succeeded", "needs_review"}
      BY <1>5, <2>1, ExecutingSet DEF FailRun, ControlInv, StatusAt, BoundAt, SuccessKept
    <2>2. CASE RunStatus \notin {"succeeded", "needs_review"}
      BY <1>5, <2>2, ExecutingSet
      DEF FailRun, ControlInv, StatusAt, BoundAt, SuccessKept, TypeInv, TypeOK, RowsOK
    <2> QED BY <2>1, <2>2
  <1>6. CASE FailCommit
    <2>1. /\ pc' = "snapshot" /\ RunStatus \in {"failed", "cancelled"}
          /\ UNCHANGED <<round, status, bound>>
          /\ result' = [result EXCEPT ![round] = FreshResult(RunStatus, 0)]
      BY <1>6 DEF FailCommit, ControlInv, StatusAt
    <2>2. SuccessKept'
      BY <2>1 DEF ControlInv, SuccessKept, TypeInv, TypeOK, RowsOK
    <2> QED BY <2>1, <2>2, ExecutingSet DEF ControlInv, StatusAt, BoundAt
  <1>7. CASE Snapshot
    <2>1. pc' = "idle" /\ UNCHANGED <<round, status, bound>>
      BY <1>7 DEF Snapshot, Release
    <2>2. SuccessKept'
      BY <1>7, <2>1 DEF Snapshot, ControlInv, SuccessKept, TypeInv, TypeOK, RowsOK
    <2> QED BY <2>1, <2>2, ExecutingSet DEF ControlInv, StatusAt, BoundAt
  <1> QED BY <1>1, <1>2, <1>3, <1>4, <1>5, <1>6, <1>7 DEF ExportStep

\* Every step of the writer, its clients and its crashes keeps ControlInv.
LEMMA ControlStep == ASSUME TypeInv, ControlInv, Next PROVE ControlInv'
  <1>1. CASE EntrySteps
    BY <1>1, EntryControl
  <1>2. CASE LocalStage
    BY <1>2, StageControl, LocalStageQuiet, WorkingStep
  <1>3. CASE CallStep
    BY <1>3, CallStepQuiet, WorkingStep
  <1>4. CASE ExportStep
    BY <1>4, ExportControl
  <1>5. ASSUME NEW c \in Commands, Enter(c) PROVE ControlInv'
    <2>1. /\ pc' \in Commands /\ UNCHANGED <<round, result, bound>>
          /\ status' = status \/ status' = [status EXCEPT ![round] = "interrupted"]
      BY <1>5 DEF Enter, Recover, SetStatus
    <2>2. SuccessKept'
      BY <2>1 DEF ControlInv, SuccessKept, TypeInv, TypeOK, RowsOK
    <2> QED BY <2>1, <2>2, ExecutingSet DEF ControlInv, StatusAt, BoundAt, Commands
  <1>6. CASE RequestCancel
    BY <1>6 DEF RequestCancel, ControlInv, StatusAt, BoundAt, SuccessKept, RunStatus
  <1>7. CASE Crash
    BY <1>7, RestingStep DEF Crash, Release, rowVars
  <1> QED BY <1>1, <1>2, <1>3, <1>4, <1>5, <1>6, <1>7 DEF Next, Writer

\* ControlInv holds in every reachable state.
LEMMA ControlInvariant == Spec => []ControlInv
  <1>1. ControlInv /\ UNCHANGED vars => ControlInv'
    BY DEF ControlInv, StatusAt, BoundAt, SuccessKept, RunStatus, vars, rowVars
  <1> QED BY <1>1, InitControl, ControlStep, TypeInvariant, PTL DEF Spec

-----------------------------------------------------------------------------
(* The refinement.                                                         *)

\* What the contract sees of the published results.
Shown == [r \in Rounds |-> result[r].status]

\* Writing the result of the current round writes what is shown of it.
LEMMA ShownWrite ==
    ASSUME TypeInv, NEW new \in [status : Statuses, srt : Nat],
           result' = [result EXCEPT ![round] = new]
    PROVE  Shown' = [Shown EXCEPT ![round] = new.status]
  BY DEF Shown, TypeInv, TypeOK, RowsOK

\* A step that touches none of the four columns is a stuttering step of the contract.
LEMMA Stutter ==
    ASSUME UNCHANGED <<round, status, cancel, result>>
    PROVE  UNCHANGED Contract!vars
  BY DEF Contract!vars

\* Every step of the engine is a step of the contract or changes nothing it sees.
LEMMA Simulation ==
    ASSUME TypeInv, ControlInv, Next
    PROVE  Contract!Next \/ UNCHANGED Contract!vars
  <1> USE DEF Goto, Raise, RunStatus, SetStatus, rowVars
  <1>1. CASE EntrySteps
    <2>1. CASE RetryRun
      <3>1. round < MaxRounds
        BY <2>1 DEF RetryRun, TypeInv, RoomForRound
      <3>2. Contract!NewRound
        BY <2>1, <3>1 DEF RetryRun, Contract!NewRound
      <3> QED BY <3>2 DEF Contract!Next
    <2>2. CASE ~RetryRun
      <3>1. UNCHANGED <<round, status, cancel, result>>
        BY <1>1, <2>2
        DEF EntrySteps, IntakeJob, IntakeBind, IntakeCheckpoint, ResumeRun, RetryInvocation,
            ResolveReview, Refuse
      <3> QED BY <3>1, Stutter
    <2> QED BY <2>1, <2>2
  <1>2. CASE LocalStage
    <2>1. CASE SetRunning
      <3>1. status[round] # "succeeded"
        BY <2>1 DEF SetRunning, ControlInv, StatusAt
      <3>2. Contract!Begin
        BY <2>1, <3>1 DEF SetRunning, Contract!Begin
      <3> QED BY <3>2 DEF Contract!Next
    <2>2. CASE ReviewGate
      <3>1. status[round] = "running" /\ UNCHANGED <<round, cancel, result>>
        BY <2>2, ExecutingSet DEF ReviewGate, ControlInv, StatusAt
      <3>2. CASE UNCHANGED status
        BY <3>1, <3>2, Stutter
      <3>3. CASE status' = [status EXCEPT ![round] = "needs_review"]
        <4>1. Contract!Stop
          BY <3>1, <3>3 DEF Contract!Stop
        <4> QED BY <4>1 DEF Contract!Next
      <3> QED BY <2>2, <3>2, <3>3 DEF ReviewGate
    <2>3. CASE ~SetRunning /\ ~ReviewGate
      BY <1>2, <2>3, LocalStageQuiet, Stutter
    <2> QED BY <2>1, <2>2, <2>3
  <1>3. CASE CallStep
    BY <1>3, CallStepQuiet, Stutter
  <1>4. CASE ExportStep
    <2>1. CASE CommitSuccess
      <3>1. CASE CommitStops
        BY <2>1, <3>1, Stutter DEF CommitSuccess
      <3>2. CASE ~CommitStops
        <4> DEFINE new == FreshResult("succeeded", ptr[G("srt_render")].id)
        <4>1. new \in [status : Statuses, srt : Nat] /\ new.status = "succeeded"
          <5>1. ptr[G("srt_render")].id \in Nat /\ Len(inv) \in Nat
            BY KindSet, KeysOfKinds DEF TypeInv, TypeOK, DataOK, Pointers
          <5> QED BY <5>1 DEF FreshResult, Statuses, Terminal
        <4>2. /\ status' = [status EXCEPT ![round] = "succeeded"]
              /\ result' = [result EXCEPT ![round] = new] /\ UNCHANGED <<round, cancel>>
              /\ status[round] = "running" /\ ~cancel[round]
          BY <2>1, <3>2, ExecutingSet
          DEF CommitSuccess, CommitStops, Cancelled, ControlInv, StatusAt
        <4> HIDE DEF new
        <4>3. Shown' = [Shown EXCEPT ![round] = "succeeded"]
          BY <4>1, <4>2, ShownWrite
        <4>4. Contract!Succeed
          BY <4>2, <4>3 DEF Contract!Succeed, Shown
        <4> QED BY <4>4 DEF Contract!Next
      <3> QED BY <3>1, <3>2
    <2>2. CASE FailRun
      <3>1. UNCHANGED <<round, cancel, result>>
        BY <2>2 DEF FailRun
      <3>2. CASE UNCHANGED status
        BY <3>1, <3>2, Stutter
      <3>3. CASE ~UNCHANGED status
        <4>1. /\ status[round] = "running"
              /\ \E st \in {"needs_review", "failed", "cancelled", "interrupted"} :
                    status' = [status EXCEPT ![round] = st]
          BY <2>2, <3>3 DEF FailRun, ControlInv, StatusAt
        <4>2. Contract!Stop
          BY <3>1, <4>1 DEF Contract!Stop
        <4> QED BY <4>2 DEF Contract!Next
      <3> QED BY <3>2, <3>3
    <2>3. CASE FailCommit \/ Snapshot
      <3>1. UNCHANGED <<round, status, cancel>>
        BY <2>3 DEF FailCommit, Snapshot
      <3>2. CASE UNCHANGED result
        BY <3>1, <3>2, Stutter
      <3>3. CASE ~UNCHANGED result
        <4> DEFINE new == FreshResult(RunStatus, 0)
        <4>1. new \in [status : Statuses, srt : Nat] /\ new.status = status[round]
          BY DEF FreshResult, TypeInv, TypeOK, RowsOK, DataOK
        <4>2. result' = [result EXCEPT ![round] = new]
          BY <2>3, <3>3 DEF FailCommit, Snapshot
        <4>3. status[round] \in {"needs_review", "failed", "cancelled"}
          <5>1. CASE FailCommit
            BY <5>1 DEF FailCommit, ControlInv, StatusAt
          <5>2. CASE Snapshot
            <6>1. status[round] \in {"succeeded", "needs_review", "failed", "cancelled"}
              BY <5>2 DEF Snapshot, ControlInv, StatusAt
            <6>2. result[round].status # status[round]
              BY <5>2, <3>3 DEF Snapshot
            <6> QED BY <6>1, <6>2 DEF ControlInv, SuccessKept, TypeInv, TypeOK, RowsOK
          <5> QED BY <2>3, <5>1, <5>2
        <4> HIDE DEF new
        <4>4. Shown' = [Shown EXCEPT ![round] = status[round]]
          BY <4>1, <4>2, ShownWrite
        <4>5. Contract!Publish
          BY <3>1, <4>3, <4>4 DEF Contract!Publish, Shown
        <4> QED BY <4>5 DEF Contract!Next
      <3> QED BY <3>2, <3>3
    <2>4. CASE ~CommitSuccess /\ ~FailRun /\ ~FailCommit /\ ~Snapshot
      <3>1. UNCHANGED <<round, status, cancel, result>>
        BY <1>4, <2>4
        DEF ExportStep, ActivateInputs, SaveAtaResult, ActivateResult, Render,
            PersistOutputs, ProjectResult, LocalFailure
      <3> QED BY <3>1, Stutter
    <2> QED BY <2>1, <2>2, <2>3, <2>4
  <1>5. ASSUME NEW c \in Commands, Enter(c) PROVE Contract!Next \/ UNCHANGED Contract!vars
    <2>1. UNCHANGED <<round, cancel, result>>
      BY <1>5 DEF Enter
    <2>2. CASE UNCHANGED status
      BY <2>1, <2>2, Stutter
    <2>3. CASE ~UNCHANGED status
      <3>1. status[round] = "running" /\ status' = [status EXCEPT ![round] = "interrupted"]
        BY <1>5, <2>3 DEF Enter, Recover
      <3>2. Contract!Stop
        BY <2>1, <3>1 DEF Contract!Stop
      <3> QED BY <3>2 DEF Contract!Next
    <2> QED BY <2>2, <2>3
  <1>6. CASE RequestCancel
    <2>1. Contract!Cancel
      BY <1>6 DEF RequestCancel, Contract!Cancel, Terminal, Contract!Terminal
    <2> QED BY <2>1 DEF Contract!Next
  <1>7. CASE Crash
    BY <1>7, Stutter DEF Crash
  <1> QED BY <1>1, <1>2, <1>3, <1>4, <1>5, <1>6, <1>7 DEF Next, Writer

\* The first state of the engine is the first state of the contract.
LEMMA InitSimulation == Init => Contract!Init
  BY DEF Init, Contract!Init, Contract!Rounds, Rounds, NoResult

\* The engine implements the contract of a Run: for every instance, whatever crashes,
\* failures, retries and cancellations occur, status, cancellation flag and published
\* result of the rounds change only as RunContract allows.
THEOREM EngineImplementsContract == Spec => ContractHolds
  <1>1. UNCHANGED vars => UNCHANGED Contract!vars
    BY Stutter DEF vars, rowVars
  <1>2. TypeInv /\ ControlInv /\ [Next]_vars => [Contract!Next]_(Contract!vars)
    BY <1>1, Simulation
  <1> QED BY <1>2, InitSimulation, TypeInvariant, ControlInvariant, PTL
      DEF Spec, ContractHolds, Contract!Spec

\* A step of the contract cannot make a cancelled round succeed.
LEMMA ContractCancel ==
    ASSUME TypeInv, TypeInv', CancelNeverSucceeds, Contract!Next \/ UNCHANGED Contract!vars
    PROVE  CancelNeverSucceeds'
  BY DEF CancelNeverSucceeds, Contract!Next, Contract!vars, Contract!Cancel, Contract!Begin,
         Contract!Stop, Contract!Succeed, Contract!Publish, Contract!NewRound,
         Contract!Terminal, TypeInv, TypeOK, RowsOK

\* A cancellation that request_cancel accepted for a round is final: no interleaving with
\* the last transaction of the pipeline, crash or retry lets that round succeed.
THEOREM CancelSafe == Spec => []CancelNeverSucceeds
  <1>1. Init => CancelNeverSucceeds
    BY DEF Init, CancelNeverSucceeds
  <1>2. TypeInv /\ TypeInv' /\ ControlInv /\ CancelNeverSucceeds /\ [Next]_vars
          => CancelNeverSucceeds'
    <2>1. UNCHANGED vars => UNCHANGED Contract!vars
      BY Stutter DEF vars, rowVars
    <2> QED BY <2>1, Simulation, ContractCancel
  <1> QED BY <1>1, <1>2, TypeInvariant, ControlInvariant, PTL DEF Spec


-----------------------------------------------------------------------------
(* What a step may do to the invocation rows.                              *)

\* What an invocation is asked for never changes after its creation.
Asked(i) == [op |-> inv[i].op, scope |-> inv[i].scope, round |-> inv[i].round,
             retryOf |-> inv[i].retryOf, inputs |-> inv[i].inputs]

\* Rows are only appended; what they ask for stays, and a settled row stays as it is.
RowsStay ==
    /\ Len(inv) <= Len(inv')
    /\ \A i \in DOMAIN inv : Asked(i)' = Asked(i) /\ (~Open(i) => inv'[i] = inv[i])

\* Steps that write no invocation.
LEMMA RowsUnchanged ==
    ASSUME TypeInv, UNCHANGED inv
    PROVE  RowsStay
  BY DEF RowsStay, Asked, TypeInv, TypeOK, DataOK

\* Recovery settles open calls.
LEMMA RecoverRows ==
    ASSUME TypeInv, Recover
    PROVE  RowsStay /\ Len(inv') = Len(inv)
  <1>1. CASE RunStatus = "running"
    <2>1. inv' = [i \in 1..Len(inv) |-> Recovered(i)] /\ Len(inv') = Len(inv)
      BY <1>1, RecoverType DEF Recover, TypeInv, TypeOK, DataOK
    <2>2. ASSUME NEW i \in DOMAIN inv
          PROVE  Asked(i)' = Asked(i) /\ (~Open(i) => inv'[i] = inv[i])
      <3>1. inv[i] \in InvocationRows /\ inv'[i] = Recovered(i)
        BY <2>1 DEF TypeInv, TypeOK, DataOK
      <3> QED BY <3>1 DEF Recovered, Asked, Open, InvocationRows
    <2>3. Len(inv) \in Nat
      BY DEF TypeInv, TypeOK, DataOK
    <2> QED BY <2>1, <2>2, <2>3 DEF RowsStay
  <1>2. CASE RunStatus # "running"
    <2>1. inv' = inv
      BY <1>2 DEF Recover
    <2> QED BY <2>1, RowsUnchanged
  <1> QED BY <1>1, <1>2

\* A new invocation is appended.
LEMMA AppendRows ==
    ASSUME TypeInv, NEW op, NEW scope, NEW s, NEW previous, NEW tries,
           NewInvocation(op, scope, s, previous, tries)
    PROVE  RowsStay /\ Len(inv') = Len(inv) + 1 /\ (\A i \in DOMAIN inv : inv'[i] = inv[i])
           /\ inv'[Len(inv) + 1] = [op |-> op, scope |-> scope, status |-> "created",
                                    round |-> round, retryOf |-> previous,
                                    inputs |-> Inputs(op, scope), remote |-> FALSE, art |-> 0]
  <1> DEFINE row == [op |-> op, scope |-> scope, status |-> "created",
                     round |-> round, retryOf |-> previous,
                     inputs |-> Inputs(op, scope), remote |-> FALSE, art |-> 0]
  <1>1. inv' = Append(inv, row) /\ inv \in Seq(InvocationRows)
    BY DEF NewInvocation, TypeInv, TypeOK, DataOK
  <1> HIDE DEF row
  <1>2. /\ Len(inv') = Len(inv) + 1 /\ (\A i \in DOMAIN inv : inv'[i] = inv[i])
        /\ inv'[Len(inv) + 1] = row /\ Len(inv) \in Nat
    BY <1>1
  <1> QED BY <1>2 DEF row, RowsStay, Asked

\* The answer of a call is written into its open row: status, receipt or result.
LEMMA AnswerRows ==
    ASSUME TypeInv, NEW k \in DOMAIN inv, Open(k), NEW r \in InvocationRows,
           inv' = [inv EXCEPT ![k] = r],
           r.op = inv[k].op, r.scope = inv[k].scope, r.round = inv[k].round,
           r.retryOf = inv[k].retryOf, r.inputs = inv[k].inputs
    PROVE  RowsStay /\ Len(inv') = Len(inv) /\ inv'[k] = r
           /\ \A i \in DOMAIN inv : i # k => inv'[i] = inv[i]
  <1>1. inv \in Seq(InvocationRows)
    BY DEF TypeInv, TypeOK, DataOK
  <1>2. Len(inv') = Len(inv) /\ inv'[k] = r /\ \A i \in DOMAIN inv : i # k => inv'[i] = inv[i]
    BY <1>1
  <1>3. \A i \in DOMAIN inv : Asked(i)' = Asked(i)
    BY <1>2 DEF Asked
  <1> QED BY <1>1, <1>2, <1>3 DEF RowsStay

\* Ids of artifacts are positive: 0 stands for no checkpoint.
LEMMA IdInPositive ==
    ASSUME NEW S, NEW s \in Seq(S), NEW a
    PROVE  IdIn(s, a) \in Nat \ {0}
  <1>1. CASE \E i \in DOMAIN s : s[i] = a
    <2>1. (CHOOSE i \in DOMAIN s : s[i] = a) \in DOMAIN s
      BY <1>1
    <2> QED BY <1>1, <2>1 DEF IdIn
  <1>2. CASE ~\E i \in DOMAIN s : s[i] = a
    BY <1>2 DEF IdIn
  <1> QED BY <1>1, <1>2

\* How the steps of a call in flight change its row.
Answer(k, r) ==
    /\ k \in DOMAIN inv /\ Open(k) /\ r \in InvocationRows
    /\ inv' = [inv EXCEPT ![k] = r]
    /\ r.op = inv[k].op /\ r.scope = inv[k].scope /\ r.round = inv[k].round
    /\ r.retryOf = inv[k].retryOf /\ r.inputs = inv[k].inputs

\* A call in flight that is sent, answered, refused, lost or cancelled.
LEMMA FlightAnswers ==
    ASSUME TypeInv, NEW s \in Slots
    PROVE  /\ MarkSending(s) => Answer(slot[s].inv, [inv[slot[s].inv] EXCEPT !.status = "sending"])
           /\ CompletedInvalid(s) =>
                Answer(slot[s].inv, [inv[slot[s].inv] EXCEPT !.status = "explicit_failure"])
           /\ \A st \in FailedStatuses : CallFails(s, st) =>
                Answer(slot[s].inv, [inv[slot[s].inv] EXCEPT !.status = st])
           /\ CallCancelled(s) =>
                Answer(slot[s].inv, [inv[slot[s].inv] EXCEPT !.status = "delivery_ambiguous"])
           /\ Receipt => Answer(slot["main"].inv, [inv[slot["main"].inv] EXCEPT !.remote = TRUE])
           /\ Succeed(s) => \E id \in Nat \ {0} :
                Answer(slot[s].inv, [inv[slot[s].inv] EXCEPT !.status = "succeeded", !.art = id])
  <1>1. ASSUME NEW t \in Slots, Doing(t) \in {"created", "sending"}, NEW st \in InvStatuses,
               inv' = [inv EXCEPT ![slot[t].inv] = [inv[slot[t].inv] EXCEPT !.status = st]]
        PROVE  Answer(slot[t].inv, [inv[slot[t].inv] EXCEPT !.status = st])
    <2> DEFINE k == slot[t].inv
    <2>1. k \in DOMAIN inv /\ inv[k] \in InvocationRows /\ Open(k)
      BY <1>1, SlotRow DEF TypeInv, TypeOK, DataOK, Doing, Open
    <2>2. inv' = [inv EXCEPT ![k] = [inv[k] EXCEPT !.status = st]]
      BY <1>1
    <2> HIDE DEF k
    <2>3. [inv[k] EXCEPT !.status = st] \in InvocationRows
      BY <2>1, StatusWrite
    <2>4. Answer(k, [inv[k] EXCEPT !.status = st])
      BY <2>1, <2>2, <2>3 DEF Answer, InvocationRows
    <2> QED BY <2>4 DEF k
  <1>2. MarkSending(s) => Answer(slot[s].inv, [inv[slot[s].inv] EXCEPT !.status = "sending"])
    BY <1>1 DEF MarkSending, InvStatuses
  <1>3. CompletedInvalid(s) =>
          Answer(slot[s].inv, [inv[slot[s].inv] EXCEPT !.status = "explicit_failure"])
    BY <1>1 DEF CompletedInvalid, Answered, InvStatuses, FailedStatuses
  <1>4. ASSUME NEW st \in FailedStatuses, CallFails(s, st)
        PROVE  Answer(slot[s].inv, [inv[slot[s].inv] EXCEPT !.status = st])
    BY <1>1, <1>4 DEF CallFails, RecordFailure, Answered, InvStatuses
  <1>5. CallCancelled(s) =>
          Answer(slot[s].inv, [inv[slot[s].inv] EXCEPT !.status = "delivery_ambiguous"])
    BY <1>1 DEF CallCancelled, RecordFailure, Answered, InvStatuses, FailedStatuses
  <1>6. ASSUME Receipt
        PROVE  Answer(slot["main"].inv, [inv[slot["main"].inv] EXCEPT !.remote = TRUE])
    <2> DEFINE k == slot["main"].inv
    <2>1. "main" \in Slots /\ Doing("main") = "sending"
      BY <1>6 DEF Receipt, Answered, Slots
    <2>2. k \in DOMAIN inv /\ inv[k] \in InvocationRows /\ Open(k)
      BY <2>1, SlotRow DEF TypeInv, TypeOK, DataOK, Doing, Open
    <2>3. inv' = [inv EXCEPT ![k] = [inv[k] EXCEPT !.remote = TRUE]]
      BY <1>6 DEF Receipt
    <2> HIDE DEF k
    <2>4. [inv[k] EXCEPT !.remote = TRUE] \in InvocationRows
      BY <2>2 DEF InvocationRows
    <2>5. Answer(k, [inv[k] EXCEPT !.remote = TRUE])
      BY <2>2, <2>3, <2>4 DEF Answer, InvocationRows
    <2> QED BY <2>5 DEF k
  <1>7. ASSUME Succeed(s)
        PROVE  \E id \in Nat \ {0} :
                 Answer(slot[s].inv, [inv[slot[s].inv] EXCEPT !.status = "succeeded", !.art = id])
    <2> DEFINE k == slot[s].inv
    <2>1. Doing(s) = "sending"
      BY <1>7 DEF Succeed, Answered
    <2>2. k \in DOMAIN inv /\ inv[k] \in InvocationRows /\ Open(k)
      BY <2>1, SlotRow DEF TypeInv, TypeOK, DataOK, Doing, Open
    <2>3. PICK a : inv' = [inv EXCEPT ![k] = [inv[k] EXCEPT !.status = "succeeded",
                                                           !.art = IdIn(art, a)]]
      BY <1>7 DEF Succeed
    <2>4. IdIn(art, a) \in Nat \ {0}
      BY IdInPositive DEF TypeInv, TypeOK, DataOK
    <2> HIDE DEF k
    <2>5. PICK id \in Nat \ {0} :
            inv' = [inv EXCEPT ![k] = [inv[k] EXCEPT !.status = "succeeded", !.art = id]]
      BY <2>3, <2>4
    <2>6. [inv[k] EXCEPT !.status = "succeeded", !.art = id] \in InvocationRows
      BY <2>2 DEF InvocationRows, InvStatuses
    <2>7. Answer(k, [inv[k] EXCEPT !.status = "succeeded", !.art = id])
      BY <2>2, <2>5, <2>6 DEF Answer, InvocationRows
    <2> QED BY <2>7 DEF k
  <1> QED BY <1>2, <1>3, <1>4, <1>5, <1>6, <1>7

\* The steps that write no invocation.
LEMMA QuietRows ==
    ASSUME Next, \A c \in Commands : ~Enter(c), ~CallBegin, ~ArmBegin, ~Receipt,
           \A s \in Slots : /\ ~MarkSending(s) /\ ~CompletedInvalid(s) /\ ~Resubmit(s)
                           /\ ~CallCancelled(s) /\ ~Succeed(s)
                           /\ \A st \in FailedStatuses : ~CallFails(s, st)
    PROVE  UNCHANGED inv
  <1>1. CASE EntrySteps
    BY <1>1 DEF EntrySteps, IntakeJob, IntakeBind, IntakeCheckpoint, ResumeRun, RetryRun,
                RetryInvocation, ResolveReview, Refuse
  <1>2. CASE LocalStage
    BY <1>2 DEF LocalStage, SetRunning, Progress, JobStage, MediaReuse, MediaPrepare, BindMedia,
                Compare, BindCompare, PrepareReference, ReferencesPrepared, SameReferences,
                Invalidate, PublishJob, BindJob, PlanStage, ResolveStage, SaveBatch, Finalize,
                ReviewGate, SaveTranscript
  <1>3. CASE CallStep
    BY <1>3 DEF CallStep, CallReuse, CallRefused, ArmReuse, ArmRefused, Collected, ResubmitFails
  <1>4. CASE ExportStep
    BY <1>4 DEF ExportStep, ActivateInputs, SaveAtaResult, ActivateResult, Render, PersistOutputs,
                CommitSuccess, ProjectResult, LocalFailure, FailRun, FailCommit, Snapshot
  <1>5. CASE RequestCancel \/ Crash
    BY <1>5 DEF RequestCancel, Crash
  <1> QED BY <1>1, <1>2, <1>3, <1>4, <1>5 DEF Next, Writer

\* Whatever happens, what was asked stays asked and what is settled stays settled.
LEMMA RowsStayAlways == ASSUME TypeInv, Next PROVE RowsStay
  <1>1. ASSUME NEW k, NEW r, Answer(k, r) PROVE RowsStay
    BY <1>1, AnswerRows DEF Answer
  <1>2. ASSUME NEW c \in Commands, Enter(c) PROVE RowsStay
    BY <1>2, RecoverRows DEF Enter
  <1>3. CASE CallBegin
    BY <1>3, AppendRows DEF CallBegin
  <1>4. CASE ArmBegin
    BY <1>4, AppendRows DEF ArmBegin
  <1>5. CASE Receipt
    <2>1. "main" \in Slots
      BY DEF Slots
    <2> QED BY <1>1, <1>5, <2>1, FlightAnswers
  <1>6. ASSUME NEW s \in Slots, Resubmit(s) PROVE RowsStay
    BY <1>6, AppendRows DEF Resubmit
  <1>7. ASSUME NEW s \in Slots, MarkSending(s) \/ CompletedInvalid(s) \/ CallCancelled(s) \/ Succeed(s)
        PROVE  RowsStay
    BY <1>1, <1>7, FlightAnswers
  <1>8. ASSUME NEW s \in Slots, NEW st \in FailedStatuses, CallFails(s, st) PROVE RowsStay
    BY <1>1, <1>8, FlightAnswers
  <1>9. CASE UNCHANGED inv
    BY <1>9, RowsUnchanged
  <1> QED BY <1>2, <1>3, <1>4, <1>5, <1>6, <1>7, <1>8, <1>9, QuietRows

-----------------------------------------------------------------------------
(* Past rounds.                                                            *)

\* Writing one checkpoint, or several, leaves the rows of earlier rounds alone.
LEMMA BindEarlier ==
    ASSUME TypeInv, NEW r \in 1..round - 1
    PROVE  /\ \A key, id : Bind(key, id) => cp'[r] = cp[r]
           /\ \A ids : BindAll(ids) => cp'[r] = cp[r]
  <1>1. r # 0 /\ r # round /\ r \in 0..MaxRounds /\ cp \in Checkpoints
    BY BoundsAssumption DEF TypeInv, TypeOK, RowsOK, DataOK, Rounds
  <1>2. ASSUME NEW key, NEW id, Bind(key, id) PROVE cp'[r] = cp[r]
    <2>1. RoundOf(key[1]) # r
      BY <1>1 DEF RoundOf
    <2> QED BY <1>1, <1>2, <2>1 DEF Bind, Checkpoints
  <1>3. ASSUME NEW ids, BindAll(ids) PROVE cp'[r] = cp[r]
    BY <1>1, <1>3 DEF BindAll, Checkpoints
  <1> QED BY <1>2, <1>3

\* No step writes a checkpoint of an earlier round.
LEMMA CheckpointsEarlier ==
    ASSUME TypeInv, Next, NEW r \in 1..round - 1
    PROVE  cp'[r] = cp[r]
  <1> USE DEF dataVars
  <1>1. CASE EntrySteps
    <2>1. CASE RetryRun
      <3>1. r # round + 1 /\ r \in 0..MaxRounds /\ cp \in Checkpoints
        BY BoundsAssumption DEF TypeInv, TypeOK, RowsOK, DataOK, Rounds
      <3> QED BY <2>1, <3>1 DEF RetryRun, Checkpoints
    <2>2. CASE IntakeCheckpoint
      BY <2>2, BindEarlier DEF IntakeCheckpoint
    <2>3. CASE ResolveReview
      <3>1. \E ids : BindAll(ids)
        BY <2>3 DEF ResolveReview
      <3> QED BY <3>1, BindEarlier
    <2>4. CASE UNCHANGED cp
      BY <2>4
    <2> QED BY <1>1, <2>1, <2>2, <2>3, <2>4
        DEF EntrySteps, IntakeJob, IntakeBind, ResumeRun, RetryInvocation, Refuse
  <1>2. CASE LocalStage
    <2>1. CASE JobStage \/ BindMedia \/ BindCompare \/ BindJob
      BY <2>1, BindEarlier DEF JobStage, BindMedia, BindCompare, BindJob
    <2>2. CASE Invalidate
      <3>1. r # 0 /\ r # round /\ r \in 0..MaxRounds /\ cp \in Checkpoints
        BY BoundsAssumption DEF TypeInv, TypeOK, RowsOK, DataOK, Rounds
      <3> QED BY <2>2, <3>1 DEF Invalidate, Checkpoints
    <2>3. CASE Finalize
      <3>1. \E ids : BindAll(ids)
        BY <2>3 DEF Finalize
      <3> QED BY <3>1, BindEarlier
    <2>4. CASE PlanStage \/ SaveBatch \/ SaveTranscript
      BY <2>4, BindEarlier DEF PlanStage, SaveBatch, SaveTranscript, Publish
    <2>5. CASE UNCHANGED cp
      BY <2>5
    <2> QED BY <1>2, <2>1, <2>2, <2>3, <2>4, <2>5
        DEF LocalStage, SetRunning, Progress, MediaReuse, MediaPrepare, Compare,
            PrepareReference, ReferencesPrepared, SameReferences, PublishJob, ResolveStage,
            ReviewGate
  <1>3. CASE CallStep
    <2>1. ASSUME NEW s \in Slots, Succeed(s) PROVE cp'[r] = cp[r]
      BY <2>1, BindEarlier DEF Succeed, Publish
    <2>2. CASE UNCHANGED cp
      BY <2>2
    <2> QED BY <1>3, <2>1, <2>2
        DEF CallStep, CallReuse, CallRefused, CallBegin, ArmReuse, ArmRefused, ArmBegin, Receipt,
            Collected, MarkSending, CallCancelled, CompletedInvalid, Resubmit, ResubmitFails,
            CallFails
  <1>4. CASE ExportStep
    <2>1. CASE SaveAtaResult
      BY <2>1, BindEarlier DEF SaveAtaResult, Publish
    <2>2. CASE UNCHANGED cp
      BY <2>2
    <2> QED BY <1>4, <2>1, <2>2
        DEF ExportStep, ActivateInputs, ActivateResult, Render, PersistOutputs, CommitSuccess,
            ProjectResult, LocalFailure, FailRun, FailCommit, Snapshot
  <1>5. CASE RequestCancel \/ Crash
    BY <1>5 DEF RequestCancel, Crash
  <1>6. ASSUME NEW c \in Commands, Enter(c) PROVE cp'[r] = cp[r]
    BY <1>6 DEF Enter
  <1> QED BY <1>1, <1>2, <1>3, <1>4, <1>5, <1>6 DEF Next, Writer

\* The columns of an earlier round are written by nobody.
LEMMA ColumnsEarlier ==
    ASSUME TypeInv, Next, NEW r \in 1..round - 1
    PROVE  /\ status'[r] = status[r] /\ cancel'[r] = cancel[r] /\ result'[r] = result[r]
           /\ prep'[r] = prep[r]
  <1> USE DEF rowVars, SetStatus
  <1>0. r # round /\ r # round + 1 /\ r \in Rounds
    BY BoundsAssumption DEF TypeInv, TypeOK, RowsOK, Rounds
  <1>1. CASE EntrySteps
    BY <1>0, <1>1
    DEF TypeInv, TypeOK, RowsOK, EntrySteps, IntakeJob, IntakeBind, IntakeCheckpoint, ResumeRun,
        RetryRun, RetryInvocation, ResolveReview, Refuse
  <1>2. CASE LocalStage
    <2>1. CASE SetRunning \/ ReviewGate
      BY <1>0, <2>1 DEF TypeInv, TypeOK, RowsOK, SetRunning, ReviewGate
    <2>2. CASE PrepareReference
      <3>1. \E f, v : prep' = [prep EXCEPT ![round][f] = v]
        BY <2>2 DEF PrepareReference, PrepRow
      <3> QED BY <1>0, <2>2, <3>1 DEF TypeInv, TypeOK, DataOK, PrepareReference
    <2>3. CASE UNCHANGED <<status, cancel, result, prep>>
      BY <2>3
    <2> QED BY <1>2, <2>1, <2>2, <2>3
        DEF LocalStage, Progress, JobStage, MediaReuse, MediaPrepare, BindMedia,
            Compare, BindCompare, ReferencesPrepared, SameReferences,
            Invalidate, PublishJob, BindJob, PlanStage, ResolveStage, SaveBatch, Finalize,
            SaveTranscript
  <1>3. CASE CallStep
    BY <1>3
    DEF CallStep, CallReuse, CallRefused, CallBegin, ArmReuse, ArmRefused, ArmBegin, Receipt,
        Collected, MarkSending, CallCancelled, CompletedInvalid, Resubmit, ResubmitFails,
        CallFails, Succeed
  <1>4. CASE ExportStep
    BY <1>0, <1>4
    DEF TypeInv, TypeOK, RowsOK, ExportStep, ActivateInputs, SaveAtaResult, ActivateResult,
        Render, PersistOutputs, CommitSuccess, ProjectResult, LocalFailure, FailRun, FailCommit,
        Snapshot
  <1>5. CASE RequestCancel \/ Crash
    BY <1>0, <1>5 DEF TypeInv, TypeOK, RowsOK, RequestCancel, Crash
  <1>6. ASSUME NEW c \in Commands, Enter(c)
        PROVE  /\ status'[r] = status[r] /\ cancel'[r] = cancel[r] /\ result'[r] = result[r]
               /\ prep'[r] = prep[r]
    BY <1>0, <1>6 DEF TypeInv, TypeOK, RowsOK, Enter, Recover
  <1> QED BY <1>1, <1>2, <1>3, <1>4, <1>5, <1>6 DEF Next, Writer

\* Rounds before the current one are history, and so is every settled invocation.
THEOREM PastIsFrozen == Spec => EarlierRoundsFrozen
  <1> DEFINE Frozen ==
        /\ \A r \in 1..round - 1 :
             /\ status'[r] = status[r] /\ cancel'[r] = cancel[r] /\ result'[r] = result[r]
             /\ cp'[r] = cp[r] /\ prep'[r] = prep[r]
        /\ \A i \in DOMAIN inv : ~Open(i) => inv'[i] = inv[i]
  <1>1. TypeInv /\ Next => Frozen
    BY CheckpointsEarlier, ColumnsEarlier, RowsStayAlways DEF RowsStay
  <1>2. TypeInv /\ [Next]_vars => [Frozen]_vars
    BY <1>1
  <1>3. [][Frozen]_vars => EarlierRoundsFrozen
    BY DEF EarlierRoundsFrozen
  <1> HIDE DEF Frozen
  <1> QED BY <1>2, <1>3, TypeInvariant, PTL DEF Spec

-----------------------------------------------------------------------------
(* The calls of a round.                                                   *)

Ending == {"fail", "failCommit", "snapshot"}

\* Two rows that are attempts at the same logical operation, and the latest of them.
SameCall(i, j) == inv[i].op = inv[j].op /\ inv[i].scope = inv[j].scope
Newest(i)      == \A j \in DOMAIN inv : j > i => ~SameCall(i, j)
CallKeyOf(i)   == <<ResultKind(inv[i].op), inv[i].scope>>

\* The call a slot is for: the main thread's is told by where the writer is.
OpOf(s)    == IF s = "main" THEN MainCall[pc] ELSE ArmOp(s)
ScopeOf(s) == IF s = "main" THEN CallScope ELSE s

\* A call in flight is the latest attempt at its operation, in this round; the inputs it
\* froze are still the current ones and its result is still missing.
InFlight(s) ==
    LET i == slot[s].inv IN
    /\ inv[i].op = OpOf(s) /\ inv[i].scope = ScopeOf(s) /\ inv[i].round = round
    /\ inv[i].status \in {"created", "sending", "explicit_failure"}
    /\ inv[i].inputs = Inputs(OpOf(s), ScopeOf(s))
    /\ Newest(i)
    /\ Cp(CallKeyOf(i)) = 0
    /\ pc = "select" => Cp(<<"selection_batch", Batch>>) # 0
MainInPlace == slot["main"].inv # 0 => pc \in DOMAIN MainCall
CallsKnown  == \A s \in Slots : slot[s].inv # 0 /\ pc \notin Ending => InFlight(s)

\* An open call outside the arms is in the main thread, or its writer has died and left the
\* Run running, which is what recovery looks for.
MainOpen ==
    \A i \in DOMAIN inv :
        Open(i) /\ ResultKind(inv[i].op) # "correction_transcript" =>
            /\ inv[i].round = round /\ RunStatus = "running"
            /\ pc = "idle" \/ slot["main"].inv = i

\* Only the latest attempt of a round may be open or have succeeded.
OlderFailed ==
    \A i, j \in DOMAIN inv :
        i < j /\ SameCall(i, j) /\ inv[i].round = inv[j].round
            => inv[i].status \in FailedStatuses

\* The scope of an arm's call is the arm; no call belongs to a round to come.
OwnScope   == \A i \in DOMAIN inv : \A a \in Arms : inv[i].op = ArmOp(a) => inv[i].scope = a
RoundsPast == \A i \in DOMAIN inv : inv[i].round <= round

CallInv == /\ MainInPlace /\ CallsKnown /\ MainOpen /\ OlderFailed
           /\ OwnScope /\ RoundsPast /\ RetryChains

\* Nothing is in flight before the first command.
LEMMA InitCalls == Init => CallInv
  <1> SUFFICES ASSUME Init PROVE CallInv
    OBVIOUS
  <1>1. DOMAIN inv = {} /\ \A s \in Slots : slot[s].inv = 0
    BY DEF Init, NoSlot
  <1> QED
    BY <1>1 DEF CallInv, MainInPlace, CallsKnown, MainOpen, OlderFailed, OwnScope, RoundsPast,
                RetryChains, Slots

\* The facts about rows alone that no step but those of a call can disturb.
RowInv == OlderFailed /\ OwnScope /\ RoundsPast /\ RetryChains

\* The rows are as good as before when no row is written.
LEMMA QuietCallRows ==
    ASSUME TypeInv, RowInv, UNCHANGED inv, round' \in {round, round + 1}
    PROVE  RowInv'
  <1>1. RoundsPast'
    <2>1. \A i \in DOMAIN inv : inv[i].round \in Nat
      BY DEF TypeInv, TypeOK, DataOK, InvocationRows, Rounds
    <2>2. round \in Nat
      BY DEF TypeInv, TypeOK, RowsOK, Rounds
    <2> QED BY <2>1, <2>2 DEF RowInv, RoundsPast
  <1> QED BY <1>1 DEF RowInv, OlderFailed, OwnScope, RetryChains, SameCall

\* They are as good as before when calls are settled or go on: every row an older attempt
\* stands in is settled already.
LEMMA StableRows ==
    ASSUME TypeInv, RowInv, RowsStay, Len(inv') = Len(inv), inv' \in Seq(InvocationRows),
           UNCHANGED round
    PROVE  RowInv'
  <1>1. DOMAIN inv = 1..Len(inv) /\ DOMAIN inv' = 1..Len(inv)
    BY DEF TypeInv, TypeOK, DataOK
  <1>2. \A i \in DOMAIN inv : /\ inv'[i].op = inv[i].op /\ inv'[i].scope = inv[i].scope
                              /\ inv'[i].round = inv[i].round /\ inv'[i].retryOf = inv[i].retryOf
                              /\ inv'[i].inputs = inv[i].inputs
    BY DEF RowsStay, Asked
  <1>3. \A i \in DOMAIN inv : inv[i].status \in FailedStatuses => inv'[i] = inv[i]
    BY DEF RowsStay, Open, FailedStatuses
  <1>4. OlderFailed'
    BY <1>1, <1>2, <1>3 DEF RowInv, OlderFailed, SameCall
  <1>5. RetryChains'
    BY <1>1, <1>2, <1>3 DEF RowInv, RetryChains
  <1> QED BY <1>1, <1>2, <1>4, <1>5 DEF RowInv, OwnScope, RoundsPast

\* A new attempt at op may follow: the earlier ones of the round have failed, and it
\* continues the latest of them with the same inputs.
Follows(op, scope, previous) ==
    \A i \in DOMAIN inv :
        inv[i].op = op /\ inv[i].scope = scope /\ inv[i].round = round =>
            /\ inv[i].status \in FailedStatuses
            /\ (\A j \in DOMAIN inv : j > i => inv[j].op # op \/ inv[j].scope # scope)
                 => previous = i /\ inv[i].inputs = Inputs(op, scope)

\* A new attempt that may follow keeps the rows in order.
LEMMA AppendCall ==
    ASSUME TypeInv, RowInv, NEW op, NEW scope, NEW s, NEW previous, NEW tries,
           NewInvocation(op, scope, s, previous, tries), UNCHANGED round,
           Follows(op, scope, previous), \A a \in Arms : op = ArmOp(a) => scope = a
    PROVE  RowInv'
  <1> DEFINE n == Len(inv) + 1
  <1>1. /\ DOMAIN inv = 1..Len(inv) /\ Len(inv) \in Nat
        /\ \A i \in DOMAIN inv : inv[i].round \in Nat
    BY DEF TypeInv, TypeOK, DataOK, InvocationRows, Rounds
  <1>2. /\ \A i \in DOMAIN inv : inv'[i] = inv[i]
        /\ inv'[n] = [op |-> op, scope |-> scope, status |-> "created",
                      round |-> round, retryOf |-> previous,
                      inputs |-> Inputs(op, scope), remote |-> FALSE, art |-> 0]
    BY AppendRows
  <1>3. DOMAIN inv' = DOMAIN inv \cup {n} /\ \A i \in DOMAIN inv : i < n
    <2>1. inv' \in Seq(InvocationRows) \/ inv' = Append(inv, inv'[n])
      BY <1>1, <1>2 DEF NewInvocation
    <2>2. Len(inv') = n /\ DOMAIN inv' = 1..n
      BY <1>1, AppendRows DEF NewInvocation, TypeInv, TypeOK, DataOK
    <2> QED BY <1>1, <2>2
  <1>4. /\ inv'[n].op = op /\ inv'[n].scope = scope /\ inv'[n].round = round
        /\ inv'[n].retryOf = previous /\ inv'[n].inputs = Inputs(op, scope)
    BY <1>2
  <1>5. n \in Nat /\ n \notin DOMAIN inv
    BY <1>1
  <1> HIDE DEF n
  <1>6. OlderFailed'
    <2> SUFFICES ASSUME NEW i \in DOMAIN inv', NEW j \in DOMAIN inv', i < j,
                        inv'[i].op = inv'[j].op, inv'[i].scope = inv'[j].scope,
                        inv'[i].round = inv'[j].round
                 PROVE  inv'[i].status \in FailedStatuses
      BY DEF OlderFailed, SameCall
    <2>1. i \in DOMAIN inv
      BY <1>1, <1>3, <1>5
    <2>2. CASE j \in DOMAIN inv
      BY <1>2, <2>1, <2>2 DEF RowInv, OlderFailed, SameCall
    <2>3. CASE j = n
      BY <1>2, <1>4, <2>1, <2>3 DEF Follows
    <2> QED BY <1>3, <2>2, <2>3
  <1>7. RetryChains'
    <2> SUFFICES ASSUME NEW i \in DOMAIN inv', NEW j \in DOMAIN inv', i < j,
                        inv'[i].op = inv'[j].op, inv'[i].scope = inv'[j].scope,
                        inv'[i].round = inv'[j].round,
                        \A m \in i+1..j-1 : inv'[m].op # inv'[i].op
                                             \/ inv'[m].scope # inv'[i].scope
                 PROVE  /\ inv'[j].retryOf = i /\ inv'[j].inputs = inv'[i].inputs
                        /\ inv'[i].status \in FailedStatuses
      BY DEF RetryChains
    <2>1. i \in DOMAIN inv /\ inv'[i] = inv[i]
      BY <1>1, <1>2, <1>3, <1>5
    <2>2. CASE j \in DOMAIN inv
      <3>1. inv'[j] = inv[j] /\ \A m \in i+1..j-1 : m \in DOMAIN inv /\ inv'[m] = inv[m]
        BY <1>1, <1>2, <2>1, <2>2
      <3> QED BY <2>1, <2>2, <3>1 DEF RowInv, RetryChains
    <2>3. CASE j = n
      <3>1. \A m \in DOMAIN inv : m > i => m \in i+1..n-1
        BY <1>1, <1>3, <1>5, <2>1
      <3>2. \A m \in DOMAIN inv : m > i => inv[m].op # op \/ inv[m].scope # scope
        BY <1>2, <1>4, <2>1, <2>3, <3>1
      <3> QED BY <1>4, <2>1, <2>3, <3>2 DEF Follows
    <2> QED BY <1>3, <2>2, <2>3
  <1>8. OwnScope'
    BY <1>2, <1>3, <1>4 DEF RowInv, OwnScope
  <1>9. RoundsPast'
    <2>1. round \in Nat
      BY DEF TypeInv, TypeOK, RowsOK, Rounds
    <2> QED BY <1>2, <1>3, <1>4, <2>1 DEF RowInv, RoundsPast
  <1> QED BY <1>6, <1>7, <1>8, <1>9 DEF RowInv

\* The checks of _retry_identity let an attempt through only if it may follow.
LEMMA GuardsFollow ==
    ASSUME TypeInv, RowInv, NEW op, NEW scope,
           ~Broken(op, scope), ~NeedsExplicitRetry(op, scope), ~ChangedIdentity(op, scope)
    PROVE  Follows(op, scope, Predecessor(op, scope))
  <1> SUFFICES ASSUME NEW i \in DOMAIN inv, inv[i].op = op, inv[i].scope = scope,
                      inv[i].round = round
               PROVE  /\ inv[i].status \in FailedStatuses
                      /\ (\A j \in DOMAIN inv : j > i => inv[j].op # op \/ inv[j].scope # scope)
                           => /\ Predecessor(op, scope) = i
                              /\ inv[i].inputs = Inputs(op, scope)
    BY DEF Follows
  <1> DEFINE T == Attempts(op, scope)
             last == Last(T)
  <1>1. T \in SUBSET (1..Len(inv)) /\ Len(inv) \in Nat /\ i \in T
    BY DEF Attempts, TypeInv, TypeOK, DataOK
  <1>2. last \in T /\ \A j \in T : j <= last
    BY <1>1, LastGreatest
  <1>3. inv[last].status \in FailedStatuses
    BY <1>1 DEF Broken, NeedsExplicitRetry
  <1>4. Predecessor(op, scope) = last
    BY <1>1 DEF Predecessor
  <1>5. last \in DOMAIN inv /\ last \in Nat /\ last # 0 /\ i \in Nat
        /\ inv[last].op = op /\ inv[last].scope = scope /\ inv[last].round = round
    BY <1>1, <1>2 DEF Attempts
  <1>6. inv[last].inputs = Inputs(op, scope)
    BY <1>4, <1>5 DEF ChangedIdentity
  <1>7. i <= last
    BY <1>1, <1>2
  <1> HIDE DEF last
  <1>8. inv[i].status \in FailedStatuses
    BY <1>3, <1>5, <1>7 DEF RowInv, OlderFailed, SameCall
  <1>9. (\A j \in DOMAIN inv : j > i => inv[j].op # op \/ inv[j].scope # scope) => i = last
    BY <1>5, <1>7
  <1> QED BY <1>4, <1>6, <1>8, <1>9

\* So does the automatic retry: it follows the call in flight, whose inputs are current.
LEMMA ResubmitFollows ==
    ASSUME TypeInv, CallInv, NEW s \in Slots, Active, Doing(s) = "explicit_failure"
    PROVE  LET k == slot[s].inv IN Follows(inv[k].op, inv[k].scope, k)
  <1> DEFINE k == slot[s].inv
  <1>1. k \in DOMAIN inv /\ k \in Nat /\ k # 0 /\ inv[k].status = "explicit_failure"
        /\ DOMAIN inv = 1..Len(inv)
    BY SlotRow DEF Doing, TypeInv, TypeOK, DataOK
  <1>2. pc \notin Ending
    BY CallLabels DEF Active, Ending, Arms
  <1>3. InFlight(s)
    BY <1>1, <1>2 DEF CallInv, CallsKnown
  <1>4. /\ inv[k].round = round /\ Newest(k)
        /\ inv[k].inputs = Inputs(inv[k].op, inv[k].scope)
    BY <1>3 DEF InFlight
  <1> HIDE DEF k
  <1>5. \A i \in DOMAIN inv : SameCall(i, k) => i <= k
    BY <1>1, <1>4 DEF Newest, SameCall
  <1>6. \A i \in DOMAIN inv : SameCall(i, k) /\ inv[i].round = round
          => inv[i].status \in FailedStatuses
    <2> SUFFICES ASSUME NEW i \in DOMAIN inv, SameCall(i, k), inv[i].round = round, i # k
                 PROVE  inv[i].status \in FailedStatuses
      BY <1>1 DEF FailedStatuses
    <2>1. i < k
      BY <1>1, <1>5
    <2> QED BY <1>1, <1>4, <2>1 DEF CallInv, OlderFailed
  <1>7. \A i \in DOMAIN inv : SameCall(i, k) /\ (\A j \in DOMAIN inv : j > i => ~SameCall(j, k))
          => i = k
    BY <1>1, <1>5 DEF SameCall
  <1>8. Follows(inv[k].op, inv[k].scope, k)
    BY <1>1, <1>4, <1>6, <1>7 DEF Follows, SameCall
  <1> QED BY <1>8 DEF k

\* Where a call can be in flight.
CallPlaces == {"upload", "base", "peer", "select", "ata", "qwen", "kimi", "collect"}

LEMMA EmptySlots ==
    ASSUME TypeInv, CallInv, pc \notin CallPlaces
    PROVE  slot["main"].inv = 0 /\ (pc \notin Ending => \A s \in Slots : slot[s].inv = 0)
  BY CallLabels DEF TypeInv, CallsInPlace, CallInv, MainInPlace, CallPlaces, Ending, Slots, Arms

\* Where no call is waited for, the main thread has left none open.
LEMMA NoMainOpen ==
    ASSUME TypeInv, CallInv, slot["main"].inv = 0, pc # "idle", NEW i \in DOMAIN inv, Open(i)
    PROVE  ResultKind(inv[i].op) = "correction_transcript"
  BY DEF CallInv, MainOpen, TypeInv, TypeOK, DataOK

\* A step outside the calls: no slot is occupied where the writer may wait for it.
LEMMA FreeStep ==
    ASSUME TypeInv, CallInv, UNCHANGED inv, round' \in {round, round + 1},
           slot["main"].inv = 0, pc # "idle", slot'["main"].inv = 0,
           pc' \notin Ending => \A s \in Slots : slot'[s].inv = 0
    PROVE  CallInv'
  <1>1. RowInv'
    BY QuietCallRows DEF CallInv, RowInv
  <1>2. MainOpen'
    <2>1. \A i \in DOMAIN inv : ~(Open(i) /\ ResultKind(inv[i].op) # "correction_transcript")
      BY NoMainOpen
    <2> QED BY <2>1 DEF MainOpen, Open
  <1>3. CallsKnown'
    BY DEF CallsKnown
  <1> QED BY <1>1, <1>2, <1>3 DEF CallInv, RowInv, MainInPlace

\* Releasing the lock empties the slots.
LEMMA ReleaseSlots == ASSUME Release PROVE \A s \in Slots : slot'[s].inv = 0
  BY DEF Release, NoSlot

\* The steps of the entry points.
LEMMA EntryCalls == ASSUME TypeInv, CallInv, EntrySteps PROVE CallInv'
  <1> USE DEF localVars, rowVars, Goto
  <1>1. pc \notin CallPlaces \cup Ending \cup {"idle"}
    BY DEF EntrySteps, IntakeJob, IntakeBind, IntakeCheckpoint, ResumeRun, RetryRun,
           RetryInvocation, ResolveReview, Refuse, CallPlaces, Ending, Commands
  <1>2. \A s \in Slots : slot[s].inv = 0
    BY <1>1, EmptySlots
  <1>3. "main" \in Slots
    BY DEF Slots
  <1>4. UNCHANGED inv /\ round' \in {round, round + 1}
    BY DEF EntrySteps, IntakeJob, IntakeBind, IntakeCheckpoint, ResumeRun, RetryRun,
           RetryInvocation, ResolveReview, Refuse
  <1>5. UNCHANGED slot \/ Release
    BY DEF EntrySteps, IntakeJob, IntakeBind, IntakeCheckpoint, ResumeRun, RetryRun,
           RetryInvocation, ResolveReview, Refuse
  <1> QED BY <1>1, <1>2, <1>3, <1>4, <1>5, FreeStep, ReleaseSlots

\* The local stages.  In the selection stage a batch is published, and the resolution
\* written, only when no batch is being decided.
LEMMA LocalCalls == ASSUME TypeInv, CallInv, LocalStage PROVE CallInv'
  <1> USE DEF localVars, rowVars, dataVars
  <1>1. CASE SaveBatch \/ Finalize
    <2>1. pc = "select" /\ pc \notin Ending /\ "main" \in Slots
      BY <1>1 DEF SaveBatch, Finalize, Ending, Slots
    <2>2. slot["main"].inv = 0
      BY <1>1, <2>1 DEF SaveBatch, Finalize, CallInv, CallsKnown, InFlight, TypeInv, CallsInPlace, Arms
    <2>3. \A s \in Slots : slot[s].inv = 0
      BY <2>1, <2>2 DEF TypeInv, CallsInPlace, Slots, Arms
    <2>4. UNCHANGED <<inv, round, slot>>
      BY <1>1 DEF SaveBatch, Finalize
    <2> QED BY <2>1, <2>2, <2>3, <2>4, FreeStep
  <1>2. CASE ~SaveBatch /\ ~Finalize
    <2>1. pc \notin CallPlaces \cup Ending \cup {"idle"}
      BY <1>2 DEF LocalStage, SetRunning, Progress, AfterProgress, JobStage, MediaReuse,
                MediaPrepare, BindMedia, Compare, BindCompare, PrepareReference,
                ReferencesPrepared, SameReferences, Invalidate, PublishJob, BindJob, PlanStage,
                ResolveStage, ReviewGate, SaveTranscript, CallPlaces, Ending
    <2>2. \A s \in Slots : slot[s].inv = 0
      BY <2>1, EmptySlots
    <2>3. "main" \in Slots
      BY DEF Slots
    <2>4. UNCHANGED <<inv, round, slot>>
      BY <1>2 DEF LocalStage, SetRunning, Progress, JobStage, MediaReuse,
                MediaPrepare, BindMedia, Compare, BindCompare, PrepareReference,
                ReferencesPrepared, SameReferences, Invalidate, PublishJob, BindJob, PlanStage,
                ResolveStage, ReviewGate, SaveTranscript
    <2> QED BY <2>1, <2>2, <2>3, <2>4, FreeStep
  <1> QED BY <1>1, <1>2

\* Export, success and failure.  A failing writer may still hold the calls of the arms.
LEMMA ExportCalls == ASSUME TypeInv, CallInv, ExportStep PROVE CallInv'
  <1> USE DEF localVars, rowVars, dataVars
  <1>1. pc \notin CallPlaces \cup {"idle"}
    BY DEF ExportStep, ActivateInputs, SaveAtaResult, ActivateResult, Render, PersistOutputs,
           CommitSuccess, ProjectResult, LocalFailure, FailRun, FailCommit, Snapshot, CallPlaces,
           LocalSteps
  <1>2. slot["main"].inv = 0 /\ (pc \notin Ending => \A s \in Slots : slot[s].inv = 0)
    BY <1>1, EmptySlots
  <1>3. UNCHANGED <<inv, round>> /\ (UNCHANGED slot \/ Release)
    BY DEF ExportStep, ActivateInputs, SaveAtaResult, ActivateResult, Render, PersistOutputs,
           CommitSuccess, ProjectResult, LocalFailure, FailRun, FailCommit, Snapshot
  <1>4. pc \in Ending => pc' \in Ending \/ Release
    BY DEF ExportStep, ActivateInputs, SaveAtaResult, ActivateResult, Render, PersistOutputs,
           CommitSuccess, ProjectResult, LocalFailure, FailRun, FailCommit, Snapshot, Ending,
           LocalSteps, Goto
  <1>5. "main" \in Slots
    BY DEF Slots
  <1>6. slot'["main"].inv = 0 /\ (pc' \notin Ending => \A s \in Slots : slot'[s].inv = 0)
    BY <1>2, <1>3, <1>4, <1>5, ReleaseSlots
  <1> QED BY <1>1, <1>2, <1>3, <1>6, FreeStep

\* Taking the lock: recovery finds every call its dead predecessor left open.
LEMMA EnterCalls == ASSUME TypeInv, CallInv, NEW c \in Commands, Enter(c) PROVE CallInv'
  <1>1. /\ Recover /\ UNCHANGED <<round, slot>> /\ pc' \in Commands /\ pc = "idle"
    BY DEF Enter, localVars
  <1>2. \A s \in Slots : slot[s].inv = 0
    BY <1>1, EmptySlots DEF CallPlaces, Ending
  <1>3. "main" \in Slots
    BY DEF Slots
  <1>4. RowInv'
    <2>1. RowsStay /\ Len(inv') = Len(inv) /\ inv' \in Seq(InvocationRows)
      BY <1>1, RecoverRows, RecoverType
    <2> QED BY <1>1, <2>1, StableRows DEF CallInv, RowInv
  <1>5. MainOpen'
    <2>1. CASE RunStatus = "running"
      <3>1. DOMAIN inv' = DOMAIN inv /\ \A i \in DOMAIN inv : inv'[i] = Recovered(i)
        BY <1>1, <2>1 DEF Recover
      <3>2. ASSUME NEW i \in DOMAIN inv PROVE Recovered(i).status \notin {"created", "sending"}
        <4>1. inv[i] \in InvocationRows
          BY DEF TypeInv, TypeOK, DataOK
        <4> QED BY <4>1 DEF Recovered, InvocationRows
      <3> QED BY <3>1, <3>2 DEF MainOpen, Open
    <2>2. CASE RunStatus # "running"
      <3>1. UNCHANGED inv
        BY <1>1, <2>2 DEF Recover
      <3>2. \A i \in DOMAIN inv : ~(Open(i) /\ ResultKind(inv[i].op) # "correction_transcript")
        BY <2>2 DEF CallInv, MainOpen
      <3> QED BY <3>1, <3>2 DEF MainOpen, Open
    <2> QED BY <2>1, <2>2
  <1>6. CallsKnown' /\ MainInPlace'
    BY <1>1, <1>2, <1>3 DEF CallsKnown, MainInPlace
  <1> QED BY <1>4, <1>5, <1>6 DEF CallInv, RowInv

\* The process that cancels, and the death of the writer.
LEMMA OutsideCalls == ASSUME TypeInv, CallInv, RequestCancel \/ Crash PROVE CallInv'
  <1>1. UNCHANGED <<inv, round, status, cp, art, ptr>>
    BY DEF RequestCancel, Crash, rowVars, dataVars
  <1>2. RowInv'
    BY <1>1, QuietCallRows DEF CallInv, RowInv
  <1>3. CASE RequestCancel
    <2>1. UNCHANGED <<slot, pc, todo>>
      BY <1>3 DEF RequestCancel, localVars
    <2>2. \A s \in Slots : InFlight(s) => InFlight(s)'
      BY <1>1, <2>1 DEF InFlight, OpOf, ScopeOf, CallScope, Batch, Inputs, Cp, RoundOf, OriginalJobId,
                        OriginalJob, Newest, SameCall, CallKeyOf
    <2> QED BY <1>1, <1>2, <2>1, <2>2
        DEF CallInv, RowInv, CallsKnown, MainInPlace, MainOpen, Open, RunStatus
  <1>4. CASE Crash
    <2>1. pc' = "idle" /\ \A s \in Slots : slot'[s].inv = 0
      BY <1>4, ReleaseSlots DEF Crash, Release
    <2>2. "main" \in Slots
      BY DEF Slots
    <2>3. MainOpen'
      BY <1>1, <2>1 DEF CallInv, MainOpen, Open, RunStatus
    <2> QED BY <1>2, <2>1, <2>2, <2>3 DEF CallInv, RowInv, CallsKnown, MainInPlace
  <1> QED BY <1>3, <1>4

\* Writing one checkpoint changes what Registry.checkpoint returns for its key only.
LEMMA CpBind ==
    ASSUME TypeInv, NEW key \in Keys, NEW id, Bind(key, id), UNCHANGED round
    PROVE  Cp(key)' = id /\ \A k \in Keys : k # key => Cp(k)' = Cp(k)
  <1>1. cp \in Checkpoints /\ \A k \in Keys : RoundOf(k[1]) \in 0..MaxRounds
    BY BoundsAssumption DEF TypeInv, TypeOK, RowsOK, DataOK, RoundOf, Rounds
  <1>2. \A k \in Keys : RoundOf(k[1])' = RoundOf(k[1])
    BY DEF RoundOf
  <1>3. cp' = [cp EXCEPT ![RoundOf(key[1])] = [cp[RoundOf(key[1])] EXCEPT ![key] = id]]
    BY DEF Bind
  <1>4. \A k \in Keys : cp'[RoundOf(k[1])][k] = IF k = key THEN id ELSE cp[RoundOf(k[1])][k]
    <2> SUFFICES ASSUME NEW k \in Keys
                 PROVE  cp'[RoundOf(k[1])][k] = IF k = key THEN id ELSE cp[RoundOf(k[1])][k]
      OBVIOUS
    <2>1. CASE RoundOf(k[1]) = RoundOf(key[1])
      BY <1>1, <1>3, <2>1 DEF Checkpoints
    <2>2. CASE RoundOf(k[1]) # RoundOf(key[1])
      BY <1>1, <1>3, <2>2 DEF Checkpoints
    <2> QED BY <2>1, <2>2
  <1> QED BY <1>2, <1>4 DEF Cp

\* The inputs of a call depend on the checkpoints and on the frozen job_input.
LEMMA InputsKept ==
    ASSUME UNCHANGED <<cp, art, round>>
    PROVE  /\ \A op, scope : Inputs(op, scope)' = Inputs(op, scope)
           /\ \A k : Cp(k)' = Cp(k)
  BY DEF Inputs, Cp, RoundOf, OriginalJobId, OriginalJob

\* The result of one arm does not touch what the other one asked for.
LEMMA ArmInputsKept ==
    ASSUME TypeInv, NEW a \in Arms, NEW t \in Arms, t # a, NEW id, Bind(ArmKey(t), id),
           UNCHANGED round
    PROVE  Inputs(ArmOp(a), a)' = Inputs(ArmOp(a), a) /\ Cp(ArmKey(a))' = Cp(ArmKey(a))
  <1>1. ArmKey(t) \in Keys /\ ArmKey(a) \in Keys /\ ArmKey(t) # ArmKey(a)
    BY KeysOfKinds DEF ArmKey
  <1>2. Cp(ArmKey(a))' = Cp(ArmKey(a))
    BY <1>1, CpBind
  <1>3. \A kind \in {"base_asr", "peer_asr", "job_input", "asr_comparison"} :
          Cp(G(kind))' = Cp(G(kind))
    <2> TAKE kind \in {"base_asr", "peer_asr", "job_input", "asr_comparison"}
    <2>1. G(kind) \in Keys /\ G(kind) # ArmKey(t)
      BY KeysOfKinds, KindSet DEF G, ArmKey
    <2> QED BY <1>1, <2>1, CpBind
  <1>4. ArmOp(a) \in {"qwen_correction", "kimi_correction"}
    BY DEF ArmOp
  <1>5. \A op \in {"qwen_correction", "kimi_correction"} : Inputs(op, a)' = Inputs(op, a)
    BY <1>3 DEF Inputs
  <1> QED BY <1>2, <1>4, <1>5

\* A call goes on being in flight while its row, its slot and its inputs stay.
LEMMA InFlightKept ==
    ASSUME TypeInv, CallInv, NEW s \in Slots, slot[s].inv # 0, pc \notin Ending,
           slot'[s] = slot[s], UNCHANGED round, RowsStay, inv' \in Seq(InvocationRows),
           inv'[slot[s].inv].status \in {"created", "sending", "explicit_failure"},
           \A j \in DOMAIN inv' : j \notin DOMAIN inv =>
              inv'[j].op # OpOf(s) \/ inv'[j].scope # ScopeOf(s),
           IF s = "main" THEN UNCHANGED <<pc, todo>> ELSE pc' # "select",
           UNCHANGED <<cp, art>> \/ (s \in Arms /\ \E t \in Arms \ {s} : \E id : Bind(ArmKey(t), id))
    PROVE  InFlight(s)'
  <1>1. InFlight(s)
    BY DEF CallInv, CallsKnown
  <1>2. PICK op, scope, k : op = OpOf(s) /\ scope = ScopeOf(s) /\ k = slot[s].inv
    OBVIOUS
  <1>3. OpOf(s)' = op /\ ScopeOf(s)' = scope /\ slot'[s].inv = k
    <2>1. CASE s = "main"
      <3>1. pc' = pc /\ todo' = todo
        BY <2>1
      <3>2. Batch' = Batch
        BY <3>1 DEF Batch
      <3>3. CallScope' = CallScope
        BY <3>1, <3>2 DEF CallScope
      <3>4. OpOf(s)' = OpOf(s) /\ ScopeOf(s)' = ScopeOf(s)
        BY <3>1, <3>3 DEF OpOf, ScopeOf
      <3> QED BY <1>2, <3>4
    <2>2. CASE s # "main"
      <3>1. OpOf(s)' = ArmOp(s) /\ ScopeOf(s)' = s
        BY <2>2 DEF OpOf, ScopeOf
      <3>2. OpOf(s) = ArmOp(s) /\ ScopeOf(s) = s
        BY <2>2 DEF OpOf, ScopeOf
      <3> QED BY <1>2, <3>1, <3>2
    <2> QED BY <2>1, <2>2
  <1>4. k \in DOMAIN inv /\ k \in Nat /\ DOMAIN inv = 1..Len(inv) /\ DOMAIN inv' = 1..Len(inv')
        /\ Len(inv) \in Nat /\ Len(inv') \in Nat
    BY <1>2 DEF TypeInv, TypeOK, DataOK, LocalsOK, SlotsOpen
  <1>5. \A i \in DOMAIN inv : /\ inv'[i].op = inv[i].op /\ inv'[i].scope = inv[i].scope
                              /\ inv'[i].round = inv[i].round /\ inv'[i].inputs = inv[i].inputs
    BY DEF RowsStay, Asked
  <1>6. /\ inv[k].op = op /\ inv[k].scope = scope /\ inv[k].round = round
        /\ inv[k].inputs = Inputs(op, scope)
        /\ \A j \in DOMAIN inv : j > k => inv[j].op # op \/ inv[j].scope # scope
        /\ Cp(<<ResultKind(op), scope>>) = 0
        /\ pc = "select" => Cp(<<"selection_batch", Batch>>) # 0
    BY <1>1, <1>2 DEF InFlight, Newest, SameCall, CallKeyOf
  <1>7. s \in Arms => op = ArmOp(s) /\ scope = s /\ <<ResultKind(op), scope>> = ArmKey(s)
    BY <1>2 DEF OpOf, ScopeOf, Arms, ArmKey, ResultKind, ArmOp
  <1>8. Inputs(op, scope)' = Inputs(op, scope) /\ Cp(<<ResultKind(op), scope>>)' = 0
    <2>1. CASE UNCHANGED <<cp, art>>
      BY <1>6, <2>1, InputsKept
    <2>2. CASE s \in Arms /\ \E t \in Arms \ {s} : \E id : Bind(ArmKey(t), id)
      BY <1>6, <1>7, <2>2, ArmInputsKept
    <2> QED BY <2>1, <2>2
  <1>9. pc' = "select" => Cp(<<"selection_batch", Batch>>)' # 0
    <2> SUFFICES ASSUME pc' = "select" PROVE Cp(<<"selection_batch", Batch>>)' # 0
      OBVIOUS
    <2>1. s = "main" /\ pc = "select" /\ todo' = todo /\ UNCHANGED <<cp, art>>
      BY DEF Arms
    <2>2. PICK b : b = Batch
      OBVIOUS
    <2>3. Batch' = b /\ Cp(<<"selection_batch", b>>)' = Cp(<<"selection_batch", b>>)
      BY <2>1, <2>2, InputsKept DEF Batch
    <2> QED BY <1>6, <2>1, <2>2, <2>3
  <1>10. \A j \in DOMAIN inv' : j > k => inv'[j].op # op \/ inv'[j].scope # scope
    BY <1>2, <1>4, <1>5, <1>6
  <1>11. Newest(k)'
    BY <1>4, <1>5, <1>6, <1>10 DEF Newest, SameCall
  <1> QED BY <1>2, <1>3, <1>4, <1>5, <1>6, <1>8, <1>9, <1>11 DEF InFlight, CallKeyOf


\* Steps that end or refuse a call before a slot is taken, and the collection of the arms.
LEMMA RefusedCalls ==
    ASSUME TypeInv, CallInv, CallReuse \/ CallRefused \/ Collected
    PROVE  CallInv'
  <1>1. /\ pc \in CallPlaces /\ pc \notin {"qwen", "kimi"} /\ slot["main"].inv = 0
        /\ pc = "collect" => \A a \in Arms : slot[a].inv = 0
    <2>1. CASE CallReuse \/ CallRefused
      BY <2>1, CallLabels DEF CallReuse, CallRefused, CallPending, CallPlaces
    <2>2. CASE Collected
      BY <2>2, CallLabels DEF Collected, CallInv, MainInPlace, CallPlaces
    <2> QED BY <2>1, <2>2
  <1>2. \A s \in Slots : slot[s].inv = 0
    BY <1>1 DEF TypeInv, CallsInPlace, Slots, Arms, CallPlaces
  <1>3. UNCHANGED <<inv, round, slot>> /\ pc # "idle" /\ "main" \in Slots
    BY <1>1 DEF CallReuse, CallRefused, Collected, rowVars, localVars, CallPlaces, Slots
  <1> QED BY <1>2, <1>3, FreeStep

\* The calls of two slots at once are those of the two arms.
LEMMA Companions ==
    ASSUME TypeInv, CallInv, NEW s \in Slots, NEW t \in Slots \ {s}, pc \notin Ending,
           slot[s].inv # 0, slot[t].inv # 0
    PROVE  /\ s \in Arms /\ t \in Arms /\ pc \in {"qwen", "kimi", "collect"}
           /\ ArmOp(s) # ArmOp(t)
           /\ inv[slot[s].inv].op = ArmOp(s) /\ inv[slot[t].inv].op = ArmOp(t)
           /\ slot[s].inv # slot[t].inv
  <1>1. s \in Arms /\ t \in Arms /\ pc \in {"qwen", "kimi", "collect"}
    BY DEF TypeInv, CallsInPlace, Ending, Slots, Arms
  <1>2. ArmOp(s) # ArmOp(t)
    BY <1>1 DEF ArmOp, Arms
  <1>3. inv[slot[s].inv].op = ArmOp(s) /\ inv[slot[t].inv].op = ArmOp(t)
    BY <1>1 DEF CallInv, CallsKnown, InFlight, OpOf, Arms
  <1> QED BY <1>1, <1>2, <1>3

\* While one slot is answered, the call of the other one goes on.
LEMMA OthersKept ==
    ASSUME TypeInv, TypeInv', CallInv, NEW s \in Slots, slot[s].inv # 0, pc \notin Ending,
           NEW r, Answer(slot[s].inv, r), UNCHANGED round,
           NEW t \in Slots \ {s}, slot[t].inv # 0, slot'[t] = slot[t],
           pc \in {"qwen", "kimi", "collect"} => pc' # "select",
           UNCHANGED <<cp, art>> \/ \E id : Bind(ArmKey(s), id)
    PROVE  InFlight(t)'
  <1>1. /\ s \in Arms /\ t \in Arms /\ pc' # "select" /\ slot[s].inv # slot[t].inv
    BY Companions
  <1>2. slot[t].inv \in DOMAIN inv /\ InFlight(t)
    BY DEF CallInv, CallsKnown, TypeInv, TypeOK, DataOK, LocalsOK, SlotsOpen
  <1>3. RowsStay /\ Len(inv') = Len(inv) /\ inv'[slot[t].inv] = inv[slot[t].inv]
    BY <1>1, <1>2, AnswerRows DEF Answer
  <1>4. inv' \in Seq(InvocationRows) /\ DOMAIN inv' = DOMAIN inv
    BY <1>3 DEF TypeInv, TypeOK, DataOK
  <1>5. inv'[slot[t].inv].status \in {"created", "sending", "explicit_failure"}
    BY <1>2, <1>3 DEF InFlight
  <1>6. t # "main"
    BY <1>1 DEF Arms
  <1>7. UNCHANGED <<cp, art>> \/ (t \in Arms /\ \E u \in Arms \ {t} : \E id : Bind(ArmKey(u), id))
    BY <1>1
  <1> QED BY <1>1, <1>3, <1>4, <1>5, <1>6, <1>7, InFlightKept

\* Settling calls leaves no new one of the main thread open.
LEMMA MainOpenKept ==
    ASSUME TypeInv, TypeInv', CallInv, RowsStay, Len(inv') = Len(inv), UNCHANGED <<round, status>>,
           pc # "idle",
           slot'["main"].inv = slot["main"].inv
             \/ inv'[slot["main"].inv].status \notin {"created", "sending"}
    PROVE  MainOpen'
  <1> SUFFICES ASSUME NEW i \in DOMAIN inv', Open(i)', ResultKind(inv'[i].op) # "correction_transcript"
               PROVE  inv'[i].round = round' /\ RunStatus' = "running" /\ slot'["main"].inv = i
    BY DEF MainOpen
  <1>1. i \in DOMAIN inv
    BY DEF TypeInv, TypeOK, DataOK
  <1>2. inv'[i].op = inv[i].op /\ inv'[i].round = inv[i].round /\ Open(i)
    BY <1>1 DEF RowsStay, Asked, Open
  <1>3. inv[i].round = round /\ RunStatus = "running" /\ slot["main"].inv = i
    BY <1>1, <1>2 DEF CallInv, MainOpen
  <1>4. inv'[i].status \in {"created", "sending"}
    BY DEF Open
  <1> QED BY <1>2, <1>3, <1>4 DEF RunStatus

\* An answer that leaves the call in its slot: sent, acknowledged, or to be retried.
LEMMA AnswerKeeps ==
    ASSUME TypeInv, TypeInv', CallInv, NEW s \in Slots, slot[s].inv # 0, pc \notin Ending \cup {"idle"},
           NEW r, Answer(slot[s].inv, r), r.status \in {"created", "sending", "explicit_failure"},
           UNCHANGED <<round, status, slot, cp, art, todo>>,
           pc' = pc \/ (pc \in Arms /\ pc' \in {"kimi", "collect"})
    PROVE  CallInv'
  <1>1. RowsStay /\ Len(inv') = Len(inv) /\ inv'[slot[s].inv] = r
    BY AnswerRows DEF Answer
  <1>2. inv' \in Seq(InvocationRows) /\ DOMAIN inv' = DOMAIN inv
    BY <1>1 DEF TypeInv, TypeOK, DataOK
  <1>3. RowInv'
    BY <1>1, <1>2, StableRows DEF CallInv, RowInv
  <1>4. MainOpen'
    BY <1>1, MainOpenKept
  <1>5. slot["main"].inv # 0 => pc' = pc
    BY CallLabels DEF CallInv, MainInPlace, Arms
  <1>6. MainInPlace'
    BY <1>5 DEF CallInv, MainInPlace
  <1>7. s # "main" => pc' # "select"
    BY DEF TypeInv, CallsInPlace, Slots, Arms, Ending
  <1>8. InFlight(s)'
    <2>1. IF s = "main" THEN UNCHANGED <<pc, todo>> ELSE pc' # "select"
      BY <1>5, <1>7
    <2>2. DOMAIN inv' = DOMAIN inv /\ UNCHANGED <<cp, art>> /\ slot'[s] = slot[s]
      BY <1>2
    <2> QED BY <1>1, <1>2, <2>1, <2>2, InFlightKept
  <1>9. \A t \in Slots \ {s} : slot[t].inv # 0 => InFlight(t)'
    <2> SUFFICES ASSUME NEW t \in Slots \ {s}, slot[t].inv # 0 PROVE InFlight(t)'
      OBVIOUS
    <2>1. pc \in {"qwen", "kimi", "collect"} => pc' # "select"
      OBVIOUS
    <2> QED BY <2>1, OthersKept
  <1>10. CallsKnown'
    BY <1>8, <1>9 DEF CallsKnown
  <1> QED BY <1>3, <1>4, <1>6, <1>10 DEF CallInv, RowInv

\* An answer that settles the call and frees its slot.
LEMMA AnswerFrees ==
    ASSUME TypeInv, TypeInv', CallInv, NEW s \in Slots, slot[s].inv # 0, pc \notin Ending \cup {"idle"},
           NEW r, Answer(slot[s].inv, r), r.status \notin {"created", "sending"},
           UNCHANGED <<round, status>>, slot' = [slot EXCEPT ![s] = NoSlot],
           s \in Arms => pc' = pc,
           s \in Arms => UNCHANGED <<cp, art>> \/ \E id : Bind(ArmKey(s), id)
    PROVE  CallInv'
  <1>0. /\ slot'[s].inv = 0 /\ \A t \in Slots \ {s} : slot'[t] = slot[t]
        /\ "main" \in Slots
    BY DEF NoSlot, TypeInv, TypeOK, LocalsOK, Slots
  <1>1. RowsStay /\ Len(inv') = Len(inv) /\ inv'[slot[s].inv] = r
    BY AnswerRows DEF Answer
  <1>2. inv' \in Seq(InvocationRows)
    BY DEF TypeInv, TypeOK, DataOK
  <1>3. RowInv'
    BY <1>1, <1>2, StableRows DEF CallInv, RowInv
  <1>4. MainOpen'
    <2>1. CASE s = "main"
      BY <1>1, <2>1, MainOpenKept
    <2>2. CASE s # "main"
      BY <1>0, <1>1, <2>2, MainOpenKept
    <2> QED BY <2>1, <2>2
  <1>5. ASSUME NEW t \in Slots \ {s}, slot[t].inv # 0
        PROVE  t # "main" /\ InFlight(t)'
    <2>1. s \in Arms /\ t \in Arms /\ pc \in {"qwen", "kimi", "collect"}
      BY <1>5, Companions
    <2>2. pc' = pc /\ (UNCHANGED <<cp, art>> \/ \E id : Bind(ArmKey(s), id)) /\ slot'[t] = slot[t]
      BY <1>0, <2>1
    <2>3. InFlight(t)'
      BY <1>5, <2>1, <2>2, OthersKept
    <2> QED BY <2>1, <2>3 DEF Arms
  <1>6. CallsKnown'
    BY <1>0, <1>5 DEF CallsKnown
  <1>7. MainInPlace'
    BY <1>0, <1>5 DEF MainInPlace
  <1> QED BY <1>3, <1>4, <1>6, <1>7 DEF CallInv, RowInv

\* What is known of an occupied slot whose call can still be answered or repeated.
LEMMA BusySlot ==
    ASSUME TypeInv, NEW s \in Slots, Doing(s) # "nothing", Active
    PROVE  slot[s].inv # 0 /\ pc \notin Ending \cup {"idle"}
           /\ (s \in Arms => pc \in {"qwen", "kimi", "collect"})
           /\ (s = "main" => pc \in DOMAIN MainCall)
  <1>1. slot[s].inv # 0
    BY DEF Doing
  <1>2. pc \in {"upload", "base", "peer", "select", "ata", "qwen", "kimi", "collect"}
    BY CallLabels DEF Active, Arms
  <1> QED BY <1>1, <1>2, CallLabels DEF TypeInv, CallsInPlace, Ending, Arms

\* The call is sent, its task id arrives, or its answer breaks the output contract.
LEMMA WaitingCalls ==
    ASSUME TypeInv, TypeInv', CallInv, NEW s \in Slots,
           MarkSending(s) \/ CompletedInvalid(s) \/ (s = "main" /\ Receipt)
    PROVE  CallInv'
  <1> DEFINE Row(r) == Answer(slot[s].inv, r) /\ r.status \in {"created", "sending", "explicit_failure"}
  <1>1. Active /\ Doing(s) \in {"created", "sending"}
    BY DEF MarkSending, CompletedInvalid, Receipt, Answered, Active
  <1>2. slot[s].inv # 0 /\ pc \notin Ending \cup {"idle"}
    BY <1>1, BusySlot
  <1>3. /\ UNCHANGED <<round, status, slot, cp, art, todo>>
        /\ pc' = pc \/ (pc \in Arms /\ pc' \in {"kimi", "collect"})
    BY CallLabels DEF MarkSending, CompletedInvalid, Receipt, rowVars, dataVars, localVars, Goto, Arms
  <1>4. \E r : Row(r)
    <2> DEFINE k == slot[s].inv
    <2>1. inv[k] \in InvocationRows /\ inv[k].status \in {"created", "sending"}
      BY <1>1, SlotRow DEF Doing
    <2>2. CASE MarkSending(s)
      <3>1. Answer(k, [inv[k] EXCEPT !.status = "sending"])
        BY <2>2, FlightAnswers
      <3>2. [inv[k] EXCEPT !.status = "sending"].status = "sending"
        BY <2>1 DEF InvocationRows
      <3> QED BY <3>1, <3>2
    <2>3. CASE CompletedInvalid(s)
      <3>1. Answer(k, [inv[k] EXCEPT !.status = "explicit_failure"])
        BY <2>3, FlightAnswers
      <3>2. [inv[k] EXCEPT !.status = "explicit_failure"].status = "explicit_failure"
        BY <2>1 DEF InvocationRows
      <3> QED BY <3>1, <3>2
    <2>4. CASE s = "main" /\ Receipt
      <3>1. Answer(k, [inv[k] EXCEPT !.remote = TRUE])
        BY <2>4, FlightAnswers
      <3>2. [inv[k] EXCEPT !.remote = TRUE].status = inv[k].status
        BY <2>1 DEF InvocationRows
      <3> QED BY <2>1, <3>1, <3>2
    <2> QED BY <2>2, <2>3, <2>4
  <1>5. PICK r : Row(r)
    BY <1>4
  <1> QED BY <1>2, <1>3, <1>5, AnswerKeeps

\* The call succeeds, fails or is cancelled: its row is settled and its slot is free.
LEMMA SettledCalls ==
    ASSUME TypeInv, TypeInv', CallInv, NEW s \in Slots,
           Succeed(s) \/ CallCancelled(s) \/ \E st \in FailedStatuses : CallFails(s, st)
    PROVE  CallInv'
  <1> DEFINE k == slot[s].inv
             Row(r) == Answer(k, r) /\ r.status \notin {"created", "sending"}
  <1>1. Active /\ Doing(s) = "sending" /\ pc \notin Arms
    BY CallLabels DEF Succeed, CallCancelled, CallFails, Answered, Active, Arms
  <1>2. k # 0 /\ pc \notin Ending \cup {"idle"} /\ inv[k] \in InvocationRows
        /\ (s \in Arms => pc = "collect")
    BY <1>1, BusySlot, SlotRow DEF Arms
  <1>3. UNCHANGED <<round, status>> /\ slot' = [slot EXCEPT ![s] = NoSlot]
    BY DEF Succeed, CallCancelled, CallFails, RecordFailure, rowVars
  <1>4. s \in Arms => pc' = pc
    <2>1. s \in Arms => s # "main" /\ pc \notin DOMAIN AfterCall
      BY <1>2, CallLabels DEF Arms
    <2> QED BY <2>1 DEF Succeed, CallCancelled, CallFails
  <1>5. s \in Arms => UNCHANGED <<cp, art>> \/ \E id : Bind(ArmKey(s), id)
    <2> SUFFICES ASSUME s \in Arms PROVE UNCHANGED <<cp, art>> \/ \E id : Bind(ArmKey(s), id)
      OBVIOUS
    <2>1. CASE Succeed(s)
      <3>1. inv[k].op = ArmOp(s) /\ inv[k].scope = s
        BY <1>2 DEF CallInv, CallsKnown, InFlight, OpOf, ScopeOf, Arms
      <3>2. <<ResultKind(inv[k].op), inv[k].scope>> = ArmKey(s)
        BY <3>1 DEF ResultKind, ArmOp, ArmKey, Arms
      <3>3. PICK a : Publish(a) /\ KeyOf(a) = <<ResultKind(inv[k].op), inv[k].scope>>
        BY <2>1 DEF Succeed, Artifact, KeyOf
      <3> QED BY <3>2, <3>3 DEF Publish
    <2>2. CASE ~Succeed(s)
      BY <2>2 DEF CallCancelled, CallFails, dataVars
    <2> QED BY <2>1, <2>2
  <1>6. \E r : Row(r)
    <2>1. CASE Succeed(s)
      <3>1. PICK id \in Nat \ {0} : Answer(k, [inv[k] EXCEPT !.status = "succeeded", !.art = id])
        BY <2>1, FlightAnswers
      <3>2. [inv[k] EXCEPT !.status = "succeeded", !.art = id].status = "succeeded"
        BY <1>2 DEF InvocationRows
      <3> QED BY <3>1, <3>2
    <2>2. CASE CallCancelled(s)
      <3>1. Answer(k, [inv[k] EXCEPT !.status = "delivery_ambiguous"])
        BY <2>2, FlightAnswers
      <3>2. [inv[k] EXCEPT !.status = "delivery_ambiguous"].status = "delivery_ambiguous"
        BY <1>2 DEF InvocationRows
      <3> QED BY <3>1, <3>2
    <2>3. ASSUME NEW st \in FailedStatuses, CallFails(s, st) PROVE \E r : Row(r)
      <3>1. Answer(k, [inv[k] EXCEPT !.status = st])
        BY <2>3, FlightAnswers
      <3>2. [inv[k] EXCEPT !.status = st].status = st /\ st \notin {"created", "sending"}
        BY <1>2 DEF InvocationRows, FailedStatuses
      <3> QED BY <3>1, <3>2
    <2> QED BY <2>1, <2>2, <2>3
  <1>7. PICK r : Row(r)
    BY <1>6
  <1> QED BY <1>2, <1>3, <1>4, <1>5, <1>7, AnswerFrees

\* The second submission is refused: the row stays settled, the slot is free.
LEMMA ResubmitFailsCalls ==
    ASSUME TypeInv, TypeInv', CallInv, NEW s \in Slots, ResubmitFails(s)
    PROVE  CallInv'
  <1>1. Active /\ Doing(s) = "explicit_failure"
    BY DEF ResubmitFails
  <1>2. /\ slot[s].inv # 0 /\ pc \notin Ending \cup {"idle"}
        /\ s \in Arms => pc \in {"qwen", "kimi", "collect"}
    BY <1>1, BusySlot
  <1>3. /\ UNCHANGED <<round, status, inv>> /\ "main" \in Slots
        /\ slot'[s].inv = 0 /\ \A t \in Slots \ {s} : slot'[t] = slot[t]
    BY DEF ResubmitFails, rowVars, NoSlot, TypeInv, TypeOK, LocalsOK, Slots
  <1>4. RowInv'
    BY <1>3, QuietCallRows DEF CallInv, RowInv
  <1>5. MainOpen'
    <2>1. RowsStay /\ Len(inv') = Len(inv)
      BY <1>3, RowsUnchanged
    <2>2. slot'["main"].inv = slot["main"].inv
            \/ inv'[slot["main"].inv].status \notin {"created", "sending"}
      BY <1>1, <1>3 DEF Doing
    <2> QED BY <1>2, <1>3, <2>1, <2>2, MainOpenKept
  <1>6. ASSUME NEW t \in Slots, slot'[t].inv # 0
        PROVE  t # "main" /\ pc' \in Ending
    <2>1. t # s /\ slot[t].inv # 0
      BY <1>3, <1>6
    <2>2. s \in Arms /\ t \in Arms /\ pc \in {"qwen", "kimi", "collect"}
      BY <1>2, <2>1, Companions
    <2>3. pc' = "fail"
      BY <2>2 DEF ResubmitFails, StageError, Raise
    <2> QED BY <2>2, <2>3 DEF Ending, Arms
  <1> QED BY <1>3, <1>4, <1>5, <1>6 DEF CallInv, RowInv, CallsKnown, MainInPlace

\* A new call of the main thread is one of a running round, and the only one it waits for.
LEMMA MainOpenAppended ==
    ASSUME TypeInv, CallInv, NEW op, NEW scope, NEW s \in Slots, NEW previous, NEW tries,
           NewInvocation(op, scope, s, previous, tries), UNCHANGED <<round, status>>,
           pc # "idle", RunStatus = "running",
           IF s = "main" THEN Doing("main") \notin {"created", "sending"}
           ELSE ResultKind(op) = "correction_transcript"
    PROVE  MainOpen'
  <1> DEFINE n == Len(inv) + 1
  <1>1. /\ Len(inv') = n /\ inv' = Append(inv, inv'[n]) /\ Len(inv) \in Nat
        /\ \A i \in DOMAIN inv : inv'[i] = inv[i]
        /\ inv'[n].op = op /\ inv'[n].round = round
    BY AppendRows DEF NewInvocation, TypeInv, TypeOK, DataOK
  <1>2. DOMAIN inv' = DOMAIN inv \cup {n}
    BY <1>1 DEF TypeInv, TypeOK, DataOK
  <1>3. slot'[s].inv = n /\ \A t \in Slots \ {s} : slot'[t] = slot[t]
    BY DEF NewInvocation, TypeInv, TypeOK, LocalsOK
  <1> HIDE DEF n
  <1> SUFFICES ASSUME NEW i \in DOMAIN inv', Open(i)', ResultKind(inv'[i].op) # "correction_transcript"
               PROVE  inv'[i].round = round' /\ RunStatus' = "running" /\ slot'["main"].inv = i
    BY DEF MainOpen
  <1>4. RunStatus' = "running" /\ "main" \in Slots
    BY DEF RunStatus, Slots
  <1>5. CASE i \in DOMAIN inv
    <2>1. Open(i) /\ inv'[i] = inv[i]
      BY <1>1, <1>5 DEF Open
    <2>2. inv[i].round = round /\ slot["main"].inv = i
      BY <1>5, <2>1 DEF CallInv, MainOpen
    <2>3. Doing("main") \in {"created", "sending"}
      BY <1>5, <2>1, <2>2 DEF Doing, Open, TypeInv, TypeOK, DataOK
    <2> QED BY <1>3, <1>4, <2>1, <2>2, <2>3
  <1>6. CASE i = n
    BY <1>1, <1>3, <1>4, <1>6
  <1> QED BY <1>2, <1>5, <1>6

\* The call just created is in flight.
LEMMA NewInFlight ==
    ASSUME TypeInv, NEW s \in Slots, NEW op, NEW scope, NEW previous, NEW tries,
           op = OpOf(s), scope = ScopeOf(s), NewInvocation(op, scope, s, previous, tries),
           UNCHANGED <<round, cp, art, todo, pc>>,
           Cp(<<ResultKind(op), scope>>) = 0,
           pc = "select" => Cp(<<"selection_batch", Batch>>) # 0
    PROVE  InFlight(s)'
  <1>0. PICK n : n = Len(inv) + 1
    OBVIOUS
  <1>1. /\ Len(inv') = n /\ inv' = Append(inv, inv'[n]) /\ Len(inv) \in Nat
        /\ inv'[n].op = op /\ inv'[n].scope = scope /\ inv'[n].round = round
        /\ inv'[n].status = "created" /\ inv'[n].inputs = Inputs(op, scope)
    BY <1>0, AppendRows DEF NewInvocation, TypeInv, TypeOK, DataOK
  <1>2. DOMAIN inv' = 1..n
    BY <1>1 DEF TypeInv, TypeOK, DataOK
  <1>3. slot'[s].inv = n
    BY <1>0 DEF NewInvocation, TypeInv, TypeOK, LocalsOK
  <1>4. Batch' = Batch
    BY DEF Batch
  <1>5. CallScope' = CallScope
    BY <1>4 DEF CallScope
  <1>6. OpOf(s)' = OpOf(s) /\ ScopeOf(s)' = ScopeOf(s)
    BY <1>5 DEF OpOf, ScopeOf
  <1>7. OpOf(s)' = op /\ ScopeOf(s)' = scope
    BY <1>6
  <1>8. Inputs(op, scope)' = Inputs(op, scope)
        /\ Cp(<<ResultKind(op), scope>>)' = Cp(<<ResultKind(op), scope>>)
    BY InputsKept
  <1>9. pc' = "select" => Cp(<<"selection_batch", Batch>>)' # 0
    <2> SUFFICES ASSUME pc' = "select" PROVE Cp(<<"selection_batch", Batch>>)' # 0
      OBVIOUS
    <2>1. PICK b : b = Batch
      OBVIOUS
    <2>2. Batch' = b /\ Cp(<<"selection_batch", b>>)' = Cp(<<"selection_batch", b>>)
      BY <1>4, <2>1, InputsKept
    <2> QED BY <2>1, <2>2
  <1>10. Newest(n)'
    BY <1>1, <1>2 DEF Newest
  <1>11. Inputs(OpOf(s), ScopeOf(s))' = Inputs(op, scope)
    BY <1>7, <1>8
  <1>12. Cp(CallKeyOf(n))' = 0
    <2>1. CallKeyOf(n)' = <<ResultKind(op), scope>>
      BY <1>1 DEF CallKeyOf
    <2> QED BY <1>8, <2>1
  <1> QED BY <1>1, <1>3, <1>7, <1>9, <1>10, <1>11, <1>12 DEF InFlight

\* A call that begins while the other arm waits leaves that one in flight.
LEMMA OthersWait ==
    ASSUME TypeInv, TypeInv', CallInv, NEW s \in Arms, pc \in {"qwen", "kimi", "collect"},
           NEW op, NEW scope, NEW previous, NEW tries, op = ArmOp(s),
           NewInvocation(op, scope, s, previous, tries), UNCHANGED <<round, cp, art, pc>>,
           NEW t \in Slots \ {s}, slot[t].inv # 0
    PROVE  InFlight(t)'
  <1>1. pc \notin Ending /\ pc # "select"
    BY DEF Ending
  <1>2. t \in Arms /\ t # "main" /\ ArmOp(t) # ArmOp(s) /\ OpOf(t) = ArmOp(t)
    BY DEF TypeInv, CallsInPlace, Slots, Arms, ArmOp, OpOf
  <1>3. slot[t].inv \in DOMAIN inv /\ InFlight(t) /\ slot'[t] = slot[t]
    BY <1>1 DEF CallInv, CallsKnown, TypeInv, TypeOK, DataOK, LocalsOK, SlotsOpen, NewInvocation
  <1>4. RowsStay /\ inv'[slot[t].inv] = inv[slot[t].inv] /\ Len(inv') = Len(inv) + 1
        /\ inv'[Len(inv) + 1].op = op
    <2>1. RowsStay /\ Len(inv') = Len(inv) + 1 /\ (\A i \in DOMAIN inv : inv'[i] = inv[i])
      BY AppendRows
    <2>2. inv'[Len(inv) + 1].op = op
      BY DEF NewInvocation, TypeInv, TypeOK, DataOK
    <2> QED BY <1>3, <2>1, <2>2
  <1>5. inv' \in Seq(InvocationRows) /\ inv \in Seq(InvocationRows)
    BY DEF TypeInv, TypeOK, DataOK
  <1>6. \A j \in DOMAIN inv' : j \notin DOMAIN inv => j = Len(inv) + 1
    BY <1>4, <1>5
  <1>7. inv'[slot[t].inv].status \in {"created", "sending", "explicit_failure"}
    BY <1>3, <1>4 DEF InFlight
  <1>8. \A j \in DOMAIN inv' : j \notin DOMAIN inv => inv'[j].op # OpOf(t)
    BY <1>2, <1>4, <1>6
  <1> QED BY <1>1, <1>2, <1>3, <1>4, <1>5, <1>7, <1>8, InFlightKept

\* A paid call of the main thread begins.
LEMMA BeginCalls == ASSUME TypeInv, TypeInv', ControlInv, CallInv, CallBegin PROVE CallInv'
  <1>1. PICK op, scope, previous :
          /\ op = MainCall[pc] /\ scope = CallScope
          /\ ~Broken(op, scope) /\ ~NeedsExplicitRetry(op, scope) /\ ~ChangedIdentity(op, scope)
          /\ previous = Predecessor(op, scope) /\ NewInvocation(op, scope, "main", previous, 0)
    BY DEF CallBegin
  <1>2. /\ pc \in DOMAIN MainCall /\ slot["main"].inv = 0 /\ "main" \in Slots
        /\ Cp(<<ResultKind(op), scope>>) = 0
        /\ pc = "select" => Cp(<<"selection_batch", Batch>>) # 0
        /\ UNCHANGED <<round, status, cp, art, todo, pc>>
    BY <1>1 DEF CallBegin, CallPending, CallKey, rowVars, dataVars, Slots
  <1>3. pc \in {"upload", "base", "peer", "select", "ata"}
    BY <1>2, CallLabels
  <1>4. \A s \in Slots : slot[s].inv = 0
    BY <1>2, <1>3 DEF TypeInv, CallsInPlace, Slots, Arms
  <1>5. op \notin {"qwen_correction", "kimi_correction"}
    BY <1>1, <1>3 DEF MainCall
  <1>6. RowInv'
    <2>1. Follows(op, scope, previous)
      BY <1>1, GuardsFollow DEF CallInv, RowInv
    <2>2. \A a \in Arms : op # ArmOp(a)
      BY <1>5 DEF ArmOp
    <2> QED BY <1>1, <1>2, <2>1, <2>2, AppendCall DEF CallInv, RowInv
  <1>7. RunStatus = "running" /\ pc # "idle"
    BY <1>3, ExecutingSet DEF ControlInv, StatusAt
  <1>8. MainOpen'
    <2>1. Doing("main") \notin {"created", "sending"}
      BY <1>2 DEF Doing
    <2> QED BY <1>1, <1>2, <1>7, <2>1, MainOpenAppended
  <1>9. InFlight("main")'
    <2>1. op = OpOf("main") /\ scope = ScopeOf("main")
      BY <1>1 DEF OpOf, ScopeOf
    <2> QED BY <1>1, <1>2, <2>1, NewInFlight
  <1>10. \A t \in Slots \ {"main"} : slot'[t].inv = 0
    BY <1>1, <1>4 DEF NewInvocation, TypeInv, TypeOK, LocalsOK
  <1> QED BY <1>2, <1>6, <1>8, <1>9, <1>10 DEF CallInv, RowInv, CallsKnown, MainInPlace

\* An arm is skipped or refused: the other one goes on.
LEMMA ArmSkippedCalls ==
    ASSUME TypeInv, TypeInv', CallInv, ArmReuse \/ ArmRefused
    PROVE  CallInv'
  <1>1. /\ pc \in Arms /\ slot[pc].inv = 0
        /\ UNCHANGED <<inv, round, status, cp, art, slot, todo>>
        /\ pc' \in {"kimi", "collect"}
    BY CallLabels DEF ArmReuse, ArmRefused, rowVars, dataVars, localVars, Goto, Arms
  <1>2. slot["main"].inv = 0 /\ pc \notin Ending \cup {"idle"}
    BY <1>1, CallLabels DEF CallInv, MainInPlace, Arms, Ending
  <1>3. RowsStay /\ inv' \in Seq(InvocationRows)
    BY <1>1, RowsUnchanged DEF TypeInv, TypeOK, DataOK
  <1>4. RowInv'
    BY <1>1, QuietCallRows DEF CallInv, RowInv
  <1>5. MainOpen'
    BY <1>1, <1>2, <1>3, MainOpenKept
  <1>6. ASSUME NEW t \in Slots, slot[t].inv # 0 PROVE InFlight(t)'
    <2>1. t # "main" /\ InFlight(t) /\ slot'[t] = slot[t] /\ pc' # "select"
      BY <1>1, <1>2, <1>6 DEF CallInv, CallsKnown
    <2>2. inv'[slot[t].inv].status \in {"created", "sending", "explicit_failure"}
      BY <1>1, <2>1 DEF InFlight
    <2> QED BY <1>1, <1>2, <1>3, <1>6, <2>1, <2>2, InFlightKept
  <1> QED BY <1>1, <1>2, <1>4, <1>5, <1>6 DEF CallInv, RowInv, CallsKnown, MainInPlace

\* An arm is submitted.
LEMMA ArmBeginCalls == ASSUME TypeInv, TypeInv', ControlInv, CallInv, ArmBegin PROVE CallInv'
  <1>1. PICK op, s, previous :
          /\ op = ArmOp(s) /\ s = pc
          /\ ~Broken(op, s) /\ ~NeedsExplicitRetry(op, s) /\ ~ChangedIdentity(op, s)
          /\ previous = Predecessor(op, s) /\ NewInvocation(op, s, s, previous, 0)
    BY DEF ArmBegin
  <1>2. /\ s \in Arms /\ slot[s].inv = 0 /\ s \in Slots /\ "main" \in Slots /\ s # "main"
        /\ Cp(ArmKey(s)) = 0
        /\ UNCHANGED <<round, status, cp, art, todo, pc>>
    BY <1>1 DEF ArmBegin, rowVars, dataVars, Slots, Arms
  <1>3. pc \in {"qwen", "kimi"} /\ slot["main"].inv = 0
    BY <1>1, <1>2, CallLabels DEF CallInv, MainInPlace, Arms
  <1>4. ResultKind(op) = "correction_transcript" /\ ArmKey(s) = <<ResultKind(op), s>>
        /\ \A a \in Arms : op = ArmOp(a) => s = a
    BY <1>1, <1>2 DEF ResultKind, ArmOp, ArmKey, Arms
  <1>5. RowInv'
    <2>1. Follows(op, s, previous)
      BY <1>1, GuardsFollow DEF CallInv, RowInv
    <2> QED BY <1>1, <1>2, <1>4, <2>1, AppendCall DEF CallInv, RowInv
  <1>6. RunStatus = "running" /\ pc # "idle"
    BY <1>3, ExecutingSet DEF ControlInv, StatusAt
  <1>7. MainOpen'
    BY <1>1, <1>2, <1>4, <1>6, MainOpenAppended
  <1>8. InFlight(s)'
    <2>1. op = OpOf(s) /\ s = ScopeOf(s)
      BY <1>1, <1>2 DEF OpOf, ScopeOf
    <2>2. pc # "select"
      BY <1>3
    <2> QED BY <1>1, <1>2, <1>4, <2>1, <2>2, NewInFlight
  <1>9. \A t \in Slots \ {s} : slot'[t] = slot[t]
    BY <1>1 DEF NewInvocation, TypeInv, TypeOK, LocalsOK
  <1>10. \A t \in Slots \ {s} : slot[t].inv # 0 => InFlight(t)'
    BY <1>1, <1>2, <1>3, OthersWait
  <1>11. CallsKnown'
    BY <1>8, <1>9, <1>10 DEF CallsKnown
  <1>12. MainInPlace'
    BY <1>2, <1>3, <1>9 DEF MainInPlace
  <1> QED BY <1>5, <1>7, <1>11, <1>12 DEF CallInv, RowInv

\* The automatic second submission of a call whose response broke its contract.
LEMMA ResubmitCalls ==
    ASSUME TypeInv, TypeInv', ControlInv, CallInv, NEW s \in Slots, Resubmit(s)
    PROVE  CallInv'
  <1>1. /\ Active /\ Doing(s) = "explicit_failure"
        /\ UNCHANGED <<round, status, cp, art, todo, pc>>
    BY DEF Resubmit, rowVars, dataVars
  <1>2. /\ slot[s].inv # 0 /\ pc \notin Ending \cup {"idle"}
        /\ s \in Arms => pc \in {"qwen", "kimi", "collect"}
        /\ s = "main" => pc \in DOMAIN MainCall
    BY <1>1, BusySlot
  <1>3. PICK op, scope, k : /\ k = slot[s].inv /\ op = inv[k].op /\ scope = inv[k].scope
                           /\ NewInvocation(op, scope, s, k, 1)
    BY DEF Resubmit
  <1>4. k \in DOMAIN inv
    BY <1>1, <1>3, SlotRow DEF TypeInv, TypeOK, DataOK
  <1>5. /\ op = OpOf(s) /\ scope = ScopeOf(s) /\ Cp(<<ResultKind(op), scope>>) = 0
        /\ pc = "select" => Cp(<<"selection_batch", Batch>>) # 0
    BY <1>2, <1>3 DEF CallInv, CallsKnown, InFlight, CallKeyOf
  <1>6. RowInv'
    <2>1. Follows(op, scope, k)
      BY <1>1, <1>3, ResubmitFollows
    <2>2. \A a \in Arms : op = ArmOp(a) => scope = a
      BY <1>3, <1>4 DEF CallInv, OwnScope
    <2> QED BY <1>1, <1>3, <2>1, <2>2, AppendCall DEF CallInv, RowInv
  <1>7. RunStatus = "running"
    <2>1. pc \in Executing
      BY <1>1, CallLabels, ExecutingSet DEF Active, Arms
    <2> QED BY <2>1 DEF ControlInv, StatusAt
  <1>8. s # "main" => s \in Arms /\ op = ArmOp(s)
    BY <1>5 DEF Slots, OpOf
  <1>9. MainOpen'
    <2>1. IF s = "main" THEN Doing("main") \notin {"created", "sending"}
          ELSE ResultKind(op) = "correction_transcript"
      BY <1>1, <1>8 DEF ResultKind, ArmOp
    <2> QED BY <1>1, <1>2, <1>3, <1>7, <2>1, MainOpenAppended
  <1>10. InFlight(s)'
    BY <1>1, <1>3, <1>5, NewInFlight
  <1>11. \A t \in Slots \ {s} : slot'[t] = slot[t]
    BY <1>3 DEF NewInvocation, TypeInv, TypeOK, LocalsOK
  <1>12. ASSUME NEW t \in Slots \ {s}, slot[t].inv # 0 PROVE InFlight(t)'
    <2>1. s \in Arms /\ pc \in {"qwen", "kimi", "collect"} /\ s # "main"
      BY <1>2, <1>12, Companions DEF Arms
    <2>2. op = ArmOp(s) /\ UNCHANGED <<round, cp, art, pc>>
      BY <1>1, <1>8, <2>1
    <2> QED BY <1>3, <1>12, <2>1, <2>2, OthersWait
  <1>13. CallsKnown'
    BY <1>10, <1>11, <1>12 DEF CallsKnown
  <1>14. MainInPlace'
    BY <1>1, <1>2, <1>11 DEF CallInv, MainInPlace, Slots
  <1> QED BY <1>6, <1>9, <1>13, <1>14 DEF CallInv, RowInv

\* No step loses track of a call.
LEMMA CallsStep == ASSUME TypeInv, TypeInv', ControlInv, CallInv, Next PROVE CallInv'
  <1>1. CASE CallStep
    <2>1. "main" \in Slots
      BY DEF Slots
    <2> QED BY <1>1, <2>1, RefusedCalls, BeginCalls, ArmSkippedCalls, ArmBeginCalls, WaitingCalls,
               SettledCalls, ResubmitCalls, ResubmitFailsCalls DEF CallStep
  <1> QED BY <1>1, EntryCalls, LocalCalls, ExportCalls, EnterCalls, OutsideCalls DEF Next, Writer

LEMMA CallInvariant == Spec => []CallInv
  <1>1. CallInv /\ UNCHANGED vars => CallInv'
    <2> SUFFICES ASSUME CallInv, UNCHANGED vars PROVE CallInv'
      OBVIOUS
    <2>1. UNCHANGED <<round, status, cancel, result, bound, inv, art, cp, ptr, prep, pc, exc,
                      retryOf, slot, todo, unsel, faults>>
      BY DEF vars, rowVars, dataVars, localVars
    <2>2. \A s \in Slots : InFlight(s) => InFlight(s)'
      BY <2>1 DEF InFlight, OpOf, ScopeOf, CallScope, Batch, Inputs, Cp, RoundOf, OriginalJobId,
                  OriginalJob, Newest, SameCall, CallKeyOf
    <2> QED BY <2>1, <2>2
        DEF CallInv, CallsKnown, MainInPlace, MainOpen, Open, RunStatus, OlderFailed, SameCall,
            OwnScope, RoundsPast, RetryChains
  <1>2. TypeInv /\ TypeInv' /\ ControlInv /\ CallInv /\ [Next]_vars => CallInv'
    BY <1>1, CallsStep
  <1> QED BY <1>2, InitCalls, TypeInvariant, ControlInvariant, PTL DEF Spec

\* Outside the correction arms a call is settled before its writer lets go: an open
\* invocation belongs to a round that recovery will still find running.
THEOREM CallsAreSettled == Spec => []CallsSettled
  <1>1. CallInv => CallsSettled
    BY DEF CallInv, MainOpen, CallsSettled, RunStatus
  <1> QED BY <1>1, CallInvariant, PTL

\* Within a round a second attempt continues the failed one before it, with the same inputs.
THEOREM AttemptsChain == Spec => []RetryChains
  <1>1. CallInv => RetryChains
    BY DEF CallInv
  <1> QED BY <1>1, CallInvariant, PTL

=============================================================================
