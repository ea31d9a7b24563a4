--------------------------- MODULE RunRoundProofs ---------------------------
(***************************************************************************)
(* The checkpoints of one round fit together, the current pointers offer   *)
(* nothing built from something superseded, the integrity checks of the    *)
(* engine find nothing, and a reviewer's decisions are applied to what     *)
(* they are about, for any batches, References, rounds and faults.         *)
(***************************************************************************)
EXTENDS RunArtifactProofs

-----------------------------------------------------------------------------
(* The stages below a stage, and what a retry drops.                       *)

\* A path of the dependency graph, short enough for the doubled table.
Path(c) ==
    /\ c \in Seq(Kinds) /\ Len(c) <= 17
    /\ \A i \in 1..Len(c) - 1 : c[i + 1] \in Downstream(c[i])

\* What is within reach of a table along a path is within double reach of the doubled one.
Reaches(t, c, d) == \A i, j \in 1..Len(c) : i < j /\ j <= i + d => c[j] \in t[c[i]]

LEMMA ReachesTwice ==
    ASSUME NEW c \in Seq(Kinds), NEW t, NEW d \in Nat, Reaches(t, c, d)
    PROVE  Reaches(Twice(t), c, 2 * d)
  <1> SUFFICES ASSUME NEW i \in 1..Len(c), NEW j \in 1..Len(c), i < j, j <= i + 2 * d
               PROVE  c[j] \in Twice(t)[c[i]]
    BY DEF Reaches
  <1>1. c[i] \in Kinds
    OBVIOUS
  <1>2. Twice(t)[c[i]] = t[c[i]] \cup UNION {t[x] : x \in t[c[i]]}
    BY <1>1, TwiceJoins
  <1>3. CASE j <= i + d
    BY <1>2, <1>3 DEF Reaches
  <1>4. CASE j > i + d
    <2>1. i + d \in 1..Len(c) /\ i < i + d /\ i + d < j /\ j <= (i + d) + d
      BY <1>4
    <2>2. c[i + d] \in t[c[i]] /\ c[j] \in t[c[i + d]]
      BY <2>1 DEF Reaches
    <2> QED BY <1>2, <2>2
  <1> QED BY <1>3, <1>4

\* A path leads to descendants.
LEMMA PathBelow ==
    ASSUME NEW c, Path(c), NEW i \in 1..Len(c), NEW j \in 1..Len(c), i < j
    PROVE  c[j] \in Descendants({c[i]})
  <1> DEFINE t0 == [k \in Kinds |-> Downstream(k)]
             t1 == Twice(t0)
             t2 == Twice(t1)
             t3 == Twice(t2)
             t4 == Twice(t3)
  <1>0. c \in Seq(Kinds) /\ Len(c) <= 17
    BY DEF Path
  <1>1. Reaches(t0, c, 1)
    <2> SUFFICES ASSUME NEW m \in 1..Len(c), NEW n \in 1..Len(c), m < n, n <= m + 1
                 PROVE  c[n] \in t0[c[m]]
      BY DEF Reaches
    <2>1. n = m + 1 /\ m \in 1..Len(c) - 1 /\ c[m] \in Kinds
      BY <1>0
    <2> QED BY <2>1 DEF Path
  <1> HIDE DEF t0
  <1>2. Reaches(t1, c, 2)
    BY <1>0, <1>1, ReachesTwice
  <1> HIDE DEF t1
  <1>3. Reaches(t2, c, 4)
    BY <1>0, <1>2, ReachesTwice
  <1> HIDE DEF t2
  <1>4. Reaches(t3, c, 8)
    BY <1>0, <1>3, ReachesTwice
  <1> HIDE DEF t3
  <1>5. Reaches(t4, c, 16)
    BY <1>0, <1>4, ReachesTwice
  <1>6. c[j] \in t4[c[i]]
    BY <1>0, <1>5 DEF Reaches
  <1>7. DescendantTable = t4
    BY DEF DescendantTable, t0, t1, t2, t3
  <1> HIDE DEF t4
  <1> QED BY <1>6, <1>7 DEF Descendants

\* The stages below those that calls produce, and below the job_input.
BelowEdit == {"review_queue", "review_resolution", "transcript"} \cup TailStages
BelowArms == {"merge_plan", "selection_batch", "selection_result", "edit_resolution"} \cup BelowEdit
Below(kind) ==
    CASE kind = "media_object" -> {"base_asr", "peer_asr", "asr_comparison", "correction_transcript"}
                                  \cup BelowArms
      [] kind \in {"base_asr", "peer_asr"} -> {"asr_comparison", "correction_transcript"} \cup BelowArms
      [] kind = "job_input"             -> {"correction_transcript"} \cup BelowArms
      [] kind = "correction_transcript" -> BelowArms
      [] kind = "selection_result"      -> {"edit_resolution"} \cup BelowEdit
      [] kind = "ata_response"          -> {"ata_result", "srt_render"}

LEMMA BelowWithin ==
    ASSUME NEW k \in CallKinds \cup {"job_input"}
    PROVE  Descendants({k}) \subseteq Below(k)
  <1> USE DEF Below, BelowArms, BelowEdit, TailStages
  <1>1. Below(k) \subseteq Kinds /\ k \in Kinds
    BY KindSet DEF CallKinds
  <1>2. \A x \in Below(k) : Downstream(x) \subseteq Below(k)
    BY DEF Downstream, CallKinds
  <1>3. Downstream(k) \subseteq Below(k)
    BY DEF Downstream, CallKinds
  <1> QED BY <1>1, <1>2, <1>3, DescendantsWithin

\* The paths of the pipeline: from the media, or from the job_input, through the decision to
\* the subtitle, the queue or the review.
LEMMA Paths ==
    ASSUME NEW b \in {"base_asr", "peer_asr"}, NEW e \in {"review_queue", "review_resolution"}
    PROVE  /\ Path(<<"media_object", b, "asr_comparison", "correction_transcript", "merge_plan",
                     "selection_batch", "selection_result", "edit_resolution", "transcript",
                     "ata_response", "ata_result", "srt_render">>)
           /\ Path(<<"media_object", b, "asr_comparison", "correction_transcript", "merge_plan",
                     "selection_batch", "selection_result", "edit_resolution", e>>)
           /\ Path(<<"job_input", "correction_transcript", "merge_plan", "selection_batch",
                     "selection_result", "edit_resolution", "transcript", "ata_response",
                     "ata_result", "srt_render">>)
           /\ Path(<<"job_input", "correction_transcript", "merge_plan", "selection_batch",
                     "selection_result", "edit_resolution", e>>)
  BY KindSet DEF Path, Downstream

LEMMA BelowReached ==
    ASSUME NEW k \in CallKinds \cup {"job_input"}
    PROVE  Below(k) \subseteq Descendants({k})
  <1> DEFINE M(b) == <<"media_object", b, "asr_comparison", "correction_transcript", "merge_plan",
                       "selection_batch", "selection_result", "edit_resolution", "transcript",
                       "ata_response", "ata_result", "srt_render">>
             N(b, e) == <<"media_object", b, "asr_comparison", "correction_transcript",
                          "merge_plan", "selection_batch", "selection_result",
                          "edit_resolution", e>>
             J == <<"job_input", "correction_transcript", "merge_plan", "selection_batch",
                    "selection_result", "edit_resolution", "transcript", "ata_response",
                    "ata_result", "srt_render">>
             L(e) == <<"job_input", "correction_transcript", "merge_plan", "selection_batch",
                       "selection_result", "edit_resolution", e>>
  <1>1. ASSUME NEW b \in {"base_asr", "peer_asr"}, NEW e \in {"review_queue", "review_resolution"}
        PROVE  Path(M(b)) /\ Path(N(b, e)) /\ Path(J) /\ Path(L(e))
    BY <1>1, Paths
  <1>2. ASSUME NEW b \in {"base_asr", "peer_asr"}
        PROVE  \A i \in {1, 2} : \A j \in 3..12 : M(b)[j] \in Descendants({M(b)[i]})
    <2>1. PICK c : c = M(b)
      OBVIOUS
    <2>2. Path(c) /\ Len(c) = 12
      BY <1>1, <2>1
    <2>3. \A i, j \in 1..12 : i < j => c[j] \in Descendants({c[i]})
      BY <2>2, PathBelow
    <2> QED BY <2>1, <2>3
  <1>3. ASSUME NEW b \in {"base_asr", "peer_asr"}, NEW e \in {"review_queue", "review_resolution"}
        PROVE  N(b, e)[9] \in Descendants({N(b, e)[1]}) /\ N(b, e)[9] \in Descendants({N(b, e)[2]})
               /\ N(b, e)[2] \in Descendants({N(b, e)[1]})
    <2>1. PICK c : c = N(b, e)
      OBVIOUS
    <2>2. Path(c) /\ Len(c) = 9
      BY <1>1, <2>1
    <2>3. c[9] \in Descendants({c[1]}) /\ c[9] \in Descendants({c[2]})
          /\ c[2] \in Descendants({c[1]})
      BY <2>2, PathBelow
    <2> QED BY <2>1, <2>3
  <1>4. \A i \in {1, 2, 5, 8} : \A j \in 1..10 : i < j => J[j] \in Descendants({J[i]})
    <2>1. Path(J) /\ Len(J) = 10
      BY <1>1
    <2> HIDE DEF J
    <2> QED BY <2>1, PathBelow
  <1>5. ASSUME NEW e \in {"review_queue", "review_resolution"}
        PROVE  \A i \in {1, 2, 5} : L(e)[7] \in Descendants({L(e)[i]})
    <2>1. PICK c : c = L(e)
      OBVIOUS
    <2>2. Path(c) /\ Len(c) = 7
      BY <1>1, <2>1
    <2>3. \A i, j \in 1..7 : i < j => c[j] \in Descendants({c[i]})
      BY <2>2, PathBelow
    <2> QED BY <2>1, <2>3
  <1> USE DEF Below, BelowArms, BelowEdit, TailStages
  <1>6. CASE k \in {"base_asr", "peer_asr"}
    <2>1. \A x \in {"asr_comparison", "correction_transcript", "merge_plan", "selection_batch",
                    "selection_result", "edit_resolution", "transcript", "ata_response",
                    "ata_result", "srt_render"} : x \in Descendants({k})
      BY <1>2, <1>6
    <2>2. {"review_queue", "review_resolution"} \subseteq Descendants({k})
      BY <1>3, <1>6
    <2> QED BY <1>6, <2>1, <2>2
  <1>7. CASE k = "media_object"
    <2>1. \A x \in {"asr_comparison", "correction_transcript", "merge_plan", "selection_batch",
                    "selection_result", "edit_resolution", "transcript", "ata_response",
                    "ata_result", "srt_render"} : x \in Descendants({k})
      BY <1>2, <1>7
    <2>2. {"review_queue", "review_resolution", "base_asr", "peer_asr"} \subseteq Descendants({k})
      BY <1>3, <1>7
    <2> QED BY <1>7, <2>1, <2>2
  <1>8. CASE k \in {"job_input", "correction_transcript", "selection_result", "ata_response"}
    <2>1. {"review_queue", "review_resolution"} \subseteq Descendants({k}) \/ k = "ata_response"
      BY <1>5, <1>8
    <2> QED BY <1>4, <1>8, <2>1
  <1> QED BY <1>6, <1>7, <1>8 DEF CallKinds

\* What is below a stage, exactly.
LEMMA BelowIs ==
    ASSUME NEW k \in CallKinds \cup {"job_input"}
    PROVE  Descendants({k}) = Below(k)
  BY BelowWithin, BelowReached

\* The checkpoints a checkpoint of a key is computed from, and those without which there is
\* none: a resolution comes with its queue.
Sources(k) ==
    CASE k[1] = "timeline_audio"        -> {G("media_probe")}
      [] k[1] = "media_object"          -> {G("timeline_audio")}
      [] k[1] = "asr_comparison"        -> {G("base_asr"), G("peer_asr")}
      [] k[1] = "correction_transcript" -> {G("base_asr"), G("peer_asr"), G("job_input"),
                                            G("asr_comparison")}
      [] k[1] = "merge_plan"            -> {G("base_asr"), G("peer_asr"), ArmKey("qwen"),
                                            ArmKey("kimi")}
      [] k[1] = "selection_batch"       -> {G("merge_plan")}
      [] k[1] = "selection_result"      -> {<<"selection_batch", k[2]>>}
      [] k[1] = "review_queue"          -> {G("edit_resolution")}
      [] k[1] = "transcript"            -> {G("base_asr"), G("edit_resolution")}
      [] k[1] = "ata_response"          -> {G("media_object"), G("timeline_audio"), G("transcript")}
      [] k[1] = "ata_result"            -> {G("ata_response"), G("transcript"), G("timeline_audio")}
      [] OTHER                          -> {}
Needs(k) ==
    CASE k[1] \in {"base_asr", "peer_asr"} -> {G("media_object")}
      [] k[1] = "edit_resolution"          -> {G("merge_plan"), G("review_queue")}
      [] k[1] = "review_resolution"        -> {G("edit_resolution")}
      [] OTHER                             -> Sources(k)

LEMMA KeyShape ==
    ASSUME NEW k \in Keys
    PROVE  /\ k[1] \in Kinds /\ k = <<k[1], k[2]>>
           /\ k[1] \in {"selection_batch", "selection_result"} => k[2] \in Batches
           /\ k[1] = "correction_transcript" => k[2] \in Arms
           /\ k[1] \notin {"selection_batch", "selection_result", "correction_transcript"} =>
                k = G(k[1])
  BY KindSet DEF Keys, G, Arms

LEMMA NeedsKeys == ASSUME NEW k \in Keys PROVE Needs(k) \subseteq Keys
  <1>1. \A kind \in Kinds \ {"correction_transcript", "selection_batch", "selection_result"} :
          G(kind) \in Keys
    BY KeysOfKinds
  <1>2. G("merge_plan") \in Keys /\ G("review_queue") \in Keys /\ G("edit_resolution") \in Keys
        /\ G("media_object") \in Keys /\ G("media_probe") \in Keys /\ G("timeline_audio") \in Keys
    BY <1>1, KindSet
  <1>3. G("base_asr") \in Keys /\ G("peer_asr") \in Keys /\ G("job_input") \in Keys
        /\ G("asr_comparison") \in Keys /\ G("transcript") \in Keys /\ G("ata_response") \in Keys
    BY <1>1, KindSet
  <1>4. ArmKey("qwen") \in Keys /\ ArmKey("kimi") \in Keys
    BY DEF Keys, ArmKey, Arms
  <1>5. k[1] = "selection_result" => <<"selection_batch", k[2]>> \in Keys
    BY KeyShape, KeysOfKinds DEF Keys
  <1>6. Sources(k) \subseteq Keys
    BY <1>2, <1>3, <1>4, <1>5 DEF Sources
  <1> QED BY <1>2, <1>3, <1>6 DEF Needs

\* With a stage of a round, everything that needs it is below.
LEMMA NeedsBelow ==
    ASSUME NEW K \in CallKinds, NEW k \in Keys, NEW n \in Needs(k), n[1] \in RoundStages,
           n[1] \in Below(K) \cup {K}
    PROVE  k[1] \in Below(K)
  <1> USE DEF G, ArmKey
  <1>1. n[1] \in {"edit_resolution", "merge_plan", "review_queue", "job_input",
                  "correction_transcript", "selection_batch", "transcript", "ata_response"}
    BY DEF Needs, Sources, RoundStages
  <1>2. /\ n[1] = "job_input" => k[1] = "correction_transcript"
        /\ n[1] = "correction_transcript" => k[1] = "merge_plan"
        /\ n[1] = "merge_plan" => k[1] \in {"selection_batch", "edit_resolution"}
        /\ n[1] = "selection_batch" => k[1] = "selection_result"
        /\ n[1] = "review_queue" => k[1] = "edit_resolution"
        /\ n[1] = "edit_resolution" => k[1] \in {"review_queue", "review_resolution", "transcript"}
        /\ n[1] = "transcript" => k[1] \in {"ata_response", "ata_result"}
        /\ n[1] = "ata_response" => k[1] = "ata_result"
    BY DEF Needs, Sources
  <1> QED BY <1>1, <1>2 DEF Below, BelowArms, BelowEdit, TailStages, CallKinds

\* What a new round does not inherit.
Dropped(k) == k[1] \in Excluded \/ k \in FailedKeys
FailedKinds == {ResultKind(inv[i].op) : i \in Failures}
Regenerates == Failures = {} /\ FailedRefs = {} /\ RunStatus = "succeeded"

LEMMA ExcludedIs ==
    ASSUME TypeInv, NEW x
    PROVE  /\ FailedKinds \subseteq CallKinds
           /\ x \in Excluded <=> \/ \E K \in FailedKinds : x \in Below(K)
                                 \/ Regenerates /\ x \in {"correction_transcript"} \cup BelowArms
           /\ \A k \in FailedKeys : k[1] \in FailedKinds
  <1>1. \A i \in DOMAIN inv : ResultKind(inv[i].op) \in CallKinds
    BY DEF TypeInv, TypeOK, DataOK, InvocationRows, Ops, RemoteOps, ResultKind, CallKinds
  <1>2. FailedKinds \subseteq CallKinds
    BY <1>1 DEF FailedKinds, Failures
  <1>3. x \in Descendants(FailedKinds) <=> \E K \in FailedKinds : x \in Below(K)
    <2>1. \A K \in FailedKinds : Descendants({K}) = Below(K)
      BY <1>2, BelowIs
    <2>2. x \in Descendants(FailedKinds) <=> \E K \in FailedKinds : x \in Descendants({K})
      BY DescendantsOf
    <2> QED BY <2>1, <2>2
  <1>4. Descendants({"correction_transcript"}) = BelowArms
    BY BelowIs DEF CallKinds, Below
  <1>5. x \in Excluded <=>
          \/ x \in Descendants(FailedKinds)
          \/ Regenerates /\ x \in {"correction_transcript"} \cup Descendants({"correction_transcript"})
    BY DEF Excluded, FailedKinds, Regenerates
  <1>6. \A k \in FailedKeys : k[1] \in FailedKinds
    BY DEF FailedKeys, FailedKinds
  <1> QED BY <1>2, <1>3, <1>4, <1>5, <1>6

\* With a checkpoint, everything that needs it is dropped.
LEMMA DroppedDown ==
    ASSUME TypeInv, NEW k \in Keys, NEW n \in Needs(k), n[1] \in RoundStages, Dropped(n)
    PROVE  k[1] \in Excluded
  <1>1. CASE \E K \in FailedKinds : n[1] \in Below(K) \cup {K}
    BY <1>1, ExcludedIs, NeedsBelow
  <1>2. CASE Regenerates /\ n[1] \in {"correction_transcript"} \cup BelowArms
    <2>1. k[1] \in Below("correction_transcript")
      BY <1>2, NeedsBelow DEF CallKinds, Below
    <2>2. k[1] \in BelowArms
      BY <2>1 DEF Below
    <2> QED BY <1>2, <2>2, ExcludedIs
  <1> QED BY <1>1, <1>2, ExcludedIs DEF Dropped

-----------------------------------------------------------------------------
(* The checkpoints of the current round.                                   *)

BuiltKinds == {"timeline_audio", "media_object", "asr_comparison", "correction_transcript",
               "merge_plan", "selection_batch", "selection_result", "review_queue",
               "transcript", "ata_response", "ata_result"}

\* A checkpoint is there with all that it needs; what was computed from other stages was
\* computed from exactly their present checkpoints.
Complete == \A k \in Keys : Has(k) => \A n \in Needs(k) : Has(n)
Exact    == \A k \in Keys :
               Has(k) /\ k[1] \in BuiltKinds => art[Cp(k)].deps = {Cp(n) : n \in Sources(k)}
ProbeIs  == Has(G("media_probe")) => art[Cp(G("media_probe"))] = Probe

\* What is missing while a stage that binds in two steps is between them, and before the
\* intake is over.
Fresh == ~bound \/ pc \in {"intakeBind", "intakeCheckpoint"} => \A k \in Keys : ~Has(k)
Missing ==
    /\ pc \in {"bindProbe", "bindTimeline"} => ~Has(G("timeline_audio"))
    /\ pc = "bindTimeline" => Has(G("media_probe"))
    /\ pc = "bindCompare" => ~Has(G("asr_comparison"))
    /\ pc \in {"publishJob", "bindJob"} => \A k \in Keys : k[1] \in RoundStages => ~Has(k)

\* What is there when the writer comes to the later places.
AfterAta  == {"activate", "exporting", "result", "activateResult", "render", "persist", "commit"}
AfterPlan == {"resolve", "select", "gate", "transcript", "aligning", "ata"} \cup AfterAta
Places ==
    /\ pc = "upload" => Has(G("timeline_audio"))
    /\ pc \in {"reviewing", "plan"} => \A a \in Arms : Has(ArmKey(a))
    /\ pc \in AfterPlan => Has(G("merge_plan"))
    /\ pc \in AfterAta => Has(G("ata_response"))
    /\ pc \in {"activateResult", "render", "persist", "commit"} => Has(G("ata_result"))

\* The arms are submitted in turn; without an error each is answered for.
AskedFor(a) == slot[a].inv # 0 \/ Has(ArmKey(a))
ArmTurns ==
    /\ pc = "qwen" => slot["kimi"].inv = 0
    /\ pc = "kimi" => Doing("qwen") \in {"nothing", "sending"}
    /\ pc \in {"kimi", "collect"} /\ exc = "none" => AskedFor("qwen")
    /\ pc = "collect" /\ exc = "none" => AskedFor("kimi")

FitInv == Complete /\ Exact /\ ProbeIs /\ Fresh /\ Missing /\ Places /\ ArmTurns

\* Before the intake is over there are no checkpoints.
LEMMA FreshStep ==
    ASSUME TypeInv, ControlInv, CallInv, Fresh, Next
    PROVE  Fresh'
  <1> SUFFICES ASSUME ~bound' \/ pc' \in {"intakeBind", "intakeCheckpoint"}
               PROVE  (\A k \in Keys : ~Has(k))'
    BY DEF Fresh
  <1>1. Moves
    BY WriterMoves
  <1>2. ~bound \/ pc \in {"intakeBind", "intakeCheckpoint"}
    <2>1. CASE ~bound'
      <3>1. ~IntakeBind
        BY <2>1 DEF IntakeBind
      <3> QED BY <2>1, <3>1, BoundOnce
    <2>2. CASE pc' \in {"intakeBind", "intakeCheckpoint"}
      <3>1. pc \in {"intake", "intakeBind", "intakeCheckpoint"}
        BY <1>1, <2>2 DEF Moves, Resting, Commands, Leads
      <3>2. CASE pc = "intake"
        <4>1. IntakeJob
          BY <2>2, <3>2, StepsAt DEF RequestCancel, Resting, Commands
        <4> QED BY <4>1 DEF IntakeJob
      <3> QED BY <3>1, <3>2
    <2> QED BY <2>1, <2>2
  <1>3. \A k \in Keys : Cp(k) = 0
    BY <1>2 DEF Fresh, Has
  <1>4. pc \notin Executing \cup {"start"} \/ bound
    BY DEF ControlInv, BoundAt
  <1>5. pc \notin Executing
    BY <1>2, <1>4, ExecutingSet DEF ControlInv, BoundAt
  <1>6. ~IntakeCheckpoint
    <2>1. IntakeCheckpoint => bound /\ bound' = bound /\ pc' \in {"start", "idle"}
      BY DEF IntakeCheckpoint, Goto, rowVars, ControlInv, BoundAt
    <2> QED BY <2>1
  <1>7. ~JobStage /\ ~BindJob /\ ~BindMedia /\ ~BindCompare /\ ~PlanStage /\ ~SaveBatch
        /\ ~SaveTranscript /\ ~SaveAtaResult /\ ~Finalize /\ ~Invalidate
    BY <1>5, StepPlaces, ExecutingSet
  <1>8. ~RetryRun /\ ~ResolveReview
    <2>1. RetryRun \/ ResolveReview => bound /\ bound' = bound /\ pc' = "start"
      BY DEF RetryRun, ResolveReview, Goto, rowVars
    <2> QED BY <2>1
  <1>9. \A s \in Slots : ~Succeed(s)
    <2>1. pc \notin CallPlaces
      BY <1>5, ExecutingSet DEF CallPlaces
    <2> QED BY <2>1, CallStepPlaces DEF CallStep
  <1>10. UNCHANGED <<cp, round>>
    BY <1>6, <1>7, <1>8, <1>9, CpQuiet DEF LocalWriters, Deciders
  <1>11. \A k : Cp(k)' = Cp(k)
    BY <1>10, CpSame
  <1> QED BY <1>3, <1>11 DEF Has

\* An invalidation drops the checkpoints of the round, and no shared one.
LEMMA InvalidateDrops ==
    ASSUME TypeInv, Invalidate
    PROVE  /\ round' = round
           /\ \A k \in Keys : Cp(k)' = IF k[1] \in RoundStages THEN 0 ELSE Cp(k)
  <1>1. {"job_input"} \cup Descendants({"job_input"}) = RoundStages
    <2>1. Descendants({"job_input"}) = Below("job_input")
      BY BelowIs
    <2> QED BY <2>1 DEF Below, BelowArms, BelowEdit, TailStages, RoundStages
  <1>2. round' = round
    BY DEF Invalidate, rowVars
  <1>3. round \in 0..MaxRounds /\ 0 \in 0..MaxRounds
    BY BoundsAssumption DEF TypeInv, TypeOK, RowsOK, Rounds
  <1>4. RoundStages \cap SharedStages = {}
    BY DEF RoundStages, SharedStages
  <1>5. \A r \in 0..MaxRounds : \A k \in Keys :
           cp'[r][k] = IF r = round /\ k[1] \in RoundStages THEN 0 ELSE cp[r][k]
    BY <1>1, <1>4, InvalidateCells
  <1>6. ASSUME NEW k \in Keys PROVE Cp(k)' = IF k[1] \in RoundStages THEN 0 ELSE Cp(k)
    <2>1. CASE k[1] \in SharedStages
      <3>1. Cp(k) = cp[0][k] /\ Cp(k)' = cp'[0][k] /\ k[1] \notin RoundStages
        BY <1>4, <2>1 DEF Cp, RoundOf
      <3> QED BY <1>3, <1>5, <3>1
    <2>2. CASE k[1] \notin SharedStages
      <3>1. Cp(k) = cp[round][k] /\ Cp(k)' = cp'[round][k] /\ k[1] \in RoundStages
        BY <1>2, <2>2, KeyShape DEF Cp, RoundOf, Kinds
      <3> QED BY <1>3, <1>5, <3>1
    <2> QED BY <2>1, <2>2
  <1> QED BY <1>2, <1>6

\* Which keys the local stages are about.
LEMMA StageKeys ==
    /\ \A kind \in Kinds \ {"correction_transcript", "selection_batch", "selection_result"} :
          G(kind) \in Keys /\ G(kind)[1] = kind
    /\ \A a \in Arms : ArmKey(a) \in Keys /\ ArmKey(a)[1] = "correction_transcript"
    /\ {"media_probe", "timeline_audio", "media_object", "base_asr", "peer_asr", "job_input",
        "asr_comparison", "merge_plan", "edit_resolution", "review_queue", "transcript",
        "review_resolution", "ata_response", "ata_result", "srt_render"}
       \subseteq Kinds \ {"correction_transcript", "selection_batch", "selection_result"}
  <1>1. \A kind \in Kinds \ {"correction_transcript", "selection_batch", "selection_result"} :
          G(kind) \in Keys /\ G(kind)[1] = kind
    BY KeysOfKinds DEF G
  <1>2. \A a \in Arms : ArmKey(a) \in Keys /\ ArmKey(a)[1] = "correction_transcript"
    BY DEF Keys, ArmKey
  <1> QED BY <1>1, <1>2, KindSet

\* A stage that binds in two steps is left half-way only by its second one.
LEMMA MissingStep ==
    ASSUME TypeInv, CallInv, Missing, Next
    PROVE  Missing'
  <1>0. Moves
    BY WriterMoves
  <1>1. ASSUME UNCHANGED <<cp, round>> PROVE \A k : Has(k)' = Has(k)
    BY <1>1, CpSame DEF Has
  <1>2. RequestCancel => UNCHANGED <<cp, round, pc>>
    BY DEF RequestCancel, dataVars
  <1>3. ASSUME pc' \in {"bindProbe", "bindTimeline"}
        PROVE  ~Has(G("timeline_audio"))' /\ (pc' = "bindTimeline" => Has(G("media_probe"))')
    <2>1. pc \in {"media", "bindProbe", "bindTimeline"}
      BY <1>0, <1>3 DEF Moves, Resting, Commands, Leads
    <2>2. pc' \notin Resting
      BY <1>3 DEF Resting, Commands
    <2>3. CASE RequestCancel
      BY <1>1, <1>2, <1>3, <2>3 DEF Missing
    <2>4. CASE pc = "media" /\ ~RequestCancel
      <3>1. MediaReuse \/ MediaPrepare
        BY <2>2, <2>4, StepsAt
      <3>2. MediaPrepare /\ pc' = "bindProbe"
        BY <1>3, <3>1 DEF MediaReuse, MediaPrepare, Goto, Raise
      <3>3. UNCHANGED <<cp, round>> /\ ~Has(G("timeline_audio"))
        BY <3>2 DEF MediaPrepare, rowVars, Has
      <3> QED BY <1>1, <3>2, <3>3
    <2>5. CASE pc \in {"bindProbe", "bindTimeline"} /\ ~RequestCancel
      <3>1. BindMedia
        BY <2>2, <2>5, StepsAt
      <3>2. PICK id : id = IdIn(art, Probe)
        OBVIOUS
      <3>3. Bind(G("media_probe"), id) /\ pc = "bindProbe"
        BY <1>3, <3>1, <3>2 DEF BindMedia, Goto
      <3>4. id # 0
        BY <3>2, IdInPositive DEF TypeInv, TypeOK, DataOK
      <3>5. round' = round
        BY <3>1 DEF BindMedia, rowVars
      <3>6. G("media_probe") \in Keys /\ G("timeline_audio") \in Keys
            /\ G("media_probe") # G("timeline_audio")
        BY StageKeys DEF G
      <3>7. Cp(G("media_probe"))' = id /\ Cp(G("timeline_audio"))' = Cp(G("timeline_audio"))
        BY <3>3, <3>5, <3>6, CpBind
      <3> QED BY <3>3, <3>4, <3>7 DEF Has, Missing
    <2> QED BY <2>1, <2>3, <2>4, <2>5
  <1>4. ASSUME pc' = "bindCompare" PROVE ~Has(G("asr_comparison"))'
    <2>1. pc \in {"compare", "bindCompare"}
      BY <1>0, <1>4 DEF Moves, Resting, Commands, Leads
    <2>2. pc' \notin Resting
      BY <1>4 DEF Resting, Commands
    <2>3. CASE RequestCancel
      BY <1>1, <1>2, <1>4, <2>3 DEF Missing
    <2>4. CASE ~RequestCancel
      <3>1. Compare \/ BindCompare
        BY <2>1, <2>2, <2>4, StepsAt
      <3>2. Compare /\ UNCHANGED <<cp, round>> /\ ~Has(G("asr_comparison"))
        BY <1>4, <3>1 DEF Compare, BindCompare, Goto, rowVars, Has
      <3> QED BY <1>1, <3>2
    <2> QED BY <2>3, <2>4
  <1>5. ASSUME pc' \in {"publishJob", "bindJob"}
        PROVE  \A k \in Keys : k[1] \in RoundStages => ~Has(k)'
    <2>1. pc \in {"effective", "publishJob", "bindJob"}
      BY <1>0, <1>5 DEF Moves, Resting, Commands, Leads
    <2>2. pc' \notin Resting
      BY <1>5 DEF Resting, Commands
    <2>3. CASE RequestCancel
      BY <1>1, <1>2, <1>5, <2>3 DEF Missing
    <2>4. CASE pc = "effective" /\ ~RequestCancel
      <3>1. Invalidate
        BY <1>5, <2>2, <2>4, StepsAt DEF SameReferences, Goto
      <3> QED BY <3>1, InvalidateDrops DEF Has
    <2>5. CASE pc \in {"publishJob", "bindJob"} /\ ~RequestCancel
      <3>1. PublishJob /\ UNCHANGED <<cp, round>>
        BY <1>5, <2>2, <2>5, StepsAt DEF PublishJob, BindJob, Goto, rowVars
      <3> QED BY <1>1, <2>5, <3>1 DEF Missing
    <2> QED BY <2>1, <2>3, <2>4, <2>5
  <1> QED BY <1>3, <1>4, <1>5 DEF Missing

\* Where the writer is, a shared checkpoint stays, and one of the round but in a new round
\* or an invalidation.
LEMMA StaysHere ==
    ASSUME TypeInv, CallInv, Next, NEW key \in Keys, Has(key),
           key[1] \in SharedStages \/ pc \notin {"retry_run", "effective"}
    PROVE  Has(key)'
  BY SharedStays, HasStays, StepPlaces

\* Who acts while the arms are submitted and collected.
LEMMA ArmActors ==
    ASSUME TypeInv, CallInv, CallStep, pc \in {"qwen", "kimi", "collect"}, pc' # "fail",
           pc' # "reviewing"
    PROVE  \/ pc \in Arms /\ (ArmReuse \/ ArmRefused \/ ArmBegin)
           \/ \E s \in Arms : /\ slot[s].inv # 0
                              /\ \/ MarkSending(s) \/ Resubmit(s)
                                 \/ pc = "collect" /\ (Succeed(s) \/ CallCancelled(s) \/ CompletedInvalid(s))
                                 \/ \E st \in FailedStatuses : pc = "collect" /\ CallFails(s, st)
  <1>1. pc \notin DOMAIN MainCall /\ "main" \in Slots /\ Slots = {"main"} \cup Arms
    BY DEF MainCall, Slots
  <1>2. slot["main"].inv = 0
    BY <1>1 DEF CallInv, MainInPlace
  <1>3. \A s \in Slots : slot[s].inv = 0 => Doing(s) = "nothing"
    BY DEF Doing
  <1>4. ~CallReuse /\ ~CallRefused /\ ~CallBegin
    BY <1>1 DEF CallReuse, CallRefused, CallBegin, CallPending
  <1>5. ~Receipt
    BY <1>2 DEF Receipt, Answered, Doing
  <1>6. ~Collected
    BY DEF Collected, Goto, Raise
  <1>7. ASSUME NEW s \in Slots PROVE ~ResubmitFails(s)
    BY <1>1 DEF ResubmitFails, StageError, Raise
  <1>8. ASSUME NEW s \in Slots, Answered(s) PROVE pc = "collect"
    BY <1>1, <1>8 DEF Answered
  <1>9. ASSUME NEW s \in Slots,
               \/ MarkSending(s) \/ Succeed(s) \/ CallCancelled(s) \/ CompletedInvalid(s)
               \/ Resubmit(s) \/ \E st \in FailedStatuses : CallFails(s, st)
        PROVE  slot[s].inv # 0 /\ s \in Arms
    <2>1. Doing(s) # "nothing"
      BY <1>9 DEF MarkSending, Succeed, CallCancelled, CompletedInvalid, Resubmit, CallFails, Answered
    <2> QED BY <1>1, <1>2, <1>3, <2>1 DEF Doing
  <1>10. \A s \in Slots : /\ Succeed(s) \/ CallCancelled(s) \/ CompletedInvalid(s) => Answered(s)
                         /\ \A st \in FailedStatuses : CallFails(s, st) => Answered(s)
    BY DEF Succeed, CallCancelled, CompletedInvalid, CallFails
  <1>11. ArmReuse \/ ArmRefused \/ ArmBegin => pc \in Arms
    BY DEF ArmReuse, ArmRefused, ArmBegin
  <1>12. CASE ArmReuse \/ ArmRefused \/ ArmBegin
    BY <1>11, <1>12
  <1>13. CASE \E s \in Slots :
                \/ MarkSending(s) \/ Succeed(s) \/ CallCancelled(s) \/ CompletedInvalid(s)
                \/ Resubmit(s) \/ \E st \in FailedStatuses : CallFails(s, st)
    <2>1. PICK s \in Slots :
                \/ MarkSending(s) \/ Succeed(s) \/ CallCancelled(s) \/ CompletedInvalid(s)
                \/ Resubmit(s) \/ \E st \in FailedStatuses : CallFails(s, st)
      BY <1>13
    <2>2. slot[s].inv # 0 /\ s \in Arms
      BY <1>9, <2>1
    <2>3. ~(MarkSending(s) \/ Resubmit(s)) => pc = "collect"
      BY <1>8, <1>10, <2>1
    <2> QED BY <2>1, <2>2, <2>3
  <1> QED BY <1>4, <1>5, <1>6, <1>7, <1>12, <1>13 DEF CallStep

\* What an arm's step leaves of the arms' slots.
LEMMA ArmSlots ==
    ASSUME TypeInv, CallInv, NEW t \in Arms
    PROVE  /\ pc \in Arms /\ (ArmReuse \/ ArmRefused) => UNCHANGED <<slot, inv, cp, round>>
           /\ pc \in Arms /\ ArmBegin => UNCHANGED <<cp, round, pc, exc>> /\ slot'[pc].inv # 0
                  /\ (t # pc => slot'[t] = slot[t]) /\ \A i \in DOMAIN inv : inv'[i] = inv[i]
           /\ \A s \in Arms : MarkSending(s) =>
                  UNCHANGED <<slot, cp, round, exc>> /\ Doing(s)' = "sending"
           /\ \A s \in Arms : Resubmit(s) =>
                  UNCHANGED <<cp, round, pc, exc>> /\ slot'[s].inv # 0
                  /\ (t # s => slot'[t] = slot[t]) /\ \A i \in DOMAIN inv : inv'[i] = inv[i]
  <1>0. slot \in [Slots -> [inv : Nat, tries : 0..1]] /\ Arms \subseteq Slots /\ inv \in Seq(InvocationRows)
    BY DEF TypeInv, TypeOK, LocalsOK, DataOK, Slots
  <1>1. ASSUME NEW s \in Arms, NEW op, NEW scope, NEW p, NEW n, NewInvocation(op, scope, s, p, n)
        PROVE  slot'[s].inv # 0 /\ (t # s => slot'[t] = slot[t]) /\ \A i \in DOMAIN inv : inv'[i] = inv[i]
    <2>1. \A i \in DOMAIN inv : inv'[i] = inv[i]
      BY <1>1, AppendRows
    <2>2. slot'[s] = [inv |-> Len(inv) + 1, tries |-> n] /\ (t # s => slot'[t] = slot[t])
      BY <1>0, <1>1 DEF NewInvocation
    <2> QED BY <1>0, <2>1, <2>2
  <1>2. ASSUME NEW s \in Arms, MarkSending(s)
        PROVE  UNCHANGED <<slot, cp, round, exc>> /\ Doing(s)' = "sending"
    <2>1. UNCHANGED <<slot, cp, round, exc>>
      BY <1>2 DEF MarkSending, localVars, dataVars, rowVars, Goto
    <2>2. slot[s].inv # 0 /\ slot[s].inv \in DOMAIN inv
      BY <1>0, <1>2 DEF MarkSending, Doing, TypeInv, SlotsOpen
    <2>3. PICK k : k = slot[s].inv
      OBVIOUS
    <2>4. inv' = [inv EXCEPT ![k].status = "sending"] /\ slot'[s].inv = k /\ k # 0
      BY <1>2, <2>1, <2>2, <2>3 DEF MarkSending
    <2>5. inv'[k].status = "sending"
      BY <1>0, <2>2, <2>3, <2>4 DEF InvocationRows
    <2> QED BY <2>1, <2>4, <2>5 DEF Doing
  <1>3. ASSUME pc \in Arms, ArmBegin
        PROVE  UNCHANGED <<cp, round, pc, exc>> /\ slot'[pc].inv # 0
               /\ (t # pc => slot'[t] = slot[t]) /\ \A i \in DOMAIN inv : inv'[i] = inv[i]
    <2>1. UNCHANGED <<cp, round, pc, exc>>
      BY <1>3 DEF ArmBegin, dataVars, rowVars
    <2>2. \E op, scope, p, n : NewInvocation(op, scope, pc, p, n)
      BY <1>3 DEF ArmBegin
    <2> QED BY <1>1, <1>3, <2>1, <2>2
  <1>4. ASSUME NEW s \in Arms, Resubmit(s)
        PROVE  UNCHANGED <<cp, round, pc, exc>> /\ slot'[s].inv # 0
               /\ (t # s => slot'[t] = slot[t]) /\ \A i \in DOMAIN inv : inv'[i] = inv[i]
    <2>1. UNCHANGED <<cp, round, pc, exc>>
      BY <1>4 DEF Resubmit, dataVars, rowVars
    <2>2. \E op, scope, p, n : NewInvocation(op, scope, s, p, n)
      BY <1>4 DEF Resubmit
    <2> QED BY <1>1, <2>1, <2>2
  <1>5. ArmReuse \/ ArmRefused => UNCHANGED <<slot, inv, cp, round>>
    BY DEF ArmReuse, ArmRefused, localVars, dataVars, rowVars
  <1> QED BY <1>2, <1>3, <1>4, <1>5

\* A slot that keeps its call keeps doing it while rows are only appended.
LEMMA StillDoing ==
    ASSUME TypeInv, NEW t \in Slots, slot'[t] = slot[t], \A i \in DOMAIN inv : inv'[i] = inv[i]
    PROVE  Doing(t)' = Doing(t)
  <1>1. slot \in [Slots -> [inv : Nat, tries : 0..1]] /\ inv \in Seq(InvocationRows)
        /\ slot[t].inv <= Len(inv)
    BY DEF TypeInv, TypeOK, LocalsOK, DataOK, SlotsOpen
  <1>2. slot[t].inv = 0 \/ slot[t].inv \in DOMAIN inv
    BY <1>1
  <1>3. PICK k : k = slot[t].inv
    OBVIOUS
  <1>4. Doing(t)' = (IF k = 0 THEN "nothing" ELSE inv'[k].status)
        /\ Doing(t) = (IF k = 0 THEN "nothing" ELSE inv[k].status)
    BY <1>3 DEF Doing
  <1> QED BY <1>2, <1>3, <1>4

\* The first arm is submitted while the second has no call.
LEMMA QwenTurn ==
    ASSUME TypeInv, CallInv, ArmTurns, Next, pc' = "qwen"
    PROVE  slot'["kimi"].inv = 0
  <1>0. "kimi" \in Arms /\ "kimi" \in Slots /\ Arms = {"qwen", "kimi"}
    BY DEF Arms, Slots
  <1>1. pc \in {"correction", "qwen"}
    BY WriterMoves DEF Moves, Resting, Commands, Leads
  <1>2. pc' \notin Resting
    BY DEF Resting, Commands
  <1>3. slot["kimi"].inv = 0
    <2>1. CASE pc = "correction"
      BY <1>0, <2>1, EmptySlots DEF CallPlaces, Ending
    <2> QED BY <1>1, <2>1 DEF ArmTurns
  <1>4. CASE RequestCancel \/ Progress
    BY <1>3, <1>4 DEF RequestCancel, Progress, localVars
  <1>5. CASE CallStep /\ pc = "qwen"
    <2>1. \/ ArmReuse \/ ArmRefused \/ ArmBegin
          \/ \E s \in Arms : slot[s].inv # 0 /\ (MarkSending(s) \/ Resubmit(s))
      BY <1>5, ArmActors
    <2>2. ~ArmReuse /\ ~ArmRefused /\ \A s \in Arms : ~MarkSending(s)
      BY <1>5, <1>0 DEF ArmReuse, ArmRefused, MarkSending, AfterArm, Goto
    <2>3. CASE ArmBegin
      BY <1>0, <1>3, <1>5, <2>3, ArmSlots
    <2>4. ASSUME NEW s \in Arms, slot[s].inv # 0, Resubmit(s) PROVE slot'["kimi"].inv = 0
      <3>1. s # "kimi"
        BY <1>3, <2>4
      <3>2. slot'["kimi"] = slot["kimi"]
        BY <1>0, <2>4, <3>1, ArmSlots
      <3> QED BY <1>3, <3>2
    <2> QED BY <2>1, <2>2, <2>3, <2>4
  <1>6. pc = "correction" => Progress \/ RequestCancel
    BY <1>2, StepsAt DEF AfterProgress
  <1>7. pc = "qwen" => CallStep \/ RequestCancel
    BY <1>2, StepsAt DEF CallPlaces
  <1> QED BY <1>1, <1>4, <1>5, <1>6, <1>7

\* While the second arm is submitted the first waits for its answer or has none to wait for.
LEMMA KimiTurn ==
    ASSUME TypeInv, CallInv, ArmTurns, Next, pc' = "kimi"
    PROVE  /\ Doing("qwen")' \in {"nothing", "sending"}
           /\ exc' = "none" => AskedFor("qwen")'
  <1>0. "qwen" \in Arms /\ "qwen" \in Slots /\ Arms = {"qwen", "kimi"}
    BY DEF Arms, Slots
  <1>1. pc \in {"kimi", "qwen"}
    BY WriterMoves DEF Moves, Resting, Commands, Leads
  <1>2. CallStep \/ RequestCancel
    BY <1>1, StepsAt DEF Resting, Commands, CallPlaces
  <1>3. UNCHANGED <<cp, round>> => Has(ArmKey("qwen"))' = Has(ArmKey("qwen"))
    BY CpSame DEF Has
  <1>4. CASE RequestCancel
    <2>1. UNCHANGED <<cp, round, slot, inv, pc, exc>> /\ pc = "kimi"
      BY <1>4 DEF RequestCancel, dataVars, localVars
    <2>2. Doing("qwen")' = Doing("qwen")
      BY <1>0, <2>1, StillDoing
    <2> QED BY <1>3, <2>1, <2>2 DEF ArmTurns, AskedFor
  <1>5. CASE CallStep
    <2>1. \/ ArmReuse \/ ArmRefused \/ ArmBegin
          \/ \E s \in Arms : slot[s].inv # 0 /\ (MarkSending(s) \/ Resubmit(s))
      BY <1>1, <1>5, ArmActors
    <2>2. CASE pc = "qwen"
      <3>1. ~ArmBegin /\ \A s \in Arms : ~Resubmit(s)
        BY <2>2, <1>0, ArmSlots
      <3>2. CASE ArmReuse
        <4>1. slot["qwen"].inv = 0 /\ Has(ArmKey("qwen")) /\ UNCHANGED <<slot, inv, cp, round>>
          BY <2>2, <3>2, <1>0, ArmSlots DEF ArmReuse, Has
        <4> QED BY <1>3, <4>1 DEF AskedFor, Doing
      <3>3. CASE ArmRefused
        <4>1. slot["qwen"].inv = 0 /\ UNCHANGED <<slot, inv>> /\ exc' # "none"
          BY <2>2, <3>3, <1>0, ArmSlots DEF ArmRefused, FirstError
        <4> QED BY <4>1 DEF Doing
      <3>4. ASSUME NEW s \in Arms, slot[s].inv # 0, MarkSending(s)
            PROVE  Doing("qwen")' = "sending" /\ AskedFor("qwen")'
        <4>1. s = "qwen"
          BY <1>0, <2>2, <3>4 DEF ArmTurns
        <4>2. UNCHANGED slot /\ Doing("qwen")' = "sending"
          BY <1>0, <3>4, <4>1, ArmSlots
        <4> QED BY <3>4, <4>1, <4>2 DEF AskedFor
      <3> QED BY <2>1, <3>1, <3>2, <3>3, <3>4
    <2>3. CASE pc = "kimi"
      <3>0. Doing("qwen") \in {"nothing", "sending"}
        BY <2>3 DEF ArmTurns
      <3>1. ~ArmReuse /\ ~ArmRefused /\ \A s \in Arms : ~MarkSending(s)
        BY <2>3, <1>0 DEF ArmReuse, ArmRefused, MarkSending, AfterArm, Goto
      <3>2. /\ UNCHANGED <<cp, round, exc>> /\ slot'["qwen"] = slot["qwen"]
            /\ \A i \in DOMAIN inv : inv'[i] = inv[i]
        <4>1. CASE ArmBegin
          BY <1>0, <2>3, <4>1, ArmSlots
        <4>2. ASSUME NEW s \in Arms, Resubmit(s)
              PROVE  /\ UNCHANGED <<cp, round, exc>> /\ slot'["qwen"] = slot["qwen"]
                     /\ \A i \in DOMAIN inv : inv'[i] = inv[i]
          <5>1. s # "qwen"
            BY <3>0, <4>2 DEF Resubmit
          <5> QED BY <1>0, <4>2, <5>1, ArmSlots
        <4> QED BY <2>1, <3>1, <4>1, <4>2
      <3>3. Doing("qwen")' = Doing("qwen")
        BY <1>0, <3>2, StillDoing
      <3> QED BY <1>3, <2>3, <3>0, <3>2, <3>3 DEF ArmTurns, AskedFor
    <2> QED BY <1>1, <2>2, <2>3
  <1> QED BY <1>2, <1>4, <1>5

\* A successful call of an arm leaves its transcript.
LEMMA ArmAnswers ==
    ASSUME TypeInv, CallInv, NEW s \in Arms, Succeed(s)
    PROVE  Has(ArmKey(s))'
  <1>0. s \in Slots /\ s # "main" /\ ArmKey(s) \in Keys
    BY StageKeys DEF Slots, Arms
  <1>1. PICK k : k = slot[s].inv
    OBVIOUS
  <1>2. InFlight(s) /\ Bind(CallKeyOf(k), inv'[k].art) /\ inv'[k].art # 0 /\ round' = round
    BY <1>0, <1>1, SucceedRow
  <1>3. CallKeyOf(k) = ArmKey(s)
    BY <1>0, <1>1, <1>2 DEF InFlight, OpOf, ScopeOf, CallKeyOf, ArmKey, ArmOp, ResultKind
  <1>4. PICK id : id = inv'[k].art
    OBVIOUS
  <1>5. Cp(ArmKey(s))' = id
    BY <1>0, <1>2, <1>3, <1>4, CpBind
  <1> QED BY <1>2, <1>4, <1>5 DEF Has

\* Without an error each arm is waiting for its answer or has it.
LEMMA ArmWaits ==
    ASSUME TypeInv, CallInv, ArmTurns, Next, pc' = "collect", exc' = "none", NEW a \in Arms
    PROVE  AskedFor(a)'
  <1>0. Arms \subseteq Slots /\ Arms = {"qwen", "kimi"} /\ ArmKey(a) \in Keys
    BY StageKeys DEF Arms, Slots
  <1>1. pc \in {"kimi", "collect"}
    BY WriterMoves DEF Moves, Resting, Commands, Leads
  <1>2. CallStep \/ RequestCancel
    BY <1>1, StepsAt DEF Resting, Commands, CallPlaces
  <1>3. Has(ArmKey(a)) => Has(ArmKey(a))'
    BY <1>0, <1>1, StaysHere
  <1>4. CASE RequestCancel
    <2>1. UNCHANGED <<slot, pc, exc>>
      BY <1>4 DEF RequestCancel, localVars
    <2> QED BY <1>0, <1>1, <1>3, <2>1, <1>4 DEF ArmTurns, AskedFor, RequestCancel
  <1>5. CASE CallStep /\ pc = "kimi"
    <2>1. \/ ArmReuse \/ ArmRefused \/ ArmBegin
          \/ \E s \in Arms : slot[s].inv # 0 /\ (MarkSending(s) \/ Resubmit(s))
      BY <1>5, ArmActors
    <2>2. ~ArmBegin /\ ~ArmRefused /\ \A s \in Arms : ~Resubmit(s)
      BY <1>0, <1>5, ArmSlots DEF ArmRefused, FirstError
    <2>3. CASE ArmReuse
      <3>1. Has(ArmKey("kimi")) /\ UNCHANGED <<slot, exc>>
        BY <1>0, <1>5, <2>3, ArmSlots DEF ArmReuse, Has, Goto
      <3> QED BY <1>0, <1>3, <1>5, <3>1 DEF ArmTurns, AskedFor
    <2>4. ASSUME NEW s \in Arms, slot[s].inv # 0, MarkSending(s) PROVE AskedFor(a)'
      <3>1. s = "kimi"
        BY <1>0, <1>5, <2>4 DEF ArmTurns, MarkSending
      <3>2. UNCHANGED <<slot, exc>>
        BY <1>0, <2>4, ArmSlots
      <3> QED BY <1>0, <1>3, <1>5, <2>4, <3>1, <3>2 DEF ArmTurns, AskedFor
    <2> QED BY <2>1, <2>2, <2>3, <2>4
  <1>6. CASE CallStep /\ pc = "collect"
    <2>1. PICK s \in Arms :
             /\ slot[s].inv # 0
             /\ \/ MarkSending(s) \/ Resubmit(s) \/ Succeed(s) \/ CallCancelled(s)
                \/ CompletedInvalid(s) \/ \E st \in FailedStatuses : CallFails(s, st)
      BY <1>6, <1>0, ArmActors DEF ArmReuse, ArmRefused, ArmBegin
    <2>2. s # "main" /\ slot \in [Slots -> [inv : Nat, tries : 0..1]]
      BY <1>0 DEF TypeInv, TypeOK, LocalsOK
    <2>3. ~CallCancelled(s) /\ \A st \in FailedStatuses : ~CallFails(s, st)
      BY <2>2 DEF CallCancelled, CallFails, FirstError
    <2>4. exc = "none" => AskedFor(a)
      BY <1>0, <1>6 DEF ArmTurns
    <2>5. CASE MarkSending(s)
      <3>1. UNCHANGED <<slot, exc>>
        BY <1>0, <2>5, ArmSlots
      <3> QED BY <1>3, <2>4, <3>1 DEF AskedFor
    <2>6. CASE Resubmit(s)
      <3>1. slot'[s].inv # 0 /\ (a # s => slot'[a] = slot[a]) /\ UNCHANGED exc
        BY <1>0, <2>6, ArmSlots
      <3> QED BY <1>3, <2>4, <3>1 DEF AskedFor
    <2>7. CASE CompletedInvalid(s)
      <3>1. UNCHANGED <<slot, exc>>
        BY <2>7 DEF CompletedInvalid, localVars
      <3> QED BY <1>3, <2>4, <3>1 DEF AskedFor
    <2>8. CASE Succeed(s)
      <3>1. slot' = [slot EXCEPT ![s] = NoSlot] /\ UNCHANGED exc
        BY <1>6, <2>8 DEF Succeed, Goto, AfterCall
      <3>2. a # s => slot'[a] = slot[a]
        BY <1>0, <2>2, <3>1
      <3>3. a = s => Has(ArmKey(a))'
        BY <2>8, ArmAnswers
      <3> QED BY <1>3, <2>4, <3>1, <3>2, <3>3 DEF AskedFor
    <2> QED BY <2>1, <2>3, <2>5, <2>6, <2>7, <2>8
  <1> QED BY <1>1, <1>2, <1>4, <1>5, <1>6

LEMMA ArmTurnsStep ==
    ASSUME TypeInv, CallInv, ArmTurns, Next
    PROVE  ArmTurns'
  <1>1. pc' \in {"kimi", "collect"} /\ exc' = "none" => AskedFor("qwen")'
    BY KimiTurn, ArmWaits DEF Arms
  <1>2. pc' = "collect" /\ exc' = "none" => AskedFor("kimi")'
    BY ArmWaits DEF Arms
  <1> QED BY <1>1, <1>2, QwenTurn, KimiTurn DEF ArmTurns

\* The collection ends when no arm waits, and without an error only then.
LEMMA CollectEnds ==
    ASSUME TypeInv, CallInv, CallStep, pc = "collect", pc' = "reviewing"
    PROVE  Collected /\ exc = "none"
  <1>1. pc \notin DOMAIN MainCall \cup Arms \cup DOMAIN AfterCall
    BY DEF MainCall, Arms, AfterCall
  <1>2. ~CallReuse /\ ~CallRefused /\ ~CallBegin /\ ~ArmReuse /\ ~ArmRefused /\ ~ArmBegin /\ ~Receipt
    BY <1>1 DEF CallReuse, CallRefused, CallBegin, CallPending, ArmReuse, ArmRefused, ArmBegin, Receipt
  <1>3. ASSUME NEW s \in Slots, \/ MarkSending(s) \/ Succeed(s) \/ CallCancelled(s)
                                \/ CompletedInvalid(s) \/ Resubmit(s) \/ ResubmitFails(s)
        PROVE  FALSE
    BY <1>1, <1>3
    DEF MarkSending, Succeed, CallCancelled, CompletedInvalid, Resubmit, ResubmitFails,
        StageError, Raise
  <1>4. ASSUME NEW s \in Slots, NEW st \in FailedStatuses, CallFails(s, st) PROVE FALSE
    BY <1>1, <1>4 DEF CallFails, StageError, Raise
  <1>5. Collected
    BY <1>2, <1>3, <1>4 DEF CallStep
  <1> QED BY <1>5 DEF Collected, Raise, Goto

\* A publication with a checkpoint leaves the checkpoint.
LEMMA PublishHas ==
    ASSUME TypeInv, NEW a, KeyOf(a) \in Keys, Publish(a), UNCHANGED round
    PROVE  Has(KeyOf(a))' /\ Cp(KeyOf(a))' = IdIn(art, a)
  <1>1. PICK id, key : id = IdIn(art, a) /\ key = KeyOf(a)
    OBVIOUS
  <1>2. Bind(key, id) /\ id # 0
    BY <1>1, IdInPositive DEF Publish, TypeInv, TypeOK, DataOK
  <1>3. Cp(key)' = id
    BY <1>1, <1>2, CpBind
  <1>4. Has(key)'
    BY <1>2, <1>3 DEF Has
  <1> QED BY <1>1, <1>3, <1>4

LEMMA MediaPlace ==
    ASSUME TypeInv, CallInv, Places, Next, pc' = "upload"
    PROVE  Has(G("timeline_audio"))'
  <1>0. G("timeline_audio") \in Keys /\ G("timeline_audio")[1] \in SharedStages
    BY StageKeys DEF SharedStages
  <1>1. pc \in {"upload", "media", "bindTimeline"}
    BY WriterMoves DEF Moves, Resting, Commands, Leads
  <1>2. Has(G("timeline_audio")) => Has(G("timeline_audio"))'
    BY <1>0, StaysHere
  <1>3. CASE pc = "media"
    <2>1. MediaReuse
      BY <1>3, StepsAt DEF Resting, Commands, RequestCancel, MediaPrepare, Goto
    <2> QED BY <1>2, <2>1 DEF MediaReuse, Has
  <1>4. CASE pc = "bindTimeline"
    <2>1. BindMedia
      BY <1>4, StepsAt DEF Resting, Commands, RequestCancel
    <2>2. PICK id : id = TimelineId
      OBVIOUS
    <2>3. Bind(G("timeline_audio"), id) /\ round' = round
      BY <1>4, <2>1, <2>2 DEF BindMedia, rowVars
    <2>4. id # 0
      <3>1. art \in Seq(ArtifactRows)
        BY DEF TypeInv, TypeOK, DataOK
      <3>2. \E T : With(art, Probe) \in Seq(T)
        BY <3>1, WithSeq
      <3> QED BY <2>2, <3>2, IdInPositive DEF TimelineId
    <2>5. Cp(G("timeline_audio"))' = id
      BY <1>0, <2>3, CpBind
    <2> QED BY <2>4, <2>5 DEF Has
  <1> QED BY <1>1, <1>2, <1>3, <1>4 DEF Places

LEMMA PlacesStep ==
    ASSUME TypeInv, CallInv, Places, ArmTurns, Next
    PROVE  Places'
  <1>0. Moves
    BY WriterMoves
  <1> USE DEF AfterPlan, AfterAta
  <1>1. \A a \in Arms : ArmKey(a) \in Keys
    BY StageKeys
  <1>2. /\ G("merge_plan") \in Keys /\ G("ata_response") \in Keys /\ G("ata_result") \in Keys
    BY StageKeys
  <1>3. pc \notin {"retry_run", "effective"} => \A k \in Keys : Has(k) => Has(k)'
    BY StaysHere
  <1>4. ASSUME pc' \in {"reviewing", "plan"}, NEW a \in Arms PROVE Has(ArmKey(a))'
    <2>1. pc \in {"reviewing", "plan", "collect"}
      BY <1>0, <1>4 DEF Moves, Resting, Commands, Leads
    <2>2. CASE pc = "collect"
      <3>1. CallStep /\ pc' = "reviewing"
        BY <1>0, <1>4, <2>2, StepsAt DEF Resting, Commands, CallPlaces, RequestCancel, Moves, Leads
      <3>2. exc = "none" /\ slot[a].inv = 0
        BY <1>4, <2>2, <3>1, CollectEnds DEF Collected
      <3>3. Has(ArmKey(a))
        BY <1>4, <2>2, <3>2 DEF ArmTurns, AskedFor, Arms
      <3> QED BY <1>1, <1>3, <1>4, <2>2, <3>3
    <2> QED BY <1>1, <1>3, <1>4, <2>1, <2>2 DEF Places
  <1>5. ASSUME pc' \in AfterPlan PROVE Has(G("merge_plan"))'
    <2>1. pc \in AfterPlan \cup {"plan"}
      BY <1>0, <1>5 DEF Moves, Resting, Commands, Leads
    <2>2. CASE pc = "plan"
      <3>1. PlanStage
        BY <1>5, <2>2, StepsAt DEF Resting, Commands, RequestCancel
      <3>2. CASE ~Has(G("merge_plan"))
        <4>1. PICK cases :
                Publish(Saved(G("merge_plan"), {Cp(G("base_asr")), Cp(G("peer_asr")),
                                                Cp(ArmKey("qwen")), Cp(ArmKey("kimi"))}, cases))
          BY <3>1, <3>2 DEF PlanStage, Has
        <4>2. PICK a : Publish(a) /\ KeyOf(a) = G("merge_plan") /\ round' = round
          BY <3>1, <4>1 DEF PlanStage, Saved, Artifact, KeyOf, G, rowVars
        <4> QED BY <1>2, <4>2, PublishHas
      <3> QED BY <1>2, <1>3, <2>2, <3>2
    <2> QED BY <1>2, <1>3, <2>1, <2>2 DEF Places
  <1>6. ASSUME pc' \in AfterAta PROVE Has(G("ata_response"))'
    <2>1. pc \in AfterAta \cup {"ata"}
      BY <1>0, <1>6 DEF Moves, Resting, Commands, Leads
    <2>2. CASE pc = "ata"
      <3>1. CallStep
        BY <1>6, <2>2, StepsAt DEF Resting, Commands, CallPlaces, RequestCancel
      <3>2. pc' # pc /\ pc' # "fail" /\ ResultKind(MainCall[pc]) = "ata_response"
        BY <1>6, <2>2 DEF MainCall, ResultKind
      <3> QED BY <2>2, <3>1, <3>2, CallMoves
    <2> QED BY <1>2, <1>3, <2>1, <2>2 DEF Places
  <1>7. ASSUME pc' \in {"activateResult", "render", "persist", "commit"}
        PROVE  Has(G("ata_result"))'
    <2>1. pc \in {"result", "activateResult", "render", "persist", "commit"}
      BY <1>0, <1>7 DEF Moves, Resting, Commands, Leads
    <2>2. CASE pc = "result"
      <3>1. SaveAtaResult
        BY <1>7, <2>2, StepsAt DEF Resting, Commands, RequestCancel
      <3>2. CASE ~Has(G("ata_result"))
        <4>1. PICK a : Publish(a) /\ KeyOf(a) = G("ata_result") /\ round' = round
          BY <3>1, <3>2 DEF SaveAtaResult, Has, Saved, Artifact, KeyOf, G, rowVars
        <4> QED BY <1>2, <4>1, PublishHas
      <3> QED BY <1>2, <1>3, <2>2, <3>2
    <2> QED BY <1>2, <1>3, <2>1, <2>2 DEF Places
  <1> QED BY <1>4, <1>5, <1>6, <1>7, MediaPlace DEF Places

\* A checkpoint that is there is not replaced, but for those of a decision.
LEMMA CpFixed ==
    ASSUME TypeInv, CallInv, StoreInv, FitInv, Next, ~RetryRun, ~Invalidate,
           NEW k \in Keys, Has(k), k \notin DecisionKeys
    PROVE  Cp(k)' = Cp(k)
  <1>1. CASE ~Writes(k)
    BY <1>1, CpStays
  <1>2. CASE k = G("job_input") /\ (IntakeCheckpoint \/ JobStage \/ BindJob)
    <2>1. ~IntakeCheckpoint
      BY StepPlaces DEF FitInv, Fresh
    <2>2. ~BindJob
      <3>1. k[1] \in RoundStages
        BY <1>2 DEF G, RoundStages
      <3> QED BY <3>1, StepPlaces DEF FitInv, Missing
    <2>3. JobStage
      BY <1>2, <2>1, <2>2
    <2>4. UNCHANGED <<cp, round>>
      BY <1>2, <2>3 DEF JobStage, Has, rowVars
    <2> QED BY <2>4, CpSame
  <1>3. CASE k \in {G("media_probe"), G("timeline_audio")} /\ BindMedia
    <2>1. k = G("media_probe") /\ k # G("timeline_audio") /\ G("timeline_audio") \in Keys
      BY <1>3, StepPlaces, StageKeys DEF FitInv, Missing, G
    <2>2. CASE pc = "bindTimeline"
      <3>1. PICK id : id = TimelineId
        OBVIOUS
      <3>2. Bind(G("timeline_audio"), id) /\ round' = round
        BY <1>3, <2>2, <3>1 DEF BindMedia, rowVars
      <3> QED BY <2>1, <3>2, CpBind
    <2>3. CASE pc = "bindProbe"
      <3>1. PICK id : id = IdIn(art, Probe)
        OBVIOUS
      <3>2. Bind(k, id) /\ round' = round
        BY <1>3, <2>1, <2>3, <3>1 DEF BindMedia, rowVars
      <3>3. id \in DOMAIN art /\ art[id] = Probe
        BY <2>3, <3>1, IdOfHeld DEF StoreInv, Prepared
      <3>4. Cp(k) \in DOMAIN art /\ art[Cp(k)] = Probe
        BY <2>1, CpKept DEF StoreInv, KeptAt, FitInv, ProbeIs
      <3>5. Cp(k) = id
        BY <3>3, <3>4 DEF StoreInv, Unique
      <3> QED BY <3>2, <3>5, CpBind
    <2> QED BY <1>3, <2>2, <2>3, StepPlaces
  <1>4. ~(k = G("asr_comparison") /\ BindCompare)
    BY StepPlaces DEF FitInv, Missing
  <1>5. CASE \/ k = G("merge_plan") /\ PlanStage
             \/ k = G("transcript") /\ SaveTranscript
             \/ k = G("ata_result") /\ SaveAtaResult
    <2>1. UNCHANGED <<cp, round>>
      BY <1>5 DEF PlanStage, SaveTranscript, SaveAtaResult, Has, dataVars, rowVars
    <2> QED BY <2>1, CpSame
  <1>6. CASE k[1] = "selection_batch" /\ SaveBatch
    <2>1. PICK key : key = <<"selection_batch", Batch>>
      OBVIOUS
    <2>2. key \in Keys /\ key # k
      <3>1. Batch \in Batches
        BY <1>6 DEF SaveBatch, Batch, TypeInv, TypeOK, LocalsOK
      <3>2. Cp(key) = 0 /\ Cp(k) # 0
        BY <1>6, <2>1 DEF SaveBatch, Has
      <3> QED BY <2>1, <3>1, <3>2, KeysOfKinds
    <2>3. PICK id : Bind(key, id) /\ round' = round
      BY <1>6, <2>1 DEF SaveBatch, Publish, Saved, Artifact, KeyOf, rowVars
    <2> QED BY <2>2, <2>3, CpBind
  <1>7. \A s \in Slots : ~(Succeed(s) /\ CallKeyOf(slot[s].inv) = k)
    BY AnswersMissing
  <1> QED BY <1>1, <1>2, <1>3, <1>4, <1>5, <1>6, <1>7 DEF Writes

\* The sources of a stage of a round are its needs, but for a resolution and its review;
\* those of a shared stage are shared.
LEMMA SourcesNeeded ==
    ASSUME NEW k \in Keys
    PROVE  /\ k[1] \in BuiltKinds => Sources(k) = Needs(k)
           /\ k[1] \in SharedStages => \A n \in Needs(k) : n[1] \in SharedStages
           /\ \A n \in Needs(k) : n \in DecisionKeys => k \in DecisionKeys \/ k = G("transcript")
  <1> USE DEF G, Sources, Needs, ArmKey
  <1>1. k[1] \in BuiltKinds => Sources(k) = Needs(k)
    BY DEF BuiltKinds
  <1>2. k[1] \in SharedStages => \A n \in Needs(k) : n[1] \in SharedStages
    BY DEF SharedStages
  <1>3. \A n \in Needs(k) : n \in DecisionKeys => k[1] \in {"review_queue", "review_resolution",
                                                            "edit_resolution", "transcript"}
    BY DEF DecisionKeys
  <1>4. k[1] \in {"review_queue", "review_resolution", "edit_resolution", "transcript"} =>
          k = G(k[1])
    BY KeyShape
  <1> QED BY <1>1, <1>2, <1>3, <1>4 DEF DecisionKeys

\* A new round takes over what it does not drop.
LEMMA RetryTakes ==
    ASSUME TypeInv, RetryRun, NEW k \in Keys
    PROVE  Cp(k)' = IF k[1] \in RoundStages /\ Dropped(k) THEN 0 ELSE Cp(k)
  <1>0. RoundStages \cap SharedStages = {} /\ (k[1] \in RoundStages \/ k[1] \in SharedStages)
    BY KeyShape DEF RoundStages, SharedStages, Kinds
  <1>1. round' = round + 1
    BY DEF RetryRun
  <1>2. round \in Nat /\ 0 \in 0..MaxRounds /\ 0 # round + 1
    BY BoundsAssumption DEF TypeInv, TypeOK, RowsOK, Rounds
  <1>3. CASE k[1] \in SharedStages
    <2>1. Cp(k) = cp[0][k] /\ Cp(k)' = cp'[0][k]
      BY <1>3 DEF Cp, RoundOf
    <2>2. cp'[0][k] = cp[0][k]
      BY <1>2, RetryCells
    <2> QED BY <1>0, <1>3, <2>1, <2>2
  <1>4. CASE k[1] \in RoundStages
    <2>1. Cp(k) = cp[round][k] /\ Cp(k)' = cp'[round + 1][k]
      BY <1>0, <1>1, <1>4 DEF Cp, RoundOf
    <2>2. cp'[round + 1][k] = IF k[1] \in Excluded \/ k \in FailedKeys THEN 0 ELSE cp[round][k]
      BY RetryCells
    <2> QED BY <1>4, <2>1, <2>2 DEF Dropped
  <1> QED BY <1>0, <1>3, <1>4

\* What a publication with a checkpoint leaves there.
LEMMA PublishThere ==
    ASSUME TypeInv, NEW a, KeyOf(a) \in Keys, Publish(a), UNCHANGED round
    PROVE  /\ art'[Cp(KeyOf(a))'] = a
           /\ \A k \in Keys : k # KeyOf(a) => Cp(k)' = Cp(k)
  <1>1. PICK id, key : id = IdIn(art, a) /\ key = KeyOf(a)
    OBVIOUS
  <1>2. Bind(key, id) /\ art' = With(art, a) /\ art \in Seq(ArtifactRows)
    BY <1>1 DEF Publish, PublishOnly, TypeInv, TypeOK, DataOK
  <1>3. Cp(key)' = id /\ \A k \in Keys : k # key => Cp(k)' = Cp(k)
    BY <1>1, <1>2, CpBind
  <1>4. art'[id] = a
    BY <1>1, <1>2, WithHolds
  <1> QED BY <1>1, <1>3, <1>4

\* A publication fits a key when it reads exactly the key's sources, which are there.
Fits(k, deps) == /\ \A n \in Sources(k) : Has(n)
                 /\ deps = {Cp(n) : n \in Sources(k)}

LEMMA TimelineBuilt ==
    ASSUME TypeInv, StoreInv, FitInv, BindMedia, NEW k \in Keys, k = G("timeline_audio"),
           ~Has(k), Has(k)'
    PROVE  Fits(k, art'[Cp(k)'].deps)
  <1>0. pc \in {"bindProbe", "bindTimeline"} /\ round' = round /\ art' = art
    BY StepPlaces DEF BindMedia, rowVars
  <1>1. k # G("media_probe") /\ G("media_probe") \in Keys
    BY StageKeys DEF G
  <1>2. PICK id, p : id = TimelineId /\ p = IdIn(art, Probe)
    OBVIOUS
  <1>3. pc = "bindTimeline"
    <2> SUFFICES ASSUME pc = "bindProbe" PROVE FALSE
      BY <1>0
    <2>1. Bind(G("media_probe"), p)
      BY <1>2 DEF BindMedia
    <2>2. Cp(k)' = Cp(k)
      BY <1>0, <1>1, <2>1, CpBind
    <2> QED BY <2>2 DEF Has
  <1>4. Bind(k, id)
    BY <1>2, <1>3 DEF BindMedia
  <1>5. Cp(k)' = id
    BY <1>0, <1>4, CpBind
  <1>6. Holds(art, Probe) /\ Holds(art, Timeline)
    BY <1>0 DEF StoreInv, Prepared
  <1>7. With(art, Probe) = art
    BY <1>6 DEF With, Holds
  <1>8. art[id] = Timeline
    BY <1>2, <1>6, <1>7, IdOfHeld DEF TimelineId
  <1>9. art[id].deps = {p}
    BY <1>2, <1>8 DEF Timeline, Artifact
  <1>10. Has(G("media_probe"))
    BY <1>3 DEF FitInv, Missing
  <1>11. p \in DOMAIN art /\ art[p] = Probe
    BY <1>2, <1>6, IdOfHeld
  <1>12. Cp(G("media_probe")) \in DOMAIN art /\ art[Cp(G("media_probe"))] = Probe
    BY <1>1, <1>10, CpKept DEF StoreInv, KeptAt, FitInv, ProbeIs
  <1>13. Cp(G("media_probe")) = p
    BY <1>11, <1>12 DEF StoreInv, Unique
  <1>14. Sources(k) = {G("media_probe")}
    BY DEF Sources, G
  <1> QED BY <1>0, <1>5, <1>9, <1>10, <1>13, <1>14 DEF Fits

LEMMA ComparisonBuilt ==
    ASSUME TypeInv, StoreInv, PlaceInv, BindCompare, NEW k \in Keys, k = G("asr_comparison")
    PROVE  Fits(k, art'[Cp(k)'].deps)
  <1>0. pc = "bindCompare" /\ round' = round /\ art' = art
    BY StepPlaces DEF BindCompare, rowVars
  <1>1. PICK id : id = IdIn(art, Comparison)
    OBVIOUS
  <1>2. Bind(k, id)
    BY <1>1 DEF BindCompare
  <1>3. Cp(k)' = id
    BY <1>0, <1>2, CpBind
  <1>4. art[id] = Comparison
    BY <1>0, <1>1, IdOfHeld DEF StoreInv, Prepared
  <1>5. art[id].deps = {Cp(G("base_asr")), Cp(G("peer_asr"))}
    BY <1>4 DEF Comparison, Artifact
  <1>6. Has(G("base_asr")) /\ Has(G("peer_asr"))
    BY <1>0 DEF PlaceInv, AfterUpload, AfterBase, AfterPeer
  <1>7. Sources(k) = {G("base_asr"), G("peer_asr")}
    BY DEF Sources, G
  <1> QED BY <1>0, <1>3, <1>5, <1>6, <1>7 DEF Fits

\* The stages that _save.
LEMMA SavedBuilt ==
    ASSUME TypeInv, StoreInv, PlaceInv, FitInv, NEW k \in Keys, ~Has(k), Has(k)',
           \/ k = G("merge_plan") /\ PlanStage
           \/ k[1] = "selection_batch" /\ SaveBatch
           \/ k = G("transcript") /\ SaveTranscript
           \/ k = G("ata_result") /\ SaveAtaResult
    PROVE  Fits(k, art'[Cp(k)'].deps)
  <1>0. k[1] = "selection_batch" \/ k = G(k[1])
    BY DEF G
  <1>1. ASSUME NEW a, NEW deps, Publish(a), KeyOf(a) = k, a.deps = deps, UNCHANGED round,
               \A n \in Sources(k) : Has(n), deps = {Cp(n) : n \in Sources(k)}
        PROVE  Fits(k, art'[Cp(k)'].deps)
    <2>1. art'[Cp(k)'] = a
      BY <1>1, PublishThere
    <2> QED BY <1>1, <2>1 DEF Fits
  <1>2. CASE k = G("merge_plan") /\ PlanStage
    <2>1. PICK cases :
             Publish(Saved(G("merge_plan"), {Cp(G("base_asr")), Cp(G("peer_asr")),
                                             Cp(ArmKey("qwen")), Cp(ArmKey("kimi"))}, cases))
      BY <1>2 DEF PlanStage, Has
    <2>2. PICK a : /\ a = Saved(G("merge_plan"), {Cp(G("base_asr")), Cp(G("peer_asr")),
                                                  Cp(ArmKey("qwen")), Cp(ArmKey("kimi"))}, cases)
                   /\ Publish(a)
      BY <2>1
    <2>3. KeyOf(a) = k /\ round' = round
          /\ a.deps = {Cp(G("base_asr")), Cp(G("peer_asr")), Cp(ArmKey("qwen")), Cp(ArmKey("kimi"))}
      BY <1>2, <2>2 DEF PlanStage, rowVars, Saved, Artifact, KeyOf, G
    <2>4. Sources(k) = {G("base_asr"), G("peer_asr"), ArmKey("qwen"), ArmKey("kimi")}
      BY <1>2 DEF Sources, G
    <2>5. pc = "plan"
      BY <1>2, StepPlaces
    <2>6. \A n \in Sources(k) : Has(n)
      BY <2>4, <2>5 DEF PlaceInv, AfterUpload, AfterBase, AfterPeer, Reading, FitInv, Places, Arms
    <2> QED BY <1>1, <2>2, <2>3, <2>4, <2>6
  <1>3. CASE k[1] = "selection_batch" /\ SaveBatch
    <2>1. PICK a : /\ a = Saved(<<"selection_batch", Batch>>, {Cp(G("merge_plan"))}, {})
                   /\ Publish(a)
      BY <1>3 DEF SaveBatch
    <2>2. KeyOf(a) = <<"selection_batch", Batch>> /\ a.deps = {Cp(G("merge_plan"))} /\ round' = round
      BY <1>3, <2>1 DEF SaveBatch, Saved, Artifact, KeyOf, rowVars
    <2>3. KeyOf(a) \in Keys
      BY <1>3, <2>2 DEF SaveBatch, Keys, Batch, TypeInv, TypeOK, LocalsOK
    <2>4. k = KeyOf(a)
      BY <2>1, <2>2, <2>3, PublishThere DEF Has
    <2>5. Sources(k) = {G("merge_plan")}
      BY <1>3 DEF Sources
    <2>6. Has(G("merge_plan"))
      BY <1>3, StepPlaces DEF FitInv, Places, AfterPlan
    <2> QED BY <1>1, <2>1, <2>2, <2>4, <2>5, <2>6
  <1>4. CASE k = G("transcript") /\ SaveTranscript
    <2>1. PICK a : /\ a = Saved(G("transcript"), {Cp(G("base_asr")), Cp(G("edit_resolution"))}, {})
                   /\ Publish(a)
      BY <1>4 DEF SaveTranscript, Has
    <2>2. KeyOf(a) = k /\ a.deps = {Cp(G("base_asr")), Cp(G("edit_resolution"))} /\ round' = round
      BY <1>4, <2>1 DEF SaveTranscript, Saved, Artifact, KeyOf, rowVars, G
    <2>3. Sources(k) = {G("base_asr"), G("edit_resolution")}
      BY <1>4 DEF Sources, G
    <2>4. pc = "transcript"
      BY <1>4, StepPlaces
    <2>5. \A n \in Sources(k) : Has(n)
      BY <2>3, <2>4 DEF PlaceInv, AfterUpload, AfterBase, Reading
    <2> QED BY <1>1, <2>1, <2>2, <2>3, <2>5
  <1>5. CASE k = G("ata_result") /\ SaveAtaResult
    <2>1. PICK a : /\ a = Saved(G("ata_result"), {Cp(G("ata_response")), Cp(G("transcript")),
                                                  Cp(G("timeline_audio"))}, {})
                   /\ Publish(a)
      BY <1>5 DEF SaveAtaResult, Has
    <2>2. KeyOf(a) = k /\ round' = round
          /\ a.deps = {Cp(G("ata_response")), Cp(G("transcript")), Cp(G("timeline_audio"))}
      BY <1>5, <2>1 DEF SaveAtaResult, Saved, Artifact, KeyOf, rowVars, G
    <2>3. Sources(k) = {G("ata_response"), G("transcript"), G("timeline_audio")}
      BY <1>5 DEF Sources, G
    <2>4. Has(G("ata_response"))
      BY <1>5, StepPlaces DEF FitInv, Places, AfterAta
    <2>5. Needs(G("ata_response")) = {G("media_object"), G("timeline_audio"), G("transcript")}
      BY DEF Needs, Sources, G
    <2>6. \A n \in Sources(k) : Has(n)
      BY <2>3, <2>4, <2>5, StageKeys DEF FitInv, Complete
    <2> QED BY <1>1, <2>1, <2>2, <2>3, <2>6
  <1> QED BY <1>2, <1>3, <1>4, <1>5

\* The answers that a call leaves.
LEMMA CallBuilt ==
    ASSUME TypeInv, CallInv, StoreInv, JobInv, PlaceInv, FitInv, NEW s \in Slots, Succeed(s),
           NEW k \in Keys, k = CallKeyOf(slot[s].inv), k[1] \in BuiltKinds
    PROVE  Fits(k, art'[Cp(k)'].deps)
  <1>1. PICK i : i = slot[s].inv
    OBVIOUS
  <1>2. /\ InFlight(s) /\ round' = round /\ i \in DOMAIN inv /\ k = CallKeyOf(i)
        /\ pc \notin Ending /\ slot[s].inv # 0
    BY <1>1, SucceedRow, AnsweredCall DEF Succeed
  <1>3. PICK op, sc : op = OpOf(s) /\ sc = ScopeOf(s)
    OBVIOUS
  <1>4. /\ inv[i].op = op /\ inv[i].scope = sc /\ inv[i].inputs = Inputs(op, sc)
        /\ k = <<ResultKind(op), sc>>
        /\ pc = "select" => Has(<<"selection_batch", Batch>>)
    BY <1>1, <1>2, <1>3 DEF InFlight, CallKeyOf, Has
  <1>5. PICK a : /\ a = Artifact(k, inv[i].inputs \cup IF inv[i].op = "ata"
                                                      THEN {Cp(G("timeline_audio"))} ELSE {}, i, {})
                 /\ Publish(a)
    BY <1>1, <1>2 DEF Succeed, CallKeyOf
  <1>6. /\ KeyOf(a) = k
        /\ a.deps = Inputs(op, sc) \cup IF op = "ata" THEN {Cp(G("timeline_audio"))} ELSE {}
    BY <1>4, <1>5 DEF Artifact, KeyOf
  <1>7. art'[Cp(k)'] = a
    BY <1>2, <1>5, <1>6, PublishThere
  <1>8. IF s = "main" THEN pc \in DOMAIN MainCall ELSE s \in Arms /\ pc \in {"qwen", "kimi", "collect"}
    <2>1. s = "main" \/ s \in Arms
      BY DEF Slots
    <2>2. /\ slot["main"].inv # 0 => pc \in DOMAIN MainCall
          /\ \/ pc \in Ending
             \/ s = "main"
             \/ s \in Arms /\ pc \in {"qwen", "kimi", "collect"}
      BY <1>2 DEF TypeInv, CallsInPlace, CallInv, MainInPlace, Ending
    <2> QED BY <1>2, <2>1, <2>2
  <1>9. CASE s = "main" /\ pc = "upload"
    <2>1. op = "media_upload"
      BY <1>3, <1>9 DEF OpOf, MainCall
    <2>2. k[1] = "media_object" /\ a.deps = {Cp(G("timeline_audio"))}
      BY <1>4, <1>6, <2>1 DEF ResultKind, Inputs
    <2>3. Sources(k) = {G("timeline_audio")}
      BY <2>2 DEF Sources
    <2>4. Has(G("timeline_audio"))
      BY <1>9 DEF FitInv, Places
    <2> QED BY <1>7, <2>2, <2>3, <2>4 DEF Fits
  <1>10. CASE s = "main" /\ pc \in {"base", "peer"}
    <2>1. op \in {"qwen_asr", "doubao_asr"}
      BY <1>3, <1>10 DEF OpOf, MainCall
    <2> QED BY <1>4, <2>1 DEF ResultKind, BuiltKinds
  <1>11. CASE s = "main" /\ pc = "select"
    <2>1. op = "glm_selection" /\ sc = Batch
      BY <1>3, <1>11 DEF OpOf, ScopeOf, CallScope, MainCall
    <2>2. k = <<"selection_result", Batch>> /\ a.deps = {Cp(<<"selection_batch", Batch>>)}
      BY <1>4, <1>6, <2>1 DEF ResultKind, Inputs
    <2>3. Sources(k) = {<<"selection_batch", Batch>>}
      BY <2>2 DEF Sources
    <2> QED BY <1>4, <1>7, <1>11, <2>2, <2>3 DEF Fits
  <1>12. CASE s = "main" /\ pc = "ata"
    <2>1. op = "ata"
      BY <1>3, <1>12 DEF OpOf, MainCall
    <2>2. /\ k[1] = "ata_response"
          /\ a.deps = {Cp(G("media_object")), Cp(G("timeline_audio")), Cp(G("transcript"))}
      BY <1>4, <1>6, <2>1 DEF ResultKind, Inputs
    <2>3. Sources(k) = {G("media_object"), G("timeline_audio"), G("transcript")}
      BY <2>2 DEF Sources
    <2>4. Has(G("media_object")) /\ Has(G("transcript"))
      BY <1>12 DEF PlaceInv, AfterUpload, Reading
    <2>5. Needs(G("media_object")) = {G("timeline_audio")}
      BY DEF Needs, Sources, G
    <2>6. Has(G("timeline_audio"))
      BY <2>4, <2>5, StageKeys DEF FitInv, Complete
    <2> QED BY <1>7, <2>2, <2>3, <2>4, <2>6 DEF Fits
  <1>13. CASE s \in Arms
    <2>1. op \in {"qwen_correction", "kimi_correction"}
      BY <1>3, <1>13 DEF OpOf, ArmOp, Arms
    <2>2. /\ k[1] = "correction_transcript"
          /\ a.deps = {Cp(G("base_asr")), Cp(G("peer_asr")), Cp(G("job_input")),
                       Cp(G("asr_comparison"))}
      BY <1>4, <1>6, <2>1 DEF ResultKind, Inputs
    <2>3. Sources(k) = {G("base_asr"), G("peer_asr"), G("job_input"), G("asr_comparison")}
      BY <2>2 DEF Sources
    <2>4. pc \in Reading
      BY <1>8, <1>13 DEF Reading, Arms
    <2>5. pc \in AfterBase /\ pc \in AfterPeer /\ pc \in AfterCompare
      BY <1>8, <1>13 DEF Arms, AfterUpload, AfterBase, AfterPeer, AfterCompare, Reading
    <2>6. \A n \in Sources(k) : Has(n)
      BY <2>3, <2>4, <2>5 DEF PlaceInv, JobInv, JobReady
    <2> QED BY <1>7, <2>2, <2>3, <2>6 DEF Fits
  <1>14. DOMAIN MainCall = {"upload", "base", "peer", "select", "ata"}
    BY CallLabels
  <1> QED BY <1>8, <1>9, <1>10, <1>11, <1>12, <1>13, <1>14

\* A new checkpoint of a stage that is computed from others.
LEMMA BuiltNow ==
    ASSUME TypeInv, CallInv, StoreInv, JobInv, PlaceInv, FitInv, Next, ~RetryRun, ~Invalidate,
           NEW k \in Keys, k[1] \in BuiltKinds, k \notin DecisionKeys, ~Has(k), Has(k)'
    PROVE  Fits(k, art'[Cp(k)'].deps)
  <1>1. Writes(k)
    BY CpStays DEF Has
  <1>2. k # G("job_input") /\ k # G("media_probe")
    BY DEF G, BuiltKinds
  <1>3. CASE k = G("timeline_audio") /\ BindMedia
    BY <1>3, TimelineBuilt
  <1>4. CASE k = G("asr_comparison") /\ BindCompare
    BY <1>4, ComparisonBuilt
  <1>5. CASE \/ k = G("merge_plan") /\ PlanStage
             \/ k[1] = "selection_batch" /\ SaveBatch
             \/ k = G("transcript") /\ SaveTranscript
             \/ k = G("ata_result") /\ SaveAtaResult
    BY <1>5, SavedBuilt
  <1>6. CASE \E s \in Slots : Succeed(s) /\ CallKeyOf(slot[s].inv) = k
    BY <1>6, CallBuilt
  <1> QED BY <1>1, <1>2, <1>3, <1>4, <1>5, <1>6 DEF Writes

\* A new checkpoint comes where what it needs is there.
LEMMA NeedsNow ==
    ASSUME TypeInv, CallInv, StoreInv, JobInv, PlaceInv, FitInv, Next, ~RetryRun, ~Invalidate,
           NEW k \in Keys, k \notin DecisionKeys, ~Has(k), Has(k)'
    PROVE  \A n \in Needs(k) : Has(n)
  <1>0. k[1] \notin {"edit_resolution", "review_resolution", "review_queue"}
    <2>1. k[1] \in {"edit_resolution", "review_resolution", "review_queue"} => k = G(k[1])
      BY KeyShape
    <2> QED BY <2>1 DEF DecisionKeys
  <1>1. CASE k[1] \in BuiltKinds
    <2>1. Needs(k) = Sources(k)
      BY <1>1, SourcesNeeded
    <2> QED BY <1>1, <2>1, BuiltNow DEF Fits
  <1>2. CASE k[1] \in {"base_asr", "peer_asr"}
    <2>1. Writes(k)
      BY CpStays DEF Has
    <2>2. PICK s \in Slots : Succeed(s) /\ CallKeyOf(slot[s].inv) = k
      BY <1>2, <2>1 DEF Writes, G, DecisionKeys
    <2>3. PICK i : i = slot[s].inv
      OBVIOUS
    <2>4. InFlight(s) /\ pc \notin Ending /\ slot[s].inv # 0 /\ k[1] = ResultKind(OpOf(s))
      BY <2>2, <2>3, AnsweredCall DEF InFlight, CallKeyOf, Succeed
    <2>5. s = "main" /\ pc \in DOMAIN MainCall
      BY <1>2, <2>4 DEF ResultKind, OpOf, ArmOp, CallInv, MainInPlace
    <2>6. pc \in {"base", "peer"}
      BY <1>2, <2>4, <2>5, CallLabels DEF ResultKind, OpOf, MainCall
    <2>7. Has(G("media_object"))
      BY <2>6 DEF PlaceInv, AfterUpload
    <2>8. Needs(k) = {G("media_object")}
      BY <1>2 DEF Needs
    <2> QED BY <2>7, <2>8
  <1>3. CASE k[1] \notin BuiltKinds \cup {"base_asr", "peer_asr"}
    <2>1. k[1] \in {"media_probe", "job_input", "srt_render"}
      BY <1>0, <1>3, KeyShape, KindSet DEF BuiltKinds
    <2>2. Needs(k) = {}
      BY <2>1 DEF Needs, Sources
    <2> QED BY <2>2
  <1> QED BY <1>1, <1>2, <1>3

\* A decision binds the resolution and a queue for exactly that resolution.
Queued(ids) ==
    /\ BindAll(ids) /\ ptr' = Activate(ptr, ids) /\ DOMAIN ids \subseteq DecisionKeys
    /\ G("edit_resolution") \in DOMAIN ids /\ G("review_queue") \in DOMAIN ids
    /\ \A k \in DOMAIN ids : ids[k] # 0
    /\ art'[ids[G("review_queue")]].deps = {ids[G("edit_resolution")]}

LEMMA FinalizeQueues == ASSUME TypeInv, Finalize PROVE \E ids : Queued(ids)
  <1>1. PICK deps, items :
          LET final == Saved(G("edit_resolution"), deps, items)
              art1  == With(art, final)
              queue == Saved(G("review_queue"), {IdIn(art, final)}, items)
              ids   == [k \in {G("edit_resolution"), G("review_queue")} |->
                          IF k = G("edit_resolution") THEN IdIn(art, final)
                          ELSE IdIn(art1, queue)]
          IN  art' = With(art1, queue) /\ BindAll(ids) /\ ptr' = Activate(ptr, ids)
    BY DEF Finalize
  <1>2. PICK final : final = Saved(G("edit_resolution"), deps, items)
    OBVIOUS
  <1>3. PICK i, u : i = IdIn(art, final) /\ u = With(art, final)
    OBVIOUS
  <1>4. PICK queue : queue = Saved(G("review_queue"), {i}, items)
    OBVIOUS
  <1>5. PICK j : j = IdIn(u, queue)
    OBVIOUS
  <1>6. PICK ids : ids = [k \in {G("edit_resolution"), G("review_queue")} |->
                            IF k = G("edit_resolution") THEN i ELSE j]
    OBVIOUS
  <1>7. BindAll(ids) /\ ptr' = Activate(ptr, ids) /\ art' = With(u, queue)
    BY <1>1, <1>2, <1>3, <1>4, <1>5, <1>6
  <1>8. art \in Seq(ArtifactRows)
    BY DEF TypeInv, TypeOK, DataOK
  <1>9. PICK T : u \in Seq(T)
    BY <1>3, <1>8, WithSeq
  <1>10. i # 0 /\ j # 0
    BY <1>3, <1>5, <1>8, <1>9, IdInPositive
  <1>11. art'[j] = queue
    BY <1>5, <1>7, <1>9, WithHolds
  <1>12. queue.deps = {i}
    BY <1>4 DEF Saved, Artifact
  <1>13. /\ DOMAIN ids = {G("edit_resolution"), G("review_queue")}
         /\ ids[G("edit_resolution")] = i /\ ids[G("review_queue")] = j
    BY <1>6 DEF G
  <1> QED BY <1>7, <1>10, <1>11, <1>12, <1>13 DEF Queued, DecisionKeys

LEMMA ReviewQueues == ASSUME TypeInv, ResolveReview PROVE \E ids : Queued(ids)
  <1>1. PICK q \in Queues :
          LET base   == Cp(G("base_asr"))
              review == Saved(G("review_resolution"), {q, base}, {})
              art1   == With(art, review)
              final  == Saved(G("edit_resolution"),
                              {base, Cp(G("merge_plan")), Cp(G("edit_resolution")),
                               IdIn(art, review)}, {})
              art2   == With(art1, final)
              queue  == Saved(G("review_queue"), {IdIn(art1, final)}, {})
              ids    == [k \in {G("review_resolution"), G("edit_resolution"),
                                G("review_queue")} |->
                           CASE k = G("review_resolution") -> IdIn(art, review)
                             [] k = G("edit_resolution")   -> IdIn(art1, final)
                             [] k = G("review_queue")      -> IdIn(art2, queue)]
          IN  art' = With(art2, queue) /\ BindAll(ids) /\ ptr' = Activate(ptr, ids)
    BY DEF ResolveReview
  <1>2. PICK review : review = Saved(G("review_resolution"), {q, Cp(G("base_asr"))}, {})
    OBVIOUS
  <1>3. PICK h, u : h = IdIn(art, review) /\ u = With(art, review)
    OBVIOUS
  <1>4. PICK final : final = Saved(G("edit_resolution"),
                                   {Cp(G("base_asr")), Cp(G("merge_plan")),
                                    Cp(G("edit_resolution")), h}, {})
    OBVIOUS
  <1>5. PICK i, v : i = IdIn(u, final) /\ v = With(u, final)
    OBVIOUS
  <1>6. PICK queue : queue = Saved(G("review_queue"), {i}, {})
    OBVIOUS
  <1>7. PICK j : j = IdIn(v, queue)
    OBVIOUS
  <1>8. PICK ids : ids = [k \in {G("review_resolution"), G("edit_resolution"),
                                 G("review_queue")} |->
                            CASE k = G("review_resolution") -> h
                              [] k = G("edit_resolution")   -> i
                              [] k = G("review_queue")      -> j]
    OBVIOUS
  <1>9. BindAll(ids) /\ ptr' = Activate(ptr, ids) /\ art' = With(v, queue)
    BY <1>1, <1>2, <1>3, <1>4, <1>5, <1>6, <1>7, <1>8
  <1>10. art \in Seq(ArtifactRows)
    BY DEF TypeInv, TypeOK, DataOK
  <1>11. PICK T : u \in Seq(T)
    BY <1>3, <1>10, WithSeq
  <1>12. PICK W : v \in Seq(W)
    BY <1>5, <1>11, WithSeq
  <1>13. h # 0 /\ i # 0 /\ j # 0
    BY <1>3, <1>5, <1>7, <1>10, <1>11, <1>12, IdInPositive
  <1>14. art'[j] = queue
    BY <1>7, <1>9, <1>12, WithHolds
  <1>15. queue.deps = {i}
    BY <1>6 DEF Saved, Artifact
  <1>16. /\ DOMAIN ids = {G("review_resolution"), G("edit_resolution"), G("review_queue")}
         /\ ids[G("edit_resolution")] = i /\ ids[G("review_queue")] = j
         /\ ids[G("review_resolution")] = h
    BY <1>8 DEF G
  <1> QED BY <1>9, <1>13, <1>14, <1>15, <1>16 DEF Queued, DecisionKeys

\* No transcript is there while a resolution is undecided.
LEMMA TextSealed ==
    ASSUME TypeInv, StoreInv, ReadInv, FitInv, Has(G("transcript"))
    PROVE  SealedFinal
  <1>0. G("transcript") \in Keys /\ G("edit_resolution") \in Keys /\ G("base_asr") \in Keys
    BY StageKeys
  <1>1. PICK t : t = Cp(G("transcript"))
    OBVIOUS
  <1>2. t \in DOMAIN art /\ art[t].kind = "transcript"
    <2>1. KeptAt(Cp(G("transcript")), G("transcript"))
      BY <1>0, CpKept DEF StoreInv
    <2> QED BY <1>1, <2>1 DEF KeptAt, KeyOf, G
  <1>3. PICK e \in art[t].deps : e \in DOMAIN art /\ art[e].kind = "edit_resolution" /\ Sealed(e)
    BY <1>2 DEF ReadInv, SealedText
  <1>4. Sources(G("transcript")) = {G("base_asr"), G("edit_resolution")}
        /\ G("transcript")[1] \in BuiltKinds
    BY DEF Sources, G, BuiltKinds
  <1>5. art[t].deps = {Cp(G("base_asr")), Cp(G("edit_resolution"))}
    BY <1>0, <1>1, <1>4 DEF FitInv, Exact
  <1>6. Has(G("base_asr")) /\ Has(G("edit_resolution"))
    <2>1. Needs(G("transcript")) = Sources(G("transcript"))
      BY <1>0, <1>4, SourcesNeeded
    <2> QED BY <1>0, <1>4, <2>1 DEF FitInv, Complete
  <1>7. KeptAt(Cp(G("base_asr")), G("base_asr"))
    BY <1>0, <1>6, CpKept DEF StoreInv
  <1>8. e = Cp(G("edit_resolution"))
    BY <1>3, <1>5, <1>7 DEF KeptAt, KeyOf, G
  <1> QED BY <1>3, <1>6, <1>8 DEF SealedFinal, Has

\* What a step leaves of the checkpoints that fit: a new round and an invalidation drop
\* downwards, a decision binds its resolution with the queue, any other step only adds.
FitsStep == Complete' /\ Exact'

LEMMA FitRetry ==
    ASSUME TypeInv, FitInv, RetryRun
    PROVE  FitsStep
  <1>1. ASSUME NEW k \in Keys, Has(k)'
        PROVE  /\ Has(k) /\ Cp(k)' = Cp(k)
               /\ \A n \in Needs(k) : n \in Keys /\ Has(n) /\ Cp(n)' = Cp(n)
    <2>1. Has(k) /\ Cp(k)' = Cp(k) /\ ~(k[1] \in RoundStages /\ Dropped(k))
      BY <1>1, RetryTakes DEF Has
    <2>2. ASSUME NEW n \in Needs(k) PROVE n \in Keys /\ Has(n) /\ Cp(n)' = Cp(n)
      <3>1. n \in Keys /\ Has(n)
        BY <2>1, NeedsKeys DEF FitInv, Complete
      <3>2. ~(n[1] \in RoundStages /\ Dropped(n))
        <4> SUFFICES ASSUME n[1] \in RoundStages, Dropped(n) PROVE FALSE
          OBVIOUS
        <4>1. k[1] \in Excluded
          BY DroppedDown
        <4>2. k[1] \notin SharedStages
          <5>1. n[1] \notin SharedStages
            BY DEF RoundStages, SharedStages
          <5> QED BY <5>1, SourcesNeeded
        <4>3. k[1] \in RoundStages
          BY <4>2, KeyShape DEF Kinds
        <4> QED BY <2>1, <4>1, <4>3 DEF Dropped
      <3> QED BY <3>1, <3>2, RetryTakes
    <2> QED BY <2>1, <2>2
  <1>2. Complete'
    BY <1>1 DEF Complete, Has
  <1>3. art' = art
    BY DEF RetryRun
  <1>4. ASSUME NEW k \in Keys, Has(k)', k[1] \in BuiltKinds
        PROVE  art'[Cp(k)'].deps = {Cp(n)' : n \in Sources(k)}
    <2>1. Sources(k) = Needs(k)
      BY <1>4, SourcesNeeded
    <2>2. art[Cp(k)].deps = {Cp(n) : n \in Sources(k)}
      BY <1>1, <1>4 DEF FitInv, Exact
    <2>3. art'[Cp(k)'].deps = {Cp(n) : n \in Sources(k)}
      BY <1>1, <1>3, <1>4, <2>2
    <2> QED BY <1>1, <1>4, <2>1, <2>3
  <1>5. Exact'
    BY <1>4 DEF Exact
  <1> QED BY <1>2, <1>5 DEF FitsStep

LEMMA FitInvalidate ==
    ASSUME TypeInv, FitInv, Invalidate
    PROVE  FitsStep
  <1>1. ASSUME NEW k \in Keys, Has(k)'
        PROVE  /\ Has(k) /\ Cp(k)' = Cp(k)
               /\ \A n \in Needs(k) : n \in Keys /\ Has(n) /\ Cp(n)' = Cp(n)
    <2>1. Has(k) /\ Cp(k)' = Cp(k) /\ k[1] \notin RoundStages
      BY <1>1, InvalidateDrops DEF Has
    <2>2. k[1] \in SharedStages
      BY <2>1, KeyShape DEF Kinds
    <2>3. ASSUME NEW n \in Needs(k) PROVE n \in Keys /\ Has(n) /\ Cp(n)' = Cp(n)
      <3>1. n \in Keys /\ Has(n)
        BY <2>1, NeedsKeys DEF FitInv, Complete
      <3>2. n[1] \notin RoundStages
        BY <2>2, SourcesNeeded DEF RoundStages, SharedStages
      <3> QED BY <3>1, <3>2, InvalidateDrops
    <2> QED BY <2>1, <2>3
  <1>2. Complete'
    BY <1>1 DEF Complete, Has
  <1>3. art' = art
    BY DEF Invalidate
  <1>4. ASSUME NEW k \in Keys, Has(k)', k[1] \in BuiltKinds
        PROVE  art'[Cp(k)'].deps = {Cp(n)' : n \in Sources(k)}
    <2>1. Sources(k) = Needs(k)
      BY <1>4, SourcesNeeded
    <2>2. art[Cp(k)].deps = {Cp(n) : n \in Sources(k)}
      BY <1>1, <1>4 DEF FitInv, Exact
    <2>3. art'[Cp(k)'].deps = {Cp(n) : n \in Sources(k)}
      BY <1>1, <1>3, <1>4, <2>2
    <2> QED BY <1>1, <1>4, <2>1, <2>3
  <1>5. Exact'
    BY <1>4 DEF Exact
  <1> QED BY <1>2, <1>5 DEF FitsStep

LEMMA FitDecides ==
    ASSUME TypeInv, CallInv, StoreInv, PlaceInv, ReadInv, FitInv, Next, Deciders
    PROVE  FitsStep
  <1>0. ArtStays /\ round' = round /\ ~RetryRun /\ ~Invalidate
    BY ArtStaysAlways, StepPlaces DEF Deciders, Finalize, ResolveReview, rowVars
  <1>1. PICK ids : Queued(ids)
    BY FinalizeQueues, ReviewQueues DEF Deciders
  <1> DEFINE edit  == G("edit_resolution")
             queue == G("review_queue")
  <1>2. \A k \in DecisionKeys : k \in Keys /\ RoundOf(k[1]) = round /\ RoundOf(k[1])' = round'
    BY StageKeys DEF DecisionKeys, RoundOf, SharedStages, G
  <1>3. round \in 0..MaxRounds
    BY BoundsAssumption DEF TypeInv, TypeOK, RowsOK, Rounds
  <1>4. ASSUME NEW k \in DOMAIN ids PROVE Cp(k)' = ids[k] /\ Has(k)'
    <2>1. k \in DecisionKeys
      BY <1>1 DEF Queued
    <2>2. cp'[round][k] = ids[k]
      BY <1>1, <1>2, <1>3, <2>1, BindAllCells DEF Queued
    <2>3. Cp(k)' = cp'[round][k]
      BY <1>0, <1>2, <2>1 DEF Cp
    <2> QED BY <1>1, <2>2, <2>3 DEF Has, Queued
  <1>5. ASSUME NEW k \in Keys, k \notin DecisionKeys PROVE Cp(k)' = Cp(k)
    <2>1. ~Writes(k)
      <3>1. ~LocalWriters
        BY StepPlaces DEF Deciders, LocalWriters, Finalize, SaveBatch
      <3>2. \A s \in Slots : ~Succeed(s)
        <4>1. pc \in {"review", "select"} /\ (pc = "select" => todo = {})
          BY StepPlaces DEF Deciders, Finalize
        <4>2. ASSUME NEW s \in Slots, Succeed(s) PROVE FALSE
          <5>1. slot[s].inv # 0 /\ pc \notin Ending
            BY <4>2, AnsweredCall DEF Succeed
          <5> QED BY <4>1, <5>1 DEF TypeInv, CallsInPlace, Ending
        <4> QED BY <4>2
      <3> QED BY <1>5, <3>1, <3>2 DEF Writes, LocalWriters
    <2> QED BY <1>0, <1>5, <2>1, CpStays
  <1>6. ~Has(G("transcript"))
    <2>1. ~SealedFinal
      BY StepPlaces DEF Deciders, ResolveReview, ReviewAccepted, SealedFinal, PlaceInv
    <2> QED BY <2>1, TextSealed
  <1>7. edit \in DOMAIN ids /\ queue \in DOMAIN ids /\ edit \in Keys /\ queue \in Keys
    BY <1>1, <1>2 DEF Queued, DecisionKeys
  <1>8. Has(edit)' /\ Has(queue)' /\ art'[Cp(queue)'].deps = {Cp(edit)'}
    BY <1>1, <1>4, <1>7 DEF Queued
  <1>9. Has(G("merge_plan"))'
    <2>1. G("merge_plan") \in Keys /\ G("merge_plan") \notin DecisionKeys
      BY StageKeys DEF DecisionKeys, G
    <2>2. Has(G("merge_plan"))
      <3>1. CASE Finalize
        BY <3>1, StepPlaces DEF FitInv, Places, AfterPlan
      <3>2. CASE ResolveReview
        <4>1. PICK q \in Queues : q = Cp(queue)
          BY <3>2 DEF ResolveReview, ReviewAccepted
        <4>2. q # 0
          BY <4>1 DEF Queues, TypeInv, TypeOK, DataOK
        <4>3. Has(queue)
          BY <4>1, <4>2 DEF Has
        <4>4. Needs(queue) = {edit} /\ Needs(edit) = {G("merge_plan"), queue}
          BY DEF Needs, Sources, G
        <4> QED BY <1>7, <4>3, <4>4 DEF FitInv, Complete
      <3> QED BY <3>1, <3>2 DEF Deciders
    <2> QED BY <1>5, <2>1, <2>2 DEF Has
  <1>10. ASSUME NEW k \in Keys, k \notin DecisionKeys, Has(k)'
         PROVE  /\ Has(k) /\ Cp(k)' = Cp(k)
                /\ \A n \in Needs(k) : n \in Keys /\ Has(n) /\ Cp(n)' = Cp(n)
    <2>1. Has(k) /\ Cp(k)' = Cp(k) /\ k # G("transcript")
      BY <1>5, <1>6, <1>10 DEF Has
    <2>2. ASSUME NEW n \in Needs(k) PROVE n \in Keys /\ Has(n) /\ Cp(n)' = Cp(n)
      <3>1. n \in Keys /\ Has(n)
        BY <2>1, NeedsKeys DEF FitInv, Complete
      <3>2. n \notin DecisionKeys
        BY <1>10, <2>1, SourcesNeeded
      <3> QED BY <1>5, <3>1, <3>2
    <2> QED BY <2>1, <2>2
  <1>11. Complete'
    <2>1. ASSUME NEW k \in Keys, k \in DecisionKeys, NEW n \in Needs(k) PROVE Has(n)'
      <3>1. n \in {G("merge_plan"), edit, queue}
        BY <2>1 DEF DecisionKeys, Needs, Sources, G
      <3> QED BY <1>8, <1>9, <3>1
    <2>2. ASSUME NEW k \in Keys, k \notin DecisionKeys, Has(k)', NEW n \in Needs(k) PROVE Has(n)'
      BY <1>10, <2>2 DEF Has
    <2> QED BY <2>1, <2>2 DEF Complete
  <1>12. ASSUME NEW k \in Keys, Has(k)', k[1] \in BuiltKinds
         PROVE  art'[Cp(k)'].deps = {Cp(n)' : n \in Sources(k)}
    <2>1. CASE k \in DecisionKeys
      <3>1. k = queue /\ Sources(k) = {edit}
        BY <1>12, <2>1 DEF DecisionKeys, BuiltKinds, G, Sources
      <3> QED BY <1>8, <3>1
    <2>2. CASE k \notin DecisionKeys
      <3>1. Sources(k) = Needs(k)
        BY <1>12, SourcesNeeded
      <3>2. Has(k) /\ Cp(k)' = Cp(k) /\ \A n \in Sources(k) : Cp(n)' = Cp(n)
        BY <1>10, <1>12, <2>2, <3>1
      <3>3. art[Cp(k)].deps = {Cp(n) : n \in Sources(k)}
        BY <1>12, <3>2 DEF FitInv, Exact
      <3>4. art'[Cp(k)'] = art[Cp(k)]
        BY <1>0, <3>2, SealedKept DEF StoreInv
      <3>5. art'[Cp(k)'].deps = {Cp(n) : n \in Sources(k)}
        BY <3>3, <3>4
      <3> QED BY <3>2, <3>5
    <2> QED BY <2>1, <2>2
  <1>13. Exact'
    BY <1>12 DEF Exact
  <1> QED BY <1>11, <1>13 DEF FitsStep

LEMMA FitAdds ==
    ASSUME TypeInv, CallInv, StoreInv, JobInv, PlaceInv, FitInv, Next, ~RetryRun, ~Invalidate,
           ~Deciders
    PROVE  FitsStep
  <1>0. ArtStays
    BY ArtStaysAlways
  <1>1. ASSUME NEW k \in Keys, Has(k) PROVE Cp(k)' = Cp(k) /\ Has(k)'
    <2>1. CASE k \notin DecisionKeys
      BY <1>1, <2>1, CpFixed DEF Has
    <2>2. CASE k \in DecisionKeys
      <3>1. ~Writes(k)
        BY <2>2 DEF Writes, DecisionKeys, CallKinds, G
      <3> QED BY <1>1, <3>1, CpStays DEF Has
    <2> QED BY <2>1, <2>2
  <1>2. ASSUME NEW k \in Keys, ~Has(k), Has(k)' PROVE k \notin DecisionKeys
    <2> SUFFICES ASSUME k \in DecisionKeys PROVE FALSE
      OBVIOUS
    <2>1. ~Writes(k)
      BY DEF Writes, DecisionKeys, CallKinds, G
    <2>2. Cp(k)' = Cp(k)
      BY <2>1, CpStays
    <2> QED BY <1>2, <2>2 DEF Has
  <1>3. ASSUME NEW k \in Keys, Has(k)', NEW n \in Needs(k) PROVE n \in Keys /\ Has(n)
    <2>1. n \in Keys
      BY NeedsKeys
    <2>2. CASE Has(k)
      BY <2>1, <2>2 DEF FitInv, Complete
    <2>3. CASE ~Has(k)
      BY <1>2, <1>3, <2>1, <2>3, NeedsNow
    <2> QED BY <2>1, <2>2, <2>3
  <1>4. Complete'
    BY <1>1, <1>3 DEF Complete
  <1>5. ASSUME NEW k \in Keys, Has(k)', k[1] \in BuiltKinds
        PROVE  art'[Cp(k)'].deps = {Cp(n)' : n \in Sources(k)}
    <2>1. Sources(k) = Needs(k)
      BY <1>5, SourcesNeeded
    <2>2. \A n \in Sources(k) : Cp(n)' = Cp(n)
      BY <1>1, <1>3, <1>5, <2>1
    <2>3. CASE Has(k)
      <3>1. art'[Cp(k)'] = art[Cp(k)]
        BY <1>0, <1>1, <2>3, SealedKept DEF StoreInv
      <3>2. art'[Cp(k)'].deps = {Cp(n) : n \in Sources(k)}
        BY <1>5, <2>3, <3>1 DEF FitInv, Exact
      <3> QED BY <2>2, <3>2
    <2>4. CASE ~Has(k)
      <3>1. Fits(k, art'[Cp(k)'].deps)
        BY <1>2, <1>5, <2>4, BuiltNow
      <3>2. art'[Cp(k)'].deps = {Cp(n) : n \in Sources(k)}
        BY <3>1 DEF Fits
      <3> QED BY <2>2, <3>2
    <2> QED BY <2>3, <2>4
  <1>6. Exact'
    BY <1>5 DEF Exact
  <1> QED BY <1>4, <1>6 DEF FitsStep

LEMMA ProbeStep ==
    ASSUME TypeInv, CallInv, StoreInv, FitInv, Next
    PROVE  ProbeIs'
  <1> DEFINE probe == G("media_probe")
  <1>0. ArtStays /\ probe \in Keys /\ probe[1] \in SharedStages /\ probe \notin DecisionKeys
    BY ArtStaysAlways, StageKeys DEF SharedStages, DecisionKeys, G
  <1> SUFFICES ASSUME Has(probe)' PROVE art'[Cp(probe)'] = Probe
    BY DEF ProbeIs, Probe, Artifact, G
  <1>1. CASE Has(probe)
    <2>1. Cp(probe)' = Cp(probe)
      <3>1. CASE RetryRun
        BY <1>0, <3>1, RetryTakes DEF RoundStages, SharedStages
      <3>2. CASE Invalidate
        BY <1>0, <3>2, InvalidateDrops DEF RoundStages, SharedStages
      <3> QED BY <1>0, <1>1, <3>1, <3>2, CpFixed
    <2>2. art'[Cp(probe)'] = art[Cp(probe)]
      BY <1>0, <1>1, <2>1, SealedKept DEF StoreInv
    <2> QED BY <1>1, <2>2 DEF FitInv, ProbeIs
  <1>2. CASE ~Has(probe)
    <2>1. Cp(probe)' # Cp(probe)
      BY <1>2 DEF Has
    <2>2. ~RetryRun /\ ~Invalidate
      BY <1>0, <2>1, RetryTakes, InvalidateDrops DEF RoundStages, SharedStages
    <2>3. Writes(probe)
      BY <1>0, <2>1, <2>2, CpStays
    <2>4. BindMedia
      BY <1>0, <2>3 DEF Writes, CallKinds, G
    <2>5. pc \in {"bindProbe", "bindTimeline"} /\ round' = round /\ art' = art
      BY <2>4, StepPlaces DEF BindMedia, rowVars
    <2>6. pc = "bindProbe"
      <3> SUFFICES ASSUME pc = "bindTimeline" PROVE FALSE
        BY <2>5
      <3> QED BY <1>2 DEF FitInv, Missing
    <2>7. PICK id : id = IdIn(art, Probe)
      OBVIOUS
    <2>8. Bind(probe, id)
      BY <2>4, <2>6, <2>7 DEF BindMedia
    <2>9. Cp(probe)' = id
      BY <1>0, <2>5, <2>8, CpBind
    <2>10. art[id] = Probe
      BY <2>6, <2>7, IdOfHeld DEF StoreInv, Prepared
    <2> QED BY <2>5, <2>9, <2>10
  <1> QED BY <1>1, <1>2

LEMMA FitStep ==
    ASSUME TypeInv, ControlInv, CallInv, ArtInv, FitInv, Next
    PROVE  FitInv'
  <1>1. FitsStep
    BY FitRetry, FitInvalidate, FitDecides, FitAdds DEF ArtInv
  <1>2. ProbeIs'
    BY ProbeStep DEF ArtInv
  <1>3. Fresh' /\ Missing' /\ Places' /\ ArmTurns'
    BY FreshStep, MissingStep, PlacesStep, ArmTurnsStep DEF FitInv
  <1> QED BY <1>1, <1>2, <1>3 DEF FitsStep, FitInv

LEMMA InitFit == Init => FitInv
  <1> SUFFICES ASSUME Init PROVE FitInv
    OBVIOUS
  <1>1. \A k \in Keys : ~Has(k)
    BY BoundsAssumption DEF Init, Has, Cp, RoundOf
  <1>2. G("media_probe") \in Keys
    BY StageKeys
  <1>3. pc = "idle"
    BY DEF Init
  <1> QED BY <1>1, <1>2, <1>3 DEF FitInv, Complete, Exact, ProbeIs, Fresh, Missing, Places,
                              ArmTurns, AfterPlan, AfterAta

LEMMA FitQuietly == ASSUME FitInv, UNCHANGED vars PROVE FitInv'
  <1>1. UNCHANGED <<round, bound, cp, art, pc, exc, slot, inv>>
    BY DEF vars, rowVars, dataVars, localVars
  <1>2. \A k : Cp(k)' = Cp(k) /\ Has(k)' = Has(k)
    BY <1>1, CpSame DEF Has
  <1>3. \A s : Doing(s)' = Doing(s)
    BY <1>1 DEF Doing
  <1>4. Complete' /\ ProbeIs' /\ Fresh' /\ Missing' /\ Places'
    BY <1>1, <1>2 DEF FitInv, Complete, ProbeIs, Fresh, Missing, Places, Probe
  <1>5. Exact'
    BY <1>1, <1>2 DEF FitInv, Exact
  <1>6. ArmTurns'
    BY <1>1, <1>2, <1>3 DEF FitInv, ArmTurns, AskedFor
  <1> QED BY <1>4, <1>5, <1>6 DEF FitInv

LEMMA FitInvariant == Spec => []FitInv
  <1>1. TypeInv /\ ControlInv /\ CallInv /\ ArtInv /\ FitInv /\ [Next]_vars => FitInv'
    BY FitStep, FitQuietly
  <1> QED BY <1>1, InitFit, TypeInvariant, ControlInvariant, CallInvariant, ArtInvariant, PTL DEF Spec

-----------------------------------------------------------------------------
(* The checkpoints of every round.                                         *)

Traced == {"correction_transcript", "merge_plan", "selection_batch", "selection_result",
           "transcript", "ata_response", "ata_result"}

\* Whatever a checkpoint of the round was computed from is a checkpoint of the round.
Coheres(r, k) ==
    CpIn(r, k) # 0 =>
        /\ k[1] \in Traced =>
              \A d \in art[CpIn(r, k)].deps : /\ d \in DOMAIN art /\ KeyOf(art[d]) \in Keys
                                              /\ CpIn(r, KeyOf(art[d])) = d
        /\ k[1] = "review_queue" => art[CpIn(r, k)].deps = {CpIn(r, G("edit_resolution"))}
PastCoheres == \A r \in 1..round - 1 : \A k \in Keys : Coheres(r, k)

\* The current round, from what its checkpoints need.
LEMMA CoheresNow ==
    ASSUME TypeInv, StoreInv, FitInv, NEW k \in Keys
    PROVE  Coheres(round, k)
  <1>0. \A n : CpIn(round, n) = Cp(n)
    BY DEF CpIn, Cp, RoundOf
  <1> SUFFICES ASSUME Has(k)
               PROVE  /\ k[1] \in Traced =>
                           \A d \in art[Cp(k)].deps : /\ d \in DOMAIN art /\ KeyOf(art[d]) \in Keys
                                                      /\ Cp(KeyOf(art[d])) = d
                      /\ k[1] = "review_queue" => art[Cp(k)].deps = {Cp(G("edit_resolution"))}
    BY <1>0 DEF Coheres, Has
  <1>1. ASSUME k[1] \in Traced, NEW d \in art[Cp(k)].deps
        PROVE  d \in DOMAIN art /\ KeyOf(art[d]) \in Keys /\ Cp(KeyOf(art[d])) = d
    <2>1. k[1] \in BuiltKinds
      BY <1>1 DEF Traced, BuiltKinds
    <2>2. Sources(k) = Needs(k) /\ art[Cp(k)].deps = {Cp(n) : n \in Sources(k)}
      BY <2>1, SourcesNeeded DEF FitInv, Exact
    <2>3. PICK n \in Needs(k) : d = Cp(n)
      BY <1>1, <2>2
    <2>4. n \in Keys /\ Has(n)
      BY <2>3, NeedsKeys DEF FitInv, Complete
    <2>5. KeptAt(Cp(n), n)
      BY <2>4, CpKept DEF StoreInv
    <2> QED BY <2>3, <2>4, <2>5 DEF KeptAt
  <1>2. ASSUME k[1] = "review_queue" PROVE art[Cp(k)].deps = {Cp(G("edit_resolution"))}
    <2>1. Sources(k) = {G("edit_resolution")} /\ k[1] \in BuiltKinds
      BY <1>2 DEF Sources, BuiltKinds
    <2> QED BY <2>1 DEF FitInv, Exact
  <1> QED BY <1>1, <1>2

\* A round that has passed keeps its checkpoints, and the shared ones never change.
LEMMA CellsKept ==
    ASSUME TypeInv, CallInv, StoreInv, FitInv, Next, NEW r \in 1..round, r < round',
           NEW k \in Keys
    PROVE  /\ k[1] \notin SharedStages => cp'[r][k] = cp[r][k]
           /\ CpIn(r, k) # 0 => CpIn(r, k)' = CpIn(r, k)
  <1>0. round \in Nat /\ r \in 0..MaxRounds /\ 0 \in 0..MaxRounds
    BY BoundsAssumption DEF TypeInv, TypeOK, RowsOK, Rounds
  <1>1. cp'[r][k] = cp[r][k]
    <2>1. CASE RetryRun
      <3>1. r # round + 1
        BY <1>0
      <3> QED BY <1>0, <2>1, <3>1, RetryCells
    <2>2. CASE ~RetryRun
      <3>1. r \in 1..round - 1
        BY <1>0, <2>2, RoundStays
      <3> QED BY <3>1, CheckpointsEarlier
    <2> QED BY <2>1, <2>2
  <1>2. ASSUME k[1] \in SharedStages, Has(k) PROVE Cp(k)' = Cp(k)
    <2>1. k[1] \notin RoundStages /\ k \notin DecisionKeys
      BY <1>2 DEF SharedStages, RoundStages, DecisionKeys, G
    <2>2. CASE RetryRun
      BY <2>1, <2>2, RetryTakes
    <2>3. CASE Invalidate
      BY <2>1, <2>3, InvalidateDrops
    <2> QED BY <1>2, <2>1, <2>2, <2>3, CpFixed
  <1>3. k[1] \in SharedStages => CpIn(r, k) = Cp(k) /\ CpIn(r, k)' = Cp(k)'
    BY DEF CpIn, Cp, RoundOf
  <1>4. k[1] \notin SharedStages => CpIn(r, k) = cp[r][k] /\ CpIn(r, k)' = cp'[r][k]
    BY DEF CpIn
  <1> QED BY <1>1, <1>2, <1>3, <1>4 DEF Has

LEMMA CoheresStays ==
    ASSUME TypeInv, CallInv, StoreInv, FitInv, Next, NEW r \in 1..round, r < round',
           NEW k \in Keys, Coheres(r, k)
    PROVE  Coheres(r, k)'
  <1>0. ArtStays /\ r \in 0..MaxRounds
    BY ArtStaysAlways, BoundsAssumption DEF TypeInv, TypeOK, RowsOK, Rounds
  <1>1. PICK id : id = CpIn(r, k)
    OBVIOUS
  <1>2. CASE k[1] \notin Traced \cup {"review_queue"}
    BY <1>2 DEF Coheres
  <1>3. CASE k[1] \in Traced \cup {"review_queue"}
    <2>1. k[1] \notin SharedStages
      BY <1>3 DEF Traced, SharedStages
    <2>2. CpIn(r, k)' = id /\ id = cp[r][k]
      BY <1>1, <2>1, CellsKept DEF CpIn
    <2> SUFFICES ASSUME id # 0 PROVE Coheres(r, k)'
      BY <2>2 DEF Coheres
    <2>3. id \in DOMAIN art
      BY <1>0, <2>2 DEF StoreInv, CpStored, KeptAt
    <2>4. art'[id] = art[id]
      BY <1>0, <2>3 DEF ArtStays, Extends
    <2>5. ASSUME k[1] \in Traced, NEW d \in art'[id].deps
          PROVE  d \in DOMAIN art' /\ \E n \in Keys : KeyOf(art'[d]) = n /\ CpIn(r, n)' = d
      <3>1. d \in DOMAIN art /\ KeyOf(art[d]) \in Keys /\ CpIn(r, KeyOf(art[d])) = d
        BY <1>1, <2>4, <2>5 DEF Coheres
      <3>2. d \in DOMAIN art' /\ art'[d] = art[d]
        BY <1>0, <3>1 DEF ArtStays, Extends
      <3>3. PICK n \in Keys : n = KeyOf(art[d])
        BY <3>1
      <3>4. KeyOf(art'[d]) = n
        BY <3>2, <3>3
      <3>5. d # 0
        BY <3>1 DEF TypeInv, TypeOK, DataOK
      <3>6. CpIn(r, n)' = d
        BY <3>1, <3>3, <3>5, CellsKept
      <3> QED BY <3>2, <3>3, <3>4, <3>6
    <2>6. ASSUME k[1] = "review_queue" PROVE art'[id].deps = {CpIn(r, G("edit_resolution"))'}
      <3>1. art[id].deps = {CpIn(r, G("edit_resolution"))}
        BY <1>1, <2>6 DEF Coheres
      <3>2. G("edit_resolution") \in Keys /\ G("edit_resolution")[1] \notin SharedStages
        BY StageKeys DEF SharedStages
      <3>3. CpIn(r, G("edit_resolution"))' = CpIn(r, G("edit_resolution"))
        BY <3>2, CellsKept DEF CpIn
      <3> QED BY <2>4, <3>1, <3>3
    <2>7. k[1] \in Traced => \A d \in art'[id].deps : /\ d \in DOMAIN art' /\ KeyOf(art'[d]) \in Keys
                                                     /\ (LET n == KeyOf(art[d]) IN CpIn(r, n) = d)'
      BY <2>5 DEF CpIn
    <2> QED BY <2>2, <2>6, <2>7 DEF Coheres
  <1> QED BY <1>2, <1>3

LEMMA PastStep ==
    ASSUME TypeInv, CallInv, StoreInv, FitInv, PastCoheres, Next
    PROVE  PastCoheres'
  <1>1. round' \in {round, round + 1} /\ round \in Nat
    BY RoundStays DEF RetryRun, TypeInv, TypeOK, RowsOK, Rounds
  <1>2. ASSUME NEW r \in 1..round' - 1, NEW k \in Keys PROVE Coheres(r, k)'
    <2>1. r \in 1..round /\ r < round'
      <3>1. PICK n : n = round'
        OBVIOUS
      <3>2. n \in {round, round + 1} /\ round \in Nat /\ r \in 1..n - 1
        BY <1>1, <3>1
      <3>3. r \in 1..round /\ r < n
        BY <3>2
      <3> QED BY <3>1, <3>3
    <2>2. Coheres(r, k)
      <3>1. CASE r = round
        BY <3>1, CoheresNow
      <3>2. CASE r # round
        BY <1>1, <2>1, <3>2 DEF PastCoheres
      <3> QED BY <3>1, <3>2
    <2> QED BY <2>1, <2>2, CoheresStays
  <1> QED BY <1>2 DEF PastCoheres

LEMMA PastInvariant == Spec => []PastCoheres
  <1>1. Init => PastCoheres
    BY DEF Init, PastCoheres
  <1>2. TypeInv /\ CallInv /\ ArtInv /\ FitInv /\ PastCoheres /\ [Next]_vars => PastCoheres'
    <2>1. ASSUME PastCoheres, UNCHANGED vars PROVE PastCoheres'
      BY <2>1 DEF PastCoheres, Coheres, CpIn, vars, rowVars, dataVars
    <2> QED BY <2>1, PastStep DEF ArtInv
  <1> QED BY <1>1, <1>2, TypeInvariant, CallInvariant, ArtInvariant, FitInvariant, PTL DEF Spec

\* The checkpoints of a round, the current one or one that has passed, never mix rounds or
\* inputs: what a correction, a selection, a transcript or an alignment was computed from is
\* itself the checkpoint of that round, and a review queue is about the round's resolution.
\* However a run was cancelled, crashed, retried or reviewed, no stage was reused whose
\* inputs had been replaced.
THEOREM RoundsCohere == Spec => []RoundCoherent
  <1>1. TypeInv /\ StoreInv /\ FitInv /\ PastCoheres => RoundCoherent
    <2> SUFFICES ASSUME TypeInv, StoreInv, FitInv, PastCoheres, NEW r \in 1..round,
                        NEW k \in Keys, CpIn(r, k) # 0
                 PROVE  /\ CpIn(r, k) \in DOMAIN art /\ KeyOf(art[CpIn(r, k)]) = k
                        /\ k[1] \in Traced =>
                             \A d \in art[CpIn(r, k)].deps : CpIn(r, KeyOf(art[d])) = d
                        /\ k[1] = "review_queue" =>
                             art[CpIn(r, k)].deps = {CpIn(r, G("edit_resolution"))}
      BY DEF RoundCoherent, Traced
    <2>1. KeptAt(CpIn(r, k), k)
      <3>1. PICK q \in 0..MaxRounds : CpIn(r, k) = cp[q][k]
        BY BoundsAssumption DEF CpIn, TypeInv, TypeOK, RowsOK, Rounds
      <3> QED BY <3>1 DEF StoreInv, CpStored
    <2>2. Coheres(r, k)
      <3>1. CASE r = round
        BY <3>1, CoheresNow
      <3>2. CASE r # round
        <4>1. r \in 1..round - 1
          BY <3>2 DEF TypeInv, TypeOK, RowsOK, Rounds
        <4> QED BY <4>1 DEF PastCoheres
      <3> QED BY <3>1, <3>2
    <2> QED BY <2>1, <2>2 DEF Coheres, KeptAt
  <1> QED BY <1>1, TypeInvariant, ArtInvariant, FitInvariant, PastInvariant, PTL DEF ArtInv

-----------------------------------------------------------------------------
(* What the current pointers offer.                                        *)

\* A pointer that offers an artifact; where the pointers are.
Live(id)   == [id |-> id, stale |-> FALSE]
Current(k) == ptr[k] = Live(Cp(k))
Textual    == {"transcript", "ata_response", "ata_result"}

\* Every checkpoint of the current round but the job_input is offered; of the text and its
\* alignment nothing else is, and only an SRT of the round's result.
PtrCurrent == \A k \in Keys : k # G("job_input") /\ Has(k) => Current(k)
TextPtr    == \A k \in Keys : k[1] \in Textual /\ ~ptr[k].stale => Has(k) /\ Current(k)
SrtPtr     == ~ptr[G("srt_render")].stale =>
                 /\ Has(G("ata_result"))
                 /\ ptr[G("srt_render")].id \in DOMAIN art
                 /\ art[ptr[G("srt_render")].id].deps = {Cp(G("ata_result"))}
NoSrt      == ~Has(G("srt_render"))

\* What is offered before its checkpoint is bound.
BetweenTwo ==
    /\ pc \in {"bindProbe", "bindTimeline"} =>
          ptr[G("media_probe")] = Live(IdIn(art, Probe)) /\ ptr[G("timeline_audio")] = Live(TimelineId)
    /\ pc = "bindCompare" => ptr[G("asr_comparison")] = Live(IdIn(art, Comparison))

PtrInv == PtrCurrent /\ TextPtr /\ SrtPtr /\ NoSrt /\ BetweenTwo

\* A step offers some artifacts and withdraws some kinds.
Repoints(S, ids) ==
    \A k \in Keys :
        IF k \in DOMAIN ids THEN ptr'[k] = Live(ids[k])
        ELSE IF k[1] \in S THEN ptr'[k].stale ELSE ptr'[k] = ptr[k]

LEMMA MadeStale ==
    ASSUME NEW q \in [id : Nat, stale : BOOLEAN]
    PROVE  [q EXCEPT !.stale = TRUE].stale
  OBVIOUS

LEMMA StalePoints ==
    ASSUME NEW p \in Pointers, NEW S, NEW k \in Keys
    PROVE  IF k[1] \in S THEN Stale(p, S)[k].stale ELSE Stale(p, S)[k] = p[k]
  <1>1. PICK q : q = p[k]
    OBVIOUS
  <1>2. q \in [id : Nat, stale : BOOLEAN]
    BY <1>1 DEF Pointers
  <1>3. Stale(p, S)[k] = IF k[1] \in S THEN [q EXCEPT !.stale = TRUE] ELSE q
    BY <1>1, Zenon DEF Stale
  <1> QED BY <1>1, <1>2, <1>3, MadeStale

LEMMA ActivatePoints ==
    ASSUME TypeInv, NEW S, NEW ids, ptr' = Activate(Stale(ptr, S), ids)
    PROVE  Repoints(S, ids)
  <1>1. ptr \in Pointers
    BY DEF TypeInv, TypeOK, DataOK
  <1>2. PICK p : p = Stale(ptr, S)
    OBVIOUS
  <1>3. ASSUME NEW k \in Keys
        PROVE  IF k[1] \in S THEN p[k].stale ELSE p[k] = ptr[k]
    BY <1>1, <1>2, <1>3, StalePoints
  <1>4. \A k \in Keys : ptr'[k] = IF k \in DOMAIN ids THEN Live(ids[k]) ELSE p[k]
    BY <1>2 DEF Activate, Live
  <1> QED BY <1>3, <1>4 DEF Repoints

LEMMA OnlyActivates ==
    ASSUME TypeInv, NEW ids, ptr' = Activate(ptr, ids)
    PROVE  Repoints({}, ids)
  BY DEF Repoints, Activate, Live

LEMMA OnlyWithdraws ==
    ASSUME TypeInv, NEW S, ptr' = Stale(ptr, S)
    PROVE  Repoints(S, [k \in {} |-> 0])
  <1>1. ptr \in Pointers
    BY DEF TypeInv, TypeOK, DataOK
  <1>2. \A k \in Keys : IF k[1] \in S THEN ptr'[k].stale ELSE ptr'[k] = ptr[k]
    BY <1>1, StalePoints
  <1> QED BY <1>2 DEF Repoints

LEMMA OfferPoints ==
    ASSUME TypeInv, NEW a, PublishOnly(a)
    PROVE  Repoints(StaleTargets(a.kind), Only(KeyOf(a), IdIn(art, a)))
  BY ActivatePoints DEF PublishOnly

\* What a step must do to the checkpoints for the pointers to follow.
Carries(S, ids) ==
    /\ G("srt_render") \notin DOMAIN ids
    /\ Has(G("ata_result")) /\ "srt_render" \notin S => Cp(G("ata_result"))' = Cp(G("ata_result"))
    /\ \A k \in Keys :
          IF k \in DOMAIN ids
          THEN (Has(k)' => Cp(k)' = ids[k]) /\ (k[1] \in Textual => Has(k)')
          ELSE k # G("job_input") =>
                  /\ Has(k)' => Has(k) /\ k[1] \notin S
                  /\ Has(k) /\ k[1] \notin S => Cp(k)' = Cp(k)

LEMMA CarriedOn ==
    ASSUME TypeInv, ArtStays, PtrCurrent, TextPtr, SrtPtr, NEW S, NEW ids, Repoints(S, ids),
           Carries(S, ids)
    PROVE  PtrCurrent' /\ TextPtr' /\ SrtPtr'
  <1>1. ASSUME NEW k \in Keys, k # G("job_input"), Has(k)' PROVE ptr'[k] = Live(Cp(k)')
    <2>1. CASE k \in DOMAIN ids
      BY <1>1, <2>1 DEF Repoints, Carries
    <2>2. CASE k \notin DOMAIN ids
      <3>1. Has(k) /\ k[1] \notin S /\ Cp(k)' = Cp(k)
        BY <1>1, <2>2 DEF Carries
      <3>2. ptr'[k] = ptr[k]
        BY <2>2, <3>1 DEF Repoints
      <3> QED BY <1>1, <3>1, <3>2 DEF PtrCurrent, Current
    <2> QED BY <2>1, <2>2
  <1>2. ASSUME NEW k \in Keys, k[1] \in Textual, ~ptr'[k].stale
        PROVE  Has(k)' /\ ptr'[k] = Live(Cp(k)')
    <2>1. CASE k \in DOMAIN ids
      BY <1>2, <2>1 DEF Repoints, Carries
    <2>2. CASE k \notin DOMAIN ids
      <3>0. k[1] \notin S
        <4> SUFFICES ASSUME k[1] \in S PROVE FALSE
          OBVIOUS
        <4>1. ptr'[k].stale
          BY <2>2 DEF Repoints
        <4> QED BY <1>2, <4>1
      <3>1. ptr'[k] = ptr[k] /\ k[1] \notin S
        BY <2>2, <3>0 DEF Repoints
      <3>2. Has(k) /\ ptr[k] = Live(Cp(k))
        BY <1>2, <3>1 DEF TextPtr, Current
      <3>3. k # G("job_input")
        BY <1>2 DEF Textual, G
      <3>4. Cp(k)' = Cp(k)
        BY <2>2, <3>1, <3>2, <3>3 DEF Carries
      <3> QED BY <3>1, <3>2, <3>4 DEF Has
    <2> QED BY <2>1, <2>2
  <1>3. ASSUME ~ptr'[G("srt_render")].stale PROVE SrtPtr'
    <2>1. PICK k : k = G("srt_render")
      OBVIOUS
    <2>2. k \in Keys /\ k[1] = "srt_render"
      BY <2>1, StageKeys DEF G
    <2>0. k \notin DOMAIN ids
      BY <2>1 DEF Carries
    <2>3. ptr'[k] = ptr[k] /\ "srt_render" \notin S
      <3>1. k[1] \notin S
        <4> SUFFICES ASSUME k[1] \in S PROVE FALSE
          OBVIOUS
        <4>1. ptr'[k].stale
          BY <2>0, <2>2 DEF Repoints
        <4> QED BY <1>3, <2>1, <4>1
      <3> QED BY <2>0, <2>2, <3>1 DEF Repoints
    <2>4. Has(G("ata_result")) /\ ptr[k].id \in DOMAIN art
          /\ art[ptr[k].id].deps = {Cp(G("ata_result"))}
      BY <1>3, <2>1, <2>3 DEF SrtPtr
    <2>5. Cp(G("ata_result"))' = Cp(G("ata_result"))
      BY <2>3, <2>4 DEF Carries
    <2>6. ptr[k].id \in DOMAIN art' /\ art'[ptr[k].id] = art[ptr[k].id]
      BY <2>4 DEF ArtStays, Extends
    <2> QED BY <2>1, <2>3, <2>4, <2>5, <2>6 DEF SrtPtr, Has
  <1> QED BY <1>1, <1>2, <1>3 DEF PtrCurrent, TextPtr, SrtPtr, Current

\* With a stage, everything it comes from is there.
LEMMA UpChain ==
    ASSUME Complete
    PROVE  /\ Has(G("media_object")) => Has(G("timeline_audio"))
           /\ Has(G("base_asr")) \/ Has(G("peer_asr")) => Has(G("media_object"))
           /\ Has(G("asr_comparison")) => Has(G("base_asr")) /\ Has(G("peer_asr"))
           /\ \A a \in Arms : Has(ArmKey(a)) => Has(G("asr_comparison"))
           /\ Has(G("merge_plan")) => Has(ArmKey("qwen"))
           /\ \A b \in Batches : /\ Has(<<"selection_batch", b>>) => Has(G("merge_plan"))
                                 /\ Has(<<"selection_result", b>>) => Has(<<"selection_batch", b>>)
           /\ Has(G("edit_resolution")) => Has(G("merge_plan"))
           /\ Has(G("review_queue")) \/ Has(G("review_resolution")) \/ Has(G("transcript")) =>
                Has(G("edit_resolution"))
           /\ Has(G("ata_response")) => Has(G("transcript")) /\ Has(G("media_object"))
           /\ Has(G("ata_result")) => Has(G("ata_response"))
  <1> USE DEF Needs, Sources
  <1>0. \A k \in Keys : Has(k) => \A n \in Needs(k) : Has(n)
    BY DEF Complete
  <1> HIDE DEF Needs, Sources
  <1>1. ASSUME NEW kind \in Kinds \ {"correction_transcript", "selection_batch", "selection_result"},
               Has(G(kind))
        PROVE  \A n \in Needs(G(kind)) : Has(n)
    BY <1>0, <1>1, StageKeys
  <1>2. ASSUME NEW kind \in Kinds \ {"correction_transcript", "selection_batch", "selection_result"}
        PROVE  G(kind)[1] = kind
    BY StageKeys
  <1>3. /\ Needs(G("media_object")) = {G("timeline_audio")}
        /\ Needs(G("base_asr")) = {G("media_object")} /\ Needs(G("peer_asr")) = {G("media_object")}
        /\ Needs(G("asr_comparison")) = {G("base_asr"), G("peer_asr")}
    BY <1>2, StageKeys DEF Needs, Sources
  <1>4. /\ ArmKey("qwen") \in Needs(G("merge_plan"))
        /\ G("merge_plan") \in Needs(G("edit_resolution"))
        /\ G("edit_resolution") \in Needs(G("review_queue"))
        /\ G("edit_resolution") \in Needs(G("review_resolution"))
        /\ G("edit_resolution") \in Needs(G("transcript"))
    BY <1>2, StageKeys DEF Needs, Sources
  <1>5. /\ {G("transcript"), G("media_object")} \subseteq Needs(G("ata_response"))
        /\ G("ata_response") \in Needs(G("ata_result"))
    BY <1>2, StageKeys DEF Needs, Sources
  <1>6. ASSUME NEW a \in Arms, Has(ArmKey(a)) PROVE Has(G("asr_comparison"))
    <2>1. G("asr_comparison") \in Needs(ArmKey(a))
      BY StageKeys DEF Needs, Sources
    <2> QED BY <1>0, <1>6, <2>1, StageKeys
  <1>7. ASSUME NEW b \in Batches
        PROVE  /\ Has(<<"selection_batch", b>>) => Has(G("merge_plan"))
               /\ Has(<<"selection_result", b>>) => Has(<<"selection_batch", b>>)
    <2>1. G("merge_plan") \in Needs(<<"selection_batch", b>>)
          /\ <<"selection_batch", b>> \in Needs(<<"selection_result", b>>)
      BY DEF Needs, Sources
    <2> QED BY <1>0, <2>1, KeysOfKinds
  <1>8. /\ Has(G("media_object")) => Has(G("timeline_audio"))
        /\ Has(G("base_asr")) \/ Has(G("peer_asr")) => Has(G("media_object"))
        /\ Has(G("asr_comparison")) => Has(G("base_asr")) /\ Has(G("peer_asr"))
    BY <1>1, <1>3, StageKeys
  <1>9. /\ Has(G("merge_plan")) => Has(ArmKey("qwen"))
        /\ Has(G("edit_resolution")) => Has(G("merge_plan"))
        /\ Has(G("review_queue")) \/ Has(G("review_resolution")) \/ Has(G("transcript")) =>
             Has(G("edit_resolution"))
    BY <1>1, <1>4, StageKeys
  <1>10. /\ Has(G("ata_response")) => Has(G("transcript")) /\ Has(G("media_object"))
         /\ Has(G("ata_result")) => Has(G("ata_response"))
    BY <1>1, <1>5, StageKeys
  <1> QED BY <1>6, <1>7, <1>8, <1>9, <1>10

\* A publication withdraws nothing that the round holds: below what it has not, there is
\* nothing.
LEMMA NothingBelow ==
    ASSUME Complete, NoSrt, NEW k \in Keys, Has(k),
           NEW K \in {"timeline_audio", "media_object", "base_asr", "peer_asr", "asr_comparison",
                      "ata_response"},
           ~Has(G(K))
    PROVE  k[1] \notin StaleTargets(K)
  <1>1. /\ k[1] \in {"selection_batch", "selection_result"} =>
             Has(G("merge_plan"))
        /\ k[1] = "correction_transcript" => Has(G("asr_comparison"))
    <2>1. k[1] = "selection_batch" => k[2] \in Batches /\ k = <<"selection_batch", k[2]>>
      BY KeyShape
    <2>2. k[1] = "selection_result" => k[2] \in Batches /\ k = <<"selection_result", k[2]>>
      BY KeyShape
    <2>3. k[1] = "correction_transcript" => k[2] \in Arms /\ k = ArmKey(k[2])
      BY KeyShape DEF ArmKey
    <2> QED BY <2>1, <2>2, <2>3, UpChain
  <1>2. k[1] \notin {"selection_batch", "selection_result", "correction_transcript"} => Has(G(k[1]))
    BY KeyShape
  <1>3. Has(G("merge_plan")) => Has(G("asr_comparison"))
    BY UpChain DEF Arms
  <1>4. k[1] \in TextStages \cup {"review_resolution", "transcript"} => Has(G("asr_comparison"))
    BY <1>1, <1>2, <1>3, UpChain DEF TextStages
  <1>5. k[1] \in TailStages => Has(G("ata_response")) /\ Has(G("asr_comparison"))
    BY <1>2, <1>3, UpChain DEF TailStages, NoSrt
  <1>6. /\ Has(G("asr_comparison")) => Has(G("base_asr")) /\ Has(G("peer_asr"))
        /\ Has(G("base_asr")) \/ Has(G("peer_asr")) => Has(G("media_object"))
        /\ Has(G("media_object")) => Has(G("timeline_audio"))
    BY UpChain
  <1>7. CASE K = "timeline_audio"
    BY <1>2, <1>4, <1>5, <1>6, <1>7 DEF StaleTargets
  <1>8. CASE K = "media_object"
    BY <1>2, <1>5, <1>6, <1>8 DEF StaleTargets
  <1>9. CASE K \in {"base_asr", "peer_asr", "asr_comparison"}
    BY <1>2, <1>4, <1>5, <1>6, <1>9 DEF StaleTargets
  <1>10. CASE K = "ata_response"
    BY <1>2, <1>5, <1>10 DEF StaleTargets, TailStages
  <1> QED BY <1>7, <1>8, <1>9, <1>10

\* The pointers follow the checkpoints in a step.
Follow == \E S, ids : Repoints(S, ids) /\ Carries(S, ids)

LEMMA FollowOn ==
    ASSUME TypeInv, ArtStays, PtrCurrent, TextPtr, SrtPtr, Follow
    PROVE  PtrCurrent' /\ TextPtr' /\ SrtPtr'
  BY CarriedOn DEF Follow

\* Kinds whose publication withdraws others.
Withdraws == {"timeline_audio", "media_object", "base_asr", "peer_asr", "asr_comparison",
              "ata_response"}

LEMMA FollowPublish ==
    ASSUME TypeInv, Complete, NoSrt, UNCHANGED round, NEW a, Publish(a), KeyOf(a) \in Keys,
           ~Has(KeyOf(a)), KeyOf(a)[1] # "srt_render",
           a.kind \in Withdraws => KeyOf(a) = G(a.kind),
           a.kind \notin Withdraws => StaleTargets(a.kind) = {}
    PROVE  Follow
  <1>1. PICK S, key, id : S = StaleTargets(a.kind) /\ key = KeyOf(a) /\ id = IdIn(art, a)
    OBVIOUS
  <1>2. PICK ids : ids = Only(key, id)
    OBVIOUS
  <1>3. DOMAIN ids = {key} /\ ids[key] = id
    BY <1>2 DEF Only
  <1>4. Repoints(S, ids)
    BY <1>1, <1>2, OfferPoints DEF Publish
  <1>5. Has(key)' /\ Cp(key)' = id
    BY <1>1, PublishHas DEF Has
  <1>6. \A k \in Keys : k # key => Cp(k)' = Cp(k)
    BY <1>1, PublishThere
  <1>7. ASSUME NEW k \in Keys, Has(k) PROVE k[1] \notin S
    <2>1. CASE a.kind \in Withdraws
      BY <1>1, <1>7, <2>1, NothingBelow DEF Withdraws
    <2> QED BY <1>1, <2>1
  <1>8. key # G("srt_render")
    BY <1>1 DEF G
  <1>9. Has(G("ata_result")) => Cp(G("ata_result"))' = Cp(G("ata_result"))
    BY <1>1, <1>6, StageKeys
  <1>10. ASSUME NEW k \in Keys, k # key PROVE /\ Has(k)' => Has(k) /\ k[1] \notin S
                                              /\ Cp(k)' = Cp(k)
    BY <1>6, <1>7, <1>10 DEF Has
  <1>11. Carries(S, ids)
    BY <1>3, <1>5, <1>8, <1>9, <1>10 DEF Carries
  <1> QED BY <1>4, <1>11 DEF Follow

\* A publication without a checkpoint.
LEMMA FollowOffer ==
    ASSUME TypeInv, Complete, NoSrt, UNCHANGED <<round, cp>>, NEW S, NEW ids, Repoints(S, ids),
           \A k \in Keys : Has(k) /\ k # G("job_input") => k[1] \notin S,
           DOMAIN ids \subseteq Keys, G("srt_render") \notin DOMAIN ids,
           \A k \in DOMAIN ids : /\ Has(k) => Cp(k) = ids[k]
                                 /\ k[1] \in Textual => Has(k)
    PROVE  Follow
  <1>1. \A k : Cp(k)' = Cp(k)
    BY CpSame
  <1>2. \A k : Has(k)' <=> Has(k)
    BY <1>1 DEF Has
  <1>3. Carries(S, ids)
    BY <1>1, <1>2 DEF Carries
  <1> QED BY <1>3 DEF Follow

\* Nothing is published and nothing bound.
LEMMA FollowQuiet == ASSUME TypeInv, UNCHANGED <<ptr, cp, round>> PROVE Follow
  <1>1. PICK ids : ids = [k \in {} |-> 0]
    OBVIOUS
  <1>2. DOMAIN ids = {}
    BY <1>1
  <1>3. Repoints({}, ids)
    BY <1>2 DEF Repoints
  <1>4. \A k : Cp(k)' = Cp(k)
    BY CpSame
  <1>5. \A k : Has(k)' <=> Has(k)
    BY <1>4 DEF Has
  <1>6. Carries({}, ids)
    BY <1>2, <1>4, <1>5 DEF Carries
  <1> QED BY <1>3, <1>6 DEF Follow

LEMMA SavedKey ==
    ASSUME NEW key, NEW deps, NEW body
    PROVE  /\ KeyOf(Saved(key, deps, body)) = <<key[1], key[2]>>
           /\ Saved(key, deps, body).kind = key[1]
  BY DEF KeyOf, Saved, Artifact

\* The local stages that publish under a checkpoint of their own.
LEMMA FollowSaves ==
    ASSUME TypeInv, Complete, NoSrt, PlanStage \/ SaveBatch \/ SaveTranscript \/ SaveAtaResult
    PROVE  Follow
  <1>0. round' = round
    BY DEF PlanStage, SaveBatch, SaveTranscript, SaveAtaResult, rowVars
  <1>1. ASSUME NEW kind \in {"merge_plan", "transcript", "ata_result"}, ~Has(G(kind)),
               NEW deps, NEW body, Publish(Saved(G(kind), deps, body))
        PROVE  Follow
    <2>1. PICK a : a = Saved(G(kind), deps, body)
      OBVIOUS
    <2>2. KeyOf(a) = G(kind) /\ a.kind = kind /\ G(kind) \in Keys
      BY <2>1, SavedKey, StageKeys DEF G
    <2>3. kind \notin Withdraws /\ StaleTargets(kind) = {} /\ G(kind)[1] # "srt_render"
      BY DEF Withdraws, StaleTargets, G
    <2> QED BY <1>0, <1>1, <2>1, <2>2, <2>3, FollowPublish
  <1>2. CASE PlanStage
    <2>1. CASE Has(G("merge_plan"))
      BY <1>0, <1>2, <2>1, FollowQuiet DEF PlanStage, Has, dataVars
    <2>2. CASE ~Has(G("merge_plan"))
      <3>1. PICK deps, body : Publish(Saved(G("merge_plan"), deps, body))
        BY <1>2, <2>2 DEF PlanStage, Has
      <3> QED BY <1>1, <2>2, <3>1
    <2> QED BY <2>1, <2>2
  <1>3. CASE SaveTranscript
    <2>1. CASE Has(G("transcript"))
      BY <1>0, <1>3, <2>1, FollowQuiet DEF SaveTranscript, Has, dataVars
    <2>2. CASE ~Has(G("transcript"))
      <3>1. PICK deps, body : Publish(Saved(G("transcript"), deps, body))
        BY <1>3, <2>2 DEF SaveTranscript, Has
      <3> QED BY <1>1, <2>2, <3>1
    <2> QED BY <2>1, <2>2
  <1>4. CASE SaveAtaResult
    <2>1. CASE Has(G("ata_result"))
      BY <1>0, <1>4, <2>1, FollowQuiet DEF SaveAtaResult, Has, dataVars
    <2>2. CASE ~Has(G("ata_result"))
      <3>1. PICK deps, body : Publish(Saved(G("ata_result"), deps, body))
        BY <1>4, <2>2 DEF SaveAtaResult, Has
      <3> QED BY <1>1, <2>2, <3>1
    <2> QED BY <2>1, <2>2
  <1>5. CASE SaveBatch
    <2>1. PICK b : b = Batch
      OBVIOUS
    <2>2. b \in Batches /\ ~Has(<<"selection_batch", b>>)
      <3>1. todo # {} /\ todo \subseteq Batches
        BY <1>5 DEF SaveBatch, TypeInv, TypeOK, LocalsOK
      <3>2. b \in Batches
        BY <2>1, <3>1 DEF Batch
      <3> QED BY <1>5, <2>1, <3>2 DEF SaveBatch, Has
    <2>3. PICK deps, body : Publish(Saved(<<"selection_batch", b>>, deps, body))
      BY <1>5, <2>1 DEF SaveBatch
    <2>4. PICK a : a = Saved(<<"selection_batch", b>>, deps, body)
      OBVIOUS
    <2>5. KeyOf(a) = <<"selection_batch", b>> /\ a.kind = "selection_batch" /\ KeyOf(a) \in Keys
      <3>1. PICK key : key = <<"selection_batch", b>>
        OBVIOUS
      <3>2. KeyOf(a) = <<key[1], key[2]>> /\ a.kind = key[1]
        BY <2>4, <3>1, SavedKey
      <3>3. key[1] = "selection_batch" /\ key[2] = b /\ key \in Keys
        BY <2>2, <3>1, KeysOfKinds
      <3> QED BY <3>1, <3>2, <3>3
    <2>6. "selection_batch" \notin Withdraws /\ StaleTargets("selection_batch") = {}
      BY DEF Withdraws, StaleTargets
    <2> QED BY <1>0, <2>2, <2>3, <2>4, <2>5, <2>6, FollowPublish
  <1> QED BY <1>2, <1>3, <1>4, <1>5

\* The answers of the paid calls.
LEMMA FollowAnswer ==
    ASSUME TypeInv, CallInv, Complete, NoSrt, NEW s \in Slots, Succeed(s)
    PROVE  Follow
  <1>1. PICK i : i = slot[s].inv
    OBVIOUS
  <1>2. PICK deps : Publish(Artifact(CallKeyOf(i), deps, i, {}))
    BY <1>1 DEF Succeed, CallKeyOf
  <1>3. PICK a : a = Artifact(CallKeyOf(i), deps, i, {})
    OBVIOUS
  <1>4. /\ round' = round /\ CallKeyOf(i) \in Keys /\ i \in DOMAIN inv
        /\ CallKeyOf(i) = <<ResultKind(inv[i].op), inv[i].scope>>
    BY <1>1, SucceedRow DEF CallKeyOf
  <1>5. ~Has(CallKeyOf(i))
    BY <1>1, AnswersMissing
  <1>6. KeyOf(a) = CallKeyOf(i) /\ a.kind = CallKeyOf(i)[1] /\ a.kind = ResultKind(inv[i].op)
    BY <1>3, <1>4 DEF KeyOf, Artifact
  <1>7. a.kind \in CallKinds
    BY <1>4, <1>6 DEF TypeInv, TypeOK, DataOK, InvocationRows, Ops, RemoteOps, ResultKind, CallKinds
  <1>8. a.kind \in Withdraws => KeyOf(a) = G(a.kind)
    BY <1>4, <1>6, KeyShape DEF Withdraws
  <1>9. a.kind \notin Withdraws => StaleTargets(a.kind) = {}
    BY <1>7 DEF CallKinds, Withdraws, StaleTargets
  <1>10. KeyOf(a)[1] # "srt_render"
    BY <1>6, <1>7 DEF CallKinds
  <1> QED BY <1>2, <1>3, <1>4, <1>5, <1>6, <1>8, <1>9, <1>10, FollowPublish

\* The publications that wait for their checkpoint.
LEMMA FollowFirst ==
    ASSUME TypeInv, StoreInv, PlaceInv, FitInv, NoSrt,
           IntakeJob \/ PublishJob \/ Compare \/ MediaPrepare
    PROVE  Follow
  <1>0. UNCHANGED <<round, cp>>
    BY DEF IntakeJob, PublishJob, Compare, MediaPrepare, rowVars
  <1>1. ASSUME NEW a, PublishOnly(a), KeyOf(a) = G("job_input"), a.kind = "job_input",
               \A k \in Keys : Has(k) => k[1] \notin RoundStages
        PROVE  Follow
    <2>1. PICK ids : ids = Only(KeyOf(a), IdIn(art, a))
      OBVIOUS
    <2>2. DOMAIN ids = {G("job_input")}
      BY <1>1, <2>1 DEF Only
    <2>3. G("job_input") \in Keys /\ G("job_input") # G("srt_render")
          /\ G("job_input")[1] \notin Textual
      BY StageKeys DEF G, Textual
    <2>4. Repoints(StaleTargets("job_input"), ids)
      BY <1>1, <2>1, OfferPoints
    <2>5. StaleTargets("job_input") \subseteq RoundStages /\ "job_input" \in RoundStages
      BY DEF StaleTargets, TextStages, TailStages, RoundStages
    <2>6. ~Has(G("job_input"))
      BY <1>1, <2>3, <2>5 DEF G
    <2> QED BY <1>0, <1>1, <2>2, <2>3, <2>4, <2>5, <2>6, FollowOffer DEF FitInv
  <1>2. CASE IntakeJob
    <2>1. \A k \in Keys : ~Has(k)
      BY <1>2 DEF IntakeJob, FitInv, Fresh
    <2>2. PublishOnly(OriginalJob) /\ KeyOf(OriginalJob) = G("job_input")
          /\ OriginalJob.kind = "job_input"
      BY <1>2 DEF IntakeJob, OriginalJob, Artifact, KeyOf, G
    <2> QED BY <1>1, <2>1, <2>2
  <1>3. CASE PublishJob
    <2>1. \A k \in Keys : Has(k) => k[1] \notin RoundStages
      BY <1>3, StepPlaces DEF FitInv, Missing
    <2>2. PublishOnly(EffectiveJob) /\ KeyOf(EffectiveJob) = G("job_input")
          /\ EffectiveJob.kind = "job_input"
      BY <1>3 DEF PublishJob, EffectiveJob, Artifact, KeyOf, G
    <2> QED BY <1>1, <2>1, <2>2
  <1>4. CASE Compare
    <2>1. CASE Has(G("asr_comparison"))
      BY <1>0, <1>4, <2>1, FollowQuiet DEF Compare, Has
    <2>2. CASE ~Has(G("asr_comparison"))
      <3>1. PICK a : a = Comparison
        OBVIOUS
      <3>2. PublishOnly(a) /\ KeyOf(a) = G("asr_comparison") /\ a.kind = "asr_comparison"
        BY <1>4, <2>2, <3>1 DEF Compare, Has, Comparison, Artifact, KeyOf, G
      <3>3. PICK ids : ids = Only(KeyOf(a), IdIn(art, a))
        OBVIOUS
      <3>4. DOMAIN ids = {G("asr_comparison")}
        BY <3>2, <3>3 DEF Only
      <3>5. G("asr_comparison") \in Keys /\ G("asr_comparison") # G("srt_render")
            /\ G("asr_comparison")[1] \notin Textual
        BY StageKeys DEF G, Textual
      <3>6. Repoints(StaleTargets("asr_comparison"), ids)
        BY <3>2, <3>3, OfferPoints
      <3>7. \A k \in Keys : Has(k) => k[1] \notin StaleTargets("asr_comparison")
        BY <2>2, NothingBelow DEF FitInv
      <3> QED BY <1>0, <2>2, <3>4, <3>5, <3>6, <3>7, FollowOffer DEF FitInv
    <2> QED BY <2>1, <2>2
  <1>5. CASE MediaPrepare
    <2>1. PICK p, m, n : p = G("media_probe") /\ m = G("timeline_audio") /\ n = IdIn(art, Probe)
      OBVIOUS
    <2>2. ~Has(m)
      BY <1>5, <2>1 DEF MediaPrepare, Has
    <2>3. PICK ids : ids = [k \in {p, m} |-> IF k = p THEN n ELSE TimelineId]
      OBVIOUS
    <2>4. ptr' = Activate(Stale(ptr, StaleTargets("timeline_audio")), ids)
      BY <1>5, <2>1, <2>3 DEF MediaPrepare
    <2>5. DOMAIN ids = {p, m} /\ ids[p] = n
      BY <2>3
    <2>6. /\ p \in Keys /\ m \in Keys /\ p[1] \notin Textual /\ m[1] \notin Textual
          /\ G("srt_render") \notin {p, m}
      BY <2>1, StageKeys DEF G, Textual
    <2>7. Repoints(StaleTargets("timeline_audio"), ids)
      BY <2>4, ActivatePoints
    <2>8. \A k \in Keys : Has(k) => k[1] \notin StaleTargets("timeline_audio")
      BY <2>1, <2>2, NothingBelow DEF FitInv
    <2>9. Has(p) => Cp(p) = n
      <3> SUFFICES ASSUME Has(p) PROVE Cp(p) = n
        OBVIOUS
      <3>1. art[Cp(p)] = Probe
        BY <2>1 DEF FitInv, ProbeIs
      <3>2. Cp(p) \in DOMAIN art
        BY <2>6, CpKept DEF StoreInv, KeptAt
      <3>3. Holds(art, Probe)
        BY <3>1, <3>2 DEF Holds
      <3>4. n \in DOMAIN art /\ art[n] = Probe
        BY <2>1, <3>3, IdOfHeld
      <3> QED BY <3>1, <3>2, <3>4 DEF StoreInv, Unique
    <2> QED BY <1>0, <2>2, <2>5, <2>6, <2>7, <2>8, <2>9, FollowOffer DEF FitInv
  <1> QED BY <1>2, <1>3, <1>4, <1>5

\* Binding what is already offered.
LEMMA FollowBind ==
    ASSUME TypeInv, UNCHANGED <<ptr, round>>, NEW key \in Keys, NEW id, Bind(key, id),
           key = G("job_input") \/ ptr[key] = Live(id), key[1] \notin Textual,
           key # G("srt_render")
    PROVE  Follow
  <1>1. Cp(key)' = id /\ \A k \in Keys : k # key => Cp(k)' = Cp(k)
    BY CpBind
  <1>2. G("ata_result") # key /\ G("ata_result") \in Keys
    BY StageKeys DEF G, Textual
  <1>3. Cp(G("ata_result"))' = Cp(G("ata_result"))
    BY <1>1, <1>2
  <1>4. CASE key = G("job_input")
    <2>1. PICK ids : ids = [k \in {} |-> 0]
      OBVIOUS
    <2>2. DOMAIN ids = {}
      BY <2>1
    <2>3. Repoints({}, ids)
      BY <2>2 DEF Repoints
    <2>4. Carries({}, ids)
      BY <1>1, <1>3, <1>4, <2>2 DEF Carries, Has
    <2> QED BY <2>3, <2>4 DEF Follow
  <1>5. CASE key # G("job_input")
    <2>1. PICK ids : ids = Only(key, id)
      OBVIOUS
    <2>2. DOMAIN ids = {key} /\ ids[key] = id
      BY <2>1 DEF Only
    <2>3. Repoints({}, ids)
      BY <1>5, <2>2 DEF Repoints
    <2>4. Carries({}, ids)
      BY <1>1, <1>3, <2>2 DEF Carries, Has
    <2> QED BY <2>3, <2>4 DEF Follow
  <1> QED BY <1>4, <1>5

LEMMA FollowBinds ==
    ASSUME TypeInv, BetweenTwo,
           IntakeCheckpoint \/ JobStage \/ BindJob \/ BindMedia \/ BindCompare
    PROVE  Follow
  <1>0. UNCHANGED <<ptr, round>>
    BY DEF IntakeCheckpoint, JobStage, BindJob, BindMedia, BindCompare, rowVars
  <1>1. /\ \A kind \in {"job_input", "media_probe", "timeline_audio", "asr_comparison"} :
              G(kind) \in Keys /\ G(kind)[1] = kind /\ G(kind) # G("srt_render")
    BY StageKeys DEF G
  <1>2. \A kind \in {"job_input", "media_probe", "timeline_audio", "asr_comparison"} :
           kind \notin Textual
    BY DEF Textual
  <1>3. CASE IntakeCheckpoint \/ JobStage \/ BindJob
    <2>1. UNCHANGED cp \/ \E id : Bind(G("job_input"), id)
      BY <1>3, WriterKeys DEF WritesOnly
    <2> QED BY <1>0, <1>1, <1>2, <2>1, FollowQuiet, FollowBind
  <1>4. CASE BindMedia
    <2>1. CASE pc = "bindProbe"
      <3>1. PICK id : id = IdIn(art, Probe)
        OBVIOUS
      <3>2. Bind(G("media_probe"), id) /\ ptr[G("media_probe")] = Live(id)
        BY <1>4, <2>1, <3>1 DEF BindMedia, BetweenTwo
      <3> QED BY <1>0, <1>1, <1>2, <3>2, FollowBind
    <2>2. CASE pc = "bindTimeline"
      <3>1. PICK id : id = TimelineId
        OBVIOUS
      <3>2. Bind(G("timeline_audio"), id) /\ ptr[G("timeline_audio")] = Live(id)
        BY <1>4, <2>2, <3>1 DEF BindMedia, BetweenTwo
      <3> QED BY <1>0, <1>1, <1>2, <3>2, FollowBind
    <2> QED BY <1>4, <2>1, <2>2, StepPlaces
  <1>5. CASE BindCompare
    <2>1. PICK id : id = IdIn(art, Comparison)
      OBVIOUS
    <2>2. Bind(G("asr_comparison"), id) /\ ptr[G("asr_comparison")] = Live(id)
      BY <1>5, <2>1, StepPlaces DEF BindCompare, BetweenTwo
    <2> QED BY <1>0, <1>1, <1>2, <2>2, FollowBind
  <1> QED BY <1>3, <1>4, <1>5

\* A decision offers what it binds.
LEMMA FollowDecides == ASSUME TypeInv, Deciders PROVE Follow
  <1>1. PICK ids : Queued(ids)
    BY FinalizeQueues, ReviewQueues DEF Deciders
  <1>2. round' = round
    BY DEF Deciders, Finalize, ResolveReview, rowVars
  <1>3. Repoints({}, ids)
    BY <1>1, OnlyActivates DEF Queued
  <1>4. ASSUME NEW k \in Keys PROVE Cp(k)' = IF k \in DOMAIN ids THEN ids[k] ELSE Cp(k)
    <2>1. /\ round \in 0..MaxRounds /\ 0 \in 0..MaxRounds /\ 0 # round
      BY BoundsAssumption DEF TypeInv, TypeOK, RowsOK, Rounds
    <2>2. \A r \in 0..MaxRounds : cp'[r][k] = IF r = round /\ k \in DOMAIN ids THEN ids[k] ELSE cp[r][k]
      BY <1>1, BindAllCells DEF Queued
    <2>3. k \in DOMAIN ids => k[1] \notin SharedStages
      BY <1>1 DEF Queued, DecisionKeys, SharedStages, G
    <2>4. CASE k[1] \in SharedStages
      BY <2>1, <2>2, <2>3, <2>4 DEF Cp, RoundOf
    <2>5. CASE k[1] \notin SharedStages
      BY <1>2, <2>1, <2>2, <2>5 DEF Cp, RoundOf
    <2> QED BY <2>4, <2>5
  <1>5. /\ G("srt_render") \notin DOMAIN ids /\ G("ata_result") \notin DOMAIN ids
        /\ \A k \in DOMAIN ids : k[1] \notin Textual
    BY <1>1 DEF Queued, DecisionKeys, Textual, G
  <1>6. Carries({}, ids)
    BY <1>4, <1>5, StageKeys DEF Carries, Has
  <1> QED BY <1>3, <1>6 DEF Follow

\* What is exported is offered again.
LEMMA FollowActivates ==
    ASSUME TypeInv, FitInv, NoSrt, ActivateInputs \/ ActivateResult
    PROVE  Follow
  <1>0. UNCHANGED <<round, cp>>
    BY DEF ActivateInputs, ActivateResult, rowVars
  <1>1. CASE ActivateInputs
    <2>1. PICK ids : ids = [k \in Exported |-> Cp(k)]
      OBVIOUS
    <2>2. DOMAIN ids = Exported /\ \A k \in Exported : ids[k] = Cp(k)
      BY <2>1
    <2>3. Repoints({}, ids)
      BY <1>1, <2>1, OnlyActivates DEF ActivateInputs
    <2>4. Exported \subseteq Keys
      BY StageKeys DEF Exported, SharedStages
    <2>5. G("srt_render") \notin Exported
      BY DEF Exported, SharedStages, G, ArmKey
    <2>6. Has(G("ata_response")) /\ Has(G("transcript"))
      BY <1>1, StepPlaces, UpChain DEF FitInv, Places, AfterAta
    <2>7. \A k \in Exported : k[1] \in Textual => Has(k)
      <3> SUFFICES ASSUME NEW k \in Exported, k[1] \in Textual PROVE Has(k)
        OBVIOUS
      <3>1. k \in {G("ata_response"), G("transcript"), G("ata_result")}
        BY <2>4, KeyShape DEF Textual
      <3>2. k # G("ata_result")
        BY DEF Exported, SharedStages, G, ArmKey
      <3> QED BY <2>6, <3>1, <3>2
    <2> QED BY <1>0, <2>2, <2>3, <2>4, <2>5, <2>7, FollowOffer DEF FitInv
  <1>2. CASE ActivateResult
    <2>1. PICK k : k = G("ata_result")
      OBVIOUS
    <2>2. PICK ids : ids = Only(k, Cp(k))
      OBVIOUS
    <2>3. DOMAIN ids = {k} /\ ids[k] = Cp(k)
      BY <2>2 DEF Only
    <2>4. Repoints({}, ids)
      BY <1>2, <2>1, <2>2, OnlyActivates DEF ActivateResult
    <2>5. k \in Keys /\ k # G("srt_render")
      BY <2>1, StageKeys DEF G
    <2>6. Has(k)
      BY <1>2, <2>1, StepPlaces DEF FitInv, Places
    <2> QED BY <1>0, <2>3, <2>4, <2>5, <2>6, FollowOffer DEF FitInv
  <1> QED BY <1>1, <1>2

\* The checkpoint of a call whose last attempt failed is missing.
LEMMA FailedMissing ==
    ASSUME TypeInv, PaidInv
    PROVE  /\ \A k \in FailedKeys : ~Has(k)
           /\ \A K \in FailedKinds : K \in SharedStages => ~Has(G(K))
  <1>1. ASSUME NEW i \in Failures PROVE CallKeyOf(i) \in Keys /\ ~Has(CallKeyOf(i))
    <2>1. i \in DOMAIN inv /\ IsLatest(i) /\ inv[i].status # "succeeded"
      BY DEF Failures
    <2>2. LastOfRound(i)
      BY <2>1, LatestLast
    <2> QED BY <2>1, <2>2 DEF PaidInv, KeysOwned, FailedEmpty
  <1>2. \A k \in FailedKeys : ~Has(k)
    BY <1>1 DEF FailedKeys, CallKeyOf
  <1>3. ASSUME NEW K \in FailedKinds, K \in SharedStages PROVE ~Has(G(K))
    <2>1. PICK i \in Failures : K = ResultKind(inv[i].op)
      BY DEF FailedKinds
    <2>2. PICK k : k = CallKeyOf(i)
      OBVIOUS
    <2>3. k \in Keys /\ ~Has(k) /\ k[1] = K
      BY <1>1, <2>1, <2>2 DEF CallKeyOf
    <2>4. k = G(K)
      BY <1>3, <2>3, KeyShape DEF SharedStages
    <2> QED BY <2>3, <2>4
  <1> QED BY <1>2, <1>3

\* A new round withdraws exactly what it does not inherit.
LEMMA FollowRetry ==
    ASSUME TypeInv, PaidInv, FitInv, RetryRun
    PROVE  Follow
  <1>1. PICK ids : ids = [k \in {} |-> 0]
    OBVIOUS
  <1>2. DOMAIN ids = {}
    BY <1>1
  <1>3. Repoints(Excluded, ids)
    BY <1>1, OnlyWithdraws DEF RetryRun
  <1>4. \A k \in Keys : Cp(k)' = IF k[1] \in RoundStages /\ Dropped(k) THEN 0 ELSE Cp(k)
    BY RetryTakes
  <1>5. ASSUME NEW k \in Keys, Has(k), k[1] \in SharedStages PROVE k[1] \notin Excluded
    <2> SUFFICES ASSUME k[1] \in Excluded PROVE FALSE
      OBVIOUS
    <2>1. k[1] \notin {"correction_transcript"} \cup BelowArms
      BY <1>5 DEF SharedStages, BelowArms, BelowEdit, TailStages
    <2>2. PICK K \in FailedKinds : k[1] \in Below(K)
      BY <2>1, ExcludedIs
    <2>3. K \in CallKinds
      BY ExcludedIs
    <2>4. k[1] \notin BelowArms /\ k[1] \notin BelowEdit /\ k[1] \notin {"ata_result", "srt_render"}
      BY <1>5 DEF SharedStages, BelowArms, BelowEdit, TailStages
    <2>5. \/ K = "media_object" /\ k[1] \in {"base_asr", "peer_asr", "asr_comparison"}
          \/ K \in {"base_asr", "peer_asr"} /\ k[1] = "asr_comparison"
      BY <1>5, <2>2, <2>3, <2>4 DEF Below, CallKinds, SharedStages
    <2>6. k = G(k[1])
      BY <1>5, KeyShape DEF SharedStages
    <2>7. Has(G(K))
      BY <1>5, <2>5, <2>6, UpChain DEF FitInv
    <2>8. K \in SharedStages
      BY <2>5 DEF SharedStages
    <2> QED BY <2>7, <2>8, FailedMissing
  <1>6. ASSUME NEW k \in Keys, Has(k)' PROVE Has(k) /\ k[1] \notin Excluded
    <2>1. Cp(k)' = Cp(k) /\ ~(k[1] \in RoundStages /\ Dropped(k))
      BY <1>4, <1>6 DEF Has
    <2>2. Has(k)
      BY <1>6, <2>1 DEF Has
    <2>3. k[1] \in RoundStages \cup SharedStages
      BY KeyShape DEF Kinds
    <2> QED BY <1>5, <2>1, <2>2, <2>3 DEF Dropped
  <1>7. ASSUME NEW k \in Keys, Has(k), k[1] \notin Excluded PROVE Cp(k)' = Cp(k)
    BY <1>4, <1>7, FailedMissing DEF Dropped
  <1>8. "srt_render" \notin Excluded => "ata_result" \notin Excluded
    <2>1. \A K \in CallKinds : "ata_result" \in Below(K) => "srt_render" \in Below(K)
      BY DEF CallKinds, Below, BelowArms, BelowEdit, TailStages
    <2>2. "srt_render" \in BelowArms
      BY DEF BelowArms, BelowEdit, TailStages
    <2> QED BY <2>1, <2>2, ExcludedIs
  <1>9. G("ata_result") \in Keys /\ G("ata_result")[1] = "ata_result"
    BY StageKeys
  <1>10. Has(G("ata_result")) /\ "srt_render" \notin Excluded =>
            Cp(G("ata_result"))' = Cp(G("ata_result"))
    BY <1>7, <1>8, <1>9
  <1>11. Carries(Excluded, ids)
    BY <1>2, <1>6, <1>7, <1>10 DEF Carries
  <1> QED BY <1>3, <1>11 DEF Follow

\* An invalidation withdraws what it drops.
LEMMA FollowInvalidate == ASSUME TypeInv, Invalidate PROVE Follow
  <1>1. PICK ids : ids = [k \in {} |-> 0]
    OBVIOUS
  <1>2. DOMAIN ids = {}
    BY <1>1
  <1>3. {"job_input"} \cup Descendants({"job_input"}) = RoundStages
    <2>1. Descendants({"job_input"}) = Below("job_input")
      BY BelowIs
    <2> QED BY <2>1 DEF Below, BelowArms, BelowEdit, TailStages, RoundStages
  <1>4. Repoints(RoundStages, ids)
    <2>1. ptr' = Stale(ptr, RoundStages)
      BY <1>3 DEF Invalidate
    <2> QED BY <1>1, <2>1, OnlyWithdraws
  <1>5. \A k \in Keys : Cp(k)' = IF k[1] \in RoundStages THEN 0 ELSE Cp(k)
    BY InvalidateDrops
  <1>6. "srt_render" \in RoundStages
    BY DEF RoundStages
  <1>7. Carries(RoundStages, ids)
    BY <1>2, <1>5, <1>6 DEF Carries, Has
  <1> QED BY <1>4, <1>7 DEF Follow

\* The steps that change a pointer.
PtrWriters ==
    \/ IntakeJob \/ RetryRun \/ Deciders \/ MediaPrepare \/ Compare \/ Invalidate \/ PublishJob
    \/ PlanStage \/ SaveBatch \/ SaveTranscript \/ ActivateInputs \/ SaveAtaResult
    \/ ActivateResult \/ Render
    \/ \E s \in Slots : Succeed(s)

LEMMA PtrQuiet == ASSUME Next, ~PtrWriters PROVE UNCHANGED ptr
  <1> USE DEF dataVars
  <1>1. CASE EntrySteps
    BY <1>1 DEF PtrWriters, Deciders, EntrySteps, IntakeBind, IntakeCheckpoint, ResumeRun,
                RetryInvocation, Refuse
  <1>2. CASE LocalStage
    BY <1>2 DEF PtrWriters, Deciders, LocalStage, SetRunning, Progress, JobStage, MediaReuse,
                BindMedia, BindCompare, PrepareReference, ReferencesPrepared, SameReferences,
                BindJob, ResolveStage, ReviewGate
  <1>3. CASE CallStep
    BY <1>3 DEF PtrWriters, CallStep, CallReuse, CallRefused, CallBegin, ArmReuse, ArmRefused,
                ArmBegin, Receipt, Collected, MarkSending, CallCancelled, CompletedInvalid,
                Resubmit, ResubmitFails, CallFails
  <1>4. CASE ExportStep
    BY <1>4 DEF PtrWriters, ExportStep, PersistOutputs, CommitSuccess, ProjectResult,
                LocalFailure, FailRun, FailCommit, Snapshot
  <1>5. CASE RequestCancel \/ Crash
    BY <1>5 DEF RequestCancel, Crash
  <1>6. ASSUME NEW c \in Commands, Enter(c) PROVE UNCHANGED ptr
    BY <1>6 DEF Enter
  <1> QED BY <1>1, <1>2, <1>3, <1>4, <1>5, <1>6 DEF Next, Writer

\* A render offers the SRT of the round's own ATA result, and nothing else moves.
LEMMA RenderPoints ==
    ASSUME TypeInv, StoreInv, FitInv, NoSrt, ArtStays, PtrCurrent, TextPtr, SrtPtr, Render
    PROVE  PtrCurrent' /\ TextPtr' /\ SrtPtr'
  <1>0. UNCHANGED <<round, cp>> /\ Has(G("ata_result"))
    BY StepPlaces DEF Render, rowVars, FitInv, Places
  <1>1. CASE ~ExportGate
    <2>1. UNCHANGED ptr
      BY <1>1 DEF Render
    <2> QED BY <1>0, <2>1, FollowQuiet, FollowOn
  <1>2. CASE ExportGate
    <2>1. PICK a : a = Srt
      OBVIOUS
    <2>2. PICK id : id = IdIn(art, a)
      OBVIOUS
    <2>3. /\ a.kind = "srt_render" /\ KeyOf(a) = G("srt_render")
          /\ a.deps = {Cp(G("ata_result"))}
      BY <2>1 DEF Srt, Artifact, KeyOf, G
    <2>4. PublishOnly(a)
      BY <1>2, <2>1 DEF Render
    <2>5. id \in DOMAIN art' /\ art'[id] = a
      <3>1. art \in Seq(ArtifactRows)
        BY DEF TypeInv, TypeOK, DataOK
      <3>2. art' = With(art, a)
        BY <2>4 DEF PublishOnly
      <3> QED BY <2>2, <3>1, <3>2, WithHolds
    <2>6. PICK ids : ids = Only(G("srt_render"), id)
      OBVIOUS
    <2>7. DOMAIN ids = {G("srt_render")} /\ ids[G("srt_render")] = id
      BY <2>6 DEF Only
    <2>8. Repoints({}, ids)
      <3>1. StaleTargets("srt_render") = {}
        BY DEF StaleTargets
      <3> QED BY <2>2, <2>3, <2>4, <2>6, <3>1, OfferPoints
    <2>9. G("srt_render") \in Keys /\ G("srt_render")[1] = "srt_render"
      BY StageKeys
    <2>10. /\ ptr'[G("srt_render")] = Live(id)
           /\ \A k \in Keys : k # G("srt_render") => ptr'[k] = ptr[k]
      BY <2>7, <2>8, <2>9 DEF Repoints
    <2>11. \A k : Cp(k)' = Cp(k)
      BY <1>0, CpSame
    <2>12. \A k : Has(k)' <=> Has(k)
      BY <2>11 DEF Has
    <2>13. ASSUME NEW k \in Keys, k # G("job_input"), Has(k)' PROVE ptr'[k] = Live(Cp(k)')
      <3>1. k # G("srt_render") /\ Has(k)
        BY <2>12, <2>13 DEF NoSrt
      <3> QED BY <2>10, <2>11, <2>13, <3>1 DEF PtrCurrent, Current
    <2>14. ASSUME NEW k \in Keys, k[1] \in Textual, ~ptr'[k].stale
           PROVE  Has(k)' /\ ptr'[k] = Live(Cp(k)')
      <3>1. k # G("srt_render")
        BY <2>9, <2>14 DEF Textual
      <3>2. ptr'[k] = ptr[k]
        BY <2>10, <3>1
      <3>3. Has(k) /\ ptr[k] = Live(Cp(k))
        BY <2>14, <3>2 DEF TextPtr, Current
      <3> QED BY <2>11, <2>12, <3>2, <3>3
    <2>15. SrtPtr'
      <3>1. ptr'[G("srt_render")].id = id
        BY <2>10 DEF Live
      <3>2. art'[id].deps = {Cp(G("ata_result"))'}
        BY <2>3, <2>5, <2>11
      <3> QED BY <1>0, <2>5, <2>12, <3>1, <3>2 DEF SrtPtr
    <2> QED BY <2>13, <2>14, <2>15 DEF PtrCurrent, TextPtr, Current
  <1> QED BY <1>1, <1>2

\* Every other step follows.
LEMMA FollowStep ==
    ASSUME TypeInv, ControlInv, CallInv, ArtInv, PaidInv, FitInv, PtrInv, Next, ~Render
    PROVE  Follow
  <1> USE DEF PtrInv
  <1>1. CASE RetryRun
    BY <1>1, FollowRetry
  <1>2. CASE Invalidate
    BY <1>2, FollowInvalidate
  <1>3. CASE Deciders
    BY <1>3, FollowDecides
  <1>4. CASE \E s \in Slots : Succeed(s)
    BY <1>4, FollowAnswer DEF FitInv
  <1>5. CASE IntakeJob \/ PublishJob \/ Compare \/ MediaPrepare
    BY <1>5, FollowFirst DEF ArtInv
  <1>6. CASE PlanStage \/ SaveBatch \/ SaveTranscript \/ SaveAtaResult
    BY <1>6, FollowSaves DEF FitInv
  <1>7. CASE ActivateInputs \/ ActivateResult
    BY <1>7, FollowActivates
  <1>8. CASE IntakeCheckpoint \/ JobStage \/ BindJob \/ BindMedia \/ BindCompare
    BY <1>8, FollowBinds
  <1>9. CASE /\ ~PtrWriters
             /\ ~(IntakeCheckpoint \/ JobStage \/ BindJob \/ BindMedia \/ BindCompare)
    <2>1. UNCHANGED ptr
      BY <1>9, PtrQuiet
    <2>2. ~LocalWriters /\ ~Deciders /\ ~RetryRun /\ ~Invalidate /\ \A s \in Slots : ~Succeed(s)
      BY <1>9 DEF PtrWriters, LocalWriters
    <2>3. UNCHANGED <<cp, round>>
      BY <2>2, CpQuiet
    <2> QED BY <2>1, <2>3, FollowQuiet
  <1> QED BY <1>1, <1>2, <1>3, <1>4, <1>5, <1>6, <1>7, <1>8, <1>9 DEF PtrWriters

\* The render is offered, never bound.
LEMMA NoSrtStep == ASSUME TypeInv, CallInv, NoSrt, Next PROVE NoSrt'
  <1>0. PICK k : k = G("srt_render")
    OBVIOUS
  <1>1. k \in Keys /\ k[1] = "srt_render"
    BY <1>0, StageKeys
  <1>2. CASE RetryRun
    <2>1. Cp(k)' = 0 \/ Cp(k)' = Cp(k)
      BY <1>1, <1>2, RetryTakes
    <2> QED BY <1>0, <2>1 DEF NoSrt, Has
  <1>3. CASE Invalidate
    <2>1. Cp(k)' = 0 \/ Cp(k)' = Cp(k)
      BY <1>1, <1>3, InvalidateDrops
    <2> QED BY <1>0, <2>1 DEF NoSrt, Has
  <1>4. CASE ~RetryRun /\ ~Invalidate
    <2>1. ~Writes(k)
      BY <1>0, <1>1 DEF Writes, G, DecisionKeys, CallKinds
    <2>2. Cp(k)' = Cp(k)
      BY <1>1, <1>4, <2>1, CpStays
    <2> QED BY <1>0, <2>2 DEF NoSrt, Has
  <1> QED BY <1>2, <1>3, <1>4

\* What is offered ahead of its checkpoint stays offered until it is bound.
LEMMA BetweenStep ==
    ASSUME TypeInv, CallInv, ArtInv, BetweenTwo, ArtStays, Next
    PROVE  BetweenTwo'
  <1>0. pc' \in {"bindProbe", "bindTimeline", "bindCompare"} =>
           (BindMedia /\ pc = "bindProbe") \/ MediaPrepare \/ Compare \/ RequestCancel
    <2>1. ASSUME pc' \in {"bindProbe", "bindTimeline", "bindCompare"}
          PROVE  /\ pc' \notin Resting /\ pc' \notin CallPlaces
                 /\ pc \in {"media", "bindProbe", "bindTimeline", "compare", "bindCompare"}
      BY <2>1, WriterMoves DEF Moves, Resting, Commands, Leads, CallPlaces, MainCall, Arms
    <2> SUFFICES ASSUME pc' \in {"bindProbe", "bindTimeline", "bindCompare"}
                 PROVE  (BindMedia /\ pc = "bindProbe") \/ MediaPrepare \/ Compare \/ RequestCancel
      OBVIOUS
    <2>2. \/ pc = "media" /\ (MediaReuse \/ MediaPrepare \/ RequestCancel)
          \/ pc \in {"bindProbe", "bindTimeline"} /\ (BindMedia \/ RequestCancel)
          \/ pc = "compare" /\ (Compare \/ RequestCancel)
          \/ pc = "bindCompare" /\ (BindCompare \/ RequestCancel)
      BY <2>1, StepsAt
    <2>3. MediaReuse => pc' \in {"fail", "upload"}
      BY DEF MediaReuse, Raise, Goto
    <2>4. BindMedia /\ pc = "bindTimeline" => pc' = "upload"
      BY DEF BindMedia, Goto
    <2>5. BindCompare => pc' = "refs"
      BY DEF BindCompare, Goto
    <2> QED BY <2>2, <2>3, <2>4, <2>5
  <1>1. CASE UNCHANGED <<ptr, art, cp, round>> /\ (pc' = pc \/ (pc = "bindProbe" /\ pc' = "bindTimeline"))
    BY <1>1 DEF BetweenTwo, Comparison, Probe, Timeline, TimelineId, Artifact, Cp, RoundOf
  <1>2. CASE RequestCancel
    BY <1>1, <1>2 DEF RequestCancel, dataVars
  <1>3. CASE BindMedia /\ pc = "bindProbe"
    <2>1. UNCHANGED <<ptr, art>> /\ pc' = "bindTimeline"
      BY <1>3 DEF BindMedia, Goto
    <2> QED BY <1>3, <2>1 DEF BetweenTwo, Probe, Timeline, TimelineId, Artifact
  <1>4. CASE MediaPrepare
    <2>0. /\ pc' = "bindProbe" /\ art' = With(With(art, Probe), Timeline)
          /\ ptr' = Activate(Stale(ptr, StaleTargets("timeline_audio")),
                       [k \in {G("media_probe"), G("timeline_audio")} |->
                          IF k = G("media_probe") THEN IdIn(art, Probe) ELSE TimelineId])
      BY <1>4 DEF MediaPrepare, Goto
    <2>1. PICK p, t, n, m : p = Probe /\ t = Timeline /\ n = IdIn(art, Probe) /\ m = TimelineId
      OBVIOUS
    <2>2. PICK ids : ids = [k \in {G("media_probe"), G("timeline_audio")} |->
                              IF k = G("media_probe") THEN n ELSE m]
      OBVIOUS
    <2>3. /\ DOMAIN ids = {G("media_probe"), G("timeline_audio")}
          /\ ids[G("media_probe")] = n /\ ids[G("timeline_audio")] = m
      BY <2>2 DEF G
    <2>4. Repoints(StaleTargets("timeline_audio"), ids)
      BY <2>0, <2>1, <2>2, ActivatePoints
    <2>5. ptr'[G("media_probe")] = Live(n) /\ ptr'[G("timeline_audio")] = Live(m)
      BY <2>3, <2>4, StageKeys DEF Repoints
    <2>6. PICK s1, s2 : s1 = With(art, p) /\ s2 = With(s1, t)
      OBVIOUS
    <2>7. art \in Seq(ArtifactRows) /\ Unique(art)
      BY DEF TypeInv, TypeOK, DataOK, ArtInv, StoreInv
    <2>8. /\ Holds(s1, p) /\ IdIn(s1, p) = n /\ Unique(s1)
      BY <2>1, <2>6, <2>7, IdPublished, WithHolds
    <2>9. PICK T : s1 \in Seq(T)
      BY <2>6, <2>7, WithSeq
    <2>10. /\ Holds(s2, t) /\ IdIn(s2, t) = IdIn(s1, t) /\ Unique(s2) /\ Extends(s1, s2)
      BY <2>6, <2>8, <2>9, IdPublished, WithHolds
    <2>11. Holds(s2, p) /\ IdIn(s2, p) = n
      BY <2>8, <2>10, IdStays
    <2>12. art' = s2 /\ m = IdIn(s1, t)
      BY <2>0, <2>1, <2>6 DEF TimelineId
    <2>13. IdIn(art, Probe)' = n
      BY <2>1, <2>11, <2>12 DEF Probe
    <2>14. Timeline' = t
      BY <2>1, <2>13 DEF Timeline
    <2>15. With(s2, p) = s2
      BY <2>11 DEF With, Holds
    <2>16. TimelineId' = m
      <3>1. TimelineId' = IdIn(With(s2, p), t)
        BY <2>1, <2>12, <2>14 DEF TimelineId, Probe
      <3> QED BY <2>10, <2>12, <2>15, <3>1
    <2> QED BY <2>0, <2>5, <2>13, <2>16 DEF BetweenTwo
  <1>5. CASE Compare
    <2>1. CASE pc' = "bindCompare"
      <3>0. PublishOnly(Comparison) /\ UNCHANGED <<cp, round>>
        BY <1>5, <2>1 DEF Compare, Goto, rowVars
      <3>1. PICK c : c = Comparison
        OBVIOUS
      <3>2. Comparison' = c
        BY <3>0, <3>1, CpSame DEF Comparison
      <3>3. KeyOf(c) = G("asr_comparison") /\ c.kind = "asr_comparison"
        BY <3>1 DEF Comparison, KeyOf, Artifact, G
      <3>4. PICK ids : ids = Only(G("asr_comparison"), IdIn(art, c))
        OBVIOUS
      <3>5. DOMAIN ids = {G("asr_comparison")} /\ ids[G("asr_comparison")] = IdIn(art, c)
        BY <3>4 DEF Only
      <3>6. Repoints(StaleTargets("asr_comparison"), ids)
        BY <3>0, <3>1, <3>3, <3>4, OfferPoints
      <3>7. ptr'[G("asr_comparison")] = Live(IdIn(art, c))
        BY <3>5, <3>6, StageKeys DEF Repoints
      <3>8. IdIn(art', c) = IdIn(art, c)
        <4>1. art \in Seq(ArtifactRows) /\ Unique(art)
          BY DEF TypeInv, TypeOK, DataOK, ArtInv, StoreInv
        <4>2. art' = With(art, c)
          BY <3>0, <3>1 DEF PublishOnly
        <4> QED BY <4>1, <4>2, IdPublished
      <3> QED BY <2>1, <3>2, <3>7, <3>8 DEF BetweenTwo
    <2>2. CASE pc' # "bindCompare"
      <3>1. pc' = "refs"
        BY <1>5, <2>2 DEF Compare, Goto
      <3> QED BY <3>1 DEF BetweenTwo
    <2> QED BY <2>1, <2>2
  <1>6. CASE pc' \notin {"bindProbe", "bindTimeline", "bindCompare"}
    BY <1>6 DEF BetweenTwo
  <1> QED BY <1>0, <1>2, <1>3, <1>4, <1>5, <1>6

LEMMA PtrStep ==
    ASSUME TypeInv, ControlInv, CallInv, ArtInv, PaidInv, FitInv, PtrInv, Next
    PROVE  PtrInv'
  <1>1. ArtStays
    BY ArtStaysAlways
  <1>2. PtrCurrent' /\ TextPtr' /\ SrtPtr'
    <2>1. CASE Render
      BY <1>1, <2>1, RenderPoints DEF ArtInv, PtrInv
    <2>2. CASE ~Render
      BY <1>1, <2>2, FollowStep, FollowOn DEF PtrInv
    <2> QED BY <2>1, <2>2
  <1>3. NoSrt' /\ BetweenTwo'
    BY <1>1, NoSrtStep, BetweenStep DEF PtrInv
  <1> QED BY <1>2, <1>3 DEF PtrInv

LEMMA InitPtr == Init => PtrInv
  <1> SUFFICES ASSUME Init PROVE PtrInv
    OBVIOUS
  <1>1. \A k \in Keys : ~Has(k) /\ ptr[k].stale
    BY BoundsAssumption DEF Init, Has, Cp, RoundOf
  <1>2. pc = "idle"
    BY DEF Init
  <1> QED BY <1>1, <1>2, StageKeys
      DEF PtrInv, PtrCurrent, TextPtr, SrtPtr, NoSrt, BetweenTwo

LEMMA PtrQuietly == ASSUME PtrInv, UNCHANGED vars PROVE PtrInv'
  <1>1. UNCHANGED <<round, art, cp, ptr, pc>>
    BY DEF vars, rowVars, dataVars
  <1>2. PtrCurrent' /\ TextPtr' /\ SrtPtr' /\ NoSrt'
    BY <1>1 DEF PtrInv, PtrCurrent, TextPtr, SrtPtr, NoSrt, Current, Has, Cp, RoundOf
  <1>3. BetweenTwo'
    BY <1>1 DEF PtrInv, BetweenTwo, Comparison, Probe, Timeline, TimelineId, Artifact, Cp, RoundOf
  <1> QED BY <1>2, <1>3 DEF PtrInv

LEMMA PtrInvariant == Spec => []PtrInv
  <1>1. TypeInv /\ ControlInv /\ CallInv /\ ArtInv /\ PaidInv /\ FitInv /\ PtrInv /\ [Next]_vars
        => PtrInv'
    BY PtrStep, PtrQuietly
  <1> QED BY <1>1, InitPtr, TypeInvariant, ControlInvariant, CallInvariant, ArtInvariant,
             PaidInvariant, FitInvariant, PTL DEF Spec

\* What a checkpoint names is what its pointer offers.
LEMMA OffersCp ==
    ASSUME TypeInv, StoreInv, PtrCurrent, NEW k \in Keys, k # G("job_input"), Has(k)
    PROVE  IsCurrent(Cp(k))
  <1>1. KeyOf(art[Cp(k)]) = k
    BY CpKept DEF StoreInv, KeptAt
  <1> QED BY <1>1 DEF IsCurrent, PtrCurrent, Current, Live

\* A subtitle, ATA answer or transcript that a current pointer offers was never built from
\* something superseded: every input of it is what its own current pointer offers, whatever
\* was published again, retried, decided by a reviewer or invalidated in between.
THEOREM TailIsCurrent == Spec => []TailCurrent
  <1>1. TypeInv /\ StoreInv /\ FitInv /\ PtrInv => TailCurrent
    <2> SUFFICES ASSUME TypeInv, StoreInv, FitInv, PtrInv, NEW k \in TailKeys, ~ptr[k].stale,
                        NEW d \in art[ptr[k].id].deps
                 PROVE  IsCurrent(d)
      BY DEF TailCurrent
    <2>1. /\ k \in Keys
          /\ k = G("srt_render") \/ k[1] \in Textual
      BY StageKeys DEF TailKeys, TailStages, Textual
    <2>2. PICK n \in Keys : n # G("job_input") /\ Has(n) /\ d = Cp(n)
      <3>1. CASE k = G("srt_render")
        <4>1. Has(G("ata_result")) /\ art[ptr[k].id].deps = {Cp(G("ata_result"))}
          BY <3>1 DEF PtrInv, SrtPtr
        <4> QED BY <4>1, StageKeys DEF G
      <3>2. CASE k[1] \in Textual
        <4>1. Has(k) /\ ptr[k].id = Cp(k)
          <5>1. Has(k) /\ Current(k)
            BY <2>1, <3>2, Zenon DEF PtrInv, TextPtr
          <5>2. PICK q, c : q = ptr[k] /\ c = Cp(k)
            OBVIOUS
          <5>3. q = [id |-> c, stale |-> FALSE]
            BY <5>1, <5>2 DEF Current, Live
          <5> QED BY <5>1, <5>2, <5>3
        <4>2. k[1] \in BuiltKinds
          BY <3>2 DEF Textual, BuiltKinds
        <4>3. art[Cp(k)].deps = {Cp(n) : n \in Sources(k)}
          BY <2>1, <4>1, <4>2 DEF FitInv, Exact
        <4>4. Sources(k) \subseteq Keys /\ \A n \in Sources(k) : Has(n) /\ n # G("job_input")
          <5>1. Sources(k) = Needs(k)
            BY <2>1, <4>2, SourcesNeeded
          <5>2. \A n \in Needs(k) : Has(n)
            BY <2>1, <4>1 DEF FitInv, Complete
          <5>3. Sources(k) \subseteq {G("base_asr"), G("edit_resolution"), G("media_object"),
                      G("timeline_audio"), G("transcript"), G("ata_response")}
            BY <3>2 DEF Textual, Sources
          <5>4. G("job_input") \notin {G("base_asr"), G("edit_resolution"), G("media_object"),
                      G("timeline_audio"), G("transcript"), G("ata_response")}
            BY DEF G
          <5>5. Sources(k) \subseteq Keys
            BY <2>1, <5>1, NeedsKeys
          <5> QED BY <5>1, <5>2, <5>3, <5>4, <5>5
        <4> QED BY <4>1, <4>3, <4>4
      <3> QED BY <2>1, <3>1, <3>2
    <2> QED BY <2>2, OffersCp DEF PtrInv
  <1> QED BY <1>1, TypeInvariant, ArtInvariant, FitInvariant, PtrInvariant, PTL DEF ArtInv

-----------------------------------------------------------------------------
(* What the integrity checks of the engine find.                           *)

\* The checkpoints whose contents a call freezes as its inputs.
ReadKeys(op, scope) ==
    CASE op = "media_upload" -> {G("timeline_audio")}
      [] op \in {"qwen_asr", "doubao_asr"} -> {G("media_object")}
      [] op \in {"qwen_correction", "kimi_correction"} ->
            {G("base_asr"), G("peer_asr"), G("job_input"), G("asr_comparison")}
      [] op = "glm_selection" -> {<<"selection_batch", scope>>}
      [] op = "ata" -> {G("media_object"), G("transcript")}

\* Every call of the round froze what a new attempt at it would freeze now.
ReadsNow(i) == /\ inv[i].inputs = Inputs(inv[i].op, inv[i].scope)
               /\ \A n \in ReadKeys(inv[i].op, inv[i].scope) : Has(n)
InputsNow == \A i \in DOMAIN inv : inv[i].round = round => ReadsNow(i)

\* The ATA response of the round comes from a call that read the round's transcript.
AtaRow ==
    Has(G("ata_response")) =>
        LET m == art[Cp(G("ata_response"))].mark IN
        /\ m \in DOMAIN inv /\ inv[m].op = "ata" /\ inv[m].status = "succeeded"
        /\ inv[m].art = Cp(G("ata_response"))
        /\ inv[m].inputs = {Cp(G("media_object")), Cp(G("transcript"))}

SafeInv == InputsNow /\ AtaRow /\ NoIntegrityFailure

\* What a row asks for, from its type.
LEMMA RowCall ==
    ASSUME TypeInv, NEW i \in DOMAIN inv
    PROVE  inv[i].op \in Ops /\ (inv[i].op = "glm_selection" => inv[i].scope \in Batches)
  <1>1. inv[i] \in InvocationRows
    BY DEF TypeInv, TypeOK, DataOK
  <1> QED BY <1>1 DEF InvocationRows

LEMMA ReadKeysAre ==
    ASSUME NEW op \in Ops, NEW scope, op = "glm_selection" => scope \in Batches
    PROVE  /\ ReadKeys(op, scope) \subseteq Keys \ DecisionKeys
           /\ ResultKind(op) \in SharedStages =>
                 \A n \in ReadKeys(op, scope) : n[1] \in SharedStages
  <1>1. G("timeline_audio") \in Keys /\ G("media_object") \in Keys /\ G("base_asr") \in Keys
        /\ G("peer_asr") \in Keys /\ G("job_input") \in Keys /\ G("asr_comparison") \in Keys
        /\ G("transcript") \in Keys
    BY StageKeys
  <1>2. \A b \in Batches : <<"selection_batch", b>> \in Keys
    BY KeysOfKinds
  <1>3. ReadKeys(op, scope) \subseteq Keys
    BY <1>1, <1>2 DEF ReadKeys, Ops, RemoteOps
  <1>4. \A n \in ReadKeys(op, scope) : n \notin DecisionKeys
    BY DEF ReadKeys, Ops, RemoteOps, DecisionKeys, G
  <1>5. ResultKind(op) \in SharedStages => op \in {"media_upload", "qwen_asr", "doubao_asr"}
    BY DEF ResultKind, SharedStages, Ops, RemoteOps
  <1>6. op \in {"media_upload", "qwen_asr", "doubao_asr"} =>
           \A n \in ReadKeys(op, scope) : n[1] \in SharedStages
    BY DEF ReadKeys, G, SharedStages
  <1> QED BY <1>3, <1>4, <1>5, <1>6

LEMMA InputsSame ==
    ASSUME NEW op \in Ops, NEW scope, \A n \in ReadKeys(op, scope) : Cp(n)' = Cp(n),
           OriginalJobId' = OriginalJobId
    PROVE  Inputs(op, scope)' = Inputs(op, scope)
  BY DEF ReadKeys, Inputs, Ops, RemoteOps

\* The job_input frozen at intake keeps its identity once there is a call.
LEMMA OriginalKept ==
    ASSUME TypeInv, ControlInv, CallInv, ArtInv, Next, NEW i \in DOMAIN inv
    PROVE  OriginalJobId' = OriginalJobId
  <1>1. PICK a : a = OriginalJob
    OBVIOUS
  <1>2. Holds(art, a)
    BY <1>1 DEF ArtInv, StoreInv, Prepared, JobInv
  <1>3. Unique(art') /\ Extends(art, art')
    BY StoreStep, ArtStaysAlways DEF ArtInv, StoreInv, ArtStays
  <1>4. IdIn(art', a) = IdIn(art, a)
    BY <1>2, <1>3, IdStays
  <1>5. OriginalJob' = a
    BY <1>1 DEF OriginalJob, Artifact, G
  <1> QED BY <1>1, <1>4, <1>5 DEF OriginalJobId

\* A batch is asked for when it is stored.
LEMMA BatchAsked ==
    ASSUME TypeInv, CallInv, Askers, pc = "select"
    PROVE  Has(<<"selection_batch", Batch>>)
  <1>1. CASE CallBegin
    BY <1>1 DEF CallBegin, CallPending, Has
  <1>2. CASE ArmBegin
    BY <1>2 DEF ArmBegin, Arms
  <1>3. ASSUME NEW s \in Slots, Resubmit(s) PROVE Has(<<"selection_batch", Batch>>)
    <2>1. slot[s].inv # 0
      BY <1>3 DEF Resubmit, Doing
    <2>2. InFlight(s)
      BY <2>1 DEF CallInv, CallsKnown, Ending
    <2> QED BY <2>2 DEF InFlight, Has
  <1> QED BY <1>1, <1>2, <1>3 DEF Askers

\* A new row freezes what is bound now.
LEMMA NewReadsNow ==
    ASSUME TypeInv, TypeInv', CallInv, ArtInv, FitInv, InputsNow, Next, NEW i \in DOMAIN inv',
           i \notin DOMAIN inv
    PROVE  ReadsNow(i)'
  <1>1. i = Len(inv) + 1 /\ \E op, scope : Asks(op, scope)
    BY NewRow
  <1>2. PICK op, scope : Asks(op, scope)
    BY <1>1
  <1>3. /\ inv'[i].op = op /\ inv'[i].scope = scope /\ inv'[i].inputs = Inputs(op, scope)
        /\ UNCHANGED <<art, cp, round>>
    BY <1>1, <1>2 DEF Asks, dataVars, rowVars
  <1>4. /\ Inputs(op, scope)' = Inputs(op, scope) /\ \A k : Cp(k)' = Cp(k)
    BY <1>3, InputsKept
  <1>5. \A n \in ReadKeys(op, scope) : Has(n)
    <2>0. Askers
      BY <1>1, RowOrigins
    <2>1. CASE pc \in DOMAIN MainCall /\ op = MainCall[pc] /\ scope = CallScope
      <3>1. CASE pc = "upload"
        BY <2>1, <3>1 DEF MainCall, ReadKeys, FitInv, Places
      <3>2. CASE pc \in {"base", "peer"}
        <4>1. ReadKeys(op, scope) = {G("media_object")}
          BY <2>1, <3>2 DEF MainCall, ReadKeys
        <4> QED BY <3>2, <4>1 DEF ArtInv, PlaceInv, AfterUpload
      <3>3. CASE pc = "select"
        <4>1. ReadKeys(op, scope) = {<<"selection_batch", Batch>>}
          BY <2>1, <3>3 DEF MainCall, ReadKeys, CallScope
        <4> QED BY <2>0, <3>3, <4>1, BatchAsked
      <3>4. CASE pc = "ata"
        <4>1. ReadKeys(op, scope) = {G("media_object"), G("transcript")}
          BY <2>1, <3>4 DEF MainCall, ReadKeys
        <4> QED BY <3>4, <4>1 DEF ArtInv, PlaceInv, AfterUpload, Reading
      <3> QED BY <2>1, <3>1, <3>2, <3>3, <3>4 DEF MainCall
    <2>2. CASE pc \in Arms /\ op = ArmOp(pc)
      <3>1. Has(G("base_asr")) /\ Has(G("peer_asr")) /\ Has(G("asr_comparison"))
        BY <2>2 DEF ArtInv, PlaceInv, AfterCompare, AfterPeer, AfterBase, AfterUpload, Reading, Arms
      <3>2. Has(G("job_input"))
        BY <2>2 DEF ArtInv, JobInv, JobReady, Reading, Arms
      <3>3. ReadKeys(op, scope) = {G("base_asr"), G("peer_asr"), G("job_input"), G("asr_comparison")}
        BY <2>2 DEF ReadKeys, ArmOp, Arms
      <3> QED BY <3>1, <3>2, <3>3
    <2>3. CASE \E k \in DOMAIN inv : /\ inv[k].op = op /\ inv[k].scope = scope
                                     /\ inv[k].round = round /\ inv[k].inputs = Inputs(op, scope)
      BY <2>3 DEF InputsNow, ReadsNow
    <2> QED BY <1>2, <2>1, <2>2, <2>3 DEF Asks
  <1>6. \A n \in ReadKeys(op, scope) : Has(n)'
    BY <1>4, <1>5 DEF Has
  <1>7. PICK r : r = inv'[i]
    OBVIOUS
  <1>8. r.op = op /\ r.scope = scope /\ r.inputs = Inputs(op, scope)'
    BY <1>3, <1>4, <1>7
  <1>9. ReadKeys(op, scope)' = ReadKeys(op, scope)
    BY DEF ReadKeys
  <1> QED BY <1>6, <1>7, <1>8, <1>9 DEF ReadsNow

\* What a call of the round has read stays: before the job_input changes, only the
\* shared stages have been called.
LEMMA ReadsKept ==
    ASSUME TypeInv, ControlInv, CallInv, ArtInv, FitInv, InputsNow, Next, ~RetryRun,
           NEW i \in DOMAIN inv, inv[i].round = round
    PROVE  ReadsNow(i)'
  <1>1. PICK op, sc : op = inv[i].op /\ sc = inv[i].scope
    OBVIOUS
  <1>2. op \in Ops /\ (op = "glm_selection" => sc \in Batches)
    BY <1>1, RowCall
  <1>3. inv[i].inputs = Inputs(op, sc) /\ \A n \in ReadKeys(op, sc) : Has(n)
    BY <1>1 DEF InputsNow, ReadsNow
  <1>4. ASSUME NEW n \in ReadKeys(op, sc) PROVE Cp(n)' = Cp(n)
    <2>1. n \in Keys /\ n \notin DecisionKeys
      BY <1>2, <1>4, ReadKeysAre
    <2>2. CASE Invalidate
      <3>1. ResultKind(op) \in SharedStages
        <4> SUFFICES ASSUME ResultKind(op) \notin SharedStages PROVE FALSE
          OBVIOUS
        <4>1. LateCall(i)
          BY <1>1 DEF LateCall
        <4>2. JobReady
          BY <4>1 DEF AnyLate, ArtInv, JobInv
        <4> QED BY <2>2, <4>2 DEF Invalidate, RefsChanged, JobReady
      <3>2. n[1] \in SharedStages
        BY <1>2, <1>4, <3>1, ReadKeysAre
      <3>3. n[1] \notin RoundStages
        BY <3>2 DEF SharedStages, RoundStages
      <3> QED BY <2>1, <2>2, <3>3, InvalidateDrops
    <2>3. CASE ~Invalidate
      BY <1>3, <1>4, <2>1, <2>3, CpFixed DEF ArtInv
    <2> QED BY <2>2, <2>3
  <1>5. Inputs(op, sc)' = Inputs(op, sc)
    BY <1>2, <1>4, InputsSame, OriginalKept
  <1>6. /\ inv'[i].op = op /\ inv'[i].scope = sc /\ inv'[i].inputs = inv[i].inputs
    BY <1>1, AskedStays
  <1>7. PICK r : r = inv'[i]
    OBVIOUS
  <1>8. r.op = op /\ r.scope = sc /\ r.inputs = Inputs(op, sc)'
    BY <1>3, <1>5, <1>6, <1>7
  <1>9. \A n \in ReadKeys(op, sc) : Has(n)'
    BY <1>3, <1>4 DEF Has
  <1>10. ReadKeys(op, sc)' = ReadKeys(op, sc)
    BY DEF ReadKeys
  <1> QED BY <1>7, <1>8, <1>9, <1>10 DEF ReadsNow

LEMMA InputsStep ==
    ASSUME TypeInv, TypeInv', ControlInv, CallInv, ArtInv, FitInv, InputsNow, Next
    PROVE  InputsNow'
  <1>1. SUFFICES ASSUME NEW i \in DOMAIN inv', inv'[i].round = round' PROVE ReadsNow(i)'
    BY DEF InputsNow
  <1>2. CASE i \notin DOMAIN inv
    BY <1>1, <1>2, NewReadsNow
  <1>3. CASE i \in DOMAIN inv
    <2>1. inv'[i].round = inv[i].round /\ inv[i].round <= round
      BY <1>3, AskedStays DEF CallInv, RoundsPast
    <2>2. ~RetryRun
      <3> SUFFICES ASSUME RetryRun PROVE FALSE
        OBVIOUS
      <3>1. round' = round + 1 /\ round \in Nat
        BY DEF RetryRun, TypeInv, TypeOK, RowsOK, Rounds
      <3>2. inv[i].round \in Nat
        <4>1. inv[i] \in InvocationRows
          BY <1>3 DEF TypeInv, TypeOK, DataOK
        <4> QED BY <4>1 DEF InvocationRows, Rounds
      <3>3. PICK m, n : m = inv'[i].round /\ n = round'
        OBVIOUS
      <3>4. m = n /\ n = round + 1 /\ m = inv[i].round /\ inv[i].round <= round
        BY <1>1, <2>1, <3>1, <3>3
      <3> QED BY <3>1, <3>2, <3>4
    <2>3. inv[i].round = round
      BY <1>1, <2>1, <2>2, RoundStays
    <2> QED BY <1>3, <2>2, <2>3, ReadsKept
  <1> QED BY <1>2, <1>3

\* Where the ATA response of the round comes from in a step.
LEMMA ResponseFrom ==
    ASSUME TypeInv, CallInv, StoreInv, FitInv, Next, NEW k, k = G("ata_response"), Has(k)'
    PROVE  \/ Has(k) /\ Cp(k)' = Cp(k)
           \/ ~RetryRun /\ ~Invalidate /\ \E s \in Slots : Succeed(s) /\ CallKeyOf(slot[s].inv) = k
  <1>0. k \in Keys /\ k[1] = "ata_response" /\ k \notin DecisionKeys /\ "ata_response" \in RoundStages
    BY StageKeys DEF DecisionKeys, G, RoundStages
  <1>1. CASE RetryRun
    <2>1. Cp(k)' = 0 \/ Cp(k)' = Cp(k)
      BY <1>0, <1>1, RetryTakes
    <2> QED BY <2>1 DEF Has
  <1>2. CASE Invalidate
    <2>1. Cp(k)' = 0
      BY <1>0, <1>2, InvalidateDrops
    <2> QED BY <2>1 DEF Has
  <1>3. CASE ~RetryRun /\ ~Invalidate
    <2>1. CASE Has(k)
      BY <1>0, <1>3, <2>1, CpFixed
    <2>2. CASE ~Has(k)
      <3>1. Writes(k)
        <4> SUFFICES ASSUME ~Writes(k) PROVE FALSE
          OBVIOUS
        <4>1. Cp(k)' = Cp(k)
          BY <1>0, <1>3, CpStays
        <4> QED BY <2>2, <4>1 DEF Has
      <3>2. \E s \in Slots : Succeed(s) /\ CallKeyOf(slot[s].inv) = k
        BY <1>0, <3>1 DEF Writes, G
      <3> QED BY <1>3, <3>2
    <2> QED BY <2>1, <2>2
  <1> QED BY <1>1, <1>2, <1>3

\* While the response stays, so does what it aligned.
LEMMA AlignedStays ==
    ASSUME TypeInv, CallInv, StoreInv, FitInv, FitInv', Next, Has(G("ata_response")),
           Has(G("ata_response"))', NEW k \in {G("media_object"), G("transcript")}
    PROVE  Cp(k)' = Cp(k)
  <1>0. k \in Keys /\ k \notin DecisionKeys
    BY StageKeys DEF DecisionKeys, G
  <1>1. Has(k) /\ Has(k)'
    <2>1. Complete /\ Complete'
      BY DEF FitInv
    <2>2. Needs(G("ata_response")) = {G("media_object"), G("timeline_audio"), G("transcript")}
      BY DEF Needs, Sources, G
    <2>3. Has(k)
      BY <2>1, <2>2, StageKeys DEF Complete
    <2>4. \A n \in Needs(G("ata_response")) : Has(n)'
      <3>1. \A x \in Keys : Has(x)' => \A n \in Needs(x)' : Has(n)'
        BY <2>1 DEF Complete
      <3>2. Needs(G("ata_response"))' = Needs(G("ata_response"))
        BY DEF Needs, Sources
      <3> QED BY <3>1, <3>2, StageKeys
    <2> QED BY <2>2, <2>3, <2>4
  <1>2. CASE RetryRun
    <2>1. Cp(k)' = 0 \/ Cp(k)' = Cp(k)
      BY <1>0, <1>2, RetryTakes
    <2> QED BY <1>1, <2>1 DEF Has
  <1>3. CASE Invalidate
    <2>1. Cp(k)' = 0 \/ Cp(k)' = Cp(k)
      BY <1>0, <1>3, InvalidateDrops
    <2> QED BY <1>1, <2>1 DEF Has
  <1>4. CASE ~RetryRun /\ ~Invalidate
    BY <1>0, <1>1, <1>4, CpFixed
  <1> QED BY <1>2, <1>3, <1>4

LEMMA AtaRowStep ==
    ASSUME TypeInv, ControlInv, CallInv, ArtInv, FitInv, FitInv', InputsNow, AtaRow, Next
    PROVE  AtaRow'
  <1> SUFFICES ASSUME Has(G("ata_response"))' PROVE AtaRow'
    BY DEF AtaRow
  <1>0. PICK k : k = G("ata_response")
    OBVIOUS
  <1>1. k \in Keys /\ k[1] = "ata_response"
    BY <1>0, StageKeys
  <1>2. CASE Has(k) /\ Cp(k)' = Cp(k)
    <2>1. PICK m : m = art[Cp(k)].mark
      OBVIOUS
    <2>2. /\ m \in DOMAIN inv /\ inv[m].op = "ata" /\ inv[m].status = "succeeded"
          /\ inv[m].art = Cp(k) /\ inv[m].inputs = {Cp(G("media_object")), Cp(G("transcript"))}
      BY <1>0, <1>2, <2>1 DEF AtaRow
    <2>3. art'[Cp(k)'] = art[Cp(k)]
      BY <1>1, <1>2, SealedKept, ArtStaysAlways DEF ArtInv, StoreInv
    <2>4. m \in DOMAIN inv' /\ inv'[m] = inv[m]
      <3>1. RowsStay /\ ~Open(m)
        BY <2>2, RowsStayAlways DEF Open
      <3>2. m \in DOMAIN inv'
        BY <2>2, AskedStays
      <3> QED BY <2>2, <3>1, <3>2 DEF RowsStay
    <2>5. \A n \in {G("media_object"), G("transcript")} : Cp(n)' = Cp(n)
      BY <1>0, <1>2, AlignedStays DEF ArtInv
    <2>6. PICK c, r : c = Cp(k)' /\ r = inv'[m]
      OBVIOUS
    <2>7. /\ art'[c].mark = m /\ r.op = "ata" /\ r.status = "succeeded" /\ r.art = c
          /\ r.inputs = {Cp(G("media_object"))', Cp(G("transcript"))'}
      BY <1>2, <2>1, <2>2, <2>3, <2>4, <2>5, <2>6
    <2> QED BY <1>0, <2>4, <2>6, <2>7 DEF AtaRow
  <1>3. CASE /\ ~RetryRun /\ ~Invalidate
             /\ \E s \in Slots : Succeed(s) /\ CallKeyOf(slot[s].inv) = k
    <2>1. PICK s \in Slots : Succeed(s) /\ CallKeyOf(slot[s].inv) = k
      BY <1>3
    <2>2. PICK m : m = slot[s].inv
      OBVIOUS
    <2>3. /\ m \in DOMAIN inv /\ DOMAIN inv' = DOMAIN inv /\ inv'[m].status = "succeeded"
          /\ InFlight(s) /\ Bind(k, inv'[m].art) /\ round' = round /\ CallKeyOf(m) = k
      BY <2>1, <2>2, SucceedRow
    <2>4. /\ inv'[m].op = inv[m].op /\ inv'[m].inputs = inv[m].inputs
      BY <2>3, AskedStays
    <2>5. inv[m].op = "ata"
      <3>1. inv[m].op \in Ops
        BY <2>3, RowCall
      <3>2. ResultKind(inv[m].op) = "ata_response"
        BY <1>1, <2>3 DEF CallKeyOf
      <3> QED BY <3>1, <3>2 DEF Ops, RemoteOps, ResultKind
    <2>6. inv[m].round = round
      BY <2>2, <2>3 DEF InFlight
    <2>7. ReadsNow(m)
      BY <2>3, <2>6 DEF InputsNow
    <2>8. /\ inv[m].inputs = {Cp(G("media_object")), Cp(G("transcript"))}
          /\ Has(G("media_object")) /\ Has(G("transcript"))
      BY <2>5, <2>7 DEF ReadsNow, Inputs, ReadKeys
    <2>9. \A n \in {G("media_object"), G("transcript")} : Cp(n)' = Cp(n)
      <3> SUFFICES ASSUME NEW n \in {G("media_object"), G("transcript")} PROVE Cp(n)' = Cp(n)
        OBVIOUS
      <3>1. n \in Keys /\ n \notin DecisionKeys /\ Has(n)
        BY <2>8, StageKeys DEF DecisionKeys, G
      <3> QED BY <1>3, <3>1, CpFixed DEF ArtInv
    <2>10. PICK c, r : c = Cp(k)' /\ r = inv'[m]
      OBVIOUS
    <2>11. c = r.art /\ art'[c].mark = m
      BY <1>1, <2>1, <2>2, <2>3, <2>10, CpBind, SucceedMark
    <2> QED BY <1>0, <2>3, <2>4, <2>5, <2>8, <2>9, <2>10, <2>11 DEF AtaRow
  <1> QED BY <1>0, <1>2, <1>3, ResponseFrom DEF ArtInv

\* A call of the round that succeeded is bound, so it is reused and never called again.
LEMMA NeverBroken ==
    ASSUME TypeInv, CallInv, PaidInv, NEW op, NEW scope, Cp(<<ResultKind(op), scope>>) = 0
    PROVE  ~Broken(op, scope)
  <1> SUFFICES ASSUME Broken(op, scope) PROVE FALSE
    OBVIOUS
  <1>1. Attempts(op, scope) # {} /\ Attempts(op, scope) \in SUBSET (1..Len(inv)) /\ Len(inv) \in Nat
    BY DEF Broken, Attempts, TypeInv, TypeOK, DataOK
  <1>2. PICK i : i = Last(Attempts(op, scope))
    OBVIOUS
  <1>3. i \in Attempts(op, scope)
    BY <1>1, <1>2, LastGreatest
  <1>4. /\ i \in DOMAIN inv /\ inv[i].op = op /\ inv[i].scope = scope /\ inv[i].round = round
        /\ inv[i].status = "succeeded"
    BY <1>2, <1>3 DEF Broken, Attempts
  <1>5. CpIn(inv[i].round, CallKeyOf(i)) = inv[i].art
    BY <1>4 DEF PaidInv, PaidResultsKept, CallKeyOf
  <1>6. Cp(CallKeyOf(i)) = inv[i].art
    BY <1>4, <1>5, PaidCell
  <1>7. inv[i].art \in DOMAIN art
    BY <1>4 DEF PaidInv, Bought
  <1>8. 0 \notin DOMAIN art
    BY DEF TypeInv, TypeOK, DataOK
  <1> QED BY <1>4, <1>6, <1>7, <1>8 DEF CallKeyOf

\* A new attempt freezes what the attempt it continues has frozen.
LEMMA NeverChanged ==
    ASSUME TypeInv, InputsNow, NEW op, NEW scope
    PROVE  ~ChangedIdentity(op, scope)
  <1> SUFFICES ASSUME ChangedIdentity(op, scope) PROVE FALSE
    OBVIOUS
  <1>1. PICK p : p = Predecessor(op, scope)
    OBVIOUS
  <1>2. p # 0 /\ inv[p].inputs # Inputs(op, scope)
    BY <1>1 DEF ChangedIdentity
  <1>3. CASE Attempts(op, scope) # {}
    <2>1. Attempts(op, scope) \in SUBSET (1..Len(inv)) /\ Len(inv) \in Nat
      BY DEF Attempts, TypeInv, TypeOK, DataOK
    <2>2. p \in Attempts(op, scope)
      BY <1>1, <1>3, <2>1, LastGreatest DEF Predecessor
    <2>3. p \in DOMAIN inv /\ inv[p].op = op /\ inv[p].scope = scope /\ inv[p].round = round
      BY <2>2 DEF Attempts
    <2>4. ReadsNow(p)
      BY <2>3 DEF InputsNow
    <2> QED BY <1>2, <2>3, <2>4 DEF ReadsNow
  <1>4. CASE Attempts(op, scope) = {}
    BY <1>1, <1>2, <1>4 DEF Predecessor
  <1> QED BY <1>3, <1>4

\* Where an integrity error can be raised.
RaisesIntegrity ==
    \/ MediaReuse /\ Cp(G("media_probe")) = 0
    \/ ReviewGate /\ Cp(G("review_queue")) = 0
    \/ Render /\ ~ExportGate
    \/ \E op, scope : /\ Cp(<<ResultKind(op), scope>>) = 0
                      /\ Broken(op, scope) \/ ChangedIdentity(op, scope)

LEMMA IntegrityFrom ==
    ASSUME Next, exc # "integrity", exc' = "integrity"
    PROVE  RaisesIntegrity
  <1> USE DEF Goto, Raise
  <1>1. CASE EntrySteps
    BY <1>1 DEF EntrySteps, IntakeJob, IntakeBind, IntakeCheckpoint, ResumeRun, RetryRun,
                RetryInvocation, ResolveReview, Refuse, Release, localVars
  <1>2. CASE LocalStage
    BY <1>2 DEF LocalStage, SetRunning, Progress, JobStage, MediaReuse, MediaPrepare, BindMedia,
                Compare, BindCompare, PrepareReference, ReferencesPrepared, SameReferences,
                Invalidate, PublishJob, BindJob, PlanStage, ResolveStage, SaveBatch, Finalize,
                ReviewGate, SaveTranscript, RaisesIntegrity
  <1>3. CASE CallRefused
    <2>1. PICK op, scope : op = MainCall[pc] /\ scope = CallScope
      OBVIOUS
    <2>2. Cp(<<ResultKind(op), scope>>) = 0
      BY <1>3, <2>1 DEF CallRefused, CallKey
    <2>3. Broken(op, scope) \/ ChangedIdentity(op, scope)
      BY <1>3, <2>1 DEF CallRefused, StageError
    <2> QED BY <2>2, <2>3 DEF RaisesIntegrity
  <1>4. CASE ArmRefused
    <2>1. PICK op, scope : op = ArmOp(pc) /\ scope = pc
      OBVIOUS
    <2>2. Cp(<<ResultKind(op), scope>>) = 0
      <3>1. pc \in Arms /\ Cp(ArmKey(pc)) = 0
        BY <1>4 DEF ArmRefused
      <3> QED BY <2>1, <3>1 DEF ArmKey, ResultKind, ArmOp, Arms
    <2>3. Broken(op, scope) \/ ChangedIdentity(op, scope)
      BY <1>4, <2>1 DEF ArmRefused, FirstError
    <2> QED BY <2>2, <2>3 DEF RaisesIntegrity
  <1>5. CASE CallReuse \/ CallBegin \/ ArmReuse \/ ArmBegin \/ Receipt \/ Collected
    BY <1>5 DEF CallReuse, CallBegin, ArmReuse, ArmBegin, Receipt, Collected
  <1>6. ASSUME NEW s \in Slots,
               \/ MarkSending(s) \/ Succeed(s) \/ CallCancelled(s)
               \/ CompletedInvalid(s) \/ Resubmit(s) \/ ResubmitFails(s)
               \/ \E st \in FailedStatuses : CallFails(s, st)
        PROVE  FALSE
    BY <1>6 DEF MarkSending, Succeed, CallCancelled, CompletedInvalid, Resubmit, ResubmitFails,
                CallFails, StageError, FirstError
  <1>7. CASE ExportStep
    BY <1>7 DEF ExportStep, ActivateInputs, SaveAtaResult, ActivateResult, Render, PersistOutputs,
                CommitSuccess, ProjectResult, LocalFailure, FailRun, FailCommit, Snapshot, Release,
                RaisesIntegrity
  <1>8. CASE RequestCancel \/ Crash
    BY <1>8 DEF RequestCancel, Crash, Release
  <1>9. ASSUME NEW c \in Commands, Enter(c) PROVE FALSE
    BY <1>9 DEF Enter
  <1> QED BY <1>1, <1>2, <1>3, <1>4, <1>5, <1>6, <1>7, <1>8, <1>9 DEF Next, Writer, CallStep

\* The transcript of the round was made from one resolution, and that is sealed.
LEMMA ResolutionOf ==
    ASSUME TypeInv, StoreInv, ReadInv, FitInv, Has(G("transcript")),
           NEW e \in art[Cp(G("transcript"))].deps, art[e].kind = "edit_resolution"
    PROVE  e = Cp(G("edit_resolution")) /\ Sealed(e) /\ Has(G("edit_resolution"))
  <1>1. art[Cp(G("transcript"))].deps = {Cp(n) : n \in Sources(G("transcript"))}
    <2>1. G("transcript")[1] \in BuiltKinds /\ G("transcript") \in Keys
      BY StageKeys DEF BuiltKinds
    <2> QED BY <2>1 DEF FitInv, Exact
  <1>2. Sources(G("transcript")) = {G("base_asr"), G("edit_resolution")}
    BY DEF Sources, G
  <1>3. e = Cp(G("base_asr")) \/ e = Cp(G("edit_resolution"))
    BY <1>1, <1>2
  <1>4. Has(G("edit_resolution")) /\ Has(G("base_asr"))
    <2>1. Needs(G("transcript")) = {G("base_asr"), G("edit_resolution")}
      BY <1>2 DEF Needs, G
    <2> QED BY <2>1, StageKeys DEF FitInv, Complete
  <1>5. KeyOf(art[Cp(G("base_asr"))]) = G("base_asr")
    BY <1>4, StageKeys, CpKept DEF StoreInv, KeptAt
  <1>6. art[Cp(G("base_asr"))].kind = "base_asr"
    BY <1>5 DEF KeyOf, G
  <1>7. e = Cp(G("edit_resolution"))
    BY <1>3, <1>6
  <1>8. SealedFinal
    BY TextSealed
  <1> QED BY <1>4, <1>7, <1>8 DEF SealedFinal

\* Where the SRT is rendered, the export gate lets it pass.
LEMMA GatePasses ==
    ASSUME TypeInv, ArtInv, FitInv, PtrInv, AtaRow, pc = "render"
    PROVE  ExportGate
  <1>1. StoreInv /\ ReadInv /\ Complete /\ PtrCurrent /\ Exact
    BY DEF ArtInv, FitInv, PtrInv
  <1>2. Has(G("ata_result")) /\ Has(G("ata_response"))
    BY UpChain DEF FitInv, Places
  <1>3. Has(G("transcript")) /\ Has(G("media_object"))
    BY <1>1, <1>2, UpChain
  <1>4. Has(G("timeline_audio"))
    BY <1>1, <1>3, UpChain
  <1>5. PICK t, x, r, f, o : /\ t = Cp(G("timeline_audio")) /\ x = Cp(G("transcript"))
                             /\ r = Cp(G("ata_response")) /\ f = Cp(G("ata_result"))
                             /\ o = Cp(G("media_object"))
    OBVIOUS
  <1>6. 0 \notin {t, x, r, f, o}
    BY <1>2, <1>3, <1>4, <1>5 DEF Has
  <1>7. \A id \in {t, x, r, f, o} : IsCurrent(id)
    <2>1. \A kind \in {"timeline_audio", "transcript", "ata_response", "ata_result", "media_object"} :
             G(kind) \in Keys /\ G(kind) # G("job_input") /\ Has(G(kind))
      BY <1>2, <1>3, <1>4, StageKeys DEF G
    <2>2. \A kind \in {"timeline_audio", "transcript", "ata_response", "ata_result", "media_object"} :
             IsCurrent(Cp(G(kind)))
      BY <1>1, <2>1, OffersCp
    <2> QED BY <1>5, <2>2
  <1>8. \A e \in {d \in art[x].deps : art[d].kind = "edit_resolution"} : IsCurrent(e) /\ Sealed(e)
    <2> SUFFICES ASSUME NEW e \in art[x].deps, art[e].kind = "edit_resolution"
                 PROVE  IsCurrent(e) /\ Sealed(e)
      OBVIOUS
    <2>1. e = Cp(G("edit_resolution")) /\ Sealed(e) /\ Has(G("edit_resolution"))
      BY <1>1, <1>3, <1>5, ResolutionOf
    <2>2. G("edit_resolution") \in Keys /\ G("edit_resolution") # G("job_input")
      BY StageKeys DEF G
    <2> QED BY <1>1, <2>1, <2>2, OffersCp
  <1>9. \A kind \in {"media_object", "ata_response", "ata_result"} :
           art[Cp(G(kind))].deps = {Cp(n) : n \in Sources(G(kind))}
    <2>1. \A kind \in {"media_object", "ata_response", "ata_result"} :
             G(kind) \in Keys /\ G(kind)[1] \in BuiltKinds /\ Has(G(kind))
      BY <1>2, <1>3, StageKeys DEF BuiltKinds
    <2> QED BY <1>1, <2>1 DEF Exact
  <1>10. art[o].deps = {t} /\ art[r].deps = {o, t, x} /\ art[f].deps = {r, x, t}
    <2>1. /\ Sources(G("media_object")) = {G("timeline_audio")}
          /\ Sources(G("ata_response")) = {G("media_object"), G("timeline_audio"), G("transcript")}
          /\ Sources(G("ata_result")) = {G("ata_response"), G("transcript"), G("timeline_audio")}
      BY DEF Sources, G
    <2> QED BY <1>5, <1>9, <2>1
  <1>11. PICK m : m = art[r].mark
    OBVIOUS
  <1>12. /\ inv[m].op = "ata" /\ inv[m].status = "succeeded" /\ inv[m].art = r
         /\ inv[m].inputs = {o, x}
    BY <1>2, <1>5, <1>11 DEF AtaRow
  <1>13. {Cp(G(k)) : k \in {"timeline_audio", "transcript", "ata_response", "ata_result"}}
         = {t, x, r, f}
    BY <1>5
  <1> QED BY <1>5, <1>6, <1>7, <1>8, <1>10, <1>11, <1>12, <1>13 DEF ExportGate

LEMMA NeverRaised ==
    ASSUME TypeInv, CallInv, ArtInv, PaidInv, FitInv, PtrInv, InputsNow, AtaRow, Next,
           NoIntegrityFailure
    PROVE  NoIntegrityFailure'
  <1> SUFFICES ASSUME exc' = "integrity" PROVE FALSE
    BY DEF NoIntegrityFailure
  <1>1. RaisesIntegrity
    BY IntegrityFrom DEF NoIntegrityFailure
  <1>2. CASE MediaReuse /\ Cp(G("media_probe")) = 0
    <2>1. Has(G("timeline_audio"))
      BY <1>2 DEF MediaReuse, Has
    <2>2. G("media_probe") \in Needs(G("timeline_audio"))
      BY DEF Needs, Sources, G
    <2> QED BY <1>2, <2>1, <2>2, StageKeys DEF FitInv, Complete, Has
  <1>3. CASE ReviewGate /\ Cp(G("review_queue")) = 0
    <2>1. Has(G("edit_resolution"))
      BY <1>3, StepPlaces DEF ArtInv, PlaceInv
    <2>2. G("review_queue") \in Needs(G("edit_resolution"))
      BY DEF Needs, G
    <2> QED BY <1>3, <2>1, <2>2, StageKeys DEF FitInv, Complete, Has
  <1>4. CASE Render /\ ~ExportGate
    BY <1>4, StepPlaces, GatePasses
  <1>5. CASE \E op, scope : /\ Cp(<<ResultKind(op), scope>>) = 0
                            /\ Broken(op, scope) \/ ChangedIdentity(op, scope)
    BY <1>5, NeverBroken, NeverChanged
  <1> QED BY <1>1, <1>2, <1>3, <1>4, <1>5 DEF RaisesIntegrity

LEMMA InitSafe == Init => SafeInv
  <1>1. Init => \A k \in Keys : ~Has(k)
    BY BoundsAssumption DEF Init, Has, Cp, RoundOf
  <1> QED BY <1>1, StageKeys DEF Init, SafeInv, InputsNow, AtaRow, NoIntegrityFailure

LEMMA SafeQuietly == ASSUME SafeInv, UNCHANGED vars PROVE SafeInv'
  <1>1. UNCHANGED <<inv, art, cp, round, exc>>
    BY DEF vars, rowVars, dataVars
  <1>2. /\ \A op, scope : Inputs(op, scope)' = Inputs(op, scope)
        /\ \A k : Cp(k)' = Cp(k)
    BY <1>1, InputsKept
  <1>3. \A op, scope : ReadKeys(op, scope)' = ReadKeys(op, scope)
    BY DEF ReadKeys
  <1>4. InputsNow'
    <2> SUFFICES ASSUME NEW i \in DOMAIN inv, inv[i].round = round PROVE ReadsNow(i)'
      BY <1>1 DEF InputsNow
    <2>1. PICK op, sc : op = inv[i].op /\ sc = inv[i].scope
      OBVIOUS
    <2>2. inv[i].inputs = Inputs(op, sc) /\ \A n \in ReadKeys(op, sc) : Has(n)
      BY <2>1 DEF SafeInv, InputsNow, ReadsNow
    <2>3. Inputs(op, sc)' = Inputs(op, sc) /\ ReadKeys(op, sc)' = ReadKeys(op, sc)
      BY <1>2, <1>3
    <2>4. inv'[i].op = op /\ inv'[i].scope = sc /\ inv'[i].inputs = Inputs(op, sc)'
      BY <1>1, <2>1, <2>2, <2>3
    <2>5. \A n \in ReadKeys(op, sc) : Has(n)'
      BY <1>2, <2>2 DEF Has
    <2> QED BY <2>3, <2>4, <2>5 DEF ReadsNow
  <1>5. AtaRow' /\ NoIntegrityFailure'
    BY <1>1, <1>2 DEF SafeInv, AtaRow, NoIntegrityFailure, Has
  <1> QED BY <1>4, <1>5 DEF SafeInv

LEMMA SafeInvariant == Spec => []SafeInv
  <1>1. /\ TypeInv /\ TypeInv' /\ ControlInv /\ CallInv /\ ArtInv /\ PaidInv
        /\ FitInv /\ FitInv' /\ PtrInv /\ SafeInv /\ [Next]_vars
        => SafeInv'
    BY InputsStep, AtaRowStep, NeverRaised, SafeQuietly DEF SafeInv
  <1> QED BY <1>1, InitSafe, TypeInvariant, ControlInvariant, CallInvariant, ArtInvariant,
             PaidInvariant, FitInvariant, PtrInvariant, PTL DEF Spec

\* The integrity checks of the engine find nothing, whatever is cancelled, fails, crashes, is
\* retried or reviewed: a call that was paid for in the round is never begun again, an attempt
\* never differs in its inputs from the one it continues, no stage misses what it
\* requires, and the export gate passes whatever reaches it.
THEOREM NothingIsInconsistent == Spec => []NoIntegrityFailure
  <1>1. SafeInv => NoIntegrityFailure
    BY DEF SafeInv
  <1> QED BY <1>1, SafeInvariant, PTL

-----------------------------------------------------------------------------
(* What a reviewer decides about.                                          *)

\* A batch the selection loop has left is decided, by its result or by going to review.
LoopDone(b) == /\ Has(<<"selection_batch", b>>)
               /\ b \in unsel \/ Has(<<"selection_result", b>>)
Loop == pc = "select" => \A b \in Plan.body \cap Batches : b \in todo \/ LoopDone(b)

\* The resolutions and the reviewers' decisions are made from what is stored.
DecisionsStored ==
    \A e \in DOMAIN art :
        art[e].kind \in {"edit_resolution", "review_resolution"} => art[e].deps \subseteq DOMAIN art

DecideInv == Loop /\ DecisionsStored /\ HumanDecisions

LEMMA InitDecide == Init => DecideInv
  BY DEF Init, DecideInv, Loop, DecisionsStored, HumanDecisions

LEMMA DecideQuietly == ASSUME DecideInv, UNCHANGED vars PROVE DecideInv'
  <1>1. UNCHANGED <<art, cp, round, pc, todo, unsel>>
    BY DEF vars, rowVars, dataVars, localVars
  <1>2. \A k : Cp(k)' = Cp(k)
    BY <1>1, CpSame
  <1>3. Loop'
    BY <1>1, <1>2 DEF DecideInv, Loop, LoopDone, Has, Plan
  <1>4. DecisionsStored' /\ HumanDecisions'
    BY <1>1 DEF DecideInv, DecisionsStored, HumanDecisions
  <1> QED BY <1>3, <1>4 DEF DecideInv

\* The batch under the cursor leaves the loop decided, or the loop stays where it is.
LoopMoves ==
    \/ UNCHANGED <<todo, unsel>>
    \/ /\ todo' = todo \ {Batch} /\ unsel \subseteq unsel'
       /\ Has(<<"selection_batch", Batch>>)
       /\ \/ Batch \in unsel' \/ Has(<<"selection_result", Batch>>)
          \/ \E id \in Nat \ {0} : Bind(<<"selection_result", Batch>>, id)

LEMMA StageErrorLoop ==
    ASSUME pc = "select", pc' = "select", NEW e, StageError(e),
           Has(<<"selection_batch", Batch>>)
    PROVE  LoopMoves
  BY DEF StageError, LoopMoves

LEMMA LoopCall ==
    ASSUME TypeInv, CallInv, CallStep, pc = "select", pc' = "select"
    PROVE  LoopMoves
  <1>0. pc \notin Arms /\ pc # "collect" /\ pc # "fail" /\ pc \notin Ending
    BY DEF Arms, Ending
  <1>1. \A s \in Slots : slot[s].inv # 0 =>
           s = "main" /\ InFlight(s) /\ Has(<<"selection_batch", Batch>>)
    BY <1>0 DEF TypeInv, CallsInPlace, CallInv, CallsKnown, InFlight, Has, Arms
  <1>2. CASE CallReuse
    BY <1>2 DEF CallReuse, CallPending, CallKey, CallScope, MainCall, ResultKind, LoopMoves, Has
  <1>3. CASE CallRefused
    <2>1. Has(<<"selection_batch", Batch>>)
      BY <1>3 DEF CallRefused, CallPending, Has
    <2>2. StageError("provider")
      BY <1>3, <1>0 DEF CallRefused, Raise
    <2> QED BY <2>1, <2>2, StageErrorLoop
  <1>4. CASE CallBegin \/ ArmReuse \/ ArmRefused \/ ArmBegin \/ Receipt \/ Collected
    BY <1>4, <1>0 DEF CallBegin, ArmReuse, ArmRefused, ArmBegin, Receipt, Collected, localVars,
                      LoopMoves
  <1>5. ASSUME NEW s \in Slots, MarkSending(s) \/ CompletedInvalid(s) \/ Resubmit(s)
        PROVE  LoopMoves
    BY <1>5 DEF MarkSending, CompletedInvalid, Resubmit, localVars, LoopMoves
  <1>6. ASSUME NEW s \in Slots, Answered(s) \/ Doing(s) = "explicit_failure"
        PROVE  slot[s].inv # 0
    BY <1>6 DEF Answered, Doing
  <1>7. ASSUME NEW s \in Slots, Succeed(s) PROVE LoopMoves
    <2>1. s = "main" /\ InFlight(s) /\ Has(<<"selection_batch", Batch>>)
      BY <1>1, <1>6, <1>7 DEF Succeed
    <2>2. PICK k : k = slot[s].inv
      OBVIOUS
    <2>3. Bind(CallKeyOf(k), inv'[k].art) /\ inv'[k].art # 0 /\ k \in DOMAIN inv'
      BY <1>7, <2>2, SucceedRow
    <2>4. CallKeyOf(k) = <<"selection_result", Batch>>
      BY <2>1, <2>2 DEF InFlight, OpOf, ScopeOf, CallScope, MainCall, CallKeyOf, ResultKind
    <2>5. inv'[k].art \in Nat
      <3>1. TypeInv'
        BY <1>7, SucceedType
      <3>2. inv' \in Seq(InvocationRows)
        BY <3>1 DEF TypeInv, TypeOK, DataOK
      <3>3. inv'[k] \in InvocationRows
        BY <2>3, <3>2
      <3> QED BY <3>3 DEF InvocationRows
    <2>6. todo' = todo \ {Batch} /\ unsel' = unsel
      BY <1>7 DEF Succeed
    <2>7. PICK id : id = inv'[k].art
      OBVIOUS
    <2>8. id \in Nat \ {0} /\ Bind(<<"selection_result", Batch>>, id)
      BY <2>3, <2>4, <2>5, <2>7
    <2> QED BY <2>1, <2>6, <2>8 DEF LoopMoves
  <1>8. ASSUME NEW s \in Slots, CallCancelled(s) PROVE LoopMoves
    <2>1. s = "main"
      BY <1>1, <1>6, <1>8 DEF CallCancelled
    <2> QED BY <1>0, <1>8, <2>1 DEF CallCancelled, Raise
  <1>9. ASSUME NEW s \in Slots, ResubmitFails(s) PROVE LoopMoves
    <2>1. Has(<<"selection_batch", Batch>>)
      BY <1>1, <1>6, <1>9 DEF ResubmitFails
    <2>2. StageError("provider")
      BY <1>0, <1>9 DEF ResubmitFails, Raise
    <2> QED BY <2>1, <2>2, StageErrorLoop
  <1>10. ASSUME NEW s \in Slots, NEW st \in FailedStatuses, CallFails(s, st) PROVE LoopMoves
    <2>1. s = "main" /\ Has(<<"selection_batch", Batch>>)
      BY <1>1, <1>6, <1>10 DEF CallFails
    <2>2. StageError("provider")
      BY <1>10, <2>1 DEF CallFails
    <2> QED BY <2>1, <2>2, StageErrorLoop
  <1> QED BY <1>2, <1>3, <1>4, <1>5, <1>7, <1>8, <1>9, <1>10 DEF CallStep

\* The loop covers the plan it was started for.
LEMMA LoopStep ==
    ASSUME TypeInv, CallInv, ArtInv, FitInv, Loop, Next
    PROVE  Loop'
  <1> SUFFICES ASSUME pc' = "select", NEW b \in (Plan.body \cap Batches)', b \notin todo'
               PROVE  LoopDone(b)'
    BY DEF Loop
  <1>0. pc' \notin Resting
    BY DEF Resting, Commands
  <1>1. pc \in {"resolve", "select"}
    BY <1>0, WriterMoves DEF Moves, Leads
  <1>2. ~RetryRun /\ ~Invalidate
    BY <1>1, StepPlaces
  <1>3. G("merge_plan") \in Keys /\ G("merge_plan") \notin DecisionKeys /\ Has(G("merge_plan"))
    BY <1>1, StageKeys DEF FitInv, Places, AfterPlan, DecisionKeys, G
  <1>4. Cp(G("merge_plan"))' = Cp(G("merge_plan"))
    BY <1>2, <1>3, CpFixed DEF ArtInv
  <1>5. Plan' = Plan
    BY <1>3, <1>4, SealedKept, ArtStaysAlways DEF ArtInv, StoreInv, Plan
  <1>6. b \in Plan.body \cap Batches
    BY <1>5
  <1>7. <<"selection_batch", b>> \in Keys /\ <<"selection_result", b>> \in Keys
    BY <1>6, KeysOfKinds
  <1>8. CASE pc = "resolve"
    <2>1. ResolveStage
      BY <1>0, <1>8, StepsAt DEF RequestCancel
    <2> QED BY <1>6, <2>1 DEF ResolveStage, Goto
  <1>9. CASE pc = "select"
    <2>1. LoopDone(b) /\ b \in unsel' => LoopDone(b)'
      BY <1>2, <1>7, HasStays DEF LoopDone
    <2>2. LoopDone(b) /\ Has(<<"selection_result", b>>) => LoopDone(b)'
      BY <1>2, <1>7, HasStays DEF LoopDone
    <2>3. b \in todo \/ LoopDone(b)
      BY <1>6, <1>9 DEF Loop
    <2>4. CASE UNCHANGED <<todo, unsel>>
      BY <2>1, <2>2, <2>3, <2>4 DEF LoopDone
    <2>5. CASE LoopMoves /\ ~UNCHANGED <<todo, unsel>>
      <3>1. CASE b # Batch
        BY <2>1, <2>2, <2>3, <2>5, <3>1 DEF LoopMoves, LoopDone
      <3>2. CASE b = Batch
        <4>1. Has(<<"selection_batch", b>>)'
          BY <1>2, <1>7, <2>5, <3>2, HasStays DEF LoopMoves
        <4>2. CASE b \in unsel'
          BY <4>1, <4>2 DEF LoopDone
        <4>3. CASE Has(<<"selection_result", b>>)
          BY <1>2, <1>7, <4>1, <4>3, HasStays DEF LoopDone
        <4>4. ASSUME NEW id \in Nat \ {0}, Bind(<<"selection_result", b>>, id)
              PROVE  LoopDone(b)'
          <5>1. Cp(<<"selection_result", b>>)' = id
            BY <1>2, <1>7, <4>4, CpBind, RoundStays
          <5> QED BY <4>1, <5>1 DEF LoopDone, Has
        <4> QED BY <2>5, <3>2, <4>2, <4>3, <4>4 DEF LoopMoves
      <3> QED BY <3>1, <3>2
    <2>6. SaveBatch \/ RequestCancel => UNCHANGED <<todo, unsel>>
      BY DEF SaveBatch, RequestCancel, localVars
    <2>7. ~Finalize
      BY DEF Finalize, Goto
    <2>8. SaveBatch \/ RequestCancel \/ CallStep
      BY <1>0, <1>9, <2>7, StepsAt
    <2> QED BY <1>9, <2>4, <2>5, <2>6, <2>8, LoopCall
  <1> QED BY <1>1, <1>8, <1>9

\* Only the selection and the reviewer make resolutions, only the reviewer decisions.
LEMMA NewDecision ==
    ASSUME TypeInv, CallInv, Next, NEW i \in DOMAIN art', i \notin DOMAIN art,
           art'[i].kind \in {"edit_resolution", "review_resolution"}
    PROVE  Deciders
  <1>1. PICK a : a = art'[i]
    OBVIOUS
  <1>2. Publishes(a) /\ KeyOf(a)[1] \in {"edit_resolution", "review_resolution"}
    BY <1>1, NewArtifacts DEF KeyOf
  <1>3. /\ KeyOf(OriginalJob)[1] = "job_input" /\ KeyOf(EffectiveJob)[1] = "job_input"
        /\ KeyOf(Probe)[1] = "media_probe" /\ KeyOf(Timeline)[1] = "timeline_audio"
        /\ KeyOf(Comparison)[1] = "asr_comparison" /\ KeyOf(Srt)[1] = "srt_render"
    BY DEF OriginalJob, EffectiveJob, Probe, Timeline, Comparison, Srt, Artifact, KeyOf, G
  <1>4. \A s \in Slots : Succeed(s) => CallKeyOf(slot[s].inv)[1] \in CallKinds
    <2> TAKE s \in Slots
    <2> HAVE Succeed(s)
    <2>1. slot[s].inv \in DOMAIN inv
      BY AnsweredCall DEF Succeed
    <2>2. inv[slot[s].inv].op \in Ops
      BY <2>1 DEF TypeInv, TypeOK, DataOK, InvocationRows
    <2> QED BY <2>2 DEF ResultKind, Ops, RemoteOps, CallKinds, CallKeyOf
  <1>5. a = Saved(G("transcript"), {Cp(G("base_asr")), Cp(G("edit_resolution"))}, {}) =>
           KeyOf(a)[1] = "transcript"
    BY DEF Saved, Artifact, KeyOf, G
  <1> QED BY <1>1, <1>2, <1>3, <1>4, <1>5 DEF Publishes, CallKinds, G

\* A resolution that applies a decision is made from the resolution behind its queue.
Applies(e) ==
    \A v \in {d \in art[e].deps : art[d].kind = "review_resolution"} :
        \A q \in {d \in art[v].deps : art[d].kind = "review_queue"} :
            art[q].deps \subseteq art[e].deps
Grounded(e) == /\ art[e].deps \subseteq DOMAIN art
               /\ art[e].kind = "edit_resolution" => Applies(e)

LEMMA KindKept ==
    ASSUME TypeInv, CpStored, ArtStays, NEW kind, G(kind) \in Keys, Has(G(kind))
    PROVE  /\ Cp(G(kind)) \in DOMAIN art /\ Cp(G(kind)) \in DOMAIN art'
           /\ art'[Cp(G(kind))] = art[Cp(G(kind))] /\ art[Cp(G(kind))].kind = kind
  <1>1. KeptAt(Cp(G(kind)), G(kind))
    BY CpKept
  <1> QED BY <1>1 DEF KeptAt, KeyOf, G, ArtStays, Extends

LEMMA FinalizeGrounds ==
    ASSUME TypeInv, ArtInv, FitInv, Loop, ArtStays, Finalize,
           NEW i \in DOMAIN art', i \notin DOMAIN art
    PROVE  art'[i].kind \in {"edit_resolution", "review_resolution"} => Grounded(i)'
  <1>1. PICK evidence :
          evidence = {Cp(<<"selection_batch", b>>) : b \in Plan.body \cap Batches}
                     \cup {Cp(<<"selection_result", b>>) : b \in (Plan.body \cap Batches) \ unsel}
    OBVIOUS
  <1>2. PICK items, queueDeps :
          LET final == Saved(G("edit_resolution"),
                             {Cp(G("base_asr")), Cp(G("merge_plan"))} \cup evidence, items)
              queue == Saved(G("review_queue"), queueDeps, items)
          IN  art' = With(With(art, final), queue)
    BY <1>1 DEF Finalize
  <1>3. PICK final, queue :
          /\ final = Saved(G("edit_resolution"),
                           {Cp(G("base_asr")), Cp(G("merge_plan"))} \cup evidence, items)
          /\ queue = Saved(G("review_queue"), queueDeps, items)
    OBVIOUS
  <1>4. art' = With(With(art, final), queue) /\ art \in Seq(ArtifactRows)
    BY <1>2, <1>3 DEF TypeInv, TypeOK, DataOK
  <1>5. PICK a : a = art'[i]
    OBVIOUS
  <1>6. a \in {final, queue}
    BY <1>4, <1>5, WithTwo
  <1>7. /\ final.kind = "edit_resolution" /\ queue.kind = "review_queue"
        /\ final.deps = {Cp(G("base_asr")), Cp(G("merge_plan"))} \cup evidence
    BY <1>3 DEF Saved, Artifact, G
  <1>8. pc = "select" /\ todo = {}
    BY DEF Finalize
  <1>9. \A d \in {Cp(G("base_asr")), Cp(G("merge_plan"))} :
           d \in DOMAIN art' /\ art'[d].kind # "review_resolution"
    <2>1. Has(G("base_asr")) /\ Has(G("merge_plan"))
      BY <1>8 DEF ArtInv, PlaceInv, AfterBase, AfterUpload, Reading, FitInv, Places, AfterPlan
    <2> QED BY <2>1, StageKeys, KindKept DEF ArtInv, StoreInv
  <1>10. ASSUME NEW d \in evidence PROVE d \in DOMAIN art' /\ art'[d].kind # "review_resolution"
    <2>1. PICK k \in Keys : /\ d = Cp(k) /\ Has(k)
                            /\ k[1] \in {"selection_batch", "selection_result"}
      <3>1. CASE \E b \in Plan.body \cap Batches : d = Cp(<<"selection_batch", b>>)
        <4>1. PICK b \in Plan.body \cap Batches : d = Cp(<<"selection_batch", b>>)
          BY <3>1
        <4>2. Has(<<"selection_batch", b>>) /\ <<"selection_batch", b>> \in Keys
          BY <1>8, KeysOfKinds DEF Loop, LoopDone
        <4> QED BY <4>1, <4>2
      <3>2. CASE \E b \in (Plan.body \cap Batches) \ unsel : d = Cp(<<"selection_result", b>>)
        <4>1. PICK b \in (Plan.body \cap Batches) \ unsel : d = Cp(<<"selection_result", b>>)
          BY <3>2
        <4>2. Has(<<"selection_result", b>>) /\ <<"selection_result", b>> \in Keys
          BY <1>8, KeysOfKinds DEF Loop, LoopDone
        <4> QED BY <4>1, <4>2
      <3> QED BY <1>1, <3>1, <3>2
    <2>2. KeptAt(d, k)
      BY <2>1, CpKept DEF ArtInv, StoreInv
    <2>3. art[d].kind = k[1]
      BY <2>2 DEF KeptAt, KeyOf
    <2> QED BY <2>1, <2>2, <2>3 DEF KeptAt, ArtStays, Extends
  <1>11. \A d \in final.deps : d \in DOMAIN art' /\ art'[d].kind # "review_resolution"
    BY <1>7, <1>9, <1>10
  <1>12. CASE a = final
    BY <1>5, <1>11, <1>12 DEF Grounded, Applies
  <1>13. CASE a = queue
    BY <1>5, <1>7, <1>13
  <1> QED BY <1>6, <1>12, <1>13

LEMMA ReviewGrounds ==
    ASSUME TypeInv, ArtInv, FitInv, ArtStays, ResolveReview,
           NEW i \in DOMAIN art', i \notin DOMAIN art
    PROVE  art'[i].kind \in {"edit_resolution", "review_resolution"} => Grounded(i)'
  <1>1. PICK q \in Queues :
          /\ ReviewAccepted(q)
          /\ LET base   == Cp(G("base_asr"))
                 review == Saved(G("review_resolution"), {q, base}, {})
                 art1   == With(art, review)
                 final  == Saved(G("edit_resolution"),
                                 {base, Cp(G("merge_plan")), Cp(G("edit_resolution")),
                                  IdIn(art, review)}, {})
                 art2   == With(art1, final)
                 queue  == Saved(G("review_queue"), {IdIn(art1, final)}, {})
             IN  art' = With(art2, queue)
    BY DEF ResolveReview
  <1>2. PICK base, plan, edit : /\ base = Cp(G("base_asr")) /\ plan = Cp(G("merge_plan"))
                                /\ edit = Cp(G("edit_resolution"))
    OBVIOUS
  <1>3. PICK review : review = Saved(G("review_resolution"), {q, base}, {})
    OBVIOUS
  <1>4. PICK u, h : u = With(art, review) /\ h = IdIn(art, review)
    OBVIOUS
  <1>5. PICK final : final = Saved(G("edit_resolution"), {base, plan, edit, h}, {})
    OBVIOUS
  <1>6. PICK queue : queue = Saved(G("review_queue"), {IdIn(u, final)}, {})
    OBVIOUS
  <1>7. art' = With(With(u, final), queue)
    BY <1>1, <1>2, <1>3, <1>4, <1>5, <1>6
  <1>8. art \in Seq(ArtifactRows) /\ q \in DOMAIN art /\ q # 0 /\ art[q].kind = "review_queue"
    BY DEF TypeInv, TypeOK, DataOK, Queues
  <1>9. /\ review.kind = "review_resolution" /\ review.deps = {q, base}
        /\ final.kind = "edit_resolution" /\ final.deps = {base, plan, edit, h}
        /\ queue.kind = "review_queue"
    BY <1>3, <1>5, <1>6 DEF Saved, Artifact, G
  <1>10. h \in DOMAIN art' /\ art'[h] = review
    <2>1. h \in DOMAIN u /\ u[h] = review
      BY <1>4, <1>8, WithHolds
    <2>2. u \in Seq(ArtifactRows \cup {review})
      <3>1. art \in Seq(ArtifactRows \cup {review}) /\ review \in ArtifactRows \cup {review}
        BY <1>8
      <3> QED BY <1>4, <3>1, WithType
    <2>3. PICK v : v = With(u, final)
      OBVIOUS
    <2>4. Extends(u, v) /\ v \in Seq(ArtifactRows \cup {review} \cup {final})
      <3>1. Extends(u, v)
        BY <2>2, <2>3, WithHolds
      <3>2. u \in Seq(ArtifactRows \cup {review} \cup {final})
            /\ final \in ArtifactRows \cup {review} \cup {final}
        BY <2>2
      <3> QED BY <2>3, <3>1, <3>2, WithType
    <2>5. Extends(v, art')
      BY <1>7, <2>3, <2>4, WithHolds
    <2> QED BY <2>1, <2>4, <2>5 DEF Extends
  <1>11. q = Cp(G("review_queue")) /\ Has(G("review_queue"))
    BY <1>1, <1>8 DEF ReviewAccepted, Has
  <1>12. Has(G("base_asr")) /\ Has(G("merge_plan")) /\ Has(G("edit_resolution"))
    <2>1. Has(G("edit_resolution"))
      <3>1. G("edit_resolution") \in Needs(G("review_queue"))
        BY DEF Needs, Sources, G
      <3> QED BY <1>11, <3>1, StageKeys DEF FitInv, Complete
    <2>2. Has(G("merge_plan"))
      <3>1. G("merge_plan") \in Needs(G("edit_resolution"))
        BY DEF Needs, G
      <3> QED BY <2>1, <3>1, StageKeys DEF FitInv, Complete
    <2>3. Has(G("base_asr"))
      <3>1. G("base_asr") \in Needs(G("merge_plan"))
        BY DEF Needs, Sources, G
      <3> QED BY <2>2, <3>1, StageKeys DEF FitInv, Complete
    <2> QED BY <2>1, <2>2, <2>3
  <1>13. art[q].deps = {edit}
    <2>1. art[q].deps = {Cp(n) : n \in Sources(G("review_queue"))}
      <3>1. G("review_queue")[1] \in BuiltKinds
        BY DEF BuiltKinds, G
      <3> QED BY <1>11, <3>1, StageKeys DEF FitInv, Exact
    <2>2. Sources(G("review_queue")) = {G("edit_resolution")}
      BY DEF Sources, G
    <2> QED BY <1>2, <2>1, <2>2
  <1>14. /\ {base, plan, edit, q} \subseteq DOMAIN art' /\ art'[q] = art[q]
         /\ art'[base].kind = "base_asr" /\ art'[plan].kind = "merge_plan"
         /\ art'[edit].kind = "edit_resolution"
    <2>1. \A kind \in {"base_asr", "merge_plan", "edit_resolution"} :
             Cp(G(kind)) \in DOMAIN art' /\ art'[Cp(G(kind))].kind = kind
      BY <1>12, StageKeys, KindKept DEF ArtInv, StoreInv
    <2>2. q \in DOMAIN art' /\ art'[q] = art[q]
      BY <1>8 DEF ArtStays, Extends
    <2> QED BY <1>2, <2>1, <2>2
  <1>15. PICK a : a = art'[i]
    OBVIOUS
  <1>16. a \in {review, final, queue}
    BY <1>4, <1>7, <1>8, <1>15, WithThree
  <1>17. CASE a = review
    BY <1>9, <1>14, <1>15, <1>17 DEF Grounded
  <1>18. CASE a = queue
    BY <1>9, <1>15, <1>18
  <1>19. CASE a = final
    <2>1. art'[i].deps \subseteq DOMAIN art'
      BY <1>9, <1>10, <1>14, <1>15, <1>19
    <2>2. ASSUME NEW v \in art'[i].deps, art'[v].kind = "review_resolution",
                 NEW x \in art'[v].deps, art'[x].kind = "review_queue"
          PROVE  art'[x].deps \subseteq art'[i].deps
      <3>1. v = h
        BY <1>9, <1>14, <1>15, <1>19, <2>2
      <3>2. x \in {q, base}
        BY <1>9, <1>10, <2>2, <3>1
      <3>3. x = q
        BY <1>14, <2>2, <3>2
      <3> QED BY <1>9, <1>13, <1>14, <1>15, <1>19, <3>3
    <2> QED BY <2>1, <2>2 DEF Grounded, Applies
  <1> QED BY <1>16, <1>17, <1>18, <1>19

LEMMA DecideStep ==
    ASSUME TypeInv, ControlInv, CallInv, ArtInv, FitInv, DecideInv, Next
    PROVE  DecideInv'
  <1>1. ArtStays
    BY ArtStaysAlways
  <1>2. ASSUME NEW e \in DOMAIN art', art'[e].kind \in {"edit_resolution", "review_resolution"}
        PROVE  Grounded(e)'
    <2>1. CASE e \notin DOMAIN art
      BY <1>1, <1>2, <2>1, NewDecision, FinalizeGrounds, ReviewGrounds DEF Deciders, DecideInv
    <2>2. CASE e \in DOMAIN art
      <3>1. \A d \in DOMAIN art : d \in DOMAIN art' /\ art'[d] = art[d]
        BY <1>1 DEF ArtStays, Extends
      <3>2. art[e].deps \subseteq DOMAIN art
        BY <1>2, <2>2, <3>1 DEF DecideInv, DecisionsStored
      <3>3. ASSUME art[e].kind = "edit_resolution",
                   NEW v \in art[e].deps, art[v].kind = "review_resolution",
                   NEW q \in art[v].deps, art'[q].kind = "review_queue"
            PROVE  art'[q].deps \subseteq art[e].deps
        <4>1. q \in DOMAIN art
          BY <3>2, <3>3 DEF DecideInv, DecisionsStored
        <4> QED BY <2>2, <3>1, <3>3, <4>1 DEF DecideInv, HumanDecisions
      <3>4. art'[e].kind = "edit_resolution" => Applies(e)'
        BY <2>2, <3>1, <3>2, <3>3 DEF Applies
      <3> QED BY <2>2, <3>1, <3>2, <3>4 DEF Grounded
    <2> QED BY <2>1, <2>2
  <1>3. DecisionsStored' /\ HumanDecisions'
    BY <1>2 DEF DecisionsStored, HumanDecisions, Grounded, Applies
  <1> QED BY <1>3, LoopStep DEF DecideInv

LEMMA DecideInvariant == Spec => []DecideInv
  <1>1. /\ TypeInv /\ ControlInv /\ CallInv /\ ArtInv /\ FitInv /\ DecideInv /\ [Next]_vars
        => DecideInv'
    BY DecideStep, DecideQuietly
  <1> QED BY <1>1, InitDecide, TypeInvariant, ControlInvariant, CallInvariant, ArtInvariant,
             FitInvariant, PTL DEF Spec

\* A resolution that applies a reviewer's decisions is made from the very resolution whose
\* queue the reviewer read: resolve_review takes no decisions about another queue, whatever
\* was retried, rebuilt or decided in between.
THEOREM DecisionsFitTheirQueue == Spec => []HumanDecisions
  <1>1. DecideInv => HumanDecisions
    BY DEF DecideInv
  <1> QED BY <1>1, DecideInvariant, PTL

=============================================================================
