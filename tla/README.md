# CueFlow: TLA+ models, model checking and proofs

CueFlow turns a recording into an SRT file: media preparation, two ASR services,
two correction models, a merge with an optional selection model and human review,
forced alignment (ATA), export.  Most of these steps are remote and paid.  What is
hard in the program is therefore not the text work but the book-keeping around it:
a process that may die anywhere, calls whose outcome is unknown, rounds of retries
that reuse some results and drop others, and a cancellation that comes from another
process.  Beside the Runs there is an account database: phone numbers verified by SMS,
passwords, sessions, sanctions that must outlive the account they were imposed on, and the
migration from the previous release.  The models below are about that book-keeping.

Paths are relative to `src/src/cueflow/` unless they start with `docs/` (which is
`src/docs/`).

## 1. Inventory

| Component | State | Operations | Hard behaviour | What makes it correct |
|---|---|---|---|---|
| Run engine: `orchestrator`, `lifecycle`, `run_runtime` | `runs`, `execution_rounds`, the locals of one writer | intake, resume, retry_run, retry_invocation, resolve_review, request_cancel; one stage after the other; two arms in parallel | crash between any two transactions; cancel without the lock; retries that reuse checkpoints | no paid result lost or paid twice; rounds never mix; cancellation is final; the writer always stops |
| Registry: `registry` | `invocations`, `artifacts`, `run_checkpoints`, `current_pointers`, `reference_preparations` | publish, bind, activate, mark stale, record success or failure, recover | what commits together | recovery settles exactly the open calls |
| Correction arms, selection: `correction_provider`, `glm_selection_provider`, `cloud_stream` | one call each | submit, collect, one automatic retry of an invalid answer | answers in any order, failing retry | both arms are collected |
| Remote tasks: `base_asr_provider`, `doubao_asr_provider`, `ata_provider`, `provider_control` | task id and remote status in the invocation | submit, receipt, query, resume | lost answers, crash before the receipt, answers that say nothing, chains of retries | a task in doubt is queried, and paid for again only when a user asks (with the exceptions of section 3) |
| Object transfers: `object_storage`, `media_object_store`, `publication` | `object_transfers`, the bucket | persist, bind, cleanup_orphans | lost PUT answers, crash between DELETE and the row | what a result names exists; nothing leaks |
| References: `reference_preparation` | `reference_preparations` | capture, prepare | usable only in a later round | both arms read what the round could prepare |
| Media: `media` | temporary files | probe, extract audio | – | – |
| Export: `export`, `ata_result` | local projection | gate, render, project | projection fails after the commit | success names the SRT of its own round |
| Merge: `conflict_selection`, `text_diff`, `edit_resolution`, `asr_comparison` | none | pure functions | boundaries of spans | merge and resolution rebuild the text they claim |
| Accounts: `account`, `account_store` | users, identities, session families, sessions | set status, attach, create, rotate and revoke sessions, erase | concurrent connections; rows that point at an erased user | accounts are complete; a phone has one user; a suspended user keeps no session |
| Authentication: `auth`, `auth_crypto`, `sms` | challenges, grants, access tokens, rate limit buckets | request and verify codes, register, log in, refresh, change or reset password, change phone, log out, erase, purge | SMS sent outside the transaction, checks that are stale when used, a code or token presented twice, expiry at any point | a code and a grant are spent within their budget; a family is one device; limits hold |
| Authentication over HTTP: `auth_http` | none | one call of `AuthService` per request | – | – |
| Phone reputation: `phone_reputation` | one row per phone, ledger of events, operations | block, unblock, ban, overturn, reassign, validate | long sequences over several accounts and generations | the row is what the ledger replays to, or every login is refused |
| Migrations: `account_migrations`, `account_migration_lock` | schema version, backup files, lock file | migrate, open | crash, two processes, the previous release still writing | no account lost, no change without a whole backup |
| Context and lock: `project` | the Run's directory and lock | open, single_writer | two processes | one writer per Run |
| Artifacts: `artifact_store`, `artifact_versions`, `canonical`, `schema` | content-addressed files | publish, read | – | same content, same id |
| API, CLI, config: `api`, `cli`, `config`, `job_inputs`, `errors`, `asr_contracts` | none | argument handling | – | – |

Interactions.  `api` and `cli` call the entry points of `orchestrator`; each entry but
`request_cancel` takes the Run's lock, so there is one writer, and one client that may set the
cancellation flag at any time through its own connection.  The writer calls the providers; in
the correction stage two worker threads make requests and the main thread alone writes.  All
durable state is in one SQLite file and in the bucket.  Providers call back into the Registry
through `ProviderControl` (`checkpoint`, `receipt`).

Accounts are a second, separate SQLite database.  `AccountStore` opens it only when
`migrate_account_database` has brought it to the current version.  `AuthService`, `AccountService`
and `PhoneReputationService` share the store: a registration opens the phone's reputation in its own
transaction, a login asks for its status, and a sanction suspends users and ends sessions in the
transaction that writes the ledger.  Every transaction is BEGIN IMMEDIATE, so requests meet between
transactions and not within them; only a request for a code has more than one.

The hazards this code is exposed to are listed with their lines in `PROJECT.json`.

## 2. Modules

| Module | Models | Uses |
|---|---|---|
| `RunEngine` | one Run: its Registry rows, its writer with all stages, calls and commands, cancellation, crashes | – |
| `RunContract` | abstract: how status, cancellation and result of rounds may change | – |
| `MCRunEngine` | model values for the TLC instances | `RunEngine` |
| `RunEngineProofs` | types, refinement of `RunContract`, cancellation; the past is frozen, recovery settles every call, chains of attempts | `RunEngine` |
| `RunArtifactProofs` | what artifacts stand on: seals, References, export, paid results | `RunEngineProofs` |
| `RunRoundProofs` | the checkpoints of a round fit together, the pointers follow them, no integrity check fails, decisions fit their queue | `RunArtifactProofs` |
| `ObjectTransfer`, `MCObjectTransfer` | `object_transfers` rows, the bucket, the three flows that store objects, cleanup | – |
| `RemoteJob` | one resumable operation: its invocations, the submit/receipt/query protocol, the service | – |
| `PhoneLedger` | the reputation row, the event ledger, the operations and the deep validation | – |
| `Accounts` | users, identities, sessions, and the sanctions that act on them | `PhoneLedger` |
| `Authentication` | codes, grants, limits, registration, login, credentials, erasure, purge | `Accounts` |
| `AccountMigration` | lock, backup, migration and opening of the store, next to the previous release | – |
| `MCAuthentication` | the workloads and model values for TLC | `Authentication`, `AccountMigration` |
| `ObjectTransferProofs` | types, intents, nothing leaks, cleanup, what is bound exists | `ObjectTransfer` |
| `RemoteJobProofs` | types, who may pay, retries query, no orphan | `RemoteJob` |
| `AuthenticationProofs` | types, families and sessions, codes, grants, limits | `Authentication` |
| `AccountProofs` | complete accounts, bans, unblocks, what sessions stand on | `AuthenticationProofs` |
| `AccountMigrationProofs` | safety of the migration | `AccountMigration` |

### RunEngine

*State.*  `round`, `status`, `cancel`, `result`, `bound` are the columns of `runs` and
`execution_rounds`.  `inv` and `art` are tables in creation order.  `cp[r][key]` are
`run_checkpoints` (round 0 for the stages shared by all rounds), `ptr` the current pointers with
their stale mark, `prep` the Reference rows.  `pc`, `exc`, `retryOf`, `slot`, `todo`, `unsel` are
the locals of the writer and vanish in a crash.  `pc = "idle"` means the lock is free.

*Actions.*  One per durable transaction or answer.  `Enter` picks a command and runs
`recover_running_source_runs`; `IntakeJob`, `IntakeBind`, `IntakeCheckpoint`, `ResumeRun`,
`RetryRun`, `RetryInvocation`, `ResolveReview` are the entry points and `Refuse` their refusals.
`SetRunning` to `SaveTranscript` are the stages of `_execute`; `CallReuse`, `CallRefused`,
`CallBegin`, `ArmReuse`, `ArmRefused`, `ArmBegin` decide whether a call is made;
`MarkSending`, `Receipt`, `Succeed`, `CallFails`, `CallCancelled`, `CompletedInvalid`, `Resubmit`,
`ResubmitFails`, `Collected` are its life; `ActivateInputs` to `ProjectResult` the export;
`FailRun`, `FailCommit`, `Snapshot` the handler of `_fail_run`.  `RequestCancel` and `Crash` may
come between any two of them.

*Abstractions.*
- An artifact is its identity: kind, scope, inputs, a mark (round or invocation) and the part of
  the payload that control flow reads: which References a `job_input` names, which batches a plan
  needs, which cases a resolution leaves open.  Same content, same id.
- What the merge finds is left open: any set of batches and oversized cases, or none.
- `input_digest` is a function of the index of a checkpoint, so the index stands for it.
- `check_cancellation` and the following `create_invocation` are one step.  A cancellation between
  them has the behaviour of one that comes just after the step: the call's own checkpoint sees it.
- The three publications of `prepare_media` are one step; a crash in between repeats all three with
  equal content.
- `PersistOutputs` is one step here; its parts are in `ObjectTransfer`.
- A failed selection batch always goes to review.  Exceptions other than the three caught there
  (`ProviderError`, `ContractError`, `TimeoutError`; `orchestrator.py:720`) end the Run in the code and
  are not among the failures of a selection call here.
- The check of the uploaded object against the timeline audio (`orchestrator.py:1077-1090`) compares
  contents that are one identity here, so it always passes and is left out.
- `KeyboardInterrupt` and the `usage` list of results are not modelled.

### ObjectTransfer

A row is `[item, state]`; its position is its key.  A flow (`Start`) stores the media, or the SRT
and then the manifest, or a terminal snapshot: `Lookup` (find or insert the row), `HeadObject`,
`PutObject`, `MarkPersisted`, then `BindObject`/`PublishMediaObject` or `CommitResult`.  An answer
may be lost after the effect.  `StartCleanup`, `Clean`, `CleanHead`, `CleanDelete`, `CleanMark` are
`cleanup_orphans`.  The items are those of one round; Reference sources go through the same
`persist_object` and are left out.  The store decides about a request before the client stops
waiting: a PUT that takes effect after the client's timeout is not modelled.

### RemoteJob

`inv` is the chain of invocations of one operation with their task id and `remote_status`; three
histories record what no row stores: `sent` (a submission left the process), `asked` (a user
asked for this attempt) and `died` (the process died in it while it was sending).  `tasks` is the
external service, which the client knows only by its answers.  `Resume`, `RetryInvocation` and
`RetryRun` open an attempt, `Create` applies `_retry_identity` and `bind_control`, then the attempt
submits (`Mint`, `PostAccepted`, `PostLost`, `PostCrash`, `PostRefused`, `Receipt`) or queries a
known task (`Query`, `QueryWithoutCode`, `QueryFails`, `Rejected`, `Finish`).  What is recorded of an answer
and what the task does are two things: the clients record `failed` for codes they do not know, so a
task may be recorded as failed while it works (`Answers`), and Doubao's client records `failed` for an
answer without a code but goes on polling (`QueryWithoutCode`).  An error answer to a submission may
come from a service that took it (`PostRefused`), and Doubao's client takes an answer without a code
for an acceptance (`PostAccepted`).  Doubao's client makes the id and records
it before the POST; ATA's is recorded after it.  Qwen ASR has ATA's order, so it is not in the
instances.  A task ends only while the client asks (`TaskEnds`): until then nothing depends on it.  The inputs are the same in every round: `RunEngine` covers changed inputs.

### PhoneLedger, Accounts, Authentication

The three modules are layers of one database: an action of `Accounts` uses the ledger's half of its
transaction from `PhoneLedger`, `Authentication` extends both, and its `Next` lists all operations.

*State.*  `reputations` is `phone_reputations`; `ledger[p]` the `phone_reputation_events` of a phone with
the one detail row each has, in order; `operations` the recorded operations with the events each must
have.  `users`, `identities`, `passwords`, `bans` are their tables; `families[u]` a user's families in
order, each with its sessions in the order of rotation and each session with its access token.
`challenges`, `grants`, `buckets` are the SMS tables and the rate limits; `call` is the request for a
code in progress.

*Actions.*  The names are the code's.  `RequestPhoneCode` is what is read before the first transaction,
for all five purposes; `InsertChallenge` the transaction that charges the limits and inserts the
challenge; `SendSucceeds`, `SendFails` the provider's answer with the transaction that follows it;
`Crash` the process dying in between.  `VerifyFails`, `VerifyLogsIn`, `VerifyGrants` are
`verify_phone_code`.  All others are one transaction each.  `ValidateOne` is the deep validation of
`phone_reputation`, `ValidateAccountInvariants` the check on opening.

*Abstractions.*
- A transaction commits or is rolled back by the exception it raises, so a refused request is no step.
  The exceptions are the ones that commit something first: a wrong answer, a refused code request and
  a failed login are charged, a replayed refresh token ends its family.
- `validate_one` runs before every use of a phone and refuses on a mismatch.  It is not a guard here:
  `LedgerValid` shows that it never refuses (proved: `LedgersReplay`), so leaving it out loses nothing.
  `Generation` orders the events of a generation by their sequence numbers, as its query does, and
  `Contiguous` is its test that the numbers are 1 to n.
- No clock.  A deadline that passes is an action (`ChallengeExpires`, `GrantExpires`, `AccessExpires`,
  `SessionExpires`, `FamilyAges`, `CooldownEnds`, `WindowEnds`), ordered only where the lifetimes order
  it: a grant lives 10 minutes and is issued within the 5 of its challenge, an access token ends before
  its session.
- Secrets are left out: who knows an id may present it with the right secret or a wrong one.
- An operation id is its position, which also stands for its time.  A request with a recorded id
  returns the stored result or is refused; neither changes anything.
- The ids of challenges and grants are slots, free again after the purge.  One code request is in
  progress at a time; two would meet only in the buckets, whose transaction is one step.
- A bucket's count stops one above its limit: beyond it only the length of the cooldown grows.
- Audit and security events, hashing and key rotation are left out.

Histories: `replayed` (a replaced token came back), `answered` (correct answers to a challenge), `uses`
(operations a grant was accepted for), `passed` (what a bucket let through in its window).

`CreateSession`, `RotateSession` and the revocations are the account core, which no HTTP route calls;
`CreateSession` requires an active user only, not a normal phone.  Such a session is useless until the
phone is unblocked, and `NoSessionOutlivesItsBasis` does not speak of it: it was opened after the block.

### AccountMigration

`version` and `rows` are the committed database: what BEGIN EXCLUSIVE covers is private until COMMIT,
so the chain of migrations, its validation and the commit are one step (`Migrate`).  `Lock`,
`ReadsVersion`, `BackupAndVerify`, `BeginExclusive` come before it; `Fails` is any exception, `Dies` the
process with its lock and its half-written backup; `OpenStore` the constructor of `AccountStore`.
`OldReleaseMigrates` and `OldReleaseWrites` are the previous release, external to this source: it knows
schema 1, takes the same lock to migrate, and registers and erases accounts at any time but during an
exclusive transaction.  `changed` is a history of the versions that were migrated away.  The SQL of the
schemas, checksums and the comparison of tables and indexes are left out.

### MCAuthentication

All operations at once have too many interleavings to explore.  A behaviour belongs to one workload,
chosen at the start, and mixes the groups of operations that meet there:

| Workload | Groups |
|---|---|
| `registration` | codes for registration and login with failures, crashes, expiry and purge; completion and cancellation |
| `credentials` | codes for password reset and phone change, their completion, change of password |
| `erasure` | bans, status changes, the erasure code with its lifetimes, both erasures |
| `limits`, `appeals` | logins, and code requests, against their buckets |
| `sanctions` | bans, overturns, blocks, reassignment, status changes, erasure, and the next account of the phone |
| `devices`, `expiry` | logins and refreshes with logouts, and with expiring tokens, sessions and families |
| `core` | the account core with status changes, blocks and attached identities |
| `migration` | `AccountMigration`, from an empty database |

All but `registration` and `migration` start from one registered and logged-in user.

## 3. Runs

All with deadlock checking off: a Run at rest waits for a command that need not come, and the
bounds stop the environment.

| Run | Instance | Distinct states | Shows |
|---|---|---|---|
| `engine_recovery` | 1 Reference, 2 rounds, 2 faults of {crash, cancel, reference, media_upload, qwen_asr, doubao_asr, kimi_correction, ata, local} | 891 000 | `TypeOK`; `CallsSettled`: recovery leaves no open call behind; `RetryChains`: an attempt continues the latest failed one with its inputs; `PaidOnce`: shared stages once per Run, ATA once per transcript; `TailCurrent`: current tail is built from current inputs; `EarlierRoundsFrozen`; `NoIntegrityFailure`; `CorrectionsUseRefs`; `PaidResultsKept`; `SuccessExport`; `ContractHolds`: refinement of `RunContract` |
| `engine_review` | 1 batch, 2 rounds, 2 faults of {cancel, glm_selection, ata} | 358 000 | `CancelNeverSucceeds`; `RoundCoherent`: checkpoints of a round fit together; `AtaOnlySealed`; `HumanDecisions` apply to the queue that was read; `SealedStays` |
| `engine_arms` | 1 batch, 1 oversized case, 1 round, 2 faults of {cancel, qwen_correction, kimi_correction} | 27 000 | `WriterStops` (liveness) |
| `object_transfer` | 2 manifests, 1 snapshot, 5 rows, 3 faults | 100 000 | `TypeOK`, `OneObjectPerIntent`, `NothingLeaks`, `BoundExists`, `ProtectedNeverDeleted` |
| `remote_job` | Doubao and ATA, 3 attempts, 2 rounds | 3 825 000 | `TypeOK`; `PostsAuthorised`: what is submitted unasked continues a known task in doubt whose last recorded answer was `failed`, after a crash or at Doubao; `RetryQueries`: a task not recorded as failed, or an id whose submission is in doubt, is queried and not paid for again; `NoOrphanTask` |
| `accounts` | the ten workloads of `MCAuthentication` | 280 000 | see below |

`accounts` checks, beside the types of the three layers (`TypeOK`):
- `LedgerValid`: after any sequence of bans, overturns, blocks, erasures and reassignments the ledger
  replays to the row; `UnblocksMatchBlocks`: an overturn lifts only the block its ban caused;
  `ThresholdBlocks`: the ban that reaches the threshold blocks; `BansMatchLedger`: the accounts' bans
  agree with the ledger;
- `CompleteAccounts`: two grants for one phone, a registration and a phone change, an erasure between
  verification and use leave one user per phone and nothing half made;
- `FamilyLimit`, `FamilyIsOneDevice`, `NoSessionOutlivesItsBasis`: what logins, refreshes, replays,
  expiries and sanctions leave of the sessions;
- `AttemptBudget`: a wrong answer to a verified code reopens it (`auth.py:248`), so one code can be
  answered correctly more than once, but each further time costs an attempt; `GrantSpentOnce`;
- `LimitHolds`: no bucket lets one request too many through;
- `RowsSurvive`, `ChangesBackedUp`: the migration.

*Bounds.*  Two rounds are needed for everything that is carried over, and a third repeats the
second: `retry_run` reads the previous round only.  Two faults give pairs of failures, a
failure of the recovery of a failure included.  The fault classes are split over the runs: crash and
cancellation meet each other, every shared call, ATA, References, local errors and a correction arm in
`engine_recovery`; cancellation meets selection and review in `engine_review`, and both correction
arms in `engine_arms`.  Pairs across runs (a crash and a selection failure) and three faults in one
history are not explored.  One batch is enough where batches are visited one
after the other and share nothing; an oversized case is the second way into review.  Five rows let
every item be stored, removed and stored again once; three attempts are a retry of a retry.  All
bounds are guards of environment actions (`MaxRounds`, `MaxFaults`, `MaxTransfers`, `MaxAttempts`)
and never cut a step of the writer.

In `accounts` the limits of the code are scaled down so that they are reached: 2 families of 5, 2
attempts of 5, 2 bans of 3, limits 2/2/3 of 5/10/20 (two that refuse first and one that is charged
along).  The code compares with these numbers and does nothing else with them.  Three logins exceed
the families, two rotations make a replaced token, three challenges and two grants let two of each
compete and one be reused; two phones and two users are an owner and a successor, two generations a
present and a past one.  Seven operations are a registration and six sanctions, enough for two bans by
different accounts, overturn, unblock and reassignment in any order.  Two processes and three backup
instants are a migration that dies, one that takes over, and a name that is taken.

*Fairness.*  Only `WF_vars(Writer)`, and only `WriterStops` needs it: a living process takes its next
step, and a call returns, because the clients have request timeouts and query deadlines.  Nothing is
assumed about users, cancellation or crashes.

Each property of a passing run has a mutant: a plausible slip in one definition (next to it in the
module, marked "Mutant") that makes TLC refute the property.

### Where the code and its documents disagree

Six runs are expected to fail; each checks one statement of the repository.

- `engine_arm_lost` (`BothArmsCollected`, `orchestrator.py:638`).  An error of the automatic
  resubmission of one arm (a failing factory, a cancellation) leaves the collect loop.  The other
  arm's result is not saved, and its invocation stays `sending` in a failed round, which recovery
  never visits.  `docs/failure-model.md` says the other arm is still collected and saved.
  `CallsSettled` therefore leaves the correction arms out.
- `engine_ata_retry` (`AtaRetryReuses`, `lifecycle.py:145`).  A selection call failed, its case was
  decided by hand, ATA fails later.  The retry counts the old selection failure, too, and drops the
  sealed transcript and the decision.  `docs/v0.5.4-design.md` says they are reused.
- `object_cleanup` (`BoundExists`, `object_storage.py:103`).  A cleanup that dies between DELETE and
  the row update leaves `persisted`, which `persist_object` trusts without a HEAD; a result then
  names an object that is gone.  `object_transfer` excludes exactly this fault (class `cleanup`).
- `remote_known` (`KnownTaskQueried`, `provider_control.py:48`).  The id of a known task is looked up
  in the direct predecessor only.  A retry that fails before its receipt hides it, and the next retry
  submits again.  `docs/v0.5.4-design.md` says recovery only queries.
- `remote_doubt` (`DoubtNotRetried`, `doubao_asr_provider.py:140`).  An answer without a status code is
  recorded as `failed`, but is no error; the call ends in doubt at its deadline, or because the process
  died (TLC shows either).  Resume continues the attempt because its id is known, has no id to query
  because the receipt says `failed`, and submits and pays for a second task unasked, while the first
  may be at work.  `docs/failure-model.md` says that a delivery in doubt and a timeout are not retried
  automatically (:26) and that a known task is recovered by querying its id (:87).  The other clients
  get there only when the process dies between the receipt and the failure of the call
  (`ata_provider.py:127`, `base_asr_provider.py:135`).  `PostsAuthorised` says that nothing else is ever
  submitted unasked.
- `sms_purge` (`PurgeNeverRefused`, `auth.py:763`).  A code lives 5 minutes and its grant 10, and
  the grant refers to the challenge with ON DELETE RESTRICT (`account_migrations.py:573`).  While a
  grant outlives its challenge, `purge_expired_auth_state` is refused by the database and rolled back
  as a whole.  `docs/v0.6.1-phone-password-authentication-design.md` says the TTL cleanup deletes both.
  `cancel_registration` meets the same constraint when its challenge has a second grant.

More observations have no run: a round parked for review twice shows the `usage` of the first time
(`lifecycle.py:244`); password login refuses at the limit before it counts (`auth.py:1050`), so its bucket never passes the
limit and the progressive cooldown the design asks for is never set.

## 4. Proofs

Everything below is proved for every value of the constants that the named assumption of its
module admits: any number of rounds and faults, any sets of batches, cases, References, users,
phones, codes, processes.  Each inductive invariant was an invariant of a TLC run on the instances of
section 3 before it was proved.

A theorem about a big state machine needs two kinds of facts: what a step leaves alone, and what the
place of the writer says about the tables.  The proofs keep them apart.  Lemmas of the first kind
(`CpStays`, `RowsStay`, `ArtStays`, `FamiliesStep`, `LedgerStep`) are proved once per group of
actions and cited by all invariants.

### The engine

Assumption: `BoundsAssumption` (a positive number of rounds, a natural number of faults, fault classes
from the list).

`RunEngineProofs`:
- `TypeCorrect`: `Spec => []TypeOK`.  Not inductive alone: writing to `inv[slot[s].inv]` needs the row to
  exist, a selection answer needs a batch to belong to, and `RetryRun` needs a round to go to.
  `TypeInv` adds `SlotsOpen`, `CallsInPlace` (a call is in flight only where its thread waits, or where a
  failing writer abandoned it) and `RoomForRound`.  `LastGreatest` (a nonempty
  set of positions has a last element) uses well-foundedness of the naturals.
- `EngineImplementsContract`: `Spec => ContractHolds`, with `result` mapped to the status it shows.
  `ControlInv` links the program counter to the status column: whoever works on the Run sees `running`,
  whoever is past the commit sees `succeeded`, a success keeps its result.  `Simulation` shows every
  step to be a step of the contract or to leave its variables alone; most steps are covered by
  `LocalStageQuiet` and `CallStepQuiet`.
- `CancelSafe`: `Spec => []CancelNeverSucceeds`, from the contract: `ContractCancel` is inductive there,
  because `Succeed` needs `~cancel` and `Cancel` a round that has not ended.
- `PastIsFrozen`: `Spec => EarlierRoundsFrozen`.  Rows are only appended and a settled row stays as it is
  (`RowsStay`); checkpoints and columns of an earlier round are never written (`CheckpointsEarlier`,
  `ColumnsEarlier`).
- `CallsAreSettled`, `AttemptsChain`: `[]CallsSettled`, `[]RetryChains`.  `CallInv` says where an open call can
  be: in the main thread at the place of its stage, or in a Run whose writer died (`MainInPlace`,
  `MainOpen`); that a call in flight is the newest attempt of its operation, asked for with the inputs
  of now and still without a result (`CallsKnown`); that older attempts of the round have failed
  (`OlderFailed`).  `RetryChains` is preserved because `LatestAttempt` is then the only attempt a new
  row can continue, and the inputs of a row never change.

`RunArtifactProofs` is about what artifacts stand on.  `ArtInv` has four parts: contents are stored
once, and a checkpoint names a stored artifact of its own kind and scope (`StoreInv`); from the job
stage on the round has its `job_input`, from the corrections on the one of the References it could
prepare (`JobInv`); each place of the writer implies the checkpoints that were made on the way there
(`PlaceInv`); the inputs of calls are stored and every transcript was made from a sealed resolution
(`ReadInv`).
- `AlignsSealed`, `ArmsReadRefs`: `[]AtaOnlySealed`, `[]CorrectionsUseRefs`.  Both speak about rows of all
  rounds, also of those whose checkpoints a retry dropped, so they follow from what was true when the
  row was made and from artifacts never changing.
- `SealedIsFinal`: `Spec => SealedStays`, step by step: only the places that `~SealedFinal` guards write the
  resolution of the round, and `RetryRun` opens another round.
- `SuccessIsExported`: `[]SuccessExport`.  `ExportInv` carries the rendered SRT from its publication to the
  commit, and that a round to come has no status.
- `PaidIsKept`: `[]PaidResultsKept`.  `PaidInv` gives every call a checkpoint of its own, says that a committed
  result is stored with the mark of the call that paid for it, and that the last failed attempt leaves
  its checkpoint empty.  Marks make results of different calls different artifacts, which is what
  keeps one call's result from standing in for another's.
- `NothingPaidTwice`: `[]PaidOnce`.  The shared stages follow from `PaidInv`: their checkpoints are in column 0
  and never dropped.  ATA is harder, because each retry copies or drops the response: `TextInv` says
  that a transcript bears the round that made it, that the response of the round's transcript is the
  one some round has paid for (`AtaPaid`), and so no call repeats what an earlier one has answered
  (`AtaNew`).

`RunRoundProofs` is about a whole round:
- `RoundsCohere`: `[]RoundCoherent`.  The checkpoints of the current round are closed under what their stages
  read (`Complete`) and every artifact among them was made from those checkpoints (`Exact`); the rest
  of `FitInv` (`Fresh`, `Missing`, `Places`, `ArmTurns`) says what the writer may rely on where it makes
  the next one.  A retry and an invalidation drop what `DescendantTable` computes; `BelowReached` and
  `BelowWithin` show by paths of the dependency graph that this is exactly what was made from the
  dropped, so what stays still fits (`FitRetry`, `FitInvalidate`).  A shared stage that is written again
  is the same artifact (`CpKept`).  No step takes a checkpoint from an earlier
  round, nor puts another in the place of one (`CellsKept`), so what fitted goes on fitting
  (`PastCoheres`).
- `TailIsCurrent`: `[]TailCurrent`.  `PtrInv` relates the pointers to the checkpoints: what the round has
  bound is offered (`PtrCurrent`), of the transcript and its alignment nothing else is offered
  (`TextPtr`), and an SRT only beside the result it shows (`SrtPtr`).  `Follow` is what a step must do to
  keep them, whatever it publishes or withdraws; one lemma per kind of step shows it does.  A
  publication withdraws by `StaleTargets` and a retry by `Excluded`, neither of which looks at the
  checkpoints: that no checkpoint of the round is withdrawn rests on `NothingBelow` (below a
  missing stage nothing is bound) and on `FailedMissing` (a failed call has no checkpoint).
- `NothingIsInconsistent`: `[]NoIntegrityFailure`.  `RaisesIntegrity` lists the checks that can raise it, and
  each is shown to pass.  A call that was paid for is not begun again, because its checkpoint is still
  there (`NeverBroken`, from `PaidResultsKept`).  An attempt has the inputs of the one it continues
  (`NeverChanged`): a row of the round keeps the inputs that a new attempt would freeze now (`InputsNow`),
  for what they name cannot be replaced while the row is of the current round, and a task that is
  resumed from an earlier round is taken up only with its own inputs.  What a stage requires is there
  (`FitInv`).  The export gate passes (`GatePasses`): the inputs are offered (`PtrInv`) and fit (`Exact`),
  the transcript is from a sealed resolution, and the response is from an `ata` row that read this
  transcript (`AtaRow`).
- `DecisionsFitTheirQueue`: `[]HumanDecisions`.  It speaks of all artifacts ever made, so a new one must be made from
  stored ones (`DecisionsStored`), and what the selection puts into a resolution exists because
  every batch the loop has left is decided (`Loop`, `LoopDone`).  That resolution applies no decision;
  the reviewer's applies one, and its queue was made from the resolution it replaces (`Exact`).

### Remote tasks and objects

`RemoteJobProofs`, from `AttemptsAssumption`: `RemoteTypes`, `PaysWhenAllowed`, `RetriesQuery`,
`NoTaskIsOrphaned` for `TypeOK`, `PostsAuthorised`, `RetryQueries`, `NoOrphanTask`.  `RemoteInv`: only the last
row can be open, in a Run that recovery visits (`OpenIsLast`); `Chains` relates each row to the one it
continues, which no longer changes, and says how a row that was recorded as `failed` can end in doubt
(`DoubtExplained`: the process died in it, or it is Doubao's); `WriterKnows` ties the locals to the current
row, and says that apart from Doubao's client nobody works on after recording `failed`; Doubao's ids
are recorded before they are used (`IdsRecorded`).

`ObjectTransferProofs`, from `TransferAssumption`: `TransferTypes`, `IntentsUnique`, `NoLeak` and
`CleanupSpares` (`ProtectedNeverDeleted`) hold whatever fails.  `TransferInv` says what the flow and the
cleanup know at their places, and that what a result names is bound.
`BoundObjectsExist` has the hypothesis `"cleanup" \notin Faulty`: a cleanup that dies between DELETE and the row
update breaks `BoundExists`, which is the disagreement `object_cleanup` above.  Without that fault
`FinishedStored` holds: a finished row has its object, except between DELETE and the update.

### Accounts

`AuthenticationProofs` and `AccountProofs` are about the specification of `Authentication` with all
operations at once, not about the workloads TLC explores.  Assumptions: `LedgerAssumption`,
`AccountAssumption`, `AuthenticationAssumption`; the last describes the initial users `Starts`, which the
instances need (`Len(start) <= MaxOperations` because each comes with a recorded operation).

- `LoginsStayLimited`, `FamiliesAreDevices`: `SessionInv` says of each user that at most one session of a family
  is live, none after a replay, and that the active families are within the limit.  Every operation
  on sessions makes of each family a later one (`Later`, `UserMove`): revocation is never undone and a
  successor is appended where the old session ends.
- `AccountTypes` (`[]TypeOK`), `AttemptsArePaid`, `GrantsAreSpentOnce`, `LimitsHold`: `AuthInv`.  `CodeInv` counts the correct
  answers to a challenge against its attempts, and relates a grant to a challenge that exists and to
  what it was used for; until the provider has answered nobody can answer the challenge
  (`Unsent`).  `BucketInv` bounds what passed by what was counted and by the limit.
- `AccountsAreComplete`: `AccountInv`: who is registered has one phone with a record, and a password; an
  identity has one holder; of others nothing is there.  The last part is needed because
  registration takes an unused user.
- `BansAgree`, `OnlyItsOwnBlock`: `[]BansMatchLedger`, `[]UnblocksMatchBlocks` by `LedgerInv` (an overturn names a
  ban, every generation begins with a status event, an unblock that names a ban follows its block),
  from lemmas about the events each operation appends.
- `LedgersReplay`, `ThresholdsHold`: `[]LedgerValid`, `[]ThresholdBlocks` by `ReplayInv`.  `RowReplays` says of a phone
  that its log is in the order of the numbers (`Ordered`), that no event is beyond the row's
  generation, that every generation is contiguous and of valid events, that the current one replays
  to the row (`Replays`), and that a count at the threshold without a block is excused by a later unblock
  (`Excused`).  `Recorded` says that each request has exactly the events it asked for.  The argument:
  - A request appends to one generation (`Continues`); that generation keeps its prefix and all others
    stay what they were (`GenerationGrows`).  What was a valid event remains one.
  - The replay of n + 1 events is that of n and one step (`ReplayNext`, `ExcusedNext`), so the row the request
    writes is what its events replay to.  The invariant carries the replay of the prefix, and no
    induction over the log is needed.
  - The count is never negative: the overturns of a generation name different bans of it, so there is an
    injection from overturns to bans, also when an old generation is corrected (`CountNatural`).
  - An unblock follows a block: the block an overturn lifts is the latest status change, so it is in
    force (`LiftsBlocked`, from `LedgerInv`).
- `SessionsFollowTheirBasis`: `Spec => NoSessionOutlivesItsBasis`.  Per step and user, either the basis stays
  (`Kept`) or the operation ends the user's sessions (`Ended`).

`AccountMigrationProofs`, with any finite number of processes, rows and backup names
(`MigrationAssumption`):
- `MigrationBackedUp`: `MigrationSpec => []ChangesBackedUp`.  `MigrationInv` adds what a process in progress
  knows: it holds the lock (`LockHeld`), so nobody else is in progress; the version it read is still the
  committed one (`StartCurrent`), because whoever changes it needs the lock; the file it is writing is
  its own and past that step whole (`BackupOwned`); rows exist in schema 1 only (`RowsOld`).  That a
  new backup never replaces a whole one is what keeps the backups of earlier changes.  It follows from
  `StartCurrent` that the second look at the ledger in BEGIN EXCLUSIVE never refuses.
- `MigrationKeepsRows`: `MigrationSpec => RowsSurvive`, from the guard inside the exclusive transaction
  alone: the lock does not keep the previous release from writing.
- `MigrationTypesHold`: `MigrationSpec => []MigrationTypeOK`; no run repeats it.

### Only model-checked

- `WriterStops`: liveness under fairness.

Every other property of a passing run is stated by a theorem.  No module uses `RECURSIVE`
(`DescendantTable` is a fixed number of doublings).

## 5. Not modelled, and the plan

Left out for good: request building, response parsing, prompts, ffmpeg, file hashing, the CLI and
`auth_http` (parsing, cookies, CSRF and status codes around single calls: I/O without control state);
Argon2, HMAC and AEAD; the SQL of the schemas.

Next, in this order:

1. `MergePlan`: `text_diff`, `conflict_selection`, `edit_resolution`, `asr_comparison` as operators,
   checked over all short texts against reference definitions; `export`'s SRT times.
2. `ReferencePreparation` in detail (conversion, upload) composed with `ObjectTransfer`.
