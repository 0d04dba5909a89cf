# Managed Skill Hub: a verification project in TLA+

The Managed Skill Hub is a registry of skills for agents: a Fastify service in
TypeScript (`src/apps/api`), built as ports and adapters, in which agents propose
skills, language models judge them, administrators review and publish them, and
agents search and download what is published. This directory holds TLA+ models of
the parts of the service in which interleaving, interruption and recovery decide
whether it is correct, the TLC configurations that check them, and TLAPS proofs
about them. Paths below are relative to `src/apps/api/src` unless they start with
`src/`.

## 1. Inventory

| Part | State it keeps | Operations | Talks to |
|---|---|---|---|
| Skill aggregate (`domain/skill`) | versions with status, review metadata, manifest | submit, approve, publish, reject, deprecate, add version | loaded and saved by the commands |
| Skill commands (`application/usecases/skill`) | none between calls | review commands, create, update, upload, move, delete a file | repository, artifact storage, audit log, search, catalog |
| File repository and storage (`adapters/outbound/persistence/filesystem`) | `skill.yaml` and artifacts per version, `proposal.yaml` | save, find, store file | writes the catalog after the files |
| Catalog (`adapters/outbound/catalog`) | projection of skills, files, judgements, proposals; operation records | upsert, list, rebuild; create, find, claim, update an operation | SQLite or MySQL |
| Search index (`adapters/outbound/search`) | one document per published version | index, remove, reindex all | SQLite or MySQL |
| Audit log (`adapters/outbound/audit`) | entries by date | append, find | also projected into the catalog |
| Projection rebuild (`application/usecases/projection`) | none | rebuild catalog and index from the files | repository, catalog, search |
| Asynchronous operations (`application/usecases/operation`) | in memory: scheduled set, queue, running count; durable: records with lease, phase, dedupe key | start, resume, schedule, drain, run, heartbeat | operation store, all long-running use cases |
| Judgement (`application/usecases/judgement`) | judgements of proposals, files, versions | judge a proposal, a file, a version | language model, audit, repository, catalog |
| Proposals (`domain/proposal`, `application/usecases/proposal`) | status, files, judgements in `proposal.yaml` and in the catalog | open, attach, finalize, judge, reject, convert, delete, auto-publish | storage, judger, skill commands, operations |
| Readers (`application/usecases/skill/*query*`, `adapters/inbound/http/skill-read.controller.ts`) | none | list, detail, search, manifest, package, file, text | catalog, repository, search, storage |
| Database persistence (`adapters/outbound/persistence/database`, `adapters/outbound/mysql`) | rows of aggregates, projections and index; open transactions; who waits for a connection | save, find, delete, rebuild, reindex | SQLite (one shared connection) or MySQL (a pool) |
| Agent sessions (`application/usecases/agent-session`, `adapters/inbound/http/agent-api-auth.ts`) | session rows with expiry; failure buckets in memory | create, present a code, revoke | identity persistence |
| Administrator sign-in (`adapters/outbound/identity`, `adapters/inbound/http/admin-auth*`) | login transactions, session rows, principals and their external subjects | redirect, callback, guard a request, log out; verify an agent's token | OpenID provider, identity persistence |
| Web client (`src/apps/web`) | what a page shows; the operation it follows, also in session storage | start an operation, poll it, navigate, reload | HTTP interface |
| Migrations (`infrastructure/migrations`) | schema, `knex_migrations` and its lock row, the legacy table, the cutover lock (a file, or MySQL's `GET_LOCK`), backups | lock, plan, back up, adopt the legacy history, migrate, release | run by the API server before it serves, and by a CLI |
| Start-up and scripts (`server.ts`, `container.ts`, `src/scripts/deployment/restart-server.sh`, `src/scripts/deployment/install_and_start.sh`) | the PID file, the ports, which process each running script started | stop, check ports, migrate, start, wait for health | processes, migrations, operators |
| Everything else | HTTP routing, extraction, observability, configuration details | | |

What is hard about it:

* **Read, change in memory, write back, with nothing locked.** A command loads the
  aggregate once, changes its own copy, and then writes one store after the other
  (one `skill.yaml` per version, the catalog rows, the audit entry, the search
  index). Every write is an `await`. Two commands on one skill can interleave
  anywhere, and the later save wins as a whole.
* **Two copies of the truth.** Commands prefer the catalog over the files, while
  the files are written first; a rebuild goes the other way.
* **Interruption.** Any write can be the last one of its command.
* **Leases.** Long work runs under a lease that can lapse while its holder is alive.
* **Progress.** Work that was accepted must end, although queues are in memory.
* **Readers between writes.** A reader settles on a version in one await and fetches
  its parts in others.
* **One connection or many.** On SQLite only a chain of promises keeps the statements
  of one request out of another's transaction; on MySQL an answer to COMMIT can be lost.
* **Checked, then used.** Sessions are counted before one is inserted, principals are
  looked up before they are made, a session row is read before its principal.
* **An upgrade in pieces.** On MySQL every statement of a migration takes effect at once,
  Knex leaves its lock row behind when it is killed, and SQLite's lock file is removed
  by whoever takes its owner for dead; scripts know a process only by its PID file and
  take whoever answers at the port for the server they started, and nothing keeps two
  scripts apart.
* **A page that stays.** The router keeps the skill page mounted while the address
  changes, and its handlers go on after their awaits whatever the page shows by then.

What makes each part correct: statuses move only along the table; stores agree
when nothing is in flight; a status is explained by the audit log; the judgement
gate cannot be passed without a trace; only published versions are indexed, and
those are; a version's artifacts do not change; there is one active operation per
target, it ends, it ends once, and "completed" means that one worker did all of it.

## 2. Modules

| Module | What it is |
|---|---|
| `SkillLifecycle` | abstract: the versions of a skill and the transition table of `SkillStatus.ts` |
| `SkillRegistry`, `MCSkillRegistry`, `SkillRegistryProofs` | one skill, its stores, and every command that changes them |
| `SkillReading`, `MCSkillReading`, theorems in `SkillRegistryProofs` | composes `SkillRegistry` with requests that read a skill while commands go on |
| `ProposalLifecycle` | abstract: a submitter's proposals as readers see them, and the versions made from them |
| `Proposals`, `MCProposals`, `ProposalsProofs` | one submitter's proposals for one skill, their stores, and every command on them, with automatic publication |
| `OperationLifecycle` | abstract: operation records as a polling client sees them |
| `AsyncOperations`, `MCAsyncOperations`, `AsyncOperationsProofs` | requests, schedulers, leases, heartbeats and faults of `AsyncOperationService` over the operation store |
| `JudgementRuns`, `MCJudgementRuns`, `JudgementRunsProofs` | runs of the judge over versions, proposals and files, the limiter they share, and the provider |
| `OperationConsole`, `MCOperationConsole`, `OperationConsoleProofs` | composes the administrator's page with the operation store it polls, which keeps the contract of `OperationLifecycle` |
| `DatabasePrograms` | what each operation of the database adapters sends: its units and their statements, and what the schema's foreign keys make of them |
| `AtomicUnits` | abstract: the units of an operation take effect one by one, each as a whole |
| `ContentDatabase`, `MCContentDatabase`, `ContentDatabaseProofs` | the same programs run by concurrent callers over one connection or a pool, with failures and stops |
| `OidcAccess`, `MCOidcAccess`, theorems in `AccessProofs` | sign-in of administrators and agents, principals, sessions and the guard of a request |
| `AgentAccess`, `MCAgentAccess`, theorems in `AccessProofs` | agent sessions, their limit per origin and the failure limit of codes |
| `CatalogMigrations` | the migration of the catalog's schema under the cutover lock, on SQLite and MySQL, by any number of processes |
| `ServiceControl`, `MCServiceControl`, `ServiceControlProofs` | composes `CatalogMigrations` with the start of the API server and with the scripts that stop, migrate and start a release |

The MC modules give TLC its symmetry sets and small sets; the `*Proofs` modules hold
the theorems.

### SkillRegistry

`yaml`, `rows`, `files`, `index`, `judged` and `audit` are the stores; `handler`
holds what each request in flight has in its local variables. A handler's `stage`
is the write it will make next:

    idle -> gate -> save -> catalog -> audit -> index | unindex -> idle      publish, deprecate
    idle ->         save -> catalog -> audit -> idle                         submit, approve, reject
    idle -> copy -> save -> catalog -> audit -> idle                         create, update, file edits
    idle -> wipe -> refill -> reindex -> idle                                rebuild

| Code | Model |
|---|---|
| `hydrateSkillFromCatalog`, `loadSkill` | `Hydrated`, `LoadedSkill`: the catalog if it has the skill, without the review metadata; else the files |
| `submitForReview`, `approve`, `reject`, `deprecate` | `Review` and the writes after it |
| `publish`, `enforcePublishJudgementPolicy` | `BeginPublish` loads, `PassGate` reads the judgements, leaves the audit entry and only then applies the transition to what was loaded |
| `createSkill`, `updateSkill`, `uploadFile`/`moveFile`/`deleteFile` | `BeginCreate`, `BeginUpdate`, `BeginEdit`, then `StoreArtifacts`, which stores before `addVersion` may refuse |
| `save` of the file repository | `WriteYaml` once per version, then `UpsertCatalog` |
| `append`, `indexVersion`, `removeVersion` | `AppendAudit`, `IndexVersion`, `RemoveVersion` |
| rebuild of the projections | `BeginRebuild` reads the files, then `WipeCatalog`, `RefillCatalog`, `ReindexAll` |
| `JudgeSkillVersionUseCase` | `JudgeVersion` |
| a process stop or a store error | `Abort` |

Abstractions. Versions are numbered by patch, because every new version in this
code is a patch bump. A version record is its status, which of the four review
stamps it carries, and what its artifacts contained when it was added; titles, tags
and manifests do not affect control. Storing the artifacts of a version is one
step that replaces them: the code copies the files of the base version, changes one and
stores them in a loop of writes, none of which reads another store, so a command cut off
there leaves only some of them (`update-skill.usecase.ts:331`); `VersionsImmutable` is
violated by the whole step already. A file is written or it is not: that
`fs.writeFile` may be stopped within one `skill.yaml` (`file-system.repository.ts:140`),
which leaves a file nobody can parse, is left out. The second
audit entry of a publication, `publish_change_note`, follows the first and is
folded into it. The audit log is a set: its readers look for the presence of an
entry. The replacement of a skill's rows is one step, as it runs in a transaction;
the wipe and the refill of a rebuild are two, as they do not. Commands the domain
refuses change nothing and are not represented, except where the refusal comes
after a write (`StoreArtifacts`, `PassGate`).

### Proposals

`yaml` is `proposal.yaml`, `row` the catalog's row, `stored` the files in storage,
`audit` the entries somebody reads back; `latest` and `versions` are the skill as far
as conversions make it, `released` the versions automation published. A handler loads
a copy (`agg`) and writes it back:

    idle ->                       save -> row -> audit -> idle    submit, update, edit, reject
    idle -> store ->              save -> row -> audit -> idle    attach
    idle -> judging ->            save -> row -> audit -> idle    judge again
    idle -> resolve -> create ->  save -> row -> audit -> idle    convert
    idle -> remove -> remove_row -> audit -> idle                 delete
    idle -> validate -> save -> row -> audit -> judge_text -> judge_files -> collect -> evaluate
         evaluate -> screen -> classify -> resolve ... audit -> release -> idle     finalize

Each judgement made while finalizing is a save of its own, and returns to where the
handler was. `BeginFinalize` on a proposal past its upload starts at "audit" without
an entry, which is how an interrupted finalization resumes.

| Code | Model |
|---|---|
| `Proposal.create`, `addFile`, `addJudgement`, `finalizeUpload`, `reject`, `approve().convert()` | `NewProposal`, `WithFile`, `AddJudgement`, `WithStatus` |
| `loadProposal` of submitter, reviewer and automation; of the judge | `LoadedForCommand` (file first), `LoadedForJudge` (catalog first) |
| `submitProposal`, `updateProposalMetadata`, `attachFile`, `deleteProposal` | `BeginSubmit`, `BeginUpdate`, `BeginAttach` and `StoreFile`, `BeginDelete` and `RemoveDirectory`, `RemoveRow` |
| `finalizeUpload`, `validateUpload`, `judgeProposalText`, `judgeProposalFiles` | `BeginFinalize`, `Validate`, `JudgeText`, `JudgeFiles`, `CollectJudgement`, `SwallowFailedSave` |
| `rejectProposal`, the administrator's `updateProposalMetadata`, `convertProposal` | `BeginReject`, `BeginEdit`, `BeginConvert`, `ResolveVersion`, `CreateVersion` |
| `JudgeProposalUseCase` | `BeginRejudge`, `Rejudged` |
| `AutoPublishProposalUseCase` | `Evaluate`, `Screen`, `Classify`, then the conversion, then `Release` |
| `saveProposal` | `WriteYaml`, `UpsertRow` |

Abstractions. All proposals name the skill they are for, so that conversions meet
in one sequence of versions; a proposal without one gets an identifier nobody has.
The only metadata kept are the files. Whether the references of an upload are sound,
whether duplicates or a category block automation, and what a model answers are open
choices. A later judgement of a target replaces the earlier one, as it does for all
who read them. The submit, approve and publish of an automatic publication are one
step, since SkillRegistry interleaves them. The id of a deleted proposal may be used
again, as an idempotency key sent again does.

### AsyncOperations

`op` is the table of records, with `expired` standing for "the lease time is in
the past"; `worker` holds for each process the `scheduled` set, the `pending` queue
and one run per claimed record (its stage, the phase it is in, whether a heartbeat
found the lease lost, and the phase a heartbeat has read and not written yet);
`request` is where a caller of `start` is; `done` is a history variable, the phases
whose use case call the current lease holder has finished.

| Code | Model |
|---|---|
| `start` | `Find`, `Create` (with the unique index), `Lookup` after losing the race |
| `resume`, `schedule`, `drain` | `Poll`, `Scheduled`, `Drained` |
| `run`: claim, report, use case call, complete, fail, `finally` | `Claim`, `Report`, `Work`, `WorkFails`, `Complete`, `Fail`, `Ended` |
| `renewLease` on its timer | `ReadBeat`, `WriteBeat`: `updateOperation` reads the record, awaits, and writes its fields back |
| `updateOperation`'s `WHERE` | `Holds` |
| lease time, crash and restart | `Lapse`, `Restart` |
| failing store: a write is refused; a claim takes effect and its record cannot be read back | `RejectWrite`, `LoseClaim` |

The six kinds of operation are sequences of phases, each a report followed by a use
case call; the model has `Phases` of them. Clocks are abstract: a lease may lapse at
any time after its last renewal. While the holder is alive that is counted as a
fault, because a renewal comes three times per lease; when the holder is gone it is
not. A poll lists up to 100 records, far above the bound here.

### JudgementRuns

`active` and `waiting` are the limiter's fields; a `run` is a call of one of the use
cases, its `stage` the await it is at; `material` is what storage or the catalog says of
a target now, which a run copies when it gets to it.

    idle -> [waiting ->] asking -> audit -> store [-> audit reuse] -> list files      version
    next file -> [waiting ->] asking -> store -> audit [-> audit reuse] -> next file  its files
    idle -> [waiting ->] asking -> save -> audit -> idle                              proposal
    asking | any write -> note failure -> idle | next file

| Code | Model |
|---|---|
| `acquire`, `release` of `BoundedSkillJudger` | `Acquire`, `Release`, which hands the slot to the longest waiting |
| `JudgeSkillVersionUseCase` | `BeginVersion`, `Record`, `Store`, `RecordReuse`, `ListFiles`, `NextFile`, `EndOfFiles`, `RecordFailure` |
| `JudgeProposalUseCase` | `BeginProposal`, `Save`, `Record`, `RecordFailure` |
| `findReusableJudgement`, `withJudgementInputFingerprint` | `Reusable`, `Said` |
| `judge`, category and duplicate checks of the adapters | `Answer`, `AnswerUnjudged`, `CallFails`, `BeginCheck` |
| `parseJudgementOutput`, `computeOverallRisk` | `WellFormed`, `OverallRisk` |

Abstractions. A fingerprint is what it is taken of: target, content and model. A file's
digest is the one its listing had, its text what is read when its turn comes: if it was
replaced in between, the two fit no earlier judgement, and the file is judged anew. The five
dimensions of an answer are the set of risks they name. SkillRegistry and Proposals,
which are about what a judgement decides, see a whole run as one action.

### SkillReading

A reader is one request; `stage` is the await it is at. It extends `SkillRegistry`, so
each command write, rebuild step and interruption may fall between two awaits.

| Code | Model |
|---|---|
| `resolveCatalogVersion`, `resolveRepositoryVersion`, `getLatestPublishedVersion` | the version a request settles on: the catalog first, then the files, published ones first |
| manifest, package and file routes of `skill-read.controller.ts` | list the files of the version, then look it up again for each one |
| `search` of `skill-query.adapter.ts` | the index names a version, the catalog is asked about it afterwards |
| `ExtractSkillFileContentUseCase`, `ProbeSkillFileContentUseCase` | resolve, then read the artifact |
| `AdminSkillReadUseCase` | the administrators' views, which show every status |

A version's content is the set of its paths. Filters, paging, scores and the kept text
of an extraction are left out.

### DatabasePrograms, AtomicUnits, ContentDatabase

`Program` lists the units of each operation, a unit being a transaction or one
autocommitted statement. `rows` are the committed rows of the tables, `written` what
an open transaction has written, `using` and `queue` who holds a connection or waits.

| Code | Model |
|---|---|
| `runExclusive` of the SQLite content connection, the MySQL pool | `Turn`, `Grant`, `Release` |
| `transaction`: BEGIN, statements, COMMIT, ROLLBACK | `Grant`, `Execute`, `Commit`, `TransactionFails`, `Rollback` |
| statements outside a transaction | `RunAlone`, `AloneFails` |
| the catalog's second, synchronous SQLite connection with its busy timeout | `Busy`, `Project` |
| foreign keys with cascades | `Parent`, `Accepts`, `After` |
| a process stop | `Crash` |

One save's columns are one member of `Contents`. A table stands for the rows one
proposal or one version has in it. Skill files' rows behave as the proposal files' and
are left out.

### OidcAccess

`transaction`, `session`, `principal` and `subjectOf` are the identity tables, `flow` the
callbacks and token verifications in progress, `request` the guarded requests.

| Code | Model |
|---|---|
| `beginLogin`, `consume`, callback, `create` of the session row | `StartLogin`, `Callback`, `Establish` |
| `AuthentikAccessTokenVerifier` and `authorizeAgentPrincipal` | `PresentToken`, `MayUse`, `Served` |
| `PrincipalProjectionService`, `upsertExternalPrincipal` | `Lookup`, `LookupCounterpart`, `Upsert` |
| `adminGuard`, `OidcAdminAuth.validate`, `touch` | `Resolve`, `FindPrincipal`, `Touch` |
| logout; an operator disabling a principal; time | `Logout`, `Disable`, `Tick` |

What the provider says of a person is any of `Identities`, and may change between two
sign-ins. Signatures, claims and the provider's keys are checks that pass or refuse
before any state changes.

### AgentAccess

`row` are the session rows, `bucket` the failure counts per origin in memory,
`creator` and `check` the requests in progress.

| Code | Model |
|---|---|
| `CreateAgentSessionUseCase.execute`: count, then insert | `CountForCreate`, `Create`, `CreateFails` |
| `countActiveByIp` on SQLite (ISO text against `datetime('now')`) and on MySQL | `LaterThanNow` |
| `authenticateAgentSession`: the limit, the lookup, the failure | `PresentCode`, `Find`, `AfterFailure` |
| `cleanupSessionFailureBuckets` | `Cleaned`, `CleanupDue` |

### OperationConsole

`page` is the route, the scope whose operation is shown, and what is shown; `saved` the
session storage; `call` and `poll` the two requests that may be under way; `state` and
`target` the operation store; `strayed` the operations answered at another address.

| Code | Model |
|---|---|
| a link or the browser's history; the restore effect and the polling cleanup | `Navigate`, `Settle` |
| `setActiveOperation` and the effect that stores it | `Show` |
| the handlers that start an operation, before and after their await | `Act`, `Answer` |
| `useBackgroundPolling` with `refreshActiveOperation` | `PollRead`, `PollAnswer`, `PollFails` |
| a reload | `Reload` |
| workers and other clients of the store | `Claim`, `End`, `Elsewhere` |

Loading and editing the skill's data, the override dialog and a session storage that
refuses to store are left out; a request that is refused changes nothing.

### CatalogMigrations, ServiceControl

`schema` is what the database has, of what the statements of the seven migrations make
sure of; `history`, `legacy` and `latch` are `knex_migrations`, the table of the earlier
migration system and Knex's lock row; `lock` is the cutover lock. A `process` is an API
server of the new release, the server of the one before, or the CLI that only migrates:

    load -> link [-> inspect -> reclaim -> link] [-> open] -> plan [-> backup] -> adopt -> copy -> latest
    latest [-> apply [-> index -> restore -> apply]] -> release -> build -> listen -> serving
    any stage under the lock -> unwind -> gone

`script` has for each run of a script its step and the process it started, any number of
them at a time, since neither script takes a lock; `pidfile` is `.tmp/api.pid`. `original`, `backedUp`, `lost` and `loose` are history variables.

| Code | Model |
|---|---|
| `withCutoverLock` on SQLite: `link`, `removeStaleSqliteCutoverLock`, `unlink`; on MySQL: `GET_LOCK`, `RELEASE_LOCK` | `Acquire` and `OpenLock`, `GiveUp`, `Inspect`, `Reclaim`, `Release` |
| `readPlan`, the backup before a change, `adoptLegacyState` | `Plan`, `Backup`, `Adopt`, `CopyLegacy` |
| `migrate.latest`: one transaction on SQLite, group of statements by group behind Knex's lock row on MySQL | `NothingPending`, `LatestInTransaction`, `LatestByStatements`, `Record`, `LatestDone` |
| the migrations' "add if missing", `addIndexIfMissing` | `AddIfMissing`; `DropForeignKey`, `CreateIndex`, `RestoreForeignKey` |
| a failing call; a process that dies; an operator clearing Knex's lock | `CallFails`, `Dies`, `Unlock` |
| `start` of `server.ts`: `loadConfig`, `buildContainer`, `listen` | `Load`, `Build`, `Listen` |
| `stop_pid_file`, `require_ports_free`, `start_services`, `wait_for_http` | `StopPidFile`, `RequirePortsFree`, `Spawn` and `WritePidFile`, `StillAlive`, `Healthy`, `NoAnswer` |
| `install_and_start.sh`: migrate, then restart; the CLI run by hand | `MigrateRelease`, `MigrationEnds`; `MigrateByHand` |
| `server.ts` started by hand, which migrates before it finds the port taken; a server ended by hand | `StartByHand`, `StopByHand` |
| a script cut off between two of its steps | `Interrupt` |

Abstractions. A migration is the list of features its statements ensure, a feature being
what a group of statements adds, each of them only if it is missing: the thirteen tables
of the baseline, the added columns, the frozen foreign keys. Within such a group the order
and the place of a failure make no difference to what a retry has to do. Replacing an
index under a foreign key, where they do, is modelled statement by statement. The tables
of the baseline come with everything that was frozen into them. An upgrade begins with any
catalog in which migrations were applied in their order and made what they say
(`CatalogsAssumption`). Processes do not take over the identifier of one that is gone
while anything refers to it. `MigrateByHand` happens only while nobody serves,
`StartByHand` only while the old release does not, and `Unlock` only while nobody
migrates: that is what the instructions ask of the operator, and nothing in the code
enforces it. A process that a script kills is no fault. A script that stays in the
foreground and stops its servers when it ends (`trap stop_services`) is one that ended,
followed by a run of "stop".

## 3. Runs

| Run | Specification and bounds | Properties |
|---|---|---|
| `registry_interrupted` | `FairSpec`; 1 handler, 2 versions, no judgement policy, rebuilds, 2 faults | `RebuildRepairs`, `LifecycleRefined`, `PublishedBecomesSearchable` |
| `registry_concurrent` | `Spec`; 2 handlers, 1 version, required policy, rebuilds | `AuditExplainsStatus`, `IndexExplained`, `GateRespected` |
| `reading` | `ReadingSpec`; 1 handler, 1 reader, 2 versions, contents {a} and {a, b}, rebuilds | `ShownWasPublished`, `PackageIsOneVersion`, `RefusedForCause` |
| `proposals_interrupted` | `Spec`; 1 handler, 2 proposals, 1 file, 2 verdicts, 2 versions, automation on, 1 fault | `QuiescentAgreement`, `AuditExplainsStatus`, `ConversionHasVersion`, `LifecycleRefined`, `DecisionIsFinal`, `ReleaseJustified` |
| `judgement` | `FairSpec`; 2 runs, 1 file, 2 contents, 1 slot, a model or none, 1 judgement, 1 replacement, 1 fault | `SlotsExact`, `VerdictsFit`, `RunsEnd` |
| `operations` | `FairSpec`; 2 workers, 2 requests, 1 key, 2 records, 1 phase, 1 slot, 1 fault | `CompletionIsEarned`, `OneActivePerKey`, `SchedulerConsistent`, `LifecycleRefined`, `EveryOperationEnds` |
| `console` | `FairSpec`; 2 addresses, 2 operations, 1 reload or failed poll | `ShownIsSaved`, `ScopeKept`, `StayingShowsTheEnd` |
| `content_database` | `FairSpec`; 2 callers, 2 contents, a pool of 2, three workloads, both databases | `ProjectionWhole`, `UnitsAreAtomic`, `EveryCallReturns` |
| `oidc` | `Spec`; 1 person at 2 issuers, 2 identities, 1 login, 2 sessions, 2 flows, 1 request, clock to 2 | `OneSessionPerLogin`, `SubjectsNeverPart`, `AdmittedIsEntitled`, `DisabledStays` |
| `agent_access` | `AgentSpec`; 2 codes, origins, creations and checks, 1 active session, 2 failures, 1 bucket, clock to 4, both databases | `ActiveBounded`, `RefusalExpires`, `FailuresBounded` |
| `startup` | `Spec`; 2 processes, 2 scripts, 1 fault, 2 catalogs to begin with (with the legacy history on MySQL, without history on SQLite) | `ServingIsMigrated`, `OriginalKept`, `MigratesQuiesced`, `HealthyIsOwn` |

That values keep their shape is not checked again by TLC for the registry, the proposals,
the operations, the judgement, the console, the database, the sign-in, the agent sessions
and the start-up: there it is a theorem.

What they show:

* **Registry, interrupted.** When commands do not overlap but each may stop after any
  write, the files can be ahead of the catalog, in part. Readers and commands still
  never see a transition outside the table, because they trust the catalog, which is
  written last; the mutant that trusts the files breaks it. A rebuild may make several
  cut-off transitions visible at once, which is why `SkillLifecycle!Move` moves a set.
  A complete rebuild leaves no disagreement between files, rows and index, and a
  publication that is not cut off gets its document.
* **Registry, concurrent.** When commands overlap, statuses can move backwards (below).
  What survives any interleaving is that every status is one somebody gave the version:
  each command in its history is audited or about to be, a search document belongs
  to a version somebody published, and nothing is published under the required
  policy without judgement or override entry.
* **Reading.** While a command or a rebuild goes on, the public is shown only what was
  published; a package holds files of one version; and a refusal means that at some
  await there was nothing to show. An artifact overwritten under a version may end up
  in a package (see below), which is why `PackageIsOneVersion` speaks of versions.
* **Proposals.** When commands take turns, readers of proposals see the abstract
  lifecycle: one open upload, final decisions, one version per conversion. When one
  is also cut off or loses a save, a decision that was shown is still not taken back,
  since the file that decides is written before the row that shows, and a failed save
  leaves the older copy; and what automation releases is green in every judgement at
  the moment of release and untouched by reviewers. When commands overlap, the later
  save wins and may even reopen a rejected proposal; what remains is that a status is
  somebody's audited decision and that nothing is reported as converted without a
  version; both are proved for any number of overlapping commands.
* **Judgement.** Failing, aborted and malformed calls give their slot on; nobody waits
  while one is free; and a verdict is only ever written about the very material and by
  the model it was made for, also when it was made for the proposal and taken over for
  the version. Every run ends.
* **Operations.** The unique index, the lease and the owner-bound updates do
  their work: a record's life refines the abstract one, and completion is earned.
  The scheduler's three fields agree at every step and no slot leaks; a queued record
  waits behind a stalled run's slot and gets it. Every record ends: what a crash, a
  stall or a swallowed write leaves behind is found again once its lease has lapsed.
* **Console.** What the page shows is what a reload brings back; no poll or effect
  moves an operation to another address; whoever stays at an address sees the end of
  the operation followed there. The one thing that does move an operation is a
  handler's answer that arrives after navigation, and `ScopeKept` names exactly those.
* **Database.** Every unit is atomic to every caller on both databases, whatever fails
  and however callers overlap, so the programs implement `AtomicUnits`; rows of a
  projection never mix two saves; and no caller waits for ever.
* **Access.** One session per login; no sign-in makes a second principal of a person,
  however first sign-ins overlap, though rows that differed before both issuers were
  configured are never merged; nobody is admitted past expiry or disablement, up to the request that began
  before it; disablement survives the next sign-in. Overlapping creations can pass the
  limit of sessions, but by no more than one each, and SQLite's comparison of times in
  two formats errs on the side of refusing. An origin's own failures keep it out for at
  most two windows; an origin without a bucket is refused only while as many others as
  the table has places failed within the last two windows, which may be for ever if they
  keep failing.
* **Start-up.** Wherever a migration stops, and however often it is tried again, an API
  that serves has the whole schema, but for foreign keys when replacing their index was
  broken off; an existing catalog is backed up as it was found before anything changes it,
  also when the attempt that changes it is not the one that planned; the schema is never
  changed under a server that serves, though scripts overlap and servers are started by
  hand. What a script reports as healthy is never the old release, and it is the server it
  started itself unless an API may be up that neither the PID file nor a script knows
  (`loose`): that comes of a script cut off after its start, of a server started by hand,
  and of two scripts that start servers over each other.

Runs that are expected to fail, each stating what a document of the repository says:

| Run | Property | What happens |
|---|---|---|
| `registry_immutable` | `VersionsImmutable` | an upload based on an old version overwrites the artifacts of its existing successor, then fails |

Known consequences, met while modelling, for which no run is kept:

* Saving whole aggregates that were loaded earlier: a version leaves "rejected" again,
  a version added meanwhile loses its catalog row until a rebuild, a search document
  added late outlives the deprecation of its version (SkillRegistry), a judgement that
  comes late reopens a rejected proposal (Proposals).
* Publishing saves an aggregate whose approval metadata was lost in hydration
  (`catalog-skill-hydrator.ts:31`), although `FileSystemSkillRepository.spec.md:44`
  has it kept.
* A conversion cut off between its version and its save makes a second version when
  retried (`review-proposal.usecase.ts:109`), which is why `Proposals!LifecycleRefined`
  is asserted only while no fault has happened.
* An upload that a reviewer judged while it was open skips validation when it is
  finalized (`submit-proposal.usecase.ts:287`), and may be published automatically,
  although `SubmitProposalUseCase.spec.md:147` has finalizing validate it.
* Start-up: `removeStaleSqliteCutoverLock` may rename away the lock of a live owner that
  took it after the file was read, although `CatalogMigrations.spec.md` has it fail
  closed; on MySQL a killed migration leaves Knex's lock row, so that every start fails
  until it is cleared by hand; a failure between dropping and adding a key in
  `2026082803` loses the key for good, since a retry finds none to restore; a settings
  error found after the migration leaves a process that neither serves nor ends
  (`start().catch` only sets the exit code while MySQL's pool keeps it alive); a restart
  that is cut off leaves an API no PID file names, and a later restart may take its
  answers for those of the server it started; two restarts at once do so without any
  being cut off, when both find the ports free (`restart-server.sh:201`) before either's
  server listens; `restore.sh` ignores a failed stop.
* Sign-in: a person who was known at both issuers before both were configured stays two
  principals, since `project` looks for a counterpart only if a row is missing; a full
  table of failure buckets refuses origins that never failed (`agent-api-auth.ts:230`).
* The skill page: an answer that comes after navigation is shown, polled and stored under
  the other address, although the comment at `AdminSkillPage.tsx:82` keeps an operation
  to the route that loaded it; `refreshSkill` after an await can show one skill's data
  at another's address.
* Readers: listings without tags are paged by the catalog and cut a second time
  (`skill-query.adapter.ts:80`, `:107`), so a second page comes out short or empty;
  a SQLite search restricted to a category or tag builds a statement with
  `MATCH ? WHERE` (`sqlite.search.ts:104`); an artifact stored again leaves the text
  extracted from its predecessor (`extract-skill-file-content.usecase.ts:41`).

Why the bounds are enough. Every property of a single version needs one version; order
among versions (yaml writes, base and successor) needs two. Interference needs two
handlers: a handler reads only stores, so a third adds more stale copies of kinds two
handlers already make, and the safety properties of overlapping commands are also proved
for any number. One content suffices unless the property compares contents
(`VersionsImmutable` and `reading` have two). One fault cuts a command off or loses a
write; the registry has two, so that what one leaves behind meets the next. Two workers,
two records and one fault are what it takes to lose a lease, have the work repeated and
the late holder come back; one slot makes the queue wait while the slot is busy and
while it frees; more keys and phases are covered by the proofs. Two proposals let one
upload be open while another is opened; two versions let a second conversion be made and
collide with the first. Two addresses and two operations let one operation be followed
at each and either move. Two callers and a pool of two connections let one transaction
wait for another's row or slot; no operation uses more than one connection at a time.
Two flows let both issuers, or two callbacks of one login, overlap; with a clock to 2 a
session is used, touched and expires. Two processes are, beside a lock file that a dead
process left, the one that reclaims it and the one that takes it in between, or a server
and the next one; two scripts can start theirs over each other. New catalogs, catalogs of
a former release, more processes and more scripts are covered by the proofs, which are of
the same properties.
One fault leaves a catalog, a lock or a latch in the middle, which the next
attempts meet, and what scripts kill costs none. Two runs of the judge over one slot
make one wait while the other asks, fails or hands on. No run uses a view. Symmetry is
used only where no liveness is checked. Deadlock is checked everywhere: in every
reachable state some request can arrive, a timer can fire or time can pass.

Fairness. `FairSpec` of the registry is weak fairness of the writes a handler still
has to make: it awaits calls that settle, and nothing blocks it. No command is
forced to arrive. `FairSpec` of the operations is weak fairness of the poll timer,
of each run's own steps, and of the clock for leases nobody renews. Heartbeats,
requests, faults and successes of a use case are never assumed. `FairSpec` of the
console is weak fairness of the effects, of the page's polling, of answers, and of the
store's claims and ends (which `EveryOperationEnds` justifies); reloads and failed polls
are bounded by `MaxFaults`. `FairSpec` of the database is weak fairness of each caller's
next step: the event loop and the server let every started call go on. `FairSpec` of the
judgement is weak fairness of each run's own steps: a call to the provider is aborted by
its timeout, and the stores' calls settle. (The adapter of this repository passes the
timeout along, `vercel-ai-sdk.judger.ts:75`; an adapter an operator supplies has to see
to it itself, since `SafeExternalSkillJudger` waits for it without one.) Weak fairness
is enough, because nothing takes the enabling of these steps away again and again.

## 4. Proofs

All theorems hold for every value of the constants that satisfies the named assumptions
(`RegistryAssumption`, `NoVersionAssumption`, `ReadingAssumption`,
`OperationsAssumption`, `ProposalsAssumption`, `NoProposalAssumption`,
`ConsoleAssumption`, `AccessAssumption`, `NoneAssumption`, `JudgementAssumption`,
`AgentAccessAssumption`, `ProcessesAssumption`, `NoTableAssumption`,
`CatalogsAssumption`, `ContentAssumption`, `PoolAssumption`, `WorkloadAssumption`). They
say that bounds are naturals, that configured limits are positive (`config.ts` refuses
others), that the value standing for "none" is no member of the set it is added to, that
a workload consists of operations there are, and of the catalog an upgrade finds that its
records are in order and true.

* `SkillRegistryProofs!TypeCorrect`: `Spec => []TypeOK`. The induction needs
  `TypeInv`, which adds to the types what a stage says about the handler: a handler on
  a version names one, and one that is saving carries a review command or a draft.
* `SkillRegistryProofs!Audited`: if no handler is ever cut off, `Spec =>
  []AuditExplainsStatus`. The invariant on the rows alone is not inductive: a handler
  may save a copy it loaded long ago. The strengthening says it of every copy of the
  aggregate there is, of `yaml`, of `rows` and of what each handler carries; and the set
  of commands that are audited or about to be only grows (`Accounted \subseteq
  Accounted'`). That is the reason the property survives races that reverse statuses.
  The assumption cannot be dropped: a command cut off after its save leaves a status
  without its entry.
* `SkillRegistryProofs!GateHolds`: `Spec => []GateRespected`, also when commands are cut
  off, since the gate leaves its trace before anything carries the status "published".
  `SkillRegistryProofs!IndexAudited`: a document's publication is accounted for, by the
  same growth of `Accounted`, again if no handler is cut off.
* `SkillRegistryProofs!Repaired`, `!Refinement` assume `OneHandler`: commands follow each
  other, as in the run that checks the two properties; overlapping commands overwrite
  each other's copies, and both are false. A command writes a version's files one after
  the other, then the rows, the audit entry and the document, and may be cut off
  anywhere. `Ahead`, which survives that, says that the files are at most one transition
  ahead of what readers are shown, and so is the copy being saved, of which the files
  have what was written. Hence every write shows at most one transition of a version,
  and so does a rebuild that makes several interrupted commands visible: the refinement
  of `SkillLifecycle`. `Tidy`, as long as nothing was cut off since the last complete
  rebuild, says that rows and files agree but for what the command has yet to write, and
  that the index lacks at most the document it is about to write or remove (`Indexing`).
  The transitions commands make are a subset of the table (`Steps`): none leads back to
  draft.
* `SkillRegistryProofs!ShownPublished`: `ShownWasPublished` for any number of readers.
  The invariant says of each reader's version what the registry's invariants say of the
  copy it was taken from; a step of the registry keeps it because `Accounted` grows.
  `SkillRegistryProofs!PackageWhole`: `PackageIsOneVersion`, although commands overlap and
  are cut off. What ties together the files a reader fetches one by one is that every
  copy of the aggregate, in a store or in a handler, has of a version the digest of what
  was stored for it first (`Faithful`), unless the version's artifacts were overwritten;
  artifacts are only ever added (`Kept`), and a reader past its listing has got only what
  the listing has (`Uniform`).
  `SkillRegistryProofs!RefusalCaused`: `RefusedForCause`. `Promised` says of a request
  that was steady so far that the catalog has its version as published and that a
  package's files still to be fetched are among those listed; with `Faithful` each of its
  reads then finds what it looks for. It never gets to the second look into the stored
  aggregate (`find_again`).
* `AsyncOperationsProofs!TypeCorrect`, `!OneActive`, `!LifecycleImplemented`, `!Earnt`:
  types; at most one active record per key, from "an active record carries its key as
  dedupe key, and dedupe keys are unique"; the refinement of `OperationLifecycle`, step
  by step; and completion, from "a run that holds the record in phase p has finished the
  phases before p under this lease", where the lease owner and the stage of the run are
  tied together. `!Scheduling`: a worker's scheduled set, queue and running set agree
  (`Coherent`) and work waits only if every slot is taken (`Busy`). `Poll` and the end
  of a run fill the free slots from the front of the queue in one go; that they take as
  many as there are slots or work is a lemma about the prefix of a sequence without
  repetitions (`PrefixCardinality`).
* `OperationConsoleProofs!TypeCorrect`, `!ReloadLosesNothing`, `!OperationsStay`. The
  last needs `Kept`: what is shown, stored, polled or answered belongs to the address it
  is under, or has strayed, and a target once given to an operation stays.
* `JudgementRunsProofs!TypeCorrect`, `!Exact`, `!Fit`. `QueueInv` says that the queue
  holds whoever waits, once, and `SlotInv` that the slots taken are the calls under way;
  three ways of moving (`GoesLimited`, `AcquireLimited`, `ReleaseLimited`) keep them.
  `Sound` says what a run's stage entails about its content and judgement.
* `ProposalsProofs!TypeCorrect`, `!Converted`, `!Audited`. The proof first sums up
  what a step may do (`Moves`, lemma `NextMoves`, one case per action): only one
  handler moves; the status of its copy comes from its earlier copy, from a store, from a
  judgement or from its own decision; a store takes over that copy or loses it; and a
  decision under way to the audit log stays under way. `CopiesStep` then shows that
  whatever holds of the statuses of all copies, stored or carried, keeps holding if
  decisions respect it. It is used twice: with "converted has a version", for all
  interleavings and interruptions, and with "is audited or about to be", which needs
  that no command has been cut off yet (`faults = 0`, a condition of the property).
* `ProposalsProofs!Quiescent`, `!ReleasesJustified`, `!DecisionsFinal`, `!Refinement`
  assume `OneHandler`: commands follow each other. They are false otherwise, since a
  later save brings back the copy it was made from. The invariant `SoloInv` says of the
  one copy being worked on, stage by stage, how it relates to the stores. `Placed`:
  which command is at which stage. `Firm`: a decision in the catalog is also in
  `proposal.yaml` and in the copy; this one survives interruptions, because the file is
  written before the row. `Cleared`: what automation found out is still so when it
  releases. `Whole`, as long as nothing was cut off: the stores agree but for the
  proposal being written; listed files are stored; the copy about to be saved is due
  (`Due`, the step of the abstract lifecycle it will show); and only a conversion on its
  way has made a version of an undecided proposal. `Due` is what makes the refinement of
  `ProposalLifecycle` go through: the status readers see changes with the row, with the
  first file of a new proposal, or not at all.
* `ServiceControlProofs!TypeCorrect`, `!MigratedBeforeServing`, `!BackedUpAsFound`,
  `!SchemaQuiesced`, `!HealthOfOwnServer`, `!RecordsAreTrue`, `!LockExcludes`. `Inv`
  says what each stage of a process entails. `Owned` and `Latched`: on MySQL the
  advisory lock and Knex's lock row let one process at a time migrate; on SQLite, whose
  lock may be reclaimed from a live owner, nothing of the kind holds, and what saves it
  is that all pending migrations are one transaction. `Sound` and `Progress`: the
  records are a prefix of the order and true, and the statements before the one a
  process is at have taken effect. `Prepared`: whoever is about to change an existing
  catalog has backed it up, or it is changed and was backed up by an earlier attempt, or
  there is nothing left to do; that needs the records that count (`Effective`) to be the
  same before and after the legacy ones are copied. `Tracked` says which processes the
  scripts and the PID file know: beside an old server there is nobody else and no script
  is past the ports (`OldAlone`); and unless one may be loose, one script at a time starts
  an API, it or the PID file knows each there is (`Knows`), and without such a script the
  one there is serves. The steps are split into those that do not touch the catalog
  (`Quiet`) and those that do (`Works`), so that each part of `Inv` is shown where it
  can be disturbed.
* `AccessProofs!TypeCorrect`, `!OneSession`, `!NeverPart`, `!Stays`, `!Admitted`.
  `FlowShape` and `RequestShape` say what a stage entails; `LoginsOK` ties the flow that
  consumed a login to the only session it can open; `Linked` says of a flow about to store
  a subject that what it found is a row of either issuer, and that a row it did not find
  and that is there by now has the derived principal, which is the one it would make;
  `Entitled` says of each request
  under way what its session row and principal were when it began.
* `AccessProofs!AgentTypeCorrect`, `!SessionsBounded`, `!FailuresLimited`,
  `!RefusalEnds`. `AgentShape` adds to the types what a stage says about a request, and that
  nothing was counted in the future. The limit per origin counts finite sets: whoever
  passes the count sees fewer rows than allowed (`PassedIsBelow`), and every row that is
  active is among those the database counts (`LaterIsLater`, for SQLite's text comparison
  as for MySQL's), so a row and a creation each account for at most one (`OneMore`).
  `FailInv` charges an origin's bucket with the requests that are looking a code up,
  which are what may still be counted once the limit is reached; and it says that no
  bucket is older than a window before the last clean-up, which comes at latest when a
  window has passed: so whatever is counted when an origin is refused is of the last two
  windows (`FailedLately`), be it the origin's own or the others' that fill the table.
* `ContentDatabaseProofs!TypeCorrect`, `!ProjectionsWhole`, `!UnitsRefined`. `Waiting`
  and `Holders`: the queue lists whoever waits, once, and whoever runs has a connection
  of its own, so a call ends only its own transaction. `Writing` says of an open
  transaction that what it has written is what its statements so far say (`Pending`);
  a row has the value of the last write before (`LastWriteDecides`), so a statement adds
  exactly its own. Every step therefore leaves the committed rows or applies the unit of
  one caller to them (`CommitTakesEffect`, `AloneTakesEffect`, `ProjectionTakesEffect`),
  although those rows may have changed since its transaction began: a commit changes what
  the transaction wrote and nothing else, and a transaction itself brings along whatever
  the schema asks of its statements (`SelfContained`). From there the two properties go
  separate ways. `UnitKeepsWhole`: every unit of every program leaves projections whole.
  `UnitsStep`: seen without stages, queue and connections, each step is one of
  `AtomicUnits` or none.

Only model-checked: the liveness properties, which are out of the prover's reach
(operations, database calls and judgement runs end; staying on a page shows the end of its
operation; a published version becomes searchable).

## 5. What is not modelled, and the plan

* HTTP routing, validation and serialization: the handlers call the commands modelled.
* Content extraction, duplicate scoring and name suggestion: functions of text.
* What prompts say, and how texts are cut to fit them.
* Observability: a side channel nothing reads back. Its files are written by overlapping,
  unsynchronized calls, so an older snapshot may replace a newer one.
* Of start-up: the details of configuration; restoring a backup and archives that
  overwrite one of the same second; a foreign process with a recorded identifier; a
  MySQL session that loses its advisory lock with its connection while its process goes
  on; a server or CLI started by hand while the old release serves, against the
  instructions, which would change the schema under it; the frontend's process, except for the time it may take to answer.
* Of sign-in: the provider's keys and their refresh, the simple password mode with its
  rate limiter, and clean-up methods nobody calls.
* Of the database: skill files' rows, the rebuild that clears judgements, proposals and
  the audit projection; a ROLLBACK that fails, which `safeRollback` swallows
  (`mysql.connection.ts:196`) so that the connection goes back to the pool, with its
  transaction open unless the server has ended it; two first
  calls that each create a MySQL pool (`mysql.connection.ts:105`); and a schema check that
  failed once and rejects every later call (`mysql-content-db.ts`). Aggregate and catalog
  are two units, so an overlapping save and delete may leave a listing without its
  aggregate; `ProjectionWhole` speaks of the rows below a listing.
* Of the web client: loading and editing a skill's data, and the other pages, which
  replace what they show when the address changes and drop answers that come later.
