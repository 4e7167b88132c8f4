# A TLA+ model of NexusMCP

NexusMCP is a gateway between AI agents and HTTP APIs. Operations imported from
OpenAPI documents are reviewed and published as versioned tools; agents find
them over MCP and call them; every call passes a policy, perhaps a human
approval, an idempotency key and a retry loop, and leaves an execution, its
attempts and an audit trail in PostgreSQL. This directory holds TLA+ modules
that model the parts of the gateway in which time, concurrency and failure
decide whether it is correct, the TLC runs that check them on small instances,
and TLAPS proofs of the safety properties for every instance.

## 1. The system

All paths are below `src/src/nexusmcp/`, except `run.py`.

| Component | State it keeps | Operations | Talks to |
|---|---|---|---|
| `modules/execution` | `tool_executions`, `tool_execution_attempts` | `CallTool`, `ExecutionLifecycle` (plan, start/succeed/fail/cancel an attempt, succeed/fail/cancel), `ExecuteWithRetry`, `HttpxToolExecutor` | approval and audit rows in its own transactions; policy, credentials; the upstream over HTTP |
| `modules/approval` | `approval_requests` | `RequestApproval`, `DecideApproval`, `ConsumeApproval` (through `consume_locked_approval` inside plan) | audit rows |
| `modules/audit` | `audit_events`, append only | append, record a scope denial | written by execution and approval |
| `modules/policy` | rules in memory | `RuleBasedPolicyEvaluator.evaluate` | execution |
| `modules/credentials`, `modules/identity` | configuration | resolve a binding, a secret, a principal | execution, interfaces |
| `modules/catalog`, `modules/connectors` | `tools`, `tool_versions`, `tool_bindings` | submit for review, `PublishTool` | registry rows under lock |
| `modules/openapi_import` | `openapi_import_jobs`, `imported_operations` | `ImportOpenApi`, `ReviewImportedOperation`, `DirectPublishImportedOperation` | catalog and connector rows in one transaction |
| `modules/registry` | `upstream_services` | register, update, disable | locked by import, review and publish |
| `modules/toolsets` | `toolsets` with members, grants and a revision | create, update, replace members/grants, activate, disable, ensure the default set; resolve access per request | catalog, interfaces |
| `modules/tool_search` | `tool_search_reindex_jobs`, embeddings | create/run/recover reindex jobs, hybrid search | catalog, embedding service |
| `modules/control_plane`, `infrastructure/persistence/admin_queries.py` | none | read models, demo reset | every table |
| `infrastructure/networking` | configuration | accept or refuse an endpoint and what it resolves to | registry, execution |
| `interfaces/*`, `bootstrap` | none | MCP server (list, search, call), admin API, CLI, wiring, start-up recovery | the use cases |
| `run.py` | the processes it started, whether it started PostgreSQL | start, watch and stop the local backend | docker, alembic, uvicorn |

What is hard in it:

* **Interleaving.** The gateway is asyncio code over PostgreSQL at READ
  COMMITTED, in one or several processes. A call crosses several short
  transactions with network awaits between them; what protects it are row locks
  (`SELECT ... FOR UPDATE`), unique indexes, and status checks under the lock.
* **Failure.** The upstream may time out, reset the connection or answer after
  the gateway gave up; the client may cancel the request at every await; the
  database may fail; the process may die between two transactions.
* **Staleness.** Clock values, policy versions, idempotency lookups and ORM
  rows read early are used after a wait.

`PROJECT.json` lists these hazards one by one, at the line where they bite,
with the properties that would catch them.

What makes the components correct: an approval is single-use and good only for
the call it was given for; one idempotency key stands for one intent; a write
that may not be repeated is not repeated; nothing leaves the gateway off the
record; statuses, attempts and audit events agree and never change once
terminal; a tool has one published version, the newest, with a published
binding on an upstream that was active; versions are numbered without
collision; jobs of any kind end; what a client is told of was its to see and
can be called; an answer put together from several statements does not
contradict itself; what is started is stopped.

## 2. Plan

Order of work, most important behaviour first:

1. **ToolCall** (done): the governed call path with approvals, idempotency,
   retries and faults; **Governance** (done): what it promises, and the
   refinement; the safety invariants proved.
2. **CatalogPublish** (done): review, submission, publication and direct
   publication as multi-statement transactions with row locks and the
   database's deadlock detection; upstreams being disabled meanwhile.
3. **ReindexJobs** (done): create, claim and run reindex jobs, the command line
   beside them, crash and start-up recovery.
4. **ToolsetAdmin** (done): revisioned aggregates under concurrent
   administration, the system toolset made at every start, and the access a
   request resolves from them.
5. **OpenApiImports** (done), with **OpenApiParser** and **EgressPolicy**: the
   import's chain of short transactions with crashes, what the parser makes of a
   document, and the registration and update of upstreams beside it.
6. **ReadPaths** (done), which composes **Discovery** (with **AccessRules**) and
   **AdminQueries** over **ReadStore**: everything the gateway answers from
   several statements while others write.
7. **LocalBackend** (done): the launcher, the processes it starts and the
   container they share.
8. Proofs (done): ToolCall and its refinement of Governance, CatalogPublish,
   ReindexJobs, ToolsetAdmin, LocalBackend, OpenApiImports and ReadPaths. Every
   safety property of a passing run is a theorem; liveness is left to TLC.

Each component has one run, the governed call three (approvals, keys and
retries, liveness), and a run for each disagreement with the documents; a new
question joins the run whose instance already reaches it.

## 3. Modules

### ExecutionDomain

The vocabulary of `execution/domain.py`: side effects, statuses, error
categories, and the pure decisions `retry_disposition`, the terminal status an
outcome leads to, and what `ExecuteWithRetry` raises when it gives up.

### ToolCall

The path of `tools/call` from `CallTool.execute` to the reply.

* *State.* A call is an asyncio task: `pc` is the await it is suspended at,
  `request` its command with the tool and policy decision it resolved,
  `presented` the approval id it carries, `now` the clock value it read, and
  `outcome` what the executor raised or returned; `reply` is what the client
  saw. `executions`, `attempts`, `approvals` and `audits` are the committed
  rows; a call is the identity of the one execution it may plan and of the one
  approval it may request, and audit events are counted per call and outcome.
  `wire` is what became of each HTTP request at the upstream, which the gateway
  cannot see, and `time` is the wall clock.
* *Actions.* One per transaction or await: `ReceiveCall`/`RefuseCall` (checks
  without writes), `RecordDenial`, `RequestApproval`, `Prepare`, the unlocked
  `LookupKey`, then the second half of `plan` (`Plan`, or `ApprovalRefused`,
  `ApprovalExpires`, `PlanRace`), `ResolveSecret`, `StartAttempt`, `Send` or
  `NotSent`, `Answered` or `NotAnswered`, `AttemptRetried` or `AttemptEnded`,
  `Resume` after the back-off, `Finish`. Approvers take `Decide` or
  `DecideTooLate`; the upstream takes `UpstreamHandles`, also long after its
  caller gave up.
* *Granularity.* `plan` is cut between its unlocked lookup and the locked part,
  because another call can commit there. Under a row lock held to the commit
  nothing another transaction does can be seen or disturbed, and the insert
  that may hit the unique index is the last wait before the commit, so that
  part is one step.
* *Faults.* `CancelOutside` and `CancelExecutor` are a cancellation at the
  awaits outside and inside the executor, `DatabaseFailsOutside` and
  `InterruptRetryLoop` a failing or cancelled transaction; `Crash` ends the task
  where it is. A commit that fails may have happened: outside the retry loop the
  two faults above leave the database as it was, and the actions that commit
  (`RecordDenial`, `RequestApproval`, `ApprovalExpires`, `Plan`, `Finish`) may
  end with a client that is told of the fault instead (`AnswerCommitted`,
  `GoOnPlanned`).

Left out of it: what a request contains (arguments are a digest), the mapping
to HTTP (it is accepted or refused), toolset scope (a refused call), telemetry.

### Governance and ToolCallRefinement

Governance is the promise without tasks, clocks, transactions, attempts or a
network: tokens are asked for, granted or closed, and spent by the admission of
one intent in one step with it; intents are admitted once and settled once.
ToolCallRefinement maps approval rows to tokens and execution rows to intents;
`ImplementsGovernance` is Governance's specification under that mapping.

### CatalogPublish

`ReviewImportedOperation`, `PublishTool` (with `SubmitToolVersionForReview`)
and `DirectPublishImportedOperation`, each one transaction of an
administrator's session, and `DisableUpstream` beside them.

* *State.* `tools`, `versions`, `bindings`, `accepted` and `upstreams` are the
  committed rows, `lock` the holder of each row; per transaction `pc` names the
  statement that comes next, `cmd` the command, and `number`, `fresh` and
  `current` are its local variables.
* *Actions.* One per `SELECT ... FOR UPDATE`, which waits for the holder; one per
  unlocked read (the highest version number, the tool's published version),
  which sees what is committed at that moment; one for the commit. A command
  writes only rows it has locked or inserted, so its writes appear with its
  commit. The session re-reads a row it locks, because its identity map keeps
  no row that nothing refers to. A deadlock is broken by the database, which
  aborts one transaction of the cycle; with `Faults`, any transaction may be
  aborted anywhere.

### ReindexJobs

`CreateReindexJob`, `RunReindexJob`, `ReindexTools`, `RecoverReindexJobs`, the
`reindex-tools` command, and the demo reset.

* *State.* `catalog` and `index` say which versions are published and which
  have a current embedding; `jobs` are the job rows; `up` whether the web
  process runs; `run` where each job's background task and each command-line
  run is, with its local variables; `lock` the embedding rows an upsert holds.
  `covered` is history: what a succeeded job had listed.
* *Actions.* One per transaction (claim, list, load, succeed, fail) or provider
  call (embed). An upsert takes its rows one after another and holds them until
  it commits, so two upserts can wait for each other. `Crash` ends every task
  of the web process and `Start` recovers the rows they leave; `Sorted` and
  `Filtered` say what the sort of the documents and the choice of the pending
  ones return (one list each) rather than how they are computed, which is what
  the proofs need of them; the deployment
  documents one web process (`docs/架构/04`, lines 407-412). `Reset` truncates
  the tables and so waits for whoever holds a row.

### ToolsetAdmin

`CreateToolset`, `GetToolset` and the five commands that change a toolset,
`EnsureAllPublishedToolset`, `ResolveToolsetAccess`, and the demo reset.

* *State.* `toolsets` are the committed aggregates (row, members and grants),
  `catalog` what the catalog says of each tool. A client is a task that loads
  toolsets in one of four roles: an administrator who looks and then sends a
  command, a starting process, a request to a scoped endpoint, a request to the
  root. `seen` is what it has read so far and `reply` what it was told. `offers`
  is history: what the toolsets it uses offered while it read them.
* *Actions.* A load is three statements at READ COMMITTED (`ReadRows`,
  `ReadMembers`, `ReadGrants`), between which others commit; the row carries the
  digest of its members, and `WellFormed` is the comparison that
  `Toolset.__post_init__` makes. A command holds the row's lock from its first
  statement to its commit, so it is one step. `Look`, `Insert` or
  `InsertConflicts`, `Reread` and `SaveGrants` are the statements of
  `EnsureAllPublishedToolset`, which locks nothing before `save`. `Reset` waits
  for every open transaction, as TRUNCATE does.
* *Abstractions.* Unseen administrators send commands at any time with the
  current revision; one with an old revision is refused and changes nothing. An
  id nobody remembers stands for a new one. The profile of a toolset is its
  discovery mode.

### OpenApiParser, EgressPolicy, OpenApiImports

`ImportOpenApi` with `OpenApiParser.parse`, `GetOpenApiImport`,
`RegisterUpstream`, `UpdateUpstream`, `DisableUpstream`, and the demo reset.

* *OpenApiParser.* A document is its operations in order and the components that
  local references lead to. The allowlist, the resolution of references, the
  merge of parameters, the names of arguments, and the conflicts between
  operations are operators over it: references by the levels that nodes and
  references may still nest in (`resolve_node`), the dict of `merge_parameters` by
  the place a key keeps and the value it gets last, argument names by the ones already taken. Names are words rather
  than characters, and schemas are nodes: how deep they nest, and the references
  in them with the depth of each. `NestsWithin` says what the limit means without
  following the references as the parser does.
* *EgressPolicy.* A host and a set of addresses are accepted or not; an address
  is the first of the classes the policy asks for; a literal loopback address is
  one of the demonstration hosts or another.
* *State.* `upstream`, `job` and `operations` are committed rows; `import`,
  `edit` and `reader` are the handlers at work on them.
* *Actions.* One per transaction of the import (`InsertJob`, parsing, completion,
  failure) and of an edit, which looks at the upstream in one, asks the policy
  (and with it DNS) in none, and writes in another; one per statement of the
  reader. With `Faults` a handler dies anywhere, and a transaction fails before
  or after its commit took effect.

### AccessRules, ReadStore, Discovery, AdminQueries, ReadPaths

What the gateway answers from its store.

* *AccessRules.* Authentication of a bearer, the rule that a policy selects
  (specificity, priority, precedence of effects), visibility, and the selection
  of a credential binding, as operators.
* *ReadStore.* The tables that readers see, and every transaction that changes
  them as the one step a reader may notice: publications, index batches, edits
  of the toolset, the upstream and the grants, decisions, rows written, the
  reset. `watch` is history: what held throughout a request and what held at
  some moment of it.
* *Discovery.* An MCP request from authentication to its answer: the access it
  resolves, `tools/list`, the lexical and hybrid search with overfetching and
  reciprocal rank fusion, the search laboratory of the control plane, and
  `tools/call` up to the plan, with the approval that it asks the client for.
  Each statement is a step and a snapshot of its own; the two searches of the
  hybrid mode interleave, as `asyncio.gather` lets them.
* *AdminQueries.* The paged lists with order, filters and parents, the details,
  the dashboard, the summary and the inspection of the search index. A walk asks
  for page after page by offset.
* *ReadPaths* composes them. Readers do not see each other, so a behaviour has
  one client, an agent or an administrator.
* *Approvals.* An approval is of a principal and a version, which the plan
  compares (`_require_matching_call`); the decision that a response makes goes by
  the sealed state that comes with it, and what the seal binds is the MCP
  library's (`Sealed`, external). `DeclinedNeverPlanned` is therefore about a
  caller's own approval, and the instance has a second agent that declines.
* *Abstractions.* The expiry of approvals and the claim on a key are ToolCall's;
  scores are constant orders (`LexicalOrder`, `VectorOrder`); what a row shows
  is its status and whether a filter takes it.

### LocalBackend

`run.py`, the lifespan of the application and the container.

* *State.* Per supervisor its place in `run` and `shutdown`, the two flags of
  `BackendSupervisor` and what it met; per API its process group (with
  `--reload` a leader and a worker) and the signal it was sent; the container
  and the holder of the port.
* *Actions.* One per command, probe or wait. A wait ends by what it waits for or
  by its limit, and with `Faults` every command may fail. The lifespan runs
  before uvicorn binds (its reloader apart). uvicorn, docker and the operating system are modelled
  from how `run.py` uses them.
* *Left out.* A reload after a change of the sources, and the signal that a
  terminal sends to the commands in the foreground, which is one more failure.
* *Reload.* uvicorn's reloader binds the port before it has a worker and ends
  when another API listens there (`ReloaderBinds`); it does not listen itself, so
  a second launcher's port check, which connects, does not see it before its
  worker serves (`Bind`).

### Proof modules

`ToolCallProofs` (types, what each action leaves alone, approvals, keys, audit and
the retry loop) and `ToolCallTheorems` (the theorems and the refinement);
`CatalogPublishProofs`, `ReindexJobsProofs`, `ToolsetAdminProofs`,
`LocalBackendProofs`, `OpenApiImportsProofs` and `ReadPathsProofs`, each with the
lemmas and the theorems of its component. The inductive invariant of a component
is the last section of its module.

A decision that the code makes with a chain of conditions is `IF ... ELSE IF`
wherever two of the conditions may hold at once (`ScopedOutcome`,
`Unconsumable`): a `CASE` whose guards overlap has no value that a proof could
rely on. What a sort returns is a set of sequences (`ListNames`, `fuse`), of which
there is one when the order is total.

## 4. Runs

| Run | Checks | Instance |
|---|---|---|
| `governance` | `ApprovalSpentOnce`, `RanAsApproved`, `AuditMatchesState`, `ImplementsGovernance` | 3 calls without a key under 2 policy versions, 1 attempt, clock 0..2, cancellation |
| `calls` | `TypeOK`, `OneIntentPerKey`, `CompletedIsTrue`, `AttemptsTellTruth` (`RunningIsInterrupted`, `SentOnlyOnRecord`, `UnknownIsKept`, `SucceededIsReal`, `OpenAttemptIsLast`), `NoBlindResend`, `TerminalIsFinal` | 2 calls with one key and 2 digests, or a write that may not be repeated, 2 attempts, every fault |
| `answered` | `EveryCallAnswered`, `EveryExecutionSettles` (liveness) | 2 calls, 2 attempts, every fault |
| `publication` | `TypeOK`, `OfferIsSound` (`PublicationConsistent`, `PublishedIsNewest`), `LockingIsSound` (`OneOrderPerKind`, `LocksSuffice`), `HistoryIsSound` (`PublishedWhileActive`, `VersionsMoveForward`), `EveryCommandEnds` (liveness) | 2 sessions, 3 operations on 2 upstreams, faults |
| `reindex` | `TypeOK`, `SuccessIsTrue` (`SummaryAddsUp`, `SucceededIsIndexed`), `NoJobIsStuck` (`UpsertsDoNotDeadlock`, `ActiveHasTask`), `EndedStaysEnded`, `JobsEnd` (liveness) | 1 job and 1 command-line run, 3 versions, batch sizes 2 and 3 with a limit of 2, faults and crashes |
| `toolsets` | `TypeOK`, `ToolsetsAreSound` (`OneSystemToolset`, `ActiveIsAvailable`), `AccessWasOffered`, `EditsAreKept` (`NoLostUpdate`, `EnsureAppends`) | 1 client of any role beside unseen administrators, 2 toolsets, 2 tools, 6 revisions, the reset |
| `imports` | `TypeOK`, `ImportsTellTruth` (`CompletedIsWhole`, `OpenHasHandler`, `AnswerAgrees`, `ReaderSeesWhole`), `AcceptedIsSafe` (`ConflictFreeNamesUnique`, `ArgumentsApart`, `ReferencesEnd`, `EgressDenies`), `NothingComesBack` (`EndedIsFinal`, `DisabledStays`), `ImportsEnd` (liveness) | 1 import of 6 documents and 2 allowlists, 2 administrators over 2 upstreams of one name, 6 endpoints, faults and the reset |
| `reads` | `TypeOK`, `AnswersAreSound` (`NamedWasVisible`, `AnswerNamesToolOnce`, `ShortAnswerIsWhole`, `HybridFailsOnlyInRace`), `CallsAreGoverned` (`NamedIsCallable`, `DenialStands`, `PlannedIsAllowed`, `PlannedWasOnOffer`, `CredentialUnambiguous`, `DeclinedNeverPlanned`), `QueriesAreSound` (`WalkMissesNothing`, `PageKeepsPromise`, `ReportsAddUp`) | 2 requests or 1 walk or report, 2 transactions between their statements, 2 tools with 2 versions, 3 rows, 2 stores, 3 compositions of the process, 2 agents |
| `backend` | `TypeOK`, `EndsClean` (`EndedLeavesNoProcess`, `LeftRunningIsAccounted`), `StopsOnlyItsOwn` (`StopFollowsOwnApi`, `FoundRunningIsLeft`), `StopsWhenAsked`, `StrangersAnswerSettles` (the last two liveness) | 2 supervisors on one port with 3 pairs of command lines, every failure |
| `failed_effect` | `FailedHadNoEffect`: violated | a write recorded failed whose effect happened |
| `stale_clock` | `ConsumedInTime`: violated | an approval consumed after its expiry |
| `starts` | `StartsConverge`: violated | 2 processes starting against an existing system toolset |

Names in parentheses are the parts of an invariant that is a conjunction. Every
property has a mutant in `PROJECT.json`, a plausible slip in the code under which
the same run reports it; for a conjunction that mutant breaks one of the parts. (For
`AcceptedIsSafe` it is the depth limit; `AddressAccepted_HostFirst` in EgressPolicy
breaks `EgressDenies` in the same way.)

*Why the bounds are enough.* Three calls are what a race for an approval needs
(the one that asked, and two that present it); the race for a key needs two;
the retry loop concerns one call, and two attempts contain a first one that is
followed and a last one that is not. An approval lives for one unit of a clock
that runs to two, so it can be decided, presented and consumed before, at and after its expiry. Every
passing run is over finitely many states without a state constraint:
`MaxAttempts` and `MaxTime` are guards in the specification, as is
`MaxRevisions` in ToolsetAdmin. Publication needs two sessions to race; the
operations of one tool
come from two upstreams of one namespace, so that the lock on the upstream does
not stand in for the lock on the tool. Three versions and a batch of two give a
reindex a full and a partial batch. A load meets every other commit as a
command of an unseen administrator, so one client that takes every role is
enough; six revisions leave room for a toolset to be created, filled, granted
and activated while it is read, beside another. An import meets no other import
(each writes its own rows), so `imports` has one job and every document, with a
bound `MaxRefDepth = 4` on the nesting of nodes and references: one document nests
as deep as that, one a level deeper, one goes round in a circle. In `reads`
`MaxRequests = 2` lets a client act on what it was just told, `MaxWrites = 2` lets
two transactions fall between statements of one request, and
`OverfetchFactor = 2` with `MaxFetch = 2` makes the cap on candidates bite for one
limit and not for another; three rows in pages of one and two, two of them of one
moment, need the tie-breaker of the order. `reads` says `CHECK_DEADLOCK FALSE`
because its bounded client stops. Two supervisors are what a race for the port
or the container needs. `AllAnswered` is the self-loop of a system in which every
call was answered, so a deadlock anywhere else would be reported.

*Fairness.* `FairSpec` assumes weak fairness of `TaskStep(c)`, one call's own
steps: the event loop runs a task that can run, and every await ends (the HTTP
client has a timeout, the database connection answers or breaks). It assumes
nothing about clients, approvers, the upstream, the clock or faults.
`EveryExecutionSettles` says that a planned execution reaches a terminal status
unless its handler was interrupted: its call ended cancelled, with a database
error or without an answer, which may leave the row running for ever, since the
code has nothing that recovers it. `RunningIsInterrupted` is the same at every
moment: whoever was told anything else finds it in the row. `ImportsEnd` counts
an import whose handler was lost as ended in the same sense, and
`OpenHasHandler` says that nothing else leaves one open.
In `CatalogPublish` it is strong fairness of one transaction's steps: the
database serves the waiters of a row in turn, so one that can get its lock again
and again gets it, and the deadlock detector acts. In `ReindexJobs` it is weak
fairness of each task's steps (the provider's client has a timeout) and of
`Start`: a crashed web process is started again. In `OpenApiImports` it is weak
fairness of each handler's own steps. In `LocalBackend` it is weak fairness of each
supervisor's steps and of those of its API that depend on nobody: the operating
system runs processes, commands come to an end and every wait has a limit. That
an API ends after SIGTERM is not assumed, since its clients may keep their
connections, nor that the container becomes healthy.

*What some properties leave open.* `NamedIsCallable` excepts a tool whose upstream
is disabled, which lists and searches name all the same (see below);
that it is not planned is `PlannedWasOnOffer`. `StopsOnlyItsOwn` is about a
launcher and its own API: one that brought PostgreSQL up stops it at its end
although another launcher's API may be using it, as `run.py` does, which knows of no
other launcher; `FoundRunningIsLeft` relates that stop to the state in which the
launcher found the container, through everything that others did to it meanwhile.
`OneOrderPerKind` excepts direct publications, which can deadlock each other, and
publications of a version under another tool's name.

### What the violated runs show

* `failed_effect`: a lost connection, a 5xx or an unreadable 2xx of a write is
  recorded as `failed`, while the documents reserve `failed` for writes known
  not to have happened and call the others `unknown`.
* `stale_clock`: `ExecutionLifecycle.plan` compares the approval's expiry with
  a clock it read before waiting for the row lock; `DecideApproval` reads its
  clock under the lock.
* `starts`: `EnsureAllPublishedToolset` reads the system toolset without a lock
  and merges its grants. Of two processes that start together with a new grant
  the second to save gets `ToolsetRevisionConflict`, which nothing catches, and
  does not start; the document says that instances converge by reading again
  and merging. The retry exists for the insert only.

### What the documents say of discovery and the code does not do

Two sentences of the documents are about what a client may discover. No run
expects a violation of them, because other documents ask for less; the code
breaks both as they stand, and nothing in `reads` should be read as saying
otherwise.

* *A disabled upstream.* `docs/架构/01` (line 513, core invariant 13) says that a
  tool that is disabled, or whose upstream is, is neither discoverable nor
  callable. `_published_statement` (`sqlalchemy_repository.py`, lines 217-234) and
  both searches select by tool, version and binding and do not join the upstream,
  and `DisableUpstream` changes none of those rows, so the tools of a disabled
  upstream stay in lists and searches. `docs/项目规划/04` (line 148) asks only that
  they cannot be called and leaves discovery caches to the application, and `docs/迭代记录/03` (line
  291) leaves the health of an upstream to the resolver. The half about calls
  is checked and proved (`PlannedWasOnOffer`).
* *The policy in lists.* `docs/架构/01` (lines 309 and 467) and `docs/adr/0002` (line
  13) have `tools/list` filtered by visibility and policy. `ListVisibleTools`
  (`catalog/use_cases.py`, lines 22-24) filters by visibility only, and so does a
  scoped list. `docs/实验记录/16` (line 94) accepts that: a user sees a tool in
  `tools/list` whose call is denied, and the list does not stand in for the policy of
  the call. Searches evaluate the policy (`NamedWasVisible`), and so does every call
  (`PlannedIsAllowed`).

`ReadPaths` states the two sentences as `DisabledIsNotDiscoverable` and
`ListIsPolicyFiltered`. With either as the invariant of `reads.cfg` TLC reports the
trace within seconds: an upstream is disabled, or a rule denies, and a list
names the tool.

## 5. Proofs

Every theorem holds for every value of the constants; no set of calls, jobs,
clients or processes has a size in them. Each component has an invariant `IInv`
with `Init => IInv`, `IInv /\ [Next]_vars => IInv'`, and the properties as
consequences; an action property follows from `IInv` and the step. Each `IInv`
was checked by TLC before it was proved, as an invariant of the component's own
instance (governance 1,539,760 distinct states, calls 3,036,375, answered 254,479,
publication 187,762, reindex 396,291, toolsets 768,524, backend 428,701, imports
602,780, reads 1,612,195).

| Module | Theorems | Properties of runs they state |
|---|---|---|
| `ToolCallTheorems` | `Invariance`, `TypeCorrect`, `SpentOnce`, `ApprovedOnly`, `KeyOnce`, `OnRecord`, `NeverResent`, `UnknownKept`, `AuditTrail`, `SuccessIsReal`, `OpenIsLast`, `RowsAreTrue`, `CompletedReply`, `FinalStaysFinal`, `GovernanceImplemented` | every property of `governance` and `calls` |
| `CatalogPublishProofs` | `CatalogInvariance`, `CatalogTypeCorrect`, `CatalogOffer`, `CatalogLocking`, `CatalogHistory` | `TypeOK`, `OfferIsSound`, `LockingIsSound`, `HistoryIsSound` |
| `ReindexJobsProofs` | `ReindexInvariance`, `ReindexTypeCorrect`, `ReindexSuccess`, `ReindexNotStuck`, `ReindexEnded` | `TypeOK`, `SuccessIsTrue`, `NoJobIsStuck`, `EndedStaysEnded` |
| `ToolsetAdminProofs` | `ToolsetInvariance`, `ToolsetTypeCorrect`, `ToolsetSoundness`, `ToolsetAccess`, `ToolsetEdits` | `TypeOK`, `ToolsetsAreSound`, `AccessWasOffered`, `EditsAreKept` |
| `OpenApiImportsProofs` | `ImportsInvariant`, `ImportsTyped`, `ImportsAreTruthful`, `AcceptedStaysSafe`, `EndedStaysEnded` | `TypeOK`, `ImportsTellTruth`, `AcceptedIsSafe`, `NothingComesBack` |
| `ReadPathsProofs` | `IInvInvariant`, `TypeInvariant`, `AnswersInvariant`, `CallsInvariant`, `QueriesInvariant` | `TypeOK`, `AnswersAreSound`, `CallsAreGoverned`, `QueriesAreSound` |
| `LocalBackendProofs` | `BackendInvariance`, `BackendTypeCorrect`, `BackendEndsClean`, `BackendStopsOnlyItsOwn` | `TypeOK`, `EndsClean`, `StopsOnlyItsOwn` |

### ToolCall and Governance

The assumptions are that `None` is not a call, that requests are records over
the vocabulary, that there is at least one attempt, and that faults are among
the three modelled. None of the properties is inductive by itself. The
strengthening says

* `OwnerInv`: a task before its plan has no execution, one after it has a
  running one, so no other task settles it;
* `ApprovalInv`, `DecisionInv`: approval rows belong to ended calls, a call on
  its way to the plan carries the id of an existing row whenever the policy
  asks for one, and decision events follow the row's status: this is what
  carries a human's decision from `Decide` to `Plan`;
* `PlanInv`: the unique index, and that nothing denied was planned;
* `AttemptInv`: rows are numbered without gaps, a request is under way only on
  an open last row, everything before it was closed without success;
* `OutcomeInv`: what the loop hands to `_finish` is what the last attempt shows;
* `ReplyInv`: a call that goes on has no answer yet, and a row that stays running
  belongs to a call that heard nothing, or of a fault;
* `SingleShotInv`: a write that may not be repeated has at most one attempt,
  and an attempt of it that ended unknown makes the execution unknown.

Each action's effect on each part is a lemma (`PlanStep`, `OwnerStep`,
`AttemptStep`, ...), and `IInvStep` combines them. `GovernanceImplemented` is the
refinement: `IInv` says which rows an action can meet, so that `Plan` is the
admission of an intent together with the spending of its token, a decision is a
grant or a closing, the writers of terminal statuses settle, and every other
step changes neither tokens nor intents.

### CatalogPublish

The assumptions are on the shape of the constants, and that there are finitely
many operations (`OpsAssumption`), without which the highest number in use would
mean nothing. The point of the proof is `LockInv`: the rows a transaction holds
are a function of the statement it has come to. Everything it has read stays
true because of a row that it holds (`OperationInv`, `UpstreamInv`, `NumberInv`,
`TargetInv`, `CurrentInv`): whoever could falsify it would hold that row too.
That gives `OfferIsSound` and `LocksSuffice`; that commands of one kind do not
deadlock follows from the same function: a publication that has its tool can wait
for its upstream only, and whoever has that waits for nobody (`PublicationEnds`);
reviews take operation, upstream and tool in this order (`ReviewsEnd`).

### ReindexJobs

The assumptions are that runners and jobs are apart from each other and from
`None`, and the limits that the code checks on batch sizes. `TaskInv` says that a
task at work finds its row as it left it or gone, which makes an ended row final
and a lost one impossible; `LocalInv` counts: embedded and still to be embedded
are what was pending, in full batches but for the last; `JobInv` says that a
version that was listed is in the index or still to come, unless the reset took
the row as well. Cardinalities enter because the counts are lengths of lists
without repetitions (`IncreasingCounts`, `SortedIs`, `FilteredIs`). Upserts do
not deadlock because a runner that waits comes to an earlier version than the
one it waits for (`WaitsInOrder`), so the runner at the last version waited for
waits for nobody (`NoCircle`, by the well-foundedness of the naturals).

### ToolsetAdmin

The assumptions say which constants are sets of which. `KeepInv` carries the
weight: what a client has read of an aggregate is what
there is for as long as the revision is the same, although it was read in three
statements, because every change counts the revision up and no id is used again
while somebody remembers it. The revision check of a command therefore compares
all that its administrator was shown. `WholeInv` and `OfferInv` say that a row
whose digest fits its members was on offer with those members, at a moment of
the request.

### OpenApiImports

The assumptions are that a document lists finitely many operations with two lists
of parameters each, and that references stand within the nodes they are in
(`ContentAssumption`), that the limit on nesting is a number (`DepthAssumption`),
that allowed hosts are hosts (`EgressAssumption`) and that a request is for one of the endpoints
(`ImportAssumption`). The truth of a job's row rests on
`RowFollowsHandler`: what the row may be is a function of how far the handler is,
with two exceptions, the reset and a transaction whose commit was not confirmed
(`unsure`), after which `FailJob` may meet a completed row and must leave it.
`JobHasDocument` says that what is completed parses, `ReaderIsCurrent` carries what
a reader saw in its first statement to the second, and `IdReserved` keeps the ids
of registrations apart while they ask the policy outside any transaction.
`AcceptedIsSafe` is about what the parser's operators compute. Recursion enters
twice, as recursive functions whose existence is shown first (`LevelsExist`,
`NamesExist`). That references end within the limit is shown by giving each the least number of
levels with which it resolves (`ResolvedNests`, by the least of a set of naturals). That no two
parameters share an argument is shown for the operations that the property speaks
of, whose names do not already look like prefixed ones (`Plain`): a name that is
taken gets its location as a prefix, and a prefix and what it comes before can be
told from the two together (`PrefixedApart`, `ArgumentsInjective`). That an
operation without a conflict shares its name with no other is a count that the
parser makes (`ParsedNames`).

### ReadPaths

The assumptions are on shapes and finiteness (`VersionsAssumption`,
`TablesAssumption`, `RequestsAssumption`, `CompositionsAssumption`,
`QueriesAssumption`, `RowsAssumption`, `StoresAssumption`: to begin with a tool has one published
version at most, which is CatalogPublish's theorem), and that a search ranks no
version twice and that every embedding is at some distance (`OrderAssumption`).
There is no bound on transactions, requests or pages other than the constants.

* *What a request can rely on.* `WatchFine`: what has held since the request began
  holds now, and what holds now has once held; when nothing was written since, the
  three coincide. Every transaction keeps it (`CommittedKeeps`, `ResetKeeps`).
* *Searches.* `SearchFine`: what a search has found lies between `Steady`, what
  was on offer throughout, and `Offered`, what once was, whichever order its
  statements run in and whatever commits between them. A statement that returned
  fewer than its limit returned all there is of `Steady`; if the fusion is short,
  so were both rankings, because they have no repetitions and the fusion has their
  union (`InjectiveCounts`, `FuseFine`). The count of the vector search bounds
  what its second statement finds, unless a transaction came between
  (`ReadCandidatesSound`). `Only`, the filter of a list, is a recursive function;
  what it returns (`OnlyKeeps`) is shown with the least place at which it would go
  wrong.
* *Calls.* `CallFine`: the effect that a call carries to its plan is the one the
  rules give it, and an approval is always of a call that the rules ask one for;
  what it carries to its plan was published, in scope and on an active upstream
  when it was resolved (`OnOffer`).
  Rules do not change while a process runs, so a declined call that is resumed
  still needs the approval that was rejected (`DeclinedNotPlanned`). A rule that
  nothing outdoes is a finalist (`UndoneIsFinalist`), and the strictest finalist
  decides (`Strictest`, `RuleBased`).
* *What was just told.* `LastFine`: as long as nothing is written, the last list
  or search still describes the tables. `DeniesNamed` is the one place where an
  answer is decided a step before it is given.
* *Walks.* `WalkFine`: a row that was there when the walk began and has not been
  shown has at least as many rows before it as the pages so far have places.
  Inserts only add rows before it, and a total order leaves no room for a
  row on neither side (`BeforeOneWay`, `AheadCounted`).
* *Reports.* `ReportFine` equates the counts with the tables when no transaction
  came between; the percentage needs the division to be within its bounds
  (`Percentage`).

`AnswersAreSound` and `CallsAreGoverned` speak of the moment of the answer only;
they are shown on every step into it and no step but the client's own leaves it.

### LocalBackend

The assumptions are that `NoOne` is no supervisor and that command lines are
records of the four switches (`ArgumentsAssumption`). `StartedInv`, `WorkerInv`
and `OrderInv` follow the processes through start and shutdown; `ContainerInv`
says that a container that was brought up and runs is still the business of a
supervisor, or is one that may be left: `LeftRunningIsAccounted` alone speaks of
the end only and is not inductive.

### Only model-checked

* The liveness properties (`EveryCallAnswered`, `EveryExecutionSettles`,
  `EveryCommandEnds`, `JobsEnd`, `ImportsEnd`, `StopsWhenAsked`,
  `StrangersAnswerSettles`): the prover knows neither fairness nor `ENABLED`.
* That the mutants break their properties, and the three violated runs, which need
  no more than one instance each.

## 6. Not modelled

The components listed as `not_modelled` in `PROJECT.json`, with the reason
there: telemetry and logs, schema scripts, the web front end and demonstration
material. Of the components that are `partly` modelled, what is left out has no
state of its own: request and response models, routing, rendering of errors,
configuration and wiring, the sessions of the MCP transport. The in-memory
adapters that tests use in place of PostgreSQL are not modelled either, with the
exception of the policy and credential stores, which are the ones in use.

Two hazards have no property, with the reason in `PROJECT.json`: a second web
process that recovers the first one's jobs, which the documents rule out, and a
scoped request whose status and grants are of different moments, which they
allow.
