---------------------------- MODULE ReindexJobs ----------------------------
(***************************************************************************)
(* How published tools get their search embeddings: reindex jobs, created  *)
(* over the admin API and run as a background task of the one web process, *)
(* the reindex-tools command line, which does the same work in a process   *)
(* of its own, the web process crashing and recovering at its next start,  *)
(* and the demo reset that empties the database under all of them.         *)
(*                                                                         *)
(* A step is one database transaction or one call of the embedding         *)
(* provider, except that an upsert takes the rows of its batch one by one: *)
(* it holds each until it commits, and waits for the ones another upsert   *)
(* holds.                                                                  *)
(*                                                                         *)
(* A published version is immutable, so the document built from it and its *)
(* digest are too.  An embedding that is missing and one that an older     *)
(* release of the document builder made are both to be embedded; the model *)
(* has the set of those that are current.  Versions are numbered in the    *)
(* order of the canonical names of their tools.                            *)
(***************************************************************************)
EXTENDS Integers, FiniteSets, Sequences, SequencesExt

CONSTANTS
    Jobs,            \* ids for the jobs
    Clis,            \* runs of reindex-tools
    NumVersions,     \* bound: tool versions
    NewVersions,     \* those that are not published yet
    BatchSizes,      \* the batch sizes asked for
    MaxBatchSize,    \* settings.embedding_batch_size: the provider's limit
    Faults,          \* whether the database or the provider may fail
    Crashes          \* whether processes may die

ASSUME RunnerAssumption ==
    /\ Jobs \intersect Clis = {}
    /\ 0 \notin Jobs \union Clis   \* it stands for no runner
ASSUME BatchAssumption ==
    BatchSizes \subseteq 1..64 /\ MaxBatchSize \in 1..64
ASSUME BoundAssumption ==
    /\ NumVersions \in Nat /\ NewVersions \subseteq 1..NumVersions
    /\ Faults \in BOOLEAN /\ Crashes \in BOOLEAN

Versions == 1..NumVersions
Runners == Jobs \union Clis

VARIABLES
    \* the database
    catalog,   \* version -> its status in the catalog
    index,     \* the versions with a current row in tool_search_embedding
    jobs,      \* the rows of tool_search_reindex_job
    lock,      \* version -> the runner whose upsert holds the row
    \* the processes
    up,        \* the web process serves requests
    run,       \* runner -> where it is, and its local variables
    \* history
    covered    \* succeeded job -> the versions published when it listed them

vars == <<catalog, index, jobs, lock, up, run, covered>>

CatalogStatuses == {"new", "published", "retired", "gone"}
Active == {"pending", "running"}
Terminal == {"succeeded", "failed"}
Labels ==
    {"none", "claim", "list", "load", "embed", "upsert", "succeed", "fail",
     "done", "lost"}

None == 0   \* no runner, no version
NoJob ==
    [status |-> "none", force |-> FALSE, batch_size |-> 0, published |-> 0,
     current |-> 0, pending |-> 0, embedded |-> 0, batches |-> 0]
Waiting ==
    [pc |-> "none", force |-> FALSE, batch_size |-> 0, dry_run |-> FALSE,
     docs |-> <<>>, todo |-> <<>>, rows |-> 0,
     current |-> 0, pending |-> 0, embedded |-> 0, batches |-> 0]

JobRows ==
    [status: {"none", "gone"} \union Active \union Terminal,
     force: BOOLEAN, batch_size: BatchSizes \union {0}, published: Nat,
     current: Nat, pending: Nat, embedded: Nat, batches: Nat]
Locals ==
    [pc: Labels, force: BOOLEAN, batch_size: BatchSizes \union {0},
     dry_run: BOOLEAN, docs: Seq(Versions), todo: Seq(Versions), rows: Nat,
     current: Nat, pending: Nat, embedded: Nat, batches: Nat]

TypeOK ==
    /\ catalog \in [Versions -> CatalogStatuses]
    /\ index \subseteq Versions
    /\ jobs \in [Jobs -> JobRows]
    /\ lock \in [Versions -> Runners \union {None}]
    /\ up \in BOOLEAN
    /\ run \in [Runners -> Locals]
    /\ covered \in [Jobs -> SUBSET Versions]

Published == {v \in Versions : catalog[v] = "published"}

Init ==
    /\ catalog = [v \in Versions |->
                    IF v \in NewVersions THEN "new" ELSE "published"]
    /\ index = {}
    /\ jobs = [j \in Jobs |-> NoJob]
    /\ lock = [v \in Versions |-> None]
    /\ up = TRUE
    /\ run = [r \in Runners |-> Waiting]
    /\ covered = [j \in Jobs |-> {}]

-----------------------------------------------------------------------------
(***************************************************************************)
(* Creating and claiming a job                                             *)
(***************************************************************************)
\* The local variables go when the use case returns, and when an exception
\* the task does not handle ends it ("lost").
Ended(label) == [Waiting EXCEPT !.pc = label]
Becomes(r, local) ==
    run' = [run EXCEPT ![r] = IF local.pc \in {"done", "lost"}
                              THEN Ended(local.pc) ELSE local]

Goto(r, label) == Becomes(r, [run[r] EXCEPT !.pc = label])

ActiveJobs == {j \in Jobs : jobs[j].status \in Active}

\* The partial unique index on the tenants of active jobs.
SlotFree == ActiveJobs = {}

PendingJob(force, size) ==
    [NoJob EXCEPT !.status = "pending", !.force = force, !.batch_size = size]

\* POST /tool-search/reindex-jobs: the row is inserted, and the background
\* task added to the response.  A conflict with the index (409) changes
\* nothing.
CreateJob(j) ==
    /\ up
    /\ jobs[j].status = "none" /\ SlotFree
    /\ \E force \in BOOLEAN, size \in BatchSizes :
          jobs' = [jobs EXCEPT ![j] = PendingJob(force, size)]
    /\ Goto(j, "claim")
    /\ UNCHANGED <<catalog, index, lock, up, covered>>

\* The insert commits and the handler does not get to know: it raises
\* before it adds the task.
CreateUnanswered(j) ==
    /\ Faults /\ up
    /\ jobs[j].status = "none" /\ SlotFree
    /\ \E force \in BOOLEAN, size \in BatchSizes :
          jobs' = [jobs EXCEPT ![j] = PendingJob(force, size)]
    /\ Goto(j, "lost")
    /\ UNCHANGED <<catalog, index, lock, up, covered>>

\* RunToolSearchReindexJob takes a pending row and gives up on any other.
Claim(j) ==
    /\ run[j].pc = "claim"
    /\ IF jobs[j].status = "pending"
       THEN /\ jobs' = [jobs EXCEPT ![j].status = "running"]
            /\ Becomes(j, [run[j] EXCEPT !.pc = "list",
                                         !.force = jobs[j].force,
                                         !.batch_size = jobs[j].batch_size])
       ELSE /\ Goto(j, "done")
            /\ UNCHANGED jobs
    /\ UNCHANGED <<catalog, index, lock, up, covered>>

\* The claim raises, before or after its commit took effect, outside the
\* try block: the task ends.
ClaimFails(j) ==
    /\ Faults
    /\ run[j].pc = "claim"
    /\ \/ UNCHANGED jobs
       \/ /\ jobs[j].status = "pending"
          /\ jobs' = [jobs EXCEPT ![j].status = "running"]
    /\ Goto(j, "lost")
    /\ UNCHANGED <<catalog, index, lock, up, covered>>

-----------------------------------------------------------------------------
(***************************************************************************)
(* ReindexTools.execute                                                    *)
(***************************************************************************)
StartCli(c) ==
    /\ run[c].pc = "none"
    /\ \E force, dry_run \in BOOLEAN, size \in BatchSizes :
          Becomes(c, [run[c] EXCEPT !.pc = "list", !.force = force,
                                    !.dry_run = dry_run, !.batch_size = size])
    /\ UNCHANGED <<catalog, index, jobs, lock, up, covered>>

\* Where a use case goes that returns, and one that raises: a job records
\* its outcome, the command line prints it.
Returned(r) == IF r \in Jobs THEN "succeed" ELSE "done"
Raised(r) == IF r \in Jobs THEN "fail" ELSE "done"

\* What a sort of these versions by their names returns: there is one such
\* list of each set.
Sorted(S) ==
    {q \in [1..Cardinality(S) -> S] :
        \A a, b \in 1..Cardinality(S) : a < b => q[a] < q[b]}

\* Mutation: neither the query nor the use case sorts.
ListPublished_Unsorted(r) ==
    /\ run[r].pc = "list"
    /\ \E docs \in SetToSeqs(Published) :
          Becomes(r, [run[r] EXCEPT !.pc = "load", !.docs = docs])
    /\ UNCHANGED <<catalog, index, jobs, lock, up, covered>>

\* The documents of the published versions, sorted by canonical name.
ListPublished(r) ==
    /\ run[r].pc = "list"
    /\ \E docs \in Sorted(Published) :
          Becomes(r, [run[r] EXCEPT !.pc = "load", !.docs = docs])
    /\ UNCHANGED <<catalog, index, jobs, lock, up, covered>>

\* Mutation: the difference taken the wrong way round.
CurrentCount_Swapped(docs, pending) == Len(pending) - Len(docs)

CurrentCount(docs, pending) == Len(docs) - Len(pending)

\* What a filter of a list without repetitions keeps of it: these versions,
\* in the order of the list.
Filtered(q, S) ==
    {p \in [1..Cardinality(S) -> S] :
        \A a, b \in 1..Cardinality(S) :
            a < b => \E i, k \in 1..Len(q) : i < k /\ q[i] = p[a] /\ q[k] = p[b]}

\* In a transaction of its own, the embeddings there are: what is missing,
\* of another digest or forced is pending.
LoadExisting(r) ==
    /\ run[r].pc = "load"
    /\ \E pending \in Filtered(run[r].docs,
                               {v \in ToSet(run[r].docs) :
                                   run[r].force \/ v \notin index}) :
          Becomes(r, [run[r] EXCEPT
             !.pc = IF run[r].dry_run \/ pending = <<>> THEN Returned(r)
                    ELSE "embed",
             !.todo = pending,
             !.current = CurrentCount(run[r].docs, pending),
             !.pending = Len(pending)])
    /\ UNCHANGED <<catalog, index, jobs, lock, up, covered>>

Batch(r) ==
    SubSeq(run[r].todo, 1,
           IF run[r].batch_size < Len(run[r].todo)
           THEN run[r].batch_size ELSE Len(run[r].todo))

\* Mutation: the slices overstep one document.
Rest_SkipsOne(r) ==
    SubSeq(run[r].todo, run[r].batch_size + 2, Len(run[r].todo))

Rest(r) == SubSeq(run[r].todo, run[r].batch_size + 1, Len(run[r].todo))

\* The provider embeds a batch, or refuses one longer than its own limit.
Embed(r) ==
    /\ run[r].pc = "embed"
    /\ Goto(r, IF Len(Batch(r)) > MaxBatchSize THEN Raised(r) ELSE "upsert")
    /\ UNCHANGED <<catalog, index, jobs, lock, up, covered>>

\* Whether the next row of the batch is another upsert's.
WaitsFor(r, s) ==
    /\ run[r].pc = "upsert" /\ run[r].rows < Len(Batch(r))
    /\ lock[Batch(r)[run[r].rows + 1]] = s
    /\ s \notin {None, r}

\* INSERT ... ON CONFLICT DO UPDATE comes to the next of its rows.
UpsertRow(r) ==
    /\ run[r].pc = "upsert" /\ run[r].rows < Len(Batch(r))
    /\ \A s \in Runners : ~WaitsFor(r, s)
    /\ lock' = [lock EXCEPT ![Batch(r)[run[r].rows + 1]] = r]
    /\ Becomes(r, [run[r] EXCEPT !.rows = @ + 1])
    /\ UNCHANGED <<catalog, index, jobs, up, covered>>

\* Mutation: the unit of work leaves its transaction open.
Unlocked_Kept(r) == lock

Unlocked(r) == [v \in Versions |-> IF lock[v] = r THEN None ELSE lock[v]]
Indexed(r) == index \union ToSet(Batch(r))

\* A version whose row the reset removed fails the foreign key.
VersionsExist(r) == \A v \in ToSet(Batch(r)) : catalog[v] # "gone"

Embedded(r) == run[r].embedded + Len(Batch(r))

\* The statement's end: commit, then the next batch, or the foreign key's
\* error and the rollback.
UpsertCommit(r) ==
    /\ run[r].pc = "upsert" /\ run[r].rows = Len(Batch(r))
    /\ lock' = Unlocked(r)
    /\ IF VersionsExist(r)
       THEN /\ index' = Indexed(r)
            /\ Becomes(r, [run[r] EXCEPT
                  !.pc = IF Rest(r) = <<>> THEN Returned(r) ELSE "embed",
                  !.todo = Rest(r),
                  !.rows = 0,
                  !.embedded = Embedded(r),
                  !.batches = @ + 1])
       ELSE /\ Becomes(r, [run[r] EXCEPT !.pc = Raised(r), !.rows = 0])
            /\ UNCHANGED index
    /\ UNCHANGED <<catalog, jobs, up, covered>>

\* A read, the provider or an upsert fails; a failed commit may have taken
\* effect all the same.
ReindexFails(r) ==
    /\ Faults
    /\ run[r].pc \in {"list", "load", "embed", "upsert"}
    /\ \/ UNCHANGED index
       \/ /\ run[r].pc = "upsert" /\ run[r].rows = Len(Batch(r))
          /\ VersionsExist(r)
          /\ index' = Indexed(r)
    /\ Becomes(r, [run[r] EXCEPT !.pc = Raised(r), !.rows = 0])
    /\ lock' = Unlocked(r)
    /\ UNCHANGED <<catalog, jobs, up, covered>>

-----------------------------------------------------------------------------
(***************************************************************************)
(* The job's outcome                                                       *)
(***************************************************************************)
\* succeed and fail write whatever row of the job there is.
Row(j) == jobs[j].status # "gone"

Succeed(j) ==
    /\ run[j].pc = "succeed"
    /\ jobs' = IF Row(j)
               THEN [jobs EXCEPT ![j] =
                       [@ EXCEPT !.status = "succeeded",
                                 !.published = Len(run[j].docs),
                                 !.current = run[j].current,
                                 !.pending = run[j].pending,
                                 !.embedded = run[j].embedded,
                                 !.batches = run[j].batches]]
               ELSE jobs
    /\ covered' = IF Row(j)
                  THEN [covered EXCEPT ![j] = ToSet(run[j].docs)]
                  ELSE covered
    /\ Goto(j, "done")
    /\ UNCHANGED <<catalog, index, lock, up>>

Fail(j) ==
    /\ run[j].pc = "fail"
    /\ jobs' = IF Row(j) THEN [jobs EXCEPT ![j].status = "failed"] ELSE jobs
    /\ Goto(j, "done")
    /\ UNCHANGED <<catalog, index, lock, up, covered>>

\* Writing the outcome fails: the exception ends the task, and the row
\* stays as it is.
OutcomeLost(j) ==
    /\ Faults
    /\ run[j].pc \in {"succeed", "fail"}
    /\ Goto(j, "lost")
    /\ UNCHANGED <<catalog, index, jobs, lock, up, covered>>

-----------------------------------------------------------------------------
(***************************************************************************)
(* The processes and the rest of the database                              *)
(***************************************************************************)
\* Process death: its connections close and PostgreSQL rolls back.
Killed(S) ==
    /\ run' = [r \in Runners |->
                 IF r \in S /\ run[r].pc # "none" THEN Ended("done") ELSE run[r]]
    /\ lock' = [v \in Versions |-> IF lock[v] \in S THEN None ELSE lock[v]]

Crash ==
    /\ Crashes /\ up
    /\ up' = FALSE
    /\ Killed(Jobs)
    /\ UNCHANGED <<catalog, index, jobs, covered>>

CliDies(c) ==
    /\ Crashes
    /\ run[c].pc \notin {"none", "done"}
    /\ Killed({c})
    /\ UNCHANGED <<catalog, index, jobs, up, covered>>

\* Mutation: the recovery does not look at the status.
Recovered_Any(job) ==
    IF job.status \notin {"none", "gone"}
    THEN [job EXCEPT !.status = "failed"] ELSE job

\* recover_interrupted
Recovered(job) ==
    IF job.status \in Active THEN [job EXCEPT !.status = "failed"] ELSE job

\* The web process starts, and serves requests once it has recovered.
Start ==
    /\ ~up
    /\ up' = TRUE
    /\ jobs' = [j \in Jobs |-> Recovered(jobs[j])]
    /\ UNCHANGED <<catalog, index, lock, run, covered>>

\* A new version is published, perhaps in the place of another.
Publish ==
    /\ \E v \in Versions, old \in Published \union {None} :
          /\ catalog[v] = "new"
          /\ catalog' = [w \in Versions |-> CASE w = v -> "published"
                                              [] w = old -> "retired"
                                              [] OTHER -> catalog[w]]
    /\ UNCHANGED <<index, jobs, lock, up, run, covered>>

\* ResetDemoWorkspace: TRUNCATE waits for the transactions that have
\* written to the tables, then empties them all.
Reset ==
    /\ up
    /\ \A v \in Versions : lock[v] = None
    /\ catalog' = [v \in Versions |->
                     IF catalog[v] = "new" THEN "new" ELSE "gone"]
    /\ index' = {}
    /\ jobs' = [j \in Jobs |-> IF jobs[j].status = "none" THEN NoJob
                               ELSE [NoJob EXCEPT !.status = "gone"]]
    /\ UNCHANGED <<lock, up, run, covered>>

RunnerStep(r) ==
    \/ ListPublished(r) \/ LoadExisting(r) \/ Embed(r)
    \/ UpsertRow(r) \/ UpsertCommit(r)

TaskStep(j) == Claim(j) \/ RunnerStep(j) \/ Succeed(j) \/ Fail(j)

Next ==
    \/ \E j \in Jobs :
          \/ CreateJob(j) \/ CreateUnanswered(j)
          \/ TaskStep(j)
          \/ ClaimFails(j) \/ OutcomeLost(j)
    \/ \E c \in Clis : StartCli(c) \/ RunnerStep(c) \/ CliDies(c)
    \/ \E r \in Runners : ReindexFails(r)
    \/ Crash \/ Start \/ Publish \/ Reset

Spec == Init /\ [][Next]_vars

\* asyncio runs every ready task, the provider's calls time out, and the
\* operator starts a web process that is down.
FairSpec ==
    /\ Spec
    /\ \A j \in Jobs : WF_vars(TaskStep(j))
    /\ \A c \in Clis : WF_vars(RunnerStep(c))
    /\ WF_vars(Start)

-----------------------------------------------------------------------------
(***************************************************************************)
(* Properties                                                              *)
(***************************************************************************)
\* A job that says succeeded has every version that was published when it
\* listed them in the index, under the digest of its present document:
\* whatever it embedded itself, found there, or the command line put there
\* meanwhile.
SucceededIsIndexed ==
    \A j \in Jobs :
        jobs[j].status = "succeeded" =>
            covered[j] \subseteq index

\* The counts of a succeeded job account for every version it listed: each
\* one current or embedded, in as many batches as the batch size asks for.
SummaryAddsUp ==
    \A j \in Jobs :
        jobs[j].status = "succeeded" =>
            /\ jobs[j].published = Cardinality(covered[j])
            /\ jobs[j].embedded = jobs[j].pending
            /\ jobs[j].current + jobs[j].embedded = jobs[j].published
            /\ jobs[j].batches =
                  (jobs[j].embedded + jobs[j].batch_size - 1)
                        \div jobs[j].batch_size

\* Upserts of overlapping batches never wait for one another in a circle: a
\* job, the task of a job the reset removed and a command-line run all take
\* the rows in the order of the names.
UpsertsDoNotDeadlock ==
    ~\E S \in (SUBSET Runners) \ {{}} :
        \A r \in S : \E s \in S : WaitsFor(r, s)

\* An ended job stays as it ended, whatever the process that ran it and the
\* processes after it do; only the reset takes it away.
EndedStaysEnded ==
    [][\A j \in Jobs :
          jobs[j].status \in Terminal =>
              jobs'[j] = jobs[j] \/ jobs'[j].status = "gone"]_vars

\* The job that holds the active slot is one the serving process has a task
\* for, or one whose task a failing database ended before it could write: no
\* crash and no restart leaves the slot to any other job.
ActiveHasTask ==
    up => \A j \in ActiveJobs : run[j].pc \notin {"none", "done"}

\* The active slot is freed again: every job ends, by its task, by the
\* recovery at the next start, or by the reset, unless the database failed
\* the very statement that had to say so.
JobsEnd ==
    \A j \in Jobs :
        jobs[j].status \in Active ~>
            jobs[j].status \notin Active \/ run[j].pc = "lost"

\* A job that succeeded did what it says: its versions are in the index, and
\* its counts account for them.
SuccessIsTrue == SucceededIsIndexed /\ SummaryAddsUp

\* No job is in the way of the others for ever: upserts do not wait in a
\* circle, and whoever holds the active slot has a task.
NoJobIsStuck == UpsertsDoNotDeadlock /\ ActiveHasTask
-----------------------------------------------------------------------------
(***************************************************************************)
(* Why it holds: the inductive invariant                                   *)
(***************************************************************************)
\* The row of a job and its task move together: a task that is at work finds
\* its row as it left it or gone, an ended row has no task, and a process
\* that is down has none.
Working == {"list", "load", "embed", "upsert", "succeed", "fail"}
TaskInv(j) ==
    /\ jobs[j].status = "none" <=> run[j].pc = "none"
    /\ jobs[j].status = "pending" => run[j].pc \in {"claim", "lost", "done"}
    /\ jobs[j].status = "running" => run[j].pc \in Working \union {"lost", "done"}
    /\ jobs[j].status \in Terminal => run[j].pc = "done"
    /\ up /\ run[j].pc = "done" => jobs[j].status \notin Active
    /\ ~up => run[j].pc \in {"none", "done"}

\* The local variables of a run: the lists are in the order of the names, and
\* what is embedded, what is to be and what was current are all there is, in
\* full batches but for the last.
Increasing(q) == \A a, b \in 1..Len(q) : a < b => q[a] < q[b]
Batches(embedded, size) == (embedded + size - 1) \div size
LocalInv(l) ==
    /\ Increasing(l.docs) /\ Increasing(l.todo)
    /\ l.pc \in Working => l.batch_size \in BatchSizes
    /\ l.pc \notin {"embed", "upsert", "succeed", "fail"} =>
          l.embedded = 0 /\ l.batches = 0
    /\ l.pc # "upsert" => l.rows = 0
    /\ l.rows <= l.batch_size /\ l.rows <= Len(l.todo)
    /\ l.pc \in {"embed", "upsert"} =>
          /\ l.todo # <<>>
          /\ l.embedded = l.batches * l.batch_size
    /\ l.pc \in {"embed", "upsert", "succeed"} =>
          /\ l.current + l.pending = Len(l.docs)
          /\ l.embedded + Len(l.todo) = l.pending
    /\ l.pc = "succeed" /\ ~l.dry_run =>
          l.todo = <<>> /\ l.batches = Batches(l.embedded, l.batch_size)

\* A task runs its job as the row asks; a version it listed is in the index
\* or still on its list, unless the reset came, which takes the row as well.
JobInv(j) ==
    /\ ~run[j].dry_run
    /\ jobs[j].status \in Active => jobs[j].batch_size \in BatchSizes
    /\ jobs[j].status = "running" /\ run[j].pc \in Working =>
          jobs[j].batch_size = run[j].batch_size
    /\ jobs[j].status = "running" /\ run[j].pc \in {"embed", "upsert", "succeed"} =>
          ToSet(run[j].docs) \subseteq index \union ToSet(run[j].todo)

\* A row is held by an upsert that has come to it.
LockInv ==
    \A v \in Versions :
        lock[v] # None =>
            /\ run[lock[v]].pc = "upsert"
            /\ \E i \in 1..run[lock[v]].rows : run[lock[v]].todo[i] = v

IInv ==
    /\ TypeOK
    /\ \A j \in Jobs : TaskInv(j) /\ JobInv(j)
    /\ \A r \in Runners : LocalInv(run[r])
    /\ LockInv
    /\ SuccessIsTrue
=============================================================================
