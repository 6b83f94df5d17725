# Revix in TLA+

A formal model of Revix, the Postgres-backed code-review service of this
repository: its webhook, its job queue, its worker processes, what a review
does to GitHub, how a diff selects the code to review, how the agents' answers
become a result, and the tables that reviews share. TLC checks the model on
small instances. TLAPS proves, for every value of the constants, all of the
safety properties that passing runs of TLC check: the fencing protocol of the
queue and that it implements an abstract life cycle of a job, that workers and
reviews implement the queue, what reviews leave on GitHub, what the webhook
answers, what the shared tables keep, which code of a diff is shown to the agents,
and what an analysis makes of any files, answers and comments. Liveness is only
model-checked.

Paths are relative to the repository (`app/worker.py` and so on).

## 1. The system

| Component | State | Operations | Talks to |
|---|---|---|---|
| Job queue, `app/services/db/queue.py`, tables of `migrations/versions/0001_initial_schema.py` | `jobs`, `worker_heartbeats` (UNLOGGED), `review_records` | `enqueue_if_new`, `claim_job`, `update_heartbeat`, `set_check_run_id`, `finalize_job`, `release_job`, `reconcile_stale_jobs`, two reads | called by the webhook and by every worker, one transaction per call |
| Worker runtime, `app/worker.py` | `running`, a semaphore, `_active_jobs`, `_tasks` | `run_forever`, `_safe_process_job`, `_run_heartbeat`, `reconciliation_loop`, `stop`, `shutdown` | the queue; several processes, each an asyncio loop |
| Review of a job, `process_job` in `app/worker.py`, `post_review` and the check-run calls in `app/services/github.py` | local `check_run_id`; on GitHub the check runs, summary reviews and inline comments | some ten awaited calls, an `except` and a `finally` | queue, GitHub, swarm |
| GitHub client, `app/services/github.py` | `installation_tokens`, a cache shared by all workers | `get_token`, fetches under count and byte budgets | GitHub |
| Webhook API, `app/main.py` | none of its own | pull request events (enqueue under a 3 s timeout), override comments | queue, GitHub |
| Swarm, `app/services/ai.py` | a semaphore for model calls; nothing else is kept between reviews | rank and cut chunks, route, map over agents, reduce | LLM providers, sandbox |
| Diff parsing, AST chunking, inline comment selection | none (pure functions) | `ai.py`, `worker.py` | |
| Repository graph, `app/services/db/graph.py` | symbols and edges of a repository | delete and copy in one transaction | workers |
| Database core, configuration, logging, scripts | start-up and observability | | |

What is hard here:

* several workers and their heartbeats interleave on one table; a worker may
  stall (SIGSTOP, a blocked loop, a partition) and come back after its job was
  given to somebody else;
* a worker can be killed, or told to stop, between any two calls;
* a commit can succeed and its answer be lost;
* a restart of Postgres empties the heartbeat table and leaves the jobs;
* GitHub cannot take part in the queue's transactions, so a review may be
  posted and not recorded, or the other way round;
* attempts are limited, rate limits put jobs back, a job is buried an hour
  after it was created: the ways out of the queue meet each other;
* the webhook gives up after 3 s on a transaction that may commit, and GitHub
  delivers again; a manual approval races the review it approves;
* concurrent reviews of a repository share a token row and replace each other's
  call graph at READ COMMITTED;
* model calls and sandbox runs fail or take long, concurrently, under a
  semaphore, and their failures are swallowed.

What makes each part correct:

* queue: one owner at a time, a result only from the owner, a job that ended
  stays ended, heartbeats that tell the truth about their owner;
* workers: permits conserved, no job forgotten by a shutdown or a crash, every
  job ends;
* reviews: SUCCESS only for a review that is on GitHub, one summary per commit,
  a check run that reaches a conclusion;
* webhook: answers that are true, approvals that stay;
* analysis: limited budgets spent on what matters most, no approval of what
  nobody was asked to look at, an end;
* shared tables: tokens that live as long as promised, no stale graph.

`PROJECT.json` lists the hazards one by one at the lines where they bite, with
the properties about each.

## 2. The modules

```
JobLifecycle                              (what one job promises)
   ^
   | implemented by (INSTANCE ... WITH, proved)
   |
JobQueue  <-- EXTENDS --  WorkerPool      (claim loop, tasks, shutdown, crashes)
   ^      <-- EXTENDS --  ReviewJob       (process_job call by call, GitHub)
   |                          ^
   |                          +-- EXTENDS -- Ingest   (webhook, overrides)
   +-- EXTENDS -- MCJobQueue              (symmetry);  MCReviewJob likewise

DiffScope                                 (diff to chunks, on its own)

Sorting <- ReviewInput, InlineSelection   (pure algorithms)
   ^
   +-- EXTENDS -- Swarm                   (analyze_diff call by call)
                    ^-- EXTENDS -- MCSwarm

TokenCache, RepoGraph                     (tables shared by reviews)
   ^-- SharedTables                       (their composition)
```

The theorems about a module are in the module of that name with `Proofs` added.
These extend each other like the modules they are about: `JobQueueProofs` is
extended by `WorkerPoolProofs` and `ReviewJobProofs`, the latter by
`IngestProofs`. `SharedTablesProofs` holds the proofs about `TokenCache` too.
`ListProofs`, about induction, folds, concatenation and the sort, is extended by
`SwarmProofs` and `DiffScopeProofs`.

`WorkerPool` and `ReviewJob` have the queue's variables and call its actions; a
step of theirs that calls none leaves `queueVars` unchanged. Their own
specifications are `PoolSpec` and `ReviewSpec`; `Spec` is the queue's, which
they name `QueueSpec` as a property.


### JobLifecycle

One record per commit: its state, its holder, how many attempts were given out
and who wrote its result. `Submit`, `Take`, `GiveBack`, `Finish` and `Bury` are
all that may happen to a job; there are no tokens, heartbeats or clocks.
`JobQueue` maps its columns to it: a job is *held* while its row is in
processing, and finished jobs keep their last holder. The authors are computed
from the history `commits`, so that the abstract specification says what fencing
is for: the only author is the holder of the last attempt.

### JobQueue

One action per method of `JobQueueRepository`, each method being one
transaction. `commit_sha` is unique in `jobs` (and through it in the other two
tables), so every column is a function on `Shas`, with status `"absent"` and
`None` for rows that do not exist. Clients are as free as they can be: whoever
has claimed a job may use the row that `claim_job` returned at any later time
and as often as it likes. A stalled worker, a retry, a cancelled call that
still reached the server are all just late or repeated calls.

* `EnqueueIfNew` is the advisory lock, the look at `review_records` and the
  `INSERT ... ON CONFLICT DO NOTHING`.
* `ClaimJob` takes *any* claimable row. `ORDER BY priority, created_at LIMIT 1`
  prefers one, but `SKIP LOCKED` may pass over every row that is preferred, so
  no safety property may depend on the order.
* `UpdateHeartbeat` is not fenced and never inserts: a row that is gone stays
  gone until the next claim.
* `FinalizeJob` is guarded by the fence token and not by the status.
* `ReleaseJob` changes the job only if token and status match and deletes the
  heartbeat row in any case, as the code does.
* `ReconcileStaleJobs(R)` is the three statements of `reconcile_stale_jobs` in
  their order: requeue or bury the stale jobs `R` (SKIP LOCKED leaves any of
  them out), delete heartbeats of jobs not in processing, bury what has been
  pending for over an hour.

Time enters only through the comparisons made in SQL: `due` (`scheduled_at`),
`aged` (`created_at`), `beat_recent` (`heartbeat_at`) change when the environment
says so. The environment also restarts Postgres, which empties the UNLOGGED
table. `claims` and `commits` are history.

### WorkerPool

Workers as they are written, one step from one `await` to the next: the loop of
`run_forever` with its three ways to lose or return a permit (`Top`, `Wake`,
`ClaimGot`, `ClaimNone`, `ClaimError`, `EndSleep`), the task of each claim
(`Process` to the queue call that ends it, `Commit`, `Fail`, `Requeue`,
`Finish`), its heartbeat (`Beat`), the reconciliation loop, `stop` and the
phases of `shutdown` (`DrainEnds`, `ReleaseActive`, `ReleasedAll`, `Gathered`),
and SIGKILL. `_active_jobs` is keyed by job id in the code; `active` holds the
claim whose token each entry stores. With `DbMayFail` any database call may
raise, either before or after it committed.

### ReviewJob

`process_job` call by call, each GitHub call with the outcomes *done*, *failed*
and, where it makes a difference, *done and failed*; the `except` clause with
`_is_rate_limit`, which looks for "429" in the text of any error; the notices of
`reconciliation_loop`. Fetching, indexing, the swarm and formatting change no
state that these properties read and are one step (`FetchAndAnalyze`), detailed
in the modules below.
The lookup of the signature may miss a summary that is there: it asks for the
first page of reviews only, and truncation may cut the signature off.
A task may die at any call (`Die`), its job released or not.
`ZombiesPossible` says whether a beat may become old while its task still lives.

### Ingest

The webhook around the reviews. A `pull_request` event is delivered, any number
of times (`Deliver`). If its action is `opened` or `synchronize` it is answered
when `enqueue_if_new` returns (`EnqueueInTime`) or is cut off by the timeout or an error, its transaction
committed or not (`EnqueueCutOff`). With any other action it is answered
`{"msg": "accepted"}` at once and enqueues nothing; `hook` then says `"ignored"`,
which keeps that answer apart from the "accepted" that stands for a job. An override comment reads the check run id
(`ReadCheckRun`) and sets the run to success some awaits later
(`PatchCheckRun`), in between which attempts, conclusions and notices go on.
`overridden` remembers the commits whose override began after the review was
over.

### TokenCache, RepoGraph, SharedTables

`TokenCache` is `get_token` with time: `SELECT`, the POST to GitHub and the
upsert are three steps between which time passes. Connections of the pool are
not in autocommit mode, so the `SELECT` opens the transaction, and the `NOW()` of
the upsert is the time of the `SELECT` and not of the POST. A token is
identified by the time GitHub issued it.

`RepoGraph` is `persist_repo_graph` statement by statement. At READ COMMITTED a
`DELETE` has a snapshot of its own, waits for rows that another transaction is
deleting, and does not see rows committed after its snapshot; a transaction may
abort anywhere.

`SharedTables` lets the same reviews do both, as `process_job` does.

### ReviewInput, InlineSelection, Swarm

`Swarm` follows one review from GitHub's list of files to its result.
`AttachSource` passes the files one by one under the fetch budget,
`BuildReviewChunks` (ReviewInput) ranks and cuts them. A source that was fetched
gives any number of chunks, none included: `_chunk_by_ast` makes nothing of a
blank file, and `_build_review_chunks` does not fall back to its patch. Then the three gathers of
`analyze_diff`: the coordinator's calls, the agents', the reducer's. Each call
waits for a permit (`Acquire`) and gives it back when it returns, an agent's first
message may ask for several sandbox runs, each followed by another call, and
any call may fail, which is one outcome with answers that cannot be parsed.
Routing (`NormalizeAgentIds`, `CapAgentIds`) and the selection of inline comments
(InlineSelection) are operators close to the Python: its loops are folds, and its
three calls of `sorted` are `StableSort` of Sorting, which puts an element at the
place given by the number of elements that go before it. What models answer
comes from the sets `Answers` and `Reports`.

### DiffScope

`parse_changed_lines`, `_chunk_changed_nodes` and `_chunk_by_ast`. An edit is
written line by line (`Write`), each line kept, added or removed and each with
its place in the syntax: first line of a function, class, statement, method or
attribute, further line, blank. The new file's tree and the patch with its hunks
are computed from the edit as Tree-sitter and git would; the code gets only
these. `VisitScoped` and `VisitWhole` are one iteration each of the two chunking
loops, which go through nodes and methods in the order of the file (`Ascending`),
`EndScoped` falls back to the whole file when nothing was selected. Code
is a set of line positions and a token is a line, so that what reaches the agents
can be compared with what the edit did.

## 3. What the runs check

| Run | Instance | Shows |
|---|---|---|
| `job_queue` | 2 commits, 2 workers, 2 attempts, database restarts, symmetric | the queue's properties below under any calls, and `LifecycleSpec` |
| `worker_pool` | 1 commit, 2 workers of 2 slots, 2 attempts; one worker may be stopped and killed; database errors and restarts | `QueueSpec` (the workers implement `JobQueue`), `PermitsConserved`, `ActiveHasTask` |
| `worker_liveness` | as above with 1 slot, fair | `EventuallySettled`, `StopTerminates` |
| `review_job` | 1 commit, 2 workers, 2 attempts; every call may fail, tasks may be zombies | `QueueSpec`, `SuccessIsVisible` |
| `review_crash_only` | 1 commit, 1 worker, 3 attempts; no zombies, the lookup sees what is there, notices arrive, the database answers the worker; repeated and timed-out deliveries, overrides at any time | `OneSummary`, `RowNamesOwnRun`, `ExhaustedIsReported`, `AnswersTrue`, `OverrideStands` |
| `analysis` | all lists of up to 3 of 6 kinds of files, 2 chunks, up to 4 agents, 2 permits, up to 2 sandbox runs per agent, fair | the properties of an analysis below |
| `shared_tables` | 2 reviews, time up to 6 with tokens of 4, rows of 3 and a margin of 1 | `CachedTokenLasts`, `NoSupersededRows`, `ReferencesHaveSymbols` |
| `zombie_release` | 2 workers, 1 slot | counterexample to `TakesOnlyFromStaleOwner` |
| `lost_commit_ack` | 1 worker, 1 attempt | counterexample to `CommittedOnce` |
| `comments_lost` | 1 worker, 2 attempts, nothing fails but the task | counterexample to `CommentsDelivered` |
| `diff_scope` | every edit of up to 5 lines with up to 2 changes, 1 line of context, budget of 2 lines | `HunksPlaceEdits`, `ScopeExact`, `PackedToBudget`, `AddedIsSeen` |
| `removal_scope` | edits of up to 3 lines | counterexample to `RemovalSelectsNode` |

Properties of the queue (`job_queue`):

* `FenceCountsAttempts`: the token counts how often the job was taken away and
  `attempt_count` how often it was given; they differ by one exactly while
  somebody holds or has finished the job.
* `TokenNamesOneClaim`: two claims of a job never get the same token.
* `FenceHoldsJob`: a claim whose token is current holds the job, and every
  other claim has an older token. This is what makes the fenced UPDATEs safe.
* `HeartbeatNamesOwner`: a heartbeat row names the worker that is processing the
  job, so a row never hides the death of a later owner.
* `FencedCommit`: all commits for a commit SHA come from one claim.
* `RecordMatchesJob`: `review_records`, which decides whether a commit may be
  enqueued, agrees with the job's status.
* `SettledForGood`: no late call puts a finished job back in the queue or
  changes a dead one.

* `LifecycleSpec`: the queue implements `JobLifecycle`.

Properties of the webhook (`review_crash_only`):

* `AnswersTrue`: to an opened or synchronize event, "accepted" means that the
  commit has a job and "already exists" that it has a review, after any timeouts
  and redeliveries. It does not mean that a review will follow: a dead job is
  answered as accepted too. Events with another action are told "accepted" and
  enqueue nothing; the property claims nothing of them.
* `OverrideStands`: an approval given after the review was over is not undone.
  One given earlier is: the running attempt concludes the same run.

Properties of an analysis (`analysis`):

* `BestFilesFirst`: no reviewable file is left out for one of lower priority,
  whichever sources could be fetched, and none while there is room. The exception
  is in its antecedent: a file whose source was fetched and gives no chunk is left
  out, budget or not. One of the six kinds of files is such.
* `RoutedWell`: every chunk gets between one and the maximum of different
  agents, and a requested one gives way only to those of higher priority.
* `CallsWithinLimit`: permits are conserved on every path, failing ones too.
* `ApprovedAfterReview`: a pull request with something to review is approved only
  by an answer of the reducer, after at least as many agents as chunks were asked.
  A coordinator that fails, or names nobody, is replaced and does not lead to the
  100 points of "nothing to review"; a failed reduction scores 0. The agents need
  not succeed: if all fail, the reducer is asked to score an empty list of
  findings, and an approval by it is one that the property allows, as the code does.
* `SelectionSound`: a serious comment is left out only for ones that are not less
  serious. Which of equally serious ones stays is left open: the code prefers the
  shorter one, the comment in the code the more substantive one (section 4).
* `AnalysisEnds`: no agent waits for ever for a permit.

Properties of the shared tables (`shared_tables`):

* `CachedTokenLasts`: a token from the cache has two margins (ten minutes) left.
  The five minutes asked for by the `SELECT` alone would not give that; it rests
  on the expiry being counted from before the POST.
* `NoSupersededRows`: what a committed review saw of an older index is gone, also
  if another transaction was deleting it and aborted. Reviews that overlap may
  leave the union of their rows.
* `ReferencesHaveSymbols`: the references of an index never outlive its symbols,
  which rests on the order of the two DELETEs.

Properties of scoping (`diff_scope`):

* `HunksPlaceEdits`: the line numbers read from the hunks are those of the edit.
* `ScopeExact`: what is sent is, once each, every node that the edit touches (or
  the touched methods of a class over the budget), stated from the edit and not
  from the patch, and without the loop.
* `PackedToBudget`: chunks of several texts are within the budget and no chunk
  begins with a text that the one before had room for.
* `AddedIsSeen`: scoped or not, an added line is shown or its unit is flagged,
  except in the body of an oversized class outside its methods, where the code
  drops it.

### Bounds

Two attempts are the least at which a claim can be stale while another is
current, and where the last attempt differs from the first;
`review_crash_only` takes the default of three so that an attempt has both a
predecessor and a successor. Jobs interact only through the worker that holds
them and through the one statement of reconciliation that ranges over all of
them; two commits make that happen in `job_queue`, and one is enough where the
question is what the attempts at one commit do to each other. Two slots let one
worker hold two attempts of a job. Nothing else is cut off: attempts bound
claims, tokens, tasks, check runs and summaries by themselves. The one exception
to "every call may fail" is a restart of the database in `review_job`, which is
left to `worker_pool` because it multiplies the states and touches no review.

In `diff_scope` five lines are the least that give two hunks (a mutant that reads
only the first header is caught), and enough for a class over the budget with a
method, an attribute and a neighbour and for a text that no longer fits a chunk;
a context of one line stands for GitHub's three.

In `analysis` three files are enough to overrun both budgets in an order that
differs from the priorities; the coordinator's answers include none, unknown,
repeated and too many agents; two chunks of two agents are more than the permits;
the reports hold comments below the threshold, five and six lines apart, and
equal up to a fix. Agents know nothing of each other's chunks, so the files are
forgotten when routing starts. In `shared_tables` lives of 4, 3 and 1 leave the
least room that `RowLife + Margin <= TokenLife` allows, and six units let a row
be written, expire and be replaced.

Scoping, an analysis and the calls of `shared_tables` come to an end, so these
runs do not look for deadlock; for the analysis `AnalysisEnds` does.

Symmetry is used on commits and workers in safety runs whose constants treat
all of them alike, never with liveness.

The other passing runs find no deadlock: time, enqueueing of known commits and heartbeat
expiry go on.

### Fairness

`FairSpec` of WorkerPool assumes weak fairness of

* each worker's loop and each task: an event loop runs what is ready. GitHub
  calls time out after 15 s and the drain after `WORKER_SHUTDOWN_TIMEOUT`; the
  code sets no timeout on LLM and database calls, which are assumed to return or
  raise in the end by their clients' own limits, and none on the sandboxed script
  of the verification agent, which is assumed to end: one that does not would
  hold its job for good, since its heartbeat goes on;
* reconciliation of all stale jobs by a worker that is running: the loop wakes
  every `WORKER_RECONCILE_INTERVAL_SECONDS`; row locks are held for one
  transaction;
* time: backoffs and the hour end, and a beat that nobody renews becomes old.

`Spec` of Swarm assumes that the analysis goes on as long as something can: model
calls and sandbox runs return or raise. `AnalysisEnds` is thus about calls that
wait for each other.

Nothing is assumed of signals, of claims succeeding, of database calls not
failing, of heartbeats arriving, or of enqueueing. One worker is left that is
neither stopped nor killed: with none, jobs rightly stay where they are.
`EventuallySettled` includes jobs that end by being buried; a job that a rate
limit releases on its last attempt is settled only that way, since `claim_job`
no longer looks at it and the sweep waits for the hour.

## 4. What the counterexamples show

* `zombie_release`. `release_job` with a stale token updates nothing, but deletes
  the heartbeat row of the present owner, whose next beats update no row. The
  next reconciliation takes the job from an owner that beats, where `README.md`
  says "requeues jobs whose owner went stale". Fencing keeps this safe; it costs
  an attempt and a duplicate review.
* `lost_commit_ack`. SUCCESS commits, the connection drops before the answer,
  and the `except` clause commits FAILURE over it: `finalize_job` looks at the
  token, which no finalize changes, and not at the status. `FencedCommit` still
  holds, since both commits are of one claim; "exactly-once" does not.
* `comments_lost`. An attempt dies between summary and inline comments. The next
  one finds the signature in the summary, returns early, and commits SUCCESS. The
  comments are never posted, where `README.md` calls the side effect
  "at-least-once".
* `removal_scope`. A removed line is attributed to the line after it. If it was
  the last of its function, that line is outside: the function is not sent,
  where the docstring says that "removing code still selects the enclosing
  syntax node".

One disagreement is visible in a definition and needs no trace.
`_select_inline_comments` sorts by `-len(c.body)` in descending order, which
prefers the *shorter* of two equally serious comments, while the comment above the
sort asks for the "substantive explanation". `Outranks` is the code's key;
`SelectionSound` is stated with `MoreSerious`, the part on which both agree, so
that its passing says nothing for or against the length.

## 5. What is proved

Every theorem is about the specification that TLC runs, for all values of its
constants that satisfy the named ASSUMEs: `MaxAttempts` and the capacities are
positive numbers, `None` is nothing else, switches are Boolean, sets of commits,
workers, callers, files, answers and comments are arbitrary, finite or not. In
each module a conjunction of named parts is shown to be inductive (`InitX`,
`...Preserves` or `...Keeps` for each action, `...Invariance`; in DiffScopeProofs
`InvInit`, `InvVisitScoped` and so on, `SpecInv`) and the properties to follow from
it. The invariants were checked with TLC on the runs' instances
before they were proved.

| Module | Invariant | Theorem: property |
|---|---|---|
| `JobQueueProofs` | `IInv` | `TypeCorrect`: `TypeOK`; `FencesCounted`: `FenceCountsAttempts`; `TokensUnique`: `TokenNamesOneClaim`; `FencesHold`: `FenceHoldsJob`; `HeartbeatsOwned`: `HeartbeatNamesOwner`; `RecordsMatch`: `RecordMatchesJob`; `CommitsFenced`: `FencedCommit`; `Settled`: `SettledForGood`; `ImplementsLifecycle`: `LifecycleSpec` |
| `WorkerPoolProofs` | `PoolInv` | `PoolTypeCorrect`: `PoolTypeOK`; `ImplementsQueue`: `QueueSpec`; `PoolImplementsLifecycle`: `LifecycleSpec`; `PermitsKept`: `PermitsConserved`; `EntriesHaveTasks`: `ActiveHasTask` |
| `ReviewJobProofs` | `ReviewInv` | `ReviewTypeCorrect`: `ReviewTypeOK`; `ReviewImplementsQueue`: `QueueSpec`; `SuccessVisible`: `SuccessIsVisible` |
| `IngestProofs` | `IngestInv` | `IngestTypeCorrect`: `IngestTypeOK`; `AnswersHold`: `AnswersTrue`; `OverridesStand`: `OverrideStands`; `IngestKeepsReviews`: `QueueSpec` and `SuccessIsVisible` under the webhook |
| `IngestProofs`, under `CrashOnly` | `LiveHolds` | `SummaryOnce`: `OneSummary`; `RowNamesRun`: `RowNamesOwnRun`; `DeadJobsReported`: `ExhaustedIsReported` |
| `SharedTablesProofs` | `IInv`, `GraphInv` | `TokensLast`: `CachedTokenLasts` of the cache alone; `SharedTokensLast`: the same of the composition; `ImplementsTokenCache`, `ImplementsGraph`; `SharedTypeCorrect`: `SharedTypeOK`; `SupersededRowsGo`: `NoSupersededRows`; `ReferencesGo`: `ReferencesHaveSymbols` |
| `ListProofs` | | lemmas; `StableSortSorts`: what `sorted` returns |
| `SwarmProofs` | `SwarmInv` | `TypeCorrect`: `TypeOK`; `CallsLimited`: `CallsWithinLimit`; `ApprovalsReviewed`: `ApprovedAfterReview`; `RoutesRight`: `RoutedWell`; `BestFirst`: `BestFilesFirst`; `SelectionRight`: `SelectionSound` |
| `DiffScopeProofs` | `Inv` | `ScopeTypeCorrect`: `TypeOK`; `ScopeHunksPlaceEdits`: `HunksPlaceEdits`; `ScopeIsExact`: `ScopeExact`; `ScopePacks`: `PackedToBudget`; `ScopeShowsAdded`: `AddedIsSeen` |

**The queue.** No property stands alone. `TypeOK` bounds the token by
`MaxAttempts`, and the bound on a token that is incremented comes from the bound
on attempts through `FenceCountsAttempts`. `TokenNamesOneClaim` needs
`FenceHoldsJob`: a claim takes a pending job, and a claim with the job's current
token would mean that it is processing or finished, so the token handed out is
new. `FencedCommit` is not inductive even with these: it needs that a commit
*keeps* holding the token, `CommitHoldsFence`, which is true because
`finalize_job` leaves the token alone while the two methods that change it
require the status processing, which `finalize_job` has just ended. Two commits
for one commit SHA then share the token and, by `TokenNamesOneClaim`, the claim.

`ImplementsLifecycle` shows that `Init` maps to the abstract `Init` and that every
action moves each job by one abstract step or not at all; there is a lemma for
each action (`EnqueueStep`, `ClaimStep`, `FinalizeStep`, `ReleaseStep`,
`ReconcileStep`, `QuietStep`). The step that needs the invariant is `Finish`: that
the author of a new commit is the abstract holder follows from `FenceHoldsJob`,
and that it is the only author from `CommitHoldsFence` and `TokenNamesOneClaim`.

**The workers.** Every step of a worker is one call that `JobQueue` allows, a step
of its environment, or leaves the queue alone (`QueueStep`); so `PoolSpec` implies
`QueueSpec`, and all theorems about the queue hold of workers of any number and
size. `PermitsConserved` speaks of running workers only. The invariant needs
`Slots(w) <= Concurrency` of stopped and killed ones too, and that a claim is never
a task already, which is fencing again: a new claim has a token that no task has.

**The reviews.** `SuccessIsVisible` needs `TaskProgress`, what a task has brought
about at the call where it is. Because signatures can be missed, summaries can be
posted again; that `ReviewTypeOK` bounds them rests on counting: as many claims as
attempts (`ClaimsCounted`), and at most one summary by each task that has passed
the post (`SummariesCounted`). All this holds for every set of failing calls and
with zombies.

Three properties do not, and their theorems say under which hypotheses they do.
`CrashOnly` is `~ZombiesPossible /\ ~DbMayRestart`: tasks may die anywhere but do
not outlive their heartbeats, and the heartbeat table is not lost. Then
`LiveHolds`: a live task has the job's token and a recent heartbeat, so a commit
has one live task at a time (`OneLive`). `SummaryOnce` further needs that the
lookup does not miss (`"lookup" \notin Failing`), `RowNamesRun` that the database
does not fail the task (`~DbMayFail`), `DeadJobsReported` that the notice reaches
GitHub (`"notify" \notin Failing`). The run `review_crash_only` is an instance of
all of these hypotheses; each is needed, as the hazards in `PROJECT.json` say.

**The webhook.** `AnswersHold` needs no more than itself, since jobs and review
records are never deleted. `OverrideInv` says that an override which read its row
after the review was over holds the run that the row still names. It is inductive
because a finished job's row is never claimed again (`SettledForGood` in the form
of `ReviewOver`) and a task that has committed is past its conclusion.

**The shared tables.** `IInv`, of the token cache, adds to the types that a caller's
transaction began no later than GitHub issued its token, that the row expires no
later than `RowLife` after its token was issued, and that a call served from the
cache is over. A cached token then satisfies `now + Margin < expires <= token +
RowLife`, and `RowLife + Margin <= TokenLife` gives the second margin. `GraphInv`
needs that what an ended DELETE saw is deleted by it or gone (`SeenIsDeleted`),
that transactions see committed rows of others only (`RowsCommitted`), and that
the second DELETE sees the references of all symbols that the first has deleted
(`ReferencesFollow`), which is where the order of the two statements counts.
`EarlierAssumption` says that the index found at the start is of no review.

**The analysis.** `SwarmInv` says what each phase has (`PhaseInv`) and that permits
and calls are in balance (`CallInv`). `ApprovalsReviewed` needs that routing leaves
no chunk without agents, so that concatenating their lists gives at least as many
tasks as chunks (`TasksRight`), and where the score came from (`ResultInv`). The rest is about pure operators, for inputs
of any length:

* `NormalizeRight`, `CapRight`: routing gives a list of valid agents, not empty and
  without repeats, capped to those of the highest priorities;
* `BuildRight`: each file to be reviewed that shows anything (`Shows`: a patch, and a
  source that gives chunks if one was fetched) is served, by a chunk of its priority
  within the budget or by a budget full of higher ones;
* `SelectRight`: the comments taken are spaced and limited, and each candidate is
  taken or gives way to a nearby one, or to a full list, that it does not outrank;
  `SelectionRight` takes from this what concerns severity and fix;
* `StableSortSorts`: the sort is a permutation in the order of the keys. The ranks
  of n positions in a strict total order are the numbers 0 to n - 1, each once,
  which is an induction over n.

These are inductions over data. The library's induction theorems take a predicate
as a parameter, which the provers cannot instantiate; `NatSetInduction` states
induction for a *set* of numbers instead and is proved from the well-foundedness of
`<`. For a fold, a lemma `...Steps` first gives the list of its partial results
(`ValidAgentsSteps`, `ChunksSteps`, `TakenSteps`), and the induction goes along that
list. The operators were written so that this is possible: SequencesExt's folds,
but neither TLC's `SortSeq` nor `SelectSeq`, of which the provers know nothing;
filters are conditions inside the folds.

**Diff scoping.** The theorems are about any edit of a file of any length, with any
number of changes, lines of context and any budget; that an emptied file has no
lines and is not chunked is the only case left out, as in the code. The argument
has four parts:

* `ParseRight`: on a patch with its hunks, `parse_changed_lines` returns the line
  numbers of what the edit added and of what follows the lines it removed. The
  induction goes along the edit (`PatchAtParsed`): within a hunk the parser's
  `line_no` is the number that the new file gives to the next line, and a header
  sets it to that number wherever git starts a hunk (`HunkStartRight`). The two
  rules of git that matter are in it: the lines next to a change are in its hunk
  (`NeighboursInPatch`, from `ContextLines > 0`), and a hunk without lines of
  the new file starts one line earlier, which happens only if the new file is empty.
* `TouchedMeets`: comparing those numbers with the first and the last line of a
  node finds exactly the changes that meet one of its lines. It holds of stretches,
  sets of lines without gaps, and nodes and methods are such (`NodeRight`,
  `PartRight`).
* `AddPacks`, `AddSends` and their likes say what one `add`, a list of them, a
  `flush` and a flagged unit do to the packing (`Packed`) and to the list of all
  texts sent so far (`All`). `Packed` must speak of the chunk being filled: no
  chunk before it had room for its first text, and it is empty only at the start
  and after a flagged unit.
* `Inv` says of each phase what was sent of the nodes visited so far (`Scoped`,
  `Covered`). That nothing is sent twice needs that texts of different nodes
  differ: a text contains one top-level first line, that of its own node
  (`HeadTextsRight`), and the methods of a class differ in their first lines.

The operators are written so that this is possible: `Ascending` puts an element at
the place given by the number of smaller ones, like `StableSort`, where SequencesExt
offers `SetToSortSeq`, of which the provers know nothing; and `MethodTexts` lists
what is added before one fold adds it.

**Only model-checked.** Liveness (`EventuallySettled`, `StopTerminates`,
`AnalysisEnds`), since the prover knows neither fairness nor ENABLED; and the four
properties that are expected to be violated, of which there is nothing to prove.

## 6. What is not modelled

* The queue's transactions are atomic steps. `update_heartbeat` and
  `reconcile_stale_jobs` are several statements at READ COMMITTED; what they can
  see of each other half done is a heartbeat read too early, which `JobQueue`
  allows as a beat that expired, or a row that is gone, which is not updated.
* The order in which jobs are claimed, and with it fairness between jobs.
* Durations, except for the token cache: how long a recovery takes, and whether
  a review outlives the ten minutes its token is good for.
* A shutdown while two attempts of a job run in one worker: the end of the first
  removes the entry of the second from `_active_jobs`, and the shutdown does not
  release its job, which waits for reconciliation. `WorkerPool` contains this
  behaviour and no property forbids it.
* Several analyses at once: the reviews of one worker share the semaphore of its
  AIService, so that another review's calls delay this one's and end like them.
* What the diff, the prompts, the agents and the formatted texts say.
* `RepoIndexer`, which fills the call graph from Tree-sitter's tree, and
  `get_external_callers`, which nothing calls.
* The body size limits of `github.py`, other than their effect on the signature.
* Start-up, pools, tracing, metrics, the scripts and benchmarks: I/O without a
  protocol of the service's own.

## 7. What could follow

* The statements of `reconcile_stale_jobs` and `update_heartbeat` as steps of their
  own, with `JobQueue` as the specification they implement.
* `RepoIndexer` and `get_external_callers`, once something calls the latter.
* The line separators at which `splitlines` breaks a patch and git does not
  (`app/services/ai.py:58`), which need lines that are more than a mark.
