# Formal models of shirakami

TLA+ models of shirakami, the change-impact analyser: an HTTP server that takes
merge-request diffs, queues them behind a semaphore, lets an LLM agent trace
each changed function through local clones of the repositories, and keeps the
results in PostgreSQL and Redis.  The modules are written from the Go source
(paths below are relative to the repository, which `PROJECT.json` calls `src/`),
model-checked with TLC; the safety properties of all components but one are also
proved with TLAPS.

    tlc -workers 2 -config MCAnalysisServer.cfg MCAnalysisServer
    tlapm AnalysisServer_proofs.tla

and likewise for the other `MC*.cfg` and `*_proofs.tla`.

`PROJECT.json` lists every run, the source lines each definition translates
("map"), the seeded faults that break each property ("mutants"), the hazards
the properties are for and the findings.

## 1. Inventory

### The system and how its parts talk

    client / GitLab / GitHub
      | POST /tasks, /webhook, DELETE /cache
      v
    server (cmd/server) --goroutine per task--> runAnalysis --+
      |   ^ nightly timer                        semaphore    |
      |   |                                                   v
      |   +-- task rows, results (PostgreSQL)          Orchestrator
      |   +-- cached results (Redis, TTL)                |   batches, tiers, rounds
      |   +-- clones and worktrees (git, disk)           v
      |                                            Worker = AgentLoop
      |                                              |        |
      v                                           LLM client  tools (rg, git, LSP)
    symbol index (PostgreSQL)                        |
                                                  FileCheckpointer (<tmp>, shared)

| Component | State | Operations | What is hard |
|---|---|---|---|
| HTTP server, `cmd/server/main.go` | goroutine per task, `semaphore`, `repoFetchMu` | submit, reject, webhook, `runAnalysis`, cache deletion, startup recovery | many goroutines over one table, crash at any step, writes whose error is dropped |
| Semaphore | buffered channel, queue of blocked senders | acquire, release | lost or doubled slots, starvation, contention with the nightly index |
| Task store, `internal/storage` | `analysis_tasks`, `analysis_results` | `CreateTask`, `UpdateTaskStatus`, `SaveResult`, `RequeueOrphanedTasks` | unconditional updates: only call order keeps a concluded row concluded |
| Result cache, `internal/cache` | key -> JSON with TTL | `Get`, `Set`, `Delete`, `DeleteAll` | deletions while analyses run; batches of a scan |
| Worktrees, `internal/workspace` | directories per task | create, remove, clean at start, GC by age | crash before removal, GC under a live task |
| Branch submissions, `fetchBranchDiff` | clone, refs, `FETCH_HEAD`, lock files, mutex | clone, remove locks, fetch, diff | git commands that do not take the mutex, killed commands, pushes between two steps |
| Webhook, `internal/webhook` | none | event -> request | redelivery, cache keys of GitHub events |
| Agent loop, `internal/agent/loop.go` | messages, step count, not-found counts | load, ask, save, run tools, finish | resume after a crash, sliding window cutting pairs, budget |
| Checkpoints, `internal/checkpoint` | one file per name | open, write, rename, delete | several runs on one path; death between two calls |
| LLM client, `internal/llm` | none | `Complete`, streaming | retries, timeouts |
| Orchestrator, `internal/agent/orchestrator.go` | visited, pending, worker outputs, rounds | group, triage, run tiers, merge, next round | parallel batches, results replaced, panics |
| Worker, `internal/agent/worker.go` | one result | trace, JSON follow-up, parse, repair of file names, scenario and unit-test chunks | requests that fail or come back empty, deadlines in the middle of a pass, names shared by functions |
| Extraction, `internal/tool/gitdiff.go`, first part of `orchestrator.go` | hunks, names, hints | parse the diff twice, name hunks from disk, query the index, ask the model | line numbers, three sources of one name, an index that moves between queries |
| Triage, `internal/agent/triage.go` | priorities per batch | one LLM call, demotion, merge | fallback when it fails; priorities found by the first match in the order of a Go map |
| Symbol index, `internal/index`, `cmd/analyze/index.go` | nodes, edges, metadata per repository | nightly rebuild, `index update`, `index rebuild` | two writers of several statements each, torn deletions, trees that move |
| Resolver, `internal/resolver`, `internal/index/graph.go` | graph in memory | load, resolve, search breadth first, merge | cycles, edges without nodes, names that are not unique |
| LSP tool, `internal/tool/lsp.go` | one gopls process, its mutex | start, request, close | a mutex taken twice |
| Memory layers, feedback, report, contract, benchmark, other tools, CLI, configuration, logging | see `PROJECT.json` | | mostly sequential or output only |

### What makes each component correct

* Server: every accepted task ends, as completed or failed, while its goroutine
  lives; statuses follow pending, running, completed or failed, and a
  concluded task keeps its status and answer; a completed task has a result,
  computed for the same input; a task found running at startup has nobody
  working on it.
* Semaphore: as many slots taken as goroutines inside, never more than
  `MaxConcurrentAnalyses`; everyone gets one as long as those inside come out.
* Cache: what is served under a key was computed for the key, by a run that was
  completed; after a deletion, nothing older is served.
* Worktrees: none outlives its goroutine, crashes included.
* Branch submissions: no two fetches of a repository overlap; the diff is of
  the branch asked for and not older than the request, or of its merge; the
  removal of a dead process's lock files spares running fetches; every submission
  ends and gives the mutex back.
* Agent loop: asks about its own task whatever was truncated, stays in its step
  budget across crashes, sends tool results with their calls, leaves no file
  behind an answer, ends.
* Checkpoints: whatever moment the process dies at, the file can be read and is
  the saved conversation of its run, as long as one run of the name is under way.
* Orchestrator: every changed function reaches a worker, or is demoted; no
  batch's nodes and entry points are lost to another's; a failed worker costs its
  batch only; every reported call in the scope that names a function is queued
  once; tiers are serial; the analysis ends if its workers do.
* Extraction: both parsers of a diff find the lines it adds; a change inside a
  function is traced from that function; no hunk falls between index and model.
* Worker: what the parser accepts of an answer does not disappear silently,
  nothing invented stays, everything is asked for and answers are kept, at a bounded
  cost.
* Symbol index: a hash, of a row or of the metadata, means what a reader takes it
  to mean, of what the indexer returned; what failures leave behind is repaired by
  later nights.
* Resolver: the impact of a change is exactly its callers within the depth.
* LSP tool: a call returns.

## 2. Modules

| Module | Models | Kind |
|---|---|---|
| `TaskLifecycle` | what the API promises about a task | abstract specification |
| `AnalysisServer` | server, semaphore, table, cache, worktrees, crash and restart | detailed specification, implements `TaskLifecycle` |
| `AgentLoop` | `AgentLoop.Run` and `FileCheckpointer`, several runs on one directory | detailed specification |
| `RepoSync` | `fetchBranchDiff`, pulls and worktrees on one clone | detailed specification |
| `CallTracing` | what bounded tracing across repositories promises | abstract specification |
| `Orchestrator` | `Orchestrator.Run` with grouping, triage, tiers, rounds | detailed specification, implements `CallTracing` |
| `Extraction` | from a unified diff to the changed functions: `ParseDiffHunks`, the gitdiff tool, `extractChangedFunctions` | detailed specification |
| `Worker` | `WorkerAgent.Analyse` with `Client.Complete` | detailed specification |
| `SymbolIndex` | the writers of the symbol index and the tree they read | detailed specification |
| `Resolver` | loading the graph, `ImpactMany`, risk | detailed specification, against a declarative definition |
| `LSPClient` | the lock operations of the LSP tool | detailed specification |
| `*_proofs`, of all detailed specifications but `LSPClient` | inductive invariants, safety properties, the two refinements | proofs |
| `MC*` | constants and symmetry for TLC | instances |

### AnalysisServer

One program counter per task (`pc[t]`) and one for the nightly goroutine.  Each
label is a point of `runAnalysis` between two effects that another goroutine,
the database or a crash could come between:

    idle -> start -> (waiting) -> setup -> lookup
      -> hit -> hitSaved -> cleanup                       (cache hit)
      -> missed -> analysing -> cleanup                   (orchestrator error)
                   analysing -> analysed -> saved -> persisted -> cleanup
    cleanup -> release -> idle

* `SubmitTask`, `WebhookSubmit`, `RejectSubmit`/`RecordFailure` are the three
  ways a row comes to exist.  `branched` is `len(activeBranches) > 0`; webhook
  and requeued tasks have none.
* `Acquire` and `GiveBack` model the Go channel: a full buffer blocks the sender
  in a FIFO queue (`waitq`), and a receive hands its place to the head of the
  queue in the same step.  Both runAnalysis and runNightlyIndex use them.  How the
  queue works is Go's; what the models ask about is what the code does with it.
* `CallsReturn` is a premise of `TasksEnd`: pulls and clones of `SyncAll`
  (workspace/sync.go:198, 207), database, Redis and the analysis itself run under
  `context.Background` (main.go:1088, 1120) without a deadline.  A pull that hangs
  keeps its slot, by default the only one, for ever.
* `SetStatus` and `SaveResult` stand for `_ = s.store.X(...)`: the write
  happens, or it fails, the error is dropped, and `lost` remembers the task so
  that properties can say precisely what the failure excuses.
* `CacheStore` is `cache.Set` whose failure is only logged.  `CacheMiss` is
  possible with the entry present because `Get` turns errors into misses.
* `CollectWorktree`, `CacheExpire`, `DeleteTaskCache` and `DeleteCacheBatch`
  come at any time; `DeleteAll` removes one scanned batch at a time.
* `Crash` loses everything in memory, at any step; `Restart` is `runServer`:
  worktrees removed, running rows requeued in one UPDATE, and exactly those
  launched again; when the UPDATE or the reading of its result fails, none is.
* A cache key stands for the input it hashes.

### AgentLoop

Runs are calls of `AgentLoop.Run`, files are named after a repository
(`worker-<RepoName>`, worker.go:566), `RepoOf` says which run uses which.  A message
is its kind, the run whose task it is about, and its number of tool calls; the
text is left out.  `LoadCheckpoint` is one step (the file is read at once);
`os.WriteFile` and `os.Rename` are three, because the temporary path is shared
by all runs of a name: `OpenTmp` truncates, `WriteTmp` writes through an open
descriptor, `RenameTmp` publishes.  `fd` says where the descriptor leads after
somebody else renamed or removed the path.  Two writers of one file leave one of
the two texts or a mixture (`Torn`).  A crash forgets the runs and keeps the
disk; each run then starts over.

Several batches of a repository share the name (worker.go:566), and what a run does
to the file of another is what the code promises nothing about.  `mixed` remembers the
names for which that happened: a run started while another of its name was under way, or
it found the file of another (`Mixes`).  `SeesOwnTask`, `CheckpointFiles`, the
budget and `RequestsPaired` hold for all names for which it has not, however many runs
use them one after the other; `loop_same_repo` shows what becomes of the others.

`executeTools` waits for its goroutines (`wg.Wait`, loop.go:409-453) without a deadline,
and the first call of the command line's LSP tool never returns (`lsp_deadlock`):
`CallTools` has no fairness, and that tools return is a premise of `RunEnds`
(`ToolsReturn`).

The system prompt is one message equal for all runs and is left out of `msgs`.
The slidingWindow threshold and tail are parameters, since only their relation
to the length of the conversation matters.  Not modelled: the token
budget manager (`WithBudgetManager` has no caller), reminders, and the Redis
checkpointer (no caller; README.md:745 says otherwise, which affects no run).

### RepoSync

One clone, one feature branch, one base branch.  Commits are numbered in push
order; the base branch is the list of what was merged into it, with a subject that
names the branch or not.  Git is external and modelled by what the code relies on: a
fetch or a clone holds `shallow.lock`, a pull holds `index.lock`, moving a ref takes
the ref's lock, a command refuses when its lock exists, and one that is killed
leaves it.  `Guarded` labels run under `repoFetchMu[repo]`; the clone before it, and the
pulls, clones and worktrees of runAnalysis, do not take it.  A git command may also
refuse for reasons the model does not know (no such branch, network, rewritten
history): `FetchFails` is enabled at every guarded point.

* `Diff` is the three-dot diff of a branch that is ahead of the base, `RecoverMergedBranchDiff`
  what replaces an empty one (main.go:1744-1751, 1771-1838): the newest merge commit on
  the base whose subject has the branch's name or its last segment.  The deepening
  fetch and second diff (main.go:1722-1731) are part of `Diff`.
* `RemoveStaleLocks` removes the files of `Removed`, not the lock of a ref.
* A crash requeues tasks whose row says running, those at `reading`; one whose row
  is still pending, because its pull or worktree came first (main.go:1199), is
  `stranded`.
* `Pulled` and `ClonedAnew` have no fairness: syncRepo's commands have no deadline.

Observed:

* The recovered diff may be that of another branch whose name ends like this one's, or of an
  older merge of this one, when the branch itself was merged under another subject:
  `DiffIsFresh` promises of it only that the base contained the branch.
* A fetch that is killed while it moves `origin/<branch>` leaves the ref's lock,
  which nothing removes, although main.go:1647 speaks of "any stale git lock files": every
  later submission of that branch fails.
* `index.lock` of a pull, which runs outside the mutex, may be removed while the pull is
  running.

### Orchestrator

`pc` is the place in `Run`:

    extract -> (graph) -> group -> cover -> triage -> round <-> work
    and from round to returned, from extract to failed, from graph to returned

A piece of work is a record of repository, file and name: `repo/path::func` has
all three, a function the extraction found without a path has `NoFile`, a
`FILE_CHANGED:` sentinel has the name `Whole`.  A batch key is a record too: the
repository, then the sanitised path, the priority or nothing, then the number of
the slice or merged batch.  What the code does to strings is kept where it
decides something:

* `KeyOf` is `sanitizeKey`, which maps both `/` and `.` to `_`: two files may
  share a key, and one key may begin or contain another (`Begins`, `Within`).
  `parseFileFuncTriple` reads a sentinel's repository as none it knows, so
  sentinels have no file in `Located`.
* `GroupByRepoAndFile` appends files of one key to one batch, but the numbered
  slices of a file with more than twenty functions are assigned, so that of two
  such files with one key the later wins.  `changed` is a function on places in
  the list because that order matters (`Rank`, `Before`).
* `CoverFile` adds one sentinel per step, each test seeing the batches before it.
* `Graph` leaves any subset of the functions uncovered.  The resolver reports
  them without the repository (`Strip`), so they have no file when grouped.
* `ApplyTriage` is one step: an answer of the model for any non-empty subset of
  the files (or P1 for all when the call or its parsing fails), the priority of
  each batch chosen among those whose file matches (the loop over a Go map stops
  at the first), P2 batches replaced by a sentinel made from the key, batches of
  one repository and priority merged up to `MaxMerge` at a time in any order.
* `Launch`, `WorkerReturns`, `WorkerFails`: the goroutines of a tier, at most
  `MaxWorkers` at once.  A panic and an error leave the same nil result.
  `TierDone` is `wg.Wait`.
* `MergeRound` is the rest of the loop body: results by repository, the output,
  the calls followed, the thin-trace guard, the next round's work.  A worker's
  `calls` are the union of its three sources (its own list, search results, nodes).
* The merged result of a repository is the one the Go map gives first (`Firsts`),
  to which the nodes, calls and entry points of the others are appended but not their
  ghost files and wide-impact functions (orchestrator.go:1516-1525).
* `Deduplicated` is mergeCrossRepoCalls, which compares repository and function before
  a call without a function becomes its file's sentinel (`Target`).

`handed`, `found`, `succeeded` and `demoted` are history; no guard reads them.

Reading the code for the model showed more than the properties state.  The
plateau counter (orchestrator.go:765) grows only in a round that queues nothing,
after which the loop ends, so its threshold of three is never reached and it is
left out.  The comment at triage.go:41 says files are P0 on error where the
default is P1.  The thin-trace guard looks up `pending[repoName]`, a key the
first round does not have after triage.  `visited` does not know the functions
of the diff, so a call back to one is analysed again, once.  The ghost files, of which the API warns, and the wide-impact
functions of a repository's second batch are lost to the first's.  Of several calls of one
repository to another that name no function all but one are dropped, whatever their files;
one that names neither is dropped always (orchestrator.go:666-668).  The step "ensure
every changed file has a Worker batch" (orchestrator.go:505) takes `a.c` for
covered when `a.cpp` has a batch.

Not modelled of `Run`: supplemental scenarios, the shadow report, rescued entry
points, write-back to Layer1, metrics.  None changes a batch, a result or a
round.  What a worker does inside (its agent loop is `AgentLoop`) is one step.

`AnalysisServer` and `RepoSync` see the same tasks from two sides: the first has
the queue, rows and cache, the second the clone; `Setup` of the first is
`Pull` ... `CreateWorktree` of the second.  They share no variable besides the worktrees.
`Orchestrator` is what happens between `MarkRunning` and `AnalysisSucceeds` or
`AnalysisFails` of the first, and each of its running workers is a run of
`AgentLoop`.  That one ends if the other does is what `RunEnds`, `AnalysisEnds` and
`TasksEnd` say one after the other: each has the calls it waits for as a premise,
because the code puts no deadline on them.

### Extraction

The diff is written by git one line at a time (`Header`, `Section`, `AddedLine`,
`RemovedLine`, `ContextLine`, `Mark`) from the files before and after the change,
so that every diff of these files within `MaxSections` is met and none git would
not write.  Each line at once moves both parsers, which keep their own line
number, context and flags (`scan`, `block`, `emitted`).  A line is its kind, name
and indentation: what the regular expressions of the code tell apart.  `call` is
a statement such as `return f(x)`, which the gitdiff tool takes for a
declaration; `async` a definition whose form extractFuncName does not know (async
def, export function, pub fn) and the look-up on disk does; `plus` a line that begins `++ `,
which with git's plus sign in front is read as a header (`StrayHeader`).  Either scanner
ends without an error at a line over 64 KB (`OverlongLine`; gitdiff.go:325 and 568, `Err` is
not asked): the files it has not come to are never read.  After `EndOfDiff` or
`OverlongLine` come the layers of `extractChangedFunctions`:
`NameHunk` (the name from the checked-out file, with `ResolveFuncHierarchy`
looking back at most `MaxScan` lines), `MatchHunk` (one query per hunk, with
`Reindexed` between two of them), `QueryFails`, `Ask`, `Answered`, `AskFails`.
The checked-out tree may be the diff's, an older one, one without the file, or
none.  `Enclosing` is the reference definition of the function a line is in; the
code's algorithm does not appear in it.

What the model shows besides its properties, each reachable in it or read in
passing:

* `ResolveFuncHierarchy` takes for the outer function the nearest unindented
  definition above, also when the line is in a class after it, where
  gitdiff.go:34 promises the enclosing one (`EnclosingAsked` speaks of lines that
  are in a module-level function).
* A hunk that only removes lines has no `DiffHunk`: nothing is traced from it
  unless the model names it.  A block that spans a function and an assignment at
  module level becomes the variable's and loses the function.
* `\ No newline at end of file` is counted as a line of the new file, so what is
  added after it is numbered one too high (`shifted`).
* With a workspace the file on disk decides even when it is missing, replacing
  git's correct name by a file sentinel (the comment at orchestrator.go:950 says
  the override corrects git's name), and a name qualified with its class never survives.
* The path answered by the index alone filters tests; the other leaves the
  entries of index and disk unfiltered (orchestrator.go:857 says tests are
  excluded).
* What follows a line that begins `++ ` in its file is put down to a file that does
  not exist (`misread`).  What follows a line over 64 KB is in no hunk, and when all hunks
  before it are found in the index the model never reads the diff: `EveryHunkLookedUp`
  speaks of hunks.
* Definitions such as `async def` are not reported by parseDiff.
* Whether a sentinel is a test's depends on its path read as a function's name
  (orchestrator.go:1965-2006): that of a file named `test_...` is filtered, that of one
  named `..._test` is not (`TestName`).

### Worker

`pc` follows `Analyse`: `trace`, `json`, `parse`, `backfill`, `filter`, `reported`,
`scen`, `ut`, `sweep`, `done` or `failed`.  A request is in flight while `call > 0`,
its value being the attempt; `Retry` is a transient error, `ScenarioFails`,
`UTFails` and `SweepFails` one that is final.  An answer is a shape (`prose`,
`short`, JSON of another shape, JSON) with a report; a search for a name is the
table `Hit`, tried variant by variant and directory by directory.  `FilterGhostNodes`
chooses how far the pass gets before its deadline.  `Merge` files an analysis
under the first function of its bare name (`BaseToQualified`), which is where
two functions of one name meet.

`Named` is what an answer names, before the parser.  `roots` says which directories
exist for the task: none, its repository, or a workspace beside it (`BackfillDirs`,
`RescueDirs`).

Observed: of two functions with one bare name the second loses an analysis under
the bare name, though worker.go:849-851 says both will be emitted; `AnswersKept` states
what the code keeps, with `First` for the function a bare name stands for.  The parser
drops import statements, entry points without a repository (worker.go:1046) and a
whole answer whose JSON does not fit (987-999) without a trace in the result. `FILE_CHANGED_VAR` entries count as
functions to test, contrary to the comment at 698; the final sweep is skipped
when more than eight functions are missing, which item 4 of the comment at 811
does not say; client.go:134 lists waits of 2, 4 and 8 seconds where three attempts
have two waits.  Left out of the result: calls to other repositories (they are
in `Orchestrator`), search results, wide impact and function analyses.

### SymbolIndex

Two writers, `nightly`, once the server's semaphore gave it a slot (`AcquireSlot`), and
`cli` (`index update` or `index rebuild`, which are processes of their own), walk through their repositories statement by
statement: `ReadHead`, `CheckMeta`, `Index`, `DeleteNodes`, `DeleteMeta`, `SaveNodes`,
`SaveEdges`, `SaveMetadata`.  `DeleteByRepo` is two statements without a transaction;
the edges go with their nodes (foreign key).  Commits of a repository are
numbered in the order its tree shows them, and pulls only move it forward.
`Found` is what an indexer finds in a commit and `Storable` the `WHERE EXISTS` of the
edge statement.  An indexer returns an error (`Broken`), or a result that may pass over
some of the declarations (`Lapses`): GoIndexer skips packages with errors
(indexer_go.go:60-63), PythonIndexer files it cannot open or scan (60-61, 110-113, 128).
`torn`, `shared` and `omitted` are history: they say what `CurrentIsComplete`
must excuse.

Observed: an index that lacks a package is saved and shown as CURRENT like a whole
one.  indexer_go.go:66 reads `CompiledGoFiles`, which the Mode at 41-47 does not request;
what the library then returns was not available to check.  `update` never deletes, so the rows of functions that are gone stay
until the next night.  When git fails twice, `update` compares "unknown" with
"unknown" and calls the repository current.  The comment at main.go:2097 speaks of
an atomic replacement.  A rebuild whose indexer fails leaves the repository
empty.  A caller's arity is always 0, so that calls are only stored for callers
without parameters to functions of the same file, and Python's import edges start at
a symbol no indexer declares: `BuildImportContext` finds none.

### Resolver

`LoadNodes` and `LoadEdges` are two queries between which an index run may come, so
edges are any subset of `Calls`, with or without their nodes.  Then one target at a
time: `Resolve`, `Dequeue` until the queue is empty, `MergeTarget`, and `Finish`.
The order of a node's callers is any (`Orders`).  `Within` is the reference: sets
reached by at most k calls.

Observed: a merged symbol keeps the depth of the first target that found it, so
that the number of direct callers, and with it the risk, may be understated; a
sole candidate is taken whatever repository was asked for; a target with a node and no
edges counts as covered; uncovered targets lose their repository.

### LSPClient

The mutex `t.mu` and the calls that lock it.  The rest of the protocol cannot be
reached: see the finding.  Behind it waits a second one, two callers reading one
stdout, which would skip each other's replies.  Only the command-line tool
registers this manager (cmd/analyze/main.go:92, 111).

## 3. Runs

### Passing runs

| Run | Instance | States | Question |
|---|---|---|---|
| `server_safety` | 2 tasks + nightly, 2 keys, 2 slots, 2 crashes, 2 lost writes | 301 k | are slots, rows, worktrees, results and cache consistent, and does the table keep the life cycle? |
| `server_liveness` | 2 tasks + nightly, 1 key, 1 slot, 2 crashes, 1 lost write | 51 k | is a waiter starved, a row forgotten? |
| `loop_safety` | 1 run, 4 steps, window 4 keeping 3, 2 calls per reply, 2 crashes, 2 faults | 792 k | does a run keep its task, its budget, its pairs and its file through crashes? |
| `loop_shared` | 2 runs on one path, 3 steps, window 2 keeping 1, 1 crash, 1 fault | 353 k | until two runs meet on a path, are file and task right, and does each end in any case? |
| `repo_sync` | 2 submissions, 1 push, 2 merges, 1 crash | 443 k | is the diff fresh, the mutex given back, the removal of locks safe? |
| `orchestrator` | 5 diffs, 2 repositories, 3 files on 2 keys, 3 rounds, 2 workers at once, slices and merges of 2 | 341 k | does every changed function and every call reach a worker, what is lost in the merges, does it end? |
| `extraction` | 2 files of 6 and 3 lines, a deleted one, 2 sections, 2 indexes | 3,989 k | are lines, names and look-ups right for every diff? |
| `worker` | 2 tasks, 4 shapes of answer, 3 layouts of the disk, chunks of 2, 3 attempts | 97 k | is nothing else lost, invented, unasked or asked for ever? |
| `symbol_index` | 3 repositories, 2 commits, a partial result, 1 run of the command, 1 fault or kill | 1,551 k | do hashes tell the truth, does a later night repair everything? |
| `resolver` | 5 symbols, 6 possible calls, depth 2, 4 inputs | 59 k | is the impact what is reachable? |

What their properties say that a unit test would hardly reach:

* `SlotAccounting`: the count holds over every mixture of cache hits, error returns,
  nightly runs, crashes and restarts.
* `RunningIsOwned`: why startup recovery may take exactly the running rows.  The
  exception is a row one of whose writes was dropped: `UpdateTaskStatus(failed)`
  that fails leaves a running row nobody works on until the next restart.
* `CompletedHasResult`, `AnswersOwnRequest`: the order save, complete, cache.
* `WorktreesOwned`: with the deferred removal and the startup cleanup.
* `LifecyclePromise`: refinement of `TaskLifecycle`, with `answer <- result`.
* `TasksEnd`: if calls return, a waiter gets its slot, a live task ends, and a row
  found running after the last crash is run again.
* `SeesOwnTask`, `RequestsPaired`: the window never drops the task; a call without
  result needs a resumption, a result without call needs a slide.  Both
  exceptions are reachable.  `TypeOK` of the loop includes that crashes do not
  refill the budget (`Budget`): a step is paid twice only when the crash or a
  failed save took its checkpoint.
* `CheckpointFiles`: what is found can be read, and an answered run leaves
  nothing to find.  For a name whose runs met, a reader can find a
  truncated file; `RunEnds` says that even then nobody goes on for ever.
* `DiffIsFresh`, `RemovalIsSafe`, `SubmissionEnds`: fetches, pulls and merges into one
  clone between the steps of a submission.
* `TierOrder`: serial tiers with batches waiting for slots.
* `NothingLost`: merges by batch, repository and round, with failures beside
  successes: all nodes, and the ghost files of one batch of each repository.
* `CallsFollowed`: a call is marked visited when it is queued; whatever was so
  marked is handed out, unless the cap on rounds ends the run.  Nameless calls that
  another displaced, and those with no file either, are its exceptions, both reachable.
* `ChangedCovered`: grouping, slicing, coverage, triage and merging lose no
  function.  The two exceptions, demotion and two split files of one key, are
  both reachable.
* `TracePromise`: refinement of `CallTracing`, with the frontier the work of the
  pending batches; `AnalysisEnds`.
* `ReadersExact`: two parsers, each with counters of its own, agree with git
  about which lines of the new file are added, whatever sections, removals and marks
  surround them, and lose two kinds only (`shifted`, `misread`).
* `EnclosingAsked`: the name asked about is that of the function the change is in.
* `EveryHunkLookedUp`: rows that vanish between two queries, or a query that fails
  after others matched, lose no hunk.
* `NothingElseLost`, `FilesExist`: two passes over the names, each cut by a
  deadline anywhere, together leave only files that exist or warnings.
* `FollowUpsComplete` (`EverythingAsked` and `AnswersKept`), `RequestsBounded`: chunks,
  repetitions, attempts and the sweep combined.
* `HashesTrue` (`LabelHonest` and `CurrentIsComplete`), `NightlyRepairs`: writers that
  know nothing of each other, failing anywhere, over trees that move.
* `ImpactIsReach`: the search and the merge against their definition, on every
  graph of the instance.

### Bounds

Two tasks and the nightly goroutine make three competitors for one or two slots:
a holder, a waiter and a second waiter, so that a hand-over with a non-empty
rest of the queue happens.  Two keys distinguish "same input" from "other
input"; deletions are unbounded.  Two crashes are in every server run because
the second finds rows the first recovery made pending.  In `loop_safety` four
replies with up to two calls make conversations several times longer than the
window of four, which slides repeatedly and cuts inside groups of calls; two
crashes let a run be resumed from a file it wrote after a resumption.  In
`loop_shared` two writers give all the interleavings of open, write, rename and
delete that a pair has, and runs one after the other on one name those in which they
do not mix.  In `repo_sync` the two merges are one of the branch and one that is
taken for it, in either order; one push tells a fresh diff from an old one.

In `orchestrator` one diff has two split files of one key and a file nobody
named, one has a function without a path in hybrid mode, one has nothing but
such a function, one has an inner function in a file whose key begins another's.
The reports are a dead end, a cycle between the repositories together with
a repository nobody configured, an inner function that leads nowhere, and a
whole file; three rounds queue, find again, and hit the cap with work left.  The
second worker slot and batches of three make a tier wait for a slot.
`MaxFuncs` and `MaxMerge` are 2 instead of 20 and 10: all that matters is that
lists are longer and shorter than they are.  TLC was asked separately whether
each of these cases is reached.

In `extraction` the files have a closure in a function, a class after it, a
class without parentheses, a test, and a constant, so that every branch of the naming is
taken; `MaxScan` 4 puts some lines out of the reach of the definition above
them, as 200 does in the code; the two indexes differ so that rows come and go
between queries.  Two sections are enough for counters to be carried over from
one to the next, within a file and across files.  In `worker` the chunk size 2 with four
functions gives two chunks and a sweep, and two functions share a bare name; the
names of nodes and entry points cover: exists, found by a variant, found in
another repository, not found, added by the diff.  In `symbol_index` two commits
of the Go repository rename a function and add a package that may be passed over, the indexer fails on a commit of the Python one, and
a third language is not indexed; one run of the command meets any moment of the
night.  Faults and kills share the bound `MaxFaults`.  In `resolver` the six
calls contain a self call, a cycle of two and two ways of different length; all
subsets of nodes and edges are tried.

Every counter bound (`MaxCrashes`, `MaxFaults`, `MaxHead`, `MaxRuns`, `MaxSections`)
guards only the environment's action it names.  Where a bound is exhausted, the
system goes on without that event.

Models whose work can be over state it as an explicit step (`Done`, `Finished`,
`Ended`), so deadlock checking is on in every passing run.

### Fairness

Fairness is put on steps the code does in bounded time.  Where it waits for
something without a deadline, that the wait ends is a premise of the liveness
property, stated as a formula beside it, and not fairness of the specification.

* AnalysisServer: `WF` on `Acquire` (a Go channel serves its senders in order) and
  `Release`, and on `Restart` (the pod is started again).  What lies between, pulls,
  queries and the analysis, is the premise `CallsReturn` of `TasksEnd`.
* AgentLoop: `WF(Bounded(r))`, everything but the tools: requests have the client's
  timeout, the rest is local.  `ToolsReturn` is the premise of `RunEnds`.
* RepoSync: `WF(Bounded(t))`: the commands of fetchBranchDiff have deadlines of 120
  seconds and 5 minutes.  `SF(Lock(t))`: a Go mutex in starvation mode hands over to a
  waiter, so one is not overtaken for ever.  `Pulled` and `ClonedAnew` have none, and
  `SubmissionEnds` needs none: they do not hold the mutex.
* Orchestrator: `WF(Prepare \/ Rounds)`: `Run` goes on while it can.  That workers return is
  the premise of `AnalysisEnds` (`WorkersReturn`): their tool calls have no deadline.
* SymbolIndex: none.  `NightlyRepairs` has the premise `NightsEnd`, that the nightly job
  begins and ends again and again: it waits for a slot that others must give back.
  The command need not end.
* LSPClient: `WF(Step(c))`: goroutines are scheduled.
* Nothing is assumed of clients, pushes, pulls, crashes, expiry or deletion.

No fairness is put on starting a run in AgentLoop or on submitting.  Extraction,
Worker and Resolver state none: their properties are about safety.

### Findings

In two runs TLC finds a quoted sentence of the repository violated.

| Run | Source says | Code does |
|---|---|---|
| `loop_same_repo` | loop.go:124: Run executes the loop for the given task | runs of one repository resume each other's conversation |
| `lsp_deadlock` | lsp.go:702-703: the manager reuses instances across multiple tool calls of a session | the first call that starts the server locks the mutex it holds, and neither it nor any later call returns |

Other disagreements, met in the models and stated here rather than in a run:

* main.go:240 says that a task left running runs again without resubmission.  The
  requeued row is pending; after a second crash nobody selects it.  `TasksEnd`
  therefore speaks of the last crash.
* README.md:668 and main.go:1535-1537 say that after DELETE the next submission is
  analysed afresh.  An analysis in flight stores its result afterwards
  (main.go:1422).
* loop.go:64 says each step is persisted for resumption.  The tool results of the
  last step are not (loop.go:253), so that the resumed request may have calls without
  results; `RequestsPaired` excuses exactly this.
* orchestrator.go:120 says all worker results are merged into one output.  A
  repository's entry of `WorkerOutputs` is replaced by each round (552), and unit-test
  suggestions and the summary are built from it.
* main.go:1647-1650 says a leftover lock means that its process is gone.  Pulls and
  clones take git's locks without the mutex, so that the lock removed (1656) may be live,
  and the locks of refs are not among those removed.
* worker.go:849-851 says of functions of one bare name that both will be emitted; the
  second's answer is taken for a repetition of the first's.
* gitdiff.go's readers promise the added lines of a diff; they end silently at a line over
  64 KB and misread one that begins `++ `.
* orchestrator.go:587-588 says merging the three sources of calls maximizes recall;
  calls without a function displace each other (1883-1897).

## 4. Proofs

Every component but `LSPClient` has a module of proofs, `*_proofs`, which extends it.
Each proves an inductive invariant `IInv` (or its parts), and from it every
invariant that the component's runs check, for every value of the constants that
satisfies the module's ASSUME, which TLC evaluates in the runs: for any number of
tasks, runs, files, crashes or faults.

| Module | Theorems | Properties that become `Spec => []...` |
|---|---|---|
| `AnalysisServer_proofs` | `TypeCorrect`, `SlotsCorrect`, `RunningCorrect`, `CompletedCorrect`, `AnswersCorrect`, `WorktreesCorrect`, `Implementation` | `TypeOK`, `SlotAccounting`, `RunningIsOwned`, `CompletedHasResult`, `AnswersOwnRequest`, `WorktreesOwned`; `Spec => LifecyclePromise` |
| `AgentLoop_proofs` | `TypeCorrect`, `TaskSeen`, `FilesUsable`, `Pairing` | `TypeOK`, `SeesOwnTask`, `CheckpointFiles`, `RequestsPaired` |
| `RepoSync_proofs` | `TypeCorrect`, `DiffsAreFresh`, `RemovalsSafe` | `TypeOK`, `DiffIsFresh`, `RemovalIsSafe` |
| `Orchestrator_proofs` | `TypeCorrect`, `TiersSerial`, `NoFindingLost`, `EveryCallFollowed`, `NoChangeDropped`, `ImplementsTracing` | `TypeOK`, `TierOrder`, `NothingLost`, `CallsFollowed`, `ChangedCovered`; `Spec => TracePromise` |
| `Extraction_proofs` | `TypeCorrect`, `ReadExactly`, `LookedUp`, `EnclosingNamed` | `TypeOK`, `ReadersExact`, `EveryHunkLookedUp`, `EnclosingAsked` |
| `Worker_proofs` | `TypeCorrect`, `NothingLost`, `OnlyFilesThatExist`, `AllAskedAndKept`, `AttemptsBounded` | `TypeOK`, `NothingElseLost`, `FilesExist`, `FollowUpsComplete`, `RequestsBounded` |
| `SymbolIndex_proofs` | `TypeCorrect`, `HashesAreTrue` | `TypeOK`, `HashesTrue` |
| `Resolver_proofs` | `TypeCorrect`, `SearchIsReach` | `TypeOK`, `ImpactIsReach` |

Each module also has `Inductive == Spec => []IInv` (`OwnInductive` in AgentLoop for
the second half).  No safety property is inductive as it stands; the sections below
say what each needs besides.  The step of the induction has one lemma per
action, or one per part of the invariant where several actions disturb it alike.

### AnalysisServer

The assumptions are `ServerAssumption` (the types of the constants, a finite
`Task`, `MaxConcurrent > 0`, `Nightly \notin Task`, `None \notin Key`) and
`NoneAssumption` (`None` is not a result).

That a slot is handed to a sleeping sender rests on `SenderInv`, what a Go channel
keeps of its blocked senders.  That a row is running only while somebody works on it depends on which statuses a
goroutine may see at each point.  `IInv` adds

* `PointsInv`: which labels a task, the nightly goroutine and a dead process have;
* `RowInv`: a goroutine before `MarkRunning` serves a pending row, one inside
  the analysis a running row (or a pending one whose write was lost), and the
  entry it loaded is there while it is used;
* `ResultInv`: results and cache entries come from rows that exist, with the
  same key, and entries from rows that were concluded;
* `TreeInv`: worktrees belong to tasks at a point of the checkout.

The argument.  `InitIInv` is direct.  The step is split by what is preserved, not by
action: `NextType` (types), `NextSlots` (`SlotAccounting` and `SenderInv`; the
holders are counted with `FS_AddElement` and `FS_RemoveElement`, and the hand-over
of `GiveBack` replaces one holder by another), `NextPoints`, `NextRows`,
`NextResults`, `NextRestart` (running rows and the restart), `NextTrees`.  Most of
these rest on `NextMoves`, which summarises every step as a move of one
goroutine between two labels with what the row gains, so that the later lemmas
do not open the actions again.  `LostGrows`, `RowPersists` and `NextCache` are the
monotonicity facts: excuses stay, existing rows keep their key, and the cache
changes in three ways only.  `NextIInv` puts them together.  `Implementation` uses
`IInv` as an invariant and maps each action to one of `TaskLifecycle` or a stutter
(`StepImplements`): `RowInv` is what makes `MarkRunning` and the two completions
find the row open.

### AgentLoop

Assumed: `LoopAssumption` (types of the constants) and `FileAssumption` (no
checkpoint is the marker of an empty, torn or missing file).  The invariant has
two halves, because the code keeps two different promises.

Whoever shares a file, `TalkInv` and `DiskInv` hold: what a run remembers, and what
a temporary or published file readably holds, is one conversation, its task
first and only there.  The lemmas behind it are about `SlidingWindowTruncate`
and the appended replies: a window over a conversation is a conversation
(the cut is after the seed, which is found by searching), and so is one with
tool results appended.

The rest is false for a name whose runs meet: one that resumes the other's
conversation does not see its own task (`loop_same_repo` is that run), pays
its steps from the other's count, and finds what the other is writing.  `OwnInv` speaks
of every name to which that has not happened, whatever `RepoOf` is: at most one run of the
name is under way (`Exclusive`); its descriptor leads to the name's temporary file, which
holds what it is about to publish; the published file can be read, and belongs to the run
under way (`Files`); replies the file does not know of were paid for with a crash or a
fault (`Spent`); every call but those of the last reply has a result unless the run resumed,
and every result its call unless the window slid (`Paired`).  When a run starts, `Mixes`
decides whether its name keeps these facts; all other steps are of the one run under way.
Each of the four theorems follows.

### RepoSync

Assumed: `RepoAssumption` (`None` is neither a number nor a task; `Free` and `Stale`
are two values and no tasks).  `IInv` adds `MutexInv` (the labels under the mutex
and its holder say the same), `HistoryInv` (no ref is newer than the branch, no diff of
the branch newer than its ref), `FreshInv` (between its fetch and its diff,
`origin/<branch>` is not older than the request: others only move it forward) and
`CloneInv` (whoever looked at the clone finds it, unless displaced; at `clean` nobody has
a lock on shallow, and a fetch under way has it itself).  A merge commit is used
only when the base contains the ref, hence the request's commit.  The second part of `CloneInv` is where the argument needs the mutex: the fetches of the
others are behind it, and a clone outside it only begins when there is none.

### Orchestrator

Assumed: `OrchestratorAssumption` (types of the constants; keys are not priorities;
workers report what a report can be).

`NothingLost` and `CallsFollowed` speak of the end of a round or of the run; what
makes them inductive is what holds in the middle:

* `OutputInv`: whoever succeeded is in the output, with the ghost files of some batch of
  its repository and round, or has a result of this round;
* `FoundInv`: what the round's workers found is in their results, and is queued or displaced
  once these are merged;
* `HandedInv`: what was queued is handed out, or belongs to a batch not launched;
* `TierInv`: running batches belong to the current tier and earlier tiers have
  all their results, which at the last tier makes every batch have one;
* `WorkInv`, `StartInv`, `KeysInv`: where workers run, what is empty before the
  first round, that a later round has work, and which keys batches have when.

The first lemmas say that grouping, coverage, triage and the next round's work
make typed batches from typed work (`GroupingIsTyped` needs that ranks are
positive, hence the cardinality facts; `NewWorkIsTyped` also that grouping by
repository loses nothing).  Then `PrepareIInv`, `LoopIInv`, `LaunchIInv`,
`ConcludeIInv` and `MergeIInv` take the actions one after the other.
`MergeTraces` is the heart of the refinement: a round's new work is disjoint from
`visited` because `NewWork` subtracts it, and a later round has work because
`ByRepo` of something is something.

`NoChangeDropped` follows a changed function through `CoverInv`: in a batch before
triage, in a batch or demoted after it, in a batch not launched, handed out or demoted while
workers run.  Grouping is the hard step.  A function of a file that is split has a
rank between 1 and the number of functions of the file, so that the slice
its rank falls in exists; the slice is the one assigned last unless another split
file of the same key comes later, which is the exception `Overwritten` names; one of
a file not split is appended.  Which group a place in the list belongs to is found as
the least or greatest number of a finite set (`SmallestOf`, `LargestOf`).

### Extraction

Assumed: `ExtractionAssumption` (types of the files and indexes; the order of the files
in the diff names each once).

`ReadersExact` speaks of what was read so far, so that the invariant follows git:
`Position` (both readers are at git's line, or one past it after a no-newline mark),
`BlockInv` (the block under way ends at that line), and `Additions` (the added lines so
far that are not misread are exactly those of the hunks and the block, the hunks of a file
in order and apart from each other, but for a file whose numbers are shifted; after a line
that begins `++ ` the readers are in a file of no name git has).  There is one
lemma per kind of line.  For the layers, `NamedInv`, `LookupInv` and
`ResultInv` say where a hunk is after each: among the keys once named, among the
uncovered or matched once looked up, in what the model reads once asked.
`LookedUp` holds of any sequence of indexes, because `symbols` only grows.
`EnclosingNamed` is about the algorithm of `ResolveFuncHierarchy` against the
declarative `Enclosing`: from a line inside a module-level function, the
nearest unindented definition above, if within `MaxScan`, is that function, since
nothing between has no indentation.

### Worker

Assumed: `WorkerAssumption`, the types of the tables that stand for tasks, answers and
files, with one that says something: a search finds existing files or nothing.  `IInv` adds

* `FilesInv`: what the answer named is carried through the backfill, as it was or
  with a file that was found;
* `CallInv`: the attempts counted for a chunk are those of the request in flight, and,
  when the chunk is asked again, at most `MaxAttempts` of the one before;
* `AskInv`: the prompts so far have named what the first `i` chunks list, or
  `i + 1` while a request is in flight;
* `Filed`, what the analyses kept so far say of the replies.

For `FilterGhostNodes` every node of a list is in the part with a file or among the
ghosts, every ghost before or after the deadline, and each of these is kept, rescued
or reported (`InTimeOrLate`, `FilterStep`).  For `FollowUpsComplete` the chunks of a
list together have every element (each place is in some chunk, and after the last chunk
`i * size` is at least the length), and the chunk of a place is found by division.

### SymbolIndex

Assumed: `IndexAssumption` (types; histories are not empty; the three markers are
different from commits).  `LabelHonest` needs `LabelInv`
(no label is of a commit the tree has not shown yet: else a pull could make it
lie) and `CarryInv` (the hash a writer carries is never newer than the commit its
indexer read, and that not newer than the tree): then a row labelled with the tree's
commit was read from it.  `CurrentIsComplete` needs `SharedInv` (two writers at one
repository are recorded in `shared`) and `SavedInv` (what a writer saved is there
when it writes the metadata, unless another came; what it lacks is in `omitted`).
One lemma per statement.

### Resolver

Assumed: `ResolverAssumption` (types; `Id` is finite: the rows of a database).  The
theorem is the correctness of the breadth-first search for every graph, cyclic or torn, and
every depth.  `Away(x, S, k)` says that k calls are the least by which x reaches S.
`SearchInv` has what a search of this kind relies on: marks and queue carry that
distance; a visited symbol is in the queue, or its callers are visited too, or it
is `MaxDepth` away; and everything as near as the head of the queue is
visited.  With `TypeOK`, by which the queue holds two neighbouring depths in
order, the callers of the head that are not marked are exactly one further away
(`DequeueStep`), and when the queue is empty the marks are closed under callers
up to the depth, hence they are `Within(starts)[MaxDepth]` (`SearchFinds`).
`MergeInv` says the same of the targets merged so far.

### On induction

The induction theorems of the library take an operator as parameter, which the
provers cannot instantiate.  Where a proof needs induction over numbers (that a
recursive function on `0..n` is what its equation says, that `Filter` keeps exactly
the elements it should, that `Within` grows) it is done with a set: every set with 0 that is
closed under successor contains `Nat` (`SetInduction`), which follows from the
well-foundedness of `<`, stated without operators.  `Worker` defines its `Filter` as a
recursive function for that reason, `SelectSeq` having neither facts nor a body the
provers can open.

### Only model-checked

* `TasksEnd`, `RunEnds`, `SubmissionEnds`, `AnalysisEnds`, `NightlyRepairs`: liveness,
  beyond the prover because of fairness and ENABLED.
* `LSPClient`, whose one property is violated.
* The two violations, `AnswersOwnTask` and `CallsReturn` of `LSPClient`, for what they are.

## 5. What is not modelled

* The composition of a worker with the other models: in `Orchestrator` a worker is
  one step that reports or fails, in `Worker` the agent loop is one step that
  answers, in `AnalysisServer` a whole analysis is.
* The fields of a result: `Result` says which run computed it, not what it says.
  A cached result lacks the unit-test suggestions, hops, risk and index coverage
  although README.md:625 says a completed task has its result fields filled.
* What a worktree or clone contains, so that the GC taking a live worktree, or a
  pull moving files under a search, has no modelled effect.
* Of the indexers, the parsing of source: a commit is a set of declarations and
  uses.
* Of a webhook, the reading of the event: a redelivered one is a second
  `WebhookSubmit`.
* Prompts, report, contract scanner: text without state.
* Tools other than gitdiff and LSP: child processes and file reads that keep no
  state; metrics, tracing, logging.
* Code without a caller in production: the tool cache, `StreamComplete`, the self
  check, the collector of feedback, Layer2 and Layer3, `WithBudgetManager`, the
  contract matcher.  The configuration watcher runs, but its callback in
  runServer discards the new value.
* Benchmark and shadow evaluation: offline scoring.
* The rest of the CLI: one sequential analysis, which shares the checkpoint
  directory.

Assumptions a reader should know: `loop_safety` has one run (several on one name are in
`loop_shared` and `loop_same_repo`); all
runs of one instance have the same step budget; PostgreSQL statements and Redis
commands are atomic, and so is a transaction of the index; one server process at
a time.

## 6. Plan

Modelling that would add something: the shared `orchestrator-extract` checkpoint
of concurrent analyses; AnalysisServer and RepoSync composed, to relate the
result cached under a key to the tree it was computed on, with the invariants proved
of both as lemmas.

Of the proofs, every safety property a passing run checks has its theorem.  A proof that
`LSPClient` grants its mutex once is only worth writing when its deadlock is gone.
