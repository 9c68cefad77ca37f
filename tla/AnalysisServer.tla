--------------------------- MODULE AnalysisServer ---------------------------
(***************************************************************************)
(* The HTTP server of cmd/server/main.go and the stores it drives: the     *)
(* task table of internal/storage, the Redis result cache of               *)
(* internal/cache, the analysis semaphore shared by runAnalysis and the    *)
(* nightly index, and the per-task worktree directories.  Every task runs  *)
(* as one goroutine whose program counter is pc[t]; the process may crash  *)
(* at any step and is started again, upon which the rows it left "running" *)
(* are requeued.  Database writes whose error the code drops may fail.     *)
(***************************************************************************)
EXTENDS Naturals, Sequences, FiniteSets

CONSTANTS Task,           \* task ids
          Key,            \* cache keys (equal inputs have equal keys)
          Nightly,        \* the nightly index goroutine
          None,           \* no result, no cache entry, no key
          MaxConcurrent,  \* cfg.Server.MaxConcurrentAnalyses
          MaxCrashes,     \* bound: process crashes
          MaxFaults       \* bound: failed database writes

ASSUME ServerAssumption ==
    /\ MaxConcurrent \in Nat \ {0}
    /\ MaxCrashes \in Nat /\ MaxFaults \in Nat
    /\ Nightly \notin Task
    /\ None \notin Key
    /\ IsFiniteSet(Task)

VARIABLES
    up,         \* the server process is alive
    status,     \* analysis_tasks.status
    key,        \* analysis_tasks.cache_key
    result,     \* newest analysis_results row of the task
    cache,      \* Redis: shirakami:cache:<key>
    worktree,   \* tasks with a directory under <workspace>/.worktrees
    pc,         \* goroutine of each task and of the nightly index
    branched,   \* runAnalysis argument: activeBranches is not empty
    loaded,     \* the entry cache.Get returned to the goroutine
    sem,        \* len(s.semaphore)
    waitq,      \* goroutines blocked on s.semaphore <- struct{}{}, oldest first
    lost,       \* history: tasks one of whose writes failed unnoticed
    crashes, faults

db == <<status, key, result>>
goroutine == <<branched, loaded>>
slots == <<sem, waitq>>
vars == <<up, status, key, result, cache, worktree, pc, branched,
          loaded, sem, waitq, lost, crashes, faults>>

Actor == Task \cup {Nightly}
Terminal == {"completed", "failed"}
Status == {"none", "pending", "running"} \cup Terminal

\* An analysis result is where it comes from: the task whose run computed it.
\* What its fields say is left out, so that a result read from the cache, whose entry has no
\* UTSuggestions, CrossRepoHops, Risk or IndexCoverage, is the same result.
Result == [by : Task]

ASSUME NoneAssumption == None \notin Result

\* Program points of runAnalysis between taking the semaphore and giving it back.
Holding == {"setup", "lookup", "hit", "hitSaved", "missed", "analysing",
            "analysed", "saved", "persisted", "cleanup", "release", "indexing"}
PC == {"idle", "rejecting", "start", "waiting"} \cup Holding

Init ==
    /\ up = TRUE
    /\ status = [t \in Task |-> "none"]
    /\ key = [t \in Task |-> None]
    /\ result = [t \in Task |-> None]
    /\ cache = [k \in Key |-> None]
    /\ worktree = {}
    /\ pc = [a \in Actor |-> "idle"]
    /\ branched = [t \in Task |-> FALSE]
    /\ loaded = [t \in Task |-> None]
    /\ sem = 0
    /\ waitq = <<>>
    /\ lost = {}
    /\ crashes = 0
    /\ faults = 0

Goto(a, label) == pc' = [pc EXCEPT ![a] = label]

\* A write the code performs as "_ = s.store.X(...)": it happens, or its
\* error is dropped and the goroutine goes on.
WriteHappens == UNCHANGED <<lost, faults>>
WriteFails(t) ==
    /\ faults < MaxFaults
    /\ faults' = faults + 1
    /\ lost' = lost \cup {t}

SetStatus(t, s) ==
    \/ status' = [status EXCEPT ![t] = s] /\ WriteHappens
    \/ UNCHANGED status /\ WriteFails(t)

SaveResult(t, r) ==
    \/ result' = [result EXCEPT ![t] = r] /\ WriteHappens
    \/ UNCHANGED result /\ WriteFails(t)

-----------------------------------------------------------------------------
(* Submission.                                                             *)

\* store.CreateTask: a new row, always pending.
CreateRow(t, k) ==
    /\ status[t] = "none"
    /\ status' = [status EXCEPT ![t] = "pending"]
    /\ key' = [key EXCEPT ![t] = k]

\* POST /api/v1/tasks: the diff is there (given, or fetched from a branch).
SubmitTask(t, k, b) ==
    /\ up
    /\ CreateRow(t, k)
    /\ Goto(t, "start")
    /\ branched' = [branched EXCEPT ![t] = b]
    /\ UNCHANGED <<up, result, cache, worktree, loaded, slots, lost, crashes,
                   faults>>

\* POST /api/v1/webhook: an actionable merge-request event; no branches.
WebhookSubmit(t, k) ==
    /\ up
    /\ CreateRow(t, k)
    /\ Goto(t, "start")
    /\ UNCHANGED <<up, result, cache, worktree, goroutine, slots, lost,
                   crashes, faults>>

\* The branch diff failed: recordFailedSubmit creates the row ...
RejectSubmit(t, k) ==
    /\ up
    /\ CreateRow(t, k)
    /\ Goto(t, "rejecting")
    /\ UNCHANGED <<up, result, cache, worktree, goroutine, slots, lost,
                   crashes, faults>>

\* ... and marks it failed in a second statement.
RecordFailure(t) ==
    /\ pc[t] = "rejecting"
    /\ SetStatus(t, "failed")
    /\ Goto(t, "idle")
    /\ UNCHANGED <<up, key, result, cache, worktree, goroutine, slots,
                   crashes>>

-----------------------------------------------------------------------------
(* The semaphore: a buffered channel.  A sender that finds the buffer full *)
(* blocks in a queue; a receiver hands its place to the oldest sender.     *)

Admitted(a) == IF a = Nightly THEN "indexing" ELSE "setup"

\* Seeded fault: the channel has no capacity.
AcquireUnbounded(a) ==
    /\ pc[a] = "start"
    /\ sem' = sem + 1
    /\ Goto(a, Admitted(a))
    /\ UNCHANGED <<up, db, cache, worktree, goroutine, waitq, lost, crashes,
                   faults>>

Acquire(a) ==
    /\ pc[a] = "start"
    /\ \/ /\ sem < MaxConcurrent
          /\ sem' = sem + 1
          /\ Goto(a, Admitted(a))
          /\ UNCHANGED waitq
       \/ /\ sem = MaxConcurrent
          /\ waitq' = Append(waitq, a)
          /\ Goto(a, "waiting")
          /\ UNCHANGED sem
    /\ UNCHANGED <<up, db, cache, worktree, goroutine, lost, crashes, faults>>

\* Seeded fault: the slot is handed over and freed as well.
GiveBackTwice(a) ==
    /\ sem' = sem - 1
    /\ waitq' = IF waitq = <<>> THEN waitq ELSE Tail(waitq)
    /\ pc' = [b \in Actor |-> IF b = a THEN "idle"
                              ELSE IF waitq # <<>> /\ b = Head(waitq)
                                   THEN Admitted(b) ELSE pc[b]]

GiveBack(a) ==
    \/ /\ waitq = <<>>
       /\ sem' = sem - 1
       /\ Goto(a, "idle")
       /\ UNCHANGED waitq
    \/ /\ waitq # <<>>
       /\ waitq' = Tail(waitq)
       /\ pc' = [pc EXCEPT ![a] = "idle", ![Head(waitq)] = Admitted(Head(waitq))]
       /\ UNCHANGED sem

Release(t) ==
    /\ pc[t] = "release"
    /\ GiveBack(t)
    /\ UNCHANGED <<up, db, cache, worktree, goroutine, lost, crashes, faults>>

-----------------------------------------------------------------------------
(* runAnalysis, once it holds a slot.                                      *)

\* SyncAll, then one worktree per active branch under the task's directory;
\* where not even that can be made, the analysis uses master.
Setup(t) ==
    /\ pc[t] = "setup"
    /\ \/ branched[t] /\ worktree' = worktree \cup {t}
       \/ UNCHANGED worktree
    /\ Goto(t, "lookup")
    /\ UNCHANGED <<up, db, cache, branched, loaded, slots, lost, crashes,
                   faults>>

CacheHit(t) ==
    /\ pc[t] = "lookup"
    /\ cache[key[t]] # None
    /\ loaded' = [loaded EXCEPT ![t] = cache[key[t]]]
    /\ Goto(t, "hit")
    /\ UNCHANGED <<up, db, cache, worktree, branched, slots, lost, crashes,
                   faults>>

\* cache.Get reports an error as a miss, so a present entry may be missed too.
CacheMiss(t) ==
    /\ pc[t] = "lookup"
    /\ Goto(t, "missed")
    /\ UNCHANGED <<up, db, cache, worktree, branched, loaded, slots, lost,
                   crashes, faults>>

\* Seeded fault: a cache hit completes the task without saving its result.
SaveCachedNothing(t) ==
    /\ pc[t] = "hit"
    /\ Goto(t, "hitSaved")
    /\ UNCHANGED <<up, db, cache, worktree, goroutine, slots, lost, crashes,
                   faults>>

SaveCached(t) ==
    /\ pc[t] = "hit"
    /\ SaveResult(t, loaded[t])
    /\ Goto(t, "hitSaved")
    /\ UNCHANGED <<up, status, key, cache, worktree, goroutine, slots,
                   crashes>>

CompleteCached(t) ==
    /\ pc[t] = "hitSaved"
    /\ SetStatus(t, "completed")
    /\ Goto(t, "cleanup")
    /\ UNCHANGED <<up, key, result, cache, worktree, goroutine, slots,
                   crashes>>

MarkRunning(t) ==
    /\ pc[t] = "missed"
    /\ SetStatus(t, "running")
    /\ Goto(t, "analysing")
    /\ UNCHANGED <<up, key, result, cache, worktree, goroutine, slots,
                   crashes>>

\* The checkpoint directory cannot be made, or orch.Run returned an error.
AnalysisFails(t) ==
    /\ pc[t] = "analysing"
    /\ SetStatus(t, "failed")
    /\ Goto(t, "cleanup")
    /\ UNCHANGED <<up, key, result, cache, worktree, goroutine, slots,
                   crashes>>

\* What orch.Run computed for t.
Output(t) == [by |-> t]

\* Seeded fault: the output is cached before it is persisted.
AnalysisSucceedsAndCaches(t) ==
    /\ pc[t] = "analysing"
    /\ cache' = [cache EXCEPT ![key[t]] = Output(t)]
    /\ Goto(t, "analysed")
    /\ UNCHANGED <<up, db, worktree, goroutine, slots, lost, crashes, faults>>

AnalysisSucceeds(t) ==
    /\ pc[t] = "analysing"
    /\ Goto(t, "analysed")
    /\ UNCHANGED <<up, db, cache, worktree, goroutine, slots, lost, crashes,
                   faults>>

SaveFresh(t) ==
    /\ pc[t] = "analysed"
    /\ SaveResult(t, Output(t))
    /\ Goto(t, "saved")
    /\ UNCHANGED <<up, status, key, cache, worktree, goroutine, slots,
                   crashes>>

CompleteFresh(t) ==
    /\ pc[t] = "saved"
    /\ SetStatus(t, "completed")
    /\ Goto(t, "persisted")
    /\ UNCHANGED <<up, key, result, cache, worktree, goroutine, slots,
                   crashes>>

\* cache.Set, whose error is dropped, comes after the row is completed.
CacheStore(t) ==
    /\ pc[t] = "persisted"
    /\ \/ cache' = [cache EXCEPT ![key[t]] = Output(t)]
       \/ UNCHANGED cache
    /\ Goto(t, "cleanup")
    /\ UNCHANGED <<up, db, worktree, goroutine, slots, lost, crashes, faults>>

\* Deferred: remove the worktrees and the task's directory, then (Release)
\* give the slot back.
Cleanup(t) ==
    /\ pc[t] = "cleanup"
    /\ worktree' = worktree \ {t}
    /\ branched' = [branched EXCEPT ![t] = FALSE]
    /\ loaded' = [loaded EXCEPT ![t] = None]
    /\ Goto(t, "release")
    /\ UNCHANGED <<up, db, cache, slots, lost, crashes, faults>>

-----------------------------------------------------------------------------
(* The nightly index takes a slot of the same semaphore.                   *)

NightlyFires ==
    /\ up
    /\ pc[Nightly] = "idle"
    /\ Goto(Nightly, "start")
    /\ UNCHANGED <<up, db, cache, worktree, goroutine, slots, lost, crashes,
                   faults>>

NightlyDone ==
    /\ pc[Nightly] = "indexing"
    /\ GiveBack(Nightly)
    /\ UNCHANGED <<up, db, cache, worktree, goroutine, lost, crashes, faults>>

-----------------------------------------------------------------------------
(* Cache maintenance.                                                      *)

\* One DEL command removes the keys K.
Del(K) ==
    /\ cache' = [k \in Key |-> IF k \in K THEN None ELSE cache[k]]
    /\ UNCHANGED <<up, db, worktree, pc, goroutine, slots, lost, crashes,
                   faults>>

\* DELETE /api/v1/tasks/{id}/cache
DeleteTaskCache(t) ==
    /\ up
    /\ status[t] # "none"
    /\ Del({key[t]})

\* DELETE /api/v1/cache: DeleteAll removes one batch of scanned keys at a time.
DeleteCacheBatch ==
    /\ up
    /\ LET present == {k \in Key : cache[k] # None}
       IN \E K \in SUBSET present : K # {} /\ Del(K)

\* An entry outlives its TTL.
CacheExpire(k) ==
    /\ cache[k] # None
    /\ cache' = [cache EXCEPT ![k] = None]
    /\ UNCHANGED <<up, db, worktree, pc, goroutine, slots, lost, crashes,
                   faults>>

\* The periodic GC removes a directory made more than two hours ago, that of a
\* task still being analysed as well.
CollectWorktree(t) ==
    /\ up
    /\ t \in worktree
    /\ worktree' = worktree \ {t}
    /\ UNCHANGED <<up, db, cache, pc, goroutine, slots, lost, crashes, faults>>

-----------------------------------------------------------------------------
(* Crash and restart.                                                      *)

Crash ==
    /\ up
    /\ crashes < MaxCrashes
    /\ crashes' = crashes + 1
    /\ up' = FALSE
    /\ pc' = [a \in Actor |-> "idle"]
    /\ branched' = [t \in Task |-> FALSE]
    /\ loaded' = [t \in Task |-> None]
    /\ sem' = 0
    /\ waitq' = <<>>
    /\ UNCHANGED <<db, cache, worktree, lost, faults>>

\* Seeded faults: the query selects the wrong rows.
PendingOrphans == {t \in Task : status[t] = "pending"}
FailedOrphans == {t \in Task : status[t] \in {"running", "failed"}}

Orphans == {t \in Task : status[t] = "running"}

\* RequeueOrphanedTasks: the UPDATE of every row left running.
Requeue ==
    status' = [t \in Task |-> IF t \in Orphans THEN "pending" ELSE status[t]]

\* Seeded fault: the requeued rows are only counted.
RelaunchNone(T) == UNCHANGED pc

\* One goroutine, without branches, for every requeued row.
Relaunch(T) == pc' = [a \in Actor |-> IF a \in T THEN "start" ELSE pc[a]]

\* Seeded fault: worktrees of the dead process are kept.
CleanupNothing == UNCHANGED worktree

\* CleanupWorktrees(dir, 0): every directory under .worktrees goes.
CleanupWorktrees == worktree' = {}

\* runServer.  When RequeueOrphanedTasks fails, before or after its UPDATE
\* took effect, no task is launched.
Restart ==
    /\ ~up
    /\ up' = TRUE
    /\ CleanupWorktrees
    /\ \/ Requeue /\ Relaunch(Orphans) /\ WriteHappens
       \/ /\ faults < MaxFaults
          /\ faults' = faults + 1
          /\ lost' = lost \cup Orphans
          /\ Requeue \/ UNCHANGED status
          /\ UNCHANGED pc
    /\ UNCHANGED <<key, result, cache, goroutine, slots, crashes>>

-----------------------------------------------------------------------------
\* The steps of the goroutine that serves task t.
Step(t) ==
    \/ RecordFailure(t) \/ Acquire(t) \/ Setup(t)
    \/ CacheHit(t) \/ SaveCached(t) \/ CompleteCached(t)
    \/ CacheMiss(t) \/ MarkRunning(t) \/ AnalysisFails(t) \/ AnalysisSucceeds(t)
    \/ SaveFresh(t) \/ CompleteFresh(t) \/ CacheStore(t)
    \/ Cleanup(t) \/ Release(t)

NightlyStep == Acquire(Nightly) \/ NightlyDone

Submit(t) ==
    \E k \in Key :
        \/ \E b \in BOOLEAN : SubmitTask(t, k, b)
        \/ WebhookSubmit(t, k)
        \/ RejectSubmit(t, k)

Next ==
    \/ \E t \in Task : Submit(t) \/ Step(t) \/ DeleteTaskCache(t) \/ CollectWorktree(t)
    \/ NightlyFires \/ NightlyStep
    \/ DeleteCacheBatch
    \/ \E k \in Key : CacheExpire(k)
    \/ Crash \/ Restart

\* The Go scheduler runs every runnable goroutine and the pod is restarted;
\* clients, crashes, the clock and the cache owe nothing, and neither does what a
\* goroutine calls: git, the database, Redis and the analysis are called under
\* context.Background, without a deadline.
Fairness ==
    /\ \A t \in Task : WF_vars(Acquire(t) \/ Release(t))
    /\ WF_vars(Acquire(Nightly))
    /\ WF_vars(Restart)

Spec == Init /\ [][Next]_vars
FairSpec == Spec /\ Fairness

-----------------------------------------------------------------------------
(* Properties.                                                             *)

\* Every variable has its type.
TypeOK ==
    /\ up \in BOOLEAN
    /\ status \in [Task -> Status]
    /\ key \in [Task -> Key \cup {None}]
    /\ result \in [Task -> Result \cup {None}]
    /\ cache \in [Key -> Result \cup {None}]
    /\ worktree \in SUBSET Task
    /\ pc \in [Actor -> PC]
    /\ branched \in [Task -> BOOLEAN]
    /\ loaded \in [Task -> Result \cup {None}]
    /\ sem \in 0..MaxConcurrent
    /\ waitq \in Seq(Actor)
    /\ lost \in SUBSET Task
    /\ crashes \in 0..MaxCrashes /\ faults \in 0..MaxFaults

Holders == {a \in Actor : pc[a] \in Holding}

\* The semaphore counts exactly the goroutines between taking a slot and
\* giving it back, never more than MaxConcurrentAnalyses, whatever mixture of
\* tasks and nightly indexing, error returns, crashes and restarts led there.
SlotAccounting == sem = Cardinality(Holders) /\ sem <= MaxConcurrent

\* While the server is up, a row says "running" only if a goroutine is inside
\* the analysis, or a database write for that task failed unnoticed: this is
\* what makes requeueing exactly the running rows at startup safe.
RunningIsOwned ==
    up => \A t \in Task : status[t] = "running" =>
              pc[t] \in {"analysing", "analysed", "saved"} \/ t \in lost

\* A completed task has a result unless one of its writes was lost: on both
\* paths of runAnalysis the result is saved before the row is completed.
CompletedHasResult ==
    \A t \in Task : status[t] = "completed" => result[t] # None \/ t \in lost

\* The result a task serves was computed for the same cache key, across cache
\* hits, requeues and deletions, and the cache holds under a key only what a
\* run for that key completed (cache.Set comes after the row is completed).
AnswersOwnRequest ==
    /\ \A t \in Task : result[t] # None => key[result[t].by] = key[t]
    /\ \A k \in Key : cache[k] # None =>
          /\ key[cache[k].by] = k
          /\ status[cache[k].by] = "completed" \/ cache[k].by \in lost

\* While the server is up no worktree outlives the goroutine that made it:
\* error returns and cache hits clean up, and what a crash left is removed
\* before the restarted server serves anybody.
WorktreesOwned == up => worktree \subseteq Holders

\* The table implements what the API promises about each task: statuses only
\* move forward, except that a restart requeues every running row, and a
\* completed or failed task never changes its status or its answer again.
Lifecycle == INSTANCE TaskLifecycle
                 WITH Answer <- Result, NoAnswer <- None, answer <- result
LifecyclePromise == Lifecycle!Spec

\* A goroutine blocked on the semaphore gets a slot, unless the process dies:
\* channel senders are served in order, so no stream of tasks starves one.
SlotEventuallyGranted ==
    \A a \in Actor : pc[a] = "waiting" ~> (pc[a] # "waiting")

\* A task left running by the last crash is run again and ends, as long as
\* the database accepts its writes.
OrphanRecovered ==
    \A t \in Task :
        (~up /\ crashes = MaxCrashes /\ status[t] = "running")
            ~> (status[t] \in Terminal \/ t \in lost)

\* A submitted task whose goroutine lives ends, unless the process dies or a
\* database write is lost: no path of runAnalysis forgets the row.
LiveTaskEnds ==
    \A t \in Task :
        pc[t] # "idle" ~> (status[t] \in Terminal \/ t \in lost \/ ~up)

\* Points at which a goroutine waits for something outside it.
Calling == {"rejecting"} \cup (Holding \ {"release"})

\* No call hangs for ever: what nothing in the server sees to.
CallsReturn == \A a \in Actor : \A point \in Calling : []<>(pc[a] # point)

\* As long as no pull, query or analysis hangs for ever, nothing submitted is
\* forgotten: whoever waits gets a slot, a task with a goroutine ends, and what
\* the last crash left running is run again.  One that hangs keeps its slot.
TasksEnd == CallsReturn => SlotEventuallyGranted /\ LiveTaskEnds /\ OrphanRecovered

-----------------------------------------------------------------------------
(* The inductive strengthening under which the proofs go through: what each *)
(* program point of a goroutine says about the row it serves.              *)

\* Points before the row leaves "pending", points inside the analysis, and
\* points after the row was concluded.
Queued == {"rejecting", "start", "waiting", "setup", "lookup", "hit",
           "hitSaved", "missed"}
Inside == {"analysing", "analysed", "saved"}
Concluded == {"idle", "persisted", "cleanup", "release"}

\* What a Go channel keeps of its blocked senders: none while the buffer has room,
\* each once.
SenderInv ==
    /\ waitq # <<>> => sem = MaxConcurrent
    /\ {waitq[i] : i \in 1..Len(waitq)} = {a \in Actor : pc[a] = "waiting"}
    /\ \A i, j \in 1..Len(waitq) : waitq[i] = waitq[j] => i = j

\* Points at which a task may have a worktree.
Checkout == {"lookup", "hit", "hitSaved", "missed", "analysing", "analysed",
             "saved", "persisted", "cleanup"}

TreeInv == up => \A t \in worktree : pc[t] \in Checkout

\* A task's goroutine never is at the nightly index's point nor the reverse,
\* and a dead process has no goroutine.
PointsInv ==
    /\ \A t \in Task : pc[t] \in Queued \cup Inside \cup Concluded
    /\ pc[Nightly] \in {"idle", "start", "waiting", "indexing"}
    /\ ~up => \A a \in Actor : pc[a] = "idle"

\* The row a goroutine serves is still open until the goroutine concludes it.
RowInv ==
    /\ \A t \in Task : status[t] = "none" => pc[t] = "idle"
    /\ \A t \in Task : pc[t] \in Queued => status[t] = "pending"
    /\ \A t \in Task : pc[t] \in Inside =>
           status[t] = "running" \/ (status[t] = "pending" /\ t \in lost)
    /\ \A t \in Task : status[t] # "none" => key[t] \in Key
    /\ \A t \in Task : pc[t] = "hit" => loaded[t] # None
    /\ \A t \in Task : loaded[t] # None => pc[t] \in {"hit", "hitSaved", "cleanup"}

\* A result was computed for a task that exists and has key k, and, where the
\* cache held it, for one that was concluded.
Known(r, k) == status[r.by] # "none" /\ key[r.by] = k
Sound(r, k) == Known(r, k) /\ (status[r.by] = "completed" \/ r.by \in lost)

ResultInv ==
    /\ \A t \in Task : pc[t] \in {"hitSaved", "saved"} => result[t] # None \/ t \in lost
    /\ \A t \in Task : pc[t] = "persisted" => status[t] = "completed" \/ t \in lost
    /\ \A t \in Task : result[t] # None => status[t] # "none" /\ Known(result[t], key[t])
    /\ \A k \in Key : cache[k] # None => Sound(cache[k], k)
    /\ \A t \in Task : loaded[t] # None => Sound(loaded[t], key[t])

IInv ==
    /\ TypeOK /\ SlotAccounting /\ SenderInv
    /\ PointsInv /\ RowInv /\ RunningIsOwned
    /\ ResultInv /\ CompletedHasResult /\ AnswersOwnRequest
    /\ TreeInv
=============================================================================
