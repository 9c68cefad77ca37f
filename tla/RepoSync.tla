------------------------------- MODULE RepoSync -------------------------------
(***************************************************************************)
(* What the server does to one repository of its workspace directory: the  *)
(* branch submissions of fetchBranchDiff, which take the repository's      *)
(* mutex, and the pulls and worktrees of runAnalysis, which do not.  A git *)
(* command creates a lock file, refuses to run when it exists, and leaves  *)
(* it behind when it is killed.  Commits of the feature branch are         *)
(* numbered in the order they are pushed; the base branch is the list of   *)
(* what was merged into it.                                                *)
(***************************************************************************)
EXTENDS Naturals, FiniteSets, Sequences

CONSTANTS Task,       \* branch submissions
          None,       \* nobody, nothing
          Free,       \* the lock file does not exist
          Stale,      \* its process is gone
          MaxHead,    \* bound: pushes to the feature branch
          MaxMerges,  \* bound: merges into the base branch
          MaxCrashes  \* bound: crashes of the server

ASSUME RepoAssumption ==
    /\ MaxHead \in Nat /\ MaxMerges \in Nat /\ MaxCrashes \in Nat
    /\ None \notin Task \cup Nat
    /\ Free \notin Task /\ Stale \notin Task /\ Free # Stale

VARIABLES
    head,      \* the feature branch on the remote
    base,      \* the base branch on the remote
    present,   \* <repo>/.git exists
    ref,       \* refs/remotes/origin/<feature>
    baseRef,   \* refs/remotes/origin/<base>: how much of base it has
    fetchHead, \* what FETCH_HEAD names
    lock,      \* shallow.lock, index.lock, and refs/remotes/origin/<feature>.lock
    mutex,     \* holder of repoFetchMu[repo]
    pc,        \* submission, then analysis, of each task
    branched,  \* tasks whose analysis still knows its branches
    diff,      \* the branch and commit the task's diff was taken from, and
               \* whether by way of a merge commit
    tree,      \* the branch and commit of the task's worktree
    asked,     \* history: head when the task was submitted
    displaced, \* history: submissions whose clone was removed under them
    crashes

LockFile == {"shallow", "index", "ref"}
Removed == {"shallow", "index"}

remote == <<head, base>>
refs == <<ref, baseRef, fetchHead>>
git == <<remote, present, refs, lock>>
history == <<asked, displaced, crashes>>
vars == <<git, mutex, pc, branched, diff, tree, history>>

Ref == [branch : {"feature", "base"}, commit : 0..MaxHead]
Tip(b, c) == [branch |-> b, commit |-> c]

\* A merge of the feature branch, named by the subject of a merge commit or not
\* (fast-forward, a subject of its own), or of a branch whose name ends like its
\* and whose subject is taken for it.
Merged ==
    {m \in [branch : {"feature", "other"}, commit : 0..MaxHead, named : BOOLEAN] :
        m.branch = "other" => m.commit = 0 /\ m.named}
Source == [branch : {"feature", "other"}, commit : 0..MaxHead, merge : BOOLEAN]

\* The first n merges contain commit c of the feature branch: nothing up to c is
\* ahead of them.
Contains(n, c) == \E i \in 1..n : base[i].branch = "feature" /\ base[i].commit >= c

\* Points of fetchBranchDiff, those under the mutex, and those of runAnalysis.
Guarded == {"locked", "clean", "fetching", "fetched", "fetchingBase", "diffing"}
Submitting == {"toClone", "cloning", "queue"} \cup Guarded
Pulling == {"pulling", "cloningAnew"}
Analysing == {"submitted", "pulled", "reading"} \cup Pulling
PC == {"idle", "failed", "stranded", "done"} \cup Submitting \cup Analysing

Init ==
    /\ head = 0
    /\ base = <<>>
    /\ present \in BOOLEAN
    /\ ref = None
    /\ baseRef = 0
    /\ fetchHead = None
    /\ lock = [f \in LockFile |-> Free]
    /\ mutex = None
    /\ pc = [t \in Task |-> "idle"]
    /\ branched = {}
    /\ diff = [t \in Task |-> None]
    /\ tree = [t \in Task |-> None]
    /\ asked = [t \in Task |-> 0]
    /\ displaced = {}
    /\ crashes = 0

Goto(t, label) == pc' = [pc EXCEPT ![t] = label]

\* A git command of t creates lock file f, and removes it when it ends.
Take(f, t) == lock[f] = Free /\ lock' = [lock EXCEPT ![f] = t]
Drop(f, t) == lock' = IF lock[f] = t THEN [lock EXCEPT ![f] = Free] ELSE lock

\* What a kill leaves: every lock of the processes of T stays behind; one that
\* was fetching may have been about to move the ref.
Killed(T) ==
    {[f \in LockFile |-> IF lock[f] \in T THEN Stale ELSE lock[f]]} \cup
    {[f \in LockFile |-> IF f = "ref" \/ lock[f] \in T THEN Stale ELSE lock[f]] :
        t \in {s \in T : pc[s] = "fetching"}}

\* A failed clone removes its directory, from under whoever relies on it.
Discard ==
    /\ present' = FALSE
    /\ ref' = None /\ baseRef' = 0 /\ fetchHead' = None
    /\ lock' = [f \in LockFile |-> Free]
    /\ displaced' = displaced \cup {s \in Task : pc[s] \in Submitting}

-----------------------------------------------------------------------------
(* fetchBranchDiff: before the mutex.                                      *)

\* os.Stat of <repo>/.git.
Submit(t) ==
    /\ pc[t] = "idle"
    /\ asked' = [asked EXCEPT ![t] = head]
    /\ Goto(t, IF present THEN "queue" ELSE "toClone")
    /\ UNCHANGED <<git, mutex, branched, diff, tree, displaced, crashes>>

\* git clone refuses a directory somebody else made since.
Clone(t) ==
    /\ pc[t] = "toClone"
    /\ \/ /\ ~present
          /\ present' = TRUE
          /\ lock' = [lock EXCEPT !["shallow"] = t]
          /\ Goto(t, "cloning")
       \/ present /\ Goto(t, "failed") /\ UNCHANGED <<present, lock>>
    /\ UNCHANGED <<remote, refs, mutex, branched, diff, tree, history>>

Cloned(t) ==
    /\ pc[t] = "cloning"
    /\ baseRef' = IF present THEN Len(base) ELSE baseRef
    /\ Drop("shallow", t)
    /\ Goto(t, "queue")
    /\ UNCHANGED <<remote, present, ref, fetchHead, mutex, branched, diff, tree, history>>

\* git removes what it cloned when it fails; not when its timeout kills it.
CloneFails(t) ==
    /\ pc[t] = "cloning"
    /\ Goto(t, "failed")
    /\ \/ lock' \in Killed({t}) /\ UNCHANGED <<present, refs, displaced>>
       \/ Discard
    /\ UNCHANGED <<remote, mutex, branched, diff, tree, asked, crashes>>

-----------------------------------------------------------------------------
(* fetchBranchDiff: under the mutex, which every return releases.          *)

Lock(t) ==
    /\ pc[t] = "queue"
    /\ mutex = None
    /\ mutex' = t
    /\ Goto(t, "locked")
    /\ UNCHANGED <<git, branched, diff, tree, history>>

\* Seeded fault: lock files stay where they are.
KeepStaleLocks(t) ==
    /\ pc[t] = "locked"
    /\ Goto(t, "clean")
    /\ UNCHANGED <<git, mutex, branched, diff, tree, history>>

\* Locks on refs are not among the files the code removes.
RemoveStaleLocks(t) ==
    /\ pc[t] = "locked"
    /\ lock' = [f \in LockFile |-> IF f \in Removed THEN Free ELSE lock[f]]
    /\ Goto(t, "clean")
    /\ UNCHANGED <<remote, present, refs, mutex, branched, diff, tree, history>>

\* A fetch of the feature branch (from "clean"), then of the base branch.
StartFetch(t) ==
    /\ present
    /\ \/ pc[t] = "clean" /\ Goto(t, "fetching")
       \/ pc[t] = "fetched" /\ Goto(t, "fetchingBase")
    /\ Take("shallow", t)
    /\ UNCHANGED <<remote, present, refs, mutex, branched, diff, tree, history>>

\* Seeded fault: no refspec, so that only FETCH_HEAD is updated.
FetchFeatureHead(t) ==
    /\ pc[t] = "fetching" /\ present
    /\ fetchHead' = Tip("feature", head)
    /\ ref' = IF ref = None THEN head ELSE ref
    /\ Drop("shallow", t)
    /\ Goto(t, "fetched")
    /\ UNCHANGED <<remote, present, baseRef, mutex, branched, diff, tree, history>>

\* A lock on the ref makes the update of it, and so the fetch, fail.
FetchFeature(t) ==
    /\ pc[t] = "fetching" /\ present /\ lock["ref"] = Free
    /\ ref' = head
    /\ fetchHead' = Tip("feature", head)
    /\ Drop("shallow", t)
    /\ Goto(t, "fetched")
    /\ UNCHANGED <<remote, present, baseRef, mutex, branched, diff, tree, history>>

FetchBase(t) ==
    /\ pc[t] = "fetchingBase" /\ present
    /\ baseRef' = Len(base)
    /\ fetchHead' = Tip("base", 0)
    /\ Drop("shallow", t)
    /\ Goto(t, "diffing")
    /\ UNCHANGED <<remote, present, ref, mutex, branched, diff, tree, history>>

\* The row is created, and runAnalysis started with the branches.
Accept(t, source) ==
    /\ diff' = [diff EXCEPT ![t] = source]
    /\ branched' = branched \cup {t}
    /\ mutex' = None
    /\ Goto(t, "submitted")
    /\ UNCHANGED <<remote, present, ref, lock, tree, history>>

\* git diff origin/<base>...origin/<feature>, of a branch that is ahead.
Diff(t) ==
    /\ pc[t] = "diffing" /\ present /\ ref # None
    /\ ~Contains(baseRef, ref)
    /\ Accept(t, [branch |-> "feature", commit |-> ref, merge |-> FALSE])
    /\ UNCHANGED <<baseRef, fetchHead>>

\* An empty diff is replaced by that of the newest merge commit on the base
\* branch, fetched again, whose subject has the branch's name or the end of it.
RecoverMergedBranchDiff(t) ==
    /\ pc[t] = "diffing" /\ present /\ ref # None
    /\ Contains(baseRef, ref)
    /\ baseRef' \in {baseRef, Len(base)}
    /\ fetchHead' = Tip("base", 0)
    /\ \E i \in 1..baseRef' :
          /\ base[i].named
          /\ \A j \in (i + 1)..baseRef' : ~base[j].named
          /\ Accept(t, [branch |-> base[i].branch, commit |-> base[i].commit,
                        merge |-> TRUE])

\* Seeded fault: an error return keeps the mutex.
FetchFailsHolding(t) ==
    /\ pc[t] \in Guarded \ {"locked"}
    /\ lock' \in Killed({t})
    /\ Goto(t, "failed")
    /\ UNCHANGED <<remote, present, refs, mutex, branched, diff, tree, history>>

\* A git command refuses, fails (no such branch, no diff, no merge commit) or is
\* killed after 120 seconds: the submission is rejected.
FetchFails(t) ==
    /\ pc[t] \in Guarded \ {"locked"}
    /\ lock' \in Killed({t}) \/ Drop("shallow", t)
    /\ mutex' = None
    /\ Goto(t, "failed")
    /\ UNCHANGED <<remote, present, refs, branched, diff, tree, history>>

-----------------------------------------------------------------------------
(* runAnalysis: without the mutex and, for syncRepo, without a deadline.   *)

\* syncRepo: git pull --ff-only of the base branch, or git clone.  That either
\* fails is only logged.
Pull(t) ==
    /\ pc[t] = "submitted"
    /\ \/ present /\ Take("index", t) /\ Goto(t, "pulling") /\ UNCHANGED present
       \/ /\ ~present
          /\ present' = TRUE
          /\ lock' = [lock EXCEPT !["shallow"] = t]
          /\ Goto(t, "cloningAnew")
       \/ UNCHANGED <<present, lock>> /\ Goto(t, "pulled")
    /\ UNCHANGED <<remote, refs, mutex, branched, diff, tree, history>>

\* A pull fetches first, into FETCH_HEAD and origin/<base>.
Pulled(t) ==
    /\ pc[t] = "pulling" /\ Goto(t, "pulled")
    /\ \/ present /\ baseRef' = Len(base) /\ fetchHead' = Tip("base", 0)
       \/ UNCHANGED <<baseRef, fetchHead>>
    /\ Drop("index", t)
    /\ UNCHANGED <<remote, present, ref, mutex, branched, diff, tree, history>>

ClonedAnew(t) ==
    /\ pc[t] = "cloningAnew" /\ Goto(t, "pulled")
    /\ \/ /\ baseRef' = IF present THEN Len(base) ELSE baseRef
          /\ Drop("shallow", t)
          /\ UNCHANGED <<present, ref, fetchHead, displaced>>
       \/ Discard
    /\ UNCHANGED <<remote, mutex, branched, diff, tree, asked, crashes>>

\* Seeded fault: the worktree is made at FETCH_HEAD.
CreateWorktreeAtFetchHead(t) ==
    /\ pc[t] = "pulled"
    /\ tree' = [tree EXCEPT ![t] = IF t \in branched THEN fetchHead ELSE None]
    /\ Goto(t, "reading")
    /\ UNCHANGED <<git, mutex, branched, diff, history>>

\* A detached worktree at origin/<feature>, or master's tree where that fails;
\* then the row is marked running.
CreateWorktree(t) ==
    /\ pc[t] = "pulled"
    /\ \/ /\ t \in branched /\ ref # None
          /\ tree' = [tree EXCEPT ![t] = Tip("feature", ref)]
       \/ UNCHANGED tree
    /\ Goto(t, "reading")
    /\ UNCHANGED <<git, mutex, branched, diff, history>>

RemoveWorktree(t) ==
    /\ pc[t] = "reading"
    /\ tree' = [tree EXCEPT ![t] = None]
    /\ Goto(t, "done")
    /\ UNCHANGED <<git, mutex, branched, diff, history>>

-----------------------------------------------------------------------------
(* The rest of the world.                                                  *)

Push ==
    /\ head < MaxHead
    /\ head' = head + 1
    /\ UNCHANGED <<base, present, refs, lock, mutex, pc, branched, diff, tree, history>>

Merge ==
    /\ Len(base) < MaxMerges
    /\ \E m \in Merged :
          /\ m.branch = "feature" => m.commit = head /\ ~Contains(Len(base), head)
          /\ base' = Append(base, m)
    /\ UNCHANGED <<head, present, refs, lock, mutex, pc, branched, diff, tree, history>>

\* The pod dies with its git processes.  A submission is over; a task whose row
\* is running is requeued, without its branches and without worktrees; one whose
\* row is still pending is not.
Crash ==
    /\ crashes < MaxCrashes
    /\ crashes' = crashes + 1
    /\ lock' \in Killed(Task)
    /\ mutex' = None
    /\ pc' = [t \in Task |->
                 CASE pc[t] \in Submitting -> "failed"
                   [] pc[t] = "reading" -> "submitted"
                   [] pc[t] \in Analysing \ {"reading"} -> "stranded"
                   [] OTHER -> pc[t]]
    /\ branched' = {}
    /\ tree' = [t \in Task |-> None]
    /\ UNCHANGED <<remote, present, refs, diff, asked, displaced>>

\* What returns in bounded time, and what need not.
Bounded(t) ==
    \/ Clone(t) \/ Cloned(t) \/ CloneFails(t)
    \/ RemoveStaleLocks(t) \/ StartFetch(t) \/ FetchFeature(t)
    \/ FetchBase(t) \/ Diff(t) \/ RecoverMergedBranchDiff(t) \/ FetchFails(t)
    \/ Pull(t) \/ CreateWorktree(t) \/ RemoveWorktree(t)
Unbounded(t) == Pulled(t) \/ ClonedAnew(t)

Done ==
    /\ \A t \in Task : pc[t] \in {"done", "failed", "stranded"}
    /\ UNCHANGED vars

Next ==
    \/ \E t \in Task : Submit(t) \/ Lock(t) \/ Bounded(t) \/ Unbounded(t)
    \/ Push \/ Merge \/ Crash \/ Done

\* The git commands of fetchBranchDiff have deadlines, those of syncRepo none; a
\* waiter of a Go mutex is not overtaken for ever.
Fairness == \A t \in Task : WF_vars(Bounded(t)) /\ SF_vars(Lock(t))

Spec == Init /\ [][Next]_vars
FairSpec == Spec /\ Fairness

-----------------------------------------------------------------------------
(* Properties.                                                             *)

\* Every variable has its type; a worktree only ever shows the feature branch.
TypeOK ==
    /\ head \in 0..MaxHead
    /\ base \in Seq(Merged) /\ Len(base) <= MaxMerges
    /\ present \in BOOLEAN
    /\ ref \in 0..MaxHead \cup {None}
    /\ baseRef \in 0..Len(base)
    /\ fetchHead \in Ref \cup {None}
    /\ lock \in [LockFile -> Task \cup {Free, Stale}]
    /\ mutex \in Task \cup {None}
    /\ pc \in [Task -> PC]
    /\ branched \in SUBSET Task
    /\ diff \in [Task -> Source \cup {None}]
    /\ tree \in [Task -> {r \in Ref : r.branch = "feature"} \cup {None}]
    /\ asked \in [Task -> 0..MaxHead]
    /\ displaced \in SUBSET Task
    /\ crashes \in 0..MaxCrashes

\* The diff of an accepted submission is of the feature branch, at least as new
\* as the branch was when the client submitted, and no newer than the worktree
\* it is analysed in, whatever other submissions fetched into the same clone
\* meanwhile.  One taken from a merge commit may be older or another branch's,
\* but only of a branch that the base contained as the client knew it.
DiffIsFresh ==
    \A t \in Task : diff[t] # None =>
        IF diff[t].merge THEN Contains(Len(base), asked[t])
        ELSE /\ diff[t].branch = "feature" /\ diff[t].commit >= asked[t]
             /\ tree[t] # None => tree[t].commit >= diff[t].commit

\* Under the mutex the removal of lock files leaves none of a dead process but a
\* ref's, and never takes a running fetch's own: unless the submission's clone
\* was removed and made anew under it.
RemovalIsSafe ==
    \A t \in Task \ displaced :
        /\ pc[t] = "clean" => \A f \in Removed : lock[f] # Stale
        /\ pc[t] \in {"fetching", "fetchingBase"} => lock["shallow"] = t

\* A submission ends, as a task or as an error: nobody keeps the mutex.
SubmissionEnds ==
    \A t \in Task : pc[t] \in Submitting ~> pc[t] \notin Submitting
=============================================================================
