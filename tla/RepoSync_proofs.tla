---------------------------- MODULE RepoSync_proofs ----------------------------
(***************************************************************************)
(* Proofs about RepoSync, for every set of submissions and every bound:    *)
(* IInv is inductive, and TypeOK, DiffIsFresh and RemovalIsSafe follow     *)
(* from it.                                                                *)
(***************************************************************************)
EXTENDS RepoSync, TLAPS

\* The mutex is held by the submission that is under it, and by nobody else.
MutexInv == \A t \in Task : pc[t] \in Guarded <=> mutex = t

\* Nothing known of the branch is newer than the branch, and what is known of it
\* in the clone is not older than a diff that was taken there.
HistoryInv ==
    /\ ref # None => ref <= head
    /\ \A t \in Task : asked[t] <= head
    /\ \A t \in Task : diff[t] # None /\ ~diff[t].merge =>
          diff[t].commit <= head /\ (ref # None => diff[t].commit <= ref)

\* From its fetch to its diff, what a submission reads under origin/<feature>
\* is not older than its request; before it is submitted it has no diff, and only
\* while it is analysed a worktree.
FreshInv ==
    \A t \in Task :
        /\ pc[t] \in {"fetched", "fetchingBase", "diffing"} /\ ref # None => ref >= asked[t]
        /\ pc[t] = "idle" => diff[t] = None
        /\ tree[t] # None => pc[t] = "reading"

\* Points of a submission that follow its look at the clone.
Relying == {"cloning", "queue"} \cup Guarded

\* The clone is there for whoever found or made it and was not displaced; nobody
\* has a lock on shallow while one is about to fetch, and nobody else while it
\* fetches.  The index is locked by pulls only.
CloneInv ==
    /\ \A t \in Task \ displaced :
          /\ pc[t] \in Relying => present
          /\ pc[t] = "clean" => lock["shallow"] = Free /\ lock["index"] # Stale
          /\ pc[t] \in {"fetching", "fetchingBase"} => lock["shallow"] = t
    /\ \A t \in Task : lock["index"] = t => pc[t] = "pulling"

IInv == TypeOK /\ MutexInv /\ HistoryInv /\ FreshInv /\ DiffIsFresh /\ CloneInv

LEMMA InitIInv == Init => IInv
  BY RepoAssumption
     DEF Init, IInv, TypeOK, MutexInv, HistoryInv, FreshInv, DiffIsFresh, CloneInv,
         Relying, Guarded, PC, LockFile

-----------------------------------------------------------------------------
(* What a kill leaves, and what a failed clone takes away.                 *)

\* Killed processes leave behind what locks they had, and none of the others' is
\* touched but a ref's.
LEMMA KilledLocks ==
  ASSUME TypeOK, NEW T \in SUBSET Task, lock' \in Killed(T)
  PROVE  /\ lock' \in [LockFile -> Task \cup {Free, Stale}]
         /\ lock["shallow"]' = IF lock["shallow"] \in T THEN Stale ELSE lock["shallow"]
         /\ lock["index"]' = IF lock["index"] \in T THEN Stale ELSE lock["index"]
  BY DEF Killed, TypeOK, LockFile

LEMMA KilledOwn ==
  ASSUME TypeOK, NEW t \in Task, lock' \in Killed({t})
  PROVE  /\ lock' \in [LockFile -> Task \cup {Free, Stale}]
         /\ lock["shallow"]' = IF lock["shallow"] = t THEN Stale ELSE lock["shallow"]
         /\ lock["index"]' = IF lock["index"] = t THEN Stale ELSE lock["index"]
  BY KilledLocks, {t} \in SUBSET Task

LEMMA DiscardTyped ==
  ASSUME TypeOK, Discard, UNCHANGED remote
  PROVE  /\ lock' \in [LockFile -> Task \cup {Free, Stale}]
         /\ ref' = None /\ fetchHead' = None /\ present' \in BOOLEAN
         /\ baseRef' \in 0..Len(base') /\ base' \in Seq(Merged) /\ Len(base') <= MaxMerges
         /\ displaced' \in SUBSET Task
<1>1. Len(base) \in Nat /\ UNCHANGED base
  BY DEF remote
<1>2. lock' \in [LockFile -> Task \cup {Free, Stale}]
  BY DEF Discard
<1>3. baseRef' \in 0..Len(base')
  BY <1>1 DEF Discard
<1>. QED
  BY <1>1, <1>2, <1>3 DEF TypeOK, Discard


-----------------------------------------------------------------------------
(* Every step preserves the invariant.                                     *)

LEMMA SubmitPreserves == ASSUME IInv, NEW t \in Task, Submit(t) PROVE IInv'
<1>0. Len(base) \in Nat
  BY DEF IInv, TypeOK
<1>1. lock' \in [LockFile -> Task \cup {Free, Stale}]
  BY RepoAssumption DEF IInv, Submit, TypeOK, git
<1>2. pc' \in [Task -> PC]
  BY RepoAssumption DEF IInv, Submit, TypeOK, Goto, PC, Submitting
<1>3. /\ diff' \in [Task -> Source \cup {None}]
      /\ tree' \in [Task -> {r \in Ref : r.branch = "feature"} \cup {None}]
  BY RepoAssumption DEF IInv, Submit, TypeOK
<1>4. TypeOK'
  BY <1>0, <1>1, <1>2, <1>3, RepoAssumption
     DEF IInv, Submit, TypeOK, remote, refs, git
<1>5. (MutexInv /\ FreshInv)'
  BY RepoAssumption DEF IInv, Submit, MutexInv, FreshInv, Guarded, Goto, refs, git
<1>6. HistoryInv'
  BY RepoAssumption DEF IInv, Submit, TypeOK, HistoryInv, remote, refs, git
<1>7. DiffIsFresh'
  BY RepoAssumption DEF IInv, Submit, FreshInv, DiffIsFresh, Contains, remote, git
<1>8. CloneInv'
  BY RepoAssumption DEF IInv, Submit, CloneInv, Relying, Guarded, Goto, git
<1>. QED
  BY <1>4, <1>5, <1>6, <1>7, <1>8 DEF IInv

LEMMA ClonePreserves == ASSUME IInv, NEW t \in Task, Clone(t) PROVE IInv'
<1>0. Len(base) \in Nat
  BY DEF IInv, TypeOK
<1>1. lock' \in [LockFile -> Task \cup {Free, Stale}]
  BY RepoAssumption DEF IInv, Clone, TypeOK
<1>2. pc' \in [Task -> PC]
  <2>1. CASE ~present /\ present' = TRUE /\ lock' = [lock EXCEPT !["shallow"] = t]
             /\ Goto(t, "cloning")
    BY <2>1, RepoAssumption DEF IInv, TypeOK, Goto, PC, Submitting
  <2>2. CASE present /\ Goto(t, "failed") /\ UNCHANGED <<present, lock>>
    BY <2>2, RepoAssumption DEF IInv, TypeOK, Goto, PC
  <2>. QED
    BY <2>1, <2>2 DEF Clone
<1>3. /\ diff' \in [Task -> Source \cup {None}]
      /\ tree' \in [Task -> {r \in Ref : r.branch = "feature"} \cup {None}]
  BY RepoAssumption DEF IInv, Clone, TypeOK
<1>4. TypeOK'
  BY <1>0, <1>1, <1>2, <1>3, RepoAssumption
     DEF IInv, Clone, TypeOK, remote, refs, history
<1>5. (MutexInv /\ FreshInv)'
  BY RepoAssumption
     DEF IInv, Clone, TypeOK, MutexInv, FreshInv, Guarded, Goto, refs, history
<1>6. HistoryInv'
  BY RepoAssumption DEF IInv, Clone, HistoryInv, remote, refs, history
<1>7. DiffIsFresh'
  BY RepoAssumption DEF IInv, Clone, DiffIsFresh, Contains, remote, history
<1>8. CloneInv'
  <2>1. CASE ~present /\ present' = TRUE /\ lock' = [lock EXCEPT !["shallow"] = t]
             /\ Goto(t, "cloning")
    BY <2>1, RepoAssumption DEF IInv, Clone, CloneInv, Relying, Guarded, Goto, history
  <2>2. CASE present /\ Goto(t, "failed") /\ UNCHANGED <<present, lock>>
    BY <2>2, RepoAssumption DEF IInv, Clone, CloneInv, Goto, history
  <2>. QED
    BY <2>1, <2>2 DEF Clone
<1>. QED
  BY <1>4, <1>5, <1>6, <1>7, <1>8 DEF IInv

LEMMA ClonedPreserves == ASSUME IInv, NEW t \in Task, Cloned(t) PROVE IInv'
<1>0. Len(base) \in Nat
  BY DEF IInv, TypeOK
<1>1. lock' \in [LockFile -> Task \cup {Free, Stale}]
  BY RepoAssumption DEF IInv, Cloned, TypeOK, Drop
<1>2. pc' \in [Task -> PC]
  BY RepoAssumption DEF IInv, Cloned, TypeOK, Goto, PC, Submitting
<1>3. /\ diff' \in [Task -> Source \cup {None}]
      /\ tree' \in [Task -> {r \in Ref : r.branch = "feature"} \cup {None}]
  BY RepoAssumption DEF IInv, Cloned, TypeOK
<1>4. TypeOK'
  BY <1>0, <1>1, <1>2, <1>3, RepoAssumption DEF IInv, Cloned, TypeOK, remote, history
<1>5. (MutexInv /\ FreshInv)'
  BY RepoAssumption DEF IInv, Cloned, MutexInv, FreshInv, Guarded, Goto, history
<1>6. HistoryInv'
  BY RepoAssumption DEF IInv, Cloned, HistoryInv, remote, history
<1>7. DiffIsFresh'
  BY RepoAssumption DEF IInv, Cloned, DiffIsFresh, Contains, remote, history
<1>8. CloneInv'
  BY RepoAssumption DEF IInv, Cloned, CloneInv, Relying, Goto, Drop, history
<1>. QED
  BY <1>4, <1>5, <1>6, <1>7, <1>8 DEF IInv

LEMMA CloneFailsPreserves == ASSUME IInv, NEW t \in Task, CloneFails(t) PROVE IInv'
<1>0. Len(base) \in Nat
  BY DEF IInv, TypeOK
<1>1. lock' \in [LockFile -> Task \cup {Free, Stale}]
  <2>1. CASE lock' \in Killed({t}) /\ UNCHANGED <<present, refs, displaced>>
    BY <2>1, RepoAssumption, KilledOwn DEF IInv
  <2>2. CASE Discard
    BY <2>2, RepoAssumption, KilledOwn DEF Discard
  <2>. QED
    BY <2>1, <2>2 DEF CloneFails
<1>2. pc' \in [Task -> PC]
  BY RepoAssumption, KilledOwn DEF IInv, CloneFails, TypeOK, Goto, PC
<1>3. /\ diff' \in [Task -> Source \cup {None}]
      /\ tree' \in [Task -> {r \in Ref : r.branch = "feature"} \cup {None}]
  BY RepoAssumption, KilledOwn DEF IInv, CloneFails, TypeOK
<1>4. TypeOK'
  <2>1. CASE lock' \in Killed({t}) /\ UNCHANGED <<present, refs, displaced>>
    BY <2>1, <1>0, <1>1, <1>2, <1>3, RepoAssumption, DiscardTyped, KilledOwn
       DEF IInv, CloneFails, TypeOK, remote, refs
  <2>2. CASE Discard
    BY <2>2, <1>0, <1>1, <1>2, <1>3, RepoAssumption, DiscardTyped, KilledOwn
       DEF IInv, CloneFails, TypeOK, remote
  <2>. QED
    BY <2>1, <2>2 DEF CloneFails
<1>5. (MutexInv /\ FreshInv)'
  BY RepoAssumption, KilledOwn
     DEF IInv, CloneFails, MutexInv, FreshInv, Guarded, Goto, Discard, refs
<1>6. HistoryInv'
  BY RepoAssumption, KilledOwn DEF IInv, CloneFails, HistoryInv, Discard, remote, refs
<1>7. DiffIsFresh'
  BY RepoAssumption, KilledOwn DEF IInv, CloneFails, DiffIsFresh, Contains, remote
<1>8. CloneInv'
  <2>1. CASE lock' \in Killed({t}) /\ UNCHANGED <<present, refs, displaced>>
    <3>1. /\ lock["shallow"]' = IF lock["shallow"] = t THEN Stale ELSE lock["shallow"]
          /\ lock["index"]' = IF lock["index"] = t THEN Stale ELSE lock["index"]
      BY <2>1, KilledOwn DEF IInv
    <3>. QED
      BY <2>1, <3>1, RepoAssumption DEF IInv, CloneFails, CloneInv, Relying, Goto
  <2>2. CASE Discard
    <3>1. \A s \in Task \ displaced' : pc[s] \notin Submitting
      BY <2>2 DEF Discard
    <3>2. \A s \in Task \ displaced' : pc'[s] \notin Submitting
      BY <3>1 DEF CloneFails, Goto, Submitting
    <3>3. lock["index"]' = Free
      BY <2>2 DEF Discard, LockFile
    <3>. QED
      BY <3>2, <3>3, RepoAssumption DEF CloneInv, Relying, Submitting, Guarded
  <2>. QED
    BY <2>1, <2>2 DEF CloneFails
<1>. QED
  BY <1>4, <1>5, <1>6, <1>7, <1>8 DEF IInv

LEMMA LockPreserves == ASSUME IInv, NEW t \in Task, Lock(t) PROVE IInv'
<1>0. Len(base) \in Nat
  BY DEF IInv, TypeOK
<1>1. lock' \in [LockFile -> Task \cup {Free, Stale}]
  BY RepoAssumption DEF IInv, Lock, TypeOK, git
<1>2. pc' \in [Task -> PC]
  BY RepoAssumption DEF IInv, Lock, TypeOK, Goto, PC, Submitting, Guarded
<1>3. /\ diff' \in [Task -> Source \cup {None}]
      /\ tree' \in [Task -> {r \in Ref : r.branch = "feature"} \cup {None}]
  BY RepoAssumption DEF IInv, Lock, TypeOK
<1>4. TypeOK'
  BY <1>0, <1>1, <1>2, <1>3, RepoAssumption
     DEF IInv, Lock, TypeOK, remote, refs, git, history
<1>5. (MutexInv /\ FreshInv)'
  BY RepoAssumption DEF IInv, Lock, TypeOK, MutexInv, FreshInv, Guarded, Goto
<1>6. HistoryInv'
  BY RepoAssumption DEF IInv, Lock, HistoryInv, remote, refs, git, history
<1>7. DiffIsFresh'
  BY RepoAssumption DEF IInv, Lock, DiffIsFresh, Contains, remote, git, history
<1>8. CloneInv'
  BY RepoAssumption DEF IInv, Lock, CloneInv, Relying, Goto, git, history
<1>. QED
  BY <1>4, <1>5, <1>6, <1>7, <1>8 DEF IInv

LEMMA RemoveStaleLocksPreserves ==
  ASSUME IInv, NEW t \in Task, RemoveStaleLocks(t) PROVE IInv'
<1>0. Len(base) \in Nat
  BY DEF IInv, TypeOK
<1>1. lock' \in [LockFile -> Task \cup {Free, Stale}]
  BY RepoAssumption DEF IInv, RemoveStaleLocks, TypeOK
<1>2. pc' \in [Task -> PC]
  BY RepoAssumption DEF IInv, RemoveStaleLocks, TypeOK, Goto, PC, Submitting, Guarded
<1>3. /\ diff' \in [Task -> Source \cup {None}]
      /\ tree' \in [Task -> {r \in Ref : r.branch = "feature"} \cup {None}]
  BY RepoAssumption DEF IInv, RemoveStaleLocks, TypeOK
<1>4. TypeOK'
  BY <1>0, <1>1, <1>2, <1>3, RepoAssumption
     DEF IInv, RemoveStaleLocks, TypeOK, remote, refs, history
<1>5. (MutexInv /\ FreshInv)'
  BY RepoAssumption DEF IInv, RemoveStaleLocks, MutexInv, FreshInv, Guarded, Goto
<1>6. HistoryInv'
  BY RepoAssumption DEF IInv, RemoveStaleLocks, HistoryInv, remote, refs, history
<1>7. DiffIsFresh'
  BY RepoAssumption DEF IInv, RemoveStaleLocks, DiffIsFresh, Contains, remote, history
<1>8. CloneInv'
  BY RepoAssumption
     DEF IInv, RemoveStaleLocks, MutexInv, CloneInv, Relying, Guarded, Goto,
         LockFile, Removed, history
<1>. QED
  BY <1>4, <1>5, <1>6, <1>7, <1>8 DEF IInv

LEMMA StartFetchPreserves == ASSUME IInv, NEW t \in Task, StartFetch(t) PROVE IInv'
<1>0. Len(base) \in Nat
  BY DEF IInv, TypeOK
<1>1. lock' \in [LockFile -> Task \cup {Free, Stale}]
  BY RepoAssumption DEF IInv, StartFetch, TypeOK, Take
<1>2. pc' \in [Task -> PC]
  BY RepoAssumption
     DEF IInv, StartFetch, TypeOK, Goto, PC, Submitting, Analysing, Guarded, history
<1>3. /\ diff' \in [Task -> Source \cup {None}]
      /\ tree' \in [Task -> {r \in Ref : r.branch = "feature"} \cup {None}]
  BY RepoAssumption DEF IInv, StartFetch, TypeOK
<1>4. TypeOK'
  BY <1>0, <1>1, <1>2, <1>3, RepoAssumption
     DEF IInv, StartFetch, TypeOK, remote, refs, history
<1>5. (MutexInv /\ FreshInv)'
  BY RepoAssumption
     DEF IInv, StartFetch, TypeOK, MutexInv, FreshInv, Guarded, Goto, refs, history
<1>6. HistoryInv'
  BY RepoAssumption DEF IInv, StartFetch, HistoryInv, remote, refs, history
<1>7. DiffIsFresh'
  BY RepoAssumption DEF IInv, StartFetch, DiffIsFresh, Contains, remote, history
<1>8. CloneInv'
  BY RepoAssumption
     DEF IInv, StartFetch, TypeOK, MutexInv, CloneInv, Guarded, Goto, Take, LockFile
<1>. QED
  BY <1>4, <1>5, <1>6, <1>7, <1>8 DEF IInv

LEMMA FetchFeaturePreserves == ASSUME IInv, NEW t \in Task, FetchFeature(t) PROVE IInv'
<1>0. Len(base) \in Nat
  BY DEF IInv, TypeOK
<1>1. lock' \in [LockFile -> Task \cup {Free, Stale}]
  BY RepoAssumption DEF IInv, FetchFeature, TypeOK, Drop
<1>2. pc' \in [Task -> PC]
  BY RepoAssumption DEF IInv, FetchFeature, TypeOK, Goto, PC, Submitting, Guarded
<1>3. /\ diff' \in [Task -> Source \cup {None}]
      /\ tree' \in [Task -> {r \in Ref : r.branch = "feature"} \cup {None}]
  BY RepoAssumption DEF IInv, FetchFeature, TypeOK
<1>4. TypeOK'
  BY <1>0, <1>1, <1>2, <1>3, RepoAssumption
     DEF IInv, FetchFeature, TypeOK, remote, history, Ref, Tip
<1>5. (MutexInv /\ FreshInv)'
  BY RepoAssumption
     DEF IInv, FetchFeature, MutexInv, HistoryInv, FreshInv, Guarded, Goto, history
<1>6. HistoryInv'
  BY RepoAssumption DEF IInv, FetchFeature, TypeOK, HistoryInv, remote, history
<1>7. DiffIsFresh'
  BY RepoAssumption DEF IInv, FetchFeature, DiffIsFresh, Contains, remote, history
<1>8. CloneInv'
  BY RepoAssumption DEF IInv, FetchFeature, TypeOK, CloneInv, Goto, Drop, history
<1>. QED
  BY <1>4, <1>5, <1>6, <1>7, <1>8 DEF IInv

LEMMA FetchBasePreserves == ASSUME IInv, NEW t \in Task, FetchBase(t) PROVE IInv'
<1>0. Len(base) \in Nat
  BY DEF IInv, TypeOK
<1>1. lock' \in [LockFile -> Task \cup {Free, Stale}]
  BY RepoAssumption DEF IInv, FetchBase, TypeOK, Drop
<1>2. pc' \in [Task -> PC]
  BY RepoAssumption DEF IInv, FetchBase, TypeOK, Goto, PC, Submitting, Guarded
<1>3. /\ diff' \in [Task -> Source \cup {None}]
      /\ tree' \in [Task -> {r \in Ref : r.branch = "feature"} \cup {None}]
  BY RepoAssumption DEF IInv, FetchBase, TypeOK
<1>4. TypeOK'
  BY <1>0, <1>1, <1>2, <1>3, RepoAssumption
     DEF IInv, FetchBase, TypeOK, remote, history, Ref, Tip
<1>5. (MutexInv /\ FreshInv)'
  BY RepoAssumption DEF IInv, FetchBase, MutexInv, FreshInv, Guarded, Goto, history
<1>6. HistoryInv'
  BY RepoAssumption DEF IInv, FetchBase, HistoryInv, remote, history
<1>7. DiffIsFresh'
  BY RepoAssumption DEF IInv, FetchBase, DiffIsFresh, Contains, remote, history
<1>8. CloneInv'
  BY RepoAssumption DEF IInv, FetchBase, TypeOK, CloneInv, Goto, Drop, history
<1>. QED
  BY <1>4, <1>5, <1>6, <1>7, <1>8 DEF IInv

LEMMA DiffPreserves == ASSUME IInv, NEW t \in Task, Diff(t) PROVE IInv'
<1>0. Len(base) \in Nat
  BY DEF IInv, TypeOK
<1>1. lock' \in [LockFile -> Task \cup {Free, Stale}]
  BY RepoAssumption DEF IInv, Diff, TypeOK, Accept
<1>2. pc' \in [Task -> PC]
  BY RepoAssumption DEF IInv, Diff, TypeOK, Goto, Accept, PC, Analysing
<1>3. /\ diff' \in [Task -> Source \cup {None}]
      /\ tree' \in [Task -> {r \in Ref : r.branch = "feature"} \cup {None}]
  BY RepoAssumption DEF IInv, Diff, TypeOK, Accept, Source
<1>4. TypeOK'
  BY <1>0, <1>1, <1>2, <1>3, RepoAssumption
     DEF IInv, Diff, TypeOK, Accept, remote, history
<1>5. (MutexInv /\ FreshInv)'
  BY RepoAssumption DEF IInv, Diff, TypeOK, MutexInv, FreshInv, Guarded, Goto, Accept
<1>6. HistoryInv'
  BY RepoAssumption DEF IInv, Diff, TypeOK, HistoryInv, Accept, remote, history
<1>7. DiffIsFresh'
  BY RepoAssumption
     DEF IInv, Diff, FreshInv, DiffIsFresh, Contains, Accept, remote, history
<1>8. CloneInv'
  BY RepoAssumption DEF IInv, Diff, CloneInv, Goto, Accept, history
<1>. QED
  BY <1>4, <1>5, <1>6, <1>7, <1>8 DEF IInv

LEMMA RecoverMergedBranchDiffPreserves ==
  ASSUME IInv, NEW t \in Task, RecoverMergedBranchDiff(t) PROVE IInv'
<1>0. Len(base) \in Nat
  BY DEF IInv, TypeOK
<1>1. lock' \in [LockFile -> Task \cup {Free, Stale}]
  BY RepoAssumption DEF IInv, RecoverMergedBranchDiff, TypeOK, Accept
<1>2. pc' \in [Task -> PC]
  BY RepoAssumption
     DEF IInv, RecoverMergedBranchDiff, TypeOK, Goto, Accept, PC, Analysing
<1>3. /\ diff' \in [Task -> Source \cup {None}]
      /\ tree' \in [Task -> {r \in Ref : r.branch = "feature"} \cup {None}]
  BY RepoAssumption
     DEF IInv, RecoverMergedBranchDiff, TypeOK, HistoryInv, Accept, Source, Merged,
         Ref, Tip, remote, refs, git, history, vars
<1>9. fetchHead' \in Ref \cup {None}
  BY RepoAssumption DEF RecoverMergedBranchDiff, Tip, Ref
<1>4. TypeOK'
  BY <1>0, <1>1, <1>2, <1>3, <1>9, RepoAssumption
     DEF IInv, RecoverMergedBranchDiff, TypeOK, HistoryInv, Discard, Accept, remote,
         refs, git, history, vars
<1>5. (MutexInv /\ FreshInv)'
  BY RepoAssumption
     DEF IInv, RecoverMergedBranchDiff, TypeOK, MutexInv, FreshInv, Guarded, Goto,
         Accept
<1>6. HistoryInv'
  BY RepoAssumption
     DEF IInv, RecoverMergedBranchDiff, HistoryInv, Accept, remote, history
<1>7. DiffIsFresh'
  <2>1. Contains(Len(base), asked[t])
    <3>1. ref \in Nat /\ ref >= asked[t] /\ asked[t] \in Nat /\ baseRef \in Nat /\ baseRef <= Len(base)
      BY <1>0, RepoAssumption DEF IInv, RecoverMergedBranchDiff, TypeOK, FreshInv
    <3>2. PICK i \in 1..baseRef : base[i].branch = "feature" /\ base[i].commit >= ref
      BY DEF RecoverMergedBranchDiff, Contains
    <3>3. i \in 1..Len(base)
      BY <1>0, <3>1, <3>2
    <3>4. base[i].commit \in Nat
      BY <3>3 DEF IInv, TypeOK, Merged
    <3>. QED
      BY <3>1, <3>2, <3>3, <3>4 DEF Contains
  <2>2. diff'[t].merge /\ \A s \in Task \ {t} : diff'[s] = diff[s]
    BY DEF IInv, TypeOK, RecoverMergedBranchDiff, Accept
  <2>3. UNCHANGED <<base, asked, tree>>
    BY DEF RecoverMergedBranchDiff, Accept, remote, history
  <2>. QED
    BY <2>1, <2>2, <2>3 DEF IInv, DiffIsFresh, Contains
<1>8. CloneInv'
  BY RepoAssumption DEF IInv, RecoverMergedBranchDiff, CloneInv, Goto, Accept, history
<1>. QED
  BY <1>4, <1>5, <1>6, <1>7, <1>8 DEF IInv

LEMMA FetchFailsPreserves == ASSUME IInv, NEW t \in Task, FetchFails(t) PROVE IInv'
<1>0. Len(base) \in Nat
  BY DEF IInv, TypeOK
<1>1. lock' \in [LockFile -> Task \cup {Free, Stale}]
  <2>1. CASE lock' \in Killed({t})
    BY <2>1, RepoAssumption, KilledOwn DEF IInv
  <2>2. CASE Drop("shallow", t)
    BY <2>2, RepoAssumption, KilledOwn DEF IInv, TypeOK, Drop
  <2>. QED
    BY <2>1, <2>2 DEF FetchFails
<1>2. pc' \in [Task -> PC]
  BY RepoAssumption, KilledOwn DEF IInv, FetchFails, TypeOK, Goto, PC
<1>3. /\ diff' \in [Task -> Source \cup {None}]
      /\ tree' \in [Task -> {r \in Ref : r.branch = "feature"} \cup {None}]
  BY RepoAssumption, KilledOwn DEF IInv, FetchFails, TypeOK
<1>4. TypeOK'
  BY <1>0, <1>1, <1>2, <1>3, RepoAssumption, KilledOwn
     DEF IInv, FetchFails, TypeOK, remote, refs, history
<1>5. (MutexInv /\ FreshInv)'
  BY RepoAssumption, KilledOwn
     DEF IInv, FetchFails, TypeOK, MutexInv, FreshInv, Guarded, Goto
<1>6. HistoryInv'
  BY RepoAssumption, KilledOwn DEF IInv, FetchFails, HistoryInv, remote, refs, history
<1>7. DiffIsFresh'
  BY RepoAssumption, KilledOwn
     DEF IInv, FetchFails, DiffIsFresh, Contains, remote, history
<1>8. CloneInv'
  <2>1. CASE lock' \in Killed({t})
    BY <2>1, RepoAssumption, KilledOwn
       DEF IInv, FetchFails, TypeOK, CloneInv, Relying, Pulling, Analysing, Guarded,
           Goto, Drop, LockFile, refs, history
  <2>2. CASE Drop("shallow", t)
    BY <2>2, RepoAssumption, KilledOwn
       DEF IInv, FetchFails, TypeOK, CloneInv, Relying, Guarded, Goto, Drop, history
  <2>. QED
    BY <2>1, <2>2 DEF FetchFails
<1>. QED
  BY <1>4, <1>5, <1>6, <1>7, <1>8 DEF IInv

LEMMA PullPreserves == ASSUME IInv, NEW t \in Task, Pull(t) PROVE IInv'
<1>0. Len(base) \in Nat
  BY DEF IInv, TypeOK
<1>1. lock' \in [LockFile -> Task \cup {Free, Stale}]
  BY RepoAssumption
     DEF IInv, Pull, TypeOK, Take, Drop, Discard, Accept, LockFile, remote, refs,
         git, history, vars
<1>2. pc' \in [Task -> PC]
  <2>1. CASE present /\ Take("index", t) /\ Goto(t, "pulling") /\ UNCHANGED present
    BY <2>1, RepoAssumption DEF IInv, TypeOK, Goto, PC, Pulling, Analysing
  <2>2. CASE ~present /\ present' = TRUE /\ lock' = [lock EXCEPT !["shallow"] = t] /\ Goto(t, "cloningAnew")
    BY <2>2, RepoAssumption DEF IInv, TypeOK, Goto, PC, Pulling, Analysing
  <2>3. CASE UNCHANGED <<present, lock>> /\ Goto(t, "pulled")
    BY <2>3, RepoAssumption DEF IInv, TypeOK, Goto, PC, Analysing
  <2>. QED
    BY <2>1, <2>2, <2>3 DEF Pull
<1>3. /\ diff' \in [Task -> Source \cup {None}]
      /\ tree' \in [Task -> {r \in Ref : r.branch = "feature"} \cup {None}]
  BY RepoAssumption DEF IInv, Pull, TypeOK
<1>4. TypeOK'
  BY <1>0, <1>1, <1>2, <1>3, RepoAssumption
     DEF IInv, Pull, TypeOK, remote, refs, history
<1>5. (MutexInv /\ FreshInv)'
  BY RepoAssumption
     DEF IInv, Pull, TypeOK, MutexInv, HistoryInv, FreshInv, Pulling, Analysing,
         Guarded, PC, Goto, refs, history
<1>6. HistoryInv'
  BY RepoAssumption DEF IInv, Pull, HistoryInv, remote, refs, history
<1>7. DiffIsFresh'
  BY RepoAssumption DEF IInv, Pull, DiffIsFresh, Contains, remote, history
<1>8. CloneInv'
  <2>1. CASE present /\ Take("index", t) /\ Goto(t, "pulling") /\ UNCHANGED present
    BY <2>1, RepoAssumption DEF IInv, Pull, TypeOK, CloneInv, Goto, Take, history
  <2>2. CASE ~present /\ present' = TRUE /\ lock' = [lock EXCEPT !["shallow"] = t] /\ Goto(t, "cloningAnew")
    BY <2>2, RepoAssumption DEF IInv, Pull, CloneInv, Relying, Guarded, Goto, history
  <2>3. CASE UNCHANGED <<present, lock>> /\ Goto(t, "pulled")
    BY <2>3, RepoAssumption DEF IInv, Pull, CloneInv, Relying, Guarded, Goto, history
  <2>. QED
    BY <2>1, <2>2, <2>3 DEF Pull
<1>. QED
  BY <1>4, <1>5, <1>6, <1>7, <1>8 DEF IInv

LEMMA PulledPreserves == ASSUME IInv, NEW t \in Task, Pulled(t) PROVE IInv'
<1>0. Len(base) \in Nat
  BY DEF IInv, TypeOK
<1>1. lock' \in [LockFile -> Task \cup {Free, Stale}]
  BY RepoAssumption DEF IInv, Pulled, TypeOK, Drop
<1>2. pc' \in [Task -> PC]
  BY RepoAssumption DEF IInv, Pulled, TypeOK, Goto, PC, Analysing
<1>3. /\ diff' \in [Task -> Source \cup {None}]
      /\ tree' \in [Task -> {r \in Ref : r.branch = "feature"} \cup {None}]
  BY RepoAssumption DEF IInv, Pulled, TypeOK
<1>4. TypeOK'
  BY <1>0, <1>1, <1>2, <1>3, RepoAssumption
     DEF IInv, Pulled, TypeOK, remote, history, Ref, Tip
<1>5. (MutexInv /\ FreshInv)'
  BY RepoAssumption DEF IInv, Pulled, MutexInv, FreshInv, Guarded, Goto, history
<1>6. HistoryInv'
  <2>1. CASE TRUE
    BY <2>1, RepoAssumption DEF IInv, Pulled, HistoryInv, remote, history
  <2>. QED
    BY <2>1
<1>7. DiffIsFresh'
  <2>1. CASE TRUE
    BY <2>1, RepoAssumption DEF IInv, Pulled, DiffIsFresh, Contains, remote, history
  <2>. QED
    BY <2>1
<1>8. CloneInv'
  BY RepoAssumption
     DEF IInv, Pulled, TypeOK, CloneInv, Relying, Guarded, Goto, Drop, LockFile,
         history
<1>. QED
  BY <1>4, <1>5, <1>6, <1>7, <1>8 DEF IInv

LEMMA ClonedAnewPreserves == ASSUME IInv, NEW t \in Task, ClonedAnew(t) PROVE IInv'
<1>0. Len(base) \in Nat
  BY DEF IInv, TypeOK
<1>1. lock' \in [LockFile -> Task \cup {Free, Stale}]
  <2>1. CASE baseRef' = (IF present THEN Len(base) ELSE baseRef) /\ Drop("shallow", t)
             /\ UNCHANGED <<present, ref, fetchHead, displaced>>
    BY <2>1, RepoAssumption DEF IInv, TypeOK, Drop
  <2>2. CASE Discard
    BY <2>2, RepoAssumption DEF Discard
  <2>. QED
    BY <2>1, <2>2 DEF ClonedAnew
<1>2. pc' \in [Task -> PC]
  BY RepoAssumption DEF IInv, ClonedAnew, TypeOK, Goto, PC, Analysing
<1>3. /\ diff' \in [Task -> Source \cup {None}]
      /\ tree' \in [Task -> {r \in Ref : r.branch = "feature"} \cup {None}]
  <2>1. CASE baseRef' = (IF present THEN Len(base) ELSE baseRef) /\ Drop("shallow", t)
             /\ UNCHANGED <<present, ref, fetchHead, displaced>>
    BY <2>1, RepoAssumption DEF IInv, ClonedAnew, TypeOK
  <2>2. CASE Discard
    BY <2>2, RepoAssumption DEF IInv, ClonedAnew, TypeOK
  <2>. QED
    BY <2>1, <2>2 DEF ClonedAnew
<1>4. TypeOK'
  <2>1. CASE baseRef' = (IF present THEN Len(base) ELSE baseRef) /\ Drop("shallow", t)
             /\ UNCHANGED <<present, ref, fetchHead, displaced>>
    BY <2>1, <1>0, <1>1, <1>2, <1>3, RepoAssumption, DiscardTyped
       DEF IInv, ClonedAnew, TypeOK, remote
  <2>2. CASE Discard
    BY <2>2, <1>0, <1>1, <1>2, <1>3, RepoAssumption, DiscardTyped
       DEF IInv, ClonedAnew, TypeOK, remote
  <2>. QED
    BY <2>1, <2>2 DEF ClonedAnew
<1>5. (MutexInv /\ FreshInv)'
  BY RepoAssumption DEF IInv, ClonedAnew, MutexInv, FreshInv, Guarded, Goto, Discard
<1>6. HistoryInv'
  BY RepoAssumption DEF IInv, ClonedAnew, HistoryInv, Discard, remote
<1>7. DiffIsFresh'
  BY RepoAssumption DEF IInv, ClonedAnew, DiffIsFresh, Contains, remote
<1>8. CloneInv'
  <2>1. CASE baseRef' = (IF present THEN Len(base) ELSE baseRef) /\ Drop("shallow", t)
             /\ UNCHANGED <<present, ref, fetchHead, displaced>>
    BY <2>1, RepoAssumption
       DEF IInv, ClonedAnew, CloneInv, Relying, Guarded, Goto, Drop
  <2>2. CASE Discard
    BY <2>2, RepoAssumption
       DEF ClonedAnew, CloneInv, Relying, Submitting, Guarded, Goto, Discard,
           LockFile
  <2>. QED
    BY <2>1, <2>2 DEF ClonedAnew
<1>. QED
  BY <1>4, <1>5, <1>6, <1>7, <1>8 DEF IInv

LEMMA CreateWorktreePreserves == ASSUME IInv, NEW t \in Task, CreateWorktree(t) PROVE IInv'
<1>9. /\ pc[t] = "pulled" /\ pc' = [pc EXCEPT ![t] = "reading"]
      /\ UNCHANGED <<git, mutex, branched, diff, history>>
  BY DEF CreateWorktree, Goto
<1>10. \/ ref # None /\ tree' = [tree EXCEPT ![t] = Tip("feature", ref)]
       \/ tree' = tree
  BY DEF CreateWorktree
<1>0. Len(base) \in Nat
  BY DEF IInv, TypeOK
<1>1. lock' \in [LockFile -> Task \cup {Free, Stale}]
  BY RepoAssumption DEF IInv, CreateWorktree, TypeOK, git
<1>2. pc' \in [Task -> PC]
  BY RepoAssumption DEF IInv, CreateWorktree, TypeOK, Goto, PC, Analysing
<1>3. /\ diff' \in [Task -> Source \cup {None}]
      /\ tree' \in [Task -> {r \in Ref : r.branch = "feature"} \cup {None}]
  <2>1. ref # None => ref \in 0..MaxHead
    BY DEF IInv, TypeOK
  <2>2. ref # None => Tip("feature", ref) \in {r \in Ref : r.branch = "feature"}
    BY <2>1 DEF Tip, Ref
  <2>. QED
    BY <1>9, <1>10, <2>2 DEF IInv, TypeOK
<1>4. TypeOK'
  BY <1>0, <1>1, <1>2, <1>3, RepoAssumption
     DEF IInv, CreateWorktree, TypeOK, remote, refs, git, history
<1>5. (MutexInv /\ FreshInv)'
  <2>1. pc'[t] = "reading" /\ \A s \in Task \ {t} : pc'[s] = pc[s] /\ tree'[s] = tree[s]
    BY <1>9, <1>10 DEF IInv, TypeOK
  <2>2. UNCHANGED <<ref, mutex, diff, asked>>
    BY <1>9 DEF git, refs, history
  <2>3. MutexInv'
    BY <1>9, <2>1, <2>2 DEF IInv, MutexInv, Guarded
  <2>4. FreshInv'
    BY <1>9, <2>1, <2>2 DEF IInv, FreshInv
  <2>. QED
    BY <2>3, <2>4
<1>6. HistoryInv'
  BY RepoAssumption DEF IInv, CreateWorktree, HistoryInv, remote, refs, git, history
<1>7. DiffIsFresh'
  BY RepoAssumption
     DEF IInv, CreateWorktree, TypeOK, HistoryInv, DiffIsFresh, Contains, Merged,
         Tip, remote, git, history
<1>8. CloneInv'
  BY RepoAssumption
     DEF IInv, CreateWorktree, CloneInv, Relying, Guarded, Goto, git, history
<1>. QED
  BY <1>4, <1>5, <1>6, <1>7, <1>8 DEF IInv

LEMMA RemoveWorktreePreserves == ASSUME IInv, NEW t \in Task, RemoveWorktree(t) PROVE IInv'
<1>0. Len(base) \in Nat
  BY DEF IInv, TypeOK
<1>1. lock' \in [LockFile -> Task \cup {Free, Stale}]
  BY RepoAssumption DEF IInv, RemoveWorktree, TypeOK, git
<1>2. pc' \in [Task -> PC]
  BY RepoAssumption DEF IInv, RemoveWorktree, TypeOK, Goto, PC
<1>3. /\ diff' \in [Task -> Source \cup {None}]
      /\ tree' \in [Task -> {r \in Ref : r.branch = "feature"} \cup {None}]
  BY RepoAssumption DEF IInv, RemoveWorktree, TypeOK
<1>4. TypeOK'
  BY <1>0, <1>1, <1>2, <1>3, RepoAssumption
     DEF IInv, RemoveWorktree, TypeOK, remote, refs, git, history
<1>5. (MutexInv /\ FreshInv)'
  BY RepoAssumption
     DEF IInv, RemoveWorktree, TypeOK, MutexInv, FreshInv, Guarded, Goto, refs, git,
         history
<1>6. HistoryInv'
  BY RepoAssumption DEF IInv, RemoveWorktree, HistoryInv, remote, refs, git, history
<1>7. DiffIsFresh'
  BY RepoAssumption
     DEF IInv, RemoveWorktree, DiffIsFresh, Contains, remote, git, history
<1>8. CloneInv'
  BY RepoAssumption
     DEF IInv, RemoveWorktree, CloneInv, Relying, Guarded, Goto, git, history
<1>. QED
  BY <1>4, <1>5, <1>6, <1>7, <1>8 DEF IInv

LEMMA PushPreserves == ASSUME IInv, Push PROVE IInv'
<1>0. Len(base) \in Nat
  BY DEF IInv, TypeOK
<1>1. lock' \in [LockFile -> Task \cup {Free, Stale}]
  BY RepoAssumption DEF IInv, Push, TypeOK
<1>2. pc' \in [Task -> PC]
  BY RepoAssumption DEF IInv, Push, TypeOK
<1>3. /\ diff' \in [Task -> Source \cup {None}]
      /\ tree' \in [Task -> {r \in Ref : r.branch = "feature"} \cup {None}]
  BY RepoAssumption DEF IInv, Push, TypeOK
<1>4. TypeOK'
  BY <1>0, <1>1, <1>2, <1>3, RepoAssumption DEF IInv, Push, TypeOK, refs, history
<1>5. (MutexInv /\ FreshInv)'
  BY RepoAssumption DEF IInv, Push, MutexInv, FreshInv, refs, history
<1>6. HistoryInv'
  BY RepoAssumption DEF IInv, Push, TypeOK, HistoryInv, Source, refs, history
<1>7. DiffIsFresh'
  BY RepoAssumption DEF IInv, Push, DiffIsFresh, Contains, history
<1>8. CloneInv'
  BY RepoAssumption DEF IInv, Push, CloneInv, history
<1>. QED
  BY <1>4, <1>5, <1>6, <1>7, <1>8 DEF IInv

LEMMA MergePreserves == ASSUME IInv, Merge PROVE IInv'
<1>0. Len(base) \in Nat
  BY DEF IInv, TypeOK
<1>1. lock' \in [LockFile -> Task \cup {Free, Stale}]
  BY RepoAssumption DEF IInv, Merge, TypeOK
<1>2. pc' \in [Task -> PC]
  BY RepoAssumption DEF IInv, Merge, TypeOK
<1>3. /\ diff' \in [Task -> Source \cup {None}]
      /\ tree' \in [Task -> {r \in Ref : r.branch = "feature"} \cup {None}]
  BY RepoAssumption DEF IInv, Merge, TypeOK
<1>4. TypeOK'
  BY <1>0, <1>1, <1>2, <1>3, RepoAssumption DEF IInv, Merge, TypeOK, refs, history
<1>5. (MutexInv /\ FreshInv)'
  BY RepoAssumption DEF IInv, Merge, MutexInv, FreshInv, refs, history
<1>6. HistoryInv'
  BY RepoAssumption DEF IInv, Merge, HistoryInv, refs, history
<1>7. DiffIsFresh'
  BY RepoAssumption DEF IInv, Merge, DiffIsFresh, Contains, history
<1>8. CloneInv'
  BY RepoAssumption DEF IInv, Merge, CloneInv, history
<1>. QED
  BY <1>4, <1>5, <1>6, <1>7, <1>8 DEF IInv

LEMMA CrashPreserves == ASSUME IInv, Crash PROVE IInv'
<1>0. Len(base) \in Nat
  BY DEF IInv, TypeOK
<1>1. lock' \in [LockFile -> Task \cup {Free, Stale}]
  BY RepoAssumption, KilledLocks DEF IInv, Crash
<1>2. pc' \in [Task -> PC]
  BY RepoAssumption, KilledLocks DEF IInv, Crash, TypeOK, PC, Analysing
<1>3. /\ diff' \in [Task -> Source \cup {None}]
      /\ tree' \in [Task -> {r \in Ref : r.branch = "feature"} \cup {None}]
  BY RepoAssumption, KilledLocks DEF IInv, Crash, TypeOK
<1>4. TypeOK'
  BY <1>0, <1>1, <1>2, <1>3, RepoAssumption, KilledLocks
     DEF IInv, Crash, TypeOK, remote, refs
<1>5. (MutexInv /\ FreshInv)'
  BY RepoAssumption, KilledLocks
     DEF IInv, Crash, MutexInv, FreshInv, Submitting, Guarded
<1>6. HistoryInv'
  BY RepoAssumption, KilledLocks DEF IInv, Crash, HistoryInv, remote, refs
<1>7. DiffIsFresh'
  BY RepoAssumption, KilledLocks DEF IInv, Crash, DiffIsFresh, Contains, remote
<1>8. CloneInv'
  BY RepoAssumption, KilledLocks
     DEF IInv, Crash, CloneInv, Relying, Submitting, Guarded
<1>. QED
  BY <1>4, <1>5, <1>6, <1>7, <1>8 DEF IInv

LEMMA NextIInv == IInv /\ [Next]_vars => IInv'
<1>. SUFFICES ASSUME IInv, [Next]_vars PROVE IInv'
  OBVIOUS
<1>1. ASSUME NEW t \in Task, Submit(t) PROVE IInv'
  BY <1>1, SubmitPreserves
<1>2. ASSUME NEW t \in Task, Clone(t) PROVE IInv'
  BY <1>2, ClonePreserves
<1>3. ASSUME NEW t \in Task, Cloned(t) PROVE IInv'
  BY <1>3, ClonedPreserves
<1>4. ASSUME NEW t \in Task, CloneFails(t) PROVE IInv'
  BY <1>4, CloneFailsPreserves
<1>5. ASSUME NEW t \in Task, Lock(t) PROVE IInv'
  BY <1>5, LockPreserves
<1>6. ASSUME NEW t \in Task, RemoveStaleLocks(t) PROVE IInv'
  BY <1>6, RemoveStaleLocksPreserves
<1>7. ASSUME NEW t \in Task, StartFetch(t) PROVE IInv'
  BY <1>7, StartFetchPreserves
<1>8. ASSUME NEW t \in Task, FetchFeature(t) PROVE IInv'
  BY <1>8, FetchFeaturePreserves
<1>9. ASSUME NEW t \in Task, FetchBase(t) PROVE IInv'
  BY <1>9, FetchBasePreserves
<1>10. ASSUME NEW t \in Task, Diff(t) PROVE IInv'
  BY <1>10, DiffPreserves
<1>11. ASSUME NEW t \in Task, RecoverMergedBranchDiff(t) PROVE IInv'
  BY <1>11, RecoverMergedBranchDiffPreserves
<1>12. ASSUME NEW t \in Task, FetchFails(t) PROVE IInv'
  BY <1>12, FetchFailsPreserves
<1>13. ASSUME NEW t \in Task, Pull(t) PROVE IInv'
  BY <1>13, PullPreserves
<1>14. ASSUME NEW t \in Task, Pulled(t) PROVE IInv'
  BY <1>14, PulledPreserves
<1>15. ASSUME NEW t \in Task, ClonedAnew(t) PROVE IInv'
  BY <1>15, ClonedAnewPreserves
<1>16. ASSUME NEW t \in Task, CreateWorktree(t) PROVE IInv'
  BY <1>16, CreateWorktreePreserves
<1>17. ASSUME NEW t \in Task, RemoveWorktree(t) PROVE IInv'
  BY <1>17, RemoveWorktreePreserves
<1>18. CASE Push
  BY <1>18, PushPreserves
<1>19. CASE Merge
  BY <1>19, MergePreserves
<1>20. CASE Crash
  BY <1>20, CrashPreserves
<1>21. CASE UNCHANGED vars
  BY <1>21
     DEF IInv, vars, git, remote, refs, history, TypeOK, MutexInv, HistoryInv,
         FreshInv, DiffIsFresh, Contains, CloneInv
<1>. QED
  BY <1>1, <1>2, <1>3, <1>4, <1>5, <1>6, <1>7, <1>8, <1>9, <1>10, <1>11, <1>12,
     <1>13, <1>14, <1>15, <1>16, <1>17, <1>18, <1>19, <1>20, <1>21
     DEF Next, Bounded, Unbounded, Done

\* The inductive invariant holds of every behaviour.
THEOREM Inductive == Spec => []IInv
  BY InitIInv, NextIInv, PTL DEF Spec

\* Every variable has its type: in particular a worktree made for a submission
\* shows the feature branch and nothing else.
THEOREM TypeCorrect == Spec => []TypeOK
<1>1. IInv => TypeOK
  BY DEF IInv
<1>. QED
  BY <1>1, Inductive, PTL

\* The diff a task is analysed from is of the feature branch, not older than its
\* submission and not newer than its worktree, or was recovered from a merge
\* commit of a base that already contained the branch: for any number of
\* submissions, pushes, merges, failed or killed git commands and crashes over
\* one clone (fetchBranchDiff, recoverMergedBranchDiff).
THEOREM DiffsAreFresh == Spec => []DiffIsFresh
<1>1. IInv => DiffIsFresh
  BY DEF IInv
<1>. QED
  BY <1>1, Inductive, PTL

\* The removal of lock files leaves no dead process's behind that it is meant to
\* remove, and takes no running fetch's, unless the clone was removed and made
\* anew under the submission.
THEOREM RemovalsSafe == Spec => []RemovalIsSafe
<1>1. IInv => RemovalIsSafe
  BY RepoAssumption DEF IInv, CloneInv, RemovalIsSafe, Removed
<1>. QED
  BY <1>1, Inductive, PTL
=============================================================================
