-------------------------- MODULE Orchestrator_proofs --------------------------
(***************************************************************************)
(* Proofs about Orchestrator: its inductive invariant, the safety          *)
(* properties that follow from it, and that it implements CallTracing.     *)
(***************************************************************************)
EXTENDS Orchestrator, FiniteSetTheorems, SequenceTheorems, WellFoundedInduction,
TLAPS

(* The inductive invariant. *)

\* While batches are grouped and completed their keys are made of paths.
KeysInv ==
    pc \in {"cover", "triage"} =>
        \A b \in DOMAIN pending : b.group \in Key \cup {Plain}

\* Workers run during a round only, and a batch runs or has its result.
WorkInv ==
    /\ pc # "work" => running = {}
    /\ pc = "work" => /\ round < MaxRounds
                      /\ DOMAIN results \subseteq DOMAIN pending
                      /\ running \cap DOMAIN results = {}

\* Before the first round nothing has been queued or counted; a later one is
\* begun for work.
StartInv ==
    /\ pc \notin {"round", "work", "returned"} => round = 0 /\ visited = {}
    /\ pc \in {"extract", "graph", "group"} => pending = <<>>
    /\ pc = "returned" /\ pending # <<>> => round = MaxRounds
    /\ pc = "round" /\ round > 0 /\ pending # <<>> => AllWork(pending) # {}
    /\ pc = "work" /\ round > 0 => AllWork(pending) # {}

Good == {c \in DOMAIN results : results[c] # Nil}

\* A batch of the same round and repository has its ghost files in the output.
Ghosts(s) == \E t \in output.ghosts : t[1] = s[1] /\ t[2].repo = s[2].repo

\* What succeeded is in the output, or is a result of this round.
OutputInv ==
    /\ succeeded = output.graph \cup
          (IF pc = "work" THEN {<<round, b>> : b \in Good} ELSE {})
    /\ \A s \in output.graph : Ghosts(s)

\* The running batches belong to the tier, and earlier tiers are finished.
TierInv ==
    pc = "work" =>
        /\ \A b \in running : TierOf(b) = tier
        /\ \A b \in DOMAIN pending : TierOf(b) < tier => b \in DOMAIN results

\* What the round's workers found is in their results, and once merged, queued.
FoundInv ==
    /\ pc = "work" =>
         found = UNION {{[by |-> b.repo, call |-> c] : c \in results[b].calls} : b \in Good}
    /\ pc = "round" /\ round > 0 =>
         \A w \in found : InScope(w.call) /\ Traceable(w.call) =>
            Target(w.call) \in visited \/ Displaced(w)

\* What was queued was handed to a worker or is still to be.
HandedInv ==
    /\ pc \in {"round", "returned"} => visited \ handed \subseteq AllWork(pending)
    /\ pc = "work" =>
         visited \ handed \subseteq
            UNION {pending[b] : b \in DOMAIN pending \ Launched}

IInv ==
    /\ TypeOK /\ KeysInv /\ WorkInv /\ StartInv
    /\ OutputInv /\ TierInv /\ FoundInv /\ HandedInv

LEMMA InitIInv == Init => IInv
<1>. SUFFICES ASSUME Init PROVE IInv
  OBVIOUS
<1>1. DOMAIN pending = {} /\ DOMAIN results = {} /\ DOMAIN tierOf = {}
      /\ DOMAIN changed = {}
  BY DEF Init
<1>2. input.files \in Seq([repo : Repo, file : File, name : {Whole}])
  BY OrchestratorAssumption DEF Init
<1>3. TypeOK
  <2>1. scanned \in 0..Len(input.files) /\ round \in 0..MaxRounds /\ tier \in 0..3
    BY <1>2, OrchestratorAssumption DEF Init
  <2>. QED
    BY <1>1, <2>1 DEF Init, TypeOK, PC, IsBatches
<1>. QED
  BY <1>1, <1>3
     DEF Init, IInv, KeysInv, WorkInv, StartInv, OutputInv, TierInv, FoundInv,
         HandedInv

-----------------------------------------------------------------------------
(* What batching and triage make of typed work is typed. *)

\* parseFileFuncTriple always finds a configured repository, and sanitizeKey
\* is known for the file.
LEMMA GroupIsTyped ==
    ASSUME NEW i \in Item
    PROVE  Group(i)[1] \in Repo /\ Slug(Group(i)[2]) \in Key \cup {Plain}
<1>1. GroupRepo(i) \in Repo /\ GroupFile(i) \in File \cup {NoFile}
  BY OrchestratorAssumption DEF GroupRepo, GroupFile, Located, Item
<1>2. Group(i) = <<GroupRepo(i), GroupFile(i)>>
  BY DEF Group
<1>3. \A x \in File \cup {NoFile} : Slug(x) \in Key \cup {Plain}
  BY OrchestratorAssumption DEF Slug
<1>. QED
  BY <1>1, <1>2, <1>3

LEMMA ChangedIsFinite ==
  ASSUME TypeOK
  PROVE  \E n \in Nat : DOMAIN changed \subseteq 1..n
<1>1. input.names \in Seq(Item)
  BY OrchestratorAssumption DEF TypeOK
<1>2. DOMAIN changed \subseteq 1..Len(input.names) /\ Len(input.names) \in Nat
  BY <1>1 DEF TypeOK
<1>. QED
  BY <1>2

\* The place of a function among those of its file.
LEMMA RankType ==
  ASSUME TypeOK, NEW k \in DOMAIN changed
  PROVE  Rank(changed, k) \in Nat \ {0}
<1>. DEFINE before == {j \in Members(changed, Group(changed[k])) : j <= k}
<1>1. PICK n \in Nat : DOMAIN changed \subseteq 1..n
  BY ChangedIsFinite
<1>2. IsFiniteSet(before)
  BY <1>1, FS_Interval, FS_Subset DEF Members
<1>3. k \in before
  BY <1>1 DEF Members
<1>4. Cardinality(before) \in Nat /\ Cardinality(before) # 0
  BY <1>2, <1>3, FS_CardinalityType, FS_EmptySet
<1>. QED
  BY <1>4 DEF Rank

\* groupByRepoAndFile makes batches of paths and of the work it is given.
LEMMA GroupingIsTyped ==
    ASSUME TypeOK
    PROVE  /\ IsBatches(GroupByRepoAndFile(changed))
           /\ \A b \in DOMAIN GroupByRepoAndFile(changed) : b.group \in Key \cup {Plain}
<1>. DEFINE p == GroupByRepoAndFile(changed)
<1>1. ASSUME NEW g \in Groups(changed), NEW b \in KeysOf(changed, g)
      PROVE  b \in Batch /\ b.group \in Key \cup {Plain}
  <2>1. PICK m \in DOMAIN changed : g = Group(changed[m])
    BY DEF Groups
  <2>2. g[1] \in Repo /\ Slug(g[2]) \in Key \cup {Plain}
    BY <2>1, GroupIsTyped DEF TypeOK
  <2>3. ASSUME NEW n \in Nat PROVE BatchOf(g[1], Slug(g[2]), n) \in Batch
    BY <2>2 DEF BatchOf, Batch
  <2>4. ASSUME NEW k \in DOMAIN changed
        PROVE  ((Rank(changed, k) - 1) \div MaxFuncs) + 1 \in Nat
    <3>1. Rank(changed, k) - 1 \in Nat /\ MaxFuncs \in Nat \ {0}
      BY RankType, OrchestratorAssumption
    <3>. QED
      BY <3>1
  <2>5. PICK n \in Nat : b = BatchOf(g[1], Slug(g[2]), n)
    BY <2>4 DEF KeysOf, Members
  <2>. QED
    BY <2>2, <2>3, <2>5 DEF BatchOf
<1>2. DOMAIN p = UNION {KeysOf(changed, g) : g \in Groups(changed)}
  BY DEF GroupByRepoAndFile
<1>3. ASSUME NEW b \in DOMAIN p PROVE p[b] \subseteq Item
  <2>1. p[b] \subseteq {changed[k] : k \in DOMAIN changed}
    BY <1>2 DEF GroupByRepoAndFile, Slice, Members
  <2>. QED
    BY <2>1 DEF TypeOK
<1>. QED
  BY <1>1, <1>2, <1>3 DEF IsBatches

\* ensureDiffFileCoverage adds batches of paths.
LEMMA CoverIsTyped ==
    ASSUME IsBatches(pending), NEW r \in Repo, NEW x \in File
    PROVE  LET s == Sentinel(r, x)
               p == EnsureCovered(pending, s) IN
           /\ IsBatches(p)
           /\ \A b \in DOMAIN p : b \in DOMAIN pending \/ b.group \in Key
<1>. DEFINE s == Sentinel(r, x)
            n == BatchOf(s.repo, KeyOf[s.file], 0)
<1>1. s \in Item /\ s.repo = r /\ s.file = x
  BY DEF Sentinel, Item
<1>2. n \in Batch /\ n.group \in Key
  BY <1>1, OrchestratorAssumption DEF BatchOf, Batch
<1>. QED
  BY <1>1, <1>2 DEF EnsureCovered, Extend, IsBatches

\* applyTriage makes batches named after priorities.
LEMMA MergeIsTyped ==
    ASSUME IsBatches(pending),
           \A b \in DOMAIN pending : b.group \in Key \cup {Plain},
           NEW priority \in [DOMAIN pending -> Priority],
           NEW chunk \in [DOMAIN pending -> Nat]
    PROVE  LET p == Merge(pending, priority, chunk) IN
           /\ IsBatches(p)
           /\ \A m \in DOMAIN p : m.group \in Priority
<1>. DEFINE p == Merge(pending, priority, chunk)
            KeyFor(b) == BatchOf(b.repo, priority[b], chunk[b])
<1>1. ASSUME NEW b \in DOMAIN pending
      PROVE  KeyFor(b) \in Batch /\ KeyFor(b).group \in Priority
  BY DEF IsBatches, Batch, BatchOf
<1>2. ASSUME NEW b \in DOMAIN pending
      PROVE  WorkOf(pending, b, priority[b]) \subseteq Item
  <2>1. b \in Batch /\ pending[b] \subseteq Item
    BY DEF IsBatches
  <2>2. b.repo \in Repo
    BY <2>1 DEF Batch
  <2>3. ASSUME NEW x \in File \cup {NoFile} PROVE Sentinel(b.repo, x) \in Item
    BY <2>2 DEF Sentinel, Item
  <2>4. Demote(b) \subseteq Item
    BY <2>3, OrchestratorAssumption DEF Demote
  <2>. QED
    BY <2>1, <2>4 DEF WorkOf
<1>3. DOMAIN p = {KeyFor(b) : b \in DOMAIN pending}
  BY DEF Merge
<1>4. ASSUME NEW m \in DOMAIN p PROVE p[m] \subseteq Item
  BY <1>2, <1>3 DEF Merge
<1>. QED
  BY <1>1, <1>3, <1>4 DEF IsBatches

\* What a round queues is work for configured repositories, and grouping it by
\* repository neither adds nor drops any.
LEMMA NewWorkIsTyped ==
    ASSUME TypeOK, NEW merged, \A r \in Repo : merged[r] \subseteq CallsOf(r)
    PROVE  /\ NewWork(merged) \subseteq Item
           /\ IsBatches(ByRepo(NewWork(merged)))
           /\ AllWork(ByRepo(NewWork(merged))) = NewWork(merged)
<1>. DEFINE W == NewWork(merged)
<1>1. \A r \in Repo : \A i \in Follow(merged[r]) : i \in Item /\ i.repo \in Repo
  <2>. SUFFICES ASSUME NEW r \in Repo, NEW i \in Follow(merged[r])
                PROVE  i \in Item /\ i.repo \in Repo
    OBVIOUS
  <2>1. PICK c \in merged[r] : i = Target(c) /\ c.repo \in Repo
    BY DEF Follow, InScope
  <2>2. c \in Call
    BY <2>1, OrchestratorAssumption DEF CallsOf, Succeeded, TypeOK, Report
  <2>3. CASE c.name = NoName
    <3>1. c.file \in File \cup {NoFile}
      BY <2>2 DEF Call, Item
    <3>. QED
      BY <2>1, <2>3, <3>1 DEF Target, Sentinel, Item
  <2>4. CASE c.name # NoName
    BY <2>1, <2>2, <2>4 DEF Target, Call
  <2>. QED
    BY <2>3, <2>4
<1>2. ASSUME NEW r \in Repo, NEW i \in ThinFiles(r)
      PROVE  i \in Item /\ i.repo \in Repo
  <2>1. PICK w \in pending[BatchOf(r, Plain, 0)] :
           /\ BatchOf(r, Plain, 0) \in DOMAIN pending
           /\ i = Sentinel(r, w.file)
    BY <1>2 DEF ThinFiles
  <2>2. w \in Item
    BY <2>1 DEF TypeOK, IsBatches
  <2>. QED
    BY <2>1, <2>2 DEF Sentinel, Item
<1>3. ASSUME NEW i \in W PROVE i \in Item /\ i.repo \in Repo
  BY <1>1, <1>2 DEF NewWork
<1>4. \A i \in W : BatchOf(i.repo, Plain, 0) \in Batch
  BY <1>3 DEF BatchOf, Batch
<1>5. \A i \in W : BatchOf(i.repo, Plain, 0).repo = i.repo
  BY DEF BatchOf
<1>6. DOMAIN ByRepo(W) = {BatchOf(i.repo, Plain, 0) : i \in W}
  BY DEF ByRepo
<1>7. \A b \in DOMAIN ByRepo(W) :
         ByRepo(W)[b] = {i \in W : i.repo = b.repo}
  BY DEF ByRepo
<1>. QED
  BY <1>3, <1>4, <1>5, <1>6, <1>7 DEF IsBatches, AllWork

\* A priority is one of four tiers.
LEMMA TierOfType == \A b : TierOf(b) \in 0..3
  BY DEF TierOf

-----------------------------------------------------------------------------
(* Every action preserves the invariant. *)

\* The steps from the diff to the first round.
LEMMA PrepareIInv == IInv /\ Prepare => IInv'
<1>. SUFFICES ASSUME IInv, Prepare PROVE IInv'
  OBVIOUS
<1>. USE DEF IInv
<1>1. CASE Extract
  <2>1. input.names \in Seq(Item)
    BY OrchestratorAssumption DEF TypeOK
  <2>2. TypeOK'
    BY <1>1, <2>1 DEF Extract, TypeOK, PC, IsBatches
  <2>. QED
    BY <1>1, <2>2
       DEF Extract, KeysInv, WorkInv, StartInv, OutputInv, Good, Ghosts, TierInv,
           FoundInv, Displaced, HandedInv, AllWork, InScope, Launched
<1>2. CASE ExtractFails
  <2>1. TypeOK'
    BY <1>2 DEF ExtractFails, TypeOK, PC, IsBatches, plan
  <2>. QED
    BY <1>2, <2>1
       DEF ExtractFails, KeysInv, WorkInv, StartInv, OutputInv, Good, Ghosts,
           TierInv, FoundInv, Displaced, HandedInv, plan
<1>3. CASE Graph
  <2>1. ASSUME NEW i \in Item PROVE Strip(i) \in Item
    BY OrchestratorAssumption DEF Strip, Item
  <2>2. TypeOK'
    BY <1>3, <2>1 DEF Graph, TypeOK, PC, IsBatches
  <2>3. pc' \in {"returned", "group"} /\ pending = <<>> /\ visited = {}
        /\ round = 0
    BY <1>3 DEF Graph, StartInv
  <2>4. visited' = {} /\ pending' = <<>> /\ round' = 0
    BY <1>3, <2>3 DEF Graph
  <2>. QED
    BY <1>3, <2>2, <2>3, <2>4
       DEF Graph, KeysInv, WorkInv, StartInv, OutputInv, Good, Ghosts, TierInv,
           FoundInv, Displaced, HandedInv
<1>4. CASE GroupChanged
  <2>1. TypeOK'
    BY <1>4, GroupingIsTyped DEF GroupChanged, TypeOK, PC, IsBatches, plan, WorkInv
  <2>2. KeysInv'
    BY <1>4, GroupingIsTyped DEF GroupChanged, KeysInv
  <2>. QED
    BY <1>4, <2>1, <2>2
       DEF GroupChanged, WorkInv, StartInv, OutputInv, Good, Ghosts, TierInv,
           FoundInv, Displaced, HandedInv, plan
<1>5. CASE CoverFile
  <2>. DEFINE s == input.files[scanned + 1]
  <2>1. /\ input.files \in Seq([repo : Repo, file : File, name : {Whole}])
        /\ scanned \in 0..Len(input.files)
    BY OrchestratorAssumption DEF TypeOK
  <2>2. s \in [repo : Repo, file : File, name : {Whole}]
        /\ scanned + 1 \in 0..Len(input.files)
    <3>1. Len(input.files) \in Nat /\ scanned < Len(input.files)
      BY <1>5, <2>1 DEF CoverFile
    <3>2. scanned + 1 \in 1..Len(input.files)
      BY <2>1, <3>1
    <3>3. input.files[scanned + 1] \in [repo : Repo, file : File, name : {Whole}]
      BY <2>1, <3>2, ElementOfSeq
    <3>. QED
      BY <3>1, <3>2, <3>3
  <2>3. s = Sentinel(s.repo, s.file) /\ s.repo \in Repo /\ s.file \in File
    BY <2>2 DEF Sentinel
  <2>4. /\ IsBatches(EnsureCovered(pending, s))
        /\ \A b \in DOMAIN EnsureCovered(pending, s) : b \in DOMAIN pending \/ b.group \in Key
    BY <2>3, CoverIsTyped DEF TypeOK
  <2>5. pending' = EnsureCovered(pending, s)
    BY <1>5 DEF CoverFile
  <2>6. TypeOK'
    BY <1>5, <2>2, <2>4, <2>5 DEF CoverFile, TypeOK, WorkInv, IsBatches
  <2>7. KeysInv'
    BY <1>5, <2>4, <2>5 DEF CoverFile, KeysInv
  <2>. QED
    BY <1>5, <2>6, <2>7
       DEF CoverFile, WorkInv, StartInv, OutputInv, Good, Ghosts, TierInv, FoundInv,
           Displaced, HandedInv
<1>6. CASE AllCovered
  <2>1. TypeOK'
    BY <1>6 DEF AllCovered, TypeOK, PC, IsBatches, plan
  <2>. QED
    BY <1>6, <2>1
       DEF AllCovered, KeysInv, WorkInv, StartInv, OutputInv, Good, Ghosts, TierInv,
           FoundInv, Displaced, HandedInv, plan
<1>7. CASE ApplyTriage
  <2>1. PICK priority \in [DOMAIN pending -> Priority],
             chunk \in [DOMAIN pending ->
                        0..((Cardinality(DOMAIN pending) - 1) \div MaxMerge)] :
           /\ pending' = Merge(pending, priority, chunk)
           /\ tierOf' = [m \in DOMAIN pending' |-> m.group]
           /\ demoted' = UNION {pending[b] :
                b \in {c \in DOMAIN pending : priority[c] = "P2"}}
    BY <1>7 DEF ApplyTriage
  <2>2. chunk \in [DOMAIN pending -> Nat]
    OBVIOUS
  <2>3. IsBatches(pending') /\ \A m \in DOMAIN pending' : m.group \in Priority
    BY <1>7, <2>1, <2>2, MergeIsTyped DEF ApplyTriage, TypeOK, KeysInv
  <2>4. demoted' \subseteq Item
    BY <2>1 DEF TypeOK, IsBatches
  <2>5. TypeOK'
    BY <1>7, <2>1, <2>3, <2>4 DEF ApplyTriage, TypeOK, PC, WorkInv, IsBatches
  <2>. QED
    BY <1>7, <2>5
       DEF ApplyTriage, KeysInv, WorkInv, StartInv, OutputInv, Good, Ghosts,
           TierInv, FoundInv, Displaced, HandedInv
<1>8. CASE SkipTriage
  <2>1. TypeOK'
    BY <1>8 DEF SkipTriage, TypeOK, PC, IsBatches, plan
  <2>. QED
    BY <1>8, <2>1
       DEF SkipTriage, KeysInv, WorkInv, StartInv, OutputInv, Good, Ghosts, TierInv,
           FoundInv, Displaced, HandedInv, plan
<1>. QED
  BY <1>1, <1>2, <1>3, <1>4, <1>5, <1>6, <1>7, <1>8 DEF Prepare

\* The first round's condition, the end of Run, and the tiers of a round.
LEMMA LoopIInv == IInv /\ (BeginRound \/ Finish \/ NextTier) => IInv'
<1>. SUFFICES ASSUME IInv, BeginRound \/ Finish \/ NextTier PROVE IInv'
  OBVIOUS
<1>. USE DEF IInv
<1>1. CASE BeginRound
  <2>1. TypeOK'
    BY <1>1 DEF BeginRound, TypeOK, PC, IsBatches, plan, WorkInv
  <2>2. running = {} /\ results' = <<>> /\ DOMAIN results' = {} /\ Launched' = {}
    BY <1>1 DEF BeginRound, WorkInv, Launched
  <2>3. WorkInv' /\ OutputInv'
    <3>1. round < MaxRounds
      BY <1>1, OrchestratorAssumption DEF BeginRound
    <3>. QED
      BY <1>1, <2>2, <3>1 DEF BeginRound, WorkInv, OutputInv, Good, Ghosts, plan
  <2>4. TierInv'
    <3>1. \A b : TierOf(b)' = TierOf(b)
      BY <1>1 DEF BeginRound, plan, TierOf
    <3>2. tier' = 0 /\ running' = {}
      BY <1>1, <2>2 DEF BeginRound
    <3>3. \A b : ~(TierOf(b) < 0)
      BY TierOfType
    <3>. QED
      BY <3>1, <3>2, <3>3 DEF TierInv
  <2>5. HandedInv'
    BY <1>1, <2>2 DEF BeginRound, HandedInv, AllWork
  <2>. QED
    BY <1>1, <2>1, <2>3, <2>4, <2>5
       DEF BeginRound, KeysInv, StartInv, FoundInv, Displaced, Good, plan
<1>2. CASE Finish
  <2>1. TypeOK'
    BY <1>2 DEF Finish, TypeOK, PC, IsBatches, plan
  <2>. QED
    BY <1>2, <2>1
       DEF Finish, KeysInv, WorkInv, StartInv, OutputInv, Good, Ghosts, TierInv,
           FoundInv, Displaced, HandedInv, AllWork, plan
<1>3. CASE NextTier
  <2>1. TypeOK'
    BY <1>3 DEF NextTier, TypeOK, PC, IsBatches, plan
  <2>2. TierInv'
    <3>1. \A b : TierOf(b)' = TierOf(b)
      BY <1>3 DEF NextTier, TierOf, plan
    <3>2. running' = {} /\ tier' = tier + 1 /\ tier \in 0..3
      BY <1>3 DEF NextTier, TierDone, TypeOK
    <3>3. ASSUME NEW b \in DOMAIN pending, TierOf(b) < tier + 1
          PROVE  b \in DOMAIN results
      <4>1. TierOf(b) < tier \/ TierOf(b) = tier
        BY <3>2, <3>3, TierOfType
      <4>2. CASE TierOf(b) = tier
        BY <1>3, <4>2 DEF NextTier, TierDone, Tier, Launched
      <4>. QED
        BY <1>3, <4>1, <4>2 DEF NextTier, TierInv
    <3>. QED
      BY <1>3, <3>1, <3>2, <3>3 DEF NextTier, TierInv
  <2>. QED
    BY <1>3, <2>1, <2>2
       DEF NextTier, KeysInv, WorkInv, StartInv, OutputInv, Good, Ghosts, FoundInv,
           Displaced, HandedInv, AllWork, Launched, plan
<1>. QED
  BY <1>1, <1>2, <1>3

\* A batch is given to a worker.
LEMMA LaunchIInv == ASSUME IInv, NEW b \in DOMAIN pending, Launch(b) PROVE IInv'
<1>. USE DEF IInv
<1>1. b \in DOMAIN pending /\ b \notin running /\ b \notin DOMAIN results
      /\ TierOf(b) = tier
  BY DEF Launch, Tier, Launched
<1>2. TypeOK'
  <2>1. pending[b] \subseteq Item
    BY DEF TypeOK, IsBatches
  <2>. QED
    BY <1>1, <2>1 DEF Launch, TypeOK, PC, IsBatches, plan
<1>3. WorkInv' /\ OutputInv'
  BY <1>1 DEF Launch, WorkInv, OutputInv, Good, Ghosts, plan
<1>4. TierInv'
  <2>1. \A c : TierOf(c)' = TierOf(c)
    BY DEF Launch, TierOf, plan
  <2>. QED
    BY <1>1, <2>1 DEF Launch, TierInv
<1>5. HandedInv'
  <2>1. pc = "work" /\ pc' = "work" /\ pending' = pending /\ visited' = visited
        /\ handed' = handed \cup pending[b] /\ Launched' = Launched \cup {b}
    BY DEF Launch, Launched
  <2>2. ASSUME NEW i \in visited, i \notin handed, i \notin pending[b]
        PROVE  \E c \in DOMAIN pending \ (Launched \cup {b}) : i \in pending[c]
    BY <2>1, <2>2 DEF HandedInv
  <2>. QED
    BY <2>1, <2>2 DEF HandedInv
<1>. QED
  BY <1>2, <1>3, <1>4, <1>5 DEF Launch, KeysInv, StartInv, FoundInv, Displaced, Good, plan

\* A worker ends, with a report or without.
LEMMA ConcludeIInv ==
    ASSUME IInv, NEW b \in running, WorkerReturns(b) \/ WorkerFails(b)
    PROVE  IInv'
<1>. USE DEF IInv
<1>1. /\ pc = "work" /\ pc' = "work" /\ round' = round /\ pending' = pending
      /\ tierOf' = tierOf /\ tier' = tier /\ output' = output
         /\ visited' = visited
      /\ handed' = handed /\ input' = input
      /\ b \in DOMAIN pending /\ b \notin DOMAIN results
  BY DEF WorkerReturns, WorkerFails, WorkInv, TypeOK, plan
<1>2. PICK x \in Reports \cup {Nil} :
         /\ Conclude(b, x)
         /\ x # Nil => found' = found \cup {[by |-> b.repo, call |-> c] : c \in x.calls}
            /\ succeeded' = succeeded \cup {<<round, b>>}
         /\ x = Nil => found' = found /\ succeeded' = succeeded
  <2>1. Nil \notin Reports
    BY OrchestratorAssumption
  <2>. QED
    BY <2>1 DEF WorkerReturns, WorkerFails
<1>3. /\ running' = running \ {b}
      /\ DOMAIN results' = DOMAIN results \cup {b}
      /\ results'[b] = x
      /\ \A c \in DOMAIN results : results'[c] = results[c]
      /\ Launched' = Launched
  BY <1>1, <1>2 DEF Conclude, Extend, Launched
<1>4. Good' = Good \cup (IF x = Nil THEN {} ELSE {b})
  BY <1>1, <1>3 DEF Good
<1>5. TypeOK'
  <2>1. found' \subseteq [by : Repo, call : Call]
    <3>1. b.repo \in Repo
      BY <1>1 DEF TypeOK, IsBatches, Batch
    <3>2. x # Nil => x.calls \subseteq Call
      BY <1>2, OrchestratorAssumption DEF Report
    <3>. QED
      BY <1>2, <3>1, <3>2 DEF TypeOK
  <2>2. output'.graph \subseteq succeeded'
    BY <1>1, <1>2 DEF TypeOK
  <2>3. /\ input' = input /\ changed' = changed /\ scanned' = scanned
           /\ demoted' = demoted
    BY DEF WorkerReturns, WorkerFails, plan
  <2>. QED
    BY <1>1, <1>2, <1>3, <2>1, <2>2, <2>3 DEF TypeOK, IsBatches
<1>6. WorkInv'
  BY <1>1, <1>3 DEF WorkInv
<1>7. OutputInv'
  BY <1>1, <1>2, <1>4 DEF OutputInv, Ghosts
<1>8. TierInv'
  <2>1. \A c : TierOf(c)' = TierOf(c)
    BY <1>1 DEF TierOf
  <2>. QED
    BY <1>1, <1>3, <2>1 DEF TierInv
<1>9. FoundInv'
  <2>. DEFINE Of(c) == {[by |-> c.repo, call |-> d] : d \in results[c].calls}
              New(c) == {[by |-> c.repo, call |-> d] : d \in results'[c].calls}
  <2>1. found = UNION {Of(c) : c \in Good}
    BY <1>1 DEF FoundInv
  <2>2. \A c \in Good : New(c) = Of(c)
    BY <1>3 DEF Good
  <2>3. found' = UNION {New(c) : c \in Good'}
    <3>1. CASE x = Nil
      BY <1>2, <1>4, <2>1, <2>2, <3>1
    <3>2. CASE x # Nil
      <4>1. New(b) = {[by |-> b.repo, call |-> c] : c \in x.calls}
        BY <1>3
      <4>2. found' = found \cup New(b) /\ Good' = Good \cup {b}
        BY <1>2, <1>4, <3>2, <4>1
      <4>. HIDE DEF Of, New
      <4>. QED
        BY <2>1, <2>2, <4>2
    <3>. QED
      BY <3>1, <3>2
  <2>. QED
    BY <1>1, <2>3 DEF FoundInv
<1>10. HandedInv'
  BY <1>1, <1>3 DEF HandedInv
<1>. QED
  BY <1>1, <1>5, <1>6, <1>7, <1>8, <1>9, <1>10 DEF KeysInv, StartInv

\* A round is merged: every batch has its result, what succeeded is in the
\* output, and what was found or queued is queued or given to a worker.
LEMMA MergeIInv == IInv /\ MergeRound => IInv'
<1>. SUFFICES ASSUME IInv, MergeRound PROVE IInv'
  OBVIOUS
<1>. USE DEF IInv
<1>1. /\ pc = "work" /\ pc' = "round" /\ round' = round + 1
      /\ handed' = handed /\ found' = found /\ succeeded' = succeeded
      /\ running = {} /\ running' = {} /\ results' = results /\ tier = 3
         /\ tier' = 3
      /\ round \in Nat /\ round < MaxRounds
  BY OrchestratorAssumption DEF MergeRound, TierDone, TypeOK, WorkInv
<1>11. PICK merged : /\ \A r \in Repo : merged[r] \in Deduplicated(CallsOf(r))
                    /\ visited' = visited \cup NewWork(merged)
                    /\ pending' = ByRepo(NewWork(merged))
  BY DEF MergeRound
<1>12. \A r \in Repo : merged[r] \subseteq CallsOf(r)
  BY <1>11 DEF Deduplicated
<1>. DEFINE W == NewWork(merged)
<1>2. W \subseteq Item /\ IsBatches(pending') /\ AllWork(pending') = W
  BY <1>11, <1>12, NewWorkIsTyped DEF AllWork
<1>3. ASSUME NEW b \in DOMAIN pending PROVE b \in DOMAIN results /\ b \in Launched
  <2>1. TierOf(b) < 3 \/ TierOf(b) = 3
    BY TierOfType
  <2>2. CASE TierOf(b) = 3
    BY <1>1, <2>2 DEF MergeRound, TierDone, Tier, Launched
  <2>. QED
    BY <1>1, <2>1, <2>2 DEF TierInv, Launched
<1>4. UNION {Succeeded(r) : r \in Repo} = Good /\ \A c \in DOMAIN results : c.repo \in Repo
  <2>1. \A c \in DOMAIN results : c.repo \in Repo
    BY <1>1 DEF WorkInv, TypeOK, IsBatches, Batch
  <2>. QED
    BY <2>1 DEF Succeeded, Good
<1>5. PICK first \in Firsts :
        /\ output'.graph = output.graph \cup {<<round, b>> : b \in Good}
        /\ output'.ghosts = output.ghosts \cup
              {<<round, first[r]>> : r \in {q \in Repo : Succeeded(q) # {}}}
        /\ output'.workers = [r \in Repo |-> IF Succeeded(r) = {} THEN output.workers[r]
                                             ELSE {<<round, b>> : b \in Succeeded(r)}]
  BY <1>4 DEF MergeRound
<1>13. \A r \in Repo : Succeeded(r) # {} => first[r] \in Good /\ first[r].repo = r
  BY <1>5 DEF Firsts, Succeeded, Good
<1>6. OutputInv' /\ output'.graph = succeeded'
  <2>1. ASSUME NEW s \in output'.graph PROVE Ghosts(s)'
    <3>1. CASE s \in output.graph
      BY <1>5, <3>1 DEF OutputInv, Ghosts
    <3>2. ASSUME NEW b \in Good, s = <<round, b>> PROVE Ghosts(s)'
      <4>1. b.repo \in Repo /\ b \in Succeeded(b.repo)
        BY <1>4, <3>2 DEF Good, Succeeded
      <4>2. <<round, first[b.repo]>> \in output'.ghosts /\ first[b.repo].repo = b.repo
        BY <1>5, <1>13, <4>1
      <4>. QED
        BY <3>2, <4>2 DEF Ghosts
    <3>. QED
      BY <1>5, <3>1, <3>2
  <2>. QED
    BY <1>1, <1>5, <2>1 DEF OutputInv
<1>7. TypeOK'
  <2>1. \A r \in Repo : output'.workers[r] \subseteq output'.graph
    <3>. TAKE r \in Repo
    <3>1. Succeeded(r) \subseteq Good
      BY DEF Succeeded, Good
    <3>2. output.workers[r] \subseteq output.graph
      BY DEF TypeOK
    <3>. QED
      BY <1>5, <3>1, <3>2
  <2>2. /\ input' = input /\ changed' = changed /\ scanned' = scanned
        /\ tierOf' = tierOf /\ demoted' = demoted
    BY DEF MergeRound, plan
  <2>3. visited' \subseteq Item /\ round' \in 0..MaxRounds
    BY <1>1, <1>2, <1>11, OrchestratorAssumption DEF TypeOK
  <2>4. output'.ghosts \subseteq output'.graph
    BY <1>5, <1>13 DEF TypeOK
  <2>. QED
    BY <1>1, <1>2, <1>6, <2>1, <2>2, <2>3, <2>4 DEF TypeOK, PC
<1>8. StartInv'
  <2>1. pending' # <<>> => W # {}
    <3>1. ASSUME W = {} PROVE ByRepo(W) = <<>>
      BY <3>1 DEF ByRepo
    <3>. QED
      BY <1>11, <3>1
  <2>. QED
    BY <1>1, <1>2, <2>1 DEF StartInv
<1>9. FoundInv'
  <2>1. ASSUME NEW w \in found, InScope(w.call), Traceable(w.call)
        PROVE  Target(w.call) \in visited' \/ Displaced(w)
    <3>1. PICK b \in Good : w.by = b.repo /\ w.call \in results[b].calls
      BY <1>1 DEF FoundInv
    <3>2. w.by \in Repo /\ w.call \in CallsOf(w.by)
      BY <1>4, <3>1 DEF Good, CallsOf, Succeeded
    <3>3. PICK d \in merged[w.by] : SameTarget(w.call, d)
      BY <1>11, <3>2 DEF Deduplicated
    <3>4. CASE d = w.call
      <4>1. Target(w.call) \in Follow(merged[w.by])
        BY <2>1, <3>3, <3>4 DEF Follow
      <4>. QED
        BY <1>11, <3>2, <4>1 DEF NewWork
    <3>5. CASE d # w.call
      <4>1. PICK c \in Good : c.repo = w.by /\ d \in results[c].calls
        BY <1>12, <3>2, <3>3 DEF CallsOf, Succeeded, Good
      <4>2. [by |-> w.by, call |-> d] \in found
        BY <1>1, <4>1 DEF FoundInv
      <4>3. w.call.name = NoName /\ SameTarget(d, w.call)
        BY <3>3, <3>5 DEF SameTarget
      <4>. QED
        BY <3>5, <4>2, <4>3 DEF Displaced
    <3>. QED
      BY <3>4, <3>5
  <2>. QED
    BY <1>1, <2>1 DEF FoundInv, InScope, Displaced
<1>10. HandedInv'
  <2>1. visited \subseteq handed
    BY <1>1, <1>3 DEF HandedInv
  <2>. QED
    BY <1>1, <1>2, <1>11, <2>1 DEF HandedInv
<1>. QED
  BY <1>1, <1>6, <1>7, <1>8, <1>9, <1>10 DEF KeysInv, WorkInv, TierInv

\* Every step preserves the invariant.
LEMMA NextIInv == IInv /\ [Next]_vars => IInv'
<1>. SUFFICES ASSUME IInv, [Next]_vars PROVE IInv'
  OBVIOUS
<1>1. CASE Prepare
  BY <1>1, PrepareIInv
<1>2. CASE Rounds
  BY <1>2, LoopIInv, LaunchIInv, MergeIInv DEF Rounds
<1>3. CASE WorkerEnds
  BY <1>3, ConcludeIInv DEF WorkerEnds
<1>4. CASE UNCHANGED vars
  BY <1>4
     DEF vars, IInv, TypeOK, KeysInv, WorkInv, StartInv, OutputInv, Good, Ghosts,
         TierInv, FoundInv, Displaced, HandedInv, AllWork, Launched, TierOf,
         InScope, IsBatches, PC
<1>. QED
  BY <1>1, <1>2, <1>3, <1>4 DEF Next, Done

-----------------------------------------------------------------------------
(* The theorems. *)

\* Whatever the repositories, the diff, the triage and the workers: IInv holds
\* in every state of Run.
THEOREM Inductive == Spec => []IInv
<1>. QED
  BY InitIInv, NextIInv, PTL DEF Spec

\* Run's variables keep their types: batch keys name configured repositories,
\* results and output belong to batches and workers there were.
THEOREM TypeCorrect == Spec => []TypeOK
<1>1. IInv => TypeOK
  BY DEF IInv
<1>. QED
  BY <1>1, Inductive, PTL

\* wg.Wait makes the tiers serial, for any number of slots and batches.
THEOREM TiersSerial == Spec => []TierOrder
<1>1. IInv => TierOrder
  BY DEF IInv, TierOrder, TierInv, WorkInv
<1>. QED
  BY <1>1, Inductive, PTL

\* The merge of each round leaves out no worker that succeeded, but the ghost
\* files and wide-impact functions of all batches of a repository but one.
THEOREM NoFindingLost == Spec => []NothingLost
<1>1. IInv => NothingLost
  BY DEF IInv, NothingLost, OutputInv, Ghosts
<1>. QED
  BY <1>1, Inductive, PTL

\* Every call in the scope that a worker reported is queued, but nameless ones
\* without a file or behind another, and what was queued is given to a worker
\* unless MaxRounds ends the run first.
THEOREM EveryCallFollowed == Spec => []CallsFollowed
<1>1. IInv => CallsFollowed
  BY DEF IInv, CallsFollowed, FoundInv, HandedInv, StartInv
<1>. QED
  BY <1>1, Inductive, PTL

-----------------------------------------------------------------------------
(* No changed function is dropped on its way to the workers.               *)

\* The work of the batches no worker has yet.
Waiting == UNION {pending[b] : b \in DOMAIN pending \ Launched}

Kept(k, work) == changed[k] \in work \/ Overwritten(changed[k])

\* Where a changed function is: in a batch, replaced by a sentinel, in a batch
\* of the first round that no worker has yet, or given to a worker.
CoverInv ==
    /\ pc \in {"cover", "triage"} =>
         \A k \in DOMAIN changed : Kept(k, AllWork(pending))
    /\ pc = "round" /\ round = 0 =>
         \A k \in DOMAIN changed : Kept(k, AllWork(pending) \cup demoted)
    /\ pc = "work" /\ round = 0 =>
         \A k \in DOMAIN changed : Kept(k, Waiting \cup handed \cup demoted)
    /\ round > 0 =>
         \A k \in DOMAIN changed : Kept(k, handed \cup demoted)

LEMMA SmallestOf ==
  ASSUME NEW S \in SUBSET Nat, S # {}
  PROVE  \E m \in S : \A n \in S : m <= n
<1>. DEFINE R == OpToRel(<, Nat)
<1>1. PICK m \in S : \A n \in S : ~(<<n, m>> \in R)
  <2>. HIDE DEF R
  <2>1. IsWellFoundedOn(R, Nat)
    BY NatLessThanWellFounded DEF R
  <2>. QED
    BY <2>1, WFMin
<1>2. \A n \in S : ~(n < m)
  BY <1>1 DEF OpToRel
<1>. QED
  BY <1>2

LEMMA LargestOf ==
  ASSUME NEW n \in Nat, NEW S \in SUBSET (0..n), S # {}
  PROVE  \E m \in S : \A k \in S : k <= m
<1>. DEFINE D == {d \in Nat : n - d \in S}
<1>1. \A k \in S : n - k \in D
  OBVIOUS
<1>2. D # {}
  BY <1>1
<1>. HIDE DEF D
<1>3. D \in SUBSET Nat
  BY DEF D
<1>4. PICK d \in D : \A e \in D : d <= e
  BY <1>2, <1>3, SmallestOf
<1>5. n - d \in S /\ d \in Nat
  BY DEF D
<1>6. \A k \in S : k <= n - d
  <2>. SUFFICES ASSUME NEW k \in S PROVE k <= n - d
    OBVIOUS
  <2>1. d <= n - k
    BY <1>1, <1>4
  <2>. QED
    BY <1>5, <2>1
<1>. QED
  BY <1>5, <1>6

\* Of some files one comes last in the diff.
LEMMA OneIsLatest ==
  ASSUME TypeOK, NEW G \in SUBSET Groups(changed), G # {}
  PROVE  \E g \in G : \A h \in G \ {g} : Before(changed, h, g)
<1>. DEFINE IsFirst(g, j) == j \in Members(changed, g)
                                /\ \A k \in Members(changed, g) : j <= k
            S == {j \in DOMAIN changed : \E g \in G : IsFirst(g, j)}
<1>1. PICK n \in Nat : DOMAIN changed \subseteq 1..n
  BY ChangedIsFinite
<1>2. ASSUME NEW g \in G PROVE \E j \in S : IsFirst(g, j)
  <2>1. Members(changed, g) # {} /\ Members(changed, g) \in SUBSET Nat
    BY <1>1 DEF Members, Groups
  <2>2. PICK j \in Members(changed, g) : \A k \in Members(changed, g) : j <= k
    BY <2>1, SmallestOf
  <2>. QED
    BY <2>2 DEF Members
<1>3. S # {} /\ S \in SUBSET (0..n)
  BY <1>1, <1>2
<1>4. PICK m \in S : \A k \in S : k <= m
  <2>. HIDE DEF S
  <2>. QED
    BY <1>3, LargestOf
<1>5. PICK g \in G : IsFirst(g, m)
  BY <1>4
<1>6. ASSUME NEW h \in G \ {g} PROVE Before(changed, h, g)
  <2>1. PICK j \in S : IsFirst(h, j)
    BY <1>2
  <2>2. j <= m /\ j # m /\ j \in Nat /\ m \in Nat
    BY <1>1, <1>4, <1>5, <2>1 DEF Members
  <2>3. \A k \in Members(changed, g) : j < k
    BY <1>1, <1>5, <2>2 DEF Members
  <2>. QED
    BY <2>1, <2>3 DEF Before
<1>. QED
  BY <1>6

\* groupByRepoAndFile leaves every function in a batch, but for those of a split
\* file whose slices are replaced.
LEMMA GroupingKeeps ==
  ASSUME TypeOK, NEW k \in DOMAIN changed
  PROVE  Kept(k, AllWork(GroupByRepoAndFile(changed)))
<1>. DEFINE p == GroupByRepoAndFile(changed)
            g == Group(changed[k])
            With(b) == {h \in Groups(changed) : b \in KeysOf(changed, h)}
            Latest(b) == CHOOSE h \in With(b) :
                            \A i \in With(b) \ {h} : Before(changed, i, h)
<1>1. g \in Groups(changed) /\ k \in Members(changed, g)
  BY DEF Groups, Members
<1>2. DOMAIN p = UNION {KeysOf(changed, h) : h \in Groups(changed)}
      /\ \A b \in DOMAIN p :
            p[b] = IF b.part = 0
                   THEN {changed[j] : j \in UNION {Members(changed, h) : h \in With(b)}}
                   ELSE Slice(changed, Latest(b), b.part - 1)
  BY DEF GroupByRepoAndFile
<1>3. CASE ~Split(changed, g)
  <2>. DEFINE b == BatchOf(g[1], Slug(g[2]), 0)
  <2>1. b \in KeysOf(changed, g) /\ b.part = 0
    BY <1>3 DEF KeysOf, BatchOf
  <2>. HIDE DEF b, p
  <2>2. b \in DOMAIN p /\ g \in With(b)
    BY <1>1, <1>2, <2>1
  <2>3. k \in UNION {Members(changed, h) : h \in With(b)}
    BY <1>1, <2>2
  <2>4. p[b] = {changed[j] : j \in UNION {Members(changed, h) : h \in With(b)}}
    BY <1>2, <2>1, <2>2
  <2>5. changed[k] \in p[b]
    BY <2>3, <2>4
  <2>. QED
    BY <2>2, <2>5 DEF Kept, AllWork, p
<1>4. CASE Split(changed, g)
  <2>. DEFINE n == (Rank(changed, k) - 1) \div MaxFuncs
              b == BatchOf(g[1], Slug(g[2]), n + 1)
  <2>1. n \in Nat
    <3>1. Rank(changed, k) - 1 \in Nat /\ MaxFuncs \in Nat \ {0}
      BY RankType, OrchestratorAssumption
    <3>. QED
      BY <3>1
  <2>2. b \in KeysOf(changed, g) /\ b.part = n + 1
    BY <1>1, <1>4 DEF KeysOf, BatchOf
  <2>3. b \in DOMAIN p /\ g \in With(b)
    BY <1>1, <1>2, <2>2
  <2>. HIDE DEF b
  <2>4. Latest(b) \in With(b)
        /\ \A i \in With(b) \ {Latest(b)} : Before(changed, i, Latest(b))
    <3>1. \E h \in With(b) : \A i \in With(b) \ {h} : Before(changed, i, h)
      BY <2>3, OneIsLatest
    <3>. HIDE DEF With
    <3>. QED
      BY <3>1
  <2>5. p[b] = Slice(changed, Latest(b), n)
    <3>. HIDE DEF p, n, Latest
    <3>1. b.part # 0 /\ b.part - 1 = n
      BY <2>1, <2>2
    <3>2. p[b] = Slice(changed, Latest(b), b.part - 1)
      BY <1>2, <2>3, <3>1
    <3>. QED
      BY <3>1, <3>2
  <2>. HIDE DEF p, Latest
  <2>6. CASE Latest(b) = g
    <3>1. changed[k] \in p[b]
      BY <1>1, <2>5, <2>6 DEF Slice
    <3>. QED
      BY <2>3, <3>1 DEF Kept, AllWork, p
  <2>7. CASE Latest(b) # g
    <3>1. /\ Latest(b) \in Groups(changed) \ {g}
             /\ b \in KeysOf(changed, Latest(b))
          /\ Before(changed, g, Latest(b))
      BY <2>3, <2>4, <2>7
    <3>2. Split(changed, Latest(b))
      <4>1. b.part # 0
        BY <2>1, <2>2
      <4>. QED
        BY <3>1, <4>1 DEF KeysOf, BatchOf
    <3>. QED
      BY <1>4, <2>2, <3>1, <3>2 DEF Kept, Overwritten
  <2>. QED
    BY <2>6, <2>7
<1>. QED
  BY <1>3, <1>4

\* ensureDiffFileCoverage takes no batch's place.
LEMMA CoverKeeps ==
  ASSUME NEW s, KeyOf[s.file] \in Key
  PROVE  AllWork(pending) \subseteq AllWork(EnsureCovered(pending, s))
<1>. DEFINE n == BatchOf(s.repo, KeyOf[s.file], 0)
<1>1. CASE Covered(pending, s)
  BY <1>1 DEF EnsureCovered
<1>2. CASE ~Covered(pending, s)
  <2>1. n \notin DOMAIN pending
    BY <1>2, OrchestratorAssumption DEF Covered, BatchOf
  <2>. QED
    BY <1>2, <2>1 DEF EnsureCovered, Extend, AllWork
<1>. QED
  BY <1>1, <1>2

\* applyTriage keeps the work of a batch, or notes it as demoted.
LEMMA TriageKeeps ==
  ASSUME NEW priority, NEW chunk
  PROVE  AllWork(pending) \subseteq
            AllWork(Merge(pending, priority, chunk)) \cup
            UNION {pending[b] : b \in {c \in DOMAIN pending : priority[c] = "P2"}}
<1>. DEFINE p == Merge(pending, priority, chunk)
            KeyFor(b) == BatchOf(b.repo, priority[b], chunk[b])
<1>1. ASSUME NEW b \in DOMAIN pending, NEW i \in pending[b], priority[b] # "P2"
      PROVE  i \in AllWork(p)
  <2>1. i \in WorkOf(pending, b, priority[b])
    BY <1>1 DEF WorkOf
  <2>2. KeyFor(b) \in DOMAIN p /\ i \in p[KeyFor(b)]
    BY <2>1 DEF Merge
  <2>. QED
    BY <2>2 DEF AllWork
<1>. QED
  BY <1>1 DEF AllWork

LEMMA KeptInMore ==
  ASSUME NEW A, NEW B, A \subseteq B
  PROVE  \A k \in DOMAIN changed : Kept(k, A) => Kept(k, B)
  BY DEF Kept

LEMMA StillOverwritten ==
  ASSUME UNCHANGED changed
  PROVE  \A k \in DOMAIN changed :
            Overwritten(changed[k])' <=> Overwritten(changed[k])
  BY DEF Overwritten

LEMMA CoverNext == IInv /\ CoverInv /\ [Next]_vars => CoverInv'
<1>. SUFFICES ASSUME IInv, CoverInv, [Next]_vars PROVE CoverInv'
  OBVIOUS
<1>1. round \in Nat /\ TypeOK
  BY OrchestratorAssumption DEF IInv, TypeOK
<1>2. CASE Extract \/ ExtractFails \/ Graph
  <2>1. round = 0 /\ round' = 0
        /\ pc' \in {"group", "graph", "failed", "returned"}
    BY <1>2 DEF Extract, ExtractFails, Graph, IInv, StartInv
  <2>. QED
    BY <2>1, StillOverwritten DEF CoverInv, Kept
<1>3. CASE GroupChanged
  <2>1. round = 0 /\ round' = 0 /\ pc' = "cover" /\ UNCHANGED changed
        /\ pending' = GroupByRepoAndFile(changed)
    BY <1>3 DEF GroupChanged, IInv, StartInv, plan
  <2>2. \A k \in DOMAIN changed : Kept(k, AllWork(pending'))
    BY <1>1, <2>1, GroupingKeeps
  <2>. QED
    BY <2>1, <2>2, StillOverwritten DEF CoverInv, Kept, AllWork
<1>4. CASE CoverFile
  <2>. DEFINE s == input.files[scanned + 1]
  <2>1. /\ pc = "cover" /\ pc' = "cover" /\ round = 0 /\ round' = 0
           /\ UNCHANGED changed
        /\ pending' = EnsureCovered(pending, s)
    BY <1>4 DEF CoverFile, IInv, StartInv
  <2>2. KeyOf[s.file] \in Key
    <3>1. input.files \in Seq([repo : Repo, file : File, name : {Whole}])
      BY <1>1, OrchestratorAssumption DEF TypeOK
    <3>2. scanned + 1 \in 1..Len(input.files)
      BY <1>1, <1>4, <3>1 DEF TypeOK, CoverFile
    <3>3. s \in [repo : Repo, file : File, name : {Whole}]
      BY <3>1, <3>2, ElementOfSeq
    <3>. QED
      BY <3>3, OrchestratorAssumption
  <2>3. AllWork(pending) \subseteq AllWork(pending')
    BY <2>1, <2>2, CoverKeeps
  <2>4. \A k \in DOMAIN changed : Kept(k, AllWork(pending'))
    BY <2>1, <2>3, KeptInMore DEF CoverInv
  <2>. QED
    BY <2>1, <2>4, StillOverwritten DEF CoverInv, Kept, AllWork
<1>5. CASE ApplyTriage
  <2>1. PICK priority, chunk :
           /\ pending' = Merge(pending, priority, chunk)
           /\ demoted' = UNION {pending[b] :
                b \in {c \in DOMAIN pending : priority[c] = "P2"}}
    BY <1>5 DEF ApplyTriage
  <2>2. pc = "triage" /\ pc' = "round" /\ round = 0 /\ round' = 0
        /\ UNCHANGED changed
    BY <1>5 DEF ApplyTriage, IInv, StartInv
  <2>3. AllWork(pending) \subseteq AllWork(pending') \cup demoted'
    BY <2>1, TriageKeeps
  <2>4. \A k \in DOMAIN changed : Kept(k, AllWork(pending') \cup demoted')
    BY <2>2, <2>3, KeptInMore DEF CoverInv
  <2>. QED
    BY <2>2, <2>4, StillOverwritten DEF CoverInv, Kept, AllWork
<1>6. CASE AllCovered \/ SkipTriage
  <2>1. pc \in {"cover", "triage"} /\ pc' \in {"triage", "round"} /\ round = 0
        /\ round' = 0
        /\ UNCHANGED <<changed, pending>>
    BY <1>6 DEF AllCovered, SkipTriage, IInv, StartInv, plan
  <2>2. AllWork(pending') = AllWork(pending)
    BY <2>1
  <2>3. \A k \in DOMAIN changed :
           Kept(k, AllWork(pending')) /\ Kept(k, AllWork(pending') \cup demoted')
    BY <2>1, <2>2, KeptInMore DEF CoverInv
  <2>. QED
    BY <2>1, <2>3, StillOverwritten DEF CoverInv, Kept, AllWork
<1>7. CASE BeginRound
  <2>1. pc = "round" /\ pc' = "work"
        /\ UNCHANGED <<changed, pending, round, handed, demoted>>
        /\ Launched' = {}
    BY <1>7 DEF BeginRound, plan, Launched, IInv, WorkInv
  <2>2. Waiting' = AllWork(pending)
    BY <2>1 DEF Waiting, AllWork
  <2>3. round = 0 =>
        \A k \in DOMAIN changed : Kept(k, Waiting' \cup handed' \cup demoted')
    BY <2>1, <2>2, KeptInMore DEF CoverInv
  <2>4. round > 0 => \A k \in DOMAIN changed : Kept(k, handed' \cup demoted')
    BY <2>1 DEF CoverInv
  <2>. QED
    BY <2>1, <2>3, <2>4, StillOverwritten DEF CoverInv, Kept
<1>8. CASE (\E b \in DOMAIN pending : Launch(b)) \/ NextTier \/ WorkerEnds
  <2>1. /\ pc = "work" /\ pc' = "work"
           /\ UNCHANGED <<changed, pending, round, demoted>>
        /\ handed \subseteq handed' /\ Waiting \subseteq Waiting' \cup handed'
    <3>1. CASE NextTier
      BY <3>1 DEF NextTier, plan, Launched, Waiting
    <3>2. ASSUME NEW b \in DOMAIN pending, Launch(b)
          PROVE  /\ pc = "work" /\ pc' = "work"
                    /\ UNCHANGED <<changed, pending, round, demoted>>
                 /\ handed \subseteq handed'
                    /\ Waiting \subseteq Waiting' \cup handed'
      <4>1. /\ pc = "work" /\ pc' = "work"
               /\ UNCHANGED <<changed, pending, round, demoted>>
            /\ handed' = handed \cup pending[b] /\ Launched' = Launched \cup {b}
        BY <3>2 DEF Launch, plan, Launched
      <4>2. ASSUME NEW i \in Waiting PROVE i \in Waiting' \cup pending[b]
        <5>1. PICK c \in DOMAIN pending \ Launched : i \in pending[c]
          BY DEF Waiting
        <5>2. c = b \/ c \in DOMAIN pending' \ Launched'
          BY <4>1
        <5>. QED
          BY <4>1, <5>1, <5>2 DEF Waiting
      <4>. QED
        BY <4>1, <4>2
    <3>3. CASE WorkerEnds
      <4>1. PICK b \in running : WorkerReturns(b) \/ WorkerFails(b)
        BY <3>3 DEF WorkerEnds
      <4>2. PICK x : Conclude(b, x)
        BY <4>1 DEF WorkerReturns, WorkerFails
      <4>3. Launched' = Launched
        BY <4>2 DEF Conclude, Extend, Launched
      <4>. QED
        BY <4>1, <4>3 DEF WorkerReturns, WorkerFails, plan, Waiting, IInv, WorkInv
    <3>. QED
      BY <1>8, <3>1, <3>2, <3>3
  <2>2. round = 0 =>
        \A k \in DOMAIN changed : Kept(k, Waiting' \cup handed' \cup demoted')
    <3>1. Waiting \cup handed \cup demoted \subseteq Waiting' \cup handed' \cup demoted'
      BY <2>1
    <3>. QED
      BY <2>1, <3>1, KeptInMore DEF CoverInv
  <2>3. round > 0 => \A k \in DOMAIN changed : Kept(k, handed' \cup demoted')
    <3>1. handed \cup demoted \subseteq handed' \cup demoted'
      BY <2>1
    <3>. QED
      BY <3>1, KeptInMore DEF CoverInv
  <2>. QED
    BY <2>1, <2>2, <2>3, StillOverwritten DEF CoverInv, Kept
<1>9. CASE MergeRound
  <2>1. /\ pc = "work" /\ pc' = "round" /\ UNCHANGED <<changed, handed, demoted>>
        /\ round' = round + 1
    BY <1>9 DEF MergeRound, plan
  <2>2. \A b \in DOMAIN pending : b \in Launched
    <3>. SUFFICES ASSUME NEW b \in DOMAIN pending PROVE b \in Launched
      OBVIOUS
    <3>1. TierOf(b) < 3 \/ TierOf(b) = 3
      BY TierOfType
    <3>2. CASE TierOf(b) = 3
      BY <1>9, <3>2 DEF MergeRound, TierDone, Tier
    <3>3. CASE TierOf(b) < 3
      BY <1>9, <3>3 DEF MergeRound, IInv, TierInv, Launched
    <3>. QED
      BY <3>1, <3>2, <3>3
  <2>3. Waiting = {}
    BY <2>2 DEF Waiting
  <2>4. \A k \in DOMAIN changed : Kept(k, handed \cup demoted)
    <3>1. round = 0 \/ round > 0
      BY <1>1
    <3>. QED
      BY <2>1, <2>3, <3>1, KeptInMore DEF CoverInv
  <2>. QED
    BY <1>1, <2>1, <2>4, StillOverwritten DEF CoverInv, Kept
<1>10. CASE Finish \/ UNCHANGED vars
  <2>1. /\ UNCHANGED <<changed, pending, round, handed, demoted, running, results>>
        /\ pc' = pc \/ (pc = "round" /\ pc' = "returned")
    BY <1>10 DEF Finish, plan, vars
  <2>2. AllWork(pending)' = AllWork(pending) /\ Waiting' = Waiting
    BY <2>1 DEF AllWork, Waiting, Launched
  <2>. QED
    BY <2>1, <2>2, StillOverwritten DEF CoverInv, Kept
<1>. QED
  BY <1>2, <1>3, <1>4, <1>5, <1>6, <1>7, <1>8, <1>9, <1>10
     DEF Next, Prepare, Rounds, Done

\* For every diff, every collision of keys and every answer of the triage: a
\* changed function reaches a worker, unless its batch is demoted or its split
\* file's slices are replaced (groupByRepoAndFile, applyTriage, runWorkerBatch).
THEOREM NoChangeDropped == Spec => []ChangedCovered
<1>1. Init => CoverInv
  BY DEF Init, CoverInv
<1>2. CoverInv => ChangedCovered
  BY DEF CoverInv, ChangedCovered, Kept
<1>. QED
  BY <1>1, <1>2, CoverNext, Inductive, PTL DEF Spec

-----------------------------------------------------------------------------
(* Run implements CallTracing. *)

\* The steps before the first round find the frontier and queue nothing.
LEMMA PrepareTraces == IInv /\ Prepare => [Tracing!Next]_Tracing!vars
<1>. SUFFICES ASSUME IInv, Prepare PROVE [Tracing!Next]_Tracing!vars
  OBVIOUS
<1>1. /\ round = 0 /\ pc \notin {"returned", "failed"}
      /\ round' = round /\ visited' = visited
  BY DEF IInv, StartInv, Prepare, Extract, ExtractFails, Graph, GroupChanged,
         CoverFile, AllCovered, ApplyTriage, SkipTriage
<1>2. CASE pc' \in {"returned", "failed"}
  <2>1. pending' = pending
    BY <1>2
       DEF Prepare, Extract, ExtractFails, Graph, GroupChanged, CoverFile,
           AllCovered, ApplyTriage, SkipTriage
  <2>2. AllWork(pending') = AllWork(pending)
    BY <2>1
  <2>. QED
    BY <1>1, <1>2, <2>2 DEF Tracing!Next, Tracing!Stop, AllWork
<1>3. CASE pc' \notin {"returned", "failed"}
  BY <1>1, <1>3 DEF Tracing!Next, Tracing!Plan
<1>. QED
  BY <1>2, <1>3

\* Merging a round queues targets that no earlier round has queued.
LEMMA MergeTraces == IInv /\ MergeRound => Tracing!Round
<1>. SUFFICES ASSUME IInv, MergeRound PROVE Tracing!Round
  OBVIOUS
<1>1. /\ pc = "work" /\ pc' = "round" /\ round' = round + 1 /\ round < MaxRounds
  BY DEF IInv, WorkInv, MergeRound
<1>5. PICK merged : /\ \A r \in Repo : merged[r] \in Deduplicated(CallsOf(r))
                   /\ visited' = visited \cup NewWork(merged)
                   /\ pending' = ByRepo(NewWork(merged))
  BY DEF MergeRound
<1>6. \A r \in Repo : merged[r] \subseteq CallsOf(r)
  BY <1>5 DEF Deduplicated
<1>2. AllWork(pending)' = NewWork(merged)
  BY <1>5, <1>6, NewWorkIsTyped DEF IInv, AllWork
<1>3. NewWork(merged) \cap visited = {}
  BY DEF NewWork
<1>4. round > 0 => AllWork(pending) # {}
  BY <1>1 DEF IInv, StartInv
<1>. QED
  BY <1>1, <1>2, <1>3, <1>4, <1>5 DEF Tracing!Round

\* The other steps of the rounds change nothing that is promised, but the last.
LEMMA RoundsTrace == IInv /\ (Rounds \/ WorkerEnds) => [Tracing!Next]_Tracing!vars
<1>. SUFFICES ASSUME IInv, Rounds \/ WorkerEnds PROVE [Tracing!Next]_Tracing!vars
  OBVIOUS
<1>1. CASE MergeRound
  BY <1>1, MergeTraces DEF Tracing!Next
<1>2. CASE Finish
  <2>1. AllWork(pending') = AllWork(pending)
    BY <1>2 DEF Finish
  <2>. QED
    BY <1>2, <2>1 DEF Finish, Tracing!Next, Tracing!Stop, AllWork
<1>3. CASE BeginRound \/ NextTier \/ (\E b \in DOMAIN pending : Launch(b)) \/ WorkerEnds
  <2>1. /\ pending' = pending /\ visited' = visited /\ round' = round
        /\ pc \in {"round", "work"} /\ pc' \in {"round", "work"}
    BY <1>3
       DEF BeginRound, NextTier, Launch, WorkerEnds, WorkerReturns, WorkerFails,
           IInv, WorkInv
  <2>. QED
    BY <2>1 DEF Tracing!vars, AllWork
<1>. QED
  BY <1>1, <1>2, <1>3 DEF Rounds

\* Run implements the bounded tracing of CallTracing, whatever the batches: its
\* rounds are Tracing's rounds and every other step of it is a step before the
\* first one, the end, or a stutter.
THEOREM ImplementsTracing == Spec => TracePromise
<1>1. Init => Tracing!Init
  BY DEF Init, Tracing!Init, AllWork
<1>2. IInv /\ [Next]_vars => [Tracing!Next]_Tracing!vars
  <2>. SUFFICES ASSUME IInv, [Next]_vars PROVE [Tracing!Next]_Tracing!vars
    OBVIOUS
  <2>1. CASE UNCHANGED vars
    BY <2>1 DEF vars, Tracing!vars, AllWork
  <2>. QED
    BY <2>1, PrepareTraces, RoundsTrace DEF Next, Done
<1>. QED
  BY <1>1, <1>2, Inductive, PTL DEF Spec, TracePromise, Tracing!Spec
=============================================================================
