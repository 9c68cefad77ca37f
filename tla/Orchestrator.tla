---------------------------- MODULE Orchestrator ----------------------------
(***************************************************************************)
(* Orchestrator.Run: the changed functions of a diff are extracted, left   *)
(* to the index graph where it knows them, grouped into batches, completed *)
(* with the files nobody named, classified by triage, and then traced in   *)
(* rounds of parallel workers whose cross-repository calls are the next    *)
(* round's work.                                                           *)
(*                                                                         *)
(* A piece of work ("repo/path::func", "FILE_CHANGED:repo/path", ...) is a *)
(* record of its repository, file and name.  The sanitised path that       *)
(* batch keys are made of is a key: KeyOf may give two files one key, and  *)
(* the string tests on keys are the relations Begins and Within.           *)
(***************************************************************************)
EXTENDS Integers, FiniteSets, Sequences

CONSTANTS
    Repo,        \* the configured repositories
    SourceRepo,  \* AnalysisInput.SourceRepo
    File, NoFile,
    Func,        \* function names
    Var,         \* module variables (FILE_CHANGED_VAR)
    Whole,       \* the name of a FILE_CHANGED sentinel
    NoName,      \* the TargetFunction of a call that names none
    Key,         \* sanitised paths
    KeyOf,       \* sanitizeKey
    Begins,      \* <<k, l>>: strings.HasPrefix(l, k)
    Within,      \* <<k, l>>: strings.Contains(l, k)
    Unslug,      \* the file ReplaceAll(key, "_", "/") names, or NoFile
    Inner,       \* names looksLikeInnerFunc knows
    Inputs,      \* [names : Seq(Item), files : Seq(Item), mode : Mode]
    Scope,       \* ScopeOnlyRepos, empty for no restriction
    Answers,     \* priorities the triage may answer
    Reports,     \* what a worker may find
    Nil,         \* the result of a worker that failed
    MaxRounds, MaxWorkers,
    MaxFuncs,    \* maxFuncsPerFileBatch
    MaxMerge     \* maxMergePerBatch

Mode == {"llm", "hybrid", "deterministic"}
Priority == {"P0", "P1", "P2", "other"}

\* Work may name a repository nobody configured: a worker's finding is text.
Item == [repo : Repo \cup {"unknown"}, file : File \cup {NoFile},
         name : Func \cup Var \cup {Whole}]
Sentinel(r, f) == [repo |-> r, file |-> f, name |-> Whole]

Plain == "plain"   \* a batch key that is a repository's name alone
Batch == [repo : Repo, group : Key \cup Priority \cup {Plain}, part : Nat]
BatchOf(r, g, n) == [repo |-> r, group |-> g, part |-> n]

Extend(f, x, y) == [z \in DOMAIN f \cup {x} |-> IF z = x THEN y ELSE f[z]]

\* A CrossRepoCall: what it names, or only the file it was seen in, if any.
Call == Item \cup [repo : Repo \cup {"unknown"}, file : File \cup {NoFile}, name : {NoName}]

\* A WorkerResult: its calls, and whether it is a thin trace (at most two nodes
\* and no entry point).
Report == [calls : SUBSET Call, thin : BOOLEAN]

ASSUME OrchestratorAssumption ==
    /\ SourceRepo \in Repo /\ "unknown" \notin Repo
    /\ NoFile \notin File /\ Whole \notin Func \cup Var
    /\ NoName \notin Func \cup Var \cup {Whole}
    /\ KeyOf \in [File -> Key] /\ Unslug \in [Key -> File \cup {NoFile}]
    /\ Key \cap (Priority \cup {Plain}) = {}
    /\ Begins \subseteq Key \X Key /\ Within \subseteq Key \X Key
    /\ \A k \in Key : <<k, k>> \in Begins \cap Within
    /\ Inner \subseteq Func /\ Scope \subseteq Repo
    /\ Answers \subseteq Priority /\ Reports \subseteq Report /\ Nil \notin Report
    /\ Inputs \subseteq [names : Seq(Item), mode : Mode,
                        files : Seq([repo : Repo, file : File, name : {Whole}])]
    /\ MaxRounds \in Nat \ {0} /\ MaxWorkers \in Nat \ {0}
    /\ MaxFuncs \in Nat \ {0} /\ MaxMerge \in Nat \ {0}

VARIABLES
    input,     \* the AnalysisInput
    pc,        \* where Run is
    changed,   \* the functions left to the workers, at their places in the list
    scanned,   \* files of the diff looked at by ensureDiffFileCoverage
    pending,   \* batch key -> work
    tierOf,    \* batchPriorities
    round,     \* rounds merged
    tier,      \* index into priorityTiers
    running,   \* batches whose worker holds a slot of sem
    results,   \* batchResults
    visited,   \* call targets queued so far
    output,    \* [graph, ghosts, workers]: whose findings the AnalysisOutput carries
    handed,    \* history: work given to a worker
    found,     \* history: calls the round's workers reported, and for which repository
    succeeded, \* history: <<round, batch>> of every worker that succeeded
    demoted    \* history: work the triage replaced by a sentinel

plan == <<input, changed, scanned, tierOf, demoted>>
vars == <<input, pc, changed, scanned, pending, tierOf, round, tier, running, results,
          visited, output, handed, found, succeeded, demoted>>

PC == {"extract", "graph", "group", "cover", "triage", "round", "work",
       "returned", "failed"}

Init ==
    /\ input \in Inputs
    /\ pc = "extract"
    /\ changed = <<>>
    /\ scanned = 0
    /\ pending = <<>>
    /\ tierOf = <<>>
    /\ round = 0
    /\ tier = 0
    /\ running = {}
    /\ results = <<>>
    /\ visited = {}
    /\ output = [graph |-> {}, ghosts |-> {}, workers |-> [r \in Repo |-> {}]]
    /\ handed = {}
    /\ found = {}
    /\ succeeded = {}
    /\ demoted = {}

-----------------------------------------------------------------------------
(* Batching *)

\* parseFileFuncTriple: only "repo/path::func" of a known repository has a
\* file.  A sentinel's text begins with "FILE_CHANGED:", which is the name of
\* no repository: it goes to the source repository and has no file.
Located(i) == i.name \in Func /\ i.file # NoFile /\ i.repo \in Repo
GroupRepo(i) == IF i.name \in Func /\ i.repo \in Repo THEN i.repo ELSE SourceRepo
GroupFile(i) == IF Located(i) THEN i.file ELSE NoFile
Group(i) == <<GroupRepo(i), GroupFile(i)>>

\* Seeded fault: the path itself is the key.
SlugRaw(f) == IF f = NoFile THEN Plain ELSE f

Slug(f) == IF f = NoFile THEN Plain ELSE KeyOf[f]

\* The places in the list of the functions of one file, and the n-th slice of
\* MaxFuncs of them.
Members(fns, g) == {k \in DOMAIN fns : Group(fns[k]) = g}
Rank(fns, k) == Cardinality({j \in Members(fns, Group(fns[k])) : j <= k})

\* Seeded fault: the last function of a file is in no slice.
SliceShort(fns, g, n) ==
    {fns[k] : k \in {m \in Members(fns, g) :
        (Rank(fns, m) - 1) \div MaxFuncs = n /\ \E j \in Members(fns, g) : j > m}}

Slice(fns, g, n) ==
    {fns[k] : k \in {m \in Members(fns, g) : (Rank(fns, m) - 1) \div MaxFuncs = n}}

\* The batch keys of one file: one, or one per slice.
Split(fns, g) == Cardinality(Members(fns, g)) > MaxFuncs
KeysOf(fns, g) ==
    IF Split(fns, g)
    THEN {BatchOf(g[1], Slug(g[2]), ((Rank(fns, k) - 1) \div MaxFuncs) + 1) :
            k \in Members(fns, g)}
    ELSE {BatchOf(g[1], Slug(g[2]), 0)}

Groups(fns) == {Group(fns[k]) : k \in DOMAIN fns}

\* The diff names some function of g before every function of h.
Before(fns, g, h) ==
    \E j \in Members(fns, g) : \A k \in Members(fns, h) : j < k

\* Two files with one key share a single batch; of two split files the later
\* one's slices replace the earlier one's.
GroupByRepoAndFile(fns) ==
    LET With(b) == {g \in Groups(fns) : b \in KeysOf(fns, g)}
        Latest(b) == CHOOSE g \in With(b) :
                        \A h \in With(b) \ {g} : Before(fns, h, g)
    IN  [b \in UNION {KeysOf(fns, g) : g \in Groups(fns)} |->
            IF b.part = 0
            THEN {fns[k] : k \in UNION {Members(fns, g) : g \in With(b)}}
            ELSE Slice(fns, Latest(b), b.part - 1)]

\* A file is taken as covered when its key is the beginning of a batch's key.
Covered(batches, s) ==
    \E b \in DOMAIN batches :
        b.repo = s.repo /\ <<KeyOf[s.file], b.group>> \in Begins

\* A diff file that no batch covers gets a batch with its sentinel.
EnsureCovered(batches, s) ==
    IF Covered(batches, s) THEN batches
    ELSE Extend(batches, BatchOf(s.repo, KeyOf[s.file], 0), {s})

-----------------------------------------------------------------------------
(* From the diff to the batches *)

Extract ==
    /\ pc = "extract"
    /\ changed' = input.names
    /\ pc' = IF input.mode = "llm" THEN "group" ELSE "graph"
    /\ UNCHANGED <<input, scanned, pending, tierOf, round, tier, running, results,
                   visited, output, handed, found, succeeded, demoted>>

ExtractFails ==
    /\ pc = "extract"
    /\ pc' = "failed"
    /\ UNCHANGED <<plan, pending, round, tier, running, results, visited, output,
                   handed, found, succeeded>>

\* The graph knows some of the functions.  The resolver reports those it does
\* not know without their repository, so that they have a file no longer.
Strip(i) ==
    IF i.name \in Func /\ i.repo \in Repo
    THEN [repo |-> SourceRepo, file |-> NoFile, name |-> i.name] ELSE i

Graph ==
    /\ pc = "graph"
    /\ \E uncovered \in SUBSET DOMAIN changed :
          IF input.mode = "deterministic" \/ uncovered = {}
          THEN pc' = "returned" /\ UNCHANGED changed
          ELSE /\ pc' = "group"
               /\ changed' = [k \in uncovered |-> Strip(changed[k])]
    /\ UNCHANGED <<input, scanned, pending, tierOf, round, tier, running, results,
                   visited, output, handed, found, succeeded, demoted>>

GroupChanged ==
    /\ pc = "group"
    /\ pending' = GroupByRepoAndFile(changed)
    /\ pc' = "cover"
    /\ UNCHANGED <<plan, round, tier, running, results, visited, output, handed,
                   found, succeeded>>

\* input.files holds the sentinels of the diff's production files, in order.
CoverFile ==
    /\ pc = "cover"
    /\ scanned < Len(input.files)
    /\ scanned' = scanned + 1
    /\ pending' = EnsureCovered(pending, input.files[scanned + 1])
    /\ UNCHANGED <<input, pc, changed, tierOf, round, tier, running, results,
                   visited, output, handed, found, succeeded, demoted>>

AllCovered ==
    /\ pc = "cover"
    /\ scanned = Len(input.files)
    /\ pc' = "triage"
    /\ UNCHANGED <<plan, pending, round, tier, running, results, visited, output,
                   handed, found, succeeded>>

-----------------------------------------------------------------------------
(* Triage *)

AllWork(batches) == UNION {batches[b] : b \in DOMAIN batches}

\* The files triage is asked about: those of sentinels and of located
\* functions, not those of changed variables.
TriageFiles(batches) ==
    {i.file : i \in {w \in AllWork(batches) : w.name \notin Var}} \ {NoFile}

\* The priorities of the files whose key equals, contains or is contained in
\* that of the batch: the first of them in the order of a Go map decides.  A
\* batch without a file has the empty key, which every key contains.
Matches(b, f) ==
    \/ b.group = Plain /\ b.part = 0
    \/ /\ b.group # Plain
       /\ \/ <<KeyOf[f], b.group>> \in Within
          \/ <<b.group, KeyOf[f]>> \in Within

PrioritiesOf(b, answer) ==
    LET matching == {f \in DOMAIN answer : Matches(b, f)} IN
    IF matching = {} THEN {"P1"} ELSE {answer[f] : f \in matching}

\* A P2 batch keeps one sentinel, whose path is made from the key.
Demote(b) ==
    {Sentinel(b.repo, IF b.group = Plain THEN NoFile ELSE Unslug[b.group])}
WorkOf(batches, b, priority) ==
    IF priority = "P2" THEN Demote(b) ELSE batches[b]

\* Batches of one repository and priority are put together MaxMerge at a time,
\* in the order of a Go map: every chunk but the last is full.
IsChunking(chunk, batches, priority) ==
    \A b \in DOMAIN batches :
        LET peers == {c \in DOMAIN batches :
                        c.repo = b.repo /\ priority[c] = priority[b]}
            Size(n) == Cardinality({c \in peers : chunk[c] = n})
        IN  /\ Size(chunk[b]) <= MaxMerge
            /\ \A n \in 0..(chunk[b] - 1) : Size(n) = MaxMerge

Merge(batches, priority, chunk) ==
    LET KeyFor(b) == BatchOf(b.repo, priority[b], chunk[b]) IN
    [m \in {KeyFor(b) : b \in DOMAIN batches} |->
        UNION {WorkOf(batches, b, priority[b]) :
                 b \in {c \in DOMAIN batches : KeyFor(c) = m}}]

\* What the language model answers: a priority for the files it lists.  When
\* the call fails or cannot be parsed, or lists nothing, every file is P1.
TriageAnswers(files) ==
    {[f \in files |-> "P1"]} \cup
    UNION {[listed -> Answers] : listed \in (SUBSET files) \ {{}}}

ApplyTriage ==
    /\ pc = "triage"
    /\ TriageFiles(pending) # {}
    /\ \E answer \in TriageAnswers(TriageFiles(pending)) :
       \E priority \in [DOMAIN pending -> Priority] :
          /\ \A b \in DOMAIN pending : priority[b] \in PrioritiesOf(b, answer)
          /\ \E chunk \in [DOMAIN pending ->
                              0..((Cardinality(DOMAIN pending) - 1) \div MaxMerge)] :
                /\ IsChunking(chunk, pending, priority)
                /\ pending' = Merge(pending, priority, chunk)
                /\ tierOf' = [m \in DOMAIN pending' |-> m.group]
          /\ demoted' = UNION {pending[b] :
                b \in {c \in DOMAIN pending : priority[c] = "P2"}}
    /\ pc' = "round"
    /\ UNCHANGED <<input, changed, scanned, round, tier, running, results, visited,
                   output, handed, found, succeeded>>

\* Without a file there is nothing to ask: the batches stay as they are.
SkipTriage ==
    /\ pc = "triage"
    /\ TriageFiles(pending) = {}
    /\ pc' = "round"
    /\ UNCHANGED <<plan, pending, round, tier, running, results, visited, output,
                   handed, found, succeeded>>

-----------------------------------------------------------------------------
(* Rounds *)

BeginRound ==
    /\ pc = "round"
    /\ round < MaxRounds
    /\ pending # <<>>
    /\ pc' = "work"
    /\ tier' = 0
    /\ results' = <<>>
    /\ found' = {}
    /\ UNCHANGED <<plan, pending, round, running, visited, output, handed,
                   succeeded>>

Finish ==
    /\ pc = "round"
    /\ round = MaxRounds \/ pending = <<>>
    /\ pc' = "returned"
    /\ UNCHANGED <<plan, pending, round, tier, running, results, visited, output,
                   handed, found, succeeded>>

\* Batches triage said nothing of are P1; unknown priorities come last.
TierOf(b) ==
    LET p == IF b \in DOMAIN tierOf THEN tierOf[b] ELSE "P1" IN
    CASE p = "P0" -> 0 [] p = "P1" -> 1 [] p = "P2" -> 2 [] OTHER -> 3

Tier(n) == {b \in DOMAIN pending : TierOf(b) = n}
Launched == running \cup DOMAIN results

Launch(b) ==
    /\ pc = "work"
    /\ b \in Tier(tier) \ Launched
    /\ Cardinality(running) < MaxWorkers
    /\ running' = running \cup {b}
    /\ handed' = handed \cup pending[b]
    /\ UNCHANGED <<plan, pc, pending, round, tier, results, visited, output,
                   found, succeeded>>

\* Seeded fault: a failed worker leaves no result.
ConcludeUnrecorded(b, result) ==
    /\ running' = running \ {b}
    /\ results' = IF result = Nil THEN results ELSE Extend(results, b, result)

\* The worker's result is recorded and its slot freed, whatever it returns.
Conclude(b, result) ==
    /\ running' = running \ {b}
    /\ results' = Extend(results, b, result)

WorkerReturns(b) ==
    /\ b \in running
    /\ \E report \in Reports :
          /\ Conclude(b, report)
          /\ found' = found \cup {[by |-> b.repo, call |-> c] : c \in report.calls}
    /\ succeeded' = succeeded \cup {<<round, b>>}
    /\ UNCHANGED <<plan, pc, pending, round, tier, visited, output, handed>>

\* The worker returned an error, or panicked and was recovered.
WorkerFails(b) ==
    /\ b \in running
    /\ Conclude(b, Nil)
    /\ UNCHANGED <<plan, pc, pending, round, tier, visited, output, handed,
                   found, succeeded>>

\* Seeded fault: no wg.Wait.
TierLaunched == Tier(tier) \subseteq Launched

\* wg.Wait: a tier begins when the one before it has ended.
TierDone == running = {} /\ Tier(tier) \subseteq Launched

NextTier ==
    /\ pc = "work"
    /\ TierDone
    /\ tier < 3
    /\ tier' = tier + 1
    /\ UNCHANGED <<plan, pc, pending, round, running, results, visited, output,
                   handed, found, succeeded>>

\* Seeded fault: a failed batch makes its repository's result nil.
SucceededTogether(r) ==
    LET mine == {b \in DOMAIN results : b.repo = r} IN
    IF \E b \in mine : results[b] = Nil THEN {} ELSE mine

\* The results of a repository's batches become one; workers that failed have
\* no part in it.
Succeeded(r) == {b \in DOMAIN results : b.repo = r /\ results[b] # Nil}

\* Seeded fault: the calls of the first batch only.
CallsOfFirst(r) ==
    IF Succeeded(r) = {} THEN {}
    ELSE results[CHOOSE b \in Succeeded(r) : TRUE].calls

CallsOf(r) == UNION {results[b].calls : b \in Succeeded(r)}

\* mergeCrossRepoCalls: one call for each repository and function text, which
\* is empty in every call that names no function.
SameTarget(c, d) == c.repo = d.repo /\ c.name = d.name /\ (c.name = NoName \/ c = d)
Deduplicated(calls) ==
    {m \in SUBSET calls : /\ \A c \in calls : \E d \in m : SameTarget(c, d)
                          /\ \A c, d \in m : SameTarget(c, d) => c = d}

\* The calls that are followed: to configured repositories, in the scope, and to
\* a function or, without one, to the file of the call.
InScope(c) == c.repo \in Repo /\ (Scope = {} \/ c.repo \in Scope)
Traceable(c) == c.name # NoName \/ c.file # NoFile
Target(c) == IF c.name = NoName THEN Sentinel(c.repo, c.file) ELSE c

Follow(calls) == {Target(c) : c \in {d \in calls : InScope(d) /\ Traceable(d)}}

\* The thin-trace guard: where a repository's trace found next to nothing, the
\* files of the inner functions in the batch named after the repository are to
\* be searched as a whole.
IsThin(r) ==
    /\ Succeeded(r) # {}
    /\ CallsOf(r) = {}
    /\ \A b \in Succeeded(r) : results[b].thin
ThinFiles(r) ==
    LET b == BatchOf(r, Plain, 0) IN
    IF b \notin DOMAIN pending \/ ~IsThin(r) THEN {}
    ELSE {Sentinel(r, i.file) : i \in {w \in pending[b] :
                                    w.name \in Inner /\ w.file # NoFile}}

\* Seeded fault: visited is not asked.
NewWorkAgain(merged) == UNION {Follow(merged[r]) \cup ThinFiles(r) : r \in Repo}

\* What the round queues: every target once, by repository.
NewWork(merged) ==
    (UNION {Follow(merged[r]) \cup ThinFiles(r) : r \in Repo}) \ visited
ByRepo(work) ==
    [b \in {BatchOf(i.repo, Plain, 0) : i \in work} |->
        {i \in work : i.repo = b.repo}]

\* The merged result of a repository is that of the batch the Go map names
\* first, to which the others' nodes, calls and entry points are appended, but
\* not their ghost files and wide-impact functions.
Firsts == {f \in [Repo -> DOMAIN results \cup {Nil}] :
              \A r \in Repo : IF Succeeded(r) = {} THEN f[r] = Nil ELSE f[r] \in Succeeded(r)}

\* The results are merged into the output.  WorkerOutputs has one entry for a
\* repository.  The plateau counter of Run is left out: it grows only in a
\* round that queues nothing, and after such a round the loop ends anyway.
MergeRound ==
    /\ pc = "work"
    /\ TierDone
    /\ tier = 3
    /\ \E first \in Firsts :
          output' =
             [graph |-> output.graph \cup
                          {<<round, b>> : b \in UNION {Succeeded(r) : r \in Repo}},
              ghosts |-> output.ghosts \cup
                           {<<round, first[r]>> : r \in {q \in Repo : Succeeded(q) # {}}},
              workers |-> [r \in Repo |->
                             IF Succeeded(r) = {} THEN output.workers[r]
                             ELSE {<<round, b>> : b \in Succeeded(r)}]]
    /\ \E merged \in [Repo -> UNION {Deduplicated(CallsOf(r)) : r \in Repo}] :
          /\ \A r \in Repo : merged[r] \in Deduplicated(CallsOf(r))
          /\ visited' = visited \cup NewWork(merged)
          /\ pending' = ByRepo(NewWork(merged))
    /\ round' = round + 1
    /\ pc' = "round"
    /\ UNCHANGED <<plan, tier, running, results, handed, found, succeeded>>

-----------------------------------------------------------------------------

Done == pc \in {"returned", "failed"} /\ UNCHANGED vars

Prepare ==
    \/ Extract \/ ExtractFails \/ Graph \/ GroupChanged \/ CoverFile
    \/ AllCovered \/ ApplyTriage \/ SkipTriage
Rounds ==
    \/ BeginRound \/ NextTier \/ MergeRound \/ Finish
    \/ \E b \in DOMAIN pending : Launch(b)
WorkerEnds == \E b \in running : WorkerReturns(b) \/ WorkerFails(b)

Next == Prepare \/ Rounds \/ WorkerEnds \/ Done

Spec == Init /\ [][Next]_vars

\* Run goes on while it can.  Its workers need not end: a tool call is waited for
\* without a deadline.
FairSpec == Spec /\ WF_vars(Prepare \/ Rounds)

-----------------------------------------------------------------------------
(* Properties *)

IsBatches(f) ==
    /\ DOMAIN f \subseteq Batch
    /\ \A b \in DOMAIN f : f[b] \subseteq Item

\* Every variable has its type: pending maps batch keys to work, results belong
\* to pending batches, output names workers that ran.
TypeOK ==
    /\ input \in Inputs
    /\ pc \in PC
    /\ DOMAIN changed \subseteq DOMAIN input.names
    /\ \A k \in DOMAIN changed : changed[k] \in Item
    /\ scanned \in 0..Len(input.files)
    /\ IsBatches(pending)
    /\ DOMAIN tierOf \subseteq Batch /\ \A b \in DOMAIN tierOf : tierOf[b] \in Priority
    /\ round \in 0..MaxRounds
    /\ tier \in 0..3
    /\ running \subseteq DOMAIN pending
    /\ \A b \in DOMAIN results : results[b] \in Reports \cup {Nil}
    /\ visited \subseteq Item /\ handed \subseteq Item
    /\ found \subseteq [by : Repo, call : Call]
    /\ demoted \subseteq Item
    /\ output.ghosts \subseteq output.graph /\ output.graph \subseteq succeeded
    /\ \A r \in Repo : output.workers[r] \subseteq output.graph

\* Tiers are serial: while a worker of one tier runs, every batch of an earlier
\* tier has its result, though tiers share the goroutines' semaphore code and a
\* batch may be launched the moment a slot is free (runWorkerBatch).
TierOrder ==
    \A b \in running : \A c \in DOMAIN pending :
        TierOf(c) < TierOf(b) => c \in DOMAIN results

\* No worker's findings are lost to another's failure, to another batch of its
\* repository, or to another round: the nodes, entry points and analyses of all
\* that succeeded are in the output Run returns.  The exception is the code's:
\* of a repository's batches of one round only one has its ghost files and the
\* entry points of its wide-impact functions there.
NothingLost ==
    pc = "returned" =>
        /\ output.graph = succeeded
        /\ \A s \in succeeded : \E t \in output.ghosts : t[1] = s[1] /\ t[2].repo = s[2].repo

\* A nameless call that another of the same worker results took the place of.
Displaced(w) ==
    /\ w.call.name = NoName
    /\ \E v \in found \ {w} : v.by = w.by /\ SameTarget(v.call, w.call)

\* No call is forgotten: after a round every reported call in the scope has
\* been queued by this round or an earlier one, unless it names neither function
\* nor file, or names no function and is one of several such calls of its
\* repository to another, all but one of which are taken for duplicates.  What
\* was queued has been given to a worker, unless the cap on rounds left it
\* pending.
CallsFollowed ==
    /\ pc = "round" /\ round > 0 =>
         \A w \in found : InScope(w.call) /\ Traceable(w.call) =>
            Target(w.call) \in visited \/ Displaced(w)
    /\ pc = "returned" =>
         /\ visited \ handed \subseteq AllWork(pending)
         /\ pending # <<>> => round = MaxRounds

\* A function of a split file whose key is that of another split file, which
\* the diff names later.
Overwritten(i) ==
    /\ Split(changed, Group(i))
    /\ \E g \in Groups(changed) \ {Group(i)} :
          /\ Split(changed, g)
          /\ KeysOf(changed, g) \cap KeysOf(changed, Group(i)) # {}
          /\ Before(changed, Group(i), g)

\* No changed function is dropped between the diff and the workers by grouping,
\* splitting, triage or the merge of batches: each left to the workers is given
\* to one, unless triage demoted its batch or the key of its split file collides
\* with another split file's.
ChangedCovered ==
    pc = "returned" /\ round > 0 =>
        \A k \in DOMAIN changed :
            \/ changed[k] \in handed \cup demoted
            \/ Overwritten(changed[k])

\* Run implements the bounded tracing of CallTracing: no call target is queued
\* by two rounds, and the rounds are capped.
Tracing == INSTANCE CallTracing WITH
    frontier <- AllWork(pending), followed <- visited, rounds <- round,
    over <- pc \in {"returned", "failed"}
TracePromise == Tracing!Spec

\* No worker hangs in a tool call: there is always a time when none runs.
WorkersReturn == []<>(running = {})

\* As long as its workers return, so does Run, whatever they find, fail to find
\* or panic over: cycles between repositories are cut, and no tier waits for a
\* slot nobody gives back.
AnalysisEnds == WorkersReturn => <>(pc \in {"returned", "failed"})
=============================================================================
