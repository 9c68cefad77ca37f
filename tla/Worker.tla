-------------------------------- MODULE Worker --------------------------------
(***************************************************************************)
(* One worker task: the trace of its changed functions by the agent loop,  *)
(* the follow-up request for a JSON report, the repair of the file names   *)
(* the model made up, and the chunked follow-up requests for end-to-end    *)
(* scenarios and unit-test suggestions, each request with the attempts of  *)
(* the LLM client.  What the model (here always the language model) says   *)
(* is any of a set of answers.                                             *)
(***************************************************************************)
EXTENDS Naturals, Sequences, FiniteSets

CONSTANTS
    Tasks,          \* possible task.ChangedFunctions
    Contents,       \* possible answers of the trace and of the JSON follow-up
    ModeSets,       \* possible task.Modes
    Exists,         \* files of the workspace
    InRepo,         \* those of them under the task's repository
    Foreign,        \* file names that begin with another repository
    NewFunctions,   \* functions the diff adds
    Variants,       \* namingVariants of each function name
    Hit,            \* Hit[pattern][dir]: the file the search finds, or ""
    Strangers,      \* names in answers that nobody asked for
    MaxEPChunk,     \* maxScenarioChunkSize
    MaxUTChunk,     \* maxUTChunkSize
    MaxAttempts     \* of Client.Complete

Text == STRING \cup {"", "own"}
Function == [kind : {"named", "file", "var"}, file : Text, base : Text]
Name == [file : Text, base : Text]
Location == [fun : DOMAIN Variants, file : Text, repo : Text]
Report == [nodes : Seq(Location), eps : Seq(Location)]
Content == [kind : {"prose", "short", "misfit", "json"}, report : Report]

ASSUME WorkerAssumption ==
    /\ {MaxEPChunk, MaxUTChunk, MaxAttempts} \subseteq Nat \ {0}
    /\ Tasks \subseteq Seq(Function) /\ Contents \subseteq Content
    /\ InRepo \subseteq Exists /\ Exists \subseteq Text \ {""} /\ Strangers \subseteq Name
    /\ Variants \in [DOMAIN Variants -> Seq(DOMAIN Hit)] /\ "summary" \in DOMAIN Variants
    /\ Hit \in [DOMAIN Hit -> [{"repo", "workspace"} -> Exists \cup {""}]]
    /\ \A p \in DOMAIN Hit : Hit[p]["repo"] \in InRepo \cup {""}

VARIABLES
    changed, modes,  \* the task
    roots,           \* "none": task.RepoPath is empty; "repo": WorkspaceDir is
                     \* empty or the same; "both": it is another directory
    pc,
    call,            \* attempt of the request in flight; 0: none
    answer,          \* content of the trace, or of the JSON follow-up
    truncated,
    nodes, eps, ghosts, \* WorkerResult
    i, again,        \* chunk under way; it is being asked a second time
    scen, ut, seen,  \* emitted scenarios and analyses; seenFuncs
    asked,           \* history: what the prompts have named
    replied,         \* history: names of the analyses in the replies
    sent             \* history: attempts for the chunk under way, up to SentCap

task == <<changed, modes, roots>>
llm == <<call, sent>>
report == <<nodes, eps, ghosts>>
outcome == <<scen, ut, seen, replied>>
vars == <<task, pc, llm, answer, truncated, report, i, again, outcome, asked>>

SetOf(s) == {s[k] : k \in DOMAIN s}
Chunks(s, size) == (Len(s) + size - 1) \div size
Chunk(s, size, k) ==
    SubSeq(s, k * size + 1, IF (k + 1) * size < Len(s) THEN (k + 1) * size ELSE Len(s))

\* The elements of s that are in T, in the order of s.
Filter(s, T) ==
    LET kept[k \in 0..Len(s)] ==
            IF k = 0 THEN <<>>
            ELSE IF s[k] \in T THEN Append(kept[k - 1], s[k]) ELSE kept[k - 1]
    IN kept[Len(s)]

OfKind(kind, fs) == Filter(fs, {f \in SetOf(fs) : f.kind = kind})

\* The changed functions as the trace names them: those with a name, then the
\* files, then the global variables.
TracePrompt(fs) == OfKind("named", fs) \o OfKind("file", fs) \o OfKind("var", fs)

\* The functions unit tests are asked for: all but the FILE_CHANGED entries.
RealFuncs == Filter(changed, {f \in SetOf(changed) : f.kind # "file"})

Bare(f) == [file |-> "", base |-> f.base]
Qualified(f) == [file |-> f.file, base |-> f.base]

ModeEnabled(m) == modes = {} \/ m \in modes

\* The files os.Stat finds.
OnDisk == roots # "none"
Present == IF roots = "both" THEN Exists ELSE InRepo

RequestBound == 2 * MaxAttempts
SentCap == RequestBound + 1

NoReport == [nodes |-> <<>>, eps |-> <<>>]

Init ==
    /\ changed \in Tasks /\ modes \in ModeSets /\ roots \in {"none", "repo", "both"}
    /\ pc = "trace"
    /\ call = 0 /\ sent = 0
    /\ answer = [kind |-> "short", report |-> NoReport]
    /\ truncated = FALSE
    /\ nodes = <<>> /\ eps = <<>> /\ ghosts = {}
    /\ i = 0 /\ again = FALSE
    /\ scen = {} /\ ut = {} /\ seen = {}
    /\ asked = {} /\ replied = {}

(***************************************************************************)
(* The LLM client.  A transient error is followed by another attempt; an   *)
(* error that is not, or of the last attempt, is the request's.            *)
(***************************************************************************)
Waiting == pc \in {"json", "scen", "ut", "sweep"}
Count == sent' = IF sent < SentCap THEN sent + 1 ELSE sent

\* What the prompts of a chunk list: its entry points, or its functions.
ScenarioFollowUp == SetOf(Chunk(eps, MaxEPChunk, i))
UTFollowUp == {Qualified(f) : f \in SetOf(Chunk(RealFuncs, MaxUTChunk, i))}

Send ==
    /\ Waiting /\ call = 0
    /\ call' = 1 /\ Count
    /\ asked' = asked \cup
           CASE pc = "scen" -> ScenarioFollowUp
             [] pc = "ut" -> UTFollowUp
             [] OTHER -> {}
    /\ UNCHANGED <<task, pc, answer, truncated, report, i, again, outcome>>

\* Attempts without an end.
RetryForEver ==
    /\ call > 0
    /\ call' = call + 1 /\ Count
    /\ UNCHANGED <<task, pc, answer, truncated, report, i, again, outcome, asked>>

Retry ==
    /\ call \in 1..(MaxAttempts - 1)
    /\ call' = call + 1 /\ Count
    /\ UNCHANGED <<task, pc, answer, truncated, report, i, again, outcome, asked>>

Returned(over) ==
    /\ call > 0 /\ call' = 0
    /\ IF over THEN sent' = 0 ELSE UNCHANGED sent

(***************************************************************************)
(* The trace and its report.                                               *)
(***************************************************************************)
\* extractJSON finds an object in the text, of whatever shape.
HasJSON(c) == c.kind \notin {"prose", "short"}

\* isPseudoNode: the "function" of a node is an import statement.
IsReal(n) == n.fun # "import"

\* The agent loop answers, or gives up after its budget with what it has; a
\* long answer without JSON that is not cut short is asked for again.
Trace ==
    /\ pc = "trace"
    /\ asked' = SetOf(TracePrompt(changed))
    /\ answer' \in Contents /\ truncated' \in BOOLEAN
    /\ pc' = IF ~truncated' /\ ~HasJSON(answer') /\ answer'.kind # "short"
             THEN "json" ELSE "parse"
    /\ UNCHANGED <<task, llm, report, i, again, outcome>>

TraceFails ==
    /\ pc = "trace"
    /\ pc' = "failed"
    /\ UNCHANGED <<task, llm, answer, truncated, report, i, again, outcome, asked>>

JSONFollowUp ==
    /\ pc = "json" /\ Returned(TRUE)
    /\ answer' \in Contents \/ UNCHANGED answer  \* the request fails
    /\ pc' = "parse"
    /\ UNCHANGED <<task, truncated, report, i, again, outcome, asked>>

\* Without JSON the text is the one node.
Named(c) == IF HasJSON(c) THEN c.report
            ELSE [nodes |-> <<[fun |-> "summary", file |-> "", repo |-> "own"]>>, eps |-> <<>>]

\* JSON of another shape gives nothing; nodes that are import statements, and
\* entry points of no repository, go.
ParseWorkerOutput(c) ==
    LET N == Named(c).nodes
        E == Named(c).eps
    IN IF c.kind = "misfit" THEN NoReport
       ELSE [nodes |-> Filter(N, {n \in SetOf(N) : IsReal(n)}),
             eps |-> Filter(E, {n \in SetOf(E) : n.repo # ""})]

Parse ==
    /\ pc = "parse"
    /\ nodes' = ParseWorkerOutput(answer).nodes /\ eps' = ParseWorkerOutput(answer).eps
    /\ pc' = IF OnDisk THEN "backfill" ELSE "reported"
    /\ UNCHANGED <<task, llm, answer, truncated, ghosts, i, again, outcome, asked>>

\* The first hit, variant by variant and directory by directory; "" if none.
Locate(fun, dirs) ==
    LET tries == {t \in (DOMAIN Variants[fun]) \X (DOMAIN dirs) :
                      Hit[Variants[fun][t[1]]][dirs[t[2]]] # ""}
        first == CHOOSE t \in tries :
                     \A u \in tries : t[1] < u[1] \/ (t[1] = u[1] /\ t[2] <= u[2])
    IN IF tries = {} THEN "" ELSE Hit[Variants[fun][first[1]]][dirs[first[2]]]

BackfillDirs(n) ==
    IF roots = "repo" THEN <<"repo">>
    ELSE IF n.repo = "own" THEN <<"repo", "workspace">>
    ELSE <<"workspace">>

Backfilled(n) ==
    LET f == Locate(n.fun, BackfillDirs(n)) IN
    IF n.file = "" /\ f # "" THEN [n EXCEPT !.file = f] ELSE n

\* The searches share a deadline: those after the first k find nothing.
BackfillEmptyFiles ==
    /\ pc = "backfill"
    /\ \E k \in 0..Len(nodes \o eps) :
           LET all == [j \in DOMAIN (nodes \o eps) |->
                          IF j <= k THEN Backfilled((nodes \o eps)[j]) ELSE (nodes \o eps)[j]]
           IN nodes' = SubSeq(all, 1, Len(nodes)) /\ eps' = SubSeq(all, Len(nodes) + 1, Len(all))
    /\ pc' = "filter"
    /\ UNCHANGED <<task, llm, answer, truncated, ghosts, i, again, outcome, asked>>

Ghost(n) == n.file \notin Present \cup {""} /\ n.fun \notin NewFunctions

RescueDirs(n) ==
    IF roots = "repo" THEN <<"repo">>
    ELSE IF n.repo # "own" THEN <<"workspace">>
    ELSE IF n.file \in Foreign THEN <<"repo", "workspace">> ELSE <<"repo">>

\* A rescue that leaves the file name as it was.
RescuedInName(n) == n

Rescued(n) == [n EXCEPT !.file = Locate(n.fun, RescueDirs(n))]
IsRescued(n) == Rescued(n).file # ""
Ghosts(s) == Filter(s, {n \in SetOf(s) : Ghost(n)})
NoGhosts(s) == Filter(s, {n \in SetOf(s) : ~Ghost(n)})
Back(s) == Filter(s, {n \in SetOf(s) : IsRescued(n)})

\* A deadline that ends the pass, and the nodes left with it.
FilterGhostNodesStops ==
    /\ pc = "filter"
    /\ LET gn == Ghosts(nodes)
           ge == Ghosts(eps)
       IN \E k \in 0..Len(gn \o ge) :
            LET inTime == SubSeq(gn \o ge, 1, k)
                kn == IF k < Len(gn) THEN k ELSE Len(gn)
                back == [n |-> Back(SubSeq(gn, 1, kn)), e |-> Back(SubSeq(ge, 1, k - kn))]
            IN /\ nodes' = NoGhosts(nodes)
                           \o [j \in DOMAIN back.n |-> Rescued(back.n[j])]
               /\ eps' = NoGhosts(eps)
                           \o [j \in DOMAIN back.e |-> Rescued(back.e[j])]
               /\ ghosts' = {n.file : n \in {m \in SetOf(inTime) : ~IsRescued(m)}}
    /\ pc' = "reported"
    /\ UNCHANGED <<task, llm, answer, truncated, i, again, outcome, asked>>

\* Nodes whose file does not exist are searched for by name, again under one
\* deadline; those not found are dropped and their files reported.
FilterGhostNodes ==
    /\ pc = "filter"
    /\ LET gn == Ghosts(nodes)
           ge == Ghosts(eps)
       IN \E k \in 0..Len(gn \o ge) :
            LET inTime == SubSeq(gn \o ge, 1, k)
                late == SubSeq(gn \o ge, k + 1, Len(gn \o ge))
                kn == IF k < Len(gn) THEN k ELSE Len(gn)
                back == [n |-> Back(SubSeq(gn, 1, kn)), e |-> Back(SubSeq(ge, 1, k - kn))]
            IN /\ nodes' = NoGhosts(nodes)
                           \o [j \in DOMAIN back.n |-> Rescued(back.n[j])]
               /\ eps' = NoGhosts(eps)
                           \o [j \in DOMAIN back.e |-> Rescued(back.e[j])]
               /\ ghosts' = {n.file : n \in SetOf(late)
                                 \cup {m \in SetOf(inTime) : ~IsRescued(m)}}
    /\ pc' = "reported"
    /\ UNCHANGED <<task, llm, answer, truncated, i, again, outcome, asked>>

ToUnitTests ==
    /\ pc' = IF RealFuncs # <<>> /\ ModeEnabled("ut") THEN "ut" ELSE "done"
    /\ i' = 0 /\ again' = FALSE

StartFollowUps ==
    /\ pc = "reported"
    /\ IF eps # <<>> /\ ModeEnabled("e2e")
       THEN pc' = "scen" /\ UNCHANGED <<i, again>>
       ELSE ToUnitTests
    /\ UNCHANGED <<task, llm, answer, truncated, report, outcome, asked>>

(***************************************************************************)
(* Scenarios, in chunks of entry points.                                   *)
(***************************************************************************)
EntryKey(n) == [fun |-> n.fun, file |-> n.file]

NextScenarioChunk ==
    IF i + 1 < Chunks(eps, MaxEPChunk)
    THEN i' = i + 1 /\ again' = FALSE /\ UNCHANGED pc
    ELSE ToUnitTests

\* What a reply is parsed to: scenarios of the chunk's entry points, of
\* others, or nothing.
ScenarioReplies == SUBSET {EntryKey(n) : n \in SetOf(Chunk(eps, MaxEPChunk, i))}

\* A chunk that gave nothing is asked once more; one entry per key.
ScenarioReply ==
    /\ pc = "scen"
    /\ \E reply \in ScenarioReplies :
           /\ Returned(reply # {} \/ again)
           /\ scen' = scen \cup reply
           /\ IF reply = {} /\ ~again
              THEN again' = TRUE /\ UNCHANGED <<pc, i>>
              ELSE NextScenarioChunk
    /\ UNCHANGED <<task, answer, truncated, report, ut, seen, replied, asked>>

\* A failed request ends the chunk, whether its first or its second.
ScenarioFails ==
    /\ pc = "scen" /\ Returned(TRUE)
    /\ NextScenarioChunk
    /\ UNCHANGED <<task, answer, truncated, report, outcome, asked>>

(***************************************************************************)
(* Unit tests, in chunks of functions, then a sweep of those missing.  An  *)
(* analysis carries a name, mostly without the file; it is filed under the *)
(* first function that has it.                                             *)
(***************************************************************************)
BaseToQualified(name) ==
    LET owners == {k \in DOMAIN RealFuncs : Bare(RealFuncs[k]) = name}
        first == CHOOSE k \in owners : \A l \in owners : k <= l
    IN IF owners = {} THEN name ELSE Qualified(RealFuncs[first])

Missing == Filter(RealFuncs, {f \in SetOf(RealFuncs) : Qualified(f) \notin seen})

Names(fs) == {Bare(f) : f \in SetOf(fs)} \cup {Qualified(f) : f \in SetOf(fs)} \cup Strangers

\* A repeated function ends the merge of the reply.
MergeStopsAtRepeat(reply) ==
    /\ IF \E n \in reply : BaseToQualified(n) \in seen
       THEN UNCHANGED <<ut, seen>>
       ELSE /\ seen' = seen \cup {BaseToQualified(n) : n \in reply}
            /\ ut' = ut \cup {BaseToQualified(n) : n \in reply}
    /\ replied' = replied \cup reply

\* Of several analyses under one key one is kept (the code's first; which is
\* immaterial), and none when the key has one already.
Merge(reply) ==
    /\ LET fresh == {BaseToQualified(n) : n \in reply} \ seen IN
       /\ ut' = ut \cup {CHOOSE n \in reply : BaseToQualified(n) = k : k \in fresh}
       /\ seen' = seen \cup fresh
    /\ replied' = replied \cup reply

\* The sweep asks for at most a chunk; it is skipped when more are missing.
AfterChunk(missing) ==
    IF i + 1 < Chunks(RealFuncs, MaxUTChunk)
    THEN i' = i + 1 /\ again' = FALSE /\ UNCHANGED pc
    ELSE /\ pc' = IF Cardinality(missing) \in 1..MaxUTChunk THEN "sweep" ELSE "done"
         /\ again' = FALSE /\ UNCHANGED i

Unseen(S) == {k \in DOMAIN RealFuncs : Qualified(RealFuncs[k]) \notin S}

\* A chunk that gave nothing is asked for until it gives something.
UTReplyInsists ==
    /\ pc = "ut"
    /\ \E reply \in SUBSET Names(Chunk(RealFuncs, MaxUTChunk, i)) :
           /\ Returned(reply # {})
           /\ Merge(reply)
           /\ IF reply = {}
              THEN again' = TRUE /\ UNCHANGED <<pc, i>>
              ELSE AfterChunk(Unseen(seen'))
    /\ UNCHANGED <<task, answer, truncated, report, scen, asked>>

UTReply ==
    /\ pc = "ut"
    /\ \E reply \in SUBSET Names(Chunk(RealFuncs, MaxUTChunk, i)) :
           /\ Returned(reply # {} \/ again)
           /\ Merge(reply)
           /\ IF reply = {} /\ ~again
              THEN again' = TRUE /\ UNCHANGED <<pc, i>>
              ELSE AfterChunk(Unseen(seen'))
    /\ UNCHANGED <<task, answer, truncated, report, scen, asked>>

UTFails ==
    /\ pc = "ut" /\ Returned(TRUE)
    /\ AfterChunk(Unseen(seen))
    /\ UNCHANGED <<task, answer, truncated, report, outcome, asked>>

SweepReply ==
    /\ pc = "sweep" /\ Returned(TRUE)
    /\ \E reply \in SUBSET Names(Missing) : Merge(reply)
    /\ pc' = "done"
    /\ UNCHANGED <<task, answer, truncated, report, i, again, scen, asked>>

SweepFails ==
    /\ pc = "sweep" /\ Returned(TRUE)
    /\ pc' = "done"
    /\ UNCHANGED <<task, answer, truncated, report, i, again, outcome, asked>>

Step ==
    \/ Trace \/ TraceFails \/ JSONFollowUp \/ Parse \/ BackfillEmptyFiles
    \/ FilterGhostNodes \/ StartFollowUps
    \/ ScenarioReply \/ ScenarioFails \/ UTReply \/ UTFails \/ SweepReply \/ SweepFails
    \/ Send \/ Retry

Ended == pc \in {"done", "failed"} /\ UNCHANGED vars

Next == Step \/ Ended

Spec == Init /\ [][Next]_vars
-----------------------------------------------------------------------------
Key == [fun : DOMAIN Variants, file : Text]

\* Every variable has its type.
TypeOK ==
    /\ changed \in Tasks /\ modes \in ModeSets /\ roots \in {"none", "repo", "both"}
    /\ pc \in {"trace", "json", "parse", "backfill", "filter", "reported",
               "scen", "ut", "sweep", "done", "failed"}
    /\ call \in 0..MaxAttempts /\ sent \in 0..SentCap
    /\ answer \in Content /\ truncated \in BOOLEAN
    /\ SetOf(nodes) \cup SetOf(eps) \subseteq Location
    /\ ghosts \subseteq Text
    /\ i \in Nat /\ again \in BOOLEAN
    /\ scen \subseteq Key /\ ut \subseteq Name /\ seen \subseteq Name

Kept(n, s) ==
    \/ n \in SetOf(s)
    \/ \E m \in SetOf(s) : m.fun = n.fun /\ m.repo = n.repo /\ m.file \in Present
    \/ n.file \in ghosts

Repaired == pc \in {"reported", "scen", "ut", "sweep", "done"}

\* Of what the answer named, the parser drops three kinds without a trace in the
\* result: import statements, entry points without a repository, and everything
\* when the JSON does not fit.  Nothing else disappears: a node or an entry point
\* is in the result, as it was or with the file its name was found in, or its
\* file is among the ghost files the API warns of.
NothingElseLost ==
    Repaired /\ answer.kind # "misfit" =>
        /\ \A n \in SetOf(Named(answer).nodes) : IsReal(n) => Kept(n, nodes)
        /\ \A n \in SetOf(Named(answer).eps) : n.repo # "" => Kept(n, eps)

\* Of a repository that is on disk, the result names no file that does not
\* exist, except for functions the diff adds; and no ghost file exists.
FilesExist ==
    Repaired /\ OnDisk =>
        /\ \A n \in SetOf(nodes) \cup SetOf(eps) :
               n.file \in Present \cup {""} \/ n.fun \in NewFunctions
        /\ ghosts \cap Present = {}

\* A worker that ends has named in its prompts every changed function, every
\* entry point it reports and every function to test, whichever requests
\* failed.
EverythingAsked ==
    pc = "done" =>
        /\ SetOf(changed) \subseteq asked
        /\ ModeEnabled("e2e") => SetOf(eps) \subseteq asked
        /\ ModeEnabled("ut") => {Qualified(f) : f \in SetOf(RealFuncs)} \subseteq asked

\* m and n may be names of one function.
Alike(m, n) == m = n \/ \E f \in SetOf(RealFuncs) : {m, n} \subseteq {Bare(f), Qualified(f)}

\* The first of the functions with f's bare name.
First(f) == BaseToQualified(Bare(f)) = Qualified(f)

\* Whatever a failed, empty or repeated chunk costs, an analysis that was returned
\* is dropped only for another whose name may mean the same function, and never
\* are two kept for a function that is the first of its bare name.  Such a function
\* is missing only if no answer named it; the second of a bare name is also missing
\* when answers named it by that, and its analysis is lost as one of the first's
\* (the comment on baseToQualified has both emitted).
AnswersKept ==
    /\ \A n \in replied : \E m \in ut : Alike(m, n)
    /\ \A f \in SetOf(RealFuncs) :
           /\ First(f) /\ {Bare(f), Qualified(f)} \subseteq ut => f.file = ""
           /\ Qualified(f) \in seen <=>
                 \/ f.file # "" /\ Qualified(f) \in replied
                 \/ First(f) /\ Bare(f) \in replied

\* The follow-ups ask for everything and keep what is answered, as AnswersKept says.
FollowUpsComplete == EverythingAsked /\ AnswersKept

\* A chunk costs at most two requests of at most MaxAttempts attempts each,
\* whatever the answers and the errors.
RequestsBounded == sent <= RequestBound
=============================================================================
