------------------------------ MODULE AgentLoop ------------------------------
(***************************************************************************)
(* The agent loop of internal/agent/loop.go and the file checkpoints of    *)
(* internal/checkpoint it is resumed from.  A run asks the model, saves    *)
(* its conversation, executes the tool calls and asks again until the      *)
(* model stops or the step budget is spent.  All runs of one process share *)
(* the directory <tmp>/shirakami-checkpoints; a worker's file is named     *)
(* after its repository.  The process may crash between any two steps and  *)
(* every run then starts over from whatever file is there.                 *)
(***************************************************************************)
EXTENDS Naturals, Sequences, FiniteSets, FiniteSetsExt

CONSTANTS Run,          \* calls of AgentLoop.Run
          Repo,         \* checkpoint names: "worker-" + repository
          RepoOf,       \* the repository a run analyses
          None,         \* nobody
          NoFile,       \* the path does not exist
          Empty,        \* the file was truncated and not written yet
          Torn,         \* the file holds a mixture of two writes, or part of one
          MaxSteps,     \* limit: budget or maxSteps
          Window,       \* slidingWindowThreshold
          Keep,         \* slidingWindowToolResults + slidingWindowConv
          MaxToolCalls, \* bound: tool calls in one reply
          MaxCrashes,   \* bound: process crashes
          MaxFaults     \* bound: failed checkpoint operations and LLM calls

ASSUME LoopAssumption ==
    /\ RepoOf \in [Run -> Repo]
    /\ MaxSteps \in Nat \ {0} /\ Window \in Nat \ {0} /\ Keep \in Nat \ {0}
    /\ MaxToolCalls \in Nat /\ MaxCrashes \in Nat /\ MaxFaults \in Nat
    /\ None \notin Run

VARIABLES
    pc,        \* where each run is
    msgs,      \* its conversation
    steps,     \* stepCount
    stop,      \* the last reply was not a tool_use
    notFound,  \* notFoundPaths, for one path, up to the threshold 2
    out,       \* what Run returned
    file, tmp, \* <name>.json and <name>.json.tmp of each repository
    fd,        \* the file each run's open descriptor now leads to
    spent,     \* history: replies since the conversation was seeded
    resumed,   \* history: runs whose conversation came from a file
    slid,      \* history: runs whose conversation lost its middle
    kept,      \* history: runs whose file could not be deleted
    mixed,     \* history: names under which a run was started beside another, or
               \* from a file that another left
    crashes, faults

disk == <<file, tmp, fd>>
talk == <<msgs, steps, stop, notFound>>
history == <<spent, resumed, slid, kept, mixed>>
vars == <<pc, msgs, steps, stop, notFound, out, file, tmp, fd,
          spent, resumed, slid, kept, mixed, crashes, faults>>

\* A message and the run whose task it is about; calls is the number of tool
\* calls of an assistant message.
Message == [kind : {"task", "assistant", "tool", "user"}, of : Run, calls : 0..MaxToolCalls]

Say(kind, r, n) == [kind |-> kind, of |-> r, calls |-> n]

\* seedMessages; the system prompt, the same for every run, is left out.
SeedMessages(r) == <<Say("task", r, 0)>>

Checkpoint == [steps : Nat, msgs : Seq(Message)]
Unreadable == {Empty, Torn}

\* What a path holds is one of these and nothing else.
ASSUME FileAssumption ==
    NoFile \notin Unreadable /\ \A c \in {NoFile, Empty, Torn} : c \notin Checkpoint

Outcome == [kind : {"none", "error", "answer", "truncated"}, of : Run \cup {None}]
Pending == [kind |-> "none", of |-> None]

PC == {"idle", "loop", "asked", "replied", "opened", "written", "saved", "returned"}

Init ==
    /\ pc = [r \in Run |-> "idle"]
    /\ msgs = [r \in Run |-> <<>>]
    /\ steps = [r \in Run |-> 0]
    /\ stop = [r \in Run |-> FALSE]
    /\ notFound = [r \in Run |-> 0]
    /\ out = [r \in Run |-> Pending]
    /\ file = [k \in Repo |-> NoFile]
    /\ tmp = [k \in Repo |-> NoFile]
    /\ fd = [r \in Run |-> "none"]
    /\ spent = [r \in Run |-> 0]
    /\ resumed = {} /\ slid = {} /\ kept = {} /\ mixed = {}
    /\ crashes = 0 /\ faults = 0

Goto(r, label) == pc' = [pc EXCEPT ![r] = label]

Return(r, kind, of) ==
    /\ out' = [out EXCEPT ![r] = [kind |-> kind, of |-> of]]
    /\ Goto(r, "returned")

Fault == faults < MaxFaults /\ faults' = faults + 1

\* The task the conversation is about: what the model answers.
Subject(ms) == Head(ms).of

-----------------------------------------------------------------------------
(* loadCheckpoint.                                                         *)

Seed(r) ==
    /\ file[RepoOf[r]] = NoFile
    /\ msgs' = [msgs EXCEPT ![r] = SeedMessages(r)]
    /\ steps' = [steps EXCEPT ![r] = 0]
    /\ spent' = [spent EXCEPT ![r] = 0]
    /\ resumed' = resumed \ {r}
    /\ slid' = slid \ {r}
    /\ Goto(r, "loop")
    /\ UNCHANGED out

\* Seeded fault: the step count is not restored.
RestoreMessagesOnly(r) ==
    LET saved == file[RepoOf[r]]
    IN /\ saved \notin Unreadable \cup {NoFile}
       /\ msgs' = [msgs EXCEPT ![r] = saved.msgs]
       /\ steps' = [steps EXCEPT ![r] = 0]
       /\ resumed' = resumed \cup {r}
       /\ Goto(r, "loop")
       /\ UNCHANGED <<out, spent, slid>>

Restore(r) ==
    LET saved == file[RepoOf[r]]
    IN /\ saved \notin Unreadable \cup {NoFile}
       /\ msgs' = [msgs EXCEPT ![r] = saved.msgs]
       /\ steps' = [steps EXCEPT ![r] = saved.steps]
       /\ resumed' = resumed \cup {r}
       /\ Goto(r, "loop")
       /\ UNCHANGED <<out, spent, slid>>

\* json.Unmarshal fails: Run returns the error and the file stays.
RejectCheckpoint(r) ==
    /\ file[RepoOf[r]] \in Unreadable
    /\ Return(r, "error", None)
    /\ UNCHANGED <<msgs, steps, spent, resumed, slid>>

Active(r) == pc[r] \notin {"idle", "returned"}

\* The conversation in a file is about r's task.
About(content, r) ==
    content \notin Unreadable \cup {NoFile} /\ Subject(content.msgs) = r

\* r starts beside another run of its name, or from the file of another.
Mixes(r) ==
    \E q \in Run \ {r} : \/ RepoOf[q] = RepoOf[r] /\ Active(q)
                        \/ About(file[RepoOf[r]], q)

LoadCheckpoint(r) ==
    /\ pc[r] = "idle"
    /\ Seed(r) \/ Restore(r) \/ RejectCheckpoint(r)
    /\ mixed' = IF Mixes(r) THEN mixed \cup {RepoOf[r]} ELSE mixed
    /\ UNCHANGED <<stop, notFound, disk, kept, crashes, faults>>

-----------------------------------------------------------------------------
(* The head of the loop, and the model's reply.                            *)

Assistants(ms) == {i \in 1..Len(ms) : ms[i].kind = "assistant"}

\* lastContent: the subject of the last assistant message.
LastContent(ms) ==
    IF Assistants(ms) = {} THEN None ELSE ms[Max(Assistants(ms))].of

Truncate(r) ==
    /\ pc[r] = "loop"
    /\ steps[r] >= MaxSteps
    /\ Return(r, "truncated", LastContent(msgs[r]))
    /\ UNCHANGED <<talk, disk, history, crashes, faults>>

SeedEnd(ms) ==
    IF Assistants(ms) = {} THEN Len(ms) ELSE Min(Assistants(ms)) - 1

\* Seeded fault: the window keeps the tail only.
KeepTail(ms) ==
    IF Len(ms) > Keep THEN SubSeq(ms, Len(ms) - Keep + 1, Len(ms)) ELSE ms

\* Everything before the first assistant message, and the last Keep of the rest.
SlidingWindowTruncate(ms) ==
    LET end == SeedEnd(ms)
        from == IF Len(ms) - end > Keep THEN Len(ms) - Keep ELSE end
    IN SubSeq(ms, 1, end) \o SubSeq(ms, from + 1, Len(ms))

Ask(r) ==
    /\ pc[r] = "loop"
    /\ steps[r] < MaxSteps
    /\ msgs' = [msgs EXCEPT ![r] =
                   IF Len(@) > Window THEN SlidingWindowTruncate(@) ELSE @]
    /\ slid' = IF msgs'[r] # msgs[r] THEN slid \cup {r} ELSE slid
    /\ Goto(r, "asked")
    /\ UNCHANGED <<steps, stop, notFound, out, disk, spent, resumed, kept, mixed,
                   crashes, faults>>

\* Seeded fault: a failed call is tried again without end.
AskAgain(r) ==
    /\ pc[r] = "asked"
    /\ Goto(r, "loop")
    /\ UNCHANGED <<talk, out, disk, history, crashes, faults>>

\* llm.Complete failed for good: Run returns the error, the file stays.
ReplyError(r) ==
    /\ pc[r] = "asked"
    /\ Fault
    /\ Return(r, "error", None)
    /\ UNCHANGED <<talk, disk, history, crashes>>

\* The assistant turn: the end of the answer, or n tool calls.
Reply(r) ==
    /\ pc[r] = "asked"
    /\ \E n \in 0..MaxToolCalls, end \in BOOLEAN :
          /\ end => n = 0
          /\ msgs' = [msgs EXCEPT ![r] = Append(@, Say("assistant", Subject(@), n))]
          /\ stop' = [stop EXCEPT ![r] = end]
    /\ steps' = [steps EXCEPT ![r] = @ + 1]
    /\ spent' = [spent EXCEPT ![r] = @ + 1]
    /\ Goto(r, "replied")
    /\ UNCHANGED <<notFound, out, disk, resumed, slid, kept, mixed, crashes, faults>>

-----------------------------------------------------------------------------
(* FileCheckpointer.Save: os.WriteFile on the .tmp path, then os.Rename.   *)
(* Runs with one name share both paths; a descriptor follows its file.     *)

\* Seeded fault: the file is written in place.
OpenInPlace(r) ==
    /\ pc[r] = "replied"
    /\ file' = [file EXCEPT ![RepoOf[r]] = Empty]
    /\ fd' = [fd EXCEPT ![r] = "file"]
    /\ Goto(r, "opened")
    /\ UNCHANGED <<talk, out, tmp, history, crashes, faults>>

OpenTmp(r) ==
    /\ pc[r] = "replied"
    /\ tmp' = [tmp EXCEPT ![RepoOf[r]] = Empty]
    /\ fd' = [fd EXCEPT ![r] = "tmp"]
    /\ Goto(r, "opened")
    /\ UNCHANGED <<talk, out, file, history, crashes, faults>>

State(r) == [steps |-> steps[r], msgs |-> msgs[r]]

\* What writing r's state from offset 0 can leave in a file.
Written(r, content) ==
    IF content = Empty THEN {State(r)} ELSE {State(r), Torn}

WriteTmp(r) ==
    /\ pc[r] = "opened"
    /\ LET k == RepoOf[r]
       IN \/ /\ fd[r] = "tmp"
             /\ \E c \in Written(r, tmp[k]) : tmp' = [tmp EXCEPT ![k] = c]
             /\ UNCHANGED file
          \/ /\ fd[r] = "file"
             /\ \E c \in Written(r, file[k]) : file' = [file EXCEPT ![k] = c]
             /\ UNCHANGED tmp
          \/ fd[r] = "unlinked" /\ UNCHANGED <<file, tmp>>
    /\ fd' = [fd EXCEPT ![r] = "none"]
    /\ Goto(r, "written")
    /\ UNCHANGED <<talk, out, history, crashes, faults>>

\* The descriptors of k's runs after .tmp became the file, or the file went.
Follow(k, from, to) == [r \in Run |-> IF RepoOf[r] # k THEN fd[r]
                                      ELSE IF fd[r] = "file" THEN "unlinked"
                                      ELSE IF fd[r] = from THEN to ELSE fd[r]]

\* Another run of the same name may have moved .tmp away: an error, logged only.
RenameTmp(r) ==
    /\ pc[r] = "written"
    /\ LET k == RepoOf[r]
       IN \/ /\ tmp[k] # NoFile
             /\ file' = [file EXCEPT ![k] = tmp[k]]
             /\ tmp' = [tmp EXCEPT ![k] = NoFile]
             /\ fd' = Follow(k, "tmp", "file")
          \/ tmp[k] = NoFile /\ UNCHANGED disk
    /\ Goto(r, "saved")
    /\ UNCHANGED <<talk, out, history, crashes, faults>>

\* Opening, writing or renaming failed: logged, and the run goes on.
SaveFails(r) ==
    /\ pc[r] \in {"replied", "opened", "written"}
    /\ Fault
    /\ tmp' = IF fd[r] = "tmp" THEN [tmp EXCEPT ![RepoOf[r]] = Torn] ELSE tmp
    /\ file' = IF fd[r] = "file" THEN [file EXCEPT ![RepoOf[r]] = Torn] ELSE file
    /\ fd' = [fd EXCEPT ![r] = "none"]
    /\ Goto(r, "saved")
    /\ UNCHANGED <<talk, out, history, crashes>>

-----------------------------------------------------------------------------
(* The stop reason.                                                        *)

\* FileCheckpointer.Delete.
Delete(k) ==
    /\ file' = [file EXCEPT ![k] = NoFile]
    /\ fd' = Follow(k, "file", "unlinked")
    /\ UNCHANGED tmp

\* end_turn, max_tokens, or a reason the loop does not know.
Finish(r) ==
    /\ pc[r] = "saved"
    /\ stop[r]
    /\ \/ Delete(RepoOf[r]) /\ UNCHANGED <<kept, faults>>
       \/ Fault /\ kept' = kept \cup {r} /\ UNCHANGED disk
    /\ Return(r, "answer", Subject(msgs[r]))
    /\ UNCHANGED <<talk, spent, resumed, slid, mixed, crashes>>

\* Seeded fault: a panicking tool has no result.
ResultsButOne(r, n) ==
    [i \in 1..(IF n = 0 THEN 0 ELSE n - 1) |-> Say("tool", Subject(msgs[r]), 0)]

\* executeTools: one result per call, an error or a panic included.
ExecuteTools(r, n) == [i \in 1..n |-> Say("tool", Subject(msgs[r]), 0)]

\* tool_use: the results, and a hard-stop message once the path was not found
\* twice.  m of the calls asked for that path.
CallTools(r) ==
    /\ pc[r] = "saved"
    /\ ~stop[r]
    /\ LET n == msgs[r][Len(msgs[r])].calls
       IN \E m \in 0..n :
             LET failed == notFound[r] + m
                 block == IF m > 0 /\ failed >= 2
                          THEN <<Say("user", Subject(msgs[r]), 0)>> ELSE <<>>
             IN /\ notFound' = [notFound EXCEPT ![r] = IF failed > 2 THEN 2 ELSE failed]
                /\ msgs' = [msgs EXCEPT ![r] = @ \o ExecuteTools(r, n) \o block]
    /\ Goto(r, "loop")
    /\ UNCHANGED <<steps, stop, out, disk, history, crashes, faults>>

-----------------------------------------------------------------------------
\* The process dies; its runs will be started again.
Crash ==
    /\ crashes < MaxCrashes
    /\ crashes' = crashes + 1
    /\ pc' = [r \in Run |-> "idle"]
    /\ msgs' = [r \in Run |-> <<>>]
    /\ steps' = [r \in Run |-> 0]
    /\ stop' = [r \in Run |-> FALSE]
    /\ notFound' = [r \in Run |-> 0]
    /\ out' = [r \in Run |-> Pending]
    /\ fd' = [r \in Run |-> "none"]
    /\ UNCHANGED <<file, tmp, history, faults>>

\* What returns in bounded time: the client bounds every LLM call by its timeout.
Bounded(r) ==
    \/ Truncate(r) \/ Ask(r) \/ ReplyError(r) \/ Reply(r)
    \/ OpenTmp(r) \/ WriteTmp(r) \/ RenameTmp(r) \/ SaveFails(r)
    \/ Finish(r)

Step(r) == Bounded(r) \/ CallTools(r)

\* All runs returned: the process is done with them.
Done == (\A r \in Run : pc[r] = "returned") /\ UNCHANGED vars

Next == (\E r \in Run : LoadCheckpoint(r) \/ Step(r)) \/ Crash \/ Done

\* A started run goes on; its tool calls are waited for without a deadline.
Fairness == \A r \in Run : WF_vars(Bounded(r))

Spec == Init /\ [][Next]_vars
FairSpec == Spec /\ Fairness

-----------------------------------------------------------------------------
(* Properties.                                                             *)

Types ==
    /\ pc \in [Run -> PC]
    /\ msgs \in [Run -> Seq(Message)]
    /\ steps \in [Run -> 0..MaxSteps]
    /\ stop \in [Run -> BOOLEAN]
    /\ notFound \in [Run -> 0..2]
    /\ out \in [Run -> Outcome]
    /\ file \in [Repo -> Checkpoint \cup Unreadable \cup {NoFile}]
    /\ tmp \in [Repo -> Checkpoint \cup Unreadable \cup {NoFile}]
    /\ fd \in [Run -> {"none", "tmp", "file", "unlinked"}]
    /\ spent \in [Run -> Nat]
    /\ resumed \in SUBSET Run /\ slid \in SUBSET Run /\ kept \in SUBSET Run
    /\ mixed \in SUBSET Repo
    /\ crashes \in 0..MaxCrashes /\ faults \in 0..MaxFaults

\* Runs whose checkpoint no other run has touched, nor left to them.
Unmixed == {r \in Run : RepoOf[r] \notin mixed}

Budget == \A r \in Unmixed : spent[r] <= MaxSteps + crashes + faults

\* Every variable has its type, and crashes do not refill the step budget: over
\* all its resumptions one conversation costs at most MaxSteps replies and those
\* whose save was lost.
TypeOK == Types /\ Budget

\* Every request opens with the run's own task, however often the window slid,
\* the process died and the run was resumed, unless the name of its checkpoint
\* was used by two runs at once, or by one after another that left its file.
SeesOwnTask ==
    \A r \in Unmixed : pc[r] = "asked" => msgs[r] # <<>> /\ Head(msgs[r]) = Say("task", r, 0)

\* Whenever the process dies, the file it leaves can be read again: the rename
\* never publishes a partial write, but of runs that write the same one.
CheckpointReadable == \A k \in Repo \ mixed : file[k] \notin Unreadable

\* A run that answered leaves no checkpoint of its own behind for the next run
\* of its name to resume, unless the deletion itself failed.
AnsweredLeavesNoFile ==
    \A r \in Unmixed : out[r].kind = "answer" /\ About(file[RepoOf[r]], r) => r \in kept

\* The file a run finds at its start can be read, and is not one that an
\* answered run left.
CheckpointFiles == CheckpointReadable /\ AnsweredLeavesNoFile

\* The assistant message at i is followed by the result of each of its calls.
Answered(ms, i) ==
    /\ i + ms[i].calls <= Len(ms)
    /\ \A j \in 1..ms[i].calls : ms[i + j].kind = "tool"

\* The tool result at i belongs to a call of the assistant message before it.
Called(ms, i) ==
    \E j \in 1..(i - 1) :
       /\ ms[j].kind = "assistant" /\ i - j <= ms[j].calls
       /\ \A m \in (j + 1)..i : ms[m].kind = "tool"

\* A request pairs tool calls and results, as the LLM API wants them: a call
\* without its result appears only after a resumption, a result without its
\* call only after the window slid.
RequestsPaired ==
    \A r \in Unmixed : pc[r] = "asked" =>
       LET ms == msgs[r]
       IN /\ r \in resumed \/ \A i \in Assistants(ms) : Answered(ms, i)
          /\ r \in slid \/ \A i \in 1..Len(ms) : ms[i].kind = "tool" => Called(ms, i)

\* No tool call hangs for ever: what nothing in the loop sees to.
ToolsReturn == \A r \in Run : []<>~(pc[r] = "saved" /\ ~stop[r])

\* As long as its tools return, a started run returns, unless the process dies:
\* no sequence of replies, tool calls, failed saves and windows keeps it going
\* for ever, whatever other runs do to its checkpoint.
RunEnds ==
    ToolsReturn => \A r \in Run : pc[r] = "loop" ~> pc[r] \in {"returned", "idle"}

-----------------------------------------------------------------------------
(* Claims of the repository that its code does not keep.                   *)

\* What Run's comment says: it executes the loop for the given task, so what
\* it returns is about that task.
AnswersOwnTask ==
    \A r \in Run : out[r].kind \in {"answer", "truncated"} => out[r].of = r
=============================================================================
