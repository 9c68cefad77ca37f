--------------------------- MODULE AgentLoop_proofs ---------------------------
(***************************************************************************)
(* Proofs about AgentLoop, for any runs, budgets, windows and bounds.      *)
(***************************************************************************)
EXTENDS AgentLoop, SequenceTheorems, WellFoundedInduction, TLAPS

Running == {"loop", "asked", "replied", "opened", "written", "saved"}

\* One conversation: the task first and only there, everything about it.
Conversation(ms) ==
    /\ ms # <<>>
    /\ ms[1].kind = "task" /\ ms[1].calls = 0
    /\ \A i \in 1..Len(ms) : ms[i].of = ms[1].of /\ (ms[i].kind = "task" => i = 1)

Readable(c) == c \notin Unreadable \cup {NoFile}

TalkInv ==
    \A r \in Run :
        /\ msgs[r] = <<>> \/ Conversation(msgs[r])
        /\ pc[r] \in Running => msgs[r] # <<>>
        /\ pc[r] = "asked" => steps[r] < MaxSteps
        /\ pc[r] \in {"replied", "opened", "written", "saved"} =>
              msgs[r][Len(msgs[r])].kind = "assistant"

DiskInv ==
    \A k \in Repo :
        /\ Readable(file[k]) => Conversation(file[k].msgs)
           /\ file[k].steps <= MaxSteps
        /\ Readable(tmp[k]) => Conversation(tmp[k].msgs)
           /\ tmp[k].steps <= MaxSteps

IInv == Types /\ TalkInv /\ DiskInv

-----------------------------------------------------------------------------
(* What holds of a run as long as no other has mixed in with its name.     *)

\* The file of r's name has a conversation of r's.
Mine(r) == Readable(file[RepoOf[r]]) /\ file[RepoOf[r]].msgs[1].of = r

Saving == {"replied", "opened", "written"}

\* A run that is under way has the file of its name for itself; one that is not
\* has left it readable.
Files(r) ==
    LET k == RepoOf[r] IN
    /\ fd[r] \in {"none", "tmp"} /\ (fd[r] = "tmp") = (pc[r] = "opened")
    /\ pc[r] = "opened" => tmp[k] = Empty
    /\ pc[r] = "written" => tmp[k] = State(r)
    /\ file[k] \notin Unreadable
    /\ msgs[r] # <<>> => msgs[r][1].of = r
    /\ pc[r] \in Running /\ Readable(file[k]) => Mine(r)
    /\ out[r].kind = "answer" => pc[r] = "returned" /\ (Mine(r) => r \in kept)

\* Replies the step counts of the run and of its file do not know of were paid
\* for with a crash or a failure, but for the one being saved.
Spent(r) ==
    LET k == RepoOf[r] IN
    /\ spent[r] <= MaxSteps + crashes + faults
    /\ pc[r] \in Running => spent[r] <= steps[r] + crashes + faults
    /\ Mine(r) /\ pc[r] \notin Saving =>
       spent[r] <= file[k].steps + crashes + faults
    /\ Mine(r) /\ pc[r] \in Saving =>
       spent[r] <= file[k].steps + crashes + faults + 1

AnsweredBefore(ms, n) == \A i \in Assistants(ms) : i < n => Answered(ms, i)
AllCalled(ms) == \A i \in 1..Len(ms) : ms[i].kind = "tool" => Called(ms, i)

Paired(r) ==
    LET k == RepoOf[r] IN
    /\ r \notin resumed =>
         /\ pc[r] \in {"loop", "asked"} =>
            AnsweredBefore(msgs[r], Len(msgs[r]) + 1)
         /\ pc[r] \in Saving \cup {"saved"} =>
            AnsweredBefore(msgs[r], Len(msgs[r]))
    /\ r \notin slid => AllCalled(msgs[r])
       /\ (Mine(r) => AllCalled(file[k].msgs))

\* A name of no run has no file.
Unnamed == \A k \in Repo : k \notin {RepoOf[r] : r \in Run} => file[k] = NoFile

\* One of the runs of a name at a time.
Exclusive ==
    \A r \in Unmixed : \A q \in Run \ {r} :
        RepoOf[q] = RepoOf[r] /\ pc[r] \in Running => pc[q] \notin Running

OwnInv ==
    /\ Unnamed /\ Exclusive
    /\ \A r \in Unmixed : Files(r) /\ Spent(r) /\ Paired(r)

-----------------------------------------------------------------------------
LEMMA Least ==
  ASSUME NEW S \in SUBSET Nat, S # {} PROVE \E x \in S : \A y \in S : x <= y
<1>. DEFINE R == OpToRel(<, Nat)
<1>1. IsWellFoundedOn(R, Nat)
  BY NatLessThanWellFounded
<1>2. PICK m \in S : \A y \in S : ~(<<y, m>> \in R)
  <2>. HIDE DEF R
  <2>. QED BY <1>1, WFMin
<1>3. \A y \in S : ~(y < m)
  BY <1>2 DEF OpToRel
<1>. QED
  BY <1>3

LEMMA MinIsLeast ==
  ASSUME NEW S \in SUBSET Nat, S # {}
  PROVE  Min(S) \in S /\ \A y \in S : Min(S) <= y
  BY Least DEF Min

LEMMA MaxIsGreatest ==
  ASSUME NEW n \in Nat, NEW S \in SUBSET (1..n), S # {}
  PROVE  Max(S) \in S
<1>. DEFINE D == {d \in Nat : n - d \in S}
<1>1. D \in SUBSET Nat /\ D # {}
  <2>1. PICK x \in S : TRUE
    OBVIOUS
  <2>2. n - x \in Nat /\ n - (n - x) = x
    OBVIOUS
  <2>. QED
    BY <2>2
<1>2. PICK d \in D : \A e \in D : d <= e
  BY <1>1, Least
<1>3. \A y \in S : n - y \in D
  OBVIOUS
<1>4. \A y \in S : n - d >= y
  BY <1>2, <1>3
<1>5. \E x \in S : \A y \in S : x >= y
  BY <1>4
<1>. QED
  BY <1>5 DEF Max

\* The window keeps everything before the first assistant message, and of the
\* rest a tail.
LEMMA WindowShape ==
  ASSUME NEW ms \in Seq(Message), Conversation(ms)
  PROVE  \E end \in 1..Len(ms), d \in 0..Len(ms) :
            LET T == SlidingWindowTruncate(ms) IN
            /\ T \in Seq(Message) /\ Len(T) = Len(ms) - d
            /\ end <= Len(T)
            /\ \A i \in 1..end : T[i] = ms[i] /\ ms[i].kind # "assistant"
            /\ \A i \in (end + 1)..Len(T) : T[i] = ms[i + d]
<1>. DEFINE A == Assistants(ms)
            end == SeedEnd(ms)
            from == IF Len(ms) - end > Keep THEN Len(ms) - Keep ELSE end
            T == SlidingWindowTruncate(ms)
            U == SubSeq(ms, 1, end)
            V == SubSeq(ms, from + 1, Len(ms))
<1>1. /\ end \in 1..Len(ms)
      /\ \A i \in 1..end : ms[i].kind # "assistant"
  <2>1. CASE A = {}
    BY <2>1 DEF Conversation, SeedEnd, Assistants
  <2>2. CASE A # {}
    <3>1. A \in SUBSET Nat
      BY DEF Assistants
    <3>2. A \in SUBSET Nat /\ Min(A) \in A /\ \A y \in A : Min(A) <= y
      BY <2>2, <3>1, MinIsLeast
    <3>3. end = Min(A) - 1 /\ Min(A) \in 1..Len(ms) /\ 1 \notin A
      BY <3>2 DEF SeedEnd, Assistants, Conversation
    <3>4. end \in 1..Len(ms)
      BY <3>2, <3>3
    <3>5. \A i \in 1..end : i \notin A /\ i \in 1..Len(ms)
      BY <3>2, <3>3
    <3>. QED
      BY <3>4, <3>5 DEF Assistants
  <2>. QED
    BY <2>1, <2>2
<1>. HIDE DEF end
<1>2. from \in end..Len(ms)
  BY <1>1, LoopAssumption
<1>. HIDE DEF from
<1>3. U \in Seq(Message) /\ Len(U) = end /\ \A i \in 1..end : U[i] = ms[i]
  BY <1>1
<1>4. V \in Seq(Message) /\ Len(V) = Len(ms) - from
      /\ \A i \in 1..Len(V) : V[i] = ms[from + i]
  BY <1>1, <1>2
<1>5. T = U \o V
  BY DEF SlidingWindowTruncate, end, from
<1>. HIDE DEF U, V, T
<1>6. /\ T \in Seq(Message) /\ Len(T) = Len(ms) - (from - end)
      /\ \A i \in 1..end : T[i] = ms[i]
      /\ \A i \in (end + 1)..Len(T) : T[i] = ms[i + (from - end)]
  <2>1. T \in Seq(Message) /\ Len(T) = end + (Len(ms) - from)
    <3>1. T \in Seq(Message) /\ Len(T) = Len(U) + Len(V)
      BY <1>3, <1>4, <1>5, ConcatProperties
    <3>. QED
      BY <1>3, <1>4, <3>1
  <2>2. \A i \in 1..end : T[i] = U[i]
    BY <1>3, <1>5
  <2>3. ASSUME NEW i \in (end + 1)..Len(T) PROVE T[i] = ms[i + (from - end)]
    <3>1. T[i] = V[i - end]
      BY <1>1, <1>2, <1>3, <1>4, <1>5, <2>1
    <3>2. i - end \in 1..Len(V) /\ from + (i - end) = i + (from - end)
      BY <1>1, <1>2, <1>4, <2>1
    <3>. QED
      BY <1>4, <3>1, <3>2
  <2>. QED
    BY <1>2, <1>3, <2>1, <2>2, <2>3
<1>7. from - end \in 0..Len(ms) /\ end <= Len(T)
  BY <1>1, <1>2, <1>6
<1>. QED
  BY <1>1, <1>6, <1>7 DEF T

LEMMA WindowKeepsConversation ==
  ASSUME NEW ms \in Seq(Message), Conversation(ms)
  PROVE  LET T == SlidingWindowTruncate(ms)
         IN T \in Seq(Message) /\ Conversation(T) /\ T[1] = ms[1]
<1>. DEFINE T == SlidingWindowTruncate(ms)
<1>1. PICK end \in 1..Len(ms), d \in 0..Len(ms) :
            /\ T \in Seq(Message) /\ Len(T) = Len(ms) - d
            /\ end <= Len(T)
            /\ \A i \in 1..end : T[i] = ms[i] /\ ms[i].kind # "assistant"
            /\ \A i \in (end + 1)..Len(T) : T[i] = ms[i + d]
  BY WindowShape
<1>. HIDE DEF T
<1>2. T # <<>> /\ T[1] = ms[1]
  BY <1>1
<1>3. ASSUME NEW i \in 1..Len(T)
      PROVE  T[i].of = T[1].of /\ (T[i].kind = "task" => i = 1)
  <2>1. CASE i <= end
    BY <1>1, <2>1 DEF Conversation
  <2>2. CASE i > end
    <3>1. i + d \in 1..Len(ms) /\ i + d # 1 /\ T[i] = ms[i + d]
      BY <1>1, <2>2
    <3>. QED
      BY <1>2, <3>1 DEF Conversation
  <2>. QED
    BY <2>1, <2>2
<1>. QED
  BY <1>1, <1>3 DEF T, Conversation

LEMMA MessageIs ==
  ASSUME NEW kind \in {"task", "assistant", "tool", "user"}, NEW r \in Run,
         NEW n \in 0..MaxToolCalls
  PROVE  /\ Say(kind, r, n) \in Message
         /\ Say(kind, r, n).kind = kind /\ Say(kind, r, n).of = r
            /\ Say(kind, r, n).calls = n
  BY DEF Say, Message

LEMMA SubjectIsRun ==
  ASSUME NEW ms \in Seq(Message), ms # <<>>
  PROVE  Subject(ms) = ms[1].of /\ Subject(ms) \in Run
<1>1. ms[1] \in Message /\ Head(ms) = ms[1]
  OBVIOUS
<1>. QED
  BY <1>1 DEF Subject, Message

LEMMA SeedConversation == ASSUME NEW r \in Run PROVE
    /\ SeedMessages(r) \in Seq(Message) /\ Conversation(SeedMessages(r))
       /\ SeedMessages(r)[1] = Say("task", r, 0)
<1>1. Say("task", r, 0) \in Message
  BY MessageIs, LoopAssumption
<1>. QED
  BY <1>1 DEF SeedMessages, Conversation, Say

\* More of the same conversation.
LEMMA ExtendConversation ==
  ASSUME NEW ms \in Seq(Message), Conversation(ms), NEW more \in Seq(Message),
         \A i \in 1..Len(more) : more[i].of = Subject(ms) /\ more[i].kind # "task"
  PROVE  ms \o more \in Seq(Message) /\ Conversation(ms \o more)
<1>. DEFINE T == ms \o more
<1>1. T \in Seq(Message) /\ Len(T) = Len(ms) + Len(more)
  OBVIOUS
<1>2. \A i \in 1..Len(T) : T[i] = IF i <= Len(ms) THEN ms[i] ELSE more[i - Len(ms)]
  OBVIOUS
<1>3. ms # <<>> /\ Len(ms) >= 1 /\ Subject(ms) = ms[1].of
  BY SubjectIsRun DEF Conversation
<1>. HIDE DEF T
<1>4. T # <<>> /\ T[1] = ms[1]
  BY <1>1, <1>2, <1>3
<1>5. ASSUME NEW i \in 1..Len(T)
      PROVE  T[i].of = T[1].of /\ (T[i].kind = "task" => i = 1)
  <2>1. CASE i <= Len(ms)
    BY <1>2, <2>1 DEF Conversation
  <2>2. CASE i > Len(ms)
    <3>1. i - Len(ms) \in 1..Len(more) /\ T[i] = more[i - Len(ms)]
      BY <1>1, <1>2, <2>2
    <3>. QED
      BY <1>3, <1>4, <3>1
  <2>. QED
    BY <2>1, <2>2
<1>. QED
  BY <1>5 DEF T, Conversation

LEMMA AppendConversation ==
  ASSUME NEW ms \in Seq(Message), Conversation(ms), NEW m \in Message,
         m.of = Subject(ms), m.kind # "task"
  PROVE  /\ Append(ms, m) \in Seq(Message) /\ Conversation(Append(ms, m))
         /\ Append(ms, m)[Len(Append(ms, m))] = m
<1>1. Append(ms, m) = ms \o <<m>> /\ <<m>> \in Seq(Message)
      /\ Append(ms, m)[Len(Append(ms, m))] = m
  OBVIOUS
<1>2. \A i \in 1..Len(<<m>>) : <<m>>[i].of = Subject(ms) /\ <<m>>[i].kind # "task"
  OBVIOUS
<1>. QED
  BY <1>1, <1>2, ExtendConversation

LEMMA LastContentType ==
  ASSUME NEW ms \in Seq(Message) PROVE LastContent(ms) \in Run \cup {None}
<1>1. CASE Assistants(ms) = {}
  BY <1>1 DEF LastContent
<1>2. CASE Assistants(ms) # {}
  <2>1. Max(Assistants(ms)) \in Assistants(ms)
    <3>1. Assistants(ms) \in SUBSET (1..Len(ms)) /\ Len(ms) \in Nat
      BY DEF Assistants
    <3>. QED
      BY <1>2, <3>1, MaxIsGreatest
  <2>2. Max(Assistants(ms)) \in 1..Len(ms)
    BY <2>1 DEF Assistants
  <2>3. ms[Max(Assistants(ms))] \in Message
    BY <2>2
  <2>. QED
    BY <2>3 DEF LastContent, Message
<1>. QED
  BY <1>1, <1>2

LEMMA StateType ==
  ASSUME Types, NEW r \in Run
  PROVE  State(r) \in Checkpoint /\ State(r).msgs = msgs[r]
         /\ State(r).steps = steps[r]
  BY DEF Types, State, Checkpoint

LEMMA InitIInv == Init => IInv
  BY LoopAssumption
     DEF Init, IInv, Types, TalkInv, DiskInv, PC, Running, Outcome, Pending,
         Readable

LEMMA LoadCheckpointPreserves ==
  ASSUME IInv, NEW r \in Run, LoadCheckpoint(r) PROVE IInv'
<1>0. /\ mixed' \in SUBSET Repo /\ pc[r] = "idle"
      /\ UNCHANGED <<stop, notFound, disk, kept, crashes, faults>>
  BY LoopAssumption DEF IInv, Types, LoadCheckpoint
<1>1. Types'
  <2>1. CASE Seed(r)
    BY <1>0, <2>1, SeedConversation, LoopAssumption
       DEF IInv, Types, Seed, Goto, disk, PC
  <2>2. CASE Restore(r)
    <3>1. file[RepoOf[r]] \in Checkpoint /\ file[RepoOf[r]].steps <= MaxSteps
      BY <2>2, LoopAssumption DEF IInv, Types, DiskInv, Restore, Readable
    <3>. QED
      BY <1>0, <2>2, <3>1
         DEF IInv, Types, Restore, Goto, disk, PC, Checkpoint
  <2>3. CASE RejectCheckpoint(r)
    BY <1>0, <2>3
       DEF IInv, Types, RejectCheckpoint, Goto, disk, PC, Return,
           Outcome
  <2>. QED
    BY <2>1, <2>2, <2>3 DEF LoadCheckpoint
<1>2. TalkInv'
  <2>1. CASE Seed(r)
    BY <2>1, SeedConversation DEF IInv, Types, TalkInv, Seed, Goto, Conversation
  <2>2. CASE Restore(r)
    <3>1. Conversation(file[RepoOf[r]].msgs)
      BY <2>2, LoopAssumption DEF IInv, DiskInv, Restore, Readable
    <3>. QED
      BY <2>2, <3>1
         DEF IInv, Types, TalkInv, LoadCheckpoint, Restore, Goto, Conversation
  <2>3. CASE RejectCheckpoint(r)
    BY <2>3 DEF IInv, TalkInv, RejectCheckpoint, Goto, Return, Running
  <2>. QED
    BY <2>1, <2>2, <2>3 DEF LoadCheckpoint
<1>3. DiskInv'
  BY DEF DiskInv, IInv, disk, LoadCheckpoint
<1>. QED
  BY <1>1, <1>2, <1>3 DEF IInv

LEMMA TruncatePreserves == ASSUME IInv, NEW r \in Run, Truncate(r) PROVE IInv'
<1>1. Types'
  BY LastContentType
     DEF Types, IInv, PC, Goto, Return, disk, talk, history, Truncate, Outcome
<1>2. TalkInv'
  BY DEF TalkInv, Running, IInv, Goto, Return, talk, Truncate
<1>3. DiskInv'
  BY DEF DiskInv, IInv, disk, Truncate
<1>. QED
  BY <1>1, <1>2, <1>3 DEF IInv

LEMMA AskPreserves == ASSUME IInv, NEW r \in Run, Ask(r) PROVE IInv'
<1>1. Types'
  BY LoopAssumption, WindowKeepsConversation
     DEF Types, TalkInv, IInv, PC, Goto, disk, Ask
<1>2. TalkInv'
  <2>1. msgs[r] \in Seq(Message) /\ msgs[r] # <<>> /\ Conversation(msgs[r])
    BY DEF IInv, Types, TalkInv, Ask, Running
  <2>2. msgs'[r] # <<>> /\ Conversation(msgs'[r])
    BY <2>1, WindowKeepsConversation DEF Ask, Conversation
  <2>3. \A q \in Run \ {r} : msgs'[q] = msgs[q] /\ pc'[q] = pc[q]
    BY DEF Ask, Goto
  <2>. QED
    BY <2>2 DEF IInv, TalkInv, Ask, Goto
<1>3. DiskInv'
  BY DEF DiskInv, IInv, disk, Ask
<1>. QED
  BY <1>1, <1>2, <1>3 DEF IInv

LEMMA ReplyErrorPreserves == ASSUME IInv, NEW r \in Run, ReplyError(r) PROVE IInv'
<1>1. Types'
  BY LoopAssumption
     DEF Types, IInv, PC, Goto, Return, Fault, disk, talk, history, ReplyError,
         Outcome
<1>2. TalkInv'
  BY DEF TalkInv, Running, IInv, Goto, Return, talk, ReplyError
<1>3. DiskInv'
  BY DEF DiskInv, IInv, disk, ReplyError
<1>. QED
  BY <1>1, <1>2, <1>3 DEF IInv

LEMMA ReplyPreserves == ASSUME IInv, NEW r \in Run, Reply(r) PROVE IInv'
<1>1. Types'
  <2>1. msgs[r] \in Seq(Message) /\ msgs[r] # <<>>
    BY DEF IInv, Types, TalkInv, Reply, Running
  <2>2. PICK n \in 0..MaxToolCalls, end \in BOOLEAN :
            /\ msgs' = [msgs EXCEPT ![r] = Append(@, Say("assistant", Subject(@), n))]
            /\ stop' = [stop EXCEPT ![r] = end]
    BY DEF Reply
  <2>3. Say("assistant", Subject(msgs[r]), n) \in Message
    BY <2>1, SubjectIsRun, MessageIs
  <2>4. msgs' \in [Run -> Seq(Message)] /\ stop' \in [Run -> BOOLEAN]
    BY <2>1, <2>2, <2>3 DEF IInv, Types
  <2>5. steps' \in [Run -> 0..MaxSteps] /\ spent' \in [Run -> Nat] /\ pc' \in [Run -> PC]
    BY LoopAssumption DEF IInv, Types, TalkInv, Reply, Goto, PC
  <2>. QED
    BY <2>4, <2>5 DEF IInv, Types, Reply, disk
<1>2. TalkInv'
  <2>1. msgs[r] \in Seq(Message) /\ msgs[r] # <<>> /\ Conversation(msgs[r])
    BY DEF IInv, Types, TalkInv, Reply, Running
  <2>2. PICK n \in 0..MaxToolCalls :
            msgs' = [msgs EXCEPT ![r] = Append(@, Say("assistant", Subject(@), n))]
    BY DEF Reply
  <2>3. Say("assistant", Subject(msgs[r]), n) \in Message
        /\ Say("assistant", Subject(msgs[r]), n).of = Subject(msgs[r])
           /\ Say("assistant", Subject(msgs[r]), n).kind = "assistant"
    BY <2>1, SubjectIsRun, MessageIs
  <2>4. msgs'[r] = Append(msgs[r], Say("assistant", Subject(msgs[r]), n))
    BY <2>2 DEF IInv, Types
  <2>5. Conversation(msgs'[r]) /\ msgs'[r] # <<>>
        /\ msgs'[r][Len(msgs'[r])].kind = "assistant"
    BY <2>1, <2>3, <2>4, AppendConversation
  <2>6. \A q \in Run \ {r} : msgs'[q] = msgs[q] /\ pc'[q] = pc[q]
        /\ steps'[q] = steps[q]
    BY DEF Reply, Goto
  <2>7. pc'[r] = "replied"
    BY DEF IInv, Types, Reply, Goto
  <2>. QED
    BY <2>5, <2>6, <2>7 DEF IInv, TalkInv
<1>3. DiskInv'
  BY LoopAssumption, FileAssumption, AppendConversation, MessageIs, SubjectIsRun
     DEF Types, TalkInv, DiskInv, Running, IInv, PC, Goto, Return, Fault, disk,
         talk, history, Reply, Conversation
<1>. QED
  BY <1>1, <1>2, <1>3 DEF IInv

LEMMA OpenTmpPreserves == ASSUME IInv, NEW r \in Run, OpenTmp(r) PROVE IInv'
<1>1. Types'
  BY DEF Types, IInv, PC, Goto, talk, history, OpenTmp, Unreadable
<1>2. TalkInv'
  BY DEF TalkInv, Running, IInv, Goto, talk, OpenTmp
<1>3. DiskInv'
  BY DEF DiskInv, IInv, OpenTmp, Unreadable, Readable
<1>. QED
  BY <1>1, <1>2, <1>3 DEF IInv

LEMMA WriteTmpPreserves == ASSUME IInv, NEW r \in Run, WriteTmp(r) PROVE IInv'
<1>1. Types'
  <2>1. State(r) \in Checkpoint
    BY StateType DEF IInv
  <2>2. file' \in [Repo -> Checkpoint \cup Unreadable \cup {NoFile}]
        /\ tmp' \in [Repo -> Checkpoint \cup Unreadable \cup {NoFile}]
    <3>1. CASE \E c \in Written(r, tmp[RepoOf[r]]) :
                  tmp' = [tmp EXCEPT ![RepoOf[r]] = c] /\ UNCHANGED file
      <4>1. PICK c \in {State(r), Torn} : tmp' = [tmp EXCEPT ![RepoOf[r]] = c]
        BY <3>1 DEF Written
      <4>2. c \in Checkpoint \cup Unreadable
        BY <2>1 DEF Unreadable
      <4>. QED
        BY <3>1, <4>1, <4>2 DEF IInv, Types
    <3>2. CASE \E c \in Written(r, file[RepoOf[r]]) :
                  file' = [file EXCEPT ![RepoOf[r]] = c] /\ UNCHANGED tmp
      <4>1. PICK c \in {State(r), Torn} : file' = [file EXCEPT ![RepoOf[r]] = c]
        BY <3>2 DEF Written
      <4>2. c \in Checkpoint \cup Unreadable
        BY <2>1 DEF Unreadable
      <4>. QED
        BY <3>2, <4>1, <4>2 DEF IInv, Types
    <3>3. CASE UNCHANGED <<file, tmp>>
      BY <3>3 DEF IInv, Types
    <3>. QED
      BY <3>1, <3>2, <3>3 DEF WriteTmp
  <2>3. fd' \in [Run -> {"none", "tmp", "file", "unlinked"}]
        /\ pc' \in [Run -> PC]
    BY DEF IInv, Types, WriteTmp, Goto, PC
  <2>. QED
    BY <2>2, <2>3 DEF IInv, Types, WriteTmp, talk, history
<1>2. TalkInv'
  BY DEF TalkInv, Running, IInv, Goto, talk, WriteTmp
<1>3. DiskInv'
  BY StateType
     DEF Types, TalkInv, DiskInv, Running, IInv, PC, Goto, talk, WriteTmp, Written,
         Unreadable, Readable
<1>. QED
  BY <1>1, <1>2, <1>3 DEF IInv

LEMMA RenameTmpPreserves == ASSUME IInv, NEW r \in Run, RenameTmp(r) PROVE IInv'
<1>1. Types'
  BY LoopAssumption, FileAssumption
     DEF Types, TalkInv, DiskInv, Running, IInv, PC, Goto, Return, Fault, disk,
         talk, history, RenameTmp, Follow, Readable
<1>2. TalkInv'
  BY DEF TalkInv, Running, IInv, Goto, talk, RenameTmp
<1>3. DiskInv'
  BY LoopAssumption, FileAssumption
     DEF Types, TalkInv, DiskInv, Running, IInv, PC, Goto, Return, Fault, disk,
         talk, history, RenameTmp, Follow, Readable
<1>. QED
  BY <1>1, <1>2, <1>3 DEF IInv

LEMMA SaveFailsPreserves == ASSUME IInv, NEW r \in Run, SaveFails(r) PROVE IInv'
<1>1. Types'
  <2>1. file' \in [Repo -> Checkpoint \cup Unreadable \cup {NoFile}]
        /\ tmp' \in [Repo -> Checkpoint \cup Unreadable \cup {NoFile}]
    BY DEF IInv, Types, SaveFails, Unreadable
  <2>2. fd' \in [Run -> {"none", "tmp", "file", "unlinked"}]
        /\ pc' \in [Run -> PC] /\ faults' \in 0..MaxFaults
    BY LoopAssumption DEF IInv, Types, SaveFails, Goto, PC, Fault
  <2>. QED
    BY <2>1, <2>2 DEF IInv, Types, SaveFails, talk, history
<1>2. TalkInv'
  BY DEF TalkInv, Running, IInv, Goto, talk, SaveFails
<1>3. DiskInv'
  BY DEF DiskInv, IInv, SaveFails, Unreadable, Readable
<1>. QED
  BY <1>1, <1>2, <1>3 DEF IInv

LEMMA FinishPreserves == ASSUME IInv, NEW r \in Run, Finish(r) PROVE IInv'
<1>1. Types'
  <2>1. Subject(msgs[r]) \in Run
    BY SubjectIsRun DEF IInv, Types, TalkInv, Finish, Running
  <2>2. out' \in [Run -> Outcome]
    BY <2>1 DEF IInv, Types, Finish, Return, Outcome
  <2>3. fd' \in [Run -> {"none", "tmp", "file", "unlinked"}]
        /\ pc' \in [Run -> PC] /\ faults' \in 0..MaxFaults
    BY LoopAssumption
       DEF IInv, Types, Finish, Goto, PC, Fault, Return, Delete, Follow, disk
  <2>4. file' \in [Repo -> Checkpoint \cup Unreadable \cup {NoFile}] /\ tmp' = tmp
    BY DEF IInv, Types, Finish, Delete, disk
  <2>. QED
    BY <2>2, <2>3, <2>4 DEF IInv, Types, Finish, talk
<1>2. TalkInv'
  BY DEF TalkInv, Running, IInv, Goto, Return, talk, Finish
<1>3. DiskInv'
  BY DEF Types, DiskInv, IInv, disk, Finish, Delete, Readable
<1>. QED
  BY <1>1, <1>2, <1>3 DEF IInv

Block(r) == {<<>>, <<Say("user", Subject(msgs[r]), 0)>>}
Answers(r, n, block) == msgs[r] \o ExecuteTools(r, n) \o block

\* T is ms, n results and b other messages.
Answering(T, ms, n, b) ==
    /\ Len(T) = Len(ms) + n + b
    /\ \A i \in 1..Len(ms) : T[i] = ms[i]
    /\ \A i \in 1..n : T[Len(ms) + i].kind = "tool"
    /\ \A i \in 1..b : T[Len(ms) + n + i].kind = "user"

LEMMA ResultsConversation ==
  ASSUME NEW r \in Run, msgs[r] \in Seq(Message), msgs[r] # <<>>,
         Conversation(msgs[r]),
         NEW n \in 0..MaxToolCalls, NEW block \in Block(r)
  PROVE  /\ Answers(r, n, block) \in Seq(Message)
         /\ Conversation(Answers(r, n, block)) /\ Answers(r, n, block) # <<>>
         /\ Answering(Answers(r, n, block), msgs[r], n, Len(block))
<1>. DEFINE s == Subject(msgs[r])
            X == ExecuteTools(r, n)
            T == msgs[r] \o X
            U == T \o block
<1>1. s \in Run /\ s = msgs[r][1].of /\ 0 \in 0..MaxToolCalls
  BY SubjectIsRun, LoopAssumption
<1>2. Say("tool", s, 0) \in Message /\ Say("tool", s, 0).of = s
      /\ Say("tool", s, 0).kind = "tool"
      /\ Say("user", s, 0) \in Message /\ Say("user", s, 0).of = s
         /\ Say("user", s, 0).kind = "user"
  BY <1>1, MessageIs
<1>3. X \in Seq(Message) /\ Len(X) = n /\ \A i \in 1..n : X[i] = Say("tool", s, 0)
  BY <1>2 DEF ExecuteTools
<1>4. block \in Seq(Message)
      /\ \A i \in 1..Len(block) : block[i] = Say("user", s, 0)
  <2>1. CASE block = <<>>
    BY <2>1
  <2>2. CASE block = <<Say("user", s, 0)>>
    BY <1>2, <2>2
  <2>. QED
    BY <2>1, <2>2 DEF Block
<1>. HIDE DEF s, X
<1>5. T \in Seq(Message) /\ Conversation(T) /\ Len(T) = Len(msgs[r]) + n
      /\ (\A i \in 1..Len(msgs[r]) : T[i] = msgs[r][i])
         /\ \A i \in 1..n : T[Len(msgs[r]) + i] = X[i]
  <2>1. T \in Seq(Message) /\ Conversation(T)
    BY <1>2, <1>3, ExtendConversation DEF s
  <2>. QED
    BY <1>3, <2>1
<1>6. Subject(T) = s /\ T # <<>>
  <2>1. T # <<>> /\ T[1] = msgs[r][1]
    OBVIOUS
  <2>. QED
    BY <1>1, <1>5, <2>1, SubjectIsRun
<1>. HIDE DEF T
<1>7. U \in Seq(Message) /\ Conversation(U)
  BY <1>2, <1>4, <1>5, <1>6, ExtendConversation
<1>8. Len(U) = Len(T) + Len(block) /\ (\A i \in 1..Len(T) : U[i] = T[i])
      /\ \A i \in 1..Len(block) : U[Len(T) + i] = block[i]
  <2>. HIDE DEF U
  <2>1. U = T \o block
    BY DEF U
  <2>2. Len(U) = Len(T) + Len(block)
        /\ \A i \in 1..(Len(T) + Len(block)) :
              U[i] = IF i <= Len(T) THEN T[i] ELSE block[i - Len(T)]
    <3>. HIDE DEF T
    <3>1. T \in Seq(Message) /\ block \in Seq(Message)
      BY <1>4, <1>5
    <3>2. /\ Len(T \o block) = Len(T) + Len(block)
          /\ \A i \in 1..(Len(T) + Len(block)) :
                (T \o block)[i] = IF i <= Len(T) THEN T[i] ELSE block[i - Len(T)]
      OBVIOUS
    <3>. QED
      BY <2>1
  <2>3. Len(T) \in Nat /\ Len(block) \in Nat
    OBVIOUS
  <2>. QED
    BY <2>2
<1>9. U = Answers(r, n, block)
  BY DEF T, X, Answers
<1>. HIDE DEF U
<1>10. Len(U) = Len(msgs[r]) + n + Len(block) /\ U # <<>>
  BY <1>5, <1>8
<1>11. \A i \in 1..Len(msgs[r]) : U[i] = msgs[r][i]
  BY <1>5, <1>8
<1>12. \A i \in 1..n : U[Len(msgs[r]) + i].kind = "tool"
  <2>1. ASSUME NEW i \in 1..n PROVE U[Len(msgs[r]) + i] = X[i]
    <3>1. Len(msgs[r]) + i \in 1..Len(T) /\ T[Len(msgs[r]) + i] = X[i]
      BY <1>5
    <3>. QED
      BY <1>8, <3>1
  <2>. QED
    BY <1>2, <1>3, <2>1
<1>13. \A i \in 1..Len(block) : U[Len(msgs[r]) + n + i].kind = "user"
  BY <1>2, <1>4, <1>5, <1>8
<1>. QED
  BY <1>7, <1>9, <1>10, <1>11, <1>12, <1>13 DEF Answering

LEMMA CallToolsPreserves == ASSUME IInv, NEW r \in Run, CallTools(r) PROVE IInv'
<1>1. msgs[r] \in Seq(Message) /\ msgs[r] # <<>> /\ Conversation(msgs[r])
      /\ pc[r] = "saved"
  BY DEF IInv, Types, TalkInv, CallTools, Running
<1>2. msgs[r][Len(msgs[r])].calls \in 0..MaxToolCalls
  <2>1. msgs[r][Len(msgs[r])] \in Message
    BY <1>1
  <2>. QED
    BY <2>1 DEF Message
<1>3. PICK m \in 0..msgs[r][Len(msgs[r])].calls, block \in Block(r) :
        /\ notFound' = [notFound EXCEPT ![r] =
                         IF notFound[r] + m > 2 THEN 2 ELSE notFound[r] + m]
        /\ msgs' = [msgs EXCEPT ![r] =
                         @ \o ExecuteTools(r, msgs[r][Len(msgs[r])].calls) \o block]
  BY DEF CallTools, Block
<1>4. msgs'[r] \in Seq(Message) /\ Conversation(msgs'[r]) /\ msgs'[r] # <<>>
  <2>. DEFINE n == msgs[r][Len(msgs[r])].calls
              T == Answers(r, n, block)
  <2>1. n \in 0..MaxToolCalls /\ msgs'[r] = T
    BY <1>2, <1>3 DEF IInv, Types, Answers
  <2>. HIDE DEF n
  <2>2. T \in Seq(Message) /\ Conversation(T) /\ T # <<>>
    BY <1>1, <2>1, ResultsConversation
  <2>. QED
    BY <2>1, <2>2
<1>5. msgs' \in [Run -> Seq(Message)] /\ \A q \in Run \ {r} : msgs'[q] = msgs[q]
  BY <1>3, <1>4 DEF IInv, Types
<1>6. pc' = [pc EXCEPT ![r] = "loop"]
      /\ UNCHANGED <<steps, stop, out, disk, history, crashes, faults>>
  BY DEF CallTools, Goto
<1>7. notFound' \in [Run -> 0..2]
  <2>1. m \in Nat /\ notFound \in [Run -> 0..2]
    BY DEF IInv, Types
  <2>. QED
    BY <1>3, <2>1
<1>8. Types'
  BY <1>5, <1>6, <1>7 DEF IInv, Types, PC, disk, history
<1>9. TalkInv'
  BY <1>4, <1>5, <1>6 DEF IInv, Types, TalkInv
<1>10. DiskInv'
  BY <1>6 DEF IInv, DiskInv, disk
<1>. QED
  BY <1>8, <1>9, <1>10 DEF IInv

LEMMA CrashPreserves == ASSUME IInv, Crash PROVE IInv'
  BY LoopAssumption
     DEF IInv, Types, TalkInv, DiskInv, PC, Running, Crash, Outcome, Pending,
         history

-----------------------------------------------------------------------------
(* Calls and results under the operations on a conversation.               *)

LEMMA SeedPaired ==
  ASSUME NEW r \in Run, NEW n \in Nat
  PROVE  AnsweredBefore(SeedMessages(r), n) /\ AllCalled(SeedMessages(r))
  BY DEF SeedMessages, Say, AnsweredBefore, AllCalled, Assistants

LEMMA WindowAnswered ==
  ASSUME NEW ms \in Seq(Message), Conversation(ms),
         AnsweredBefore(ms, Len(ms) + 1)
  PROVE  LET T == SlidingWindowTruncate(ms) IN AnsweredBefore(T, Len(T) + 1)
<1>. DEFINE T == SlidingWindowTruncate(ms)
<1>1. PICK end \in 1..Len(ms), d \in 0..Len(ms) :
            /\ T \in Seq(Message) /\ Len(T) = Len(ms) - d
            /\ end <= Len(T)
            /\ \A i \in 1..end : T[i] = ms[i] /\ ms[i].kind # "assistant"
            /\ \A i \in (end + 1)..Len(T) : T[i] = ms[i + d]
  BY WindowShape
<1>. HIDE DEF T
<1>2. ASSUME NEW i \in Assistants(T) PROVE Answered(T, i)
  <2>1. i \in (end + 1)..Len(T) /\ T[i] = ms[i + d] /\ i + d \in Assistants(ms)
        /\ i + d < Len(ms) + 1
    BY <1>1 DEF Assistants
  <2>2. Answered(ms, i + d)
    BY <2>1 DEF AnsweredBefore
  <2>3. T[i].calls \in Nat /\ i + T[i].calls <= Len(T)
    <3>1. T[i] \in Message
      BY <2>1
    <3>2. T[i].calls \in Nat
      BY <3>1 DEF Message
    <3>. QED
      BY <1>1, <2>1, <2>2, <3>2 DEF Answered
  <2>4. ASSUME NEW j \in 1..T[i].calls PROVE T[i + j].kind = "tool"
    <3>1. i + j \in (end + 1)..Len(T) /\ (i + j) + d = (i + d) + j
      BY <1>1, <2>1, <2>3
    <3>2. T[i + j] = ms[(i + d) + j]
      BY <1>1, <3>1
    <3>. QED
      BY <2>1, <2>2, <3>2 DEF Answered
  <2>. QED
    BY <2>3, <2>4 DEF Answered
<1>. QED
  BY <1>2 DEF T, AnsweredBefore

\* What was appended after an answered call leaves it answered.
LEMMA ExtendAnswered ==
  ASSUME NEW ms \in Seq(Message), NEW T \in Seq(Message), Len(T) >= Len(ms),
         \A i \in 1..Len(ms) : T[i] = ms[i],
         NEW i \in 1..Len(ms), Answered(ms, i)
  PROVE  Answered(T, i)
<1>1. ms[i] \in Message /\ T[i] = ms[i]
  OBVIOUS
<1>2. ms[i].calls \in Nat
  BY <1>1 DEF Message
<1>3. i + T[i].calls <= Len(T)
  BY <1>2 DEF Answered
<1>4. ASSUME NEW j \in 1..T[i].calls PROVE T[i + j].kind = "tool"
  <2>1. i + j \in 1..Len(ms) /\ ms[i + j].kind = "tool"
    BY <1>2 DEF Answered
  <2>. QED
    BY <2>1
<1>. QED
  BY <1>3, <1>4 DEF Answered

LEMMA ExtendCalled ==
  ASSUME NEW ms \in Seq(Message), NEW T \in Seq(Message), Len(T) >= Len(ms),
         \A i \in 1..Len(ms) : T[i] = ms[i],
         NEW i \in 1..Len(ms), Called(ms, i)
  PROVE  Called(T, i)
<1>1. PICK j \in 1..(i - 1) : ms[j].kind = "assistant" /\ i - j <= ms[j].calls
      /\ \A m \in (j + 1)..i : ms[m].kind = "tool"
  BY DEF Called
<1>2. T[j] = ms[j] /\ \A m \in (j + 1)..i : T[m] = ms[m]
  OBVIOUS
<1>. QED
  BY <1>1, <1>2 DEF Called

LEMMA AppendPaired ==
  ASSUME NEW ms \in Seq(Message), NEW m \in Message, m.kind = "assistant"
  PROVE  /\ AnsweredBefore(ms, Len(ms) + 1) =>
            AnsweredBefore(Append(ms, m), Len(Append(ms, m)))
         /\ AllCalled(ms) => AllCalled(Append(ms, m))
<1>. DEFINE T == Append(ms, m)
<1>1. T \in Seq(Message) /\ Len(T) = Len(ms) + 1
      /\ (\A i \in 1..Len(ms) : T[i] = ms[i]) /\ T[Len(ms) + 1] = m
  OBVIOUS
<1>. HIDE DEF T
<1>2. ASSUME AnsweredBefore(ms, Len(ms) + 1), NEW i \in Assistants(T), i < Len(T)
      PROVE  Answered(T, i)
  <2>1. i \in 1..Len(ms) /\ i \in Assistants(ms) /\ i < Len(ms) + 1
    BY <1>1, <1>2 DEF Assistants
  <2>. QED
    BY <1>1, <1>2, <2>1, ExtendAnswered DEF AnsweredBefore
<1>3. ASSUME AllCalled(ms), NEW i \in 1..Len(T), T[i].kind = "tool"
      PROVE  Called(T, i)
  <2>1. i \in 1..Len(ms) /\ ms[i].kind = "tool"
    BY <1>1, <1>3
  <2>. QED
    BY <1>1, <1>3, ExtendCalled DEF AllCalled
<1>. QED
  BY <1>2, <1>3 DEF T, AnsweredBefore, AllCalled

LEMMA AnswersPaired ==
  ASSUME NEW ms \in Seq(Message), ms # <<>>, NEW T \in Seq(Message),
         NEW n \in Nat, NEW b \in Nat, Answering(T, ms, n, b),
         ms[Len(ms)].kind = "assistant", ms[Len(ms)].calls = n
  PROVE  /\ AnsweredBefore(ms, Len(ms)) => AnsweredBefore(T, Len(T) + 1)
         /\ AllCalled(ms) => AllCalled(T)
<1>1. PICK L \in Nat, M \in Nat : L = Len(ms) /\ M = Len(T)
  OBVIOUS
<1>2. /\ T \in Seq(Message)
      /\ Len(T) = L + n + b
      /\ \A i \in 1..L : T[i] = ms[i]
      /\ \A i \in 1..n : T[L + i].kind = "tool"
      /\ \A i \in 1..b : T[L + n + i].kind = "user"
  BY <1>1 DEF Answering
<1>3. ms \in Seq(Message) /\ L \in Nat /\ L >= 1 /\ ms[L].kind = "assistant"
      /\ ms[L].calls = n /\ n \in Nat
  BY <1>1
<1>4. b \in Nat
  OBVIOUS
<1>5. M = L + n + b /\ M >= L /\ M \in Nat /\ M = Len(T) /\ L = Len(ms)
  BY <1>1, <1>2
<1>6. \A i \in (L + 1)..(L + n) : T[i].kind = "tool"
  <2>1. ASSUME NEW i \in (L + 1)..(L + n) PROVE T[i].kind = "tool"
    <3>1. i - L \in 1..n /\ L + (i - L) = i
      OBVIOUS
    <3>. QED
      BY <1>2, <3>1
  <2>. QED
    BY <2>1
<1>7. \A i \in (L + n + 1)..M : T[i].kind = "user"
  <2>1. ASSUME NEW i \in (L + n + 1)..M PROVE T[i].kind = "user"
    <3>1. i - (L + n) \in 1..b /\ L + n + (i - (L + n)) = i
      <4>1. i \in Int /\ i >= L + n + 1 /\ i <= L + n + b
        BY <1>5
      <4>. QED
        BY <4>1
    <3>. QED
      BY <1>2, <3>1
  <2>. QED
    BY <2>1
<1>8. ASSUME AnsweredBefore(ms, L), NEW i \in Assistants(T) PROVE Answered(T, i)
  <2>1. i \in 1..M /\ T[i].kind = "assistant" /\ i <= L /\ i \in 1..L
    <3>1. i \in 1..M /\ T[i].kind = "assistant"
      BY <1>5 DEF Assistants
    <3>2. i \notin (L + 1)..(L + n) /\ i \notin (L + n + 1)..M
      BY <1>6, <1>7, <3>1
    <3>. QED
      BY <3>1, <3>2
  <2>2. CASE i < L
    <3>1. i \in Assistants(ms) /\ Answered(ms, i)
      <4>1. i \in Assistants(ms)
        BY <1>2, <1>5, <2>1 DEF Assistants
      <4>. QED
        BY <1>8, <2>2, <4>1 DEF AnsweredBefore
    <3>. QED
      BY <1>2, <1>5, <2>1, <3>1, ExtendAnswered
  <2>3. CASE i = L
    <3>1. T[L].calls = n /\ L + n <= M
      BY <1>2, <1>5
    <3>2. \A j \in 1..n : T[L + j].kind = "tool"
      BY <1>2
    <3>3. Answered(T, L)
      BY <1>5, <3>1, <3>2 DEF Answered
    <3>. QED
      BY <2>3, <3>3
  <2>. QED
    BY <2>1, <2>2, <2>3
<1>9. ASSUME AllCalled(ms), NEW i \in 1..M, T[i].kind = "tool" PROVE Called(T, i)
  <2>1. CASE i <= L
    <3>1. i \in 1..L /\ Called(ms, i)
      <4>1. i \in 1..L /\ ms[i].kind = "tool"
        BY <1>2, <1>9, <2>1
      <4>. QED
        BY <1>5, <1>9, <4>1 DEF AllCalled
    <3>. QED
      BY <1>2, <1>5, <3>1, ExtendCalled
  <2>2. CASE i > L
    <3>1. i \in (L + 1)..(L + n)
      BY <1>7, <1>9, <2>2
    <3>2. L \in 1..(i - 1) /\ T[L].kind = "assistant" /\ i - L <= T[L].calls
      BY <1>2, <1>3, <3>1
    <3>3. \A m \in (L + 1)..i : T[m].kind = "tool"
      BY <1>6, <3>1
    <3>. QED
      BY <3>2, <3>3 DEF Called
  <2>. QED
    BY <2>1, <2>2
<1>10. AnsweredBefore(ms, L) => AnsweredBefore(T, M + 1)
  BY <1>8 DEF AnsweredBefore
<1>11. AllCalled(ms) => AllCalled(T)
  BY <1>5, <1>9 DEF AllCalled
<1>. QED
  BY <1>1, <1>10, <1>11

LEMMA ResultsPaired ==
  ASSUME NEW r \in Run, msgs[r] \in Seq(Message), msgs[r] # <<>>,
         Conversation(msgs[r]),
         msgs[r][Len(msgs[r])].kind = "assistant",
         NEW n \in 0..MaxToolCalls, n = msgs[r][Len(msgs[r])].calls,
         NEW block \in Block(r)
  PROVE  /\ AnsweredBefore(msgs[r], Len(msgs[r])) =>
              AnsweredBefore(Answers(r, n, block), Len(Answers(r, n, block)) + 1)
         /\ AllCalled(msgs[r]) => AllCalled(Answers(r, n, block))
<1>1. n \in Nat /\ Len(block) \in Nat
  OBVIOUS
<1>2. /\ Answers(r, n, block) \in Seq(Message)
      /\ Answering(Answers(r, n, block), msgs[r], n, Len(block))
  BY ResultsConversation
<1>. QED
  BY <1>2, AnswersPaired

-----------------------------------------------------------------------------
(* Steps of a run whose name is unmixed, and what they leave the others.   *)

\* A step of r is none of the other runs' business.
Frame(r) ==
    /\ \A q \in Run \ {r} :
          /\ pc'[q] = pc[q] /\ msgs'[q] = msgs[q] /\ steps'[q] = steps[q]
          /\ spent'[q] = spent[q] /\ out'[q] = out[q]
          /\ RepoOf[q] # RepoOf[r] \/ fd[q] = "none" => fd'[q] = fd[q]
          /\ q \in resumed => q \in resumed'
          /\ q \in slid => q \in slid'
          /\ q \in kept => q \in kept'
    /\ \A k \in Repo \ {RepoOf[r]} : file'[k] = file[k] /\ tmp'[k] = tmp[k]
    /\ crashes' >= crashes /\ faults' >= faults

\* What becomes of the file of r's name: nothing, no file, or one of r's.
FileOf(r) ==
    LET k == RepoOf[r]
    IN file'[k] \in {file[k], NoFile} \/ (Readable(file[k]) /\ file[k].msgs[1].of = r)'

\* A run under another name notices nothing; one of the same name is not under
\* way, and what it left is still there or gone.
LEMMA OthersKept ==
  ASSUME IInv, IInv', NEW r \in Run, NEW q \in Run \ {r}, Frame(r),
         Files(q), Spent(q), Paired(q),
         RepoOf[q] = RepoOf[r] =>
            pc[q] \notin Running /\ FileOf(r) /\ file'[RepoOf[r]] \notin Unreadable
  PROVE  Files(q)' /\ Spent(q)' /\ Paired(q)'
<1>1. RepoOf[q] \in Repo /\ fd'[q] = fd[q] /\ pc'[q] = pc[q] /\ msgs'[q] = msgs[q]
      /\ steps'[q] = steps[q] /\ spent'[q] = spent[q] /\ out'[q] = out[q]
  BY LoopAssumption DEF Frame, Files, Running
<1>0. Mine(q)' => Mine(q) /\ file'[RepoOf[q]] = file[RepoOf[q]]
  BY <1>1 DEF Frame, FileOf, Mine, Readable
<1>2. Files(q)'
  <2>1. CASE RepoOf[q] # RepoOf[r]
    BY <1>0, <1>1, <2>1 DEF Frame, Files, State, Mine
  <2>2. CASE RepoOf[q] = RepoOf[r]
    BY <1>0, <1>1, <2>2 DEF Frame, Files, Running
  <2>. QED
    BY <2>1, <2>2
<1>3. Spent(q)'
  <2>1. spent[q] \in Nat /\ steps[q] \in Nat /\ crashes \in Nat /\ faults \in Nat
        /\ crashes' \in Nat /\ faults' \in Nat
        /\ MaxSteps \in Nat
           /\ (Readable(file[RepoOf[q]]) => file[RepoOf[q]].steps \in Nat)
    BY LoopAssumption DEF IInv, Types, Readable, Checkpoint
  <2>. QED
    BY <1>0, <1>1, <2>1 DEF Frame, Spent, Mine
<1>4. Paired(q)'
  BY <1>0, <1>1 DEF Frame, Paired, Mine
<1>. QED
  BY <1>2, <1>3, <1>4

LEMMA Numbers ==
  ASSUME IInv, NEW r \in Run
  PROVE  /\ spent[r] \in Nat /\ steps[r] \in Nat /\ steps[r] <= MaxSteps
         /\ crashes \in Nat /\ faults \in Nat /\ MaxSteps \in Nat
         /\ RepoOf[r] \in Repo
         /\ Readable(file[RepoOf[r]]) => file[RepoOf[r]] \in Checkpoint
            /\ file[RepoOf[r]].steps \in Nat
  BY LoopAssumption DEF IInv, Types, Readable, Checkpoint

LEMMA InitOwn == Init => OwnInv
  BY LoopAssumption, FileAssumption
     DEF Init, OwnInv, Unnamed, Exclusive, Running, Unmixed, Mine, Files, Spent,
         Paired, Readable, AllCalled, Saving, Pending

\* A step is none of the business of runs of other names.
LEMMA StepFrame ==
  ASSUME IInv, IInv', NEW r \in Run, LoadCheckpoint(r) \/ Step(r) PROVE Frame(r)
<1>1. CASE LoadCheckpoint(r)
  <2>1. UNCHANGED <<file, tmp, fd, kept, crashes, faults>>
    BY <1>1 DEF LoadCheckpoint, disk
  <2>2. CASE Seed(r)
    BY <2>1, <2>2 DEF IInv, Types, Frame, Seed, Goto
  <2>3. CASE Restore(r)
    BY <2>1, <2>3 DEF IInv, Types, Frame, Restore, Goto
  <2>4. CASE RejectCheckpoint(r)
    BY <2>1, <2>4 DEF IInv, Types, Frame, RejectCheckpoint, Return, Goto
  <2>. QED
    BY <1>1, <2>2, <2>3, <2>4 DEF LoadCheckpoint
<1>2. CASE Truncate(r)
  BY <1>2 DEF IInv, Types, Frame, Truncate, Return, Goto, disk, talk, history
<1>3. CASE Ask(r)
  BY <1>3 DEF IInv, Types, Frame, Ask, Goto, disk
<1>4. CASE ReplyError(r)
  BY <1>4 DEF IInv, Types, Frame, ReplyError, Fault, Return, Goto, disk, talk, history
<1>5. CASE Reply(r)
  BY <1>5 DEF IInv, Types, Frame, Reply, Goto, disk
<1>6. CASE OpenTmp(r)
  BY <1>6 DEF IInv, Types, Frame, OpenTmp, Goto, talk, history
<1>7. CASE WriteTmp(r)
  BY <1>7 DEF IInv, Types, Frame, WriteTmp, Goto, talk, history
<1>8. CASE RenameTmp(r)
  <2>1. /\ pc' = [pc EXCEPT ![r] = "saved"]
        /\ UNCHANGED <<talk, out, history, crashes, faults>>
    BY <1>8 DEF RenameTmp, Goto
  <2>2. CASE tmp[RepoOf[r]] = NoFile
    BY <1>8, <2>1, <2>2 DEF IInv, Types, Frame, RenameTmp, disk, talk, history
  <2>3. CASE tmp[RepoOf[r]] # NoFile
    <3>1. /\ file' = [file EXCEPT ![RepoOf[r]] = tmp[RepoOf[r]]]
          /\ tmp' = [tmp EXCEPT ![RepoOf[r]] = NoFile]
          /\ fd' = Follow(RepoOf[r], "tmp", "file")
      BY <1>8, <2>3 DEF RenameTmp
    <3>2. \A q \in Run \ {r} : RepoOf[q] # RepoOf[r] \/ fd[q] = "none" => fd'[q] = fd[q]
      BY <3>1 DEF Follow
    <3>3. \A k \in Repo \ {RepoOf[r]} : file'[k] = file[k] /\ tmp'[k] = tmp[k]
      BY <3>1 DEF IInv, Types
    <3>. QED
      BY <2>1, <3>2, <3>3 DEF IInv, Types, Frame, talk, history
  <2>. QED
    BY <2>2, <2>3
<1>9. CASE SaveFails(r)
  BY <1>9 DEF IInv, Types, Frame, SaveFails, Fault, Goto, talk, history
<1>10. CASE Finish(r)
  BY <1>10 DEF IInv, Types, Frame, Finish, Fault, Return, Goto, Delete, Follow, disk, talk
<1>11. CASE CallTools(r)
  BY <1>11 DEF IInv, Types, Frame, CallTools, Goto, disk, history
<1>. QED
  BY <1>1, <1>2, <1>3, <1>4, <1>5, <1>6, <1>7, <1>8, <1>9, <1>10, <1>11 DEF Step, Bounded

LEMMA LoadCheckpointOwn ==
  ASSUME IInv, IInv', NEW r \in Run, RepoOf[r] \notin mixed', Files(r), Spent(r), Paired(r),
         LoadCheckpoint(r)
  PROVE  FileOf(r) /\ Files(r)' /\ Spent(r)' /\ Paired(r)'
<1>1. /\ pc[r] = "idle" /\ RepoOf[r] \in Repo /\ file' = file /\ tmp' = tmp
         /\ fd' = fd
      /\ crashes' = crashes /\ faults' = faults /\ kept' = kept
      /\ crashes \in Nat /\ faults \in Nat /\ MaxSteps \in Nat
  BY Numbers DEF LoadCheckpoint, disk
<1>2. ~RejectCheckpoint(r)
  BY DEF Files, Running, RejectCheckpoint, Mine
<1>9. FileOf(r)
  BY <1>1 DEF FileOf
<1>3. CASE Seed(r)
  <2>1. /\ pc' = [pc EXCEPT ![r] = "loop"]
           /\ msgs' = [msgs EXCEPT ![r] = SeedMessages(r)]
        /\ steps' = [steps EXCEPT ![r] = 0] /\ spent' = [spent EXCEPT ![r] = 0]
        /\ resumed' = resumed \ {r} /\ slid' = slid \ {r} /\ out' = out
        /\ file[RepoOf[r]] = NoFile
    BY <1>3 DEF Seed, Goto
  <2>2. msgs'[r] = SeedMessages(r) /\ msgs'[r][1].of = r /\ pc'[r] = "loop"
        /\ spent'[r] = 0 /\ steps'[r] = 0
    BY <2>1, SeedConversation, MessageIs, LoopAssumption DEF IInv, Types
  <2>3. ~Mine(r)' /\ file'[RepoOf[r]] \notin Unreadable
    BY <1>1, <2>1, FileAssumption DEF Mine, Readable
  <2>4. Files(r)'
    <3>1. fd[r] = "none" /\ out[r].kind # "answer"
      BY <1>1 DEF Files
    <3>. QED
      BY <1>1, <2>1, <2>2, <2>3, <3>1, FileAssumption DEF Files, Running, Readable
  <2>5. Spent(r)'
    BY <1>1, <2>1, <2>2, <2>3 DEF Spent
  <2>6. Paired(r)'
    <3>1. Len(SeedMessages(r)) + 1 \in Nat
      OBVIOUS
    <3>. QED
      BY <1>1, <2>1, <2>2, SeedPaired DEF Paired, Readable, Mine
  <2>. QED
    BY <1>9, <2>4, <2>5, <2>6
<1>4. CASE Restore(r)
  <2>1. /\ pc' = [pc EXCEPT ![r] = "loop"]
           /\ msgs' = [msgs EXCEPT ![r] = file[RepoOf[r]].msgs]
        /\ steps' = [steps EXCEPT ![r] = file[RepoOf[r]].steps]
        /\ resumed' = resumed \cup {r} /\ UNCHANGED <<out, spent, slid>>
        /\ Readable(file[RepoOf[r]])
    BY <1>4 DEF Restore, Goto, Readable
  <2>7. Mine(r)
    <3>1. file[RepoOf[r]].msgs \in Seq(Message) /\ file[RepoOf[r]].msgs # <<>>
      BY <2>1, Numbers DEF IInv, DiskInv, Conversation, Checkpoint
    <3>2. ~Mixes(r)
      BY Numbers DEF LoadCheckpoint, IInv, Types
    <3>. QED
      BY <2>1, <3>1, <3>2, SubjectIsRun DEF Mixes, About, Mine, Readable
  <2>2. msgs'[r] = file[RepoOf[r]].msgs /\ pc'[r] = "loop"
        /\ steps'[r] = file[RepoOf[r]].steps
    BY <2>1 DEF IInv, Types
  <2>4. Files(r)'
    BY <1>1, <2>1, <2>7 DEF Files, Running, Mine
  <2>5. Spent(r)'
    BY <1>1, <2>1, <2>2, <2>7 DEF Spent, Saving, Mine
  <2>6. Paired(r)'
    BY <1>1, <2>1, <2>7 DEF Paired, Mine
  <2>. QED
    BY <1>9, <2>4, <2>5, <2>6
<1>. QED
  BY <1>2, <1>3, <1>4, <1>9 DEF LoadCheckpoint

LEMMA TruncateOwn ==
  ASSUME IInv, IInv', NEW r \in Run, RepoOf[r] \notin mixed', Files(r), Spent(r), Paired(r),
         Truncate(r)
  PROVE  FileOf(r) /\ Files(r)' /\ Spent(r)' /\ Paired(r)'
<1>2. Files(r)'
  BY DEF Files, Running, Truncate, Goto, Return, disk, talk, Mine
<1>3. Spent(r)'
  BY Numbers DEF Spent, Truncate, disk, talk, history, Saving, Mine
<1>4. Paired(r)'
  BY DEF Paired, Truncate, Goto, Return, disk, talk, history, Saving, Mine
<1>9. FileOf(r)
  BY DEF FileOf, Truncate, disk, IInv, Types
<1>. QED
  BY <1>9, <1>2, <1>3, <1>4

LEMMA AskOwn ==
  ASSUME IInv, IInv', NEW r \in Run, RepoOf[r] \notin mixed', Files(r), Spent(r), Paired(r),
         Ask(r)
  PROVE  FileOf(r) /\ Files(r)' /\ Spent(r)' /\ Paired(r)'
<1>1. /\ pc'[r] = "asked" /\ pc[r] = "loop"
         /\ UNCHANGED <<steps, stop, notFound, out, disk, spent, resumed, kept,
                         crashes, faults>>
      /\ msgs[r] \in Seq(Message) /\ Conversation(msgs[r]) /\ msgs[r] # <<>>
      /\ (msgs'[r] = SlidingWindowTruncate(msgs[r]) \/ msgs'[r] = msgs[r])
         /\ slid' = IF msgs'[r] # msgs[r] THEN slid \cup {r} ELSE slid
  BY DEF IInv, Types, TalkInv, Ask, Goto, Running
<1>3. Files(r)'
  <2>1. msgs'[r][1] = msgs[r][1]
    BY <1>1, WindowKeepsConversation
  <2>. QED
    BY <1>1, <2>1 DEF Files, Running, disk, Mine
<1>4. Spent(r)'
  BY DEF Spent, Files, Ask, Goto, disk, Running, Saving, State, Mine
<1>5. Paired(r)'
  <2>1. r \notin resumed => AnsweredBefore(msgs'[r], Len(msgs'[r]) + 1)
    BY <1>1, WindowAnswered DEF Paired, Mine
  <2>. QED
    BY <1>1, <2>1 DEF Paired, disk, Saving, Mine
<1>9. FileOf(r)
  BY DEF FileOf, Ask, disk, IInv, Types
<1>. QED
  BY <1>9, <1>3, <1>4, <1>5

LEMMA ReplyErrorOwn ==
  ASSUME IInv, IInv', NEW r \in Run, RepoOf[r] \notin mixed', Files(r), Spent(r), Paired(r),
         ReplyError(r)
  PROVE  FileOf(r) /\ Files(r)' /\ Spent(r)' /\ Paired(r)'
<1>1. /\ pc'[r] = "returned" /\ spent'[r] = spent[r] /\ steps'[r] = steps[r]
         /\ file' = file /\ faults' = faults + 1 /\ crashes' = crashes
            /\ pc[r] = "asked"
  BY DEF IInv, Types, ReplyError, Goto, Return, Fault, disk, talk, history
<1>3. Files(r)'
  BY DEF Files, Running, ReplyError, Goto, Return, disk, talk, Mine
<1>4. Spent(r)'
  BY <1>1, Numbers DEF Spent, Running, Mine
<1>5. Paired(r)'
  BY DEF Paired, ReplyError, Goto, Return, disk, talk, history, Saving, Mine
<1>9. FileOf(r)
  BY DEF FileOf, ReplyError, disk, IInv, Types
<1>. QED
  BY <1>9, <1>3, <1>4, <1>5

LEMMA ReplyOwn ==
  ASSUME IInv, IInv', NEW r \in Run, RepoOf[r] \notin mixed', Files(r), Spent(r), Paired(r),
         Reply(r)
  PROVE  FileOf(r) /\ Files(r)' /\ Spent(r)' /\ Paired(r)'
<1>1. /\ pc'[r] = "replied" /\ pc[r] = "asked" /\ spent'[r] = spent[r] + 1
         /\ steps'[r] = steps[r] + 1
      /\ UNCHANGED <<notFound, out, disk, resumed, slid, kept, crashes, faults>>
      /\ msgs[r] \in Seq(Message) /\ Conversation(msgs[r]) /\ msgs[r] # <<>>
         /\ Len(msgs[r]) >= 1
  BY DEF IInv, Types, TalkInv, Reply, Goto, Running
<1>2. PICK m \in Message : msgs'[r] = Append(msgs[r], m) /\ m.kind = "assistant"
  <2>1. PICK n \in 0..MaxToolCalls :
            msgs'[r] = Append(msgs[r], Say("assistant", Subject(msgs[r]), n))
    BY DEF IInv, Types, Reply
  <2>. QED
    BY <1>1, <2>1, MessageIs, SubjectIsRun
<1>4. Files(r)'
  <2>1. msgs'[r][1] = msgs[r][1]
    BY <1>1, <1>2
  <2>. QED
    BY <1>1, <2>1 DEF Files, Running, disk, Mine
<1>5. Spent(r)'
  <2>1. /\ steps[r] + 1 <= MaxSteps /\ Spent(r)
        /\ spent[r] \in Nat /\ steps[r] \in Nat /\ crashes \in Nat
           /\ faults \in Nat /\ MaxSteps \in Nat
        /\ (Readable(file[RepoOf[r]]) => file[RepoOf[r]].steps \in Nat)
    BY <1>1, Numbers DEF IInv, TalkInv
  <2>2. spent[r] + 1 <= steps[r] + 1 + crashes + faults
    BY <1>1, <2>1 DEF Spent, Running, Mine
  <2>3. ASSUME Mine(r)
        PROVE  spent[r] + 1 <= file[RepoOf[r]].steps + crashes + faults + 1
    <3>1. spent[r] <= file[RepoOf[r]].steps + crashes + faults
      BY <1>1, <2>1, <2>3 DEF Spent, Saving
    <3>2. PICK k \in Nat : k = file[RepoOf[r]].steps
      BY <2>1, <2>3 DEF Mine
    <3>. QED
      BY <2>1, <3>1, <3>2
  <2>4. file' = file /\ crashes' = crashes /\ faults' = faults
    BY <1>1 DEF disk
  <2>5. Mine(r)' = Mine(r)
    BY <2>4 DEF Mine
  <2>. QED
    BY <1>1, <2>1, <2>2, <2>3, <2>4, <2>5 DEF Spent, Saving
<1>6. Paired(r)'
  BY <1>1, <1>2, AppendPaired DEF Paired, disk, Mine
<1>9. FileOf(r)
  BY DEF FileOf, Reply, disk, IInv, Types
<1>. QED
  BY <1>9, <1>4, <1>5, <1>6

LEMMA OpenTmpOwn ==
  ASSUME IInv, IInv', NEW r \in Run, RepoOf[r] \notin mixed', Files(r), Spent(r), Paired(r),
         OpenTmp(r)
  PROVE  FileOf(r) /\ Files(r)' /\ Spent(r)' /\ Paired(r)'
<1>2. Files(r)'
  BY DEF IInv, Types, Files, Running, OpenTmp, Goto, talk, Mine
<1>3. Spent(r)'
  BY DEF Spent, OpenTmp, Goto, talk, history, Running, Saving, Mine
<1>4. Paired(r)'
  BY DEF Paired, OpenTmp, Goto, talk, history, Saving, Mine
<1>9. FileOf(r)
  BY DEF FileOf, OpenTmp, disk, IInv, Types
<1>. QED
  BY <1>9, <1>2, <1>3, <1>4

LEMMA WriteTmpOwn ==
  ASSUME IInv, IInv', NEW r \in Run, RepoOf[r] \notin mixed', Files(r), Spent(r), Paired(r),
         WriteTmp(r)
  PROVE  FileOf(r) /\ Files(r)' /\ Spent(r)' /\ Paired(r)'
<1>1. pc[r] = "opened" /\ fd[r] = "tmp" /\ tmp[RepoOf[r]] = Empty
  BY DEF Files, WriteTmp
<1>5. /\ file' = file /\ tmp' = [tmp EXCEPT ![RepoOf[r]] = State(r)]
      /\ fd' = [fd EXCEPT ![r] = "none"] /\ pc' = [pc EXCEPT ![r] = "written"]
      /\ UNCHANGED <<msgs, steps, out, history, crashes, faults>>
  BY <1>1 DEF WriteTmp, Written, Goto, talk
<1>6. State(r)' = State(r) /\ Mine(r)' = Mine(r)
  BY <1>5 DEF State, Mine, Readable
<1>7. /\ fd'[r] = "none" /\ pc'[r] = "written" /\ tmp'[RepoOf[r]] = State(r)
      /\ RepoOf[r] \in Repo
  BY <1>5, LoopAssumption DEF IInv, Types
<1>2. Files(r)'
  BY <1>1, <1>5, <1>6, <1>7 DEF Files, Running, history
<1>3. Spent(r)'
  BY <1>1, <1>5, <1>6, <1>7 DEF Spent, Running, Saving, history
<1>4. Paired(r)'
  BY DEF Files, Running, Paired, WriteTmp, Goto, talk, history, Saving, Mine
<1>9. FileOf(r)
  BY DEF FileOf, WriteTmp, Files, Running
<1>. QED
  BY <1>9, <1>2, <1>3, <1>4

LEMMA RenameTmpOwn ==
  ASSUME IInv, IInv', NEW r \in Run, RepoOf[r] \notin mixed', Files(r), Spent(r), Paired(r),
         RenameTmp(r)
  PROVE  FileOf(r) /\ Files(r)' /\ Spent(r)' /\ Paired(r)'
<1>1. /\ pc'[r] = "saved" /\ pc[r] = "written"
         /\ UNCHANGED <<talk, out, history, crashes, faults>>
      /\ tmp[RepoOf[r]] = State(r) /\ State(r).steps = steps[r]
         /\ State(r).msgs = msgs[r]
      /\ file'[RepoOf[r]] = State(r) /\ Readable(State(r)) /\ fd'[r] = "none"
         /\ msgs[r] # <<>>
  <2>1. pc[r] = "written" /\ tmp[RepoOf[r]] = State(r) /\ fd[r] = "none"
        /\ msgs[r] # <<>>
    BY DEF RenameTmp, Files, IInv, TalkInv, Running, Mine
  <2>2. State(r) \in Checkpoint /\ State(r).steps = steps[r]
        /\ State(r).msgs = msgs[r]
    BY StateType DEF IInv
  <2>3. State(r) # NoFile /\ Readable(State(r))
    BY <2>2, FileAssumption DEF Readable, Unreadable
  <2>4. file'[RepoOf[r]] = State(r) /\ fd'[r] = "none"
    BY <2>1, <2>3, Numbers DEF RenameTmp, Follow, IInv, Types
  <2>5. pc'[r] = "saved" /\ UNCHANGED <<talk, out, history, crashes, faults>>
    BY DEF RenameTmp, Goto, IInv, Types
  <2>. QED
    BY <2>1, <2>2, <2>3, <2>4, <2>5
<1>3. Files(r)'
  BY <1>1 DEF Files, Running, talk, Readable, Mine
<1>4. Spent(r)'
  BY <1>1, Numbers DEF Spent, talk, history, Running, Mine
<1>5. Paired(r)'
  BY <1>1 DEF Paired, talk, history, Saving, Mine
<1>9. FileOf(r)
  BY <1>1, <1>3 DEF FileOf, Files, Mine, Running
<1>. QED
  BY <1>9, <1>3, <1>4, <1>5

LEMMA SaveFailsOwn ==
  ASSUME IInv, IInv', NEW r \in Run, RepoOf[r] \notin mixed', Files(r), Spent(r), Paired(r),
         SaveFails(r)
  PROVE  FileOf(r) /\ Files(r)' /\ Spent(r)' /\ Paired(r)'
<1>1. /\ pc'[r] = "saved" /\ spent'[r] = spent[r] /\ steps'[r] = steps[r]
         /\ file' = file /\ faults' = faults + 1 /\ crashes' = crashes
            /\ pc[r] \in Saving
  BY DEF IInv, Types, SaveFails, Goto, Fault, talk, history, Files, Running, Saving, Mine
<1>3. Files(r)'
  BY DEF IInv, Types, Files, Running, SaveFails, Goto, talk, Mine
<1>4. Spent(r)'
  BY <1>1, Numbers DEF Spent, Saving, Running, Mine
<1>5. Paired(r)'
  BY DEF Files, Running, Paired, SaveFails, Goto, talk, history, Saving, Mine
<1>9. FileOf(r)
  BY <1>1 DEF FileOf
<1>. QED
  BY <1>9, <1>3, <1>4, <1>5

LEMMA FinishOwn ==
  ASSUME IInv, IInv', NEW r \in Run, RepoOf[r] \notin mixed', Files(r), Spent(r), Paired(r),
         Finish(r)
  PROVE  FileOf(r) /\ Files(r)' /\ Spent(r)' /\ Paired(r)'
<1>1. /\ pc'[r] = "returned" /\ spent'[r] = spent[r]
         /\ (file'[RepoOf[r]] = file[RepoOf[r]] \/ file'[RepoOf[r]] = NoFile)
            /\ (faults' = faults + 1 \/ faults' = faults) /\ crashes' = crashes
               /\ pc[r] = "saved"
  BY DEF IInv, Types, Finish, Goto, Return, Fault, disk, Delete
<1>3. Files(r)'
  BY Numbers, LoopAssumption, FileAssumption
     DEF IInv, Types, Files, Running, Finish, Goto, Return, disk, talk, Readable, Delete,
         Follow, Mine
<1>4. Spent(r)'
  BY <1>1, Numbers DEF Spent, Readable, Saving, Running, Mine
<1>5. Paired(r)'
  BY DEF IInv, Types, Paired, Finish, Goto, Return, disk, talk, Readable, Delete, Mine
<1>9. FileOf(r)
  BY <1>1 DEF FileOf
<1>. QED
  BY <1>9, <1>3, <1>4, <1>5

LEMMA CallToolsOwn ==
  ASSUME IInv, IInv', NEW r \in Run, RepoOf[r] \notin mixed', Files(r), Spent(r), Paired(r),
         CallTools(r)
  PROVE  FileOf(r) /\ Files(r)' /\ Spent(r)' /\ Paired(r)'
<1>1. /\ pc[r] = "saved" /\ pc'[r] = "loop"
         /\ UNCHANGED <<steps, stop, out, disk, history, crashes, faults>>
      /\ msgs[r] \in Seq(Message) /\ Conversation(msgs[r]) /\ msgs[r] # <<>>
         /\ Len(msgs[r]) >= 1
      /\ msgs[r][Len(msgs[r])].kind = "assistant"
  BY DEF IInv, Types, TalkInv, CallTools, Goto, Running
<1>2. PICK n \in 0..MaxToolCalls, block \in Block(r) :
         n = msgs[r][Len(msgs[r])].calls /\ msgs'[r] = Answers(r, n, block)
  <2>1. msgs[r][Len(msgs[r])] \in Message
    BY <1>1
  <2>2. msgs[r][Len(msgs[r])].calls \in 0..MaxToolCalls
    BY <2>1 DEF Message
  <2>. QED
    BY <2>2 DEF CallTools, Block, Answers, IInv, Types
<1>4. Files(r)'
  <2>1. msgs'[r][1] = msgs[r][1]
    <3>1. Answering(msgs'[r], msgs[r], n, Len(block))
      BY <1>1, <1>2, ResultsConversation
    <3>2. 1 \in 1..Len(msgs[r])
      BY <1>1
    <3>. QED
      BY <3>1, <3>2 DEF Answering
  <2>. QED
    BY <1>1, <2>1 DEF Files, Running, disk, Mine
<1>5. Spent(r)'
  BY DEF IInv, Types, TalkInv, Spent, Files, CallTools, Goto, disk, history,
         Running, Saving, Mine
<1>6. Paired(r)'
  BY <1>1, <1>2, ResultsPaired DEF Paired, disk, history, Saving, Mine
<1>9. FileOf(r)
  BY DEF FileOf, CallTools, disk, IInv, Types
<1>. QED
  BY <1>9, <1>4, <1>5, <1>6

LEMMA CrashOwn == ASSUME IInv, IInv', OwnInv, Crash PROVE OwnInv'
<1>1. Unmixed' = Unmixed /\ Unnamed' /\ Exclusive'
  BY DEF OwnInv, Unnamed, Exclusive, Unmixed, Crash, history, Running
<1>. SUFFICES ASSUME NEW r \in Unmixed PROVE Files(r)' /\ Spent(r)' /\ Paired(r)'
  BY <1>1 DEF OwnInv
<1>0. r \in Run /\ Files(r) /\ Spent(r) /\ Paired(r) /\ (Mine(r)' = Mine(r))
  BY DEF OwnInv, Unmixed, Crash, Mine
<1>2. Files(r)'
  BY <1>0 DEF Files, Crash, Pending, Running
<1>3. Spent(r)'
  <2>1. crashes' = crashes + 1 /\ faults' = faults /\ pc'[r] = "idle"
        /\ spent'[r] = spent[r] /\ file' = file
    BY <1>0 DEF Crash, history
  <2>. QED
    BY <1>0, <2>1, Numbers DEF Spent, Running, Saving, Mine
<1>4. Paired(r)'
  BY <1>0 DEF Paired, Crash, Saving, history, AllCalled
<1>. QED
  BY <1>2, <1>3, <1>4

-----------------------------------------------------------------------------
LEMMA StutterPreserves == ASSUME IInv, UNCHANGED vars PROVE IInv'
  BY DEF IInv, Types, TalkInv, DiskInv, vars

LEMMA NextIInv == ASSUME IInv, [Next]_vars PROVE IInv'
<1>1. ASSUME NEW r \in Run, LoadCheckpoint(r) \/ Step(r) PROVE IInv'
  BY <1>1, LoadCheckpointPreserves, TruncatePreserves, AskPreserves,
     ReplyErrorPreserves, ReplyPreserves, OpenTmpPreserves, WriteTmpPreserves,
     RenameTmpPreserves, SaveFailsPreserves, FinishPreserves, CallToolsPreserves
     DEF Step, Bounded
<1>. QED
  BY <1>1, CrashPreserves, StutterPreserves DEF Next, Done

LEMMA StutterOwn == ASSUME OwnInv, UNCHANGED vars PROVE OwnInv'
<1>1. Unmixed' = Unmixed /\ Unnamed' /\ Exclusive'
  BY DEF OwnInv, Unnamed, Exclusive, Unmixed, vars
<1>. SUFFICES ASSUME NEW r \in Unmixed PROVE Files(r)' /\ Spent(r)' /\ Paired(r)'
  BY <1>1 DEF OwnInv
<1>2. Files(r) /\ Spent(r) /\ Paired(r)
  BY DEF OwnInv
<1>. QED
  BY <1>2 DEF vars, Files, Spent, Paired, State, Mine

\* A step starts a run beside another of its name only by mixing them, and goes
\* on with one only if it was under way.
LEMMA StepExclusive ==
  ASSUME IInv, Exclusive, NEW r \in Run, LoadCheckpoint(r) \/ Step(r)
  PROVE  /\ mixed \subseteq mixed' /\ Unmixed' \subseteq Unmixed /\ Exclusive'
         /\ \A q \in Run \ {r} : RepoOf[q] = RepoOf[r] /\ RepoOf[r] \notin mixed' =>
                pc[q] \notin Running
<1>1. mixed \subseteq mixed' /\ Unmixed' \subseteq Unmixed
  <2>1. mixed \subseteq mixed'
    BY DEF LoadCheckpoint, Step, Bounded, Truncate, Ask, ReplyError, Reply, OpenTmp,
           WriteTmp, RenameTmp, SaveFails, Finish, CallTools, history
  <2>. QED
    BY <2>1 DEF Unmixed
<1>2. \A q \in Run \ {r} : pc'[q] = pc[q]
  BY DEF IInv, Types, LoadCheckpoint, Seed, Restore, RejectCheckpoint, Step, Bounded,
         Truncate, Ask, ReplyError, Reply, OpenTmp, WriteTmp, RenameTmp, SaveFails,
         Finish, CallTools, Goto, Return
<1>3. ASSUME NEW q \in Run \ {r}, RepoOf[q] = RepoOf[r], RepoOf[r] \notin mixed'
      PROVE  pc[q] \notin Running
  <2>1. CASE LoadCheckpoint(r)
    <3>1. ~Mixes(r)
      BY <1>3, <2>1, Numbers DEF LoadCheckpoint, IInv, Types
    <3>. QED
      BY <1>3, <3>1 DEF Mixes, Active, Running
  <2>2. CASE Step(r)
    <3>1. pc[r] \in Running
      BY <2>2 DEF Step, Bounded, Truncate, Ask, ReplyError, Reply, OpenTmp, WriteTmp,
                  RenameTmp, SaveFails, Finish, CallTools, Running
    <3>2. RepoOf[r] \notin mixed
      BY <1>1, <1>3
    <3>. QED
      BY <1>3, <3>1, <3>2 DEF Exclusive, Unmixed
  <2>. QED
    BY <2>1, <2>2
<1>4. Exclusive'
  BY <1>1, <1>2, <1>3 DEF Exclusive, Unmixed
<1>. QED
  BY <1>1, <1>3, <1>4

LEMMA NextOwn == ASSUME IInv, OwnInv, [Next]_vars PROVE OwnInv'
<1>1. IInv'
  BY NextIInv
<1>2. ASSUME NEW r \in Run, LoadCheckpoint(r) \/ Step(r) PROVE OwnInv'
  <2>0. /\ mixed \subseteq mixed' /\ Unmixed' \subseteq Unmixed /\ Exclusive'
        /\ \A q \in Run \ {r} : RepoOf[q] = RepoOf[r] /\ RepoOf[r] \notin mixed' =>
               pc[q] \notin Running
    BY <1>2, StepExclusive DEF OwnInv
  <2>1. ASSUME RepoOf[r] \notin mixed'
        PROVE  FileOf(r) /\ Files(r)' /\ Spent(r)' /\ Paired(r)'
    <3>1. Files(r) /\ Spent(r) /\ Paired(r)
      BY <2>0, <2>1 DEF OwnInv, Unmixed
    <3>. QED
      BY <1>1, <1>2, <2>1, <3>1, LoadCheckpointOwn, TruncateOwn, AskOwn, ReplyErrorOwn,
         ReplyOwn, OpenTmpOwn, WriteTmpOwn, RenameTmpOwn, SaveFailsOwn, FinishOwn,
         CallToolsOwn
         DEF Step, Bounded
  <2>2. Frame(r)
    BY <1>1, <1>2, StepFrame
  <2>3. ASSUME NEW q \in Run \ {r}, RepoOf[q] \notin mixed'
        PROVE  Files(q)' /\ Spent(q)' /\ Paired(q)'
    <3>1. Files(q) /\ Spent(q) /\ Paired(q)
      BY <2>0, <2>3 DEF OwnInv, Unmixed
    <3>2. RepoOf[q] = RepoOf[r] =>
             pc[q] \notin Running /\ FileOf(r) /\ file'[RepoOf[r]] \notin Unreadable
      BY <2>0, <2>1, <2>3 DEF Files
    <3>. QED
      BY <1>1, <2>2, <3>1, <3>2, OthersKept
  <2>4. Unnamed'
    BY <2>2 DEF OwnInv, Unnamed, Frame
  <2>. QED
    BY <2>0, <2>1, <2>3, <2>4 DEF OwnInv, Unmixed
<1>. QED
  BY <1>1, <1>2, CrashOwn, StutterOwn DEF Next, Done

\* Types and the shape of every conversation, in memory and on disk, are
\* inductive however many runs write one checkpoint.
THEOREM Inductive == Spec => []IInv
<1>. QED
  BY InitIInv, NextIInv, PTL DEF Spec

\* What holds besides of the runs whose names are unmixed is inductive too.
THEOREM OwnInductive == Spec => [](IInv /\ OwnInv)
<1>1. IInv /\ OwnInv /\ [Next]_vars => IInv' /\ OwnInv'
  BY NextIInv, NextOwn
<1>. QED
  BY <1>1, InitIInv, InitOwn, PTL DEF Spec

\* Every variable has its type, and a crash does not refill the step budget.
THEOREM TypeCorrect == Spec => []TypeOK
<1>1. IInv /\ OwnInv => TypeOK
  BY DEF IInv, OwnInv, Spent, TypeOK, Budget, Unmixed
<1>. QED
  BY <1>1, OwnInductive, PTL

\* Every request begins with the task of the run that sends it.
THEOREM TaskSeen == Spec => []SeesOwnTask
<1>1. IInv /\ OwnInv => SeesOwnTask
  <2>. SUFFICES ASSUME IInv, OwnInv, NEW r \in Unmixed, pc[r] = "asked"
                PROVE  msgs[r] # <<>> /\ Head(msgs[r]) = Say("task", r, 0)
    BY DEF SeesOwnTask
  <2>1. msgs[r] \in Seq(Message) /\ msgs[r] # <<>> /\ Conversation(msgs[r])
        /\ msgs[r][1].of = r
    BY DEF IInv, Types, TalkInv, Running, OwnInv, Files, Unmixed
  <2>2. msgs[r][1] \in Message /\ Head(msgs[r]) = msgs[r][1]
    BY <2>1
  <2>3. msgs[r][1].kind = "task" /\ msgs[r][1].calls = 0
    BY <2>1 DEF Conversation
  <2>. QED
    BY <2>1, <2>2, <2>3 DEF Message, Say
<1>. QED
  BY <1>1, OwnInductive, PTL

\* A crash, a failed save or a deletion leaves a file that can be read, and an
\* answer leaves none unless its deletion failed.
THEOREM FilesUsable == Spec => []CheckpointFiles
<1>1. IInv /\ OwnInv => CheckpointFiles
  <2>. SUFFICES ASSUME IInv, OwnInv PROVE CheckpointFiles
    OBVIOUS
  <2>1. AnsweredLeavesNoFile
    <3>. SUFFICES ASSUME NEW r \in Unmixed, out[r].kind = "answer", About(file[RepoOf[r]], r)
                  PROVE  r \in kept
      BY DEF AnsweredLeavesNoFile
    <3>1. file[RepoOf[r]].msgs \in Seq(Message) /\ file[RepoOf[r]].msgs # <<>>
      BY Numbers DEF IInv, DiskInv, Conversation, Checkpoint, About, Readable, Unmixed
    <3>2. Mine(r)
      BY <3>1, SubjectIsRun DEF About, Mine, Readable
    <3>. QED
      BY <3>2 DEF OwnInv, Files
  <2>2. CheckpointReadable
    BY FileAssumption DEF OwnInv, Unnamed, Files, CheckpointReadable, Unmixed
  <2>. QED
    BY <2>1, <2>2 DEF CheckpointFiles
<1>. QED
  BY <1>1, OwnInductive, PTL

\* Window, resumption, hard stop and results keep calls and results paired.
THEOREM Pairing == Spec => []RequestsPaired
<1>1. IInv /\ OwnInv => RequestsPaired
  <2>. SUFFICES ASSUME IInv, OwnInv, NEW r \in Unmixed, pc[r] = "asked"
                PROVE  /\ \/ r \in resumed
                          \/ \A i \in Assistants(msgs[r]) : Answered(msgs[r], i)
                       /\ r \in slid \/ AllCalled(msgs[r])
    BY DEF RequestsPaired, AllCalled
  <2>1. Paired(r) /\ Len(msgs[r]) \in Nat
    BY DEF OwnInv, IInv, Types, Unmixed
  <2>2. \A i \in Assistants(msgs[r]) : i < Len(msgs[r]) + 1
    BY DEF Assistants
  <2>. QED
    BY <2>1, <2>2 DEF Paired, AnsweredBefore
<1>. QED
  BY <1>1, OwnInductive, PTL

===============================================================================
