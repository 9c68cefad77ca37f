------------------------ MODULE AnalysisServer_proofs ------------------------
(***************************************************************************)
(* Proofs about AnalysisServer, for every set of tasks and keys and every  *)
(* bound: IInv is inductive, so its parts are invariants, and every step   *)
(* is a step of TaskLifecycle.                                             *)
(***************************************************************************)
EXTENDS AnalysisServer, FiniteSetTheorems, TLAPS

\* There are finitely many goroutines, so those holding a slot can be counted.
LEMMA ActorsFinite ==
    ASSUME NEW S \in SUBSET Actor
    PROVE  IsFiniteSet(S) /\ Cardinality(S) \in Nat
<1>1. IsFiniteSet(Actor)
  BY ServerAssumption, FS_AddElement DEF Actor
<1>. QED
  BY <1>1, FS_Subset, FS_CardinalityType

\* Init establishes the inductive invariant.
LEMMA InitIInv == Init => IInv
<1>. SUFFICES ASSUME Init PROVE IInv
  OBVIOUS
<1>1. TypeOK
  BY ServerAssumption DEF Init, TypeOK, Status, PC, Terminal, Actor
<1>2. SlotAccounting
  <2>1. Holders = {}
    BY DEF Init, Holders, Holding
  <2>. QED
    BY <2>1, FS_EmptySet, ServerAssumption DEF Init, SlotAccounting
<1>3. SenderInv
  BY DEF Init, SenderInv
<1>4. PointsInv /\ RowInv /\ RunningIsOwned
  BY ServerAssumption
     DEF Init, PointsInv, RowInv, RunningIsOwned, Queued, Inside, Concluded, Actor
<1>5. ResultInv /\ CompletedHasResult /\ AnswersOwnRequest
  BY DEF Init, ResultInv, CompletedHasResult, AnswersOwnRequest, Actor
<1>6. TreeInv
  BY DEF Init, TreeInv
<1>. QED
  BY <1>1, <1>2, <1>3, <1>4, <1>5, <1>6 DEF IInv

-----------------------------------------------------------------------------
(* The semaphore.                                                          *)

\* A step that moves nobody into or out of the holders or the waiting
\* goroutines, and leaves the channel alone, keeps both slot invariants.
LEMMA SlotsKept ==
    ASSUME SlotAccounting, SenderInv, UNCHANGED slots,
           \A a \in Actor : (pc'[a] \in Holding) <=> (pc[a] \in Holding),
           \A a \in Actor : pc'[a] = "waiting" <=> pc[a] = "waiting"
    PROVE  SlotAccounting' /\ SenderInv'
<1>1. Holders' = Holders
  BY DEF Holders
<1>2. {a \in Actor : pc'[a] = "waiting"} = {a \in Actor : pc[a] = "waiting"}
  OBVIOUS
<1>3. sem' = sem /\ waitq' = waitq
  BY DEF slots
<1>. QED
  BY <1>1, <1>2, <1>3 DEF SlotAccounting, SenderInv

\* Taking a slot, or joining the queue when there is none.
LEMMA AcquireSlots ==
    ASSUME TypeOK, SlotAccounting, SenderInv, NEW a \in Actor, Acquire(a)
    PROVE  SlotAccounting' /\ SenderInv'
<1>0. /\ pc \in [Actor -> PC] /\ pc[a] = "start" /\ sem \in Nat
      /\ MaxConcurrent \in Nat /\ waitq \in Seq(Actor)
      /\ Holders \in SUBSET Actor
  BY ServerAssumption DEF TypeOK, Acquire, Holders
<1>1. CASE sem < MaxConcurrent /\ sem' = sem + 1 /\ Goto(a, Admitted(a)) /\ UNCHANGED waitq
  <2>1. waitq = <<>>
    BY <1>0, <1>1 DEF SenderInv
  <2>2. Admitted(a) \in {"setup", "indexing"}
    BY DEF Admitted
  <2>3. Holders' = Holders \cup {a} /\ a \notin Holders
    BY <1>0, <1>1, <2>2 DEF Goto, Holders, Holding
  <2>4. Cardinality(Holders') = Cardinality(Holders) + 1
    BY <1>0, <2>3, ActorsFinite, FS_AddElement
  <2>5. \A b \in Actor : pc'[b] = "waiting" <=> pc[b] = "waiting"
    BY <1>0, <1>1, <2>2 DEF Goto
  <2>6. SlotAccounting'
    BY <1>0, <1>1, <2>4 DEF SlotAccounting
  <2>7. SenderInv'
    BY <1>1, <2>1, <2>5 DEF SenderInv
  <2>. QED
    BY <2>6, <2>7
<1>2. CASE sem = MaxConcurrent /\ waitq' = Append(waitq, a) /\ Goto(a, "waiting") /\ UNCHANGED sem
  <2>1. Holders' = Holders
    BY <1>0, <1>2 DEF Goto, Holders, Holding
  <2>2. \A i \in 1..Len(waitq) : waitq[i] \in Actor /\ waitq[i] # a
    BY <1>0 DEF SenderInv
  <2>3. /\ Len(waitq') = Len(waitq) + 1
        /\ \A i \in 1..Len(waitq) : waitq'[i] = waitq[i]
        /\ waitq'[Len(waitq) + 1] = a
    BY <1>0, <1>2
  <2>4. {waitq'[i] : i \in 1..Len(waitq')} = {waitq[i] : i \in 1..Len(waitq)} \cup {a}
    BY <1>0, <2>3
  <2>5. {b \in Actor : pc'[b] = "waiting"} = {b \in Actor : pc[b] = "waiting"} \cup {a}
    BY <1>0, <1>2 DEF Goto
  <2>6. \A i, j \in 1..Len(waitq') : waitq'[i] = waitq'[j] => i = j
    BY <1>0, <2>2, <2>3 DEF SenderInv
  <2>. QED
    BY <1>2, <2>1, <2>4, <2>5, <2>6 DEF SlotAccounting, SenderInv
<1>. QED
  BY <1>1, <1>2 DEF Acquire

\* Giving a slot back, to the oldest waiting goroutine if there is one.
LEMMA GiveBackSlots ==
    ASSUME TypeOK, SlotAccounting, SenderInv, NEW a \in Holders, GiveBack(a)
    PROVE  SlotAccounting' /\ SenderInv' /\ sem' \in 0..MaxConcurrent
<1>0. /\ pc \in [Actor -> PC] /\ pc[a] \in Holding /\ a \in Actor /\ sem \in Nat
      /\ MaxConcurrent \in Nat /\ waitq \in Seq(Actor)
      /\ Holders \in SUBSET Actor
  BY ServerAssumption DEF TypeOK, Holders
<1>1. CASE waitq = <<>> /\ sem' = sem - 1 /\ Goto(a, "idle") /\ UNCHANGED waitq
  <2>1. Holders' = Holders \ {a}
    BY <1>0, <1>1 DEF Goto, Holders, Holding
  <2>2. Cardinality(Holders') = Cardinality(Holders) - 1 /\ Cardinality(Holders') \in Nat
    BY <1>0, <2>1, ActorsFinite, FS_RemoveElement
  <2>3. \A b \in Actor : pc'[b] = "waiting" <=> pc[b] = "waiting"
    BY <1>0, <1>1 DEF Goto, Holding
  <2>4. SenderInv'
    BY <1>1, <2>3 DEF SenderInv
  <2>. QED
    BY <1>0, <1>1, <2>2, <2>4 DEF SlotAccounting
<1>2. CASE waitq # <<>>
  <2>. DEFINE h == Head(waitq)
  <2>1. /\ waitq' = Tail(waitq)
        /\ pc' = [pc EXCEPT ![a] = "idle", ![h] = Admitted(h)]
        /\ sem' = sem
    BY <1>2 DEF GiveBack
  <2>2. h = waitq[1] /\ h \in Actor /\ Len(waitq) >= 1
    BY <1>0, <1>2
  <2>3. pc[h] = "waiting" /\ h # a /\ h \notin Holders
    BY <1>0, <2>2 DEF SenderInv, Holders, Holding
  <2>4. Admitted(h) \in {"setup", "indexing"}
    BY DEF Admitted
  <2>5. /\ pc'[a] = "idle" /\ pc'[h] = Admitted(h)
        /\ \A b \in Actor \ {a, h} : pc'[b] = pc[b]
    BY <1>0, <2>1, <2>2, <2>3
  <2>6. Holders' = (Holders \ {a}) \cup {h}
    BY <1>0, <2>2, <2>4, <2>5 DEF Holders, Holding
  <2>7. Cardinality(Holders') = Cardinality(Holders)
    <3>1. Holders \ {a} \in SUBSET Actor /\ h \notin Holders \ {a}
      BY <1>0, <2>3
    <3>2. Cardinality(Holders \ {a}) = Cardinality(Holders) - 1
      BY <1>0, ActorsFinite, FS_RemoveElement
    <3>3. Cardinality((Holders \ {a}) \cup {h}) = Cardinality(Holders \ {a}) + 1
      BY <3>1, ActorsFinite, FS_AddElement
    <3>4. Cardinality(Holders) \in Nat
      BY <1>0, ActorsFinite
    <3>. QED
      BY <2>6, <3>2, <3>3, <3>4
  <2>8. /\ Len(waitq') = Len(waitq) - 1
        /\ \A i \in 1..Len(waitq') : waitq'[i] = waitq[i + 1]
    BY <1>0, <1>2, <2>1
  <2>9. {waitq'[i] : i \in 1..Len(waitq')} = {waitq[i] : i \in 1..Len(waitq)} \ {h}
    <3>1. \A i \in 1..Len(waitq') : i + 1 \in 1..Len(waitq) /\ waitq[i + 1] # h
      BY <1>0, <2>2, <2>8 DEF SenderInv
    <3>2. ASSUME NEW i \in 1..Len(waitq), waitq[i] # h
          PROVE  i - 1 \in 1..Len(waitq') /\ waitq'[i - 1] = waitq[i]
      BY <1>0, <2>2, <2>8, <3>2
    <3>3. \A i \in 1..Len(waitq') : \E j \in 1..Len(waitq) : waitq[j] = waitq'[i] /\ waitq[j] # h
      BY <2>8, <3>1
    <3>4. \A i \in 1..Len(waitq) : waitq[i] # h => \E j \in 1..Len(waitq') : waitq'[j] = waitq[i]
      BY <3>2
    <3>5. ASSUME NEW x \in {waitq'[i] : i \in 1..Len(waitq')}
          PROVE  x \in {waitq[i] : i \in 1..Len(waitq)} \ {h}
      <4>1. PICK i \in 1..Len(waitq') : x = waitq'[i]
        OBVIOUS
      <4>2. PICK j \in 1..Len(waitq) : waitq[j] = x /\ waitq[j] # h
        BY <3>3, <4>1
      <4>. QED
        BY <4>2
    <3>6. ASSUME NEW x \in {waitq[i] : i \in 1..Len(waitq)} \ {h}
          PROVE  x \in {waitq'[i] : i \in 1..Len(waitq')}
      <4>1. PICK i \in 1..Len(waitq) : x = waitq[i] /\ x # h
        OBVIOUS
      <4>2. PICK j \in 1..Len(waitq') : waitq'[j] = x
        BY <3>4, <4>1
      <4>. QED
        BY <4>2
    <3>. QED
      BY <3>5, <3>6
  <2>10. {b \in Actor : pc'[b] = "waiting"} = {b \in Actor : pc[b] = "waiting"} \ {h}
    BY <1>0, <2>2, <2>4, <2>5 DEF Holding
  <2>11. \A i, j \in 1..Len(waitq') : waitq'[i] = waitq'[j] => i = j
    BY <1>0, <2>8 DEF SenderInv
  <2>12. sem = MaxConcurrent
    BY <1>2 DEF SenderInv
  <2>13. SenderInv'
    BY <2>1, <2>9, <2>10, <2>11, <2>12 DEF SenderInv
  <2>14. SlotAccounting' /\ sem' \in 0..MaxConcurrent
    BY <1>0, <2>1, <2>7 DEF SlotAccounting
  <2>. QED
    BY <2>13, <2>14
<1>. QED
  BY <1>1, <1>2 DEF GiveBack
-----------------------------------------------------------------------------
(* Types.                                                                  *)

\* Facts about the constants and the current state most steps rely on.
LEMMA StateFacts ==
    ASSUME IInv
    PROVE  /\ TypeOK /\ PointsInv /\ RowInv
           /\ Nightly \notin Task /\ None \notin Key /\ None \notin Result
           /\ \A a \in Holders : sem > 0
<1>1. ASSUME NEW a \in Holders PROVE sem > 0
  <2>1. Holders \in SUBSET Actor
    BY DEF Holders
  <2>2. Cardinality(Holders) # 0
    BY <2>1, <1>1, ActorsFinite, FS_EmptySet
  <2>. QED
    BY <2>1, <2>2, ActorsFinite DEF IInv, SlotAccounting
<1>. QED
  BY <1>1, ServerAssumption, NoneAssumption DEF IInv

\* The assignments the actions share keep the types of what they assign.
LEMMA GotoType ==
    ASSUME TypeOK, NEW a \in Actor, NEW label \in PC, Goto(a, label)
    PROVE  pc' \in [Actor -> PC]
BY DEF TypeOK, Goto

\* A dropped write moves only the fault count and the set of lost tasks.
LEMMA WriteFailsType ==
    ASSUME TypeOK, NEW t \in Task, WriteFails(t)
    PROVE  lost' \in SUBSET Task /\ faults' \in 0..MaxFaults
BY ServerAssumption DEF TypeOK, WriteFails

\* A status write, happening or lost, keeps the types.
LEMMA SetStatusType ==
    ASSUME TypeOK, NEW t \in Task, NEW s \in Status, SetStatus(t, s)
    PROVE  /\ status' \in [Task -> Status]
           /\ lost' \in SUBSET Task /\ faults' \in 0..MaxFaults
BY WriteFailsType DEF TypeOK, SetStatus, WriteHappens

\* A result write, happening or lost, keeps the types.
LEMMA SaveResultType ==
    ASSUME TypeOK, NEW t \in Task, NEW r \in Result, SaveResult(t, r)
    PROVE  /\ result' \in [Task -> Result \cup {None}]
           /\ lost' \in SUBSET Task /\ faults' \in 0..MaxFaults
BY WriteFailsType DEF TypeOK, SaveResult, WriteHappens

\* What an analysis computes is a result.
LEMMA OutputType ==
    ASSUME TypeOK, NEW t \in Task
    PROVE  Output(t) \in Result /\ Output(t).by = t
BY DEF TypeOK, Output, Result

\* Every label and status named by an action is one.
LEMMA Labels ==
    /\ Queued \cup Inside \cup Concluded \cup {"indexing"} = PC
    /\ Holding \subseteq PC
    /\ {"pending", "running", "completed", "failed", "none"} = Status
    /\ \A t \in Task : t \in Actor
    /\ Nightly \in Actor
BY DEF Queued, Inside, Concluded, PC, Holding, Status, Terminal, Actor

\* Taking and giving back a slot, tasks and nightly index alike.
LEMMA AcquireType ==
    ASSUME TypeOK, NEW a \in Actor, Acquire(a)
    PROVE  TypeOK'
<1>. USE DEF db, goroutine
<1>1. Admitted(a) \in PC /\ "waiting" \in PC
  BY DEF Admitted, PC, Holding
<1>2. pc' \in [Actor -> PC]
  BY <1>1, GotoType DEF Acquire
<1>3. sem' \in 0..MaxConcurrent
  BY ServerAssumption DEF Acquire, TypeOK
<1>4. waitq' \in Seq(Actor)
  <2>1. waitq \in Seq(Actor)
    BY DEF TypeOK
  <2>2. waitq' = waitq \/ waitq' = Append(waitq, a)
    BY DEF Acquire
  <2>. QED
    BY <2>1, <2>2
<1>. QED
  BY <1>2, <1>3, <1>4 DEF Acquire, TypeOK

\* Giving a slot back keeps the types of the semaphore, its queue and the goroutines.
LEMMA GiveBackType ==
    ASSUME IInv, NEW a \in Holders, GiveBack(a)
    PROVE  sem' \in 0..MaxConcurrent /\ waitq' \in Seq(Actor) /\ pc' \in [Actor -> PC]
<1>0. /\ TypeOK /\ a \in Actor /\ "idle" \in PC
      /\ \A b \in Actor : Admitted(b) \in PC
  BY StateFacts DEF Holders, Admitted, PC, Holding
<1>1. sem' \in 0..MaxConcurrent
  BY GiveBackSlots DEF IInv
<1>2. CASE waitq = <<>> /\ Goto(a, "idle") /\ UNCHANGED waitq
  BY <1>0, <1>1, <1>2, GotoType DEF TypeOK
<1>3. CASE /\ waitq # <<>> /\ waitq' = Tail(waitq)
           /\ pc' = [pc EXCEPT ![a] = "idle", ![Head(waitq)] = Admitted(Head(waitq))]
  <2>1. waitq' \in Seq(Actor) /\ Head(waitq) \in Actor
    BY <1>0, <1>3 DEF TypeOK
  <2>2. pc' \in [Actor -> PC]
    BY <1>0, <1>3, <2>1 DEF TypeOK
  <2>. QED
    BY <1>1, <2>1, <2>2
<1>. QED
  BY <1>2, <1>3 DEF GiveBack

\* Every step of a task's goroutine keeps the types.
LEMMA StepType ==
    ASSUME IInv, NEW t \in Task, Step(t)
    PROVE  TypeOK'
<1>. USE DEF db, goroutine, slots
<1>0. TypeOK /\ RowInv /\ t \in Actor /\ None \notin Result
  BY StateFacts, Labels
<1>1. \A l \in {"idle", "waiting", "setup", "lookup", "hit", "hitSaved", "missed",
                "analysing", "analysed", "saved", "persisted", "cleanup", "release"} :
          Goto(t, l) => pc' \in [Actor -> PC]
  <2>. SUFFICES ASSUME NEW l \in PC, Goto(t, l) PROVE pc' \in [Actor -> PC]
    BY DEF PC, Holding
  <2>. QED
    BY <1>0, GotoType
<1>2. \A s \in Status : SetStatus(t, s) => /\ status' \in [Task -> Status]
                                           /\ lost' \in SUBSET Task
                                           /\ faults' \in 0..MaxFaults
  BY <1>0, SetStatusType
<1>3. \A r \in Result : SaveResult(t, r) => /\ result' \in [Task -> Result \cup {None}]
                                            /\ lost' \in SUBSET Task
                                            /\ faults' \in 0..MaxFaults
  BY <1>0, SaveResultType
<1>4. CASE RecordFailure(t) \/ CompleteCached(t) \/ MarkRunning(t)
           \/ AnalysisFails(t) \/ CompleteFresh(t)
  <2>1. pc' \in [Actor -> PC]
    BY <1>1, <1>4 DEF RecordFailure, CompleteCached, MarkRunning, AnalysisFails, CompleteFresh
  <2>2. status' \in [Task -> Status] /\ lost' \in SUBSET Task /\ faults' \in 0..MaxFaults
    BY <1>2, <1>4, Labels DEF RecordFailure, CompleteCached, MarkRunning, AnalysisFails, CompleteFresh
  <2>3. UNCHANGED <<up, key, result, cache, worktree, goroutine, slots, crashes>>
    BY <1>4 DEF RecordFailure, CompleteCached, MarkRunning, AnalysisFails, CompleteFresh
  <2>. QED
    BY <1>0, <2>1, <2>2, <2>3 DEF TypeOK
<1>5. CASE Setup(t)
  <2>1. pc' \in [Actor -> PC]
    BY <1>1, <1>5 DEF Setup
  <2>2. worktree' \in SUBSET Task
    BY <1>0, <1>5 DEF Setup, TypeOK
  <2>. QED
    BY <1>0, <1>5, <2>1, <2>2 DEF Setup, TypeOK
<1>6. CASE CacheHit(t)
  <2>1. pc' \in [Actor -> PC]
    BY <1>1, <1>6 DEF CacheHit
  <2>2. loaded' \in [Task -> Result \cup {None}]
    <3>1. key[t] \in Key
      BY <1>0, <1>6 DEF CacheHit, RowInv, Queued
    <3>. QED
      BY <1>0, <1>6, <3>1 DEF CacheHit, TypeOK
  <2>. QED
    BY <1>0, <1>6, <2>1, <2>2 DEF CacheHit, TypeOK
<1>7. CASE CacheMiss(t)
  <2>1. pc' \in [Actor -> PC]
    BY <1>1, <1>7 DEF CacheMiss
  <2>. QED
    BY <1>0, <1>7, <2>1 DEF CacheMiss, TypeOK
<1>8. CASE SaveCached(t) \/ SaveFresh(t)
  <2>1. pc' \in [Actor -> PC]
    BY <1>1, <1>8 DEF SaveCached, SaveFresh
  <2>2. CASE SaveCached(t)
    <3>1. loaded[t] \in Result
      BY <1>0, <2>2 DEF SaveCached, RowInv, TypeOK
    <3>. QED
      BY <1>0, <1>3, <2>1, <2>2, <3>1 DEF SaveCached, TypeOK
  <2>3. CASE SaveFresh(t)
    BY <1>0, <1>3, <2>1, <2>3, OutputType DEF SaveFresh, TypeOK
  <2>. QED
    BY <1>8, <2>2, <2>3
<1>9. CASE AnalysisSucceeds(t)
  <2>1. pc' \in [Actor -> PC]
    BY <1>1, <1>9 DEF AnalysisSucceeds
  <2>. QED
    BY <1>0, <1>9, <2>1 DEF AnalysisSucceeds, TypeOK
<1>10. CASE CacheStore(t)
  <2>1. pc' \in [Actor -> PC]
    BY <1>1, <1>10 DEF CacheStore
  <2>2. cache' \in [Key -> Result \cup {None}]
    BY <1>0, <1>10, OutputType DEF CacheStore, TypeOK
  <2>. QED
    BY <1>0, <1>10, <2>1, <2>2 DEF CacheStore, TypeOK
<1>11. CASE Cleanup(t)
  <2>1. pc' \in [Actor -> PC]
    BY <1>1, <1>11 DEF Cleanup
  <2>2. worktree' \in SUBSET Task /\ branched' \in [Task -> BOOLEAN]
    BY <1>0, <1>11 DEF Cleanup, TypeOK
  <2>3. loaded' \in [Task -> Result \cup {None}]
    BY <1>0, <1>11 DEF Cleanup, TypeOK
  <2>. QED
    BY <1>0, <1>11, <2>1, <2>2, <2>3 DEF Cleanup, TypeOK
<1>12. CASE Acquire(t)
  BY <1>0, <1>12, AcquireType
<1>13. CASE Release(t)
  <2>1. t \in Holders
    BY <1>0, <1>13 DEF Release, Holders, Holding
  <2>2. GiveBack(t)
    BY <1>13 DEF Release
  <2>3. sem' \in 0..MaxConcurrent /\ waitq' \in Seq(Actor) /\ pc' \in [Actor -> PC]
    BY <2>1, <2>2, GiveBackType
  <2>. QED
    BY <1>0, <1>13, <2>3 DEF Release, TypeOK
<1>. QED
  BY <1>4, <1>5, <1>6, <1>7, <1>8, <1>9, <1>10, <1>11, <1>12, <1>13 DEF Step

\* Every step, of any actor, keeps the types.
LEMMA NextType ==
    ASSUME IInv, Next
    PROVE  TypeOK'
<1>. USE DEF db, goroutine, slots
<1>0. TypeOK /\ RowInv /\ None \notin Result /\ Nightly \in Actor
  BY StateFacts, Labels
<1>1. ASSUME NEW t \in Task, Submit(t) PROVE TypeOK'
  <2>1. PICK k \in Key : \/ \E b \in BOOLEAN : SubmitTask(t, k, b)
                         \/ WebhookSubmit(t, k)
                         \/ RejectSubmit(t, k)
    BY <1>1 DEF Submit
  <2>2. /\ status' \in [Task -> Status] /\ key' \in [Task -> Key \cup {None}]
    BY <1>0, <2>1 DEF SubmitTask, WebhookSubmit, RejectSubmit, CreateRow, TypeOK, Status
  <2>3. pc' \in [Actor -> PC]
    <3>1. t \in Actor /\ "start" \in PC /\ "rejecting" \in PC
      BY DEF Actor, PC
    <3>2. Goto(t, "start") \/ Goto(t, "rejecting")
      BY <2>1 DEF SubmitTask, WebhookSubmit, RejectSubmit
    <3>. QED
      BY <1>0, <3>1, <3>2, GotoType
  <2>4. branched' \in [Task -> BOOLEAN]
    BY <1>0, <2>1 DEF SubmitTask, WebhookSubmit, RejectSubmit, TypeOK
  <2>. QED
    BY <1>0, <2>1, <2>2, <2>3, <2>4 DEF SubmitTask, WebhookSubmit, RejectSubmit, TypeOK
<1>2. ASSUME NEW t \in Task, Step(t) PROVE TypeOK'
  BY <1>2, StepType
<1>3. ASSUME NEW K \in SUBSET Key, Del(K) PROVE TypeOK'
  <2>1. cache' \in [Key -> Result \cup {None}]
    BY <1>0, <1>3 DEF Del, TypeOK
  <2>. QED
    BY <1>0, <1>3, <2>1 DEF Del, TypeOK
<1>4. ASSUME NEW t \in Task, DeleteTaskCache(t) PROVE TypeOK'
  <2>1. {key[t]} \in SUBSET Key
    BY <1>0, <1>4 DEF DeleteTaskCache, RowInv
  <2>. QED
    BY <1>3, <1>4, <2>1 DEF DeleteTaskCache
<1>11. ASSUME NEW t \in Task, CollectWorktree(t) PROVE TypeOK'
  BY <1>0, <1>11 DEF CollectWorktree, TypeOK
<1>5. CASE NightlyFires
  <2>1. pc' \in [Actor -> PC]
    BY <1>0, <1>5, GotoType, Labels DEF NightlyFires, PC
  <2>. QED
    BY <1>0, <1>5, <2>1 DEF NightlyFires, TypeOK
<1>6. CASE NightlyStep
  <2>1. CASE Acquire(Nightly)
    BY <1>0, <2>1, AcquireType
  <2>2. CASE NightlyDone
    <3>1. Nightly \in Holders /\ GiveBack(Nightly)
      BY <1>0, <2>2 DEF NightlyDone, Holders, Holding
    <3>2. sem' \in 0..MaxConcurrent /\ waitq' \in Seq(Actor) /\ pc' \in [Actor -> PC]
      BY <3>1, GiveBackType
    <3>. QED
      BY <1>0, <2>2, <3>2 DEF NightlyDone, TypeOK
  <2>. QED
    BY <1>6, <2>1, <2>2 DEF NightlyStep
<1>7. CASE DeleteCacheBatch
  BY <1>3, <1>7 DEF DeleteCacheBatch
<1>8. ASSUME NEW k \in Key, CacheExpire(k) PROVE TypeOK'
  <2>1. cache' \in [Key -> Result \cup {None}]
    BY <1>0, <1>8 DEF CacheExpire, TypeOK
  <2>. QED
    BY <1>0, <1>8, <2>1 DEF CacheExpire, TypeOK
<1>9. CASE Crash
  <2>1. crashes' \in 0..MaxCrashes
    BY <1>0, <1>9, ServerAssumption DEF Crash, TypeOK
  <2>2. pc' \in [Actor -> PC]
    BY <1>9 DEF Crash, PC
  <2>3. /\ up' \in BOOLEAN
        /\ branched' \in [Task -> BOOLEAN]
        /\ loaded' \in [Task -> Result \cup {None}]
    <3>1. None \in Result \cup {None} /\ TRUE \in BOOLEAN /\ FALSE \in BOOLEAN
      OBVIOUS
    <3>. QED
      BY <1>9, <3>1 DEF Crash
  <2>4. sem' \in 0..MaxConcurrent /\ waitq' \in Seq(Actor)
    BY <1>9, ServerAssumption DEF Crash
  <2>. QED
    BY <1>0, <1>9, <2>1, <2>2, <2>3, <2>4 DEF Crash, TypeOK
<1>10. CASE Restart
  <2>1. status' \in [Task -> Status]
    BY <1>0, <1>10 DEF Restart, Requeue, TypeOK, Status
  <2>2. pc' \in [Actor -> PC]
    <3>1. CASE Relaunch(Orphans)
      BY <1>0, <3>1 DEF Relaunch, TypeOK, PC
    <3>2. CASE UNCHANGED pc
      BY <1>0, <3>2 DEF TypeOK
    <3>. QED
      BY <1>10, <3>1, <3>2 DEF Restart
  <2>3. lost' \in SUBSET Task /\ faults' \in 0..MaxFaults
    BY <1>0, <1>10, ServerAssumption DEF Restart, Orphans, WriteHappens, TypeOK
  <2>4. worktree' \in SUBSET Task /\ up' \in BOOLEAN
    BY <1>10 DEF Restart, CleanupWorktrees
  <2>. QED
    BY <1>0, <1>10, <2>1, <2>2, <2>3, <2>4 DEF Restart, TypeOK
<1>. QED
  BY <1>1, <1>2, <1>4, <1>5, <1>6, <1>7, <1>8, <1>9, <1>10, <1>11 DEF Next

\* The semaphore's invariants survive every step: only Acquire, GiveBack and a
\* crash move a goroutine into or out of the holders or the queue.
LEMMA NextSlots ==
    ASSUME IInv, Next
    PROVE  SlotAccounting' /\ SenderInv'
<1>0. TypeOK /\ SlotAccounting /\ SenderInv /\ PointsInv /\ Nightly \in Actor
      /\ pc \in [Actor -> PC]
  BY Labels DEF IInv, TypeOK
<1>1. ASSUME NEW a \in Actor, NEW l \in PC, Goto(a, l), UNCHANGED slots,
             pc[a] # "waiting", l # "waiting",
             pc[a] \in Holding <=> l \in Holding
      PROVE  SlotAccounting' /\ SenderInv'
  <2>1. \A b \in Actor : pc'[b] = IF b = a THEN l ELSE pc[b]
    BY <1>0, <1>1 DEF Goto
  <2>2. /\ \A b \in Actor : (pc'[b] \in Holding) <=> (pc[b] \in Holding)
        /\ \A b \in Actor : pc'[b] = "waiting" <=> pc[b] = "waiting"
    BY <1>1, <2>1
  <2>. QED
    BY <1>0, <1>1, <2>2, SlotsKept
<1>2. ASSUME UNCHANGED <<slots, pc>> PROVE SlotAccounting' /\ SenderInv'
  BY <1>0, <1>2, SlotsKept
<1>3. ASSUME NEW t \in Task, Submit(t) PROVE SlotAccounting' /\ SenderInv'
  <2>1. status[t] = "none" /\ UNCHANGED slots /\ (Goto(t, "start") \/ Goto(t, "rejecting"))
    BY <1>3 DEF Submit, SubmitTask, WebhookSubmit, RejectSubmit, CreateRow, slots
  <2>2. pc[t] = "idle"
    BY <2>1, StateFacts DEF RowInv
  <2>3. /\ t \in Actor /\ "idle" \notin Holding
        /\ "start" \in PC \ Holding /\ "rejecting" \in PC \ Holding
    BY DEF Actor, PC, Holding
  <2>. QED
    BY <1>1, <2>1, <2>2, <2>3
<1>4. ASSUME NEW t \in Task, Step(t) PROVE SlotAccounting' /\ SenderInv'
  <2>0. t \in Actor
    BY DEF Actor
  <2>1. CASE Acquire(t)
    BY <1>0, <2>0, <2>1, AcquireSlots
  <2>2. CASE Release(t)
    <3>1. t \in Holders /\ GiveBack(t)
      BY <2>0, <2>2 DEF Release, Holders, Holding
    <3>. QED
      BY <1>0, <3>1, GiveBackSlots
  <2>3. CASE RecordFailure(t)
    <3>1. /\ pc[t] = "rejecting" /\ Goto(t, "idle") /\ UNCHANGED slots
          /\ "idle" \in PC \ Holding /\ "rejecting" \notin Holding
      BY <2>3 DEF RecordFailure, PC, Holding, slots
    <3>. QED
      BY <1>1, <2>0, <3>1
  <2>4. ASSUME ~Acquire(t), ~Release(t), ~RecordFailure(t)
        PROVE  /\ pc[t] \in Holding /\ UNCHANGED slots
               /\ \E l \in Holding : Goto(t, l)
    <3>. USE <1>4, <2>4
    <3>1. /\ pc[t] \in {"setup", "lookup", "hit", "hitSaved", "missed", "analysing",
                        "analysed", "saved", "persisted", "cleanup"}
          /\ \E l \in {"lookup", "hit", "hitSaved", "missed", "analysing",
                       "analysed", "saved", "persisted", "cleanup", "release"} : Goto(t, l)
      BY DEF Step, Setup, CacheHit, SaveCached, CompleteCached, CacheMiss, MarkRunning,
             AnalysisFails, AnalysisSucceeds, SaveFresh, CompleteFresh, CacheStore, Cleanup
    <3>2. UNCHANGED slots
      BY DEF Step, Setup, CacheHit, SaveCached, CompleteCached, CacheMiss, MarkRunning,
             AnalysisFails, AnalysisSucceeds, SaveFresh, CompleteFresh, CacheStore, Cleanup
    <3>. QED
      BY <3>1, <3>2 DEF Holding
  <2>5. Holding \subseteq PC /\ "waiting" \notin Holding
    BY DEF Holding, PC
  <2>. QED
    BY <1>1, <2>0, <2>1, <2>2, <2>3, <2>4, <2>5
<1>5. ASSUME NEW t \in Task, DeleteTaskCache(t) PROVE SlotAccounting' /\ SenderInv'
  BY <1>2, <1>5 DEF DeleteTaskCache, Del, slots
<1>12. ASSUME NEW t \in Task, CollectWorktree(t) PROVE SlotAccounting' /\ SenderInv'
  BY <1>2, <1>12 DEF CollectWorktree, slots
<1>6. CASE NightlyFires
  <2>1. "start" \in PC \ Holding /\ "idle" \notin Holding
    BY DEF PC, Holding
  <2>2. pc[Nightly] = "idle" /\ Goto(Nightly, "start") /\ UNCHANGED slots
    BY <1>6 DEF NightlyFires
  <2>. QED
    BY <1>0, <1>1, <2>1, <2>2
<1>7. CASE NightlyStep
  <2>1. CASE Acquire(Nightly)
    BY <1>0, <2>1, AcquireSlots
  <2>2. CASE NightlyDone
    <3>1. Nightly \in Holders /\ GiveBack(Nightly)
      BY <1>0, <2>2 DEF NightlyDone, Holders, Holding
    <3>. QED
      BY <1>0, <3>1, GiveBackSlots
  <2>. QED
    BY <1>7, <2>1, <2>2 DEF NightlyStep
<1>8. CASE DeleteCacheBatch
  BY <1>2, <1>8 DEF DeleteCacheBatch, Del, slots
<1>9. ASSUME NEW k \in Key, CacheExpire(k) PROVE SlotAccounting' /\ SenderInv'
  BY <1>2, <1>9 DEF CacheExpire, slots
<1>10. CASE Crash
  <2>1. Holders' = {} /\ sem' = 0 /\ waitq' = <<>>
        /\ {a \in Actor : pc'[a] = "waiting"} = {}
    BY <1>10 DEF Crash, Holders, Holding
  <2>2. SlotAccounting'
    BY <2>1, FS_EmptySet, ServerAssumption DEF SlotAccounting
  <2>3. {waitq'[i] : i \in 1..Len(waitq')} = {}
    BY <2>1
  <2>. QED
    BY <2>1, <2>2, <2>3 DEF SenderInv
<1>11. CASE Restart
  <2>1. \A a \in Actor : pc[a] = "idle" /\ pc'[a] \in {"idle", "start"}
    BY <1>0, <1>11, StateFacts DEF PointsInv, Restart, Relaunch
  <2>2. /\ \A a \in Actor : (pc'[a] \in Holding) <=> (pc[a] \in Holding)
        /\ \A a \in Actor : pc'[a] = "waiting" <=> pc[a] = "waiting"
    BY <2>1 DEF Holding
  <2>3. UNCHANGED slots
    BY <1>11 DEF Restart
  <2>. QED
    BY <1>0, <2>2, <2>3, SlotsKept
<1>. QED
  BY <1>3, <1>4, <1>5, <1>6, <1>7, <1>8, <1>9, <1>10, <1>11, <1>12 DEF Next
-----------------------------------------------------------------------------
(* What a step can do to the row and the goroutine of one task.            *)

SameRow(u) == status'[u] = status[u] /\ key'[u] = key[u] /\ result'[u] = result[u]

Untouched(u) == SameRow(u) /\ pc'[u] = pc[u] /\ loaded'[u] = loaded[u]

Created(u) ==
    /\ up
    /\ status[u] = "none" /\ status'[u] = "pending"
    /\ key'[u] \in Key
    /\ pc[u] = "idle" /\ pc'[u] \in {"start", "rejecting"}
    /\ result'[u] = result[u] /\ loaded'[u] = loaded[u]

\* The goroutine moves on and leaves the row alone.
Moved(u) ==
    /\ SameRow(u)
    /\ loaded'[u] = IF pc[u] = "cleanup" THEN None ELSE loaded[u]
    /\ <<pc[u], pc'[u]>> \in {<<"start", "waiting">>, <<"start", "setup">>,
                              <<"waiting", "setup">>, <<"setup", "lookup">>,
                              <<"lookup", "missed">>, <<"analysing", "analysed">>,
                              <<"persisted", "cleanup">>, <<"cleanup", "release">>,
                              <<"release", "idle">>}

Hit(u) ==
    /\ SameRow(u)
    /\ pc[u] = "lookup" /\ pc'[u] = "hit"
    /\ cache[key[u]] # None /\ loaded'[u] = cache[key[u]]

\* The result is saved; or, the write lost, it is not.
Saved(u) ==
    /\ status'[u] = status[u] /\ key'[u] = key[u] /\ loaded'[u] = loaded[u]
    /\ <<pc[u], pc'[u]>> \in {<<"hit", "hitSaved">>, <<"analysed", "saved">>}
    /\ \/ result'[u] = result[u] /\ u \in lost'
       \/ /\ result'[u] \in Result
          /\ result'[u].by = IF pc[u] = "hit" THEN loaded[u].by ELSE u

\* The status is written; or, the write lost, it is not.
Marked(u) ==
    /\ key'[u] = key[u] /\ result'[u] = result[u] /\ loaded'[u] = loaded[u]
    /\ \E s \in Status :
          /\ <<pc[u], s, pc'[u]>> \in {<<"rejecting", "failed", "idle">>,
                                       <<"hitSaved", "completed", "cleanup">>,
                                       <<"missed", "running", "analysing">>,
                                       <<"analysing", "failed", "cleanup">>,
                                       <<"saved", "completed", "persisted">>}
          /\ status'[u] = s \/ (status'[u] = status[u] /\ u \in lost')

RowMove(u) ==
    Untouched(u) \/ Created(u) \/ Moved(u) \/ Hit(u) \/ Saved(u) \/ Marked(u)

\* Taking or waiting for a slot moves nobody out of the points before the analysis.
LEMMA AcquireMoves ==
    ASSUME IInv, NEW a \in Actor, Acquire(a), NEW u \in Task
    PROVE  RowMove(u)
<1>0. pc \in [Actor -> PC] /\ u \in Actor /\ pc[a] = "start" /\ Nightly \notin Task
  BY StateFacts, Labels DEF TypeOK, Acquire
<1>1. UNCHANGED <<status, key, result, loaded>>
  BY DEF Acquire, db, goroutine
<1>2. Goto(a, Admitted(a)) \/ Goto(a, "waiting")
  BY DEF Acquire
<1>3. CASE u = a
  BY <1>0, <1>1, <1>2, <1>3 DEF Goto, Admitted, RowMove, Moved, SameRow
<1>4. CASE u # a
  BY <1>0, <1>1, <1>2, <1>4 DEF Goto, RowMove, Untouched, SameRow
<1>. QED
  BY <1>3, <1>4

\* Giving a slot back ends one goroutine and at most admits one sleeper.
LEMMA GiveBackMoves ==
    ASSUME IInv, NEW a \in Holders, GiveBack(a), UNCHANGED <<db, loaded>>,
           a \in Task => pc[a] = "release",
           NEW u \in Task
    PROVE  RowMove(u)
<1>0. /\ pc \in [Actor -> PC] /\ u \in Actor /\ a \in Actor /\ Nightly \notin Task
      /\ waitq \in Seq(Actor) /\ SenderInv /\ pc[a] \in Holding
  BY StateFacts, Labels DEF TypeOK, Holders, IInv
<1>1. UNCHANGED <<status, key, result, loaded>>
  BY DEF db
<1>2. /\ pc'[u] = IF u = a THEN "idle"
                  ELSE IF waitq # <<>> /\ u = Head(waitq) THEN "setup" ELSE pc[u]
      /\ waitq # <<>> /\ u = Head(waitq) => pc[u] = "waiting" /\ u # a
  <2>1. CASE waitq = <<>> /\ Goto(a, "idle")
    BY <1>0, <2>1 DEF Goto
  <2>2. CASE /\ waitq # <<>>
             /\ pc' = [pc EXCEPT ![a] = "idle", ![Head(waitq)] = Admitted(Head(waitq))]
    <3>1. Head(waitq) = waitq[1] /\ Head(waitq) \in Actor /\ 1 \in 1..Len(waitq)
      BY <1>0, <2>2
    <3>2. pc[Head(waitq)] = "waiting" /\ Head(waitq) # a
      BY <1>0, <3>1 DEF SenderInv, Holding
    <3>3. u # Nightly
      BY <1>0
    <3>. QED
      BY <1>0, <2>2, <3>1, <3>2, <3>3 DEF Admitted
  <2>. QED
    BY <2>1, <2>2 DEF GiveBack
<1>. QED
  BY <1>1, <1>2 DEF RowMove, Moved, Untouched, SameRow

\* A step of the goroutine of t moves the row of t along RowMove, and leaves
\* the other rows alone, but for the goroutine it may wake.
LEMMA StepMoves ==
    ASSUME IInv, NEW t \in Task, Step(t), NEW u \in Task
    PROVE  RowMove(u)
<1>. USE DEF db, goroutine, slots
<1>0. TypeOK /\ RowInv /\ None \notin Result /\ t \in Actor /\ u \in Actor
      /\ Nightly \notin Task
  BY StateFacts, Labels
<1>1. /\ status \in [Task -> Status] /\ result \in [Task -> Result \cup {None}]
      /\ pc \in [Actor -> PC] /\ loaded \in [Task -> Result \cup {None}]
  BY <1>0 DEF TypeOK
<1>2. CASE RecordFailure(t) \/ CompleteCached(t) \/ MarkRunning(t)
           \/ AnalysisFails(t) \/ CompleteFresh(t)
  <2>1. PICK s \in {"failed", "completed", "running"}, l \in PC :
          /\ SetStatus(t, s) /\ Goto(t, l)
          /\ <<pc[t], s, l>> \in {<<"rejecting", "failed", "idle">>,
                                  <<"hitSaved", "completed", "cleanup">>,
                                  <<"missed", "running", "analysing">>,
                                  <<"analysing", "failed", "cleanup">>,
                                  <<"saved", "completed", "persisted">>}
    BY <1>2 DEF RecordFailure, CompleteCached, MarkRunning, AnalysisFails,
                CompleteFresh, PC, Holding
  <2>2. UNCHANGED <<key, result, loaded>>
    BY <1>2 DEF RecordFailure, CompleteCached, MarkRunning, AnalysisFails, CompleteFresh
  <2>3. CASE u = t
    <3>1. pc'[u] = l
      BY <1>0, <1>1, <2>1, <2>3 DEF Goto
    <3>2. status'[u] = s \/ (status'[u] = status[u] /\ u \in lost')
      BY <1>1, <2>1, <2>3 DEF SetStatus, WriteFails
    <3>. QED
      BY <2>1, <2>2, <2>3, <3>1, <3>2, Labels DEF RowMove, Marked
  <2>4. CASE u # t
    BY <1>0, <1>1, <2>1, <2>2, <2>4 DEF Goto, SetStatus, RowMove, Untouched, SameRow
  <2>. QED
    BY <2>3, <2>4
<1>3. CASE SaveCached(t) \/ SaveFresh(t)
  <2>1. PICK r \in Result, l \in PC :
          /\ SaveResult(t, r) /\ Goto(t, l)
          /\ <<pc[t], l>> \in {<<"hit", "hitSaved">>, <<"analysed", "saved">>}
          /\ r.by = IF pc[t] = "hit" THEN loaded[t].by ELSE t
    <3>1. CASE SaveCached(t)
      <4>1. loaded[t] \in Result
        BY <1>0, <1>1, <3>1 DEF SaveCached, RowInv
      <4>. QED
        BY <3>1, <4>1 DEF SaveCached, PC, Holding
    <3>2. CASE SaveFresh(t)
      BY <1>0, <3>2, OutputType DEF SaveFresh, PC, Holding
    <3>. QED
      BY <1>3, <3>1, <3>2
  <2>2. UNCHANGED <<status, key, loaded>>
    BY <1>3 DEF SaveCached, SaveFresh
  <2>3. CASE u = t
    <3>1. pc'[u] = l
      BY <1>0, <1>1, <2>1, <2>3 DEF Goto
    <3>2. result'[u] = r \/ (result'[u] = result[u] /\ u \in lost')
      BY <1>1, <2>1, <2>3 DEF SaveResult, WriteFails
    <3>. QED
      BY <2>1, <2>2, <2>3, <3>1, <3>2 DEF RowMove, Saved
  <2>4. CASE u # t
    BY <1>0, <1>1, <2>1, <2>2, <2>4 DEF Goto, SaveResult, RowMove, Untouched, SameRow
  <2>. QED
    BY <2>3, <2>4
<1>4. CASE CacheHit(t)
  <2>1. CASE u = t
    BY <1>0, <1>1, <1>4, <2>1 DEF CacheHit, Goto, RowMove, Hit, SameRow
  <2>2. CASE u # t
    BY <1>0, <1>1, <1>4, <2>2 DEF CacheHit, Goto, RowMove, Untouched, SameRow
  <2>. QED
    BY <2>1, <2>2
<1>5. CASE Setup(t) \/ CacheMiss(t) \/ AnalysisSucceeds(t) \/ CacheStore(t) \/ Cleanup(t)
  <2>1. PICK l \in PC :
          /\ Goto(t, l)
          /\ <<pc[t], l>> \in {<<"setup", "lookup">>, <<"lookup", "missed">>,
                               <<"analysing", "analysed">>, <<"persisted", "cleanup">>,
                               <<"cleanup", "release">>}
    BY <1>5 DEF Setup, CacheMiss, AnalysisSucceeds, CacheStore, Cleanup, PC, Holding
  <2>2. /\ UNCHANGED db
        /\ loaded' = IF pc[t] = "cleanup" THEN [loaded EXCEPT ![t] = None] ELSE loaded
    BY <1>5 DEF Setup, CacheMiss, AnalysisSucceeds, CacheStore, Cleanup
  <2>3. CASE u = t
    BY <1>0, <1>1, <2>1, <2>2, <2>3 DEF Goto, RowMove, Moved, SameRow
  <2>4. CASE u # t
    BY <1>0, <1>1, <2>1, <2>2, <2>4 DEF Goto, RowMove, Untouched, SameRow
  <2>. QED
    BY <2>3, <2>4
<1>6. CASE Acquire(t)
  BY <1>6, AcquireMoves, <1>0
<1>7. CASE Release(t)
  <2>1. GiveBack(t) /\ t \in Holders /\ UNCHANGED <<db, loaded>> /\ pc[t] = "release"
    BY <1>0, <1>7 DEF Release, Holders, Holding
  <2>. QED
    BY <1>0, <2>1, GiveBackMoves
<1>. QED
  BY <1>2, <1>3, <1>4, <1>5, <1>6, <1>7 DEF Step

\* A crash stops the goroutine; a restart requeues the row it left running.
Crashed(u) ==
    /\ SameRow(u)
    /\ pc'[u] = "idle" /\ loaded'[u] = None
    /\ ~up'

Requeued(u) ==
    /\ key'[u] = key[u] /\ result'[u] = result[u] /\ loaded'[u] = loaded[u]
    /\ pc[u] = "idle" /\ ~up /\ up'
    /\ \/ status[u] = "running" /\ status'[u] = "pending" /\ pc'[u] = "start"
       \/ /\ status[u] = "running" /\ status'[u] \in {"running", "pending"}
          /\ pc'[u] = "idle" /\ u \in lost'
       \/ status[u] # "running" /\ status'[u] = status[u] /\ pc'[u] = "idle"

TaskMove(u) == (RowMove(u) /\ up' = up) \/ Crashed(u) \/ Requeued(u)

\* Every step moves every row along TaskMove.
LEMMA NextMoves ==
    ASSUME IInv, Next, NEW u \in Task
    PROVE  TaskMove(u)
<1>. USE DEF db, goroutine, slots
<1>0. TypeOK /\ RowInv /\ PointsInv /\ u \in Actor /\ Nightly \in Actor /\ Nightly \notin Task
  BY StateFacts, Labels
<1>1. /\ status \in [Task -> Status] /\ key \in [Task -> Key \cup {None}]
      /\ pc \in [Actor -> PC]
  BY <1>0 DEF TypeOK
<1>2. ASSUME NEW t \in Task, Submit(t) PROVE TaskMove(u)
  <2>1. PICK k \in Key, l \in {"start", "rejecting"} : CreateRow(t, k) /\ Goto(t, l)
    BY <1>2 DEF Submit, SubmitTask, WebhookSubmit, RejectSubmit
  <2>2. up /\ UNCHANGED <<up, result, loaded>>
    BY <1>2 DEF Submit, SubmitTask, WebhookSubmit, RejectSubmit
  <2>3. CASE u = t
    BY <1>0, <1>1, <2>1, <2>2, <2>3 DEF CreateRow, Goto, TaskMove, RowMove, Created, RowInv
  <2>4. CASE u # t
    BY <1>0, <1>1, <2>1, <2>2, <2>4
       DEF CreateRow, Goto, TaskMove, RowMove, Untouched, SameRow
  <2>. QED
    BY <2>3, <2>4
<1>3. ASSUME NEW t \in Task, Step(t) PROVE TaskMove(u)
  <2>1. up' = up
    BY <1>3 DEF Step, RecordFailure, Acquire, Setup, CacheHit, SaveCached, CompleteCached,
                CacheMiss, MarkRunning, AnalysisFails, AnalysisSucceeds, SaveFresh,
                CompleteFresh, CacheStore, Cleanup, Release
  <2>. QED
    BY <1>3, <2>1, StepMoves DEF TaskMove
<1>4. ASSUME UNCHANGED <<up, db, loaded, pc>> PROVE TaskMove(u)
  BY <1>4 DEF TaskMove, RowMove, Untouched, SameRow
<1>5. ASSUME NEW t \in Task, DeleteTaskCache(t) PROVE TaskMove(u)
  BY <1>4, <1>5 DEF DeleteTaskCache, Del
<1>12. ASSUME NEW t \in Task, CollectWorktree(t) PROVE TaskMove(u)
  BY <1>4, <1>12 DEF CollectWorktree
<1>6. CASE NightlyFires
  BY <1>0, <1>1, <1>6 DEF NightlyFires, Goto, TaskMove, RowMove, Untouched, SameRow
<1>7. CASE NightlyStep
  <2>1. CASE Acquire(Nightly)
    BY <1>0, <2>1, AcquireMoves DEF TaskMove, Acquire
  <2>2. CASE NightlyDone
    <3>1. Nightly \in Holders /\ GiveBack(Nightly) /\ UNCHANGED <<up, db, loaded>>
      BY <1>0, <2>2 DEF NightlyDone, Holders, Holding
    <3>. QED
      BY <1>0, <3>1, GiveBackMoves DEF TaskMove
  <2>. QED
    BY <1>7, <2>1, <2>2 DEF NightlyStep
<1>8. CASE DeleteCacheBatch
  BY <1>4, <1>8 DEF DeleteCacheBatch, Del
<1>9. ASSUME NEW k \in Key, CacheExpire(k) PROVE TaskMove(u)
  BY <1>4, <1>9 DEF CacheExpire
<1>10. CASE Crash
  BY <1>0, <1>10 DEF Crash, TaskMove, Crashed, SameRow
<1>11. CASE Restart
  <2>1. /\ pc[u] = "idle" /\ ~up /\ up'
        /\ UNCHANGED <<key, result, loaded>>
    BY <1>0, <1>11 DEF Restart, PointsInv
  <2>2. Requeue => status'[u] = IF status[u] = "running" THEN "pending" ELSE status[u]
    BY DEF Requeue, Orphans
  <2>3. CASE Requeue /\ Relaunch(Orphans)
    BY <1>0, <1>1, <2>1, <2>2, <2>3 DEF Relaunch, Orphans, TaskMove, Requeued
  <2>4. CASE lost' = lost \cup Orphans /\ (Requeue \/ UNCHANGED status) /\ UNCHANGED pc
    BY <1>0, <1>1, <2>1, <2>2, <2>4 DEF Orphans, TaskMove, Requeued
  <2>. QED
    BY <1>11, <2>3, <2>4 DEF Restart
<1>. QED
  BY <1>2, <1>3, <1>5, <1>6, <1>7, <1>8, <1>9, <1>10, <1>11, <1>12 DEF Next

\* A cache entry is kept, removed, or stored by a goroutine that completed.
CacheMove(k) ==
    \/ cache'[k] \in {cache[k], None}
    \/ \E t \in Task : /\ pc[t] = "persisted" /\ key[t] = k
                       /\ cache'[k] = Output(t)

\* Whatever happens, the cache gains only what a concluded run of that key computed.
LEMMA NextCache ==
    ASSUME IInv, Next, NEW k \in Key
    PROVE  CacheMove(k)
<1>. USE DEF db, goroutine, slots
<1>0. cache \in [Key -> Result \cup {None}]
  BY StateFacts DEF TypeOK
<1>1. ASSUME UNCHANGED cache PROVE CacheMove(k)
  BY <1>1 DEF CacheMove
<1>2. ASSUME NEW t \in Task, Submit(t) PROVE CacheMove(k)
  BY <1>1, <1>2 DEF Submit, SubmitTask, WebhookSubmit, RejectSubmit
<1>3. ASSUME NEW t \in Task, Step(t) PROVE CacheMove(k)
  <2>1. CASE CacheStore(t)
    BY <1>0, <2>1 DEF CacheStore, CacheMove
  <2>2. CASE ~CacheStore(t)
    BY <1>1, <1>3, <2>2
       DEF Step, RecordFailure, Acquire, Setup, CacheHit, SaveCached, CompleteCached,
           CacheMiss, MarkRunning, AnalysisFails, AnalysisSucceeds, SaveFresh,
           CompleteFresh, Cleanup, Release
  <2>. QED
    BY <2>1, <2>2
<1>4. ASSUME NEW K, Del(K) PROVE CacheMove(k)
  BY <1>4 DEF Del, CacheMove
<1>5. ASSUME NEW t \in Task, DeleteTaskCache(t) PROVE CacheMove(k)
  BY <1>4, <1>5 DEF DeleteTaskCache
<1>9. ASSUME NEW t \in Task, CollectWorktree(t) PROVE CacheMove(k)
  BY <1>1, <1>9 DEF CollectWorktree
<1>6. CASE NightlyFires \/ NightlyStep \/ Crash \/ Restart
  BY <1>1, <1>6 DEF NightlyFires, NightlyStep, Acquire, NightlyDone, Crash, Restart
<1>7. CASE DeleteCacheBatch
  BY <1>4, <1>7 DEF DeleteCacheBatch
<1>8. ASSUME NEW j \in Key, CacheExpire(j) PROVE CacheMove(k)
  BY <1>0, <1>8 DEF CacheExpire, CacheMove
<1>. QED
  BY <1>2, <1>3, <1>5, <1>6, <1>7, <1>8, <1>9 DEF Next

\* A lost write stays lost.
LEMMA LostGrows ==
    ASSUME Next
    PROVE  lost \subseteq lost'
<1>. USE DEF db, goroutine, slots
<1>1. ASSUME NEW t \in Task, NEW s, SetStatus(t, s) PROVE lost \subseteq lost'
  BY <1>1 DEF SetStatus, WriteHappens, WriteFails
<1>2. ASSUME NEW t \in Task, NEW r, SaveResult(t, r) PROVE lost \subseteq lost'
  BY <1>2 DEF SaveResult, WriteHappens, WriteFails
<1>3. ASSUME NEW t \in Task, Submit(t) \/ DeleteTaskCache(t) \/ CollectWorktree(t)
      PROVE  lost \subseteq lost'
  BY <1>3 DEF Submit, SubmitTask, WebhookSubmit, RejectSubmit, DeleteTaskCache, Del,
              CollectWorktree
<1>4. ASSUME NEW t \in Task, Step(t) PROVE lost \subseteq lost'
  BY <1>1, <1>2, <1>4
     DEF Step, RecordFailure, Acquire, Setup, CacheHit, SaveCached, CompleteCached,
         CacheMiss, MarkRunning, AnalysisFails, AnalysisSucceeds, SaveFresh,
         CompleteFresh, CacheStore, Cleanup, Release
<1>5. CASE NightlyFires \/ NightlyStep \/ DeleteCacheBatch \/ Crash \/ Restart
  BY <1>5 DEF NightlyFires, NightlyStep, Acquire, NightlyDone, DeleteCacheBatch, Del,
              Crash, Restart, WriteHappens
<1>6. ASSUME NEW k \in Key, CacheExpire(k) PROVE lost \subseteq lost'
  BY <1>6 DEF CacheExpire
<1>. QED
  BY <1>3, <1>4, <1>5, <1>6 DEF Next

\* The nightly index stays at its own program points.
LEMMA NextNightly ==
    ASSUME IInv, Next
    PROVE  /\ pc'[Nightly] \in {"idle", "start", "waiting", "indexing"}
           /\ ~up' => pc'[Nightly] = "idle"
<1>. USE DEF db, goroutine, slots
<1>0. /\ TypeOK /\ RowInv /\ PointsInv /\ Nightly \in Actor /\ Nightly \notin Task
      /\ pc \in [Actor -> PC] /\ waitq \in Seq(Actor) /\ SenderInv
      /\ Task \subseteq Actor /\ up \in BOOLEAN
  BY StateFacts, Labels DEF TypeOK, IInv
<1>. DEFINE P == /\ pc'[Nightly] \in {"idle", "start", "waiting", "indexing"}
                 /\ ~up' => pc'[Nightly] = "idle"
<1>1. ASSUME NEW t \in Task, NEW l, Goto(t, l), up' = up PROVE P
  BY <1>0, <1>1 DEF Goto, PointsInv
<1>2. ASSUME UNCHANGED <<up, pc>> PROVE P
  BY <1>0, <1>2 DEF PointsInv
<1>3. ASSUME NEW a \in Holders, GiveBack(a), up' = up PROVE P
  <2>1. a \in Actor /\ pc[a] # "idle"
    BY <1>0, <1>3 DEF Holders, Holding
  <2>2. up
    BY <1>0, <2>1 DEF PointsInv
  <2>3. CASE Goto(a, "idle")
    BY <1>0, <1>3, <2>1, <2>2, <2>3 DEF Goto, PointsInv
  <2>4. CASE /\ waitq # <<>>
             /\ pc' = [pc EXCEPT ![a] = "idle", ![Head(waitq)] = Admitted(Head(waitq))]
    <3>1. Head(waitq) \in Actor
      BY <1>0, <2>4
    <3>2. pc'[Nightly] \in {"idle", "indexing", pc[Nightly]}
      BY <1>0, <2>1, <2>4, <3>1 DEF Admitted
    <3>. QED
      BY <1>0, <1>3, <2>2, <3>2 DEF PointsInv
  <2>. QED
    BY <1>3, <2>2, <2>3, <2>4 DEF GiveBack, PointsInv
<1>4. ASSUME NEW a \in Actor, Acquire(a) PROVE P
  <2>1. up /\ up' = up /\ (Goto(a, Admitted(a)) \/ Goto(a, "waiting"))
    BY <1>0, <1>4 DEF Acquire, PointsInv
  <2>. QED
    BY <1>0, <2>1 DEF Goto, Admitted, PointsInv
<1>5. ASSUME NEW t \in Task, Submit(t) PROVE P
  BY <1>1, <1>5 DEF Submit, SubmitTask, WebhookSubmit, RejectSubmit
<1>6. ASSUME NEW t \in Task, Step(t) PROVE P
  <2>1. CASE Acquire(t)
    BY <1>0, <1>4, <2>1
  <2>2. CASE Release(t)
    <3>1. t \in Holders /\ GiveBack(t) /\ up' = up
      BY <1>0, <2>2 DEF Release, Holders, Holding
    <3>. QED
      BY <1>3, <3>1
  <2>3. ASSUME ~Acquire(t), ~Release(t) PROVE up' = up /\ \E l \in PC : Goto(t, l)
    BY <1>6, <2>3
       DEF Step, RecordFailure, Setup, CacheHit, SaveCached, CompleteCached, CacheMiss,
           MarkRunning, AnalysisFails, AnalysisSucceeds, SaveFresh, CompleteFresh,
           CacheStore, Cleanup, PC, Holding
  <2>. QED
    BY <1>1, <2>1, <2>2, <2>3
<1>7. ASSUME NEW t \in Task, DeleteTaskCache(t) PROVE P
  BY <1>2, <1>7 DEF DeleteTaskCache, Del
<1>14. ASSUME NEW t \in Task, CollectWorktree(t) PROVE P
  BY <1>2, <1>14 DEF CollectWorktree
<1>8. CASE NightlyFires
  BY <1>0, <1>8 DEF NightlyFires, Goto
<1>9. CASE NightlyStep
  <2>1. CASE NightlyDone
    <3>1. Nightly \in Holders /\ GiveBack(Nightly) /\ up' = up
      BY <1>0, <2>1 DEF NightlyDone, Holders, Holding
    <3>. QED
      BY <1>3, <3>1
  <2>. QED
    BY <1>0, <1>4, <1>9, <2>1 DEF NightlyStep
<1>10. CASE DeleteCacheBatch
  BY <1>2, <1>10 DEF DeleteCacheBatch, Del
<1>11. ASSUME NEW k \in Key, CacheExpire(k) PROVE P
  BY <1>2, <1>11 DEF CacheExpire
<1>12. CASE Crash
  BY <1>0, <1>12 DEF Crash
<1>13. CASE Restart
  <2>1. pc'[Nightly] = pc[Nightly]
    BY <1>0, <1>13 DEF Restart, Relaunch, Orphans
  <2>. QED
    BY <1>0, <1>13, <2>1 DEF Restart, PointsInv
<1>. QED
  BY <1>5, <1>6, <1>7, <1>8, <1>9, <1>10, <1>11, <1>12, <1>13, <1>14 DEF Next

-----------------------------------------------------------------------------
(* The data invariants.                                                    *)

\* A row keeps its key, and a completed row stays completed.
LEMMA RowPersists ==
    ASSUME IInv, NEW u \in Task, TaskMove(u), status[u] # "none"
    PROVE  /\ status'[u] # "none" /\ key'[u] = key[u]
           /\ status[u] = "completed" => status'[u] = "completed"
<1>0. RowInv
  BY StateFacts
<1>1. CASE RowMove(u)
  <2>1. CASE Marked(u)
    BY <1>0, <2>1 DEF Marked, RowInv, Queued, Inside
  <2>. QED
    BY <1>1, <2>1 DEF RowMove, Untouched, Created, Moved, Hit, Saved, SameRow
<1>. QED
  BY <1>1 DEF TaskMove, Crashed, Requeued, SameRow

\* Every step keeps each goroutine at points of its own kind.
LEMMA NextPoints ==
    ASSUME IInv, Next
    PROVE  PointsInv'
<1>0. PointsInv /\ up \in BOOLEAN
  BY StateFacts DEF TypeOK
<1>1. ASSUME NEW u \in Task
      PROVE  /\ pc'[u] \in Queued \cup Inside \cup Concluded
             /\ ~up' => pc'[u] = "idle"
  <2>0. u \in Actor /\ pc[u] \in Queued \cup Inside \cup Concluded
    BY <1>0 DEF PointsInv, Actor
  <2>1. TaskMove(u)
    BY NextMoves
  <2>2. CASE RowMove(u) /\ up' = up
    <3>1. CASE Untouched(u)
      BY <1>0, <2>0, <2>2, <3>1 DEF Untouched, PointsInv
    <3>2. CASE Created(u)
      BY <2>2, <3>2 DEF Created, Queued
    <3>3. CASE Moved(u) \/ Hit(u) \/ Saved(u) \/ Marked(u)
      <4>1. pc[u] # "idle" /\ pc'[u] \in Queued \cup Inside \cup Concluded
        BY <3>3 DEF Moved, Hit, Saved, Marked, Queued, Inside, Concluded
      <4>. QED
        BY <1>0, <2>0, <2>2, <4>1 DEF PointsInv
    <3>. QED
      BY <2>2, <3>1, <3>2, <3>3 DEF RowMove
  <2>3. CASE Crashed(u) \/ Requeued(u)
    BY <2>3 DEF Crashed, Requeued, Queued, Concluded
  <2>. QED
    BY <2>1, <2>2, <2>3 DEF TaskMove
<1>. QED
  BY <1>1, NextNightly DEF PointsInv, Actor

\* Every step keeps what the program points say about the rows they serve.
LEMMA NextRows ==
    ASSUME IInv, Next
    PROVE  RowInv' /\ RunningIsOwned' /\ CompletedHasResult'
<1>0. /\ TypeOK /\ RowInv /\ RunningIsOwned /\ CompletedHasResult /\ PointsInv
      /\ ResultInv /\ lost \subseteq lost' /\ None \notin Result
  BY StateFacts, LostGrows DEF IInv
<1>. DEFINE P(u) ==
       /\ status'[u] = "none" => pc'[u] = "idle"
       /\ pc'[u] \in Queued => status'[u] = "pending"
       /\ pc'[u] \in Inside => status'[u] = "running" \/ (status'[u] = "pending" /\ u \in lost')
       /\ status'[u] # "none" => key'[u] \in Key
       /\ pc'[u] = "hit" => loaded'[u] # None
       /\ loaded'[u] # None => pc'[u] \in {"hit", "hitSaved", "cleanup"}
       /\ up' => (status'[u] = "running" => pc'[u] \in Inside \/ u \in lost')
       /\ status'[u] = "completed" => result'[u] # None \/ u \in lost'
<1>1. ASSUME NEW u \in Task PROVE P(u)
  <2>0. /\ status[u] = "none" => pc[u] = "idle"
        /\ pc[u] \in Queued => status[u] = "pending"
        /\ pc[u] \in Inside => status[u] = "running" \/ (status[u] = "pending" /\ u \in lost)
        /\ status[u] # "none" => key[u] \in Key
        /\ pc[u] = "hit" => loaded[u] # None
        /\ loaded[u] # None => pc[u] \in {"hit", "hitSaved", "cleanup"}
        /\ up => (status[u] = "running" => pc[u] \in Inside \/ u \in lost)
        /\ status[u] = "completed" => result[u] # None \/ u \in lost
        /\ pc[u] \in {"hitSaved", "saved"} => result[u] # None \/ u \in lost
        /\ status[u] \in Status
    BY <1>0 DEF RowInv, RunningIsOwned, CompletedHasResult, ResultInv, Inside, TypeOK
  <2>1. TaskMove(u)
    BY NextMoves
  <2>2. CASE Untouched(u) /\ up' = up
    BY <1>0, <2>0, <2>2 DEF Untouched, SameRow
  <2>3. CASE Created(u) /\ up' = up
    BY <2>0, <2>3 DEF Created, Queued, Inside
  <2>4. CASE Moved(u) /\ up' = up
    BY <1>0, <2>0, <2>4 DEF Moved, SameRow, Queued, Inside
  <2>5. CASE Hit(u) /\ up' = up
    BY <1>0, <2>0, <2>5 DEF Hit, SameRow, Queued, Inside
  <2>6. CASE Saved(u) /\ up' = up
    BY <1>0, <2>0, <2>6 DEF Saved, Queued, Inside
  <2>7. CASE Marked(u) /\ up' = up
    BY <1>0, <2>0, <2>7 DEF Marked, Queued, Inside
  <2>8. CASE Crashed(u)
    BY <1>0, <2>0, <2>8 DEF Crashed, SameRow, Queued, Inside
  <2>9. CASE Requeued(u)
    BY <1>0, <2>0, <2>9 DEF Requeued, Queued, Inside
  <2>. QED
    BY <2>1, <2>2, <2>3, <2>4, <2>5, <2>6, <2>7, <2>8, <2>9 DEF TaskMove, RowMove
<1>. QED
  BY <1>1 DEF RowInv, RunningIsOwned, CompletedHasResult, Inside

\* Where the results of rows, cache and goroutines come from.
LEMMA NextResults ==
    ASSUME IInv, Next
    PROVE  ResultInv' /\ AnswersOwnRequest'
<1>0. /\ TypeOK /\ RowInv /\ ResultInv /\ PointsInv
      /\ lost \subseteq lost' /\ None \notin Result
  BY StateFacts, LostGrows DEF IInv
<1>1. ASSUME NEW r \in Result, NEW k, Known(r, k)
      PROVE  /\ status'[r.by] # "none" /\ key'[r.by] = k
             /\ Sound(r, k) => status'[r.by] = "completed" \/ r.by \in lost'
  <2>1. r.by \in Task
    BY DEF Result
  <2>2. TaskMove(r.by)
    BY <2>1, NextMoves
  <2>. QED
    BY <1>0, <1>1, <2>1, <2>2, RowPersists DEF Known, Sound
<1>2. ASSUME NEW k \in Key, cache'[k] # None
      PROVE  /\ cache'[k] \in Result
             /\ status'[cache'[k].by] # "none" /\ key'[cache'[k].by] = k
             /\ status'[cache'[k].by] = "completed" \/ cache'[k].by \in lost'
  <2>1. CacheMove(k)
    BY NextCache
  <2>2. CASE cache'[k] = cache[k]
    <3>1. cache[k] \in Result /\ Sound(cache[k], k)
      BY <1>0, <1>2, <2>2 DEF TypeOK, ResultInv
    <3>. QED
      BY <1>1, <2>2, <3>1 DEF Sound
  <2>3. ASSUME NEW t \in Task, pc[t] = "persisted", key[t] = k, cache'[k] = Output(t)
        PROVE  cache'[k] \in Result /\ Sound(cache'[k], k)
    <3>1. Output(t) \in Result /\ Output(t).by = t
      BY <1>0, OutputType
    <3>. QED
      BY <1>0, <2>3, <3>1 DEF Sound, Known, ResultInv, RowInv
  <2>. QED
    BY <1>1, <1>2, <2>1, <2>2, <2>3 DEF CacheMove, Sound
<1>. DEFINE P(u) ==
       /\ pc'[u] \in {"hitSaved", "saved"} => result'[u] # None \/ u \in lost'
       /\ pc'[u] = "persisted" => status'[u] = "completed" \/ u \in lost'
       /\ result'[u] # None => /\ status'[u] # "none" /\ status'[result'[u].by] # "none"
                               /\ key'[result'[u].by] = key'[u]
       /\ loaded'[u] # None =>
            /\ status'[loaded'[u].by] # "none" /\ key'[loaded'[u].by] = key'[u]
            /\ status'[loaded'[u].by] = "completed" \/ loaded'[u].by \in lost'
<1>3. ASSUME NEW u \in Task PROVE P(u)
  <2>0. /\ pc[u] \in {"hitSaved", "saved"} => result[u] # None \/ u \in lost
        /\ pc[u] = "persisted" => status[u] = "completed" \/ u \in lost
        /\ result[u] # None => /\ status[u] # "none" /\ Known(result[u], key[u])
                               /\ result[u] \in Result
        /\ loaded[u] # None => /\ Sound(loaded[u], key[u])
                               /\ loaded[u] \in Result
        /\ pc[u] \in Queued \cup Inside => status[u] # "none" /\ key[u] \in Key
        /\ pc[u] = "hit" => loaded[u] # None
        /\ loaded[u] # None => pc[u] \in {"hit", "hitSaved", "cleanup"}
    BY <1>0 DEF ResultInv, RowInv, TypeOK
  <2>1. TaskMove(u)
    BY NextMoves
  <2>2. /\ status[u] # "none" => status'[u] # "none" /\ key'[u] = key[u]
        /\ status[u] = "none" => result[u] = None /\ pc[u] = "idle"
        /\ status[u] = "completed" => status'[u] = "completed"
    BY <1>0, <2>0, <2>1, RowPersists DEF RowInv
  <2>3. ASSUME result'[u] = result[u]
        PROVE  result'[u] # None => /\ status'[u] # "none" /\ status'[result'[u].by] # "none"
                                    /\ key'[result'[u].by] = key'[u]
    BY <1>1, <2>0, <2>2, <2>3
  <2>4. ASSUME loaded'[u] \in {None, loaded[u]}
        PROVE  loaded'[u] # None =>
                 /\ status'[loaded'[u].by] # "none" /\ key'[loaded'[u].by] = key[u]
                 /\ status'[loaded'[u].by] = "completed" \/ loaded'[u].by \in lost'
    BY <1>1, <2>0, <2>4 DEF Sound
  <2>5. CASE Untouched(u)
    BY <1>0, <2>0, <2>2, <2>3, <2>4, <2>5 DEF Untouched, SameRow
  <2>6. CASE Created(u)
    BY <1>0, <2>0, <2>2, <2>3, <2>4, <2>6 DEF Created
  <2>7. CASE Moved(u)
    BY <1>0, <2>0, <2>2, <2>3, <2>4, <2>7 DEF Moved, SameRow
  <2>8. CASE Hit(u)
    <3>1. key[u] \in Key /\ cache[key[u]] \in Result /\ Sound(cache[key[u]], key[u])
      BY <1>0, <2>0, <2>8 DEF Hit, Queued, ResultInv, TypeOK
    <3>2. /\ status'[loaded'[u].by] # "none" /\ key'[loaded'[u].by] = key[u]
          /\ status'[loaded'[u].by] = "completed" \/ loaded'[u].by \in lost'
      BY <1>1, <2>8, <3>1 DEF Hit, Sound
    <3>. QED
      BY <2>3, <2>8, <3>2 DEF Hit, SameRow
  <2>9. CASE Saved(u)
    <3>1. loaded'[u] = loaded[u] /\ key'[u] = key[u] /\ status'[u] = status[u]
          /\ status[u] # "none" /\ pc'[u] # "persisted"
      BY <2>0, <2>9 DEF Saved, Queued, Inside
    <3>2. CASE result'[u] = result[u] /\ u \in lost'
      BY <2>3, <2>4, <3>1, <3>2
    <3>3. CASE result'[u] \in Result /\ result'[u].by = IF pc[u] = "hit" THEN loaded[u].by ELSE u
      <4>1. status'[result'[u].by] # "none" /\ key'[result'[u].by] = key'[u]
        BY <2>0, <2>4, <3>1, <3>3
      <4>. QED
        BY <1>0, <2>4, <3>1, <3>3, <4>1
    <3>. QED
      BY <2>9, <3>2, <3>3 DEF Saved
  <2>10. CASE Marked(u)
    <3>1. /\ pc'[u] \notin {"hitSaved", "saved"}
          /\ pc'[u] = "persisted" => status'[u] = "completed" \/ u \in lost'
      BY <2>10 DEF Marked
    <3>. QED
      BY <2>3, <2>4, <2>10, <3>1 DEF Marked
  <2>11. CASE Crashed(u)
    BY <2>3, <2>4, <2>11 DEF Crashed, SameRow
  <2>12. CASE Requeued(u)
    BY <2>3, <2>4, <2>12 DEF Requeued
  <2>. QED
    BY <2>1, <2>5, <2>6, <2>7, <2>8, <2>9, <2>10, <2>11, <2>12 DEF TaskMove, RowMove
<1>4. ResultInv'
  BY <1>2, <1>3 DEF ResultInv, Sound, Known
<1>. QED
  BY <1>2, <1>3, <1>4 DEF AnswersOwnRequest

\* Only a restart brings the server up, and it removes every worktree first.
LEMMA NextRestart ==
    ASSUME Next, ~up, up'
    PROVE  worktree' = {}
<1>1. ASSUME NEW t \in Task, Step(t) PROVE up' = up
  BY <1>1 DEF Step, RecordFailure, Acquire, Setup, CacheHit, SaveCached, CompleteCached,
              CacheMiss, MarkRunning, AnalysisFails, AnalysisSucceeds, SaveFresh,
              CompleteFresh, CacheStore, Cleanup, Release
<1>2. CASE Restart
  BY <1>2 DEF Restart, CleanupWorktrees
<1>. QED
  BY <1>1, <1>2 DEF Next, Submit, SubmitTask, WebhookSubmit, RejectSubmit, DeleteTaskCache,
     CollectWorktree, NightlyFires, NightlyStep, Acquire, NightlyDone, DeleteCacheBatch,
     CacheExpire, Crash

\* A worktree appears when its task leaves "setup" and is gone when the task
\* leaves "cleanup", or when the dead server's successor is up.
LEMMA NextTrees ==
    ASSUME IInv, Next
    PROVE  TreeInv'
<1>. USE DEF db, goroutine, slots
<1>0. TypeOK /\ TreeInv /\ pc \in [Actor -> PC] /\ worktree \in SUBSET Task
      /\ Nightly \in Actor
  BY StateFacts, Labels DEF TypeOK, IInv
<1>. DEFINE Kept(u) == u \in worktree' =>
                         \/ pc'[u] = "lookup"
                         \/ u \in worktree /\ ~(pc[u] = "cleanup" /\ pc'[u] = "release")
<1>1. ASSUME NEW u \in Task PROVE Kept(u)
  <2>0. u \in Actor
    BY Labels
  <2>1. ASSUME UNCHANGED pc, worktree' \subseteq worktree PROVE Kept(u)
    BY <2>1
  <2>2. ASSUME UNCHANGED worktree, NEW a \in Actor, NEW l, Goto(a, l), l # "release"
        PROVE  Kept(u)
    BY <1>0, <2>0, <2>2 DEF Goto
  <2>3. ASSUME UNCHANGED worktree, NEW a \in Actor, GiveBack(a) PROVE Kept(u)
    BY <1>0, <2>0, <2>3 DEF GiveBack, Goto, Admitted
  <2>4. ASSUME NEW t \in Task, Submit(t) PROVE Kept(u)
    <3>1. t \in Actor /\ UNCHANGED worktree /\ (Goto(t, "start") \/ Goto(t, "rejecting"))
      BY <2>4, Labels DEF Submit, SubmitTask, WebhookSubmit, RejectSubmit
    <3>. QED
      BY <2>2, <3>1
  <2>5. ASSUME NEW t \in Task, Step(t) PROVE Kept(u)
    <3>0. t \in Actor
      BY Labels
    <3>1. CASE Setup(t)
      BY <1>0, <2>0, <3>0, <3>1 DEF Setup, Goto
    <3>2. CASE Cleanup(t)
      BY <1>0, <2>0, <3>0, <3>2 DEF Cleanup, Goto
    <3>3. CASE Release(t)
      BY <2>3, <3>0, <3>3 DEF Release
    <3>4. ASSUME ~Setup(t), ~Cleanup(t), ~Release(t)
          PROVE  UNCHANGED worktree /\ \E l \in PC \ {"release"} : Goto(t, l)
      BY <2>5, <3>4
         DEF Step, RecordFailure, Acquire, Admitted, CacheHit, SaveCached, CompleteCached,
             CacheMiss, MarkRunning, AnalysisFails, AnalysisSucceeds, SaveFresh,
             CompleteFresh, CacheStore, PC, Holding
    <3>. QED
      BY <2>2, <3>0, <3>1, <3>2, <3>3, <3>4
  <2>6. ASSUME NEW t \in Task, DeleteTaskCache(t) \/ CollectWorktree(t) PROVE Kept(u)
    BY <2>1, <2>6 DEF DeleteTaskCache, Del, CollectWorktree
  <2>7. CASE NightlyFires
    BY <1>0, <2>2, <2>7 DEF NightlyFires
  <2>8. CASE NightlyStep
    <3>1. CASE Acquire(Nightly)
      BY <1>0, <2>2, <3>1 DEF Acquire, Admitted
    <3>2. CASE NightlyDone
      BY <1>0, <2>3, <3>2 DEF NightlyDone
    <3>. QED
      BY <2>8, <3>1, <3>2 DEF NightlyStep
  <2>9. CASE DeleteCacheBatch
    BY <2>1, <2>9 DEF DeleteCacheBatch, Del
  <2>10. ASSUME NEW k \in Key, CacheExpire(k) PROVE Kept(u)
    BY <2>1, <2>10 DEF CacheExpire
  <2>11. CASE Crash
    BY <2>0, <2>11 DEF Crash
  <2>12. CASE Restart
    BY <2>12 DEF Restart, CleanupWorktrees
  <2>. QED
    BY <2>4, <2>5, <2>6, <2>7, <2>8, <2>9, <2>10, <2>11, <2>12 DEF Next
<1>2. ASSUME NEW u \in Task, up', u \in worktree' PROVE pc'[u] \in Checkout
  <2>1. Kept(u) /\ TaskMove(u)
    BY <1>1, NextMoves
  <2>2. CASE RowMove(u) /\ up' = up
    <3>1. pc'[u] = "lookup" \/ (pc[u] \in Checkout /\ ~(pc[u] = "cleanup" /\ pc'[u] = "release"))
      BY <1>0, <1>2, <2>1, <2>2 DEF TreeInv
    <3>. QED
      BY <2>2, <3>1 DEF RowMove, Untouched, Created, Moved, Hit, Saved, Marked, Checkout
  <2>3. CASE Requeued(u)
    <3>1. worktree' = {}
      BY NextRestart, <2>3 DEF Requeued
    <3>. QED
      BY <1>2, <3>1
  <2>. QED
    BY <1>2, <2>1, <2>2, <2>3 DEF TaskMove, Crashed
<1>3. worktree' \in SUBSET Task
  BY NextType DEF TypeOK
<1>. QED
  BY <1>2, <1>3 DEF TreeInv

\* IInv is inductive.
LEMMA NextIInv == IInv /\ [Next]_vars => IInv'
<1>. SUFFICES ASSUME IInv, [Next]_vars PROVE IInv'
  OBVIOUS
<1>1. CASE Next
  BY <1>1, NextType, NextSlots, NextPoints, NextRows, NextResults, NextTrees DEF IInv
<1>2. CASE UNCHANGED vars
  <2>. USE <1>2 DEF vars
  <2>1. TypeOK'
    BY DEF IInv, TypeOK
  <2>2. SlotAccounting' /\ SenderInv'
    BY DEF IInv, SlotAccounting, SenderInv, Holders
  <2>3. PointsInv' /\ RowInv' /\ RunningIsOwned' /\ CompletedHasResult'
    BY DEF IInv, PointsInv, RowInv, RunningIsOwned, CompletedHasResult
  <2>4. ResultInv' /\ AnswersOwnRequest' /\ TreeInv'
    BY DEF IInv, ResultInv, AnswersOwnRequest, Sound, Known, TreeInv
  <2>. QED
    BY <2>1, <2>2, <2>3, <2>4 DEF IInv
<1>. QED
  BY <1>1, <1>2

\* The inductive invariant holds in every reachable state.
THEOREM Inductive == Spec => []IInv
BY InitIInv, NextIInv, PTL DEF Spec

-----------------------------------------------------------------------------
(* The results.                                                            *)

\* Every variable keeps its type in every behaviour, whatever the number of
\* tasks, keys, slots, crashes and lost writes.
THEOREM TypeCorrect == Spec => []TypeOK
BY Inductive, PTL DEF IInv

\* The semaphore is never oversubscribed and counts exactly the goroutines
\* that hold a slot.
THEOREM SlotsCorrect == Spec => []SlotAccounting
BY Inductive, PTL DEF IInv

\* A running row is owned by a goroutine, or one of its writes was lost.
THEOREM RunningCorrect == Spec => []RunningIsOwned
BY Inductive, PTL DEF IInv

\* A completed row has a result, or one of its writes was lost.
THEOREM CompletedCorrect == Spec => []CompletedHasResult
BY Inductive, PTL DEF IInv

\* A task is only ever answered by a run for its own key.
THEOREM AnswersCorrect == Spec => []AnswersOwnRequest
BY Inductive, PTL DEF IInv

\* No worktree outlives the goroutine that made it, crashes included.
THEOREM WorktreesCorrect == Spec => []WorktreesOwned
<1>1. IInv => WorktreesOwned
  BY Labels DEF IInv, TypeOK, TreeInv, WorktreesOwned, Checkout, Holders, Holding
<1>. QED
  BY <1>1, Inductive, PTL

-----------------------------------------------------------------------------
(* The task table implements TaskLifecycle.                                *)

\* Every step of the server is a step of TaskLifecycle, or leaves the status
\* and the answer of every task as they were.
LEMMA StepImplements ==
    ASSUME IInv, Next
    PROVE  [Lifecycle!Next]_(Lifecycle!vars)
<1>. USE DEF db, goroutine, slots
<1>. DEFINE Implements == [Lifecycle!Next]_(Lifecycle!vars)
<1>0. TypeOK /\ RowInv /\ PointsInv /\ status \in [Task -> Status]
  BY StateFacts DEF TypeOK
<1>1. ASSUME UNCHANGED <<status, result>> PROVE Implements
  BY <1>1 DEF Lifecycle!vars
<1>2. ASSUME NEW t \in Task, NEW k \in Key, CreateRow(t, k), UNCHANGED result
      PROVE  Implements
  BY <1>2 DEF CreateRow, Lifecycle!Next, Lifecycle!Create
<1>3. ASSUME NEW t \in Task, Submit(t) PROVE Implements
  <2>1. (\E k \in Key : CreateRow(t, k)) /\ UNCHANGED result
    BY <1>3 DEF Submit, SubmitTask, WebhookSubmit, RejectSubmit
  <2>. QED
    BY <1>2, <2>1
<1>4. ASSUME NEW t \in Task, pc[t] \in Queued \cup Inside
      PROVE  status[t] \in {"pending", "running"}
  BY <1>0, <1>4 DEF RowInv
<1>5. ASSUME NEW t \in Task, pc[t] \in Queued \cup Inside, UNCHANGED result,
             NEW s \in {"completed", "failed"}, SetStatus(t, s)
      PROVE  Implements
  <2>1. CASE status' = [status EXCEPT ![t] = s]
    BY <1>4, <1>5, <2>1
       DEF Lifecycle!Next, Lifecycle!Conclude, Lifecycle!Open, Lifecycle!Terminal
  <2>. QED
    BY <1>1, <1>5, <2>1 DEF SetStatus
<1>6. ASSUME NEW t \in Task, pc[t] \in Queued \cup Inside, UNCHANGED status,
             NEW r \in Result, SaveResult(t, r)
      PROVE  Implements
  <2>1. CASE result' = [result EXCEPT ![t] = r]
    BY <1>4, <1>6, <2>1 DEF Lifecycle!Next, Lifecycle!Save, Lifecycle!Open
  <2>. QED
    BY <1>1, <1>6, <2>1 DEF SaveResult
<1>7. ASSUME NEW t \in Task, Step(t) PROVE Implements
  <2>1. CASE RecordFailure(t) \/ CompleteCached(t) \/ AnalysisFails(t) \/ CompleteFresh(t)
    <3>1. PICK s \in {"completed", "failed"} :
             SetStatus(t, s) /\ UNCHANGED result /\ pc[t] \in Queued \cup Inside
      BY <2>1 DEF RecordFailure, CompleteCached, AnalysisFails, CompleteFresh, Queued, Inside
    <3>. QED
      BY <1>5, <3>1
  <2>2. CASE MarkRunning(t)
    <3>1. status[t] = "pending" /\ SetStatus(t, "running") /\ UNCHANGED result
      BY <1>0, <2>2 DEF MarkRunning, RowInv, Queued
    <3>2. CASE status' = [status EXCEPT ![t] = "running"]
      BY <3>1, <3>2 DEF Lifecycle!Next, Lifecycle!Begin
    <3>. QED
      BY <1>1, <3>1, <3>2 DEF SetStatus
  <2>3. CASE SaveCached(t)
    <3>1. loaded[t] \in Result
      BY <1>0, <2>3 DEF SaveCached, RowInv, TypeOK
    <3>. QED
      BY <1>6, <2>3, <3>1 DEF SaveCached, Queued
  <2>4. CASE SaveFresh(t)
    BY <1>0, <1>6, <2>4, OutputType DEF SaveFresh, Inside
  <2>5. CASE Acquire(t) \/ Setup(t) \/ CacheHit(t) \/ CacheMiss(t) \/ AnalysisSucceeds(t)
             \/ CacheStore(t) \/ Cleanup(t) \/ Release(t)
    BY <1>1, <2>5 DEF Acquire, Setup, CacheHit, CacheMiss, AnalysisSucceeds, CacheStore,
                      Cleanup, Release
  <2>. QED
    BY <1>7, <2>1, <2>2, <2>3, <2>4, <2>5 DEF Step
<1>8. ASSUME NEW t \in Task, DeleteTaskCache(t) PROVE Implements
  BY <1>1, <1>8 DEF DeleteTaskCache, Del
<1>12. ASSUME NEW t \in Task, CollectWorktree(t) PROVE Implements
  BY <1>1, <1>12 DEF CollectWorktree
<1>9. CASE NightlyFires \/ NightlyStep \/ DeleteCacheBatch \/ Crash
  BY <1>1, <1>9 DEF NightlyFires, NightlyStep, Acquire, NightlyDone, DeleteCacheBatch,
                    Del, Crash
<1>10. ASSUME NEW k \in Key, CacheExpire(k) PROVE Implements
  BY <1>1, <1>10 DEF CacheExpire
<1>11. CASE Restart
  <2>1. UNCHANGED result /\ (Requeue \/ UNCHANGED status)
    BY <1>11 DEF Restart
  <2>2. CASE Requeue /\ Orphans # {}
    BY <2>1, <2>2 DEF Requeue, Orphans, Lifecycle!Next, Lifecycle!Requeue
  <2>3. CASE Requeue /\ Orphans = {}
    <3>1. status' = status
      BY <1>0, <2>3 DEF Requeue
    <3>. QED
      BY <1>1, <2>1, <3>1
  <2>. QED
    BY <1>1, <2>1, <2>2, <2>3
<1>. QED
  BY <1>3, <1>7, <1>8, <1>9, <1>10, <1>11, <1>12 DEF Next

\* Clients see each task go through the lifecycle of TaskLifecycle, whatever
\* crashes, restarts and lost writes the server goes through.
THEOREM Implementation == Spec => LifecyclePromise
<1>1. Init => Lifecycle!Init
  BY DEF Init, Lifecycle!Init
<1>2. IInv /\ [Next]_vars => [Lifecycle!Next]_(Lifecycle!vars)
  BY StepImplements DEF vars, Lifecycle!vars
<1>. QED
  BY <1>1, <1>2, Inductive, PTL DEF Spec, LifecyclePromise, Lifecycle!Spec
=============================================================================
