--------------------------- MODULE SymbolIndex_proofs ---------------------------
(***************************************************************************)
(* Proofs about SymbolIndex, for any repositories, commits, indexer errors *)
(* and bounds: IInv is inductive, and TypeOK and HashesTrue follow from it.*)
(***************************************************************************)
EXTENDS SymbolIndex, TLAPS

Working(p) == pc[p] \notin {"idle", "queued", "head"}

\* A writer carries a hash it read from this repository, and the commit its
\* indexer read, which the tree showed then or later: the hash is not newer than
\* the files, nor the files than the tree.
Carry(p) ==
    /\ Working(p) => head[p] # None
    /\ Working(p) /\ head[p] \in Nat => head[p] <= tree[At(p)]
    /\ got[p] # None =>
         /\ Working(p) /\ got[p].at \in DOMAIN Decl[At(p)] /\ got[p].at <= tree[At(p)]
         /\ head[p] \in Nat => head[p] <= got[p].at
    /\ pc[p] \in {"nodes", "edges", "meta"} => got[p] # None
    /\ p = "nightly" /\ pc[p] \in {"delNodes", "delMeta"} => got[p] # None

CarryInv == \A p \in Proc : Carry(p)

\* No label is of a commit the tree has not shown.
LabelInv ==
    \A r \in Repo :
        /\ \A s \in Symbol : nodes[r][s] \in Nat => nodes[r][s] <= tree[r]
        /\ meta[r] \in Nat => meta[r] <= tree[r]

\* Two writers at one repository have met there.
SharedInv ==
    \A p, q \in Proc, r \in Repo : p # q /\ Busy(p, r) /\ Busy(q, r) => shared[r]

\* What a writer saved is still there when it writes the metadata.
SavedInv ==
    \A p \in Proc :
        pc[p] \in {"edges", "meta"} /\ ~shared[At(p)] =>
            Indexed(p) \subseteq Rows(At(p)) /\ got[p].lost \subseteq omitted[At(p)]

IInv ==
    /\ TypeOK /\ CarryInv /\ LabelInv /\ SharedInv /\ SavedInv
    /\ LabelHonest /\ CurrentIsComplete

-----------------------------------------------------------------------------
Label == {"idle", "queued", "head", "check", "index", "delNodes", "delMeta",
          "nodes", "edges", "meta"}

\* The other writer stays where it is.
Others(p) ==
    \A q \in Proc \ {p} :
        pc'[q] = pc[q] /\ At(q)' = At(q) /\ head'[q] = head[q] /\ got'[q] = got[q]

\* The writer is done with the repository it was at, or dead.
Leaves(p) ==
    /\ Others(p)
    /\ pc'[p] \in {"idle", "head"} /\ head'[p] = None /\ got'[p] = None

(***************************************************************************)
(* What the assumptions and the types give.                                *)
(***************************************************************************)
LEMMA ConstantFacts ==
  /\ \A r \in Repo : /\ DOMAIN Decl[r] = 1..Len(Decl[r]) /\ Len(Decl[r]) \in Nat
                     /\ 1 \in DOMAIN Decl[r] /\ DOMAIN Decl[r] \subseteq Commit
  /\ Commit \subseteq Nat /\ Commit \subseteq Hash
     /\ {NoHash, Unknown} \subseteq Hash
  /\ Order \in Seq(Repo)
  /\ None \notin Hash
  /\ None \notin Nat /\ NoHash \notin Nat /\ Unknown \notin Nat
     /\ NoHash # Unknown
<1>1. \A r \in Repo : /\ DOMAIN Decl[r] = 1..Len(Decl[r]) /\ Len(Decl[r]) \in Nat
                     /\ 1 \in DOMAIN Decl[r]
  BY IndexAssumption
<1>2. \A r \in Repo : DOMAIN Decl[r] \subseteq Commit
  BY DEF Commit
<1>3. Commit \subseteq Nat
  BY <1>1 DEF Commit
<1>. QED
  BY <1>2, <1>3, IndexAssumption DEF Hash

LEMMA AtType ==
  ASSUME Writers, NEW p \in Proc, pc[p] # "idle" PROVE At(p) \in Repo
<1>1. todo[p] \in Seq(Repo) /\ todo[p] # <<>>
  BY DEF Writers
<1>. QED
  BY <1>1 DEF At

LEMMA NextRepoLeaves ==
  ASSUME Writers, NEW p \in Proc, pc[p] # "idle", NextRepo(p)
  PROVE  Writers' /\ Leaves(p)
<1>1. todo[p] \in Seq(Repo) /\ todo[p] # <<>>
  BY DEF Writers
<1>2. Tail(todo[p]) \in Seq(Repo) /\ (Tail(todo[p]) = <<>> <=> Len(todo[p]) = 1)
  <2>. DEFINE s == todo[p]
  <2>1. Tail(s) \in Seq(Repo) /\ Len(Tail(s)) = Len(s) - 1 /\ Len(s) \in Nat
    BY <1>1
  <2>2. Tail(s) = <<>> <=> Len(Tail(s)) = 0
    <3>1. \A t \in Seq(Repo) : t = <<>> <=> Len(t) = 0
      OBVIOUS
    <3>. QED
      BY <2>1, <3>1
  <2>. QED
    BY <2>1, <2>2
<1>. DEFINE t == Tail(todo[p])
            l == IF Len(todo[p]) = 1 THEN "idle" ELSE "head"
<1>3. t \in Seq(Repo) /\ (t = <<>> <=> l = "idle") /\ l \in {"idle", "head"}
  BY <1>2
<1>4. todo' = [todo EXCEPT ![p] = t] /\ pc' = [pc EXCEPT ![p] = l]
  BY DEF NextRepo
<1>. HIDE DEF t, l
<1>5. todo' \in [Proc -> Seq(Repo)] /\ pc' \in [Proc -> Label]
  BY <1>3, <1>4 DEF Writers, Label
<1>6. \A q \in Proc : (todo'[q] = <<>>) <=> (pc'[q] = "idle")
  BY <1>3, <1>4 DEF Writers
<1>. QED
  BY <1>3, <1>5, <1>6 DEF Writers, Leaves, Others, At, NextRepo, Forget

LEMMA GotoStays ==
  ASSUME Writers, NEW p \in Proc, pc[p] # "idle", NEW l \in Label \ {"idle"},
         Goto(p, l),
         NEW h \in Hash \cup {None}, head' = [head EXCEPT ![p] = h],
         NEW g \in Result \cup {None}, got' = [got EXCEPT ![p] = g]
  PROVE  Writers' /\ Others(p) /\ At(p)' = At(p) /\ pc'[p] = l /\ head'[p] = h
         /\ got'[p] = g
  BY DEF Writers, Label, Others, At, Goto

LEMMA ContinueStays ==
  ASSUME Writers, NEW p \in Proc, pc[p] # "idle", NEW l \in Label \ {"idle"},
         Continue(p, l)
  PROVE  Writers' /\ Others(p) /\ At(p)' = At(p) /\ pc'[p] = l
         /\ head'[p] = head[p] /\ got'[p] = got[p]
  BY DEF Writers, Label, Others, At, Goto, Continue

LEMMA Typed ==
  ASSUME TypeOK
  PROVE  /\ tree \in [Repo -> Nat] /\ tree \in [Repo -> Commit]
         /\ nodes \in [Repo -> [Symbol -> Hash \cup {None}]]
         /\ edges \in [Repo -> SUBSET (Symbol \X Symbol)]
         /\ meta \in [Repo -> Hash \cup {None}]
         /\ torn \in [Repo -> BOOLEAN] /\ shared \in [Repo -> BOOLEAN]
         /\ omitted \in [Repo -> SUBSET Symbol]
<1>1. tree \in [Repo -> Commit] /\ Commit \subseteq Nat
  BY ConstantFacts DEF TypeOK
<1>2. tree \in [Repo -> Nat]
  BY <1>1
<1>. QED
  BY <1>2 DEF TypeOK, Tables

LEMMA Carried ==
  ASSUME IInv, NEW p \in Proc, Working(p)
  PROVE  /\ At(p) \in Repo /\ head[p] \in Hash
         /\ got[p] # None => /\ got[p] \in Result /\ got[p].lost \subseteq Symbol
                             /\ got[p].at \in DOMAIN Decl[At(p)] /\ got[p].at \in Commit
<1>1. Writers /\ pc[p] # "idle" /\ Carry(p)
  BY DEF IInv, TypeOK, CarryInv, Working
<1>2. At(p) \in Repo
  BY <1>1, AtType
<1>. QED
  BY <1>1, <1>2 DEF Writers, Carry, Result

LEMMA DeclSymbols ==
  \A r \in Repo : \A c \in DOMAIN Decl[r] : Decl[r][c] \subseteq Symbol
<1>. SUFFICES ASSUME NEW r \in Repo, NEW c \in DOMAIN Decl[r],
     NEW s \in Decl[r][c]
             PROVE  s \in Symbol
  OBVIOUS
<1>1. Decl[r][c] \in {Decl[r][d] : d \in DOMAIN Decl[r]}
  OBVIOUS
<1>2. s \in UNION {Decl[r][d] : d \in DOMAIN Decl[r]}
  OBVIOUS
<1>. QED
  BY DEF Symbol

LEMMA BoundsKept ==
  ASSUME TypeOK, Fault \/ NoFault
  PROVE  runs' \in 0..MaxRuns /\ faults' \in 0..MaxFaults
  BY IndexAssumption DEF TypeOK, Fault, NoFault, bounds

LEMMA InitIInv == Init => IInv
<1>. SUFFICES ASSUME Init PROVE IInv
  OBVIOUS
<1>1. Tables
  BY DEF Init, Tables
<1>2. Writers
  BY DEF Init, Writers
<1>6. /\ tree \in [Repo -> Commit] /\ \A r \in Repo : tree[r] \in DOMAIN Decl[r]
      /\ omitted \in [Repo -> SUBSET Symbol]
      /\ torn \in [Repo -> BOOLEAN] /\ shared \in [Repo -> BOOLEAN]
  BY ConstantFacts DEF Init
<1>7. MaxRuns \in Nat /\ MaxFaults \in Nat
  BY IndexAssumption
<1>8. runs \in 0..MaxRuns /\ faults \in 0..MaxFaults /\ mode \in {"update", "rebuild"}
  BY <1>7 DEF Init
<1>3. TypeOK
  BY <1>1, <1>2, <1>6, <1>8 DEF TypeOK
<1>4. CarryInv /\ SharedInv /\ SavedInv
  BY DEF Init, CarryInv, Carry, SharedInv, SavedInv, Working, Busy
<1>5. LabelInv /\ LabelHonest /\ CurrentIsComplete
  BY ConstantFacts DEF Init, LabelInv, LabelHonest, CurrentIsComplete
<1>. QED
  BY <1>3, <1>4, <1>5 DEF IInv

LEMMA LeavesPreserves ==
  ASSUME IInv, NEW p \in Proc, pc[p] # "idle", Writers', Leaves(p),
         Fault \/ NoFault,
         UNCHANGED <<tree, rows, mode, shared, omitted>>, torn' \in [Repo -> BOOLEAN],
         \A r \in Repo : torn'[r] = (torn[r] \/ (pc[p] = "delMeta" /\ At(p) = r))
  PROVE  IInv'
<1>1. TypeOK'
  BY BoundsKept DEF IInv, TypeOK, Tables, rows, Rows
<1>2. CarryInv'
  BY DEF IInv, Leaves, Others, CarryInv, Carry, Working
<1>3. LabelInv' /\ LabelHonest'
  BY DEF IInv, LabelInv, LabelHonest, rows
<1>4. SharedInv'
  BY DEF IInv, Leaves, Others, SharedInv, Busy
<1>5. SavedInv'
  BY DEF IInv, Leaves, Others, SavedInv, Indexed, Rows, rows
<1>6. CurrentIsComplete'
  <2>1. ASSUME NEW r \in Repo, Deleting(r), ~torn'[r] PROVE Deleting(r)'
    BY <2>1 DEF Deleting, Leaves, Others
  <2>2. ASSUME NEW r \in Repo, ~torn'[r] PROVE ~torn[r]
    BY <2>2
  <2>. QED
    BY <2>1 DEF IInv, CurrentIsComplete, Rows, rows
<1>. QED
  BY <1>1, <1>2, <1>3, <1>4, <1>5, <1>6 DEF IInv

LEMMA CarryKept ==
  ASSUME IInv, NEW p \in Proc, Others(p), UNCHANGED tree, Carry(p)'
  PROVE  CarryInv'
  BY DEF IInv, CarryInv, Carry, Working, Others

LEMMA CurrentKept ==
  ASSUME IInv, NEW p \in Proc, Others(p), UNCHANGED tree,
         \A x \in Repo : Rows(x) \subseteq Rows(x)',
         \A x \in Repo : meta'[x] = tree[x] /\ ~torn'[x] /\ ~shared'[x] =>
            meta[x] = tree[x] /\ ~torn[x] /\ ~shared[x] /\ omitted[x] \subseteq omitted'[x]
            /\ (pc[p] = "delMeta" => At(p) # x)
  PROVE  CurrentIsComplete'
<1>1. ASSUME NEW x \in Repo, Deleting(x), pc[p] = "delMeta" => At(p) # x
      PROVE  Deleting(x)'
  BY <1>1 DEF Deleting, Others
<1>2. ASSUME NEW x \in Repo,
             (meta[x] = tree[x] /\ ~torn[x] /\ ~shared[x] /\ ~Deleting(x))'
             PROVE  Decl[x][tree[x]] \ omitted'[x] \subseteq Rows(x)'
  <2>1. meta[x] = tree[x] /\ ~torn[x] /\ ~shared[x] /\ ~Deleting(x)
        /\ omitted[x] \subseteq omitted'[x]
    BY <1>1, <1>2
  <2>2. Decl[x][tree[x]] \ omitted[x] \subseteq Rows(x)
    BY <2>1 DEF IInv, CurrentIsComplete
  <2>. QED
    BY <2>1, <2>2
<1>. QED
  BY <1>2 DEF CurrentIsComplete

LEMMA NextRepoPreserves ==
  ASSUME IInv, NEW p \in Proc, pc[p] \notin {"idle", "delMeta"}, NextRepo(p),
         Fault \/ NoFault,
         UNCHANGED <<tree, rows, mode, shared, omitted, torn>>
  PROVE  IInv'
<1>1. Writers /\ torn' \in [Repo -> BOOLEAN]
      /\ \A r \in Repo : torn'[r] = (torn[r] \/ (pc[p] = "delMeta" /\ At(p) = r))
  BY DEF IInv, TypeOK
<1>2. Writers' /\ Leaves(p)
  BY <1>1, NextRepoLeaves
<1>. QED
  BY <1>1, <1>2, LeavesPreserves

LEMMA ReadHeadPreserves == ASSUME IInv, NEW p \in Proc, ReadHead(p) PROVE IInv'
<1>. DEFINE r == At(p)
<1>1. Writers /\ r \in Repo /\ pc[p] = "head"
  BY AtType DEF IInv, TypeOK, ReadHead
<1>2. CASE Lang[r] = "unknown"
  BY <1>2, NextRepoPreserves DEF ReadHead
<1>3. CASE Lang[r] # "unknown"
  <2>1. PICK h \in {tree[r], Unknown, NoHash},
        l \in {"index", "delNodes", "check"} :
          head' = [head EXCEPT ![p] = h] /\ Goto(p, l)
          /\ (p = "nightly" => l = "index") /\ (Fault \/ NoFault)
    BY <1>3 DEF ReadHead, Rebuilds
  <2>2. h \in Hash /\ got' = [got EXCEPT ![p] = got[p]] /\ got[p] = None
        /\ (h \in Nat => h = tree[r])
    BY <1>1, <1>3, <2>1, ConstantFacts, Typed
       DEF IInv, ReadHead, CarryInv, Carry, Working, Writers
  <2>3. Writers' /\ Others(p) /\ At(p)' = At(p) /\ pc'[p] = l /\ head'[p] = h
        /\ got'[p] = None
    <3>1. l \in Label \ {"idle"} /\ got'[p] = None
      BY <1>1, <2>1, <2>2 DEF Label, Writers
    <3>. QED
      BY <1>1, <2>1, <2>2, <3>1, GotoStays DEF IInv, TypeOK
  <2>4. UNCHANGED <<tree, rows, mode, torn, omitted>> /\ shared' \in [Repo -> BOOLEAN]
        /\ (\A x \in Repo : shared[x] => shared'[x])
           /\ (\A q \in Proc \ {p} : Busy(q, r) => shared'[r])
    BY <1>1, <1>3, Typed DEF IInv, ReadHead
  <2>5. TypeOK'
    BY <2>1, <2>2, <2>3, <2>4, BoundsKept DEF IInv, TypeOK, Tables, Rows, rows
  <2>6. CarryInv'
    <3>1. Carry(p) /\ tree[r] <= tree[r]
      BY <1>1, Typed DEF IInv, CarryInv
    <3>2. Carry(p)'
      BY <2>2, <2>3, <2>4, <2>1, ConstantFacts DEF Carry
    <3>. QED
      BY <2>3, <2>4, <3>2, CarryKept
  <2>7. LabelInv'
    BY <2>2, <2>4 DEF IInv, LabelInv, rows
  <2>8. SharedInv'
    BY <2>2, <2>3, <2>4 DEF IInv, SharedInv, Busy, Others
  <2>9. SavedInv'
    BY <1>1, <2>2, <2>3, <2>4, AtType DEF IInv, SavedInv, Indexed, Rows, rows, Others
  <2>10. LabelHonest'
    BY <2>2, <2>4 DEF IInv, LabelHonest, rows
  <2>11. CurrentIsComplete'
    <3>1. \A x \in Repo : Rows(x) \subseteq Rows(x)'
      BY <2>3, <2>4 DEF Rows, rows
    <3>. QED
      BY <1>1, <2>3, <2>4, <3>1, CurrentKept DEF rows
  <2>. QED
    BY <2>5, <2>6, <2>7, <2>8, <2>9, <2>10, <2>11 DEF IInv
<1>. QED
  BY <1>2, <1>3

LEMMA CheckMetaPreserves == ASSUME IInv, NEW p \in Proc, CheckMeta(p) PROVE IInv'
<1>1. Writers /\ At(p) \in Repo /\ pc[p] = "check" /\ (Fault \/ NoFault)
      /\ UNCHANGED <<tree, rows, mode, torn, shared, omitted>>
  BY AtType DEF IInv, TypeOK, CheckMeta
<1>2. CASE NextRepo(p)
  BY <1>1, <1>2, NextRepoPreserves
<1>3. CASE Continue(p, "index")
  <2>1. Writers' /\ Others(p) /\ At(p)' = At(p) /\ pc'[p] = "index"
        /\ head'[p] = head[p] /\ got'[p] = got[p]
    BY <1>1, <1>3, ContinueStays DEF Label
  <2>2. TypeOK'
    BY <1>1, <2>1, ConstantFacts, BoundsKept DEF IInv, TypeOK, Tables, Rows, rows
  <2>3. CarryInv'
    BY <1>1, <2>1, Typed DEF IInv, CarryInv, Carry, Working, Others
  <2>4. LabelInv'
    BY <1>1, Typed DEF IInv, LabelInv, rows
  <2>5. SharedInv'
    BY <1>1, <2>1, Typed DEF IInv, SharedInv, Busy, Others
  <2>6. SavedInv'
    BY <1>1, <2>1, Typed DEF IInv, SavedInv, Indexed, Rows, rows, Others
  <2>7. LabelHonest'
    BY <1>1, Typed DEF IInv, LabelHonest, rows
  <2>8. CurrentIsComplete'
    <3>1. \A x \in Repo : Rows(x) \subseteq Rows(x)'
      BY <1>1 DEF Rows, rows
    <3>. QED
      BY <1>1, <2>1, <3>1, CurrentKept DEF rows
  <2>. QED
    BY <2>2, <2>3, <2>4, <2>5, <2>6, <2>7, <2>8 DEF IInv
<1>. QED
  BY <1>2, <1>3 DEF CheckMeta

LEMMA IndexPreserves == ASSUME IInv, NEW p \in Proc, Index(p) PROVE IInv'
<1>. DEFINE r == At(p)
<1>1. Writers /\ At(p) \in Repo /\ pc[p] = "index" /\ NoFault
      /\ UNCHANGED <<tree, rows, mode, torn, shared, omitted>>
  BY AtType DEF IInv, TypeOK, Index, NoFault
<1>2. CASE <<r, tree[r]>> \in Broken
  BY <1>1, <1>2, NextRepoPreserves DEF Index
<1>3. CASE <<r, tree[r]>> \notin Broken
  <2>1. PICK l \in {"nodes", "delNodes"}, lost \in Lapses[r][tree[r]] :
            Goto(p, l) /\ got' = [got EXCEPT ![p] = [at |-> tree[r], lost |-> lost]]
    BY <1>3 DEF Index
  <2>. DEFINE g == [at |-> tree[r], lost |-> lost]
  <2>2. tree[r] \in DOMAIN Decl[r] /\ tree[r] \in Commit /\ head[p] \in Hash
        /\ head' = [head EXCEPT ![p] = head[p]]
    BY <1>3, ConstantFacts, Carried DEF IInv, Index, TypeOK, Writers, Working
  <2>11. g \in Result /\ g # None /\ g.at = tree[r]
    <3>1. lost \subseteq Symbol
      BY <1>1, <2>1, <2>2, IndexAssumption
    <3>. QED
      BY <2>2, <3>1, IndexAssumption DEF Result
  <2>12. got' = [got EXCEPT ![p] = g]
    BY <2>1
  <2>. HIDE DEF g
  <2>3. Writers' /\ Others(p) /\ At(p)' = At(p) /\ pc'[p] = l
        /\ head'[p] = head[p] /\ got'[p] = g
    BY <1>1, <2>1, <2>2, <2>11, <2>12, GotoStays DEF Label
  <2>4. TypeOK'
    BY <1>1, <2>3, BoundsKept DEF IInv, TypeOK, Tables, Rows, rows
  <2>5. CarryInv'
    <3>1. Carry(p) /\ tree[r] <= tree[r]
      BY <1>1, Typed DEF IInv, CarryInv
    <3>2. Carry(p)'
      BY <1>1, <2>2, <2>3, <2>11, <3>1, ConstantFacts DEF Carry, Working
    <3>. QED
      BY <1>1, <2>3, <3>2, CarryKept
  <2>6. LabelInv'
    BY <1>1, <2>3 DEF IInv, LabelInv, rows
  <2>7. SharedInv'
    BY <1>1, <2>3 DEF IInv, SharedInv, Busy, Others
  <2>8. SavedInv'
    BY <1>1, <2>3 DEF IInv, SavedInv, Indexed, Rows, rows, Others
  <2>9. LabelHonest'
    BY <1>1, <2>3 DEF IInv, LabelHonest, rows
  <2>10. CurrentIsComplete'
    <3>1. \A x \in Repo : Rows(x) \subseteq Rows(x)'
      BY <1>1, <2>3 DEF Rows, rows
    <3>. QED
      BY <1>1, <2>3, <3>1, CurrentKept DEF rows
  <2>. QED
    BY <2>4, <2>5, <2>6, <2>7, <2>8, <2>9, <2>10 DEF IInv
<1>. QED
  BY <1>2, <1>3

LEMMA DeleteNodesPreserves ==
  ASSUME IInv, NEW p \in Proc, DeleteNodes(p) PROVE IInv'
<1>. DEFINE r == At(p)
<1>1. Writers /\ At(p) \in Repo /\ pc[p] = "delNodes" /\ (Fault \/ NoFault)
      /\ UNCHANGED <<tree, meta, mode, torn, shared, omitted>>
  BY AtType DEF IInv, TypeOK, DeleteNodes
<1>2. CASE NextRepo(p) /\ UNCHANGED <<tree, rows, mode, torn, shared, omitted>>
  BY <1>1, <1>2, NextRepoPreserves
<1>3. CASE Continue(p, "delMeta")
           /\ nodes' = [nodes EXCEPT ![r] = [s \in Symbol |-> None]]
              /\ edges' = [edges EXCEPT ![r] = {}]
  <2>1. Writers' /\ Others(p) /\ At(p)' = At(p) /\ pc'[p] = "delMeta"
        /\ head'[p] = head[p] /\ got'[p] = got[p]
    BY <1>1, <1>3, ContinueStays DEF Label
  <2>2. TypeOK'
    BY <1>1, <1>3, <2>1, BoundsKept DEF IInv, TypeOK, Tables, Rows
  <2>3. CarryInv'
    BY <1>1, <2>1 DEF IInv, CarryInv, Carry, Working, Others
  <2>4. LabelInv'
    BY <1>1, <1>3, <2>1, ConstantFacts DEF IInv, LabelInv
  <2>5. SharedInv'
    BY <1>1, <2>1 DEF IInv, SharedInv, Busy, Others
  <2>6. SavedInv'
    BY <1>1, <1>3, <2>1 DEF IInv, SavedInv, Indexed, Rows, SharedInv, Busy, Others
  <2>7. LabelHonest'
    BY <1>1, <1>3, <2>1, Typed, ConstantFacts DEF IInv, LabelHonest
  <2>8. CurrentIsComplete'
    BY <1>1, <1>3, <2>1 DEF IInv, CurrentIsComplete, Rows, Deleting, Others
  <2>. QED
    BY <2>2, <2>3, <2>4, <2>5, <2>6, <2>7, <2>8 DEF IInv
<1>. QED
  BY <1>2, <1>3 DEF DeleteNodes, rows

LEMMA SaveNodesPreserves == ASSUME IInv, NEW p \in Proc, SaveNodes(p) PROVE IInv'
<1>. DEFINE r == At(p)
<1>1. Writers /\ At(p) \in Repo /\ pc[p] = "nodes" /\ (Fault \/ NoFault)
      /\ UNCHANGED <<tree, edges, meta, mode, torn, shared>>
  BY AtType DEF IInv, TypeOK, SaveNodes
<1>2. CASE NextRepo(p) /\ UNCHANGED <<tree, rows, mode, torn, shared, omitted>>
  BY <1>1, <1>2, NextRepoPreserves
<1>3. CASE Continue(p, "edges")
           /\ nodes' = [nodes EXCEPT ![r] =
                [s \in Symbol |-> IF s \in Indexed(p) THEN head[p] ELSE @[s]]]
           /\ omitted' = [omitted EXCEPT ![r] = @ \cup got[p].lost]
  <2>1. Writers' /\ Others(p) /\ At(p)' = At(p) /\ pc'[p] = "edges"
        /\ head'[p] = head[p] /\ got'[p] = got[p]
    BY <1>1, <1>3, ContinueStays DEF Label
  <2>9. /\ omitted' \in [Repo -> SUBSET Symbol] /\ got[p].lost \subseteq omitted'[r]
        /\ \A x \in Repo : omitted[x] \subseteq omitted'[x]
    BY <1>1, <1>3, Typed, Carried DEF IInv, Working, CarryInv, Carry
  <2>10. Indexed(p) \subseteq Decl[r][got[p].at] /\ Indexed(p)' = Indexed(p)
    BY <2>1 DEF Indexed
  <2>2. TypeOK'
    <3>1. head[p] \in Hash /\ None \notin Hash
      BY <1>1, Carried, ConstantFacts DEF Working
    <3>2. \A x \in Repo : Rows(x) \subseteq Rows(x)'
      BY <1>3, <3>1 DEF Rows
    <3>3. nodes' \in [Repo -> [Symbol -> Hash \cup {None}]]
      BY <1>3, <3>1, Typed DEF IInv
    <3>4. \A x \in Repo : edges'[x] \subseteq Rows(x)' \X Rows(x)'
      BY <1>1, <3>2 DEF IInv, TypeOK, Tables
    <3>. QED
      BY <1>1, <2>1, <2>9, <3>3, <3>4, BoundsKept DEF IInv, TypeOK, Tables
  <2>3. CarryInv'
    BY <1>1, <2>1 DEF IInv, CarryInv, Carry, Working, Others
  <2>4. LabelInv'
    BY <1>1, <1>3, <2>1 DEF IInv, LabelInv, CarryInv, Carry
  <2>5. SharedInv'
    BY <1>1, <2>1 DEF IInv, SharedInv, Busy, Others
  <2>6. SavedInv'
    <3>1. head[p] # None /\ Indexed(p) \subseteq Symbol
          /\ \A x \in Repo : Rows(x) \subseteq Rows(x)'
      <4>1. Working(p) /\ Carry(p) /\ got[p] # None /\ head[p] # None
        BY <1>1 DEF IInv, CarryInv, Carry
      <4>2. Indexed(p) \subseteq Symbol
        BY <2>10, <4>1, Carried, DeclSymbols
      <4>. QED
        BY <1>3, <4>1, <4>2 DEF Rows
    <3>2. Indexed(p) \subseteq Rows(r)'
      <4>1. \A s \in Symbol :
            nodes'[r][s] = IF s \in Indexed(p) THEN head[p] ELSE nodes[r][s]
        BY <1>1, <1>3, Typed DEF IInv
      <4>. QED
        BY <2>1, <3>1, <4>1 DEF Rows
    <3>3. ASSUME NEW q \in Proc \ {p}, pc[q] \in {"edges", "meta"}, ~shared[At(q)]
          PROVE  Indexed(q) \subseteq Rows(At(q))' /\ got[q].lost \subseteq omitted'[At(q)]
      <4>1. At(q) \in Repo
        BY <3>3, AtType DEF IInv, TypeOK
      <4>2. Indexed(q) \subseteq Rows(At(q)) /\ got[q].lost \subseteq omitted[At(q)]
        BY <3>3 DEF IInv, SavedInv
      <4>3. Rows(At(q)) \subseteq Rows(At(q))' /\ omitted[At(q)] \subseteq omitted'[At(q)]
        <5>. DEFINE x == At(q)
        <5>1. x \in Repo
          BY <4>1
        <5>2. Rows(x) \subseteq Rows(x)' /\ x' = x
          BY <2>1, <3>1, <5>1 DEF Others
        <5>. QED
          BY <2>9, <5>1, <5>2
      <4>. QED
        BY <4>2, <4>3
    <3>. QED
      BY <1>1, <2>1, <2>9, <2>10, <3>2, <3>3 DEF SavedInv, Others, Indexed
  <2>7. LabelHonest'
    <3>1. ASSUME NEW s \in Indexed(p), head[p] = tree[r]
          PROVE  s \in Decl[r][tree[r]]
      <4>1. /\ Carry(p) /\ tree[r] \in Nat /\ got[p] # None /\ got[p].at \in Nat
        BY <1>1, Typed, Carried, ConstantFacts DEF IInv, CarryInv, Carry, Working
      <4>2. got[p].at = tree[r]
        BY <1>1, <3>1, <4>1 DEF Carry, Working
      <4>. QED
        BY <2>10, <3>1, <4>2
    <3>2. ASSUME NEW x \in Repo, NEW s \in Symbol, nodes'[x][s] = tree[x]
          PROVE  s \in Decl[x][tree[x]]
      <4>1. nodes'[x][s] = nodes[x][s] \/ (x = r /\ s \in Indexed(p) /\ nodes'[x][s] = head[p])
        BY <1>1, <1>3, Typed DEF IInv
      <4>. QED
        BY <3>1, <3>2, <4>1 DEF IInv, LabelHonest
    <3>. QED
      BY <1>1, <3>2 DEF LabelHonest
  <2>8. CurrentIsComplete'
    <3>1. \A x \in Repo : Rows(x) \subseteq Rows(x)'
      BY <1>1, <1>3, Typed, Carried, ConstantFacts DEF Rows, Working
    <3>. QED
      BY <1>1, <2>1, <2>9, <3>1, CurrentKept
  <2>. QED
    BY <2>2, <2>3, <2>4, <2>5, <2>6, <2>7, <2>8 DEF IInv
<1>. QED
  BY <1>2, <1>3 DEF SaveNodes, rows

LEMMA SaveEdgesPreserves == ASSUME IInv, NEW p \in Proc, SaveEdges(p) PROVE IInv'
<1>. DEFINE r == At(p)
<1>1. Writers /\ At(p) \in Repo /\ pc[p] = "edges" /\ (Fault \/ NoFault)
      /\ UNCHANGED <<tree, nodes, meta, mode, torn, shared, omitted>>
  BY AtType DEF IInv, TypeOK, SaveEdges
<1>2. CASE NextRepo(p) /\ UNCHANGED <<tree, rows, mode, torn, shared, omitted>>
  BY <1>1, <1>2, NextRepoPreserves
<1>3. CASE Continue(p, "meta")
           /\ (\/ UNCHANGED edges
               \/ edges' = [edges EXCEPT ![r] =
                               @ \cup Storable(Found(r, got[p].at, got[p].lost), Rows(r))])
  <2>1. Writers' /\ Others(p) /\ At(p)' = At(p) /\ pc'[p] = "meta"
        /\ head'[p] = head[p] /\ got'[p] = got[p]
    BY <1>1, <1>3, ContinueStays DEF Label
  <2>2. TypeOK'
    <3>1. edges' \in [Repo -> SUBSET (Symbol \X Symbol)]
          /\ \A x \in Repo : edges'[x] \subseteq Rows(x) \X Rows(x)
      <4>1. CASE UNCHANGED edges
        BY <4>1 DEF IInv, TypeOK, Tables
      <4>2. CASE edges' = [edges EXCEPT ![r] =
                                @ \cup Storable(Found(r, got[p].at, got[p].lost), Rows(r))]
        <5>1. Storable(Found(r, got[p].at, got[p].lost), Rows(r)) \subseteq Rows(r) \X Rows(r)
          BY DEF Storable, Found, CallEdge, ImportEdge
        <5>. QED
          BY <1>1, <4>2, <5>1 DEF IInv, TypeOK, Tables, Rows
      <4>. QED
        BY <1>3, <4>1, <4>2
    <3>2. \A x \in Repo : Rows(x)' = Rows(x)
      BY <1>1 DEF Rows
    <3>. QED
      BY <1>1, <2>1, <3>1, <3>2, BoundsKept DEF IInv, TypeOK, Tables
  <2>3. CarryInv'
    BY <1>1, <2>1 DEF IInv, CarryInv, Carry, Working, Others
  <2>4. LabelInv'
    BY <1>1, <2>1 DEF IInv, LabelInv
  <2>5. SharedInv'
    BY <1>1, <2>1 DEF IInv, SharedInv, Busy, Others
  <2>6. SavedInv'
    BY <1>1, <2>1 DEF IInv, SavedInv, Indexed, Rows, Others
  <2>7. LabelHonest'
    BY <1>1, <2>1 DEF IInv, LabelHonest
  <2>8. CurrentIsComplete'
    <3>1. \A x \in Repo : Rows(x) \subseteq Rows(x)'
      BY <1>1, <2>1 DEF Rows
    <3>. QED
      BY <1>1, <2>1, <3>1, CurrentKept
  <2>. QED
    BY <2>2, <2>3, <2>4, <2>5, <2>6, <2>7, <2>8 DEF IInv
<1>. QED
  BY <1>2, <1>3 DEF SaveEdges, rows

LEMMA DeleteMetaPreserves ==
  ASSUME IInv, NEW p \in Proc, DeleteMeta(p) PROVE IInv'
<1>. DEFINE r == At(p)
<1>1. Writers /\ At(p) \in Repo /\ pc[p] = "delMeta" /\ (Fault \/ NoFault)
      /\ UNCHANGED <<tree, nodes, edges, mode>>
  BY AtType DEF IInv, TypeOK, DeleteMeta
<1>2. CASE NextRepo(p) /\ torn' = [torn EXCEPT ![r] = TRUE]
           /\ UNCHANGED <<meta, shared, omitted>>
  <2>1. torn' \in [Repo -> BOOLEAN]
        /\ \A s \in Repo : torn'[s] = (torn[s] \/ (pc[p] = "delMeta" /\ At(p) = s))
    BY <1>1, <1>2, Typed DEF IInv
  <2>2. Writers' /\ Leaves(p)
    BY <1>1, <1>2, NextRepoLeaves
  <2>. QED
    BY <1>1, <1>2, <2>1, <2>2, LeavesPreserves DEF rows
<1>3. ASSUME NEW l \in {"nodes", "index"}, p = "nightly" => l = "nodes",
             p # "nightly" => l = "index", Continue(p, l),
             meta' = [meta EXCEPT ![r] = None], torn' = [torn EXCEPT ![r] = FALSE],
             shared' = [shared EXCEPT ![r] = \E q \in Proc \ {p} : Busy(q, r)],
             omitted' = [omitted EXCEPT ![r] = {}]
      PROVE IInv'
  <2>1. Writers' /\ Others(p) /\ At(p)' = At(p) /\ pc'[p] = l
        /\ head'[p] = head[p] /\ got'[p] = got[p]
    BY <1>1, <1>3, ContinueStays DEF Label
  <2>2. TypeOK'
    BY <1>1, <1>3, <2>1, BoundsKept DEF IInv, TypeOK, Tables, Rows
  <2>3. CarryInv'
    BY <1>1, <1>3, <2>1 DEF IInv, CarryInv, Carry, Working, Others
  <2>4. LabelInv'
    BY <1>1, <1>3, <2>1, ConstantFacts DEF IInv, LabelInv
  <2>5. SharedInv'
    BY <1>1, <1>3, <2>1 DEF IInv, SharedInv, Busy, Others
  <2>6. SavedInv'
    BY <1>1, <1>3, <2>1 DEF IInv, SavedInv, Indexed, Rows, SharedInv, Busy, Others
  <2>7. LabelHonest'
    BY <1>1, <2>1 DEF IInv, LabelHonest
  <2>8. CurrentIsComplete'
    <3>1. \A x \in Repo : Rows(x) \subseteq Rows(x)'
      BY <1>1 DEF Rows
    <3>2. \A x \in Repo : meta'[x] = tree[x] => x # r /\ meta'[x] = meta[x]
          /\ torn'[x] = torn[x] /\ shared'[x] = shared[x] /\ omitted'[x] = omitted[x]
      BY <1>3, Typed, ConstantFacts DEF IInv
    <3>. QED
      BY <1>1, <2>1, <3>1, <3>2, CurrentKept
  <2>. QED
    BY <2>2, <2>3, <2>4, <2>5, <2>6, <2>7, <2>8 DEF IInv
<1>. QED
  BY <1>2, <1>3 DEF DeleteMeta

LEMMA SaveMetadataPreserves ==
  ASSUME IInv, NEW p \in Proc, SaveMetadata(p) PROVE IInv'
<1>. DEFINE r == At(p)
<1>1. Writers /\ At(p) \in Repo /\ pc[p] = "meta" /\ (Fault \/ NoFault)
      /\ UNCHANGED <<tree, nodes, edges, mode, torn, shared, omitted>> /\ NextRepo(p)
  BY AtType DEF IInv, TypeOK, SaveMetadata
<1>2. CASE UNCHANGED meta
  BY <1>1, <1>2, NextRepoPreserves DEF rows
<1>3. CASE meta' = [meta EXCEPT ![r] = head[p]]
  <2>1. Writers' /\ Others(p) /\ Leaves(p)
    BY <1>1, NextRepoLeaves DEF Leaves
  <2>2. TypeOK'
    <3>1. head[p] \in Hash
      BY <1>1, Carried DEF Working
    <3>2. meta' \in [Repo -> Hash \cup {None}]
      BY <1>3, <3>1, Typed DEF IInv
    <3>. QED
      BY <1>1, <2>1, <3>2, BoundsKept DEF IInv, TypeOK, Tables, Rows
  <2>3. CarryInv'
    BY <1>1, <2>1 DEF IInv, CarryInv, Carry, Working, Others, Leaves
  <2>4. LabelInv'
    BY <1>1, <1>3, <2>1 DEF IInv, LabelInv, CarryInv, Carry
  <2>5. SharedInv'
    BY <1>1, <2>1 DEF IInv, SharedInv, Busy, Others, Leaves
  <2>6. SavedInv'
    BY <1>1, <2>1 DEF IInv, SavedInv, Indexed, Rows, Others, Leaves
  <2>7. LabelHonest'
    BY <1>1, <2>1 DEF IInv, LabelHonest
  <2>8. CurrentIsComplete'
    <3>1. ASSUME NEW x \in Repo, x # r,
                 (meta[x] = tree[x] /\ ~torn[x] /\ ~shared[x] /\ ~Deleting(x))'
          PROVE  (Decl[x][tree[x]] \ omitted[x] \subseteq Rows(x))'
      <4>1. Deleting(x) => Deleting(x)'
        BY <1>1, <2>1 DEF Deleting, Others
      <4>2. meta[x] = tree[x] /\ ~torn[x] /\ ~shared[x] /\ ~Deleting(x)
        BY <1>1, <1>3, <3>1, <4>1
      <4>. QED
        BY <1>1, <4>2 DEF IInv, CurrentIsComplete, Rows
    <3>2. ASSUME NEW x \in Repo, x = r, (meta[x] = tree[x] /\ ~shared[x])'
          PROVE  (Decl[x][tree[x]] \ omitted[x] \subseteq Rows(x))'
      <4>1. Carry(p) /\ tree[x] \in Nat /\ got[p].at \in Nat
        BY <1>1, Typed, Carried, ConstantFacts DEF Working, IInv, CarryInv, Carry
      <4>2. head[p] = tree[x] /\ ~shared[x]
        BY <1>1, <1>3, <3>2, Typed DEF IInv
      <4>3. got[p].at = tree[x]
        BY <1>1, <3>2, <4>1, <4>2 DEF Carry
      <4>. QED
        BY <1>1, <3>2, <4>2, <4>3 DEF IInv, SavedInv, Indexed, Rows
    <3>. QED
      BY <3>1, <3>2 DEF CurrentIsComplete
  <2>. QED
    BY <2>2, <2>3, <2>4, <2>5, <2>6, <2>7, <2>8 DEF IInv
<1>. QED
  BY <1>2, <1>3 DEF SaveMetadata

LEMMA CrashPreserves == ASSUME IInv, NEW p \in Proc, Crash(p) PROVE IInv'
<1>1. Writers' /\ Leaves(p)
  BY DEF IInv, TypeOK, Crash, Writers, Leaves, Others, At, Forget
<1>2. torn' \in [Repo -> BOOLEAN]
      /\ \A r \in Repo : torn'[r] = (torn[r] \/ (pc[p] = "delMeta" /\ At(p) = r))
  BY DEF Crash
<1>. QED
  BY <1>1, LeavesPreserves DEF Crash

LEMMA StartNightPreserves == ASSUME IInv, StartNight PROVE IInv'
<1>. DEFINE p == "nightly"
<1>1. Writers' /\ Others(p) /\ pc'[p] = "queued" /\ pc[p] = "idle"
      /\ UNCHANGED <<head, got>>
         /\ UNCHANGED <<tree, rows, mode, torn, shared, omitted, bounds>>
  BY IndexAssumption DEF IInv, TypeOK, StartNight, Writers, Others, At, Proc
<1>2. TypeOK'
  BY <1>1, BoundsKept DEF IInv, TypeOK, Tables, Rows, rows, NoFault
<1>3. CarryInv'
  <2>1. Carry(p)'
    BY <1>1 DEF IInv, CarryInv, Carry, Working, Proc
  <2>. QED
    BY <1>1, <2>1, CarryKept DEF Proc
<1>4. LabelInv'
  BY <1>1 DEF IInv, LabelInv, rows
<1>5. SharedInv'
  BY <1>1 DEF SharedInv, Busy, Proc
<1>6. SavedInv'
  BY <1>1 DEF IInv, SavedInv, Indexed, Rows, rows, Others
<1>7. LabelHonest'
  BY <1>1 DEF IInv, LabelHonest, rows
<1>8. CurrentIsComplete'
  <2>1. \A x \in Repo : Rows(x) \subseteq Rows(x)'
    BY <1>1 DEF Rows, rows
  <2>. QED
    BY <1>1, <2>1, CurrentKept DEF rows, Proc
<1>. QED
  BY <1>2, <1>3, <1>4, <1>5, <1>6, <1>7, <1>8 DEF IInv

LEMMA AcquireSlotPreserves == ASSUME IInv, AcquireSlot PROVE IInv'
<1>. DEFINE p == "nightly"
<1>1. Writers' /\ Others(p) /\ pc'[p] = "head" /\ pc[p] = "queued"
      /\ UNCHANGED <<head, got>>
         /\ UNCHANGED <<tree, rows, mode, torn, shared, omitted, bounds>>
  BY IndexAssumption DEF IInv, TypeOK, AcquireSlot, Writers, Others, At, Proc
<1>2. TypeOK'
  BY <1>1, BoundsKept DEF IInv, TypeOK, Tables, Rows, rows, NoFault
<1>3. CarryInv'
  <2>1. Carry(p)'
    BY <1>1 DEF IInv, CarryInv, Carry, Working, Proc
  <2>. QED
    BY <1>1, <2>1, CarryKept DEF Proc
<1>4. LabelInv'
  BY <1>1 DEF IInv, LabelInv, rows
<1>5. SharedInv'
  BY <1>1 DEF SharedInv, Busy, Proc
<1>6. SavedInv'
  BY <1>1 DEF IInv, SavedInv, Indexed, Rows, rows, Others
<1>7. LabelHonest'
  BY <1>1 DEF IInv, LabelHonest, rows
<1>8. CurrentIsComplete'
  <2>1. \A x \in Repo : Rows(x) \subseteq Rows(x)'
    BY <1>1 DEF Rows, rows
  <2>. QED
    BY <1>1, <2>1, CurrentKept DEF rows, Proc
<1>. QED
  BY <1>2, <1>3, <1>4, <1>5, <1>6, <1>7, <1>8 DEF IInv

LEMMA StartCommandPreserves ==
  ASSUME IInv, NEW m \in {"update", "rebuild"}, NEW s \in Seq(Repo),
         StartCommand(m, s) PROVE IInv'
<1>. DEFINE p == "cli"
<1>1. Writers' /\ Others(p) /\ pc'[p] = "head" /\ pc[p] = "idle"
      /\ UNCHANGED <<head, got>> /\ UNCHANGED <<tree, rows, torn, shared, omitted, faults>>
         /\ mode' = m /\ runs' = runs + 1 /\ runs < MaxRuns
  <2>1. s # <<>>
    BY DEF StartCommand
  <2>. QED
    BY IndexAssumption DEF IInv, TypeOK, StartCommand, Writers, Others, At, Proc
<1>2. TypeOK'
  BY <1>1, IndexAssumption DEF IInv, TypeOK, Tables, Rows, rows
<1>3. CarryInv'
  BY <1>1 DEF IInv, CarryInv, Carry, Working, Others
<1>4. LabelInv'
  BY <1>1 DEF IInv, LabelInv, rows
<1>5. SharedInv'
  BY <1>1 DEF SharedInv, Busy, Proc
<1>6. SavedInv'
  BY <1>1 DEF IInv, SavedInv, Indexed, Rows, rows, Others
<1>7. LabelHonest'
  BY <1>1 DEF IInv, LabelHonest, rows
<1>8. CurrentIsComplete'
  <2>1. \A x \in Repo : Rows(x) \subseteq Rows(x)'
    BY <1>1 DEF Rows, rows
  <2>. QED
    BY <1>1, <2>1, CurrentKept DEF rows, Proc
<1>. QED
  BY <1>2, <1>3, <1>4, <1>5, <1>6, <1>7, <1>8 DEF IInv

LEMMA PullPreserves == ASSUME IInv, NEW r \in Repo, Pull(r) PROVE IInv'
<1>1. /\ tree' = [tree EXCEPT ![r] = @ + 1] /\ tree[r] + 1 \in DOMAIN Decl[r]
         /\ tree[r] \in Nat
      /\ tree[r] + 1 \in Commit
      /\ UNCHANGED <<rows, writer, torn, shared, omitted, bounds>> /\ Writers'
      /\ \A q \in Proc : pc'[q] = pc[q] /\ At(q)' = At(q) /\ head'[q] = head[q]
         /\ got'[q] = got[q]
  BY ConstantFacts DEF IInv, TypeOK, Pull, Writers, At, writer
<1>2. TypeOK'
  <2>1. tree' \in [Repo -> Commit] /\ \A x \in Repo : tree'[x] \in DOMAIN Decl[x]
    BY <1>1 DEF IInv, TypeOK
  <2>. QED
    BY <1>1 DEF IInv, TypeOK, Tables, rows, Rows, bounds, writer
<1>3. CarryInv'
  <2>1. \A x \in Repo : tree[x] <= tree'[x]
    BY <1>1, Typed DEF IInv
  <2>2. ASSUME NEW q \in Proc PROVE Carry(q)'
    <3>1. CASE Working(q)
      <4>1. /\ At(q) \in Repo /\ Carry(q) /\ tree[At(q)] \in Nat
               /\ tree'[At(q)] \in Nat
            /\ head[q] \in Nat \/ head[q] \notin Nat
            /\ got[q] # None => got[q].at \in Nat
        BY <1>1, <3>1, Typed, Carried, ConstantFacts DEF IInv, CarryInv
      <4>. QED
        BY <1>1, <3>1, <4>1 DEF Carry, Working
    <3>2. CASE ~Working(q)
      BY <1>1, <3>2 DEF IInv, CarryInv, Carry, Working
    <3>. QED
      BY <3>1, <3>2
  <2>. QED
    BY <2>2 DEF CarryInv
<1>4. LabelInv'
  BY <1>1 DEF IInv, LabelInv, rows
<1>5. SharedInv'
  BY <1>1 DEF IInv, SharedInv, Busy
<1>6. SavedInv'
  BY <1>1 DEF IInv, SavedInv, Indexed, Rows, rows
<1>7. LabelHonest'
  BY <1>1, ConstantFacts DEF IInv, LabelHonest, LabelInv, rows
<1>8. CurrentIsComplete'
  <2>1. \A x \in Repo : Deleting(x)' = Deleting(x)
    BY <1>1 DEF Deleting
  <2>2. meta'[r] # tree'[r]
    BY <1>1, Typed DEF IInv, LabelInv, rows
  <2>. QED
    BY <1>1, <2>1, <2>2 DEF IInv, CurrentIsComplete, Rows, rows
<1>. QED
  BY <1>2, <1>3, <1>4, <1>5, <1>6, <1>7, <1>8 DEF IInv

LEMMA NextIInv == IInv /\ [Next]_vars => IInv'
<1>. SUFFICES ASSUME IInv, [Next]_vars PROVE IInv'
  OBVIOUS
<1>1. CASE StartNight \/ AcquireSlot
  BY <1>1, StartNightPreserves, AcquireSlotPreserves
<1>2. ASSUME NEW m \in {"update", "rebuild"}, StartCommand(m, Order) PROVE IInv'
  BY <1>2, StartCommandPreserves, ConstantFacts
<1>3. ASSUME NEW m \in {"update", "rebuild"}, NEW r \in Repo,
             StartCommand(m, <<r>>) PROVE IInv'
  <2>1. <<r>> \in Seq(Repo)
    OBVIOUS
  <2>. QED
    BY <1>3, <2>1, StartCommandPreserves
<1>4. ASSUME NEW p \in Proc, Step(p) PROVE IInv'
  BY <1>4, ReadHeadPreserves, CheckMetaPreserves, IndexPreserves,
     DeleteNodesPreserves, DeleteMetaPreserves, SaveNodesPreserves,
     SaveEdgesPreserves, SaveMetadataPreserves
     DEF Step
<1>5. ASSUME NEW p \in Proc, Crash(p) PROVE IInv'
  BY <1>5, CrashPreserves
<1>6. ASSUME NEW r \in Repo, Pull(r) PROVE IInv'
  BY <1>6, PullPreserves
<1>7. CASE UNCHANGED vars
  <2>1. TypeOK'
    BY <1>7 DEF vars, rows, writer, bounds, IInv, TypeOK, Tables, Writers, Rows
  <2>2. (CarryInv /\ SharedInv /\ SavedInv)'
    BY <1>7
       DEF vars, rows, writer, IInv, CarryInv, Carry, SharedInv, SavedInv, Indexed, Working,
           Busy, At, Rows
  <2>3. (LabelInv /\ LabelHonest /\ CurrentIsComplete)'
    BY <1>7
       DEF vars, rows, writer, IInv, LabelInv, LabelHonest, CurrentIsComplete,
           Deleting, At, Rows
  <2>. QED
    BY <2>1, <2>2, <2>3 DEF IInv
<1>. QED
  BY <1>1, <1>2, <1>3, <1>4, <1>5, <1>6, <1>7 DEF Next

\* The inductive invariant holds of every behaviour.
THEOREM Inductive == Spec => []IInv
  BY InitIInv, NextIInv, PTL DEF Spec

\* Every variable has its type, and every edge joins two rows of its repository.
THEOREM TypeCorrect == Spec => []TypeOK
<1>1. IInv => TypeOK
  BY DEF IInv
<1>. QED
  BY <1>1, Inductive, PTL

\* Whatever the nightly job and the command do to each other, and whatever fails
\* or is killed between two statements: a row labelled with the commit of the
\* tree is a declaration of it, and metadata naming that commit vouches for all
\* that the indexers returned of it (never for the packages and files they passed
\* over), torn deletions and meetings of two writers excepted.
THEOREM HashesAreTrue == Spec => []HashesTrue
<1>1. IInv => HashesTrue
  BY DEF IInv, HashesTrue
<1>. QED
  BY <1>1, Inductive, PTL
===============================================================================
