----------------------------- MODULE SymbolIndex -----------------------------
(***************************************************************************)
(* The symbol index: the rows of symbol_nodes and symbol_edges of each     *)
(* repository and its row of index_metadata, written by the server's       *)
(* nightly job and by the index command, which know nothing of each other  *)
(* and write in several statements, while pulls move the checked-out tree. *)
(* Commits of a repository are numbered in the order its tree shows them.  *)
(***************************************************************************)
EXTENDS Naturals, Sequences, FiniteSets

CONSTANTS
    Order,      \* the configured repositories, in order
    Lang,       \* language of each: "go", "python", "unknown"
    Decl,       \* Decl[r][c]: the declarations of its commit c
    Use,        \* Use[r][c]: its calls (go) or imports (python)
    Broken,     \* repository and commit the indexer returns an error on
    Lapses,     \* Lapses[r][c]: the sets of declarations the indexer may pass
                \* over without one: packages with errors, files it cannot read
    None,       \* no row, no result
    NoHash,     \* the commit hash "" of a nightly run whose git fails
    Unknown,    \* the commit hash "unknown" of the command's
    MaxRuns,    \* bound: runs of the command
    MaxFaults   \* bound: statements and git calls that fail, writers killed

Repo == {Order[i] : i \in DOMAIN Order}
Commit == UNION {DOMAIN Decl[r] : r \in Repo}
Hash == Commit \cup {NoHash, Unknown}
Symbol == UNION {UNION {Decl[r][c] : c \in DOMAIN Decl[r]} : r \in Repo}
Proc == {"nightly", "cli"}
Result == [at : Commit, lost : SUBSET Symbol]

ASSUME IndexAssumption ==
    /\ Order \in Seq(Repo)
    /\ Lang \in [Repo -> {"go", "python", "unknown"}]
    /\ \A r \in Repo : /\ Decl[r] \in Seq(SUBSET Symbol) /\ Decl[r] # <<>>
                      /\ DOMAIN Use[r] = DOMAIN Decl[r]
                      /\ \A c \in DOMAIN Decl[r] : Lapses[r][c] \subseteq SUBSET Symbol
    /\ Broken \subseteq Repo \X Commit
    /\ {MaxRuns, MaxFaults} \subseteq Nat
    /\ None \notin Hash \cup Result /\ NoHash # Unknown /\ {None, NoHash, Unknown} \cap Nat = {}

VARIABLES
    tree,    \* the commit each repository's directory shows
    nodes,   \* symbol_nodes: the commit_hash of each symbol's row
    edges,   \* symbol_edges
    meta,    \* index_metadata: commit_hash
    pc, todo, head, got, \* of each writer: step, repositories left, the hash
                         \* it read, the commit its indexer read and what
                         \* that passed over
    mode,    \* the command: "update" or "rebuild"
    torn,    \* history: rows deleted, metadata not, and no writer to do it
    shared,  \* history: two writers met on the repository
    omitted, \* history: what the saved results lack, since the last deletion
    runs, faults

rows == <<nodes, edges, meta>>
writer == <<pc, todo, head, got, mode>>
bounds == <<runs, faults>>
vars == <<tree, rows, writer, torn, shared, omitted, bounds>>

Init ==
    /\ tree = [r \in Repo |-> 1]
    /\ nodes = [r \in Repo |-> [s \in Symbol |-> None]]
    /\ edges = [r \in Repo |-> {}]
    /\ meta = [r \in Repo |-> None]
    /\ pc = [p \in Proc |-> "idle"]
    /\ todo = [p \in Proc |-> <<>>]
    /\ head = [p \in Proc |-> None]
    /\ got = [p \in Proc |-> None]
    /\ mode = "update"
    /\ torn = [r \in Repo |-> FALSE]
    /\ shared = [r \in Repo |-> FALSE]
    /\ omitted = [r \in Repo |-> {}]
    /\ runs = 0 /\ faults = 0

(***************************************************************************)
(* What an indexer finds.  GoIndexer gives the caller of a call arity 0    *)
(* and looks for the callee in the caller's own file, with as many         *)
(* parameters as the call has arguments; PythonIndexer takes a symbol      *)
(* __module__ for the importing file, which it never declares.             *)
(***************************************************************************)
CallEdge(u) == <<[u.from EXCEPT !.arity = 0],
                 [file |-> u.from.file, name |-> u.name, arity |-> u.args]>>

ImportEdge(u) == <<[file |-> u.from.file, name |-> "__module__", arity |-> 0],
                   [file |-> u.file, name |-> u.name, arity |-> 0]>>

Found(r, c, lost) ==
    {IF Lang[r] = "go" THEN CallEdge(u) ELSE ImportEdge(u) :
        u \in {v \in Use[r][c] : v.from \notin lost}}

Rows(r) == {s \in Symbol : nodes[r][s] # None}
\* The edge statement without its WHERE EXISTS.
StorableUnchecked(E, S) == E

Storable(E, S) == {e \in E : e[1] \in S /\ e[2] \in S}

(***************************************************************************)
(* A writer goes through its repositories one by one.                      *)
(***************************************************************************)
At(p) == Head(todo[p])
Rebuilds(p) == p = "cli" /\ mode = "rebuild"
Busy(p, r) == pc[p] \notin {"idle", "queued", "head"} /\ At(p) = r

Goto(p, l) == pc' = [pc EXCEPT ![p] = l] /\ UNCHANGED todo
Continue(p, l) == Goto(p, l) /\ UNCHANGED <<head, got>>

\* The loop's own variables end with each turn of it.
Forget(p) == head' = [head EXCEPT ![p] = None] /\ got' = [got EXCEPT ![p] = None]

NextRepo(p) ==
    /\ todo' = [todo EXCEPT ![p] = Tail(@)]
    /\ pc' = [pc EXCEPT ![p] = IF Len(todo[p]) = 1 THEN "idle" ELSE "head"]
    /\ Forget(p)

Fault == faults < MaxFaults /\ faults' = faults + 1 /\ UNCHANGED runs
NoFault == UNCHANGED bounds

\* 04:00: every configured repository, once the server's semaphore has a slot.
StartNight ==
    /\ pc["nightly"] = "idle" /\ Order # <<>>
    /\ pc' = [pc EXCEPT !["nightly"] = "queued"]
    /\ todo' = [todo EXCEPT !["nightly"] = Order]
    /\ UNCHANGED <<tree, rows, head, got, mode, torn, shared, omitted, bounds>>

AcquireSlot ==
    /\ pc["nightly"] = "queued"
    /\ pc' = [pc EXCEPT !["nightly"] = "head"]
    /\ UNCHANGED <<tree, rows, todo, head, got, mode, torn, shared, omitted, bounds>>

\* index update and index rebuild, of one repository or of all; those of an
\* unknown language, which the list leaves out, are passed over.
StartCommand(m, q) ==
    /\ pc["cli"] = "idle" /\ runs < MaxRuns
    /\ \E k \in DOMAIN q : Lang[q[k]] # "unknown"
    /\ runs' = runs + 1
    /\ mode' = m
    /\ pc' = [pc EXCEPT !["cli"] = "head"]
    /\ todo' = [todo EXCEPT !["cli"] = q]
    /\ UNCHANGED <<tree, rows, head, got, torn, shared, omitted, faults>>

\* A nightly job that skips what the metadata calls current.
ReadHeadNightlySkips(p) ==
    /\ pc[p] = "head"
    /\ LET r == At(p) IN
       IF Lang[r] = "unknown"
       THEN NextRepo(p) /\ NoFault /\ UNCHANGED shared
       ELSE /\ \/ head' = [head EXCEPT ![p] = tree[r]] /\ NoFault
               \/ head' = [head EXCEPT ![p] = IF p = "cli" THEN Unknown ELSE NoHash]
                  /\ Fault
            /\ UNCHANGED got
            /\ Goto(p, CASE Rebuilds(p) -> "delNodes"
                         [] OTHER -> "check")
            /\ shared' = [shared EXCEPT ![r] = @ \/ \E q \in Proc \ {p} : Busy(q, r)]
    /\ UNCHANGED <<tree, rows, mode, torn, omitted>>

\* The hash is read before the files are.
ReadHead(p) ==
    /\ pc[p] = "head"
    /\ LET r == At(p) IN
       IF Lang[r] = "unknown"
       THEN NextRepo(p) /\ NoFault /\ UNCHANGED shared
       ELSE /\ \/ head' = [head EXCEPT ![p] = tree[r]] /\ NoFault
               \/ head' = [head EXCEPT ![p] = IF p = "cli" THEN Unknown ELSE NoHash]
                  /\ Fault
            /\ UNCHANGED got
            /\ Goto(p, CASE p = "nightly" -> "index"
                         [] Rebuilds(p) -> "delNodes"
                         [] OTHER -> "check")
            /\ shared' = [shared EXCEPT ![r] = @ \/ \E q \in Proc \ {p} : Busy(q, r)]
    /\ UNCHANGED <<tree, rows, mode, torn, omitted>>

\* index update: nothing to do when the metadata names the commit at HEAD.
CheckMeta(p) ==
    /\ pc[p] = "check"
    /\ \/ NoFault /\ IF meta[At(p)] = head[p] THEN NextRepo(p) ELSE Continue(p, "index")
       \/ Fault /\ Continue(p, "index")
    /\ UNCHANGED <<tree, rows, mode, torn, shared, omitted>>

\* The indexer reads the files, whatever commit the tree shows by now, and passes
\* over packages with errors and files it cannot open or scan.
Index(p) ==
    /\ pc[p] = "index"
    /\ LET r == At(p) IN
       IF <<r, tree[r]>> \in Broken
       THEN NextRepo(p)
       ELSE /\ \E lost \in Lapses[r][tree[r]] :
                   got' = [got EXCEPT ![p] = [at |-> tree[r], lost |-> lost]]
            /\ UNCHANGED head
            /\ Goto(p, IF p = "nightly" THEN "delNodes" ELSE "nodes")
    /\ UNCHANGED <<tree, rows, mode, torn, shared, omitted, bounds>>

\* DeleteByRepo, first statement: the edges go with their nodes.
DeleteNodes(p) ==
    /\ pc[p] = "delNodes"
    /\ LET r == At(p) IN
       \/ /\ nodes' = [nodes EXCEPT ![r] = [s \in Symbol |-> None]]
          /\ edges' = [edges EXCEPT ![r] = {}]
          /\ Continue(p, "delMeta") /\ NoFault
       \/ Fault /\ NextRepo(p) /\ UNCHANGED <<nodes, edges>>
    /\ UNCHANGED <<tree, meta, mode, torn, shared, omitted>>

\* DeleteByRepo, second statement.
DeleteMeta(p) ==
    /\ pc[p] = "delMeta"
    /\ LET r == At(p) IN
       \/ /\ meta' = [meta EXCEPT ![r] = None]
          /\ torn' = [torn EXCEPT ![r] = FALSE]
          /\ shared' = [shared EXCEPT ![r] = \E q \in Proc \ {p} : Busy(q, r)]
          /\ omitted' = [omitted EXCEPT ![r] = {}]
          /\ Continue(p, IF p = "nightly" THEN "nodes" ELSE "index") /\ NoFault
       \/ /\ Fault /\ NextRepo(p)
          /\ torn' = [torn EXCEPT ![r] = TRUE]
          /\ UNCHANGED <<meta, shared, omitted>>
    /\ UNCHANGED <<tree, nodes, edges, mode>>

\* The nodes of the indexer's result.
Indexed(p) == Decl[At(p)][got[p].at] \ got[p].lost

\* Rows labelled with HEAD at the time they are saved.
SaveNodesLate(p) ==
    /\ pc[p] = "nodes"
    /\ LET r == At(p) IN
       \/ /\ nodes' = [nodes EXCEPT ![r] =
                [s \in Symbol |-> IF s \in Indexed(p) THEN tree[r] ELSE @[s]]]
          /\ omitted' = [omitted EXCEPT ![r] = @ \cup got[p].lost]
          /\ Continue(p, "edges") /\ NoFault
       \/ Fault /\ NextRepo(p) /\ UNCHANGED <<nodes, omitted>>
    /\ UNCHANGED <<tree, edges, meta, mode, torn, shared>>

\* One transaction, inserting or relabelling the rows of what was found.
SaveNodes(p) ==
    /\ pc[p] = "nodes"
    /\ LET r == At(p) IN
       \/ /\ nodes' = [nodes EXCEPT ![r] =
                [s \in Symbol |-> IF s \in Indexed(p) THEN head[p] ELSE @[s]]]
          /\ omitted' = [omitted EXCEPT ![r] = @ \cup got[p].lost]
          /\ Continue(p, "edges") /\ NoFault
       \/ Fault /\ NextRepo(p) /\ UNCHANGED <<nodes, omitted>>
    /\ UNCHANGED <<tree, edges, meta, mode, torn, shared>>

\* One transaction; the nightly job carries on without the edges.
SaveEdges(p) ==
    /\ pc[p] = "edges"
    /\ LET r == At(p) IN
       \/ /\ edges' = [edges EXCEPT ![r] = @ \cup Storable(Found(r, got[p].at, got[p].lost), Rows(r))]
          /\ Continue(p, "meta") /\ NoFault
       \/ /\ Fault /\ UNCHANGED edges
          /\ IF p = "nightly" THEN Continue(p, "meta") ELSE NextRepo(p)
    /\ UNCHANGED <<tree, nodes, meta, mode, torn, shared, omitted>>

SaveMetadata(p) ==
    /\ pc[p] = "meta"
    /\ LET r == At(p) IN
       \/ meta' = [meta EXCEPT ![r] = head[p]] /\ NoFault
       \/ Fault /\ UNCHANGED meta
    /\ NextRepo(p)
    /\ UNCHANGED <<tree, nodes, edges, mode, torn, shared, omitted>>

\* The server stops, or the command is interrupted.
Crash(p) ==
    /\ pc[p] # "idle" /\ Fault
    /\ torn' = [r \in Repo |-> torn[r] \/ (pc[p] = "delMeta" /\ At(p) = r)]
    /\ pc' = [pc EXCEPT ![p] = "idle"]
    /\ todo' = [todo EXCEPT ![p] = <<>>]
    /\ Forget(p)
    /\ UNCHANGED <<tree, rows, mode, shared, omitted>>

\* The checked-out tree moves to a commit it has not shown.
Pull(r) ==
    /\ tree[r] < Len(Decl[r])
    /\ tree' = [tree EXCEPT ![r] = @ + 1]
    /\ UNCHANGED <<rows, writer, torn, shared, omitted, bounds>>

Step(p) ==
    \/ ReadHead(p) \/ CheckMeta(p) \/ Index(p) \/ DeleteNodes(p) \/ DeleteMeta(p)
    \/ SaveNodes(p) \/ SaveEdges(p) \/ SaveMetadata(p)

Next ==
    \/ StartNight \/ AcquireSlot
    \/ \E m \in {"update", "rebuild"} :
           StartCommand(m, Order) \/ \E r \in Repo : StartCommand(m, <<r>>)
    \/ \E p \in Proc : Step(p) \/ Crash(p)
    \/ \E r \in Repo : Pull(r)

Spec == Init /\ [][Next]_vars
-----------------------------------------------------------------------------
Tables ==
    /\ nodes \in [Repo -> [Symbol -> Hash \cup {None}]]
    /\ meta \in [Repo -> Hash \cup {None}]
    /\ edges \in [Repo -> SUBSET (Symbol \X Symbol)]
    /\ \A r \in Repo : edges[r] \subseteq Rows(r) \X Rows(r)

Writers ==
    /\ pc \in [Proc -> {"idle", "queued", "head", "check", "index", "delNodes", "delMeta",
                        "nodes", "edges", "meta"}]
    /\ todo \in [Proc -> Seq(Repo)]
    /\ \A p \in Proc : (todo[p] = <<>>) <=> (pc[p] = "idle")
    /\ head \in [Proc -> Hash \cup {None}] /\ got \in [Proc -> Result \cup {None}]

\* Every variable has its type, and an edge joins two rows of the repository
\* (the foreign keys of symbol_edges).
TypeOK ==
    /\ tree \in [Repo -> Commit] /\ \A r \in Repo : tree[r] \in DOMAIN Decl[r]
    /\ Tables /\ Writers
    /\ mode \in {"update", "rebuild"}
    /\ torn \in [Repo -> BOOLEAN] /\ shared \in [Repo -> BOOLEAN]
    /\ omitted \in [Repo -> SUBSET Symbol]
    /\ runs \in 0..MaxRuns /\ faults \in 0..MaxFaults

\* A row labelled with the commit the tree shows is a declaration of that
\* commit: the hash is read before the files, and a tree that moves in
\* between makes the label too old, never too new.  Whatever the writers do to
\* each other, and whatever fails.
LabelHonest ==
    \A r \in Repo, s \in Symbol : nodes[r][s] = tree[r] => s \in Decl[r][tree[r]]

Deleting(r) == \E p \in Proc : pc[p] = "delMeta" /\ At(p) = r

\* When the metadata names the commit of the tree ("index check" says
\* CURRENT), every declaration of that commit has a row, but for those in
\* packages and files that an indexer passed over, which CURRENT does not show:
\* unless a writer died or failed between its two DELETE statements, or two
\* writers met, since the last complete deletion.
CurrentIsComplete ==
    \A r \in Repo :
        meta[r] = tree[r] /\ ~torn[r] /\ ~shared[r] /\ ~Deleting(r) =>
            Decl[r][tree[r]] \ omitted[r] \subseteq Rows(r)

\* What a reader may conclude from a hash, of a row or of the metadata.
HashesTrue == LabelHonest /\ CurrentIsComplete

\* The index of what the last night's indexer returned of the tree.
Exact(r) ==
    LET declared == Decl[r][tree[r]] \ omitted[r]
    IN /\ meta[r] = tree[r]
       /\ \A s \in Symbol : nodes[r][s] = IF s \in declared THEN tree[r] ELSE None
       /\ edges[r] = Storable(Found(r, tree[r], omitted[r]), declared)

\* The nightly job gets a slot and ends, night after night.
NightsEnd == []<>(pc["nightly"] = "idle") /\ []<>(pc["nightly"] # "idle")

\* Whatever update, rebuild, failures, crashes and torn deletions leave behind:
\* once they stop, pulls stop too and the nightly job keeps getting its slot and
\* ending, the index of a repository is at the end of every later night exactly
\* what the indexer returned of the tree, if it returned no error.
NightlyRepairs ==
    NightsEnd =>
        \A r \in Repo :
            Lang[r] # "unknown" =>
                <>[](pc["nightly"] = "idle" /\ <<r, tree[r]>> \notin Broken => Exact(r))
=============================================================================
