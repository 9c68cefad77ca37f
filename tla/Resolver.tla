------------------------------- MODULE Resolver -------------------------------
(***************************************************************************)
(* Impact analysis on the symbol graph: the command loads the graph in two *)
(* queries, ImpactMany resolves each changed function to nodes, searches   *)
(* breadth first for their callers and merges what it found, and the       *)
(* orchestrator keeps the targets nobody resolved for the workers.         *)
(***************************************************************************)
EXTENDS Naturals, Sequences, FiniteSets

CONSTANTS
    Id,          \* symbol ids
    SymbolOf,    \* id -> [name, repo, file]
    Calls,       \* call edges <<caller, callee>> the index may hold
    Inputs,      \* changed functions: sequences of [name, repo, file]
    EntryRepo,   \* repositories of role "entry"
    Suffix,      \* <<f, g>>: strings.HasSuffix(f, g)
    AnyFile,     \* no file path in the target
    MaxDepth,
    Direct       \* thresholds of assessRisk: [medium, high, critical]

Target == [name : STRING, repo : STRING, file : STRING]

ASSUME ResolverAssumption ==
    /\ IsFiniteSet(Id)
    /\ SymbolOf \in [Id -> Target] /\ Calls \subseteq Id \X Id
    /\ Inputs \subseteq Seq(Target)
    /\ MaxDepth \in Nat \ {0}
    /\ Direct \in [{"medium", "high", "critical"} -> Nat]

VARIABLES
    targets,    \* opts of ImpactMany
    nodes, edges,        \* InMemoryGraph
    pc,
    next,       \* target under way
    starts, queue, visited, affected,   \* Impact of that target
    depthOf,    \* merged.ByDepth: id -> depth
    eps, hops, uncovered, risk          \* the rest of merged

graph == <<nodes, edges>>
search == <<starts, queue, visited, affected>>
merged == <<depthOf, eps, hops, uncovered, risk>>
vars == <<targets, graph, pc, next, search, merged>>

Item(id, depth) == [id |-> id, depth |-> depth]
Orders(S) == {q \in [1..Cardinality(S) -> S] : \A i, j \in DOMAIN q : q[i] = q[j] => i = j}

Init ==
    /\ targets \in Inputs
    /\ nodes = {} /\ edges = {}
    /\ pc = "nodes" /\ next = 1
    /\ starts = {} /\ queue = <<>> /\ visited = {} /\ affected = {}
    /\ depthOf = <<>> /\ eps = {} /\ hops = {} /\ uncovered = {} /\ risk = "LOW"

(***************************************************************************)
(* LoadAllNodes and LoadAllEdges are two queries and an index run may come *)
(* between them: an edge's ends need not be among the nodes.  An error is  *)
(* ignored and leaves nothing loaded; without nodes there is no graph.     *)
(***************************************************************************)
LoadNodes(N) ==
    /\ pc = "nodes"
    /\ nodes' = N
    /\ pc' = IF N = {} THEN "off" ELSE "edges"
    /\ UNCHANGED <<targets, edges, next, search, merged>>

LoadEdges(E) ==
    /\ pc = "edges"
    /\ edges' = E /\ pc' = "resolve"
    /\ UNCHANGED <<targets, nodes, next, search, merged>>

(***************************************************************************)
(* Resolver.Impact of one target.                                          *)
(***************************************************************************)
FindNodesByName(name) == {n \in nodes : SymbolOf[n].name = name}

FileOK(n, file) ==
    file = AnyFile \/ SymbolOf[n].file = file \/ <<SymbolOf[n].file, file>> \in Suffix

\* A name that only one node has is that node, whatever its repository.
ResolveSymbol(t) ==
    LET candidates == FindNodesByName(t.name)
        inRepo == {n \in candidates : t.repo \in {"", SymbolOf[n].repo}}
        inFile == {n \in inRepo : FileOK(n, t.file)}
    IN CASE Cardinality(candidates) <= 1 -> candidates
         [] Cardinality(candidates) > 1 /\ inFile # {} -> inFile
         [] Cardinality(candidates) > 1 /\ inFile = {} /\ inRepo # {} -> inRepo
         [] OTHER -> candidates

Resolve ==
    /\ pc = "resolve" /\ next <= Len(targets)
    /\ LET found == ResolveSymbol(targets[next])
       IN /\ starts' = found /\ visited' = found
          /\ \E q \in Orders(found) : queue' = [i \in DOMAIN q |-> Item(q[i], 0)]
          /\ uncovered' = IF found = {} THEN uncovered \cup {targets[next]} ELSE uncovered
    /\ affected' = {} /\ pc' = "search"
    /\ UNCHANGED <<targets, graph, next, depthOf, eps, hops, risk>>

Callers(id) == {e[1] : e \in {f \in edges : f[2] = id}}

\* The callers `fresh` of the head of the queue, in any order; `marked` are
\* visited from now on.
Expand(fresh, marked) ==
    LET depth == Head(queue).depth + 1
    IN /\ pc = "search" /\ queue # <<>>
       /\ visited' = visited \cup marked
       /\ affected' = affected \cup {Item(n, depth) : n \in fresh}
       /\ \E q \in Orders(fresh) :
             queue' = Tail(queue) \o [i \in DOMAIN q |-> Item(q[i], depth)]
       /\ UNCHANGED <<targets, graph, pc, next, starts, merged>>

Fresh(item, max) == IF item.depth >= max THEN {} ELSE Callers(item.id) \ visited

\* A symbol is marked when it is taken from the queue.
DequeueMarksLate == queue # <<>> /\ Expand(Fresh(Head(queue), MaxDepth), {Head(queue).id})

\* The depth is compared after the step.
DequeueTooDeep ==
    queue # <<>> /\ LET f == Fresh(Head(queue), MaxDepth + 1) IN Expand(f, f)

\* One round of InMemoryGraph.Impact's loop.
Dequeue == queue # <<>> /\ LET f == Fresh(Head(queue), MaxDepth) IN Expand(f, f)

\* A symbol without a node has no repository.
RepoIs(id, R) == id \in nodes /\ SymbolOf[id].repo \in R

\* The start repository is every hop's "from", also beyond the first hop.
HopsOf(t) ==
    {<<t.repo, SymbolOf[a.id].repo, a.depth>> :
        a \in {b \in affected : b.id \in nodes /\ SymbolOf[b.id].repo # t.repo}}

\* ImpactMany merges a target: a symbol keeps the depth of the first target.
MergeTarget ==
    /\ pc = "search" /\ queue = <<>>
    /\ LET new == {a \in affected : a.id \notin DOMAIN depthOf}
       IN depthOf' = [x \in DOMAIN depthOf \cup {a.id : a \in new} |->
                        IF x \in DOMAIN depthOf THEN depthOf[x]
                        ELSE (CHOOSE a \in new : a.id = x).depth]
    /\ eps' = eps \cup {a.id : a \in {b \in affected : RepoIs(b.id, EntryRepo)}}
    /\ hops' = hops \cup HopsOf(targets[next])
    /\ next' = next + 1 /\ pc' = "resolve"
    /\ UNCHANGED <<targets, graph, search, uncovered, risk>>

AssessRisk ==
    LET direct == Cardinality({x \in DOMAIN depthOf : depthOf[x] = 1})
    IN CASE eps # {} \/ direct > Direct.critical -> "CRITICAL"
         [] eps = {} /\ direct <= Direct.critical
              /\ (direct > Direct.high \/ Cardinality(hops) >= 2) -> "HIGH"
         [] eps = {} /\ direct <= Direct.high /\ Cardinality(hops) < 2
              /\ direct > Direct.medium -> "MEDIUM"
         [] OTHER -> "LOW"

Finish ==
    /\ pc = "resolve" /\ next > Len(targets)
    /\ risk' = AssessRisk /\ pc' = "done"
    /\ UNCHANGED <<targets, graph, next, search, depthOf, eps, hops, uncovered>>

Ended == pc \in {"done", "off"} /\ UNCHANGED vars

Next ==
    \/ \E N \in SUBSET Id : LoadNodes(N)
    \/ \E E \in SUBSET Calls : LoadEdges(E)
    \/ Resolve \/ Dequeue \/ MergeTarget \/ Finish \/ Ended

Spec == Init /\ [][Next]_vars

-----------------------------------------------------------------------------
(* Properties *)

\* Every variable has its type; the queue is of two neighbouring depths at most.
TypeOK ==
    /\ targets \in Inputs /\ nodes \subseteq Id /\ edges \subseteq Calls
    /\ pc \in {"nodes", "edges", "resolve", "search", "done", "off"}
    /\ next \in 1..(Len(targets) + 1)
    /\ starts \subseteq nodes /\ visited \subseteq Id
    /\ \A i \in DOMAIN queue : queue[i] \in [id : Id, depth : 0..MaxDepth]
    /\ \A i, j \in DOMAIN queue : i < j => queue[j].depth \in {queue[i].depth, queue[i].depth + 1}
    /\ affected \subseteq [id : Id, depth : 1..MaxDepth]
    /\ \A x \in DOMAIN depthOf : x \in Id /\ depthOf[x] \in 1..MaxDepth
    /\ eps \subseteq nodes
    /\ uncovered \subseteq {targets[i] : i \in DOMAIN targets}
    /\ risk \in {"LOW", "MEDIUM", "HIGH", "CRITICAL"}

\* The symbols that reach S by at most k calls.
Within(S) ==
    LET w[k \in 0..MaxDepth] ==
            IF k = 0 THEN S ELSE w[k - 1] \cup UNION {Callers(x) : x \in w[k - 1]}
    IN w

Impacted(S) == {Item(x, k) : x \in Id, k \in 1..MaxDepth} \cap
               {a \in [id : Id, depth : 1..MaxDepth] :
                   a.id \in Within(S)[a.depth] /\ a.id \notin Within(S)[a.depth - 1]}

\* The search of a target finds exactly its transitive callers up to MaxDepth,
\* each once and at its shortest distance, however the edges are ordered, cyclic
\* or torn from their nodes; and the merged result is what all targets' searches
\* found, with every caller of an entry repository among the entry points and
\* exactly the targets without a node left to the workers.
ImpactIsReach ==
    /\ pc = "search" /\ queue = <<>> => affected = Impacted(starts)
    /\ pc = "done" =>
         LET T == {targets[i] : i \in DOMAIN targets}
             all == UNION {Impacted(ResolveSymbol(t)) : t \in T}
         IN /\ DOMAIN depthOf = {a.id : a \in all}
            /\ \A x \in DOMAIN depthOf : Item(x, depthOf[x]) \in all
            /\ eps = {x \in DOMAIN depthOf : RepoIs(x, EntryRepo)}
            /\ uncovered = {t \in T : FindNodesByName(t.name) = {}}
            /\ eps # {} => risk = "CRITICAL"
===============================================================================
