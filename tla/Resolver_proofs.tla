--------------------------- MODULE Resolver_proofs ---------------------------
(***************************************************************************)
(* Proofs about Resolver: its search finds the transitive callers at their *)
(* shortest distances, for any graph, any order of it and any depth.       *)
(***************************************************************************)
EXTENDS Resolver, FiniteSetTheorems, SequenceTheorems, WellFoundedInduction, TLAPS

QueueItem == [id : Id, depth : 0..MaxDepth]

(* Induction, and the order of a set. *)

\* Induction over the numbers, stated with a set.
LEMMA SetInduction ==
  ASSUME NEW S, 0 \in S, \A n \in Nat : n \in S => n + 1 \in S
  PROVE  Nat \subseteq S
<1>. DEFINE T == Nat \ S
            R == OpToRel(<, Nat)
<1>1. SUFFICES ASSUME T # {} PROVE FALSE
  OBVIOUS
<1>2. PICK m \in T : \A y \in T : ~(<<y, m>> \in R)
  <2>1. IsWellFoundedOn(R, Nat)
    BY NatLessThanWellFounded
  <2>. HIDE DEF R
  <2>. QED
    BY <1>1, <2>1, WFMin
<1>3. \A y \in T : ~(y < m)
  BY <1>2 DEF OpToRel
<1>4. m # 0 /\ m - 1 \in Nat
  OBVIOUS
<1>5. m - 1 \in S
  BY <1>3, <1>4
<1>. QED
  BY <1>4, <1>5

\* An order of a set is a sequence of all its elements.
LEMMA OrderElements ==
  ASSUME NEW S, IsFiniteSet(S), NEW q \in Orders(S)
  PROVE  q \in Seq(S) /\ \A x \in S : \E j \in DOMAIN q : q[j] = x
<1>. DEFINE n == Cardinality(S)
<1>1. n \in Nat
  BY FS_CardinalityType
<1>2. q \in [1..n -> S] /\ \A j, k \in 1..n : q[j] = q[k] => j = k
  BY DEF Orders
<1>3. IsFiniteSet(1..n) /\ Cardinality(1..n) = n
  BY <1>1, FS_Interval
<1>4. q \in Injection(1..n, S)
  BY <1>2 DEF Injection, IsInjective
<1>5. q \in Surjection(1..n, S)
  BY <1>3, <1>4, FS_Injection
<1>. HIDE DEF n
<1>6. q \in Seq(S)
  BY <1>1, <1>2
<1>7. \A x \in S : \E j \in 1..n : q[j] = x
  BY <1>5 DEF Surjection
<1>. QED
  BY <1>2, <1>6, <1>7

\* The items of one depth for the elements of a set.
LEMMA OrderedItems ==
  ASSUME NEW S \in SUBSET Id, NEW q \in Orders(S), NEW d, S # {} =>
         d \in 0..MaxDepth
  PROVE  /\ [j \in DOMAIN q |-> Item(q[j], d)] \in Seq(QueueItem)
         /\ \A j \in DOMAIN q : q[j] \in S
         /\ \A x \in S : \E j \in DOMAIN q : q[j] = x
<1>1. IsFiniteSet(S)
  BY ResolverAssumption, FS_Subset
<1>2. q \in Seq(S) /\ \A x \in S : \E j \in DOMAIN q : q[j] = x
  BY <1>1, OrderElements
<1>3. \A j \in DOMAIN q : q[j] \in S
  BY <1>2
<1>4. \A j \in DOMAIN q : Item(q[j], d) \in QueueItem
  BY <1>3 DEF Item, QueueItem
<1>5. DOMAIN q = 1..Len(q) /\ Len(q) \in Nat
  BY <1>2
<1>. QED
  BY <1>2, <1>3, <1>4, <1>5

-----------------------------------------------------------------------------
(* The symbols within k calls.                                             *)

\* The equation of the function that Within defines by recursion.
Reaches(f, S, n) ==
    f = [k \in 0..n |-> IF k = 0 THEN S ELSE f[k - 1] \cup UNION {Callers(x) : x \in f[k - 1]}]

LEMMA ReachFunction ==
  ASSUME NEW S, NEW n \in Nat
  PROVE  \E f : Reaches(f, S, n)
<1>. DEFINE M == {m \in Nat : \E f : Reaches(f, S, m)}
            more(T) == T \cup UNION {Callers(x) : x \in T}
<1>1. 0 \in M
  <2>. DEFINE f == [k \in 0..0 |-> S]
  <2>1. Reaches(f, S, 0)
    BY DEF Reaches
  <2>. QED
    BY <2>1
<1>2. ASSUME NEW m \in Nat, m \in M PROVE m + 1 \in M
  <2>1. PICK f : Reaches(f, S, m)
    BY <1>2
  <2>. DEFINE g == [k \in 0..(m + 1) |-> IF k = m + 1 THEN more(f[m]) ELSE f[k]]
  <2>2. \A k \in 0..m : f[k] = IF k = 0 THEN S ELSE more(f[k - 1])
    BY <2>1 DEF Reaches
  <2>. HIDE DEF more
  <2>3. \A k \in 0..(m + 1) : g[k] = IF k = 0 THEN S ELSE more(g[k - 1])
    <3>. SUFFICES ASSUME NEW k \in 0..(m + 1)
                  PROVE g[k] = IF k = 0 THEN S ELSE more(g[k - 1])
      OBVIOUS
    <3>1. k # 0 => g[k - 1] = f[k - 1]
      OBVIOUS
    <3>2. CASE k = m + 1
      <4>1. g[k] = more(f[m]) /\ k - 1 = m /\ k # 0
        BY <3>2
      <4>. QED
        BY <3>1, <3>2, <4>1
    <3>3. CASE k # m + 1
      <4>1. k \in 0..m /\ g[k] = f[k]
        BY <3>3
      <4>. QED
        BY <2>2, <3>1, <4>1
    <3>. QED
      BY <3>2, <3>3
  <2>4. g = [k \in 0..(m + 1) |-> IF k = 0 THEN S ELSE more(g[k - 1])]
    <3>. DEFINE h == [k \in 0..(m + 1) |-> IF k = 0 THEN S ELSE more(g[k - 1])]
    <3>1. DOMAIN g = DOMAIN h /\ \A k \in 0..(m + 1) : g[k] = h[k]
      BY <2>3
    <3>. QED
      BY <3>1
  <2>5. Reaches(g, S, m + 1)
    BY <2>4 DEF Reaches, more
  <2>. QED
    BY <2>5
<1>3. Nat \subseteq M
  <2>. HIDE DEF M
  <2>. QED
    BY <1>1, <1>2, SetInduction
<1>. QED
  BY <1>3

LEMMA WithinSteps ==
  ASSUME NEW S
  PROVE  /\ Within(S)[0] = S
         /\ \A k \in 1..MaxDepth :
               Within(S)[k] = Within(S)[k - 1] \cup UNION {Callers(x) : x \in Within(S)[k - 1]}
<1>. DEFINE w == CHOOSE f : Reaches(f, S, MaxDepth)
<1>1. MaxDepth \in Nat \ {0}
  BY ResolverAssumption
<1>2. Within(S) = w
  BY DEF Within, Reaches
<1>3. Reaches(w, S, MaxDepth)
  BY <1>1, ReachFunction
<1>. HIDE DEF w
<1>4. \A k \in 0..MaxDepth :
         w[k] = IF k = 0 THEN S ELSE w[k - 1] \cup UNION {Callers(x) : x \in w[k - 1]}
  BY <1>3 DEF Reaches
<1>5. ASSUME NEW k \in 1..MaxDepth
      PROVE  w[k] = w[k - 1] \cup UNION {Callers(x) : x \in w[k - 1]}
  <2>1. k \in 0..MaxDepth /\ k # 0
    BY <1>1
  <2>. QED
    BY <1>4, <2>1
<1>6. w[0] = S
  <2>1. 0 \in 0..MaxDepth
    BY <1>1
  <2>. QED
    BY <1>4, <2>1
<1>. QED
  BY <1>2, <1>5, <1>6

\* While the edges stay, so does what they reach.
LEMMA ReachStays ==
  ASSUME edges' = edges
  PROVE  /\ \A x : Callers(x)' = Callers(x)
         /\ \A S : Within(S)' = Within(S)
         /\ \A S : Impacted(S)' = Impacted(S)
<1>1. \A x : Callers(x)' = Callers(x)
  BY DEF Callers
<1>2. \A S : Within(S)' = Within(S)
  BY DEF Within, Callers
<1>3. \A S : Impacted(S)' = Impacted(S)
  BY <1>2 DEF Impacted
<1>. QED
  BY <1>1, <1>2, <1>3

LEMMA WithinGrows ==
  ASSUME NEW S, NEW j \in 0..MaxDepth, NEW k \in 0..MaxDepth, j <= k
  PROVE  Within(S)[j] \subseteq Within(S)[k]
<1>. DEFINE M == {m \in Nat : j + m <= MaxDepth => Within(S)[j] \subseteq Within(S)[j + m]}
<1>1. MaxDepth \in Nat
  BY ResolverAssumption
<1>2. 0 \in M
  OBVIOUS
<1>3. ASSUME NEW m \in Nat, m \in M PROVE m + 1 \in M
  <2>. SUFFICES ASSUME j + (m + 1) <= MaxDepth
                PROVE  Within(S)[j] \subseteq Within(S)[j + (m + 1)]
    OBVIOUS
  <2>1. Within(S)[j] \subseteq Within(S)[j + m]
    BY <1>1, <1>3
  <2>. DEFINE k1 == j + (m + 1)
  <2>2. k1 \in 1..MaxDepth /\ k1 - 1 = j + m
    BY <1>1
  <2>. HIDE DEF k1
  <2>3. Within(S)[k1 - 1] \subseteq Within(S)[k1]
    BY <2>2, WithinSteps
  <2>. QED
    BY <2>1, <2>2, <2>3 DEF k1
<1>4. Nat \subseteq M
  <2>. HIDE DEF M
  <2>. QED
    BY <1>2, <1>3, SetInduction
<1>5. k - j \in Nat /\ j + (k - j) = k
  BY <1>1
<1>6. k - j \in M
  BY <1>4, <1>5
<1>. QED
  BY <1>1, <1>5, <1>6

\* x is k calls away from S, and no fewer.
Away(x, S, k) == x \in Within(S)[k] /\ (k > 0 => x \notin Within(S)[k - 1])

LEMMA OneDistance ==
  ASSUME NEW S, NEW x, NEW j \in 0..MaxDepth, NEW k \in 0..MaxDepth, Away(x, S, j),
         Away(x, S, k)
  PROVE  j = k
<1>1. MaxDepth \in Nat
  BY ResolverAssumption
<1>2. ASSUME NEW m \in 0..MaxDepth, NEW n \in 0..MaxDepth, Away(x, S, m),
             Away(x, S, n), m < n
      PROVE  FALSE
  <2>1. n - 1 \in 0..MaxDepth /\ m <= n - 1 /\ n > 0
    BY <1>1, <1>2
  <2>2. Within(S)[m] \subseteq Within(S)[n - 1]
    BY <2>1, WithinGrows
  <2>. QED
    BY <1>2, <2>1, <2>2 DEF Away
<1>. QED
  BY <1>1, <1>2

LEMMA ImpactedItems ==
  ASSUME NEW S, NEW a
  PROVE  a \in Impacted(S) <=> a \in [id : Id, depth : 1..MaxDepth]
         /\ Away(a.id, S, a.depth)
<1>1. \A b \in [id : Id, depth : 1..MaxDepth] : b = Item(b.id, b.depth)
      /\ b.depth > 0
  BY ResolverAssumption DEF Item
<1>2. \A b \in [id : Id, depth : 1..MaxDepth] :
         b \in {Item(x, k) : x \in Id, k \in 1..MaxDepth}
  BY <1>1
<1>. QED
  BY <1>1, <1>2 DEF Impacted, Away

-----------------------------------------------------------------------------
(* The inductive invariant.                                                *)

Typed == TypeOK /\ queue \in Seq(QueueItem)

QueueIds == {queue[j].id : j \in DOMAIN queue}

\* While a target is searched: what is visited was a start or is affected; marks
\* and queue carry shortest distances; a visited symbol waits in the queue, or
\* its callers are visited too, or it is MaxDepth calls away; and nothing nearer
\* than the head of the queue is left out.
SearchInv ==
    /\ visited = starts \cup {a.id : a \in affected}
    /\ \A a \in affected : Away(a.id, starts, a.depth)
    /\ \A j \in DOMAIN queue : queue[j].id \in visited
       /\ Away(queue[j].id, starts, queue[j].depth)
    /\ \A x \in visited :
          x \in QueueIds \/ Callers(x) \subseteq visited \/ x \notin Within(starts)[MaxDepth - 1]
    /\ queue # <<>> => Within(starts)[queue[1].depth] \subseteq visited

\* What target j impacts; what the targets before the one under way do.
Found(j) == Impacted(ResolveSymbol(targets[j]))
AllFound == UNION {Found(j) : j \in 1..(next - 1)}
NoNode(j) == FindNodesByName(targets[j].name) = {}
Resolved == IF pc = "search" THEN next ELSE next - 1

MergeInv ==
    /\ DOMAIN depthOf = {a.id : a \in AllFound}
    /\ \A x \in DOMAIN depthOf : Item(x, depthOf[x]) \in AllFound
    /\ eps = {x \in DOMAIN depthOf : RepoIs(x, EntryRepo)}
    /\ uncovered = {targets[j] : j \in {k \in 1..Resolved : NoNode(k)}}

IInv ==
    /\ Typed
    /\ pc \in {"nodes", "edges"} => /\ next = 1 /\ starts = {}
                                   /\ depthOf = <<>> /\ eps = {} /\ uncovered = {}
    /\ pc = "search" => /\ SearchInv /\ next <= Len(targets)
                        /\ starts = ResolveSymbol(targets[next])
    /\ pc \in {"resolve", "search", "done"} => MergeInv
    /\ pc = "done" => next = Len(targets) + 1 /\ (eps # {} => risk = "CRITICAL")

LEMMA Values ==
  ASSUME Typed
  PROVE  /\ MaxDepth \in Nat \ {0} /\ IsFiniteSet(Id) /\ IsFiniteSet(nodes)
         /\ targets \in Seq(Target) /\ nodes \subseteq Id
            /\ edges \subseteq Id \X Id
         /\ visited \subseteq Id /\ starts \subseteq Id /\ next \in Nat \ {0}
         /\ next <= Len(targets) + 1
<1>1. /\ targets \in Inputs /\ nodes \subseteq Id /\ edges \subseteq Calls
      /\ visited \subseteq Id /\ starts \subseteq nodes
         /\ next \in 1..(Len(targets) + 1)
  BY DEF Typed, TypeOK
<1>2. IsFiniteSet(nodes)
  BY <1>1, ResolverAssumption, FS_Subset
<1>3. targets \in Seq(Target)
  BY <1>1, ResolverAssumption
<1>. QED
  BY <1>1, <1>2, <1>3, ResolverAssumption

LEMMA CallersType == ASSUME Typed, NEW x PROVE Callers(x) \subseteq Id
  BY Values DEF Callers

\* A target has no node when its name has none.
LEMMA ResolvedType ==
  ASSUME Typed, NEW t
  PROVE  /\ ResolveSymbol(t) \subseteq nodes
         /\ ResolveSymbol(t) = {} <=> FindNodesByName(t.name) = {}
<1>. DEFINE candidates == FindNodesByName(t.name)
            inRepo == {n \in candidates : t.repo \in {"", SymbolOf[n].repo}}
            inFile == {n \in inRepo : FileOK(n, t.file)}
            c == Cardinality(candidates)
<1>1. ResolveSymbol(t) =
         CASE c <= 1 -> candidates
           [] c > 1 /\ inFile # {} -> inFile
           [] c > 1 /\ inFile = {} /\ inRepo # {} -> inRepo
           [] OTHER -> candidates
  BY DEF ResolveSymbol
<1>2. candidates \subseteq nodes
  BY DEF FindNodesByName
<1>3. c \in Nat
  BY <1>2, Values, FS_Subset, FS_CardinalityType
<1>4. inRepo \subseteq candidates /\ inFile \subseteq inRepo
  OBVIOUS
<1>. HIDE DEF candidates, inRepo, inFile, c
<1>5. \/ ResolveSymbol(t) = candidates
      \/ ResolveSymbol(t) = inFile /\ inFile # {}
      \/ ResolveSymbol(t) = inRepo /\ inRepo # {}
  BY <1>1, <1>3
<1>6. ResolveSymbol(t) \subseteq nodes
  BY <1>2, <1>4, <1>5
<1>7. ResolveSymbol(t) = {} <=> candidates = {}
  BY <1>4, <1>5
<1>. QED
  BY <1>6, <1>7 DEF candidates

\* While targets and graph stay, so does what the targets resolve to.
LEMMA TargetsStay ==
  ASSUME targets' = targets, nodes' = nodes, edges' = edges
  PROVE  /\ \A t : ResolveSymbol(t)' = ResolveSymbol(t)
         /\ \A j : NoNode(j)' <=> NoNode(j)
         /\ \A x, R : RepoIs(x, R)' <=> RepoIs(x, R)
         /\ \A j : Found(j)' = Found(j)
<1>1. /\ \A j : NoNode(j)' <=> NoNode(j)
      /\ \A x, R : RepoIs(x, R)' <=> RepoIs(x, R)
  BY DEF NoNode, FindNodesByName, RepoIs
<1>2. \A t : ResolveSymbol(t)' = ResolveSymbol(t)
  BY DEF ResolveSymbol, FindNodesByName, FileOK
<1>3. \A j : Found(j)' = Found(j)
  BY <1>2, ReachStays DEF Found, Impacted, Within, Callers, ResolveSymbol, FindNodesByName, FileOK
<1>. QED
  BY <1>1, <1>2, <1>3

-----------------------------------------------------------------------------
(* The search.                                                             *)

\* What Resolve puts into the queue is a search that has not begun.
LEMMA ResolveStep ==
  ASSUME Typed, Resolve
  PROVE  SearchInv' /\ queue' \in Seq(QueueItem)
         /\ \A j \in DOMAIN queue' : queue'[j].depth = 0
<1>. DEFINE found == ResolveSymbol(targets[next])
<1>1. /\ starts' = found /\ visited' = found /\ affected' = {} /\ edges' = edges
      /\ \E q \in Orders(found) : queue' = [j \in DOMAIN q |-> Item(q[j], 0)]
  BY DEF Resolve, graph
<1>2. found \in SUBSET Id /\ MaxDepth \in Nat \ {0}
  BY Values, ResolvedType
<1>. HIDE DEF found
<1>3. PICK q \in Orders(found) : queue' = [j \in DOMAIN q |-> Item(q[j], 0)]
  BY <1>1
<1>4. 0 \in 0..MaxDepth
  BY <1>2
<1>5. /\ [j \in DOMAIN q |-> Item(q[j], 0)] \in Seq(QueueItem)
      /\ \A j \in DOMAIN q : q[j] \in found
      /\ \A x \in found : \E j \in DOMAIN q : q[j] = x
  BY <1>2, <1>4, OrderedItems
<1>6. /\ queue' \in Seq(QueueItem) /\ DOMAIN queue' = DOMAIN q
      /\ \A j \in DOMAIN queue' : queue'[j].id = q[j] /\ queue'[j].depth = 0
  BY <1>3, <1>5 DEF Item
<1>7. Within(found)[0] = found
  BY WithinSteps
<1>8. Within(starts)'[0] = found
  <2>1. Within(starts)' = Within(found)
    BY <1>1 DEF Within, Callers
  <2>. QED
    BY <1>7, <2>1
<1>9. \A j \in DOMAIN queue' : queue'[j].id \in found
  BY <1>5, <1>6
<1>10. \A x \in found : x \in QueueIds'
  BY <1>5, <1>6 DEF QueueIds
<1>11. queue' # <<>> => 1 \in DOMAIN queue'
  BY <1>6
<1>. QED
  BY <1>1, <1>6, <1>8, <1>9, <1>10, <1>11 DEF SearchInv, Away

Step == queue[1].depth + 1
Called == Fresh(queue[1], MaxDepth)

\* A step of the search takes the head of the queue and appends its callers.
LEMMA QueueStep ==
  ASSUME Typed, pc = "search", Dequeue
  PROVE  /\ queue # <<>> /\ 1 \in DOMAIN queue /\ Len(queue) \in Nat \ {0}
         /\ queue' \in Seq(QueueItem)
         /\ visited' = visited \cup Called
         /\ affected' = affected \cup {Item(x, Step) : x \in Called}
         /\ \A j \in 2..Len(queue) : j - 1 \in DOMAIN queue'
            /\ queue'[j - 1] = queue[j]
         /\ \A j \in DOMAIN queue' :
               \/ j <= Len(queue) - 1 /\ queue'[j] = queue[j + 1]
               \/ /\ j >= Len(queue) /\ queue'[j].id \in Called
                  /\ queue'[j].depth = Step
         /\ \A x \in Called : \E j \in DOMAIN queue' : queue'[j].id = x
         /\ Called \subseteq Id /\ (Called # {} => Step \in 1..MaxDepth)
<1>1. queue \in Seq(QueueItem) /\ queue # <<>> /\ MaxDepth \in Nat \ {0}
  BY Values DEF Typed, Dequeue
<1>2. /\ Head(queue) = queue[1] /\ queue[1] \in QueueItem /\ 1 \in DOMAIN queue
      /\ Len(queue) \in Nat \ {0}
      /\ Tail(queue) \in Seq(QueueItem) /\ Len(Tail(queue)) = Len(queue) - 1
      /\ \A j \in 1..(Len(queue) - 1) : Tail(queue)[j] = queue[j + 1]
  BY <1>1
<1>3. /\ visited' = visited \cup Called
      /\ affected' = affected \cup {Item(x, Step) : x \in Called}
      /\ \E q \in Orders(Called) : queue' = Tail(queue) \o [j \in DOMAIN q |-> Item(q[j], Step)]
  BY <1>2 DEF Dequeue, Expand, Called, Step
<1>4. Called \in SUBSET Id /\ (Called # {} => Step \in 1..MaxDepth)
  <2>1. Called \subseteq Callers(queue[1].id)
    BY DEF Called, Fresh
  <2>2. Called # {} => ~(queue[1].depth >= MaxDepth)
    BY DEF Called, Fresh
  <2>3. queue[1].depth \in 0..MaxDepth
    BY <1>2 DEF QueueItem
  <2>. QED
    BY <1>1, <2>1, <2>2, <2>3, CallersType DEF Step
<1>5. PICK q \in Orders(Called) : queue' = Tail(queue) \o [j \in DOMAIN q |-> Item(q[j], Step)]
  BY <1>3
<1>. DEFINE r == [j \in DOMAIN q |-> Item(q[j], Step)]
            t == Tail(queue)
<1>6. /\ r \in Seq(QueueItem)
      /\ \A j \in DOMAIN q : q[j] \in Called
      /\ \A x \in Called : \E j \in DOMAIN q : q[j] = x
  <2>1. Called # {} => Step \in 0..MaxDepth
    BY <1>1, <1>4
  <2>. QED
    BY <1>4, <2>1, OrderedItems
<1>7. /\ \A j \in DOMAIN r : r[j].id \in Called /\ r[j].depth = Step
      /\ \A x \in Called : \E j \in DOMAIN r : r[j].id = x
  BY <1>6 DEF Item
<1>8. t \in Seq(QueueItem) /\ Len(t) = Len(queue) - 1
      /\ \A j \in 1..(Len(queue) - 1) : t[j] = queue[j + 1]
  BY <1>2
<1>9. queue' = t \o r
  BY <1>5
<1>. HIDE DEF r, t
<1>10. /\ queue' \in Seq(QueueItem) /\ Len(queue') = Len(t) + Len(r)
          /\ Len(r) \in Nat
       /\ \A j \in 1..(Len(t) + Len(r)) : queue'[j] = IF j <= Len(t) THEN t[j] ELSE r[j - Len(t)]
  <2>. DEFINE u == t \o r
  <2>1. /\ u \in Seq(QueueItem) /\ Len(u) = Len(t) + Len(r) /\ Len(r) \in Nat
        /\ \A j \in 1..(Len(t) + Len(r)) : u[j] = IF j <= Len(t) THEN t[j] ELSE r[j - Len(t)]
    <3>1. t \in Seq(QueueItem) /\ r \in Seq(QueueItem)
      BY <1>6, <1>8
    <3>. QED
      BY <3>1, ConcatProperties
  <2>2. queue' = u
    BY <1>9
  <2>. HIDE DEF u
  <2>. QED
    BY <2>1, <2>2
<1>11. ASSUME NEW j \in 2..Len(queue)
       PROVE  j - 1 \in DOMAIN queue' /\ queue'[j - 1] = queue[j]
  <2>1. j - 1 \in 1..(Len(queue) - 1) /\ j - 1 \in 1..(Len(t) + Len(r))
        /\ j - 1 <= Len(t)
    BY <1>2, <1>8, <1>10
  <2>2. queue'[j - 1] = t[j - 1] /\ t[j - 1] = queue[(j - 1) + 1]
    BY <1>8, <1>10, <2>1
  <2>. QED
    BY <1>10, <2>1, <2>2
<1>12. ASSUME NEW j \in DOMAIN queue'
       PROVE  \/ j <= Len(queue) - 1 /\ queue'[j] = queue[j + 1]
              \/ /\ j >= Len(queue) /\ queue'[j].id \in Called
                 /\ queue'[j].depth = Step
  <2>1. j \in 1..(Len(t) + Len(r))
    BY <1>10
  <2>2. Len(t) \in Nat /\ Len(t) = Len(queue) - 1 /\ Len(r) \in Nat
        /\ Len(queue) \in Nat \ {0}
    BY <1>2, <1>8, <1>10
  <2>3. CASE j <= Len(t)
    <3>1. j \in 1..(Len(queue) - 1) /\ queue'[j] = t[j]
      BY <1>10, <2>1, <2>3, <2>2
    <3>. QED
      BY <1>8, <3>1
  <2>4. CASE ~(j <= Len(t))
    <3>1. queue'[j] = r[j - Len(t)] /\ j - Len(t) \in 1..Len(r) /\ j >= Len(queue)
      <4>1. j - Len(t) \in 1..Len(r) /\ j >= Len(queue)
        BY <2>1, <2>4, <2>2
      <4>2. queue'[j] = r[j - Len(t)]
        BY <1>10, <2>1, <2>4
      <4>. QED
        BY <4>1, <4>2
    <3>2. j - Len(t) \in DOMAIN r
      BY <1>6, <3>1
    <3>. QED
      BY <1>7, <3>1, <3>2
  <2>. QED
    BY <2>3, <2>4
<1>13. ASSUME NEW x \in Called PROVE \E j \in DOMAIN queue' : queue'[j].id = x
  <2>1. PICK k \in DOMAIN r : r[k].id = x
    BY <1>7
  <2>2. k \in 1..Len(r) /\ Len(t) \in Nat
    BY <1>6, <1>8, <2>1
  <2>3. Len(t) + k \in 1..(Len(t) + Len(r)) /\ ~(Len(t) + k <= Len(t))
        /\ (Len(t) + k) - Len(t) = k
    BY <1>10, <2>2
  <2>4. queue'[Len(t) + k] = r[k] /\ Len(t) + k \in DOMAIN queue'
    BY <1>10, <2>3
  <2>. QED
    BY <2>1, <2>4
<1>. QED
  BY <1>1, <1>2, <1>3, <1>4, <1>10, <1>11, <1>12, <1>13

\* A step of the search keeps its invariant.
LEMMA DequeueStep ==
  ASSUME Typed, pc = "search", SearchInv, Dequeue
  PROVE  SearchInv'
<1>1. /\ 1 \in DOMAIN queue /\ queue # <<>> /\ Len(queue) \in Nat \ {0}
      /\ queue' \in Seq(QueueItem)
      /\ visited' = visited \cup Called
      /\ affected' = affected \cup {Item(x, Step) : x \in Called}
      /\ Called \subseteq Id /\ (Called # {} => Step \in 1..MaxDepth)
  BY QueueStep
<1>2. \A j \in 2..Len(queue) : j - 1 \in DOMAIN queue' /\ queue'[j - 1] = queue[j]
  BY QueueStep
<1>3. \A j \in DOMAIN queue' :
         \/ j <= Len(queue) - 1 /\ queue'[j] = queue[j + 1]
         \/ j >= Len(queue) /\ queue'[j].id \in Called /\ queue'[j].depth = Step
  BY QueueStep
<1>4. \A x \in Called : \E j \in DOMAIN queue' : queue'[j].id = x
  BY QueueStep
<1>5. starts' = starts /\ edges' = edges
  BY DEF Dequeue, Expand, graph
<1>6. MaxDepth \in Nat \ {0} /\ queue \in Seq(QueueItem)
      /\ DOMAIN queue = 1..Len(queue)
      /\ Head(queue) = queue[1]
  BY <1>1, Values DEF Typed
<1>7. \A j \in DOMAIN queue : queue[j] \in QueueItem
  BY <1>6
<1>8. queue[1].id \in Id /\ queue[1].depth \in 0..MaxDepth
  BY <1>1, <1>7 DEF QueueItem
<1>. DEFINE id == queue[1].id
            k == queue[1].depth
            W(n) == Within(starts)[n]
<1>9. Within(starts)' = Within(starts) /\ \A x : Callers(x)' = Callers(x)
  BY <1>5 DEF Within, Callers
<1>10. /\ visited = starts \cup {a.id : a \in affected}
       /\ \A a \in affected : Away(a.id, starts, a.depth)
       /\ \A j \in DOMAIN queue : queue[j].id \in visited
          /\ Away(queue[j].id, starts, queue[j].depth)
       /\ \A x \in visited : x \in QueueIds \/ Callers(x) \subseteq visited \/ x \notin W(MaxDepth - 1)
       /\ W(k) \subseteq visited
  BY <1>1 DEF SearchInv
<1>11. \A x, n : Away(x, starts, n)' <=> Away(x, starts, n)
  BY <1>9 DEF Away
\* The callers that are new are one call further away.
<1>12. ASSUME NEW x \in Called PROVE Away(x, starts, Step)
  <2>1. x \in Callers(id) /\ x \notin visited /\ k < MaxDepth
    BY <1>6, <1>8 DEF Called, Fresh
  <2>2. id \in W(k)
    BY <1>1, <1>10 DEF Away
  <2>3. Step \in 1..MaxDepth /\ Step - 1 = k
    BY <1>1, <1>8 DEF Step
  <2>4. W(Step) = W(Step - 1) \cup UNION {Callers(y) : y \in W(Step - 1)}
    BY <2>3, WithinSteps
  <2>. QED
    BY <1>10, <2>1, <2>2, <2>3, <2>4 DEF Away
<1>13. visited' = starts \cup {a.id : a \in affected'}
  <2>1. \A x \in Called : Item(x, Step).id = x
    BY DEF Item
  <2>. QED
    BY <1>1, <1>10, <2>1
<1>14. \A a \in affected' : Away(a.id, starts, a.depth)
  <2>1. \A x \in Called : Item(x, Step).id = x /\ Item(x, Step).depth = Step
    BY DEF Item
  <2>. QED
    BY <1>1, <1>10, <1>12, <2>1
<1>15. ASSUME NEW j \in DOMAIN queue'
       PROVE  queue'[j].id \in visited'
              /\ Away(queue'[j].id, starts, queue'[j].depth)
  <2>1. CASE j <= Len(queue) - 1 /\ queue'[j] = queue[j + 1]
    <3>1. j + 1 \in DOMAIN queue
      BY <1>1, <1>6, <2>1
    <3>. QED
      BY <1>1, <1>10, <2>1, <3>1
  <2>2. CASE j >= Len(queue) /\ queue'[j].id \in Called /\ queue'[j].depth = Step
    BY <1>1, <1>12, <2>2
  <2>. QED
    BY <1>3, <2>1, <2>2
<1>16. ASSUME NEW x \in visited'
       PROVE  x \in QueueIds' \/ Callers(x) \subseteq visited' \/ x \notin W(MaxDepth - 1)
  <2>1. CASE x \in Called
    BY <1>4, <2>1 DEF QueueIds
  <2>2. CASE x = id
    <3>1. CASE k >= MaxDepth
      <4>1. Away(x, starts, MaxDepth)
        BY <1>1, <1>6, <1>8, <1>10, <2>2, <3>1
      <4>. QED
        BY <1>6, <4>1 DEF Away
    <3>2. CASE ~(k >= MaxDepth)
      BY <1>1, <2>2, <3>2 DEF Called, Fresh
    <3>. QED
      BY <3>1, <3>2
  <2>3. CASE x \in visited /\ x \in QueueIds /\ x # id
    <3>1. PICK j \in DOMAIN queue : queue[j].id = x
      BY <2>3 DEF QueueIds
    <3>2. j \in 2..Len(queue)
      BY <1>6, <2>3, <3>1
    <3>. QED
      BY <1>2, <3>1, <3>2 DEF QueueIds
  <2>4. CASE x \in visited /\ x \notin QueueIds
    BY <1>1, <1>10, <2>4
  <2>. QED
    BY <1>1, <2>1, <2>2, <2>3, <2>4
<1>17. ASSUME queue' # <<>> PROVE W(queue'[1].depth) \subseteq visited'
  <2>1. 1 \in DOMAIN queue'
    BY <1>1, <1>17
  <2>2. \A i, j \in DOMAIN queue : i < j =>
        queue[j].depth \in {queue[i].depth, queue[i].depth + 1}
    BY DEF Typed, TypeOK
  \* Every depth in the new queue is the head's or the one after it, in order.
  <2>3. \A j \in DOMAIN queue' : queue'[j].depth \in {k, k + 1}
    <3>1. \A j \in DOMAIN queue : queue[j].depth \in {k, k + 1}
      BY <1>1, <1>6, <2>2
    <3>2. \A j \in DOMAIN queue' : j <= Len(queue) - 1 => j + 1 \in DOMAIN queue
      BY <1>1, <1>6
    <3>. QED
      BY <1>3, <3>1, <3>2 DEF Step
  <2>4. CASE queue'[1].depth = k
    BY <1>1, <1>10, <2>4
  <2>5. CASE queue'[1].depth = k + 1
    <3>1. k + 1 \in 1..MaxDepth
      <4>1. queue'[1] \in QueueItem
        BY <1>1, <2>1
      <4>. QED
        BY <1>6, <1>8, <2>5, <4>1 DEF QueueItem
    <3>2. \A j \in DOMAIN queue' : queue'[j].depth = k + 1
      <4>1. SUFFICES ASSUME NEW j \in DOMAIN queue', queue'[j].depth = k
            PROVE  FALSE
        BY <2>3
      <4>2. k # k + 1
        BY <1>8
      <4>3. j <= Len(queue) - 1 /\ queue'[j] = queue[j + 1]
        BY <1>3, <4>1, <4>2 DEF Step
      <4>4. j # 1 /\ j \in Nat \ {0}
        BY <1>1, <2>5, <4>1, <4>2
      <4>5. 2 \in DOMAIN queue /\ j + 1 \in DOMAIN queue /\ 2 < j + 1
            /\ 1 <= Len(queue) - 1
        BY <1>1, <1>6, <4>3, <4>4
      <4>6. queue'[1] = queue[2]
        BY <1>1, <1>3, <2>1, <4>5
      <4>7. k \in {k + 1, k + 2}
        BY <1>8, <2>2, <2>5, <4>1, <4>3, <4>5, <4>6
      <4>. QED
        BY <1>8, <4>7
    <3>3. W(k + 1) = W(k) \cup UNION {Callers(y) : y \in W(k)}
      <4>1. W(k + 1) = W((k + 1) - 1) \cup UNION {Callers(y) : y \in W((k + 1) - 1)}
        BY <3>1, WithinSteps
      <4>2. (k + 1) - 1 = k
        BY <1>8
      <4>. QED
        BY <4>1, <4>2
    <3>4. ASSUME NEW y \in W(k) PROVE Callers(y) \subseteq visited'
      <4>1. y \in visited'
        BY <1>1, <1>10
      <4>2. y \notin QueueIds'
        <5>1. ASSUME NEW j \in DOMAIN queue', queue'[j].id = y PROVE FALSE
          <6>1. Away(y, starts, k + 1)
            BY <1>15, <3>2, <5>1
          <6>. QED
            BY <1>8, <3>1, <6>1 DEF Away
        <5>. QED
          BY <5>1 DEF QueueIds
      <4>3. W(k) \subseteq W(MaxDepth - 1)
        <5>1. k <= MaxDepth - 1 /\ MaxDepth - 1 \in 0..MaxDepth
          BY <1>6, <1>8, <3>1
        <5>. QED
          BY <1>8, <5>1, WithinGrows
      <4>. QED
        BY <1>16, <4>1, <4>2, <4>3
    <3>. QED
      BY <1>1, <1>10, <2>5, <3>3, <3>4
  <2>. QED
    BY <2>1, <2>3, <2>4, <2>5
<1>. QED
  <2>1. \A j \in DOMAIN queue' : Away(queue'[j].id, starts, queue'[j].depth)
    BY <1>15
  <2>. QED
    BY <1>5, <1>9, <1>13, <1>14, <1>15, <1>16, <1>17 DEF SearchInv, Away

\* When the queue is empty the search has found exactly what it should.
LEMMA SearchFinds ==
  ASSUME Typed, SearchInv, queue = <<>>
  PROVE  affected = Impacted(starts)
<1>1. MaxDepth \in Nat \ {0} /\ visited \subseteq Id
      /\ affected \subseteq [id : Id, depth : 1..MaxDepth]
  BY Values DEF Typed, TypeOK
<1>. DEFINE W(n) == Within(starts)[n]
<1>2. /\ visited = starts \cup {a.id : a \in affected}
      /\ \A a \in affected : Away(a.id, starts, a.depth)
      /\ \A x \in visited : Callers(x) \subseteq visited \/ x \notin W(MaxDepth - 1)
  BY DEF SearchInv, QueueIds
<1>3. \A k \in 0..MaxDepth : W(k) \subseteq visited
  <2>. DEFINE M == {m \in Nat : m <= MaxDepth => W(m) \subseteq visited}
  <2>1. 0 \in M
    BY <1>2, WithinSteps
  <2>2. ASSUME NEW m \in Nat, m \in M PROVE m + 1 \in M
    <3>. SUFFICES ASSUME m + 1 <= MaxDepth PROVE W(m + 1) \subseteq visited
      OBVIOUS
    <3>1. W(m) \subseteq visited
      BY <1>1, <2>2
    <3>. DEFINE n == m + 1
    <3>2. n \in 1..MaxDepth /\ n - 1 = m
      BY <1>1
    <3>. HIDE DEF n
    <3>3. W(n) = W(m) \cup UNION {Callers(y) : y \in W(m)}
      BY <3>2, WithinSteps
    <3>4. W(m) \subseteq W(MaxDepth - 1)
      <4>1. m \in 0..MaxDepth /\ MaxDepth - 1 \in 0..MaxDepth /\ m <= MaxDepth - 1
        BY <1>1
      <4>. QED
        BY <4>1, WithinGrows
    <3>5. W(n) \subseteq visited
      BY <1>2, <3>1, <3>3, <3>4
    <3>. QED
      BY <3>5 DEF n
  <2>3. Nat \subseteq M
    <3>. HIDE DEF M
    <3>. QED
      BY <2>1, <2>2, SetInduction
  <2>. QED
    BY <1>1, <2>3
<1>4. ASSUME NEW a \in affected PROVE a \in Impacted(starts)
  BY <1>1, <1>2, ImpactedItems
<1>5. ASSUME NEW b \in Impacted(starts) PROVE b \in affected
  <2>1. b \in [id : Id, depth : 1..MaxDepth] /\ Away(b.id, starts, b.depth)
    BY ImpactedItems
  <2>2. b.depth \in 1..MaxDepth /\ b.depth - 1 \in 0..MaxDepth /\ b.depth > 0
        /\ b.depth \in 0..MaxDepth
    BY <1>1, <2>1
  <2>3. b.id \in visited /\ b.id \notin W(b.depth - 1)
    BY <1>3, <2>1, <2>2 DEF Away
  <2>4. starts \subseteq W(b.depth - 1)
    <3>1. 0 \in 0..MaxDepth /\ 0 <= b.depth - 1
      BY <1>1, <2>2
    <3>2. W(0) \subseteq W(b.depth - 1)
      BY <2>2, <3>1, WithinGrows
    <3>. QED
      BY <3>2, WithinSteps
  <2>5. PICK a \in affected : a.id = b.id
    BY <1>2, <2>3, <2>4
  <2>6. Away(b.id, starts, a.depth) /\ a.depth \in 0..MaxDepth
    <3>1. a \in [id : Id, depth : 1..MaxDepth]
      BY <1>1
    <3>. QED
      BY <1>1, <1>2, <2>5, <3>1
  <2>7. a.depth = b.depth
    BY <2>1, <2>2, <2>6, OneDistance
  <2>8. a = b
    BY <1>1, <2>1, <2>5, <2>7
  <2>. QED
    BY <2>8
<1>. QED
  BY <1>4, <1>5

-----------------------------------------------------------------------------
(* The merge.                                                              *)

\* What was merged stays what it was.
LEMMA MergeStays ==
  ASSUME MergeInv, targets' = targets, nodes' = nodes, edges' = edges,
         next' = next,
         depthOf' = depthOf, eps' = eps, uncovered' = uncovered,
         Resolved' = Resolved
  PROVE  MergeInv'
<1>1. AllFound' = AllFound
  BY TargetsStay DEF AllFound
<1>2. uncovered' = {targets'[j] : j \in {k \in 1..Resolved' : NoNode(k)'}}
  BY TargetsStay DEF MergeInv
<1>3. eps' = {x \in DOMAIN depthOf' : RepoIs(x, EntryRepo)'}
  BY TargetsStay DEF MergeInv
<1>4. /\ DOMAIN depthOf' = {a.id : a \in AllFound'}
      /\ \A x \in DOMAIN depthOf' : Item(x, depthOf'[x]) \in AllFound'
  BY <1>1 DEF MergeInv
<1>. QED
  BY <1>2, <1>3, <1>4 DEF MergeInv

\* One target more is merged.
LEMMA MergeStep ==
  ASSUME IInv, MergeTarget
  PROVE  MergeInv'
<1>1. Typed /\ pc = "search" /\ SearchInv /\ queue = <<>> /\ MergeInv
      /\ next \in Nat \ {0} /\ starts = ResolveSymbol(targets[next])
  BY Values DEF IInv, MergeTarget
<1>2. affected = Found(next)
  BY <1>1, SearchFinds DEF Found
<1>. DEFINE new == {a \in affected : a.id \notin DOMAIN depthOf}
            pick(x) == CHOOSE a \in new : a.id = x
<1>3. /\ depthOf' = [x \in DOMAIN depthOf \cup {a.id : a \in new} |->
                       IF x \in DOMAIN depthOf THEN depthOf[x] ELSE pick(x).depth]
      /\ eps' = eps \cup {a.id : a \in {b \in affected : RepoIs(b.id, EntryRepo)}}
      /\ next' = next + 1 /\ pc' = "resolve" /\ uncovered' = uncovered
      /\ targets' = targets /\ nodes' = nodes /\ edges' = edges
  BY DEF MergeTarget, graph
<1>4. AllFound' = AllFound \cup affected
  <2>1. \A j : Found(j)' = Found(j)
    BY <1>3, TargetsStay
  <2>2. 1..(next' - 1) = 1..(next - 1) \cup {next}
    BY <1>1, <1>3
  <2>. QED
    BY <1>2, <2>1, <2>2 DEF AllFound
<1>5. /\ DOMAIN depthOf = {a.id : a \in AllFound}
      /\ \A x \in DOMAIN depthOf : Item(x, depthOf[x]) \in AllFound
      /\ eps = {x \in DOMAIN depthOf : RepoIs(x, EntryRepo)}
      /\ uncovered = {targets[j] : j \in {k \in 1..next : NoNode(k)}}
  BY <1>1 DEF MergeInv, Resolved
<1>6. \A a \in affected : a = Item(a.id, a.depth)
  BY <1>1 DEF Typed, TypeOK, Item
<1>7. \A x \in {a.id : a \in new} : pick(x) \in new /\ pick(x).id = x
  OBVIOUS
<1>8. DOMAIN depthOf' = {a.id : a \in AllFound \cup affected}
  BY <1>3, <1>5
<1>9. ASSUME NEW x \in DOMAIN depthOf'
      PROVE  Item(x, depthOf'[x]) \in AllFound \cup affected
  <2>1. CASE x \in DOMAIN depthOf
    BY <1>3, <1>5, <2>1
  <2>2. CASE x \notin DOMAIN depthOf
    <3>1. pick(x) \in affected /\ pick(x).id = x
      BY <1>3, <1>7, <2>2
    <3>. HIDE DEF pick
    <3>2. Item(x, pick(x).depth) \in affected
      BY <1>6, <3>1
    <3>3. depthOf'[x] = pick(x).depth
      BY <1>3, <2>2
    <3>. QED
      BY <3>2, <3>3
  <2>. QED
    BY <2>1, <2>2
<1>10. eps' = {x \in DOMAIN depthOf' : RepoIs(x, EntryRepo)}
  BY <1>3, <1>5, <1>8
<1>11. Resolved' = next
  BY <1>1, <1>3 DEF Resolved
<1>. QED
  <2>1. eps' = {x \in DOMAIN depthOf' : RepoIs(x, EntryRepo)'}
    BY <1>3, <1>10, TargetsStay
  <2>2. uncovered' = {targets'[j] : j \in {k \in 1..Resolved' : NoNode(k)'}}
    BY <1>3, <1>5, <1>11, TargetsStay
  <2>. QED
    BY <1>4, <1>8, <1>9, <2>1, <2>2 DEF MergeInv

-----------------------------------------------------------------------------
(* Every step.                                                             *)

LEMMA InitIInv == Init => IInv
<1>. SUFFICES ASSUME Init PROVE IInv
  OBVIOUS
<1>1. /\ pc = "nodes" /\ next = 1 /\ starts = {} /\ queue = <<>> /\ visited = {}
         /\ affected = {}
      /\ depthOf = <<>> /\ eps = {} /\ uncovered = {} /\ nodes = {} /\ edges = {}
         /\ risk = "LOW"
      /\ targets \in Inputs
  BY DEF Init
<1>2. targets \in Seq(Target)
  BY <1>1, ResolverAssumption
<1>3. next \in 1..(Len(targets) + 1)
  BY <1>1, <1>2
<1>4. DOMAIN queue = {} /\ DOMAIN depthOf = {}
  BY <1>1
<1>5. TypeOK
  BY <1>1, <1>3, <1>4 DEF TypeOK
<1>. QED
  BY <1>1, <1>5 DEF IInv, Typed

LEMMA LoadNodesNext == ASSUME IInv, NEW N \in SUBSET Id, LoadNodes(N) PROVE IInv'
<1>1. Typed /\ starts = {} /\ eps = {} /\ depthOf = <<>> /\ uncovered = {}
      /\ next = 1
  BY DEF IInv, LoadNodes
<1>2. /\ nodes' = N /\ pc' \in {"off", "edges"}
      /\ UNCHANGED <<targets, edges, next, search, merged>>
  BY DEF LoadNodes
<1>3. Typed'
  BY <1>1, <1>2 DEF Typed, TypeOK, search, merged
<1>. QED
  BY <1>1, <1>2, <1>3 DEF IInv, search, merged

LEMMA LoadEdgesNext ==
  ASSUME IInv, NEW E \in SUBSET Calls, LoadEdges(E) PROVE IInv'
<1>1. Typed /\ starts = {} /\ eps = {} /\ depthOf = <<>> /\ uncovered = {}
      /\ next = 1
  BY DEF IInv, LoadEdges
<1>2. /\ edges' = E /\ pc' = "resolve"
      /\ UNCHANGED <<targets, nodes, next, search, merged>>
  BY DEF LoadEdges
<1>3. Typed'
  BY <1>1, <1>2 DEF Typed, TypeOK, search, merged
<1>4. MergeInv'
  <2>1. AllFound' = {} /\ Resolved' = 0
    BY <1>1, <1>2 DEF AllFound, Resolved
  <2>2. depthOf' = <<>> /\ eps' = {} /\ uncovered' = {}
    BY <1>1, <1>2 DEF merged
  <2>. QED
    BY <2>1, <2>2 DEF MergeInv
<1>. QED
  BY <1>2, <1>3, <1>4 DEF IInv

LEMMA ResolveNext == ASSUME IInv, Resolve PROVE IInv'
<1>. DEFINE found == ResolveSymbol(targets[next])
<1>1. Typed /\ MergeInv /\ pc = "resolve"
  BY DEF IInv, Resolve
<1>2. /\ next <= Len(targets) /\ starts' = found /\ visited' = found
         /\ affected' = {}
      /\ pc' = "search" /\ next' = next
      /\ uncovered' = (IF found = {} THEN uncovered \cup {targets[next]} ELSE uncovered)
      /\ targets' = targets /\ nodes' = nodes /\ edges' = edges
      /\ depthOf' = depthOf /\ eps' = eps /\ hops' = hops /\ risk' = risk
  BY DEF Resolve, graph
<1>3. SearchInv' /\ queue' \in Seq(QueueItem)
      /\ \A j \in DOMAIN queue' : queue'[j].depth = 0
  BY <1>1, ResolveStep
<1>4. next \in Nat \ {0} /\ found \subseteq nodes /\ nodes \subseteq Id
      /\ next \in DOMAIN targets
      /\ (found = {} <=> NoNode(next))
  <2>1. next \in Nat \ {0} /\ nodes \subseteq Id /\ targets \in Seq(Target)
    BY <1>1, Values
  <2>2. next \in DOMAIN targets
    BY <1>2, <2>1
  <2>3. found \subseteq nodes /\ (found = {} <=> NoNode(next))
    BY <1>1, ResolvedType DEF NoNode
  <2>. QED
    BY <2>1, <2>2, <2>3
<1>. HIDE DEF found
<1>5. TypeOK'
  <2>1. \A j \in DOMAIN queue' : queue'[j] \in QueueItem
    BY <1>3
  <2>2. uncovered' \subseteq {targets'[j] : j \in DOMAIN targets'}
    BY <1>1, <1>2, <1>4 DEF Typed, TypeOK
  <2>3. \A j, k \in DOMAIN queue' :
           j < k => queue'[k].depth \in {queue'[j].depth, queue'[j].depth + 1}
    BY <1>3
  <2>. QED
    BY <1>1, <1>2, <1>4, <2>1, <2>2, <2>3 DEF Typed, TypeOK, QueueItem
<1>6. MergeInv'
  <2>1. AllFound' = AllFound
    BY <1>2, TargetsStay DEF AllFound
  <2>2. Resolved' = next /\ Resolved = next - 1
        /\ 1..next = 1..(next - 1) \cup {next}
    BY <1>1, <1>2, <1>4 DEF Resolved
  <2>3. uncovered = {targets[j] : j \in {k \in 1..(next - 1) : NoNode(k)}}
    BY <1>1, <2>2 DEF MergeInv
  <2>4. uncovered' = {targets[j] : j \in {k \in 1..next : NoNode(k)}}
    <3>1. {k \in 1..next : NoNode(k)} =
             {k \in 1..(next - 1) : NoNode(k)} \cup (IF NoNode(next) THEN {next} ELSE {})
      BY <2>2
    <3>. QED
      BY <1>2, <1>4, <2>3, <3>1
  <2>5. uncovered' = {targets'[j] : j \in {k \in 1..Resolved' : NoNode(k)'}}
    BY <1>2, <2>2, <2>4, TargetsStay
  <2>6. eps' = {x \in DOMAIN depthOf' : RepoIs(x, EntryRepo)'}
    BY <1>1, <1>2, TargetsStay DEF MergeInv
  <2>7. /\ DOMAIN depthOf' = {a.id : a \in AllFound'}
        /\ \A x \in DOMAIN depthOf' : Item(x, depthOf'[x]) \in AllFound'
    BY <1>1, <1>2, <2>1 DEF MergeInv
  <2>. QED
    BY <2>5, <2>6, <2>7 DEF MergeInv
<1>7. starts' = ResolveSymbol(targets[next])'
  <2>1. starts' = ResolveSymbol(targets[next])
    BY <1>2 DEF found
  <2>. QED
    BY <1>2, <2>1 DEF ResolveSymbol, FindNodesByName, FileOK
<1>. QED
  BY <1>2, <1>3, <1>5, <1>6, <1>7 DEF IInv, Typed

LEMMA DequeueNext == ASSUME IInv, Dequeue PROVE IInv'
<1>1. Typed /\ pc = "search" /\ SearchInv /\ MergeInv
      /\ next <= Len(targets) /\ starts = ResolveSymbol(targets[next])
  BY DEF IInv, Dequeue, Expand
<1>2. /\ pc' = pc /\ next' = next /\ starts' = starts
      /\ targets' = targets /\ nodes' = nodes /\ edges' = edges
      /\ depthOf' = depthOf /\ eps' = eps /\ hops' = hops
         /\ uncovered' = uncovered /\ risk' = risk
  BY DEF Dequeue, Expand, graph, merged
<1>3. SearchInv'
  BY <1>1, DequeueStep
<1>4. /\ 1 \in DOMAIN queue /\ Len(queue) \in Nat \ {0}
         /\ queue' \in Seq(QueueItem)
      /\ visited' = visited \cup Called
      /\ affected' = affected \cup {Item(x, Step) : x \in Called}
      /\ Called \subseteq Id /\ (Called # {} => Step \in 1..MaxDepth)
      /\ \A j \in DOMAIN queue' :
            \/ j <= Len(queue) - 1 /\ queue'[j] = queue[j + 1]
            \/ /\ j >= Len(queue) /\ queue'[j].id \in Called
               /\ queue'[j].depth = Step
  BY <1>1, QueueStep
<1>5. /\ queue \in Seq(QueueItem) /\ DOMAIN queue = 1..Len(queue)
      /\ \A i, j \in DOMAIN queue : i < j =>
         queue[j].depth \in {queue[i].depth, queue[i].depth + 1}
      /\ \A j \in DOMAIN queue : queue[j].depth \in Nat
  <2>1. \A j \in DOMAIN queue : queue[j] \in QueueItem
    BY <1>1 DEF Typed
  <2>. QED
    BY <1>1, <2>1, Values DEF Typed, TypeOK, QueueItem
<1>6. ASSUME NEW i \in DOMAIN queue', NEW j \in DOMAIN queue', i < j
      PROVE  queue'[j].depth \in {queue'[i].depth, queue'[i].depth + 1}
  <2>1. i \in Nat \ {0} /\ j \in Nat \ {0}
    BY <1>4
  <2>2. \A k \in DOMAIN queue : queue[k].depth \in {queue[1].depth, queue[1].depth + 1}
    <3>. SUFFICES ASSUME NEW k \in DOMAIN queue
                  PROVE  queue[k].depth \in {queue[1].depth, queue[1].depth + 1}
      OBVIOUS
    <3>1. CASE k = 1
      BY <3>1
    <3>2. CASE k # 1
      <4>1. 1 < k
        BY <1>4, <1>5, <3>2
      <4>. QED
        BY <1>4, <1>5, <4>1
    <3>. QED
      BY <3>1, <3>2
  <2>3. CASE j <= Len(queue) - 1 /\ queue'[j] = queue[j + 1]
    <3>1. queue'[i] = queue[i + 1] /\ i + 1 \in DOMAIN queue
          /\ j + 1 \in DOMAIN queue /\ i + 1 < j + 1
      BY <1>4, <1>5, <1>6, <2>1, <2>3
    <3>. QED
      BY <1>5, <2>3, <3>1
  <2>4. CASE queue'[j].depth = Step
    <3>1. CASE queue'[i].depth = Step
      BY <2>4, <3>1
    <3>2. CASE i <= Len(queue) - 1 /\ queue'[i] = queue[i + 1]
      <4>1. i + 1 \in DOMAIN queue
        BY <1>4, <1>5, <2>1, <3>2
      <4>. QED
        BY <2>2, <2>4, <3>2, <4>1 DEF Step
    <3>. QED
      BY <1>4, <3>1, <3>2
  <2>. QED
    BY <1>4, <2>3, <2>4
<1>7. TypeOK'
  <2>1. \A j \in DOMAIN queue' : queue'[j] \in QueueItem
    BY <1>4
  <2>2. \A x \in Called : Item(x, Step) \in [id : Id, depth : 1..MaxDepth]
    BY <1>4 DEF Item
  <2>3. affected' \subseteq [id : Id, depth : 1..MaxDepth]
        /\ visited' \subseteq Id
    BY <1>1, <1>4, <2>2 DEF Typed, TypeOK
  <2>. QED
    BY <1>1, <1>2, <1>6, <2>1, <2>3 DEF Typed, TypeOK, QueueItem
<1>8. MergeInv'
  BY <1>1, <1>2, MergeStays DEF Resolved
<1>9. starts' = ResolveSymbol(targets[next])'
  BY <1>1, <1>2 DEF ResolveSymbol, FindNodesByName, FileOK
<1>. QED
  BY <1>1, <1>2, <1>3, <1>4, <1>7, <1>8, <1>9 DEF IInv, Typed

LEMMA MergeNext == ASSUME IInv, MergeTarget PROVE IInv'
<1>1. Typed /\ pc = "search" /\ next <= Len(targets)
  BY DEF IInv, MergeTarget
<1>2. MergeInv'
  BY MergeStep
<1>. DEFINE new == {a \in affected : a.id \notin DOMAIN depthOf}
            pick(x) == CHOOSE a \in new : a.id = x
<1>3. /\ depthOf' = [x \in DOMAIN depthOf \cup {a.id : a \in new} |->
                       IF x \in DOMAIN depthOf THEN depthOf[x] ELSE pick(x).depth]
      /\ eps' = eps \cup {a.id : a \in {b \in affected : RepoIs(b.id, EntryRepo)}}
      /\ next' = next + 1 /\ pc' = "resolve" /\ uncovered' = uncovered
         /\ risk' = risk
      /\ targets' = targets /\ nodes' = nodes /\ edges' = edges
      /\ starts' = starts /\ queue' = queue /\ visited' = visited
         /\ affected' = affected
  BY DEF MergeTarget, graph, search
<1>4. ASSUME NEW x \in DOMAIN depthOf'
      PROVE  x \in Id /\ depthOf'[x] \in 1..MaxDepth
  <2>1. CASE x \in DOMAIN depthOf
    BY <1>1, <1>3, <2>1 DEF Typed, TypeOK
  <2>2. CASE x \notin DOMAIN depthOf
    <3>1. x \in {a.id : a \in new}
      BY <1>3, <2>2
    <3>2. pick(x) \in affected /\ pick(x).id = x
      BY <3>1
    <3>3. depthOf'[x] = pick(x).depth
      BY <1>3, <2>2
    <3>. HIDE DEF pick
    <3>. QED
      BY <1>1, <3>2, <3>3 DEF Typed, TypeOK
  <2>. QED
    BY <2>1, <2>2
<1>5. eps' \subseteq nodes
  BY <1>1, <1>3 DEF RepoIs, Typed, TypeOK
<1>6. next' \in 1..(Len(targets) + 1)
  BY <1>1, <1>3, Values
<1>7. Typed'
  BY <1>1, <1>3, <1>4, <1>5, <1>6 DEF Typed, TypeOK
<1>. QED
  BY <1>2, <1>3, <1>7 DEF IInv

LEMMA FinishNext == ASSUME IInv, Finish PROVE IInv'
<1>1. Typed /\ MergeInv /\ pc = "resolve" /\ next > Len(targets)
  BY DEF IInv, Finish
<1>2. /\ risk' = AssessRisk /\ pc' = "done" /\ next' = next
      /\ targets' = targets /\ nodes' = nodes /\ edges' = edges
      /\ starts' = starts /\ queue' = queue /\ visited' = visited
         /\ affected' = affected
      /\ depthOf' = depthOf /\ eps' = eps /\ hops' = hops
         /\ uncovered' = uncovered
  BY DEF Finish, graph, search
<1>3. AssessRisk \in {"LOW", "MEDIUM", "HIGH", "CRITICAL"}
      /\ (eps # {} => AssessRisk = "CRITICAL")
  BY DEF AssessRisk
<1>4. next = Len(targets) + 1
  BY <1>1, Values
<1>5. Typed'
  BY <1>1, <1>2, <1>3 DEF Typed, TypeOK
<1>6. MergeInv'
  BY <1>1, <1>2, MergeStays DEF Resolved
<1>. QED
  BY <1>2, <1>3, <1>4, <1>5, <1>6 DEF IInv

LEMMA StutterNext == ASSUME IInv, UNCHANGED vars PROVE IInv'
<1>1. /\ targets' = targets /\ nodes' = nodes /\ edges' = edges /\ pc' = pc
         /\ next' = next
      /\ starts' = starts /\ queue' = queue /\ visited' = visited
         /\ affected' = affected
      /\ depthOf' = depthOf /\ eps' = eps /\ hops' = hops
         /\ uncovered' = uncovered /\ risk' = risk
  BY DEF vars, graph, search, merged
<1>2. Typed'
  BY <1>1 DEF IInv, Typed, TypeOK
<1>3. MergeInv => MergeInv'
  BY <1>1, MergeStays DEF Resolved
<1>4. SearchInv => SearchInv'
  <2>1. Within(starts)' = Within(starts) /\ \A x : Callers(x)' = Callers(x)
    BY <1>1 DEF Within, Callers
  <2>. QED
    BY <1>1, <2>1 DEF SearchInv, Away, QueueIds
<1>5. ResolveSymbol(targets[next])' = ResolveSymbol(targets[next])
  BY <1>1 DEF ResolveSymbol, FindNodesByName, FileOK
<1>. QED
  BY <1>1, <1>2, <1>3, <1>4, <1>5 DEF IInv

LEMMA NextIInv == ASSUME IInv, [Next]_vars PROVE IInv'
BY LoadNodesNext, LoadEdgesNext, ResolveNext, DequeueNext, MergeNext, FinishNext, StutterNext
   DEF Next, Ended

-----------------------------------------------------------------------------
\* Queue, marks and merge keep to the distances and to the targets in every
\* state of the search.
THEOREM Inductive == Spec => []IInv
  BY InitIInv, NextIInv, PTL DEF Spec

\* Every variable has its type, and the queue is of two neighbouring depths.
THEOREM TypeCorrect == Spec => []TypeOK
<1>1. IInv => TypeOK
  BY DEF IInv, Typed
<1>. QED
  BY <1>1, Inductive, PTL

\* InMemoryGraph.Impact finds every transitive caller up to MaxDepth at its
\* shortest distance, and ImpactMany merges exactly what its targets' searches
\* found, for any finite graph, cyclic or torn, and any order of its edges.
THEOREM SearchIsReach == Spec => []ImpactIsReach
<1>1. IInv => ImpactIsReach
  <2>. SUFFICES ASSUME IInv PROVE ImpactIsReach
    OBVIOUS
  <2>1. pc = "search" /\ queue = <<>> => affected = Impacted(starts)
    BY SearchFinds DEF IInv
  <2>. DEFINE T == {targets[i] : i \in DOMAIN targets}
              all == UNION {Impacted(ResolveSymbol(t)) : t \in T}
  <2>2. ASSUME pc = "done"
        PROVE  /\ DOMAIN depthOf = {a.id : a \in all}
               /\ \A x \in DOMAIN depthOf : Item(x, depthOf[x]) \in all
               /\ eps = {x \in DOMAIN depthOf : RepoIs(x, EntryRepo)}
               /\ uncovered = {t \in T : FindNodesByName(t.name) = {}}
               /\ eps # {} => risk = "CRITICAL"
    <3>1. MergeInv /\ next = Len(targets) + 1 /\ (eps # {} => risk = "CRITICAL")
          /\ targets \in Seq(Target)
      BY <2>2, Values DEF IInv
    <3>2. Resolved = next - 1 /\ 1..(next - 1) = DOMAIN targets
      BY <2>2, <3>1 DEF Resolved
    <3>3. AllFound = all
      BY <3>2 DEF AllFound, Found
    <3>4. uncovered = {t \in T : FindNodesByName(t.name) = {}}
      BY <3>1, <3>2 DEF MergeInv, NoNode
    <3>. HIDE DEF T, all
    <3>. QED
      BY <3>1, <3>3, <3>4 DEF MergeInv
  <2>. QED
    BY <2>1, <2>2 DEF ImpactIsReach
<1>. QED
  BY <1>1, Inductive, PTL

=============================================================================
