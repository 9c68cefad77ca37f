---------------------------- MODULE Worker_proofs ----------------------------
(***************************************************************************)
(* Proofs about Worker, for any tasks, answers, files and searches.        *)
(***************************************************************************)
EXTENDS Worker, WellFoundedInduction, SequenceTheorems, TLAPS

(* Numbers, sequences and searches. *)

\* Induction over the numbers, stated with a set.
LEMMA SetInduction ==
  ASSUME NEW S, 0 \in S, \A n \in Nat : n \in S => n + 1 \in S
  PROVE  Nat \subseteq S
<1>. DEFINE T == Nat \ S
            R == OpToRel(<, Nat)
<1>1. SUFFICES ASSUME T # {} PROVE FALSE
  OBVIOUS
<1>2. PICK m \in T : \A y \in T : ~(<<y, m>> \in R)
  <2>1. IsWellFoundedOn(R, Nat)
    BY NatLessThanWellFounded
  <2>. HIDE DEF R
  <2>. QED
    BY <1>1, <2>1, WFMin
<1>3. \A y \in T : ~(y < m)
  BY <1>2 DEF OpToRel
<1>4. m # 0 /\ m - 1 \in Nat
  OBVIOUS
<1>5. m - 1 \in S
  BY <1>3
<1>. QED
  BY <1>5

LEMMA Smallest ==
  ASSUME NEW S \in SUBSET Nat, S # {}
  PROVE  \E m \in S : \A n \in S : m <= n
<1>. DEFINE R == OpToRel(<, Nat)
<1>1. PICK m \in S : \A n \in S : ~(<<n, m>> \in R)
  <2>1. IsWellFoundedOn(R, Nat)
    BY NatLessThanWellFounded
  <2>. HIDE DEF R
  <2>. QED
    BY <2>1, WFMin
<1>2. \A n \in S : ~(n < m)
  BY <1>1 DEF OpToRel
<1>. QED
  BY <1>2

\* The equation of the function that Filter defines by recursion.
Filters(f, s, T, n) ==
    f = [k \in 0..n |->
           IF k = 0 THEN <<>>
           ELSE IF s[k] \in T THEN Append(f[k - 1], s[k]) ELSE f[k - 1]]

LEMMA FilterFunction ==
  ASSUME NEW s, NEW T, NEW n \in Nat
  PROVE  \E f : Filters(f, s, T, n)
<1>. DEFINE S == {m \in Nat : \E f : Filters(f, s, T, m)}
<1>1. 0 \in S
  <2>. DEFINE f == [k \in 0..0 |-> <<>>]
  <2>1. Filters(f, s, T, 0)
    OBVIOUS
  <2>. QED
    BY <2>1
<1>2. ASSUME NEW m \in Nat, m \in S PROVE m + 1 \in S
  <2>1. PICK f : Filters(f, s, T, m)
    BY <1>2
  <2>. DEFINE last == IF s[m + 1] \in T THEN Append(f[m], s[m + 1]) ELSE f[m]
              g == [k \in 0..(m + 1) |-> IF k = m + 1 THEN last ELSE f[k]]
  <2>2. \A k \in 0..m : f[k] = IF k = 0 THEN <<>>
                              ELSE IF s[k] \in T THEN Append(f[k - 1], s[k]) ELSE f[k - 1]
    BY <2>1 DEF Filters
  <2>3. \A k \in 0..(m + 1) : g[k] = IF k = 0 THEN <<>>
                              ELSE IF s[k] \in T THEN Append(g[k - 1], s[k]) ELSE g[k - 1]
    <3>. SUFFICES ASSUME NEW k \in 0..(m + 1)
                  PROVE g[k] = IF k = 0 THEN <<>>
                               ELSE IF s[k] \in T THEN Append(g[k - 1], s[k]) ELSE g[k - 1]
      OBVIOUS
    <3>1. k # 0 => g[k - 1] = f[k - 1]
      OBVIOUS
    <3>2. CASE k = m + 1
      <4>1. g[k] = last /\ k - 1 = m /\ k # 0
        BY <3>2
      <4>. QED
        BY <4>1
    <3>3. CASE k # m + 1
      <4>1. k \in 0..m /\ g[k] = f[k]
        BY <3>3
      <4>. QED
        BY <2>2
    <3>. QED
      BY <3>3
  <2>4. Filters(g, s, T, m + 1)
    BY <2>3 DEF Filters
  <2>. QED
    BY <2>4
<1>3. Nat \subseteq S
  <2>. HIDE DEF S
  <2>. QED
    BY <1>1, <1>2, SetInduction
<1>. QED
  BY <1>3

LEMMA SetOfAppend ==
  ASSUME NEW S, NEW s \in Seq(S), NEW e \in S
  PROVE  Append(s, e) \in Seq(S) /\ SetOf(Append(s, e)) = SetOf(s) \cup {e}
<1>1. /\ DOMAIN Append(s, e) = DOMAIN s \cup {Len(s) + 1}
      /\ Append(s, e)[Len(s) + 1] = e
         /\ \A k \in DOMAIN s : Append(s, e)[k] = s[k]
  OBVIOUS
<1>. QED
  BY <1>1 DEF SetOf

\* A filtered sequence has the elements that are let through.
LEMMA FilterElements ==
  ASSUME NEW S, NEW s \in Seq(S), NEW T
  PROVE  Filter(s, T) \in Seq(S) /\ SetOf(Filter(s, T)) = SetOf(s) \cap T
<1>. DEFINE kept == CHOOSE f : Filters(f, s, T, Len(s))
            E(k) == {s[j] : j \in 1..k}
            P == {k \in Nat : k <= Len(s) =>
                                kept[k] \in Seq(S)
                                /\ SetOf(kept[k]) = E(k) \cap T}
<1>1. Filter(s, T) = kept[Len(s)]
  BY DEF Filter, Filters
<1>2. Len(s) \in Nat /\ DOMAIN s = 1..Len(s) /\ \A k \in DOMAIN s : s[k] \in S
  OBVIOUS
<1>3. Filters(kept, s, T, Len(s))
  BY FilterFunction
<1>. HIDE DEF kept
<1>4. \A k \in 0..Len(s) :
         kept[k] = IF k = 0 THEN <<>>
                   ELSE IF s[k] \in T THEN Append(kept[k - 1], s[k]) ELSE kept[k - 1]
  BY <1>3 DEF Filters
<1>5. 0 \in P
  <2>1. kept[0] = <<>>
    BY <1>4
  <2>2. SetOf(<<>>) = {} /\ E(0) = {} /\ <<>> \in Seq(S)
    BY DEF SetOf
  <2>. QED
    BY <2>1, <2>2
<1>6. ASSUME NEW k \in Nat, k \in P PROVE k + 1 \in P
  <2>. SUFFICES ASSUME k + 1 <= Len(s)
                PROVE kept[k + 1] \in Seq(S)
                      /\ SetOf(kept[k + 1]) = E(k + 1) \cap T
    OBVIOUS
  <2>1. kept[k] \in Seq(S) /\ SetOf(kept[k]) = E(k) \cap T
    BY <1>6
  <2>2. kept[k + 1] = IF s[k + 1] \in T THEN Append(kept[k], s[k + 1]) ELSE kept[k]
    BY <1>4
  <2>3. s[k + 1] \in S /\ E(k + 1) = E(k) \cup {s[k + 1]}
    OBVIOUS
  <2>4. CASE s[k + 1] \in T
    <3>1. kept[k + 1] = Append(kept[k], s[k + 1])
      BY <2>2, <2>4
    <3>2. /\ Append(kept[k], s[k + 1]) \in Seq(S)
          /\ SetOf(Append(kept[k], s[k + 1])) = SetOf(kept[k]) \cup {s[k + 1]}
      BY <2>1, SetOfAppend
    <3>. HIDE DEF E
    <3>. QED
      BY <2>1, <2>3, <2>4, <3>1, <3>2
  <2>5. CASE s[k + 1] \notin T
    <3>. HIDE DEF E
    <3>. QED
      BY <2>1, <2>2, <2>3, <2>5
  <2>. QED
    BY <2>4, <2>5
<1>7. Nat \subseteq P
  <2>. HIDE DEF P
  <2>. QED
    BY <1>5, <1>6, SetInduction
<1>8. E(Len(s)) = SetOf(s)
  BY DEF SetOf
<1>. HIDE DEF E
<1>. QED
  BY <1>1, <1>7, <1>8

LEMMA ConcatElements ==
  ASSUME NEW S, NEW s \in Seq(S), NEW t \in Seq(S)
  PROVE  s \o t \in Seq(S) /\ SetOf(s \o t) = SetOf(s) \cup SetOf(t)
<1>1. /\ s \o t \in Seq(S) /\ Len(s \o t) = Len(s) + Len(t)
      /\ \A j \in 1..(Len(s) + Len(t)) :
            (s \o t)[j] = IF j <= Len(s) THEN s[j] ELSE t[j - Len(s)]
  OBVIOUS
<1>. DEFINE u == s \o t
<1>. HIDE DEF u
<1>2. u \in Seq(S) /\ Len(u) = Len(s) + Len(t)
      /\ \A j \in 1..(Len(s) + Len(t)) : u[j] = IF j <= Len(s) THEN s[j] ELSE t[j - Len(s)]
  BY DEF u
<1>3. ASSUME NEW j \in DOMAIN u PROVE u[j] \in SetOf(s) \cup SetOf(t)
  <2>1. j \in 1..(Len(s) + Len(t)) /\ Len(s) \in Nat /\ Len(t) \in Nat
    BY <1>2
  <2>2. CASE j <= Len(s)
    <3>1. j \in DOMAIN s /\ u[j] = s[j]
      BY <1>2, <2>2
    <3>. QED
      BY <3>1 DEF SetOf
  <2>3. CASE ~(j <= Len(s))
    <3>1. j - Len(s) \in DOMAIN t /\ u[j] = t[j - Len(s)]
      BY <1>2, <2>3
    <3>. QED
      BY <3>1 DEF SetOf
  <2>. QED
    BY <2>2, <2>3
<1>4. ASSUME NEW j \in DOMAIN s PROVE s[j] \in SetOf(u)
  <2>1. j \in DOMAIN u /\ u[j] = s[j]
    BY <1>2
  <2>. QED
    BY <2>1 DEF SetOf
<1>5. ASSUME NEW j \in DOMAIN t PROVE t[j] \in SetOf(u)
  <2>1. j + Len(s) \in DOMAIN u /\ u[j + Len(s)] = t[j]
    BY <1>2
  <2>. QED
    BY <2>1 DEF SetOf
<1>. QED
  BY <1>1, <1>3, <1>4, <1>5 DEF SetOf, u

LEMMA Division ==
  ASSUME NEW a \in Nat, NEW d \in Nat \ {0}
  PROVE  a \div d \in Nat /\ a < (a \div d) * d + d
  OBVIOUS

LEMMA Multiples ==
  ASSUME NEW a \in Nat, NEW b \in Nat, NEW d \in Nat \ {0}, a <= b
  PROVE  a * d \in Nat /\ a * d <= b * d /\ (a + 1) * d = a * d + d
  OBVIOUS

\* A chunk is a piece of its list, and the last one reaches the end.
LEMMA ChunkElements ==
  ASSUME NEW S, NEW s \in Seq(S), NEW size \in Nat \ {0}, NEW k \in Nat
  PROVE  /\ Chunk(s, size, k) \in Seq(S)
            /\ SetOf(Chunk(s, size, k)) \subseteq SetOf(s)
         /\ \A p \in DOMAIN s : k * size < p /\ p <= (k + 1) * size =>
            s[p] \in SetOf(Chunk(s, size, k))
<1>. DEFINE m == k * size + 1
            n == IF (k + 1) * size < Len(s) THEN (k + 1) * size ELSE Len(s)
<1>1. m \in Nat /\ n \in Nat /\ n <= Len(s) /\ m >= 1 /\ k * size = m - 1
      /\ \A p \in DOMAIN s : p <= (k + 1) * size => p <= n
  OBVIOUS
<1>2. Chunk(s, size, k) = SubSeq(s, m, n)
  BY DEF Chunk
<1>. HIDE DEF m, n
<1>3. /\ SubSeq(s, m, n) \in Seq(S)
         /\ Len(SubSeq(s, m, n)) = IF m <= n THEN n - m + 1 ELSE 0
      /\ \A j \in 1..(n - m + 1) : SubSeq(s, m, n)[j] = s[m + j - 1]
  <2>1. \A j \in m..n : s[j] \in S
    BY <1>1
  <2>. QED
    BY <1>1
<1>. DEFINE c == SubSeq(s, m, n)
<1>. HIDE DEF c
<1>4. c \in Seq(S) /\ Len(c) = (IF m <= n THEN n - m + 1 ELSE 0)
      /\ \A j \in 1..(n - m + 1) : c[j] = s[m + j - 1]
  BY <1>3 DEF c
<1>5. ASSUME NEW j \in DOMAIN c PROVE c[j] \in SetOf(s)
  <2>1. m + j - 1 \in DOMAIN s /\ c[j] = s[m + j - 1]
    BY <1>1, <1>4
  <2>. QED
    BY <2>1 DEF SetOf
<1>6. ASSUME NEW p \in DOMAIN s, k * size < p, p <= (k + 1) * size
      PROVE  s[p] \in SetOf(c)
  <2>1. p \in Nat /\ m <= p /\ p <= n
    BY <1>1, <1>6
  <2>2. p - m + 1 \in DOMAIN c /\ c[p - m + 1] = s[p]
    BY <1>1, <1>4, <2>1
  <2>. QED
    BY <2>2 DEF SetOf
<1>. QED
  BY <1>2, <1>3, <1>5, <1>6 DEF SetOf, c

LEMMA LastChunk ==
  ASSUME NEW S, NEW s \in Seq(S), NEW size \in Nat \ {0}, NEW k \in Nat,
         ~(k + 1 < Chunks(s, size))
  PROVE  Len(s) <= (k + 1) * size
<1>. DEFINE q == (Len(s) + size - 1) \div size
<1>1. Len(s) \in Nat /\ Len(s) + size - 1 \in Nat
  OBVIOUS
<1>2. q \in Nat /\ Len(s) + size - 1 < q * size + size
  OBVIOUS
<1>3. q <= k + 1
  BY DEF Chunks
<1>. HIDE DEF q
<1>4. q * size \in Nat /\ q * size <= (k + 1) * size
  BY <1>2, <1>3
<1>5. (k + 1) * size \in Nat
  OBVIOUS
<1>. QED
  BY <1>2, <1>4

\* What a search finds exists; what it finds under the repository is there.
LEMMA LocateExists ==
  ASSUME NEW fun \in DOMAIN Variants, NEW D \in SUBSET {"repo", "workspace"},
         NEW dirs \in Seq(D), NEW F, Exists \subseteq F \/ (D = {"repo"} /\ InRepo \subseteq F)
  PROVE  Locate(fun, dirs) \in F \cup {""}
<1>. DEFINE tries == {t \in (DOMAIN Variants[fun]) \X (DOMAIN dirs) :
                         Hit[Variants[fun][t[1]]][dirs[t[2]]] # ""}
            Least(t) == \A u \in tries : t[1] < u[1] \/ (t[1] = u[1] /\ t[2] <= u[2])
            first == CHOOSE t \in tries : Least(t)
<1>1. Locate(fun, dirs) = IF tries = {} THEN "" ELSE Hit[Variants[fun][first[1]]][dirs[first[2]]]
  BY DEF Locate
<1>2. /\ Variants[fun] \in Seq(DOMAIN Hit)
      /\ \A p \in DOMAIN Hit, d \in D : Hit[p][d] \in F \cup {""}
  <2>1. /\ Variants[fun] \in Seq(DOMAIN Hit)
        /\ \A p \in DOMAIN Hit, d \in {"repo", "workspace"} : Hit[p][d] \in Exists \cup {""}
        /\ \A p \in DOMAIN Hit : Hit[p]["repo"] \in InRepo \cup {""}
    <3>1. Variants \in [DOMAIN Variants -> Seq(DOMAIN Hit)]
          /\ Hit \in [DOMAIN Hit -> [{"repo", "workspace"} -> Exists \cup {""}]]
      BY WorkerAssumption
    <3>2. \A p \in DOMAIN Hit : Hit[p] \in [{"repo", "workspace"} -> Exists \cup {""}]
      BY <3>1, Zenon
    <3>3. Variants[fun] \in Seq(DOMAIN Hit)
      BY <3>1, Zenon
    <3>4. \A p \in DOMAIN Hit : Hit[p]["repo"] \in InRepo \cup {""}
      BY WorkerAssumption
    <3>. QED
      BY <3>2, <3>3, <3>4
  <2>. QED
    BY <2>1
<1>3. /\ DOMAIN Variants[fun] \subseteq Nat /\ DOMAIN dirs \subseteq Nat
      /\ \A v \in DOMAIN Variants[fun] : Variants[fun][v] \in DOMAIN Hit
      /\ \A d \in DOMAIN dirs : dirs[d] \in D
  <2>. DEFINE V == Variants[fun]
  <2>1. V \in Seq(DOMAIN Hit)
    BY <1>2
  <2>. HIDE DEF V
  <2>2. DOMAIN V \subseteq Nat /\ \A v \in DOMAIN V : V[v] \in DOMAIN Hit
    BY <2>1
  <2>. QED
    BY <2>2 DEF V
<1>4. tries \subseteq Nat \X Nat
  BY <1>3
<1>5. ASSUME NEW t \in tries
      PROVE  Hit[Variants[fun][t[1]]][dirs[t[2]]] \in F \cup {""}
  <2>1. Variants[fun][t[1]] \in DOMAIN Hit
    BY <1>3
  <2>2. dirs[t[2]] \in D
    BY <1>3
  <2>. QED
    BY <1>2, <2>1, <2>2
<1>. HIDE DEF tries
<1>6. ASSUME tries # {} PROVE first \in tries
  <2>. DEFINE A == {t[1] : t \in tries}
  <2>1. PICK a \in A : \A x \in A : a <= x
    <3>1. A \in SUBSET Nat /\ A # {}
      BY <1>4, <1>6
    <3>. HIDE DEF A
    <3>. QED
      BY <3>1, Smallest
  <2>. DEFINE B == {t[2] : t \in {u \in tries : u[1] = a}}
  <2>2. PICK b \in B : \A x \in B : b <= x
    <3>1. B \in SUBSET Nat /\ B # {}
      BY <1>4
    <3>. HIDE DEF B
    <3>. QED
      BY <3>1, Smallest
  <2>3. PICK t \in tries : t[1] = a /\ t[2] = b
    OBVIOUS
  <2>4. Least(t)
    <3>. SUFFICES ASSUME NEW u \in tries
         PROVE  t[1] < u[1] \/ (t[1] = u[1] /\ t[2] <= u[2])
      OBVIOUS
    <3>1. a <= u[1] /\ a \in Nat /\ u[1] \in Nat
      BY <1>4, <2>1
    <3>2. u[1] = a => b <= u[2]
      BY <2>2
    <3>. QED
      BY <2>3, <3>1, <3>2
  <2>. QED
    BY <2>4
<1>. QED
  BY <1>1, <1>5, <1>6

-----------------------------------------------------------------------------
(* The inductive invariant.                                                *)

Typed ==
    /\ TypeOK
    /\ nodes \in Seq(Location) /\ eps \in Seq(Location)
    /\ replied \subseteq Name

\* A node of the answer is in s, as it was or with a file that was found.
Carried(n, s) ==
    \/ n \in SetOf(s)
    \/ \E m \in SetOf(s) : m.fun = n.fun /\ m.repo = n.repo /\ m.file \in Present

Parsed == ParseWorkerOutput(answer)

\* What the parser lets through is in the result or among the ghosts.
ParsedKept ==
    Repaired => /\ \A n \in SetOf(Parsed.nodes) : Kept(n, nodes)
                /\ \A n \in SetOf(Parsed.eps) : Kept(n, eps)

FilesInv ==
    /\ pc \in {"backfill", "filter"} => OnDisk
    /\ pc = "backfill" => nodes = Parsed.nodes /\ eps = Parsed.eps
    /\ pc = "filter" => /\ \A n \in SetOf(Parsed.nodes) : Carried(n, nodes)
                        /\ \A n \in SetOf(Parsed.eps) : Carried(n, eps)
    /\ ParsedKept /\ FilesExist

\* The attempts for the chunk under way: those of this request, and of the one
\* before it when the chunk is asked for again.
CallInv ==
    /\ call > 0 => Waiting
    /\ again => pc \in {"scen", "ut"}
    /\ IF again THEN call <= sent /\ sent <= MaxAttempts + call ELSE sent = call

\* The entry points, and the functions, of the first k chunks have been named.
EPsAsked(k) == \A p \in DOMAIN eps : p <= k * MaxEPChunk => eps[p] \in asked
FuncsAsked(k) ==
    \A p \in DOMAIN RealFuncs : p <= k * MaxUTChunk =>
    Qualified(RealFuncs[p]) \in asked

AskedChunks == IF call > 0 THEN i + 1 ELSE i

AskInv ==
    /\ pc \notin {"scen", "ut", "sweep", "done", "failed"} => i = 0
    /\ pc \notin {"trace", "failed"} => SetOf(changed) \subseteq asked
    /\ pc = "scen" => EPsAsked(AskedChunks)
    /\ pc = "ut" => FuncsAsked(AskedChunks)
    /\ pc \in {"ut", "sweep", "done"} /\ ModeEnabled("e2e") =>
       SetOf(eps) \subseteq asked
    /\ pc \in {"sweep", "done"} /\ ModeEnabled("ut") =>
          {Qualified(f) : f \in SetOf(RealFuncs)} \subseteq asked

\* Each key seen is that of an answer, and has one analysis.
Filed ==
    /\ {BaseToQualified(n) : n \in replied} = seen
    /\ {BaseToQualified(n) : n \in ut} = seen
    /\ \A m, n \in ut : BaseToQualified(m) = BaseToQualified(n) => m = n

IInv == Typed /\ FilesInv /\ CallInv /\ AskInv /\ Filed

LEMMA Changed ==
  ASSUME Typed PROVE changed \in Seq(Function) /\ RealFuncs \in Seq(Function)
<1>1. changed \in Seq(Function)
  BY WorkerAssumption DEF Typed, TypeOK
<1>. QED
  BY <1>1, FilterElements DEF RealFuncs

LEMMA Sizes ==
  MaxEPChunk \in Nat \ {0} /\ MaxUTChunk \in Nat \ {0}
  /\ MaxAttempts \in Nat \ {0}
  BY WorkerAssumption

LEMMA InitIInv == Init => IInv
<1>. SUFFICES ASSUME Init PROVE IInv
  OBVIOUS
<1>1. NoReport \in Report /\ <<>> \in Seq(Location)
  BY DEF NoReport, Report
<1>2. Typed
  <2>1. call \in 0..MaxAttempts /\ sent \in 0..SentCap
    BY Sizes DEF Init, SentCap, RequestBound
  <2>2. answer \in Content
    BY <1>1 DEF Init, Content
  <2>3. SetOf(nodes) = {} /\ SetOf(eps) = {}
    BY DEF Init, SetOf
  <2>4. /\ changed \in Tasks /\ modes \in ModeSets /\ roots \in {"none", "repo", "both"}
           /\ pc = "trace"
        /\ truncated = FALSE /\ i = 0 /\ again = FALSE /\ scen = {} /\ ut = {}
           /\ seen = {}
        /\ replied = {} /\ ghosts = {} /\ nodes = <<>> /\ eps = <<>>
    BY DEF Init
  <2>5. TypeOK
    BY <2>1, <2>2, <2>3, <2>4 DEF TypeOK
  <2>. QED
    BY <1>1, <2>4, <2>5 DEF Typed
<1>3. FilesInv /\ CallInv /\ AskInv
  BY DEF Init, FilesInv, CallInv, AskInv, ParsedKept, FilesExist, Repaired
<1>4. Filed
  BY DEF Init, Filed
<1>. QED
  BY <1>2, <1>3, <1>4 DEF IInv

-----------------------------------------------------------------------------
(* Answers are filed.                                                      *)

\* baseToQualified gives a name of the list, or the name it is asked for.
LEMMA BaseType ==
  ASSUME Typed, NEW n \in Name
  PROVE  BaseToQualified(n) \in Name
<1>. DEFINE owners == {k \in DOMAIN RealFuncs : Bare(RealFuncs[k]) = n}
            first == CHOOSE k \in owners : \A l \in owners : k <= l
<1>1. RealFuncs \in Seq(Function)
  BY Changed
<1>2. BaseToQualified(n) = IF owners = {} THEN n ELSE Qualified(RealFuncs[first])
  BY DEF BaseToQualified
<1>3. ASSUME owners # {} PROVE first \in owners
  <2>1. owners \in SUBSET Nat
    BY <1>1
  <2>. HIDE DEF owners
  <2>2. \E k \in owners : \A l \in owners : k <= l
    BY <1>3, <2>1, Smallest
  <2>. QED
    BY <2>2
<1>4. \A k \in DOMAIN RealFuncs : Qualified(RealFuncs[k]) \in Name
  <2>1. \A k \in DOMAIN RealFuncs : RealFuncs[k] \in Function
    BY <1>1
  <2>. QED
    BY <2>1 DEF Qualified, Function, Name
<1>5. owners \subseteq DOMAIN RealFuncs
  OBVIOUS
<1>. HIDE DEF owners, first
<1>. QED
  BY <1>2, <1>3, <1>4, <1>5

LEMMA NamesType ==
  ASSUME NEW fs \in Seq(Function)
  PROVE  Names(fs) \subseteq Name
<1>1. \A f \in SetOf(fs) : f \in Function
  BY DEF SetOf
<1>2. \A f \in SetOf(fs) : Bare(f) \in Name /\ Qualified(f) \in Name
  BY <1>1 DEF Bare, Qualified, Function, Name, Text
<1>. QED
  BY <1>2, WorkerAssumption DEF Names

LEMMA MergeKeeps ==
  ASSUME Typed, Filed, NEW reply \in SUBSET Name, Merge(reply),
         UNCHANGED changed
  PROVE  Filed' /\ ut' \subseteq Name /\ seen' \subseteq Name
         /\ replied' \subseteq Name
<1>. DEFINE fresh == {BaseToQualified(n) : n \in reply} \ seen
            pick(k) == CHOOSE n \in reply : BaseToQualified(n) = k
<1>1. /\ ut' = ut \cup {pick(k) : k \in fresh} /\ seen' = seen \cup fresh
      /\ replied' = replied \cup reply
  BY DEF Merge
<1>2. \A k \in fresh : pick(k) \in reply /\ BaseToQualified(pick(k)) = k
  OBVIOUS
<1>3. \A n \in reply : BaseToQualified(n) \in Name
  BY BaseType
<1>4. ut \subseteq Name /\ seen \subseteq Name /\ replied \subseteq Name
  BY DEF Typed, TypeOK
<1>5. \A k \in fresh : k \in Name
  BY <1>3
<1>6. /\ {BaseToQualified(n) : n \in replied} = seen
         /\ {BaseToQualified(n) : n \in ut} = seen
      /\ \A m, n \in ut : BaseToQualified(m) = BaseToQualified(n) => m = n
  BY DEF Filed
<1>7. \A n \in reply : BaseToQualified(n) \in seen \cup fresh
  OBVIOUS
<1>8. \A k \in fresh : k \notin seen /\ \E n \in reply : BaseToQualified(n) = k
  OBVIOUS
<1>9. \A n \in Name : BaseToQualified(n)' = BaseToQualified(n)
  BY DEF BaseToQualified, RealFuncs
<1>. HIDE DEF fresh, pick
<1>10. {BaseToQualified(n) : n \in replied \cup reply} = seen \cup fresh
  BY <1>6, <1>7, <1>8
<1>11. {BaseToQualified(n) : n \in ut \cup {pick(k) : k \in fresh}} = seen \cup fresh
  BY <1>2, <1>6
<1>12. \A m, n \in ut \cup {pick(k) : k \in fresh} :
          BaseToQualified(m) = BaseToQualified(n) => m = n
  <2>1. \A m \in ut : BaseToQualified(m) \in seen
    BY <1>6
  <2>. QED
    BY <1>2, <1>6, <1>8
<1>13. ut' \subseteq Name /\ seen' \subseteq Name /\ replied' \subseteq Name
  BY <1>1, <1>2, <1>4, <1>5
<1>14. Filed'
  <2>1. \A n \in ut' \cup replied' : BaseToQualified(n)' = BaseToQualified(n)
    BY <1>9, <1>13
  <2>2. /\ {BaseToQualified(n) : n \in replied'} = seen'
        /\ {BaseToQualified(n) : n \in ut'} = seen'
        /\ \A m, n \in ut' : BaseToQualified(m) = BaseToQualified(n) => m = n
    BY <1>1, <1>10, <1>11, <1>12
  <2>3. {BaseToQualified(n)' : n \in replied'} = seen'
    BY <2>1, <2>2
  <2>4. {BaseToQualified(n)' : n \in ut'} = seen'
    BY <2>1, <2>2
  <2>5. \A m, n \in ut' : BaseToQualified(m)' = BaseToQualified(n)' => m = n
    BY <2>1, <2>2
  <2>. QED
    BY <2>3, <2>4, <2>5 DEF Filed
<1>. QED
  BY <1>13, <1>14

LEMMA AnswersNext ==
  ASSUME IInv, [Next]_vars
  PROVE  Filed' /\ ut' \subseteq Name /\ seen' \subseteq Name
         /\ replied' \subseteq Name
<1>. USE DEF IInv
<1>1. CASE UTReply
  <2>1. PICK reply \in SUBSET Names(Chunk(RealFuncs, MaxUTChunk, i)) : Merge(reply)
    BY <1>1 DEF UTReply
  <2>2. Chunk(RealFuncs, MaxUTChunk, i) \in Seq(Function)
    BY Changed, Sizes, ChunkElements DEF Typed, TypeOK
  <2>3. reply \in SUBSET Name
    BY <2>2, NamesType
  <2>. QED
    BY <1>1, <2>1, <2>3, MergeKeeps DEF UTReply, task
<1>2. CASE SweepReply
  <2>1. PICK reply \in SUBSET Names(Missing) : Merge(reply)
    BY <1>2 DEF SweepReply
  <2>2. Missing \in Seq(Function)
    BY Changed, FilterElements DEF Missing
  <2>3. reply \in SUBSET Name
    BY <2>2, NamesType
  <2>. QED
    BY <1>2, <2>1, <2>3, MergeKeeps DEF SweepReply, task
<1>3. CASE UNCHANGED <<changed, ut, seen, replied>>
  <2>1. \A n : BaseToQualified(n)' = BaseToQualified(n)
    BY <1>3 DEF BaseToQualified, RealFuncs
  <2>. QED
    BY <1>3, <2>1 DEF Filed, Typed, TypeOK
<1>. QED
  BY <1>1, <1>2, <1>3
     DEF Next, Step, Ended, vars, task, outcome, Trace, TraceFails, JSONFollowUp,
         Parse, BackfillEmptyFiles, FilterGhostNodes, StartFollowUps, ScenarioReply,
         ScenarioFails, UTFails, SweepFails, Send, Retry

-----------------------------------------------------------------------------
(* Attempts are counted.                                                   *)

LEMMA CallNext == ASSUME IInv, [Next]_vars PROVE CallInv'
<1>1. /\ call \in 0..MaxAttempts /\ sent \in 0..SentCap /\ again \in BOOLEAN
      /\ MaxAttempts \in Nat \ {0} /\ CallInv /\ SentCap = 2 * MaxAttempts + 1
  BY Sizes DEF IInv, Typed, TypeOK, SentCap, RequestBound
<1>2. CASE Send \/ Retry
  <2>1. /\ Waiting /\ call < MaxAttempts /\ pc' = pc /\ again' = again
           /\ call' = call + 1
        /\ sent' = IF sent < SentCap THEN sent + 1 ELSE sent
    BY <1>1, <1>2 DEF Send, Retry, Count, CallInv
  <2>2. IF again THEN call <= sent /\ sent <= MaxAttempts + call ELSE sent = call
    BY <1>1 DEF CallInv
  <2>3. sent < SentCap
    BY <1>1, <2>2
  <2>4. IF again' THEN call' <= sent'
        /\ sent' <= MaxAttempts + call' ELSE sent' = call'
    BY <1>1, <2>1, <2>2
  <2>5. Waiting' /\ (again' => pc' \in {"scen", "ut"})
    BY <1>1, <2>1 DEF CallInv, Waiting
  <2>. QED
    BY <2>4, <2>5 DEF CallInv
<1>3. CASE Trace \/ TraceFails \/ Parse \/ BackfillEmptyFiles \/ FilterGhostNodes \/ StartFollowUps
  <2>1. ~Waiting /\ call = 0 /\ again = FALSE /\ sent = 0
    BY <1>1, <1>3
       DEF Trace, TraceFails, Parse, BackfillEmptyFiles, FilterGhostNodes,
           StartFollowUps, Waiting, CallInv
  <2>2. call' = 0 /\ sent' = 0 /\ again' = FALSE
    BY <1>3, <2>1
       DEF Trace, TraceFails, Parse, BackfillEmptyFiles, FilterGhostNodes,
           StartFollowUps, ToUnitTests, llm
  <2>. QED
    BY <2>2 DEF CallInv
<1>4. CASE JSONFollowUp \/ SweepReply \/ SweepFails
  <2>1. call' = 0 /\ sent' = 0 /\ again' = again /\ pc \notin {"scen", "ut"}
    BY <1>4 DEF JSONFollowUp, SweepReply, SweepFails, Returned
  <2>. QED
    BY <1>1, <2>1 DEF CallInv
<1>5. CASE ScenarioFails \/ UTFails
  <2>1. call' = 0 /\ sent' = 0 /\ again' = FALSE
    BY <1>5
       DEF ScenarioFails, UTFails, Returned, NextScenarioChunk, ToUnitTests,
           AfterChunk
  <2>. QED
    BY <2>1 DEF CallInv
<1>6. CASE ScenarioReply \/ UTReply
  <2>1. /\ call > 0 /\ call' = 0 /\ pc \in {"scen", "ut"}
        /\ \/ sent' = 0 /\ again' = FALSE
           \/ again = FALSE /\ again' = TRUE /\ pc' = pc /\ sent' = sent
    BY <1>6
       DEF ScenarioReply, UTReply, Returned, NextScenarioChunk, ToUnitTests,
           AfterChunk
  <2>. QED
    BY <1>1, <2>1 DEF CallInv
<1>7. CASE Ended \/ UNCHANGED vars
  BY <1>1, <1>7 DEF Ended, vars, llm, CallInv, Waiting
<1>. QED
  BY <1>2, <1>3, <1>4, <1>5, <1>6, <1>7 DEF Next, Step

-----------------------------------------------------------------------------
(* The repair of file names.                                               *)

LEMMA SliceElements ==
  ASSUME NEW S, NEW s \in Seq(S), NEW m \in Nat \ {0}, NEW n \in 0..Len(s)
  PROVE  SubSeq(s, m, n) \in Seq(S)
         /\ SetOf(SubSeq(s, m, n)) = {s[p] : p \in m..n}
<1>1. \A p \in m..n : s[p] \in S
  OBVIOUS
<1>2. /\ SubSeq(s, m, n) \in Seq(S)
         /\ Len(SubSeq(s, m, n)) = IF m <= n THEN n - m + 1 ELSE 0
      /\ \A j \in 1..(n - m + 1) : SubSeq(s, m, n)[j] = s[m + j - 1]
  OBVIOUS
<1>. DEFINE c == SubSeq(s, m, n)
<1>. HIDE DEF c
<1>3. /\ c \in Seq(S) /\ DOMAIN c = 1..(n - m + 1)
      /\ \A j \in 1..(n - m + 1) : c[j] = s[m + j - 1]
  BY DEF c
<1>4. ASSUME NEW j \in DOMAIN c PROVE c[j] \in {s[p] : p \in m..n}
  <2>1. m + j - 1 \in m..n /\ c[j] = s[m + j - 1]
    BY <1>3
  <2>. QED
    BY <2>1
<1>5. ASSUME NEW p \in m..n PROVE s[p] \in SetOf(c)
  <2>1. p - m + 1 \in DOMAIN c /\ c[p - m + 1] = s[p]
    BY <1>3
  <2>. QED
    BY <2>1 DEF SetOf
<1>. QED
  BY <1>4, <1>5 DEF SetOf, c

\* The first k nodes of two lists are in time, the others are late.
SplitAt(S, s, t, k, kn) ==
    LET inTime == SubSeq(s \o t, 1, k)
        late == SubSeq(s \o t, k + 1, Len(s \o t))
        sk == SubSeq(s, 1, kn)
        tk == SubSeq(t, 1, k - kn)
    IN /\ sk \in Seq(S) /\ tk \in Seq(S)
       /\ SetOf(sk) \subseteq SetOf(s) /\ SetOf(tk) \subseteq SetOf(t)
       /\ SetOf(s) \subseteq SetOf(sk) \cup SetOf(late)
       /\ SetOf(t) \subseteq SetOf(tk) \cup SetOf(late)
       /\ SetOf(sk) \cup SetOf(tk) \subseteq SetOf(inTime)
       /\ SetOf(inTime) \cup SetOf(late) \subseteq SetOf(s) \cup SetOf(t)

LEMMA InTimeOrLate ==
  ASSUME NEW S, NEW s \in Seq(S), NEW t \in Seq(S), NEW k \in 0..Len(s \o t),
         NEW kn, kn = IF k < Len(s) THEN k ELSE Len(s)
  PROVE  SplitAt(S, s, t, k, kn)
<1>. DEFINE u == s \o t
<1>1. /\ u \in Seq(S) /\ Len(u) = Len(s) + Len(t) /\ Len(s) \in Nat
         /\ Len(t) \in Nat
      /\ \A j \in 1..(Len(s) + Len(t)) : u[j] = IF j <= Len(s) THEN s[j] ELSE t[j - Len(s)]
  OBVIOUS
<1>2. SetOf(u) = SetOf(s) \cup SetOf(t)
  BY ConcatElements
<1>. HIDE DEF u
<1>3. kn \in 0..Len(s) /\ k - kn \in 0..Len(t) /\ k \in 0..Len(u)
  BY <1>1
<1>. DEFINE z == Len(u)
<1>4. u \in Seq(S) /\ z \in Nat /\ z = Len(u) /\ k \in 0..Len(u)
       /\ Len(u) \in 0..Len(u)
  BY <1>1
<1>5. k + 1 \in Nat \ {0} /\ 1 \in Nat \ {0} /\ k <= z
  BY <1>4
<1>. HIDE DEF z
<1>6. SubSeq(s, 1, kn) \in Seq(S)
      /\ SetOf(SubSeq(s, 1, kn)) = {s[p] : p \in 1..kn}
  <2>1. 1 \in Nat \ {0} /\ kn \in 0..Len(s)
    OBVIOUS
  <2>. QED
    BY SliceElements
<1>7. SubSeq(t, 1, k - kn) \in Seq(S)
      /\ SetOf(SubSeq(t, 1, k - kn)) = {t[p] : p \in 1..(k - kn)}
  <2>. DEFINE m == k - kn
  <2>1. 1 \in Nat \ {0} /\ m \in 0..Len(t)
    OBVIOUS
  <2>. HIDE DEF m
  <2>2. SubSeq(t, 1, m) \in Seq(S) /\ SetOf(SubSeq(t, 1, m)) = {t[p] : p \in 1..m}
    BY <2>1, SliceElements
  <2>. QED
    BY <2>2 DEF m
<1>8. SetOf(SubSeq(u, 1, k)) = {u[p] : p \in 1..k}
  BY <1>4, <1>5, SliceElements
<1>9. SetOf(SubSeq(u, k + 1, Len(u))) = {u[p] : p \in (k + 1)..Len(u)}
  <2>. DEFINE m == k + 1
  <2>1. m \in Nat \ {0} /\ z \in 0..Len(u)
    BY <1>4
  <2>2. u \in Seq(S)
    BY <1>1
  <2>. HIDE DEF m
  <2>3. SetOf(SubSeq(u, m, z)) = {u[p] : p \in m..z}
    BY <2>1, <2>2, SliceElements
  <2>. QED
    BY <2>3 DEF m, z
<1>10. {s[p] : p \in 1..kn} \subseteq SetOf(s)
      /\ {t[p] : p \in 1..(k - kn)} \subseteq SetOf(t)
  BY DEF SetOf
<1>11. {u[p] : p \in 1..k} \cup {u[p] : p \in (k + 1)..Len(u)} \subseteq SetOf(u)
  <2>1. \A p \in 1..k : p \in DOMAIN u
    BY <1>4
  <2>2. \A p \in (k + 1)..Len(u) : p \in DOMAIN u
    OBVIOUS
  <2>. QED
    BY <2>1 DEF SetOf
<1>12. ASSUME NEW p \in DOMAIN s
       PROVE  s[p] \in {s[q] : q \in 1..kn} \cup {u[q] : q \in (k + 1)..Len(u)}
  <2>1. CASE p <= kn
    BY <2>1
  <2>2. CASE ~(p <= kn)
    <3>1. p \in (k + 1)..Len(u) /\ u[p] = s[p]
      BY <1>1, <2>2
    <3>. QED
      BY <3>1
  <2>. QED
    BY <2>2
<1>13. ASSUME NEW p \in DOMAIN t
       PROVE  t[p] \in {t[q] : q \in 1..(k - kn)} \cup {u[q] : q \in (k + 1)..Len(u)}
  <2>1. CASE p <= k - kn
    BY <2>1
  <2>2. CASE ~(p <= k - kn)
    <3>1. Len(s) + p \in (k + 1)..Len(u) /\ u[Len(s) + p] = t[p]
      BY <1>1, <2>2
    <3>. QED
      BY <3>1
  <2>. QED
    BY <2>2
<1>14. ASSUME NEW p \in 1..kn PROVE s[p] \in {u[q] : q \in 1..k}
  <2>1. p \in 1..k /\ u[p] = s[p]
    BY <1>1
  <2>. QED
    BY <2>1
<1>15. ASSUME NEW p \in 1..(k - kn) PROVE t[p] \in {u[q] : q \in 1..k}
  <2>1. kn = Len(s) /\ p <= k - Len(s) /\ p \in 1..Len(t)
    OBVIOUS
  <2>2. Len(s) + p \in 1..k
    OBVIOUS
  <2>3. u[Len(s) + p] = t[p]
    BY <1>1, <2>1
  <2>. QED
    BY <2>3
<1>16. SetOf(s) \subseteq {s[p] : p \in 1..kn} \cup {u[p] : p \in (k + 1)..Len(u)}
  BY <1>12 DEF SetOf
<1>17. SetOf(t) \subseteq {t[p] : p \in 1..(k - kn)} \cup {u[p] : p \in (k + 1)..Len(u)}
  BY <1>13 DEF SetOf
<1>18. {s[p] : p \in 1..kn} \cup {t[p] : p \in 1..(k - kn)} \subseteq {u[q] : q \in 1..k}
  BY <1>14, <1>15
<1>. QED
  BY <1>2, <1>6, <1>7, <1>8, <1>9, <1>10, <1>11, <1>16, <1>17, <1>18 DEF u, SplitAt

\* A search finds files the checks of the worker see.
LEMMA Searches ==
  ASSUME Typed, NEW fun \in DOMAIN Variants, NEW dirs,
         \/ dirs \in Seq({"repo"}) /\ roots = "repo"
         \/ dirs \in Seq({"repo", "workspace"}) /\ roots # "repo"
  PROVE  /\ Locate(fun, dirs) \in Exists \cup {""}
         /\ OnDisk => Locate(fun, dirs) \in Present \cup {""}
<1>1. CASE dirs \in Seq({"repo"}) /\ roots = "repo"
  <2>1. Locate(fun, dirs) \in InRepo \cup {""}
    BY <1>1, LocateExists
  <2>. QED
    BY <1>1, <2>1, WorkerAssumption DEF Present
<1>2. CASE dirs \in Seq({"repo", "workspace"}) /\ roots # "repo"
  <2>1. Locate(fun, dirs) \in Exists \cup {""}
    BY <1>2, LocateExists
  <2>. QED
    BY <1>2, <2>1 DEF Present, OnDisk, Typed, TypeOK
<1>. QED
  BY <1>1, <1>2

LEMMA DirLists ==
  /\ <<"repo">> \in Seq({"repo"}) /\ <<"repo">> \in Seq({"repo", "workspace"})
  /\ <<"workspace">> \in Seq({"repo", "workspace"})
  /\ <<"repo", "workspace">> \in Seq({"repo", "workspace"})
<1>1. <<"repo">> \in Seq({"repo"})
  OBVIOUS
<1>2. <<"repo">> \in Seq({"repo", "workspace"})
  OBVIOUS
<1>3. <<"workspace">> \in Seq({"repo", "workspace"})
  OBVIOUS
<1>4. <<"repo", "workspace">> \in Seq({"repo", "workspace"})
  OBVIOUS
<1>. QED
  BY <1>1, <1>2, <1>3, <1>4

\* backfill changes an empty file name only, and to that of a file.
LEMMA Backfills ==
  ASSUME Typed, NEW n \in Location
  PROVE  /\ Backfilled(n) \in Location
         /\ Backfilled(n).fun = n.fun /\ Backfilled(n).repo = n.repo
         /\ OnDisk => Backfilled(n) = n \/ Backfilled(n).file \in Present
<1>. DEFINE f == Locate(n.fun, BackfillDirs(n))
<1>1. n.fun \in DOMAIN Variants
  BY DEF Location
<1>2. \/ BackfillDirs(n) \in Seq({"repo"}) /\ roots = "repo"
      \/ BackfillDirs(n) \in Seq({"repo", "workspace"}) /\ roots # "repo"
  BY DirLists DEF BackfillDirs
<1>3. f \in Exists \cup {""} /\ (OnDisk => f \in Present \cup {""})
  BY <1>1, <1>2, Searches
<1>4. Backfilled(n) = IF n.file = "" /\ f # "" THEN [n EXCEPT !.file = f] ELSE n
  BY DEF Backfilled
<1>. HIDE DEF f
<1>5. Exists \subseteq Text
  BY WorkerAssumption
<1>. QED
  BY <1>3, <1>4, <1>5 DEF Location

LEMMA Rescues ==
  ASSUME Typed, NEW n \in Location
  PROVE  /\ Rescued(n) \in Location
         /\ OnDisk => Rescued(n).file \in Present \cup {""}
         /\ Rescued(n).fun = n.fun /\ Rescued(n).repo = n.repo
<1>. DEFINE f == Locate(n.fun, RescueDirs(n))
<1>1. n.fun \in DOMAIN Variants
  BY DEF Location
<1>2. \/ RescueDirs(n) \in Seq({"repo"}) /\ roots = "repo"
      \/ RescueDirs(n) \in Seq({"repo", "workspace"}) /\ roots # "repo"
  BY DirLists DEF RescueDirs
<1>3. f \in Exists \cup {""} /\ (OnDisk => f \in Present \cup {""})
  BY <1>1, <1>2, Searches
<1>4. Rescued(n) = [n EXCEPT !.file = f]
  BY DEF Rescued
<1>. HIDE DEF f
<1>5. Exists \subseteq Text /\ "" \in Text
  BY WorkerAssumption DEF Text
<1>. QED
  BY <1>3, <1>4, <1>5 DEF Location

LEMMA RescuedElements ==
  ASSUME Typed, NEW s \in Seq(Location)
  PROVE  /\ [j \in DOMAIN s |-> Rescued(s[j])] \in Seq(Location)
         /\ SetOf([j \in DOMAIN s |-> Rescued(s[j])]) = {Rescued(n) : n \in SetOf(s)}
<1>. DEFINE r == [j \in DOMAIN s |-> Rescued(s[j])]
<1>1. \A j \in DOMAIN s : Rescued(s[j]) \in Location
  <2>1. \A j \in DOMAIN s : s[j] \in Location
    OBVIOUS
  <2>. QED
    BY <2>1, Rescues
<1>2. r \in Seq(Location)
  BY <1>1
<1>. QED
  BY <1>2 DEF SetOf

\* After the backfill the nodes are there, those without a file perhaps with
\* one that exists.
LEMMA BackfillStep ==
  ASSUME Typed, OnDisk, BackfillEmptyFiles
  PROVE  /\ nodes' \in Seq(Location) /\ eps' \in Seq(Location)
         /\ \A n \in SetOf(nodes) : Carried(n, nodes')
         /\ \A n \in SetOf(eps) : Carried(n, eps')
<1>. DEFINE u == nodes \o eps
            all(k) == [j \in DOMAIN u |-> IF j <= k THEN Backfilled(u[j]) ELSE u[j]]
<1>1. PICK k \in 0..Len(u) : /\ nodes' = SubSeq(all(k), 1, Len(nodes))
                             /\ eps' = SubSeq(all(k), Len(nodes) + 1, Len(all(k)))
  BY DEF BackfillEmptyFiles
<1>2. nodes \in Seq(Location) /\ eps \in Seq(Location) /\ Len(nodes) \in Nat
      /\ Len(eps) \in Nat
  BY DEF Typed
<1>3. /\ u \in Seq(Location) /\ Len(u) = Len(nodes) + Len(eps)
      /\ \A j \in 1..(Len(nodes) + Len(eps)) :
            u[j] = IF j <= Len(nodes) THEN nodes[j] ELSE eps[j - Len(nodes)]
  BY <1>2
<1>. HIDE DEF u
<1>. DEFINE v == all(k)
<1>4. \A j \in DOMAIN u : u[j] \in Location
  BY <1>3
<1>5. \A j \in DOMAIN u : v[j] \in Location /\ v[j].fun = u[j].fun
      /\ v[j].repo = u[j].repo
                          /\ (v[j] = u[j] \/ v[j].file \in Present)
  BY <1>4, Backfills
<1>6. DOMAIN v = 1..Len(u) /\ Len(u) \in Nat
  OBVIOUS
<1>7. nodes' = SubSeq(v, 1, Len(nodes))
      /\ eps' = SubSeq(v, Len(nodes) + 1, Len(v))
  BY <1>1
<1>. HIDE DEF v
<1>8. v \in Seq(Location) /\ Len(v) = Len(u)
  <2>1. v = [j \in 1..Len(u) |-> v[j]]
    BY DEF v
  <2>2. \A j \in 1..Len(u) : v[j] \in Location
    BY <1>5
  <2>3. [j \in 1..Len(u) |-> v[j]] \in Seq(Location)
        /\ Len([j \in 1..Len(u) |-> v[j]]) = Len(u)
    BY <2>2
  <2>. QED
    BY <2>1, <2>3
<1>9. /\ Len(nodes) \in 0..Len(v) /\ Len(v) \in 0..Len(v)
       /\ Len(nodes) + 1 \in Nat \ {0} /\ 1 \in Nat \ {0}
  BY <1>3, <1>8
<1>10. nodes' \in Seq(Location) /\ SetOf(nodes') = {v[p] : p \in 1..Len(nodes)}
  BY <1>7, <1>8, <1>9, SliceElements
<1>11. eps' \in Seq(Location)
       /\ SetOf(eps') = {v[p] : p \in (Len(nodes) + 1)..Len(v)}
  <2>. DEFINE m == Len(nodes) + 1
              z == Len(v)
  <2>1. m \in Nat \ {0} /\ z \in 0..Len(v)
    OBVIOUS
  <2>. HIDE DEF m, z
  <2>2. SubSeq(v, m, z) \in Seq(Location)
        /\ SetOf(SubSeq(v, m, z)) = {v[p] : p \in m..z}
    BY <1>8, <2>1, SliceElements
  <2>. QED
    BY <1>7, <2>2 DEF m, z
<1>12. ASSUME NEW n \in SetOf(nodes) PROVE Carried(n, nodes')
  <2>1. PICK p \in DOMAIN nodes : n = nodes[p]
    BY DEF SetOf
  <2>2. p \in DOMAIN u /\ u[p] = n /\ v[p] \in SetOf(nodes')
    BY <1>3, <1>10, <2>1
  <2>. QED
    BY <1>5, <2>2 DEF Carried
<1>13. ASSUME NEW n \in SetOf(eps) PROVE Carried(n, eps')
  <2>1. PICK p \in DOMAIN eps : n = eps[p]
    BY DEF SetOf
  <2>2. Len(nodes) + p \in DOMAIN u /\ u[Len(nodes) + p] = n
        /\ Len(nodes) + p \in (Len(nodes) + 1)..Len(v)
    BY <1>3, <1>8, <2>1
  <2>3. v[Len(nodes) + p] \in SetOf(eps')
    BY <1>11, <2>2
  <2>. QED
    BY <1>5, <2>2, <2>3 DEF Carried
<1>. QED
  BY <1>10, <1>11, <1>12, <1>13

\* After the filter a node is there, with a file that exists, or is reported.
LEMMA FilterStep ==
  ASSUME Typed, OnDisk, FilterGhostNodes
  PROVE  /\ nodes' \in Seq(Location) /\ eps' \in Seq(Location)
            /\ ghosts' \subseteq Text
         /\ \A n \in SetOf(nodes) : Carried(n, nodes') \/ n.file \in ghosts'
         /\ \A n \in SetOf(eps) : Carried(n, eps') \/ n.file \in ghosts'
         /\ \A n \in SetOf(nodes') \cup SetOf(eps') :
               n.file \in Present \cup {""} \/ n.fun \in NewFunctions
         /\ ghosts' \cap Present = {}
<1>. DEFINE gn == Ghosts(nodes)
            ge == Ghosts(eps)
            inTime(k) == SubSeq(gn \o ge, 1, k)
            late(k) == SubSeq(gn \o ge, k + 1, Len(gn \o ge))
            kn(k) == IF k < Len(gn) THEN k ELSE Len(gn)
            bn(k) == Back(SubSeq(gn, 1, kn(k)))
            be(k) == Back(SubSeq(ge, 1, k - kn(k)))
            kept(s) == [j \in DOMAIN s |-> Rescued(s[j])]
<1>1. PICK k \in 0..Len(gn \o ge) :
         /\ nodes' = NoGhosts(nodes) \o kept(bn(k))
         /\ eps' = NoGhosts(eps) \o kept(be(k))
         /\ ghosts' = {n.file : n \in SetOf(late(k)) \cup {m \in SetOf(inTime(k)) : ~IsRescued(m)}}
  BY DEF FilterGhostNodes
<1>2. nodes \in Seq(Location) /\ eps \in Seq(Location)
  BY DEF Typed
<1>3. ASSUME NEW s \in Seq(Location)
      PROVE  /\ Ghosts(s) \in Seq(Location)
                /\ SetOf(Ghosts(s)) = {n \in SetOf(s) : Ghost(n)}
             /\ NoGhosts(s) \in Seq(Location)
                /\ SetOf(NoGhosts(s)) = {n \in SetOf(s) : ~Ghost(n)}
             /\ Back(s) \in Seq(Location)
                /\ SetOf(Back(s)) = {n \in SetOf(s) : IsRescued(n)}
  <2>1. \A T : Filter(s, T) \in Seq(Location)
        /\ SetOf(Filter(s, T)) = SetOf(s) \cap T
    BY FilterElements
  <2>. QED
    BY <2>1 DEF Ghosts, NoGhosts, Back
<1>4. /\ gn \in Seq(Location) /\ SetOf(gn) = {n \in SetOf(nodes) : Ghost(n)}
      /\ ge \in Seq(Location) /\ SetOf(ge) = {n \in SetOf(eps) : Ghost(n)}
  BY <1>2, <1>3
<1>. HIDE DEF gn, ge
<1>. DEFINE sn == SubSeq(gn, 1, kn(k))
            se == SubSeq(ge, 1, k - kn(k))
<1>5. /\ sn \in Seq(Location) /\ se \in Seq(Location)
      /\ SetOf(sn) \subseteq SetOf(gn) /\ SetOf(se) \subseteq SetOf(ge)
      /\ SetOf(gn) \subseteq SetOf(sn) \cup SetOf(late(k))
      /\ SetOf(ge) \subseteq SetOf(se) \cup SetOf(late(k))
      /\ SetOf(sn) \cup SetOf(se) \subseteq SetOf(inTime(k))
      /\ SetOf(inTime(k)) \cup SetOf(late(k)) \subseteq SetOf(gn) \cup SetOf(ge)
  <2>1. k \in 0..Len(gn \o ge)
    OBVIOUS
  <2>. DEFINE m == kn(k)
  <2>2. m = IF k < Len(gn) THEN k ELSE Len(gn)
    OBVIOUS
  <2>. HIDE DEF m
  <2>3. SplitAt(Location, gn, ge, k, m)
    BY <1>4, <2>2, InTimeOrLate
  <2>. QED
    BY <2>3 DEF m, SplitAt
<1>6. bn(k) = Back(sn) /\ be(k) = Back(se)
  OBVIOUS
<1>. DEFINE L == SetOf(late(k))
            T == SetOf(inTime(k))
<1>7. ghosts' = {n.file : n \in L \cup {m \in T : ~IsRescued(m)}}
  BY <1>1
<1>. HIDE DEF sn, se, bn, be, L, T, kept
<1>8. /\ Back(sn) \in Seq(Location)
         /\ SetOf(Back(sn)) = {n \in SetOf(sn) : IsRescued(n)}
      /\ Back(se) \in Seq(Location)
         /\ SetOf(Back(se)) = {n \in SetOf(se) : IsRescued(n)}
  BY <1>3, <1>5
<1>9. \A s \in Seq(Location) : /\ kept(s) \in Seq(Location)
                               /\ SetOf(kept(s)) = {Rescued(n) : n \in SetOf(s)}
  BY RescuedElements DEF kept
<1>10. /\ nodes' \in Seq(Location)
       /\ SetOf(nodes') = {n \in SetOf(nodes) : ~Ghost(n)}
                             \cup {Rescued(n) : n \in {m \in SetOf(sn) : IsRescued(m)}}
  BY <1>1, <1>2, <1>3, <1>6, <1>8, <1>9, ConcatElements
<1>11. /\ eps' \in Seq(Location)
       /\ SetOf(eps') = {n \in SetOf(eps) : ~Ghost(n)}
                             \cup {Rescued(n) : n \in {m \in SetOf(se) : IsRescued(m)}}
  BY <1>1, <1>2, <1>3, <1>6, <1>8, <1>9, ConcatElements
<1>12. \A n \in SetOf(nodes) \cup SetOf(eps) : n \in Location
  BY <1>2 DEF SetOf
<1>13. \A n \in SetOf(sn) \cup SetOf(se) : n \in Location /\ n \in T
  BY <1>4, <1>5, <1>12 DEF T
<1>14. \A n \in L \cup T : n \in Location /\ Ghost(n)
  BY <1>4, <1>5, <1>12 DEF T, L
<1>15. \A n \in L : n.file \in ghosts'
  BY <1>7
<1>16. \A n \in T : ~IsRescued(n) => n.file \in ghosts'
  BY <1>7
<1>17. ASSUME NEW n \in SetOf(nodes)
       PROVE  Carried(n, nodes') \/ n.file \in ghosts'
  <2>1. CASE ~Ghost(n)
    BY <1>10, <2>1 DEF Carried
  <2>2. CASE n \in SetOf(sn) /\ IsRescued(n)
    BY <1>10, <1>12, <2>2, Rescues DEF Carried, IsRescued
  <2>3. CASE n \in SetOf(sn) /\ ~IsRescued(n)
    BY <1>13, <1>16, <2>3
  <2>4. CASE n \in L
    BY <1>15, <2>4
  <2>. QED
    BY <1>4, <1>5, <2>1, <2>2, <2>3, <2>4 DEF L
<1>18. ASSUME NEW n \in SetOf(eps) PROVE Carried(n, eps') \/ n.file \in ghosts'
  <2>1. CASE ~Ghost(n)
    BY <1>11, <2>1 DEF Carried
  <2>2. CASE n \in SetOf(se) /\ IsRescued(n)
    BY <1>11, <1>12, <2>2, Rescues DEF Carried, IsRescued
  <2>3. CASE n \in SetOf(se) /\ ~IsRescued(n)
    BY <1>13, <1>16, <2>3
  <2>4. CASE n \in L
    BY <1>15, <2>4
  <2>. QED
    BY <1>4, <1>5, <2>1, <2>2, <2>3, <2>4 DEF L
<1>19. ASSUME NEW n \in SetOf(nodes') \cup SetOf(eps')
       PROVE  n.file \in Present \cup {""} \/ n.fun \in NewFunctions
  <2>1. CASE ~Ghost(n)
    BY <2>1 DEF Ghost
  <2>2. CASE \E m \in SetOf(sn) \cup SetOf(se) : n = Rescued(m)
    BY <1>13, <2>2, Rescues
  <2>. QED
    BY <1>10, <1>11, <2>1, <2>2
<1>20. ghosts' \subseteq Text /\ ghosts' \cap Present = {}
  BY <1>7, <1>14 DEF Ghost, Location
<1>. QED
  BY <1>10, <1>11, <1>17, <1>18, <1>19, <1>20

-----------------------------------------------------------------------------
(* The types.                                                              *)

\* What the answer is parsed to has its type, and leaves out three kinds only.
LEMMA ParsedType ==
  ASSUME NEW c \in Content
  PROVE  /\ ParseWorkerOutput(c).nodes \in Seq(Location)
         /\ ParseWorkerOutput(c).eps \in Seq(Location)
         /\ c.kind # "misfit" =>
               /\ SetOf(ParseWorkerOutput(c).nodes) = {n \in SetOf(Named(c).nodes) : IsReal(n)}
               /\ SetOf(ParseWorkerOutput(c).eps) = {n \in SetOf(Named(c).eps) : n.repo # ""}
<1>. DEFINE n == [fun |-> "summary", file |-> "", repo |-> "own"]
            N == Named(c).nodes
            E == Named(c).eps
            kn == Filter(N, {x \in SetOf(N) : IsReal(x)})
            ke == Filter(E, {x \in SetOf(E) : x.repo # ""})
<1>1. n \in Location /\ <<>> \in Seq(Location)
  <2>1. "summary" \in DOMAIN Variants
    BY WorkerAssumption
  <2>2. "" \in Text /\ "own" \in Text
    BY DEF Text
  <2>3. n \in Location
    BY <2>1, <2>2 DEF Location
  <2>4. <<>> \in Seq(Location)
    OBVIOUS
  <2>. QED
    BY <2>3, <2>4
<1>2. <<n>> \in Seq(Location)
  <2>. HIDE DEF n
  <2>. QED
    BY <1>1
<1>3. N \in Seq(Location) /\ E \in Seq(Location)
  <2>1. Named(c) = c.report \/ Named(c) = [nodes |-> <<n>>, eps |-> <<>>]
    BY DEF Named
  <2>2. c.report.nodes \in Seq(Location) /\ c.report.eps \in Seq(Location)
    BY DEF Content, Report
  <2>. HIDE DEF n
  <2>3. CASE Named(c) = c.report
    BY <2>2, <2>3
  <2>4. CASE Named(c) = [nodes |-> <<n>>, eps |-> <<>>]
    <3>1. N = <<n>> /\ E = <<>>
      BY <2>4
    <3>. QED
      BY <1>1, <1>2, <3>1
  <2>. QED
    BY <2>1, <2>3, <2>4
<1>. HIDE DEF N, E
<1>4. /\ kn \in Seq(Location) /\ SetOf(kn) = {x \in SetOf(N) : IsReal(x)}
      /\ ke \in Seq(Location) /\ SetOf(ke) = {x \in SetOf(E) : x.repo # ""}
  <2>1. \A T : /\ Filter(N, T) \in Seq(Location) /\ SetOf(Filter(N, T)) = SetOf(N) \cap T
               /\ Filter(E, T) \in Seq(Location) /\ SetOf(Filter(E, T)) = SetOf(E) \cap T
    BY <1>3, FilterElements
  <2>. QED
    BY <2>1
<1>5. ParseWorkerOutput(c) = IF c.kind = "misfit" THEN [nodes |-> <<>>, eps |-> <<>>]
                             ELSE [nodes |-> kn, eps |-> ke]
  BY DEF ParseWorkerOutput, NoReport, N, E
<1>. HIDE DEF kn, ke
<1>6. CASE c.kind = "misfit"
  <2>1. ParseWorkerOutput(c).nodes = <<>> /\ ParseWorkerOutput(c).eps = <<>>
    BY <1>5, <1>6
  <2>. HIDE DEF n
  <2>. QED
    BY <1>1, <1>6, <2>1
<1>7. CASE c.kind # "misfit"
  <2>1. ParseWorkerOutput(c).nodes = kn /\ ParseWorkerOutput(c).eps = ke
    BY <1>5, <1>7
  <2>. QED
    BY <1>4, <1>7, <2>1 DEF N, E
<1>. QED
  BY <1>6, <1>7

LEMMA SeqElements ==
  ASSUME NEW S, NEW s \in Seq(S)
  PROVE  SetOf(s) \subseteq S
BY DEF SetOf

LEMMA TypesNext == ASSUME IInv, [Next]_vars PROVE Typed'
<1>1. Typed /\ TypeOK
  BY DEF IInv, Typed
<1>2. changed' = changed /\ modes' = modes /\ roots' = roots
  BY DEF Next, Step, Ended, vars, task, Trace, TraceFails, JSONFollowUp, Parse,
         BackfillEmptyFiles, FilterGhostNodes, StartFollowUps, ScenarioReply,
         ScenarioFails, UTReply, UTFails, SweepReply, SweepFails, Send, Retry
<1>3. pc' = pc \/ pc' \in {"json", "parse", "backfill", "filter", "reported",
                           "scen", "ut", "sweep", "done", "failed"}
  BY DEF Next, Step, Ended, vars, Trace, TraceFails, JSONFollowUp, Parse,
         BackfillEmptyFiles, FilterGhostNodes, StartFollowUps, ScenarioReply,
         ScenarioFails, UTReply, UTFails, SweepReply, SweepFails, Send, Retry,
         ToUnitTests, NextScenarioChunk, AfterChunk
<1>4. call' \in 0..MaxAttempts /\ sent' \in 0..SentCap
  <2>1. /\ call \in 0..MaxAttempts /\ sent \in 0..SentCap
        /\ MaxAttempts \in Nat \ {0} /\ SentCap \in Nat
    BY <1>1, Sizes DEF TypeOK, SentCap, RequestBound
  <2>2. \/ call' = call /\ sent' = sent
        \/ call' = 0 /\ sent' \in {0, sent}
        \/ /\ call < MaxAttempts /\ call' = call + 1
           /\ (sent' = IF sent < SentCap THEN sent + 1 ELSE sent)
    BY <2>1
       DEF Next, Step, Ended, vars, llm, Trace, TraceFails, JSONFollowUp, Parse,
           BackfillEmptyFiles, FilterGhostNodes, StartFollowUps, ScenarioReply,
           ScenarioFails, UTReply, UTFails, SweepReply, SweepFails, Send, Retry,
           Returned, Count
  <2>. QED
    BY <2>1, <2>2
<1>5. answer' \in Content /\ truncated' \in BOOLEAN
  <2>1. answer \in Content /\ truncated \in BOOLEAN /\ Contents \subseteq Content
    BY <1>1, WorkerAssumption DEF TypeOK
  <2>2. /\ answer' = answer \/ answer' \in Contents
        /\ truncated' = truncated \/ truncated' \in BOOLEAN
    BY DEF Next, Step, Ended, vars, Trace, TraceFails, JSONFollowUp, Parse,
           BackfillEmptyFiles, FilterGhostNodes, StartFollowUps, ScenarioReply,
           ScenarioFails, UTReply, UTFails, SweepReply, SweepFails, Send, Retry
  <2>3. answer' \in Content
    BY <2>1, <2>2
  <2>4. truncated' \in BOOLEAN
    BY <2>1, <2>2
  <2>. QED
    BY <2>3, <2>4
<1>6. nodes' \in Seq(Location) /\ eps' \in Seq(Location)
      /\ ghosts' \subseteq Text
  <2>1. CASE Parse
    <3>1. answer \in Content /\ ghosts \subseteq Text
      BY <1>1 DEF TypeOK
    <3>. QED
      BY <2>1, <3>1, ParsedType DEF Parse
  <2>2. CASE BackfillEmptyFiles
    <3>1. OnDisk /\ ghosts \subseteq Text
      BY <1>1, <2>2 DEF IInv, FilesInv, BackfillEmptyFiles, TypeOK
    <3>. QED
      BY <1>1, <2>2, <3>1, BackfillStep DEF BackfillEmptyFiles
  <2>3. CASE FilterGhostNodes
    <3>1. OnDisk
      BY <2>3 DEF IInv, FilesInv, FilterGhostNodes
    <3>. QED
      BY <1>1, <2>3, <3>1, FilterStep
  <2>4. CASE UNCHANGED report
    BY <1>1, <2>4 DEF report, Typed, TypeOK
  <2>. QED
    BY <2>1, <2>2, <2>3, <2>4
       DEF Next, Step, Ended, vars, Trace, TraceFails, JSONFollowUp, StartFollowUps,
           ScenarioReply, ScenarioFails, UTReply, UTFails, SweepReply, SweepFails,
           Send, Retry
<1>7. i' \in Nat /\ again' \in BOOLEAN
  <2>1. i \in Nat /\ again \in BOOLEAN
    BY <1>1 DEF TypeOK
  <2>2. i' \in {i, i + 1, 0} /\ again' \in {again, TRUE, FALSE}
    BY DEF Next, Step, Ended, vars, Trace, TraceFails, JSONFollowUp, Parse,
           BackfillEmptyFiles, FilterGhostNodes, StartFollowUps, ScenarioReply,
           ScenarioFails, UTReply, UTFails, SweepReply, SweepFails, Send, Retry,
           ToUnitTests, NextScenarioChunk, AfterChunk
  <2>3. i' \in Nat
    BY <2>1, <2>2
  <2>4. again' \in BOOLEAN
    BY <2>1, <2>2
  <2>. QED
    BY <2>3, <2>4
<1>8. scen' \subseteq Key
  <2>1. CASE ScenarioReply
    <3>1. eps \in Seq(Location) /\ i \in Nat /\ scen \subseteq Key
      BY <1>1 DEF Typed, TypeOK
    <3>2. SetOf(Chunk(eps, MaxEPChunk, i)) \subseteq SetOf(eps)
      BY <3>1, Sizes, ChunkElements
    <3>3. \A n \in SetOf(eps) : n \in Location
      BY <3>1, SeqElements
    <3>4. \A n \in SetOf(eps) : EntryKey(n) \in Key
      BY <3>3 DEF EntryKey, Key, Location
    <3>5. \A reply \in ScenarioReplies : reply \subseteq Key
      BY <3>2, <3>4 DEF ScenarioReplies
    <3>. QED
      BY <2>1, <3>1, <3>5 DEF ScenarioReply
  <2>2. CASE scen' = scen
    BY <1>1, <2>2 DEF TypeOK
  <2>. QED
    BY <2>1, <2>2
       DEF Next, Step, Ended, vars, outcome, Trace, TraceFails, JSONFollowUp, Parse,
           BackfillEmptyFiles, FilterGhostNodes, StartFollowUps, ScenarioFails,
           UTReply, UTFails, SweepReply, SweepFails, Send, Retry
<1>9. ut' \subseteq Name /\ seen' \subseteq Name /\ replied' \subseteq Name
  BY AnswersNext
<1>10. SetOf(nodes') \cup SetOf(eps') \subseteq Location
  BY <1>6, SeqElements
<1>11. TypeOK'
  <2>1. changed' \in Tasks /\ modes' \in ModeSets /\ roots' \in {"none", "repo", "both"}
    BY <1>1, <1>2 DEF TypeOK
  <2>2. (pc \in {"trace", "json", "parse", "backfill", "filter", "reported",
                 "scen", "ut", "sweep", "done", "failed"})'
    BY <1>1, <1>3 DEF TypeOK
  <2>3. (SetOf(nodes) \cup SetOf(eps))' \subseteq Location
    BY <1>10
  <2>. QED
    BY <1>4, <1>5, <1>6, <1>7, <1>8, <1>9, <2>1, <2>2, <2>3 DEF TypeOK
<1>. QED
  BY <1>6, <1>9, <1>11 DEF Typed

-----------------------------------------------------------------------------
(* Files.                                                                  *)

LEMMA FilesNext == ASSUME IInv, [Next]_vars PROVE FilesInv'
<1>1. Typed /\ FilesInv /\ roots' = roots
  BY DEF IInv, Next, Step, Ended, vars, task, Trace, TraceFails, JSONFollowUp,
         Parse, BackfillEmptyFiles, FilterGhostNodes, StartFollowUps, ScenarioReply,
         ScenarioFails, UTReply, UTFails, SweepReply, SweepFails, Send, Retry
<1>2. Present' = Present /\ (OnDisk' <=> OnDisk)
  BY <1>1 DEF Present, OnDisk
<1>. DEFINE N == SetOf(Parsed.nodes)
            E == SetOf(Parsed.eps)
<1>3. CASE Parse
  <2>1. /\ nodes' = Parsed'.nodes /\ eps' = Parsed'.eps
        /\ pc' = IF OnDisk THEN "backfill" ELSE "reported"
    BY <1>3 DEF Parse, Parsed
  <2>2. ParsedKept'
    BY <2>1 DEF ParsedKept, Kept
  <2>3. FilesExist'
    BY <1>2, <2>1 DEF FilesExist, Repaired
  <2>. QED
    BY <1>2, <2>1, <2>2, <2>3 DEF FilesInv
<1>4. CASE BackfillEmptyFiles
  <2>1. pc = "backfill" /\ pc' = "filter" /\ Parsed' = Parsed
    BY <1>4 DEF BackfillEmptyFiles, Parsed
  <2>2. nodes = Parsed.nodes /\ eps = Parsed.eps /\ OnDisk
    BY <1>1, <2>1 DEF FilesInv
  <2>3. /\ \A n \in N : Carried(n, nodes')
        /\ \A n \in E : Carried(n, eps')
    BY <1>1, <1>4, <2>2, BackfillStep
  <2>4. (\A n \in N : Carried(n, nodes))' /\ (\A n \in E : Carried(n, eps))'
    BY <1>2, <2>1, <2>3 DEF Carried
  <2>. QED
    BY <1>2, <2>1, <2>2, <2>4 DEF FilesInv, ParsedKept, FilesExist, Repaired
<1>5. CASE FilterGhostNodes
  <2>1. pc = "filter" /\ pc' = "reported" /\ Parsed' = Parsed
    BY <1>5 DEF FilterGhostNodes, Parsed
  <2>2. /\ OnDisk
        /\ \A n \in N : Carried(n, nodes)
        /\ \A n \in E : Carried(n, eps)
    BY <1>1, <2>1 DEF FilesInv
  <2>3. /\ \A n \in SetOf(nodes) : Carried(n, nodes') \/ n.file \in ghosts'
        /\ \A n \in SetOf(eps) : Carried(n, eps') \/ n.file \in ghosts'
        /\ \A n \in SetOf(nodes') \cup SetOf(eps') :
              n.file \in Present \cup {""} \/ n.fun \in NewFunctions
        /\ ghosts' \cap Present = {}
    BY <1>1, <1>5, <2>2, FilterStep
  \* A file that exists is none of the ghosts.
  <2>4. ASSUME NEW n, NEW s, NEW t, Carried(n, s),
               \A m \in SetOf(s) : Carried(m, t) \/ m.file \in ghosts'
        PROVE  Carried(n, t) \/ n.file \in ghosts'
    <3>1. CASE n \in SetOf(s)
      BY <2>4, <3>1
    <3>2. CASE \E m \in SetOf(s) : m.fun = n.fun /\ m.repo = n.repo /\ m.file \in Present
      <4>1. PICK m \in SetOf(s) : m.fun = n.fun /\ m.repo = n.repo /\ m.file \in Present
        BY <3>2
      <4>2. Carried(m, t)
        BY <2>3, <2>4, <4>1
      <4>. QED
        BY <4>1, <4>2 DEF Carried
    <3>. QED
      BY <2>4, <3>1, <3>2 DEF Carried
  <2>5. /\ \A n \in N : Carried(n, nodes') \/ n.file \in ghosts'
        /\ \A n \in E : Carried(n, eps') \/ n.file \in ghosts'
    BY <2>2, <2>3, <2>4
  <2>6. ParsedKept'
    BY <1>2, <2>1, <2>5 DEF ParsedKept, Kept, Carried
  <2>7. FilesExist'
    BY <1>2, <2>3 DEF FilesExist
  <2>. QED
    BY <2>1, <2>6, <2>7 DEF FilesInv
<1>6. CASE /\ UNCHANGED report /\ (pc' \in {"backfill", "filter"} => pc' = pc)
           /\ (Repaired' => Repaired)
           /\ answer' = answer \/ pc' \in {"json", "parse"}
  <2>1. nodes' = nodes /\ eps' = eps /\ ghosts' = ghosts
    BY <1>6 DEF report
  <2>2. Parsed' = Parsed \/ pc' \in {"json", "parse"}
    BY <1>6 DEF Parsed
  <2>3. ParsedKept'
    BY <1>1, <1>2, <1>6, <2>1, <2>2 DEF FilesInv, ParsedKept, Kept, Repaired
  <2>4. FilesExist'
    BY <1>1, <1>2, <1>6, <2>1 DEF FilesInv, FilesExist
  <2>5. pc' \in {"backfill", "filter"} => OnDisk'
    BY <1>1, <1>2, <1>6 DEF FilesInv
  <2>6. pc' = "backfill" => nodes' = Parsed'.nodes /\ eps' = Parsed'.eps
    BY <1>1, <1>6, <2>1, <2>2 DEF FilesInv
  <2>7. pc' = "filter" => /\ (\A n \in N : Carried(n, nodes))'
                          /\ (\A n \in E : Carried(n, eps))'
    BY <1>1, <1>2, <1>6, <2>1, <2>2 DEF FilesInv, Carried
  <2>. QED
    BY <2>3, <2>4, <2>5, <2>6, <2>7 DEF FilesInv
<1>. QED
  <2>1. CASE Trace \/ TraceFails \/ JSONFollowUp \/ StartFollowUps
    BY <1>6, <2>1
       DEF Trace, TraceFails, JSONFollowUp, StartFollowUps, ToUnitTests, Repaired
  <2>2. CASE ScenarioReply \/ ScenarioFails
    BY <1>6, <2>2
       DEF ScenarioReply, ScenarioFails, NextScenarioChunk, ToUnitTests, Repaired
  <2>3. CASE UTReply \/ UTFails \/ SweepReply \/ SweepFails
    BY <1>6, <2>3 DEF UTReply, UTFails, SweepReply, SweepFails, AfterChunk, Repaired
  <2>4. CASE Send \/ Retry \/ Ended \/ UNCHANGED vars
    BY <1>6, <2>4 DEF Send, Retry, Ended, vars, Repaired
  <2>. QED
    BY <1>3, <1>4, <1>5, <2>1, <2>2, <2>3, <2>4 DEF Next, Step

-----------------------------------------------------------------------------
(* Requests name everything.                                               *)

\* The trace's three groups are all the changed functions.
LEMMA TraceNamesAll ==
  ASSUME NEW fs \in Seq(Function)
  PROVE  SetOf(TracePrompt(fs)) = SetOf(fs)
<1>. DEFINE K(kind) == OfKind(kind, fs)
<1>1. \A kind : K(kind) \in Seq(Function)
      /\ SetOf(K(kind)) = {f \in SetOf(fs) : f.kind = kind}
  <2>1. \A T : Filter(fs, T) \in Seq(Function)
        /\ SetOf(Filter(fs, T)) = SetOf(fs) \cap T
    BY FilterElements
  <2>. QED
    BY <2>1 DEF OfKind
<1>. HIDE DEF K
<1>2. /\ K("named") \o K("file") \in Seq(Function)
      /\ SetOf(K("named") \o K("file")) = SetOf(K("named")) \cup SetOf(K("file"))
  BY <1>1, ConcatElements
<1>. DEFINE two == K("named") \o K("file")
<1>. HIDE DEF two
<1>3. SetOf(two \o K("var")) = SetOf(two) \cup SetOf(K("var"))
  <2>1. two \in Seq(Function) /\ K("var") \in Seq(Function)
    BY <1>1 DEF two
  <2>. QED
    BY <2>1, ConcatElements
<1>4. TracePrompt(fs) = two \o K("var")
  BY DEF TracePrompt, two, K
<1>5. \A f \in SetOf(fs) : f.kind \in {"named", "file", "var"}
  BY SeqElements DEF Function
<1>. QED
  BY <1>1, <1>2, <1>3, <1>4, <1>5 DEF two

\* Entry points or functions of one more chunk.
LEMMA OneMoreChunk ==
  ASSUME NEW S, NEW s \in Seq(S), NEW size \in Nat \ {0}, NEW k \in Nat,
         NEW p \in DOMAIN s,
         p <= (k + 1) * size, s[p] \notin SetOf(Chunk(s, size, k))
  PROVE  p <= k * size
<1>1. ~(k * size < p)
  BY ChunkElements
<1>2. k * size \in Nat /\ p \in Nat
  OBVIOUS
<1>. QED
  BY <1>1

LEMMA FewerChunks ==
  ASSUME NEW size \in Nat \ {0}, NEW k \in Nat, NEW p \in Nat, p <= k * size
  PROVE  p <= (k + 1) * size
<1>1. k * size \in Nat /\ k * size <= (k + 1) * size /\ (k + 1) * size \in Nat
  OBVIOUS
<1>. QED
  OBVIOUS

LEMMA AskNext == ASSUME IInv, [Next]_vars PROVE AskInv'
<1>1. /\ eps \in Seq(Location) /\ i \in Nat /\ RealFuncs \in Seq(Function)
         /\ changed \in Seq(Function)
      /\ MaxEPChunk \in Nat \ {0} /\ MaxUTChunk \in Nat \ {0} /\ call \in Nat
      /\ AskInv /\ CallInv
  BY Sizes, Changed DEF IInv, Typed, TypeOK
<1>2. changed' = changed /\ modes' = modes
  BY DEF Next, Step, Ended, vars, task, Trace, TraceFails, JSONFollowUp, Parse,
         BackfillEmptyFiles, FilterGhostNodes, StartFollowUps, ScenarioReply,
         ScenarioFails, UTReply, UTFails, SweepReply, SweepFails, Send, Retry
<1>3. /\ RealFuncs' = RealFuncs
      /\ \A m : ModeEnabled(m)' = ModeEnabled(m)
      /\ SetOf(changed)' = SetOf(changed) /\ SetOf(RealFuncs)' = SetOf(RealFuncs)
  BY <1>2 DEF RealFuncs, ModeEnabled
<1>4. CASE Trace
  <2>1. asked' = SetOf(changed)
    BY <1>1, <1>4, TraceNamesAll DEF Trace
  <2>2. pc' \in {"json", "parse"} /\ pc = "trace" /\ i' = i
    BY <1>4 DEF Trace
  <2>. QED
    BY <1>1, <1>3, <2>1, <2>2 DEF AskInv
<1>5. CASE TraceFails
  BY <1>5 DEF TraceFails, AskInv
<1>6. CASE JSONFollowUp \/ Parse \/ BackfillEmptyFiles \/ FilterGhostNodes
  <2>1. /\ pc \in {"json", "parse", "backfill", "filter"} /\ asked' = asked
           /\ i' = i
        /\ pc' \in {"parse", "backfill", "filter", "reported"}
    BY <1>6 DEF JSONFollowUp, Parse, BackfillEmptyFiles, FilterGhostNodes
  <2>. QED
    BY <1>1, <1>3, <2>1 DEF AskInv
\* The unit tests begin, once every entry point has been named.
<1>7. ASSUME ToUnitTests, asked' = asked, eps' = eps, call' = 0,
             SetOf(changed) \subseteq asked, ModeEnabled("e2e") =>
             SetOf(eps) \subseteq asked
      PROVE  AskInv'
  <2>1. FuncsAsked(AskedChunks)'
    <3>1. i' = 0 /\ AskedChunks' = 0
      BY <1>7 DEF ToUnitTests, AskedChunks
    <3>2. \A p \in DOMAIN RealFuncs : ~(p <= 0)
      BY <1>1
    <3>3. 0 * MaxUTChunk = 0
      BY <1>1
    <3>. QED
      BY <1>3, <3>1, <3>2, <3>3 DEF FuncsAsked
  <2>2. \/ pc' = "ut"
        \/ pc' = "done" /\ (RealFuncs = <<>> \/ ~ModeEnabled("ut"))
    BY <1>7 DEF ToUnitTests
  <2>3. SetOf(eps)' = SetOf(eps) /\ (RealFuncs = <<>> => SetOf(RealFuncs) = {})
    BY <1>7 DEF SetOf
  <2>. QED
    BY <1>3, <1>7, <2>1, <2>2, <2>3 DEF AskInv
<1>8. CASE StartFollowUps
  <2>1. /\ pc = "reported" /\ asked' = asked /\ eps' = eps /\ call' = call
        /\ \/ pc' = "scen" /\ i' = i
           \/ ToUnitTests /\ (eps = <<>> \/ ~ModeEnabled("e2e"))
    BY <1>8 DEF StartFollowUps, llm, report
  <2>2. call = 0 /\ i = 0 /\ SetOf(changed) \subseteq asked
    BY <1>1, <2>1 DEF CallInv, AskInv, Waiting
  <2>3. CASE pc' = "scen" /\ i' = i
    <3>1. AskedChunks' = 0 /\ 0 * MaxEPChunk = 0
      BY <1>1, <2>1, <2>2, <2>3 DEF AskedChunks
    <3>2. \A p \in DOMAIN eps : ~(p <= 0)
      BY <1>1
    <3>3. EPsAsked(AskedChunks)'
      BY <2>1, <3>1 DEF EPsAsked
    <3>. QED
      BY <1>3, <2>1, <2>2, <2>3, <3>3 DEF AskInv
  <2>4. CASE ToUnitTests /\ (eps = <<>> \/ ~ModeEnabled("e2e"))
    <3>1. ModeEnabled("e2e") => SetOf(eps) \subseteq asked
      BY <2>4 DEF SetOf
    <3>. QED
      BY <1>7, <2>1, <2>2, <2>4, <3>1
  <2>. QED
    BY <2>1, <2>3, <2>4
<1>9. CASE ScenarioReply \/ ScenarioFails
  <2>1. /\ pc = "scen" /\ call > 0 /\ call' = 0 /\ asked' = asked /\ eps' = eps
        /\ \/ pc' = pc /\ i' = i
           \/ NextScenarioChunk
    BY <1>9 DEF ScenarioReply, ScenarioFails, Returned, report
  <2>2. SetOf(changed) \subseteq asked
        /\ \A p \in DOMAIN eps : p <= (i + 1) * MaxEPChunk => eps[p] \in asked
    BY <1>1, <2>1 DEF AskInv, AskedChunks, EPsAsked
  <2>3. CASE pc' = pc /\ i' = i
    <3>1. \A p \in DOMAIN eps : p <= i * MaxEPChunk => p <= (i + 1) * MaxEPChunk
      BY <1>1
    <3>2. AskedChunks' = i
      BY <2>1, <2>3 DEF AskedChunks
    <3>3. EPsAsked(AskedChunks)'
      BY <2>1, <2>2, <3>1, <3>2 DEF EPsAsked
    <3>. QED
      BY <1>3, <2>1, <2>2, <2>3, <3>3 DEF AskInv
  <2>4. CASE pc' = pc /\ i' = i + 1
    <3>1. AskedChunks' = i + 1
      BY <2>1, <2>4 DEF AskedChunks
    <3>2. EPsAsked(AskedChunks)'
      BY <2>1, <2>2, <3>1 DEF EPsAsked
    <3>. QED
      BY <1>3, <2>1, <2>2, <2>4, <3>2 DEF AskInv
  <2>5. CASE ToUnitTests /\ ~(i + 1 < Chunks(eps, MaxEPChunk))
    <3>1. Len(eps) <= (i + 1) * MaxEPChunk
      BY <1>1, <2>5, LastChunk
    <3>2. (i + 1) * MaxEPChunk \in Nat
      BY <1>1
    <3>3. \A p \in DOMAIN eps : p <= (i + 1) * MaxEPChunk
      BY <3>1, <3>2
    <3>4. SetOf(eps) \subseteq asked
      BY <2>2, <3>3 DEF SetOf
    <3>. QED
      BY <1>7, <2>1, <2>2, <2>5, <3>4
  <2>. QED
    BY <2>1, <2>3, <2>4, <2>5 DEF NextScenarioChunk
<1>10. CASE UTReply \/ UTFails
  <2>1. /\ pc = "ut" /\ call > 0 /\ call' = 0 /\ asked' = asked /\ eps' = eps
        /\ \/ pc' = pc /\ i' = i
           \/ \E missing : AfterChunk(missing)
    BY <1>10 DEF UTReply, UTFails, Returned, report
  <2>2. /\ SetOf(changed) \subseteq asked
        /\ ModeEnabled("e2e") => SetOf(eps) \subseteq asked
        /\ \A p \in DOMAIN RealFuncs : p <= (i + 1) * MaxUTChunk =>
           Qualified(RealFuncs[p]) \in asked
    BY <1>1, <2>1 DEF AskInv, AskedChunks, FuncsAsked
  <2>3. SetOf(eps)' = SetOf(eps)
    BY <2>1
  <2>4. CASE pc' = pc /\ i' = i
    <3>1. \A p \in DOMAIN RealFuncs : p <= i * MaxUTChunk =>
          p <= (i + 1) * MaxUTChunk
      BY <1>1
    <3>2. AskedChunks' = i
      BY <2>1, <2>4 DEF AskedChunks
    <3>3. FuncsAsked(AskedChunks)'
      BY <1>3, <2>1, <2>2, <3>1, <3>2 DEF FuncsAsked
    <3>. QED
      BY <1>3, <2>1, <2>2, <2>4, <3>3 DEF AskInv
  <2>5. CASE pc' = pc /\ i' = i + 1
    <3>1. AskedChunks' = i + 1
      BY <2>1, <2>5 DEF AskedChunks
    <3>2. FuncsAsked(AskedChunks)'
      BY <1>3, <2>1, <2>2, <3>1 DEF FuncsAsked
    <3>. QED
      BY <1>3, <2>1, <2>2, <2>5, <3>2 DEF AskInv
  <2>6. CASE pc' \in {"sweep", "done"} /\ ~(i + 1 < Chunks(RealFuncs, MaxUTChunk))
    <3>1. Len(RealFuncs) <= (i + 1) * MaxUTChunk
      BY <1>1, <2>6, LastChunk
    <3>2. (i + 1) * MaxUTChunk \in Nat
      BY <1>1
    <3>3. \A p \in DOMAIN RealFuncs : p <= (i + 1) * MaxUTChunk
      BY <3>1, <3>2
    <3>4. {Qualified(f) : f \in SetOf(RealFuncs)} \subseteq asked
      BY <2>2, <3>3 DEF SetOf
    <3>. QED
      BY <1>3, <2>1, <2>2, <2>6, <3>4 DEF AskInv
  <2>. QED
    BY <2>1, <2>4, <2>5, <2>6 DEF AfterChunk
<1>11. CASE SweepReply \/ SweepFails
  <2>1. pc = "sweep" /\ pc' = "done" /\ asked' = asked /\ eps' = eps
    BY <1>11 DEF SweepReply, SweepFails, report
  <2>2. SetOf(eps)' = SetOf(eps)
    BY <2>1
  <2>. QED
    BY <1>1, <1>3, <2>1 DEF AskInv
<1>12. CASE Send
  <2>1. /\ pc' = pc /\ i' = i /\ eps' = eps /\ call = 0 /\ call' = 1 /\ Waiting
        /\ asked \subseteq asked'
        /\ pc = "scen" => ScenarioFollowUp \subseteq asked'
        /\ pc = "ut" => UTFollowUp \subseteq asked'
    BY <1>12 DEF Send, report
  <2>2. AskedChunks = i /\ AskedChunks' = i + 1
    BY <2>1 DEF AskedChunks
  <2>3. ASSUME pc = "scen", NEW p \in DOMAIN eps, p <= (i + 1) * MaxEPChunk
        PROVE  eps[p] \in asked'
    <3>1. eps[p] \in SetOf(Chunk(eps, MaxEPChunk, i)) \/ p <= i * MaxEPChunk
      BY <1>1, <2>3, OneMoreChunk
    <3>. QED
      BY <1>1, <2>1, <2>2, <2>3, <3>1 DEF AskInv, EPsAsked, ScenarioFollowUp
  <2>4. ASSUME pc = "ut", NEW p \in DOMAIN RealFuncs, p <= (i + 1) * MaxUTChunk
        PROVE  Qualified(RealFuncs[p]) \in asked'
    <3>1. RealFuncs[p] \in SetOf(Chunk(RealFuncs, MaxUTChunk, i)) \/ p <= i * MaxUTChunk
      BY <1>1, <2>4, OneMoreChunk
    <3>. QED
      BY <1>1, <2>1, <2>2, <2>4, <3>1 DEF AskInv, FuncsAsked, UTFollowUp
  <2>5. pc = "scen" => EPsAsked(AskedChunks)'
    BY <2>1, <2>2, <2>3 DEF EPsAsked
  <2>6. pc = "ut" => FuncsAsked(AskedChunks)'
    BY <1>3, <2>2, <2>4 DEF FuncsAsked
  <2>7. SetOf(eps)' = SetOf(eps)
    BY <2>1
  <2>. QED
    BY <1>1, <1>3, <2>1, <2>5, <2>6 DEF AskInv
<1>13. CASE Retry \/ Ended \/ UNCHANGED vars
  <2>1. /\ pc' = pc /\ i' = i /\ eps' = eps /\ asked' = asked
        /\ call' = call \/ (call > 0 /\ call' > 0)
    BY <1>13 DEF Retry, Ended, vars, report, llm
  <2>2. AskedChunks' = AskedChunks
    BY <2>1 DEF AskedChunks
  <2>3. /\ EPsAsked(AskedChunks)' <=> EPsAsked(AskedChunks)
        /\ FuncsAsked(AskedChunks)' <=> FuncsAsked(AskedChunks)
    BY <1>3, <2>1, <2>2 DEF EPsAsked, FuncsAsked
  <2>4. SetOf(eps)' = SetOf(eps)
    BY <2>1
  <2>. QED
    BY <1>1, <1>3, <2>1, <2>3 DEF AskInv
<1>. QED
  BY <1>4, <1>5, <1>6, <1>8, <1>9, <1>10, <1>11, <1>12, <1>13 DEF Next, Step

-----------------------------------------------------------------------------
\* The five parts hold together, whatever the model answers.
THEOREM Inductive == Spec => []IInv
<1>1. IInv /\ [Next]_vars => IInv'
  BY TypesNext, FilesNext, CallNext, AskNext, AnswersNext DEF IInv
<1>. QED
  BY <1>1, InitIInv, PTL DEF Spec

\* Every variable has its type.
THEOREM TypeCorrect == Spec => []TypeOK
<1>1. IInv => TypeOK
  BY DEF IInv, Typed
<1>. QED
  BY <1>1, Inductive, PTL

\* Of what the answer named only the three kinds the parser drops disappear: any
\* other node or entry point is in the result or its file among the ghosts,
\* wherever the search's deadline falls.
THEOREM NothingLost == Spec => []NothingElseLost
<1>1. IInv => NothingElseLost
  <2>. SUFFICES ASSUME IInv, Repaired, answer.kind # "misfit"
                PROVE  /\ \A n \in SetOf(Named(answer).nodes) : IsReal(n) => Kept(n, nodes)
                       /\ \A n \in SetOf(Named(answer).eps) : n.repo # "" => Kept(n, eps)
    BY DEF NothingElseLost
  <2>1. answer \in Content
    BY DEF IInv, Typed, TypeOK
  <2>2. /\ SetOf(Parsed.nodes) = {n \in SetOf(Named(answer).nodes) : IsReal(n)}
        /\ SetOf(Parsed.eps) = {n \in SetOf(Named(answer).eps) : n.repo # ""}
    BY <2>1, ParsedType DEF Parsed
  <2>. QED
    BY <2>2 DEF IInv, FilesInv, ParsedKept
<1>. QED
  BY <1>1, Inductive, PTL

\* The result names files that exist, and no ghost file does.
THEOREM OnlyFilesThatExist == Spec => []FilesExist
<1>1. IInv => FilesExist
  BY DEF IInv, FilesInv
<1>. QED
  BY <1>1, Inductive, PTL

\* What an analysis is filed under: its own name, or that of a function whose
\* bare name it is.
LEMMA Owner ==
  ASSUME Typed, NEW n
  PROVE  \/ BaseToQualified(n) = n /\ \A f \in SetOf(RealFuncs) : Bare(f) # n
         \/ \E f \in SetOf(RealFuncs) : n = Bare(f) /\ BaseToQualified(n) = Qualified(f)
<1>. DEFINE owners == {k \in DOMAIN RealFuncs : Bare(RealFuncs[k]) = n}
            first == CHOOSE k \in owners : \A l \in owners : k <= l
<1>1. BaseToQualified(n) = IF owners = {} THEN n ELSE Qualified(RealFuncs[first])
  BY DEF BaseToQualified
<1>2. ASSUME owners # {} PROVE first \in owners
  <2>1. owners \in SUBSET Nat
    BY Changed
  <2>. HIDE DEF owners
  <2>2. \E k \in owners : \A l \in owners : k <= l
    BY <1>2, <2>1, Smallest
  <2>. QED
    BY <2>2
<1>3. CASE owners = {}
  BY <1>1, <1>3 DEF SetOf
<1>4. CASE owners # {}
  <2>1. first \in DOMAIN RealFuncs /\ Bare(RealFuncs[first]) = n
    BY <1>2, <1>4
  <2>. HIDE DEF first
  <2>. QED
    BY <1>1, <1>4, <2>1 DEF SetOf
<1>. QED
  BY <1>3, <1>4

\* Filed under one key each, answers are kept as AnswersKept says.
LEMMA FiledAnswers == ASSUME Typed, Filed PROVE AnswersKept
<1>1. \A f, g : Bare(f).file = "" /\ (Qualified(f) = Qualified(g) => Bare(f) = Bare(g))
               /\ (f.file = "" <=> Qualified(f) = Bare(f)) /\ Qualified(f).file = f.file
  BY DEF Bare, Qualified
<1>2. /\ \A n \in replied : BaseToQualified(n) \in seen
      /\ \A k \in seen : \E n \in replied : BaseToQualified(n) = k
      /\ \A k \in seen : \E m \in ut : BaseToQualified(m) = k
      /\ \A m, n \in ut : BaseToQualified(m) = BaseToQualified(n) => m = n
  BY DEF Filed
<1>3. ASSUME NEW n \in replied PROVE \E m \in ut : Alike(m, n)
  <2>1. PICK m \in ut : BaseToQualified(m) = BaseToQualified(n)
    BY <1>2
  <2>2. CASE BaseToQualified(n) = n /\ BaseToQualified(m) = m
    BY <2>1, <2>2 DEF Alike
  <2>3. CASE \E f \in SetOf(RealFuncs) : n = Bare(f) /\ BaseToQualified(n) = Qualified(f)
    <3>1. PICK f \in SetOf(RealFuncs) : n = Bare(f) /\ BaseToQualified(n) = Qualified(f)
      BY <2>3
    <3>2. CASE BaseToQualified(m) = m
      BY <2>1, <3>1, <3>2 DEF Alike
    <3>3. CASE \E g \in SetOf(RealFuncs) : m = Bare(g) /\ BaseToQualified(m) = Qualified(g)
      <4>1. PICK g \in SetOf(RealFuncs) : m = Bare(g) /\ BaseToQualified(m) = Qualified(g)
        BY <3>3
      <4>2. m = n
        BY <1>1, <2>1, <3>1, <4>1
      <4>. QED
        BY <4>2 DEF Alike
    <3>. QED
      BY <3>2, <3>3, Owner
  <2>4. CASE \E f \in SetOf(RealFuncs) : m = Bare(f) /\ BaseToQualified(m) = Qualified(f)
    <3>1. PICK f \in SetOf(RealFuncs) : m = Bare(f) /\ BaseToQualified(m) = Qualified(f)
      BY <2>4
    <3>2. CASE BaseToQualified(n) = n
      BY <2>1, <3>1, <3>2 DEF Alike
    <3>. QED
      BY <2>3, <3>2, Owner
  <2>. QED
    BY <2>2, <2>3, <2>4, Owner
<1>4. ASSUME NEW f \in SetOf(RealFuncs), f.file # ""
      PROVE  BaseToQualified(Qualified(f)) = Qualified(f)
  <2>1. \A g \in SetOf(RealFuncs) : Bare(g) # Qualified(f)
    BY <1>4 DEF Bare, Qualified
  <2>. QED
    BY <2>1, Owner
<1>5. ASSUME NEW f \in SetOf(RealFuncs), First(f), {Bare(f), Qualified(f)} \subseteq ut
      PROVE  f.file = ""
  <2>. SUFFICES ASSUME f.file # "" PROVE FALSE
    OBVIOUS
  <2>1. BaseToQualified(Bare(f)) = BaseToQualified(Qualified(f))
    BY <1>4, <1>5 DEF First
  <2>2. Bare(f) = Qualified(f)
    BY <1>2, <1>5, <2>1
  <2>. QED
    BY <2>2 DEF Bare, Qualified
<1>6. ASSUME NEW f \in SetOf(RealFuncs), Qualified(f) \in seen
      PROVE  \/ f.file # "" /\ Qualified(f) \in replied
             \/ First(f) /\ Bare(f) \in replied
  <2>1. PICK n \in replied : BaseToQualified(n) = Qualified(f)
    BY <1>2, <1>6
  <2>2. CASE BaseToQualified(n) = n /\ \A g \in SetOf(RealFuncs) : Bare(g) # n
    BY <1>1, <2>1, <2>2
  <2>3. CASE \E g \in SetOf(RealFuncs) : n = Bare(g) /\ BaseToQualified(n) = Qualified(g)
    BY <1>1, <2>1, <2>3 DEF First
  <2>. QED
    BY <2>2, <2>3, Owner
<1>7. ASSUME NEW f \in SetOf(RealFuncs),
             \/ f.file # "" /\ Qualified(f) \in replied
             \/ First(f) /\ Bare(f) \in replied
      PROVE  Qualified(f) \in seen
  BY <1>2, <1>4, <1>7 DEF First
<1>. QED
  BY <1>3, <1>5, <1>6, <1>7 DEF AnswersKept

\* Every function and entry point is asked about, and an analysis is lost only as
\* another of a name that may mean the same function, which for the second function
\* of a bare name is that of the first; for chunks and tasks of any size.
THEOREM AllAskedAndKept == Spec => []FollowUpsComplete
<1>1. IInv => EverythingAsked
  BY DEF IInv, AskInv, EverythingAsked
<1>2. IInv => FollowUpsComplete
  BY <1>1, FiledAnswers DEF IInv, FollowUpsComplete
<1>. QED
  BY <1>2, Inductive, PTL

\* A chunk costs two requests of MaxAttempts attempts at most.
THEOREM AttemptsBounded == Spec => []RequestsBounded
<1>1. IInv => RequestsBounded
  <2>. SUFFICES ASSUME IInv PROVE sent <= 2 * MaxAttempts
    BY DEF RequestsBounded, RequestBound
  <2>1. call \in 0..MaxAttempts /\ MaxAttempts \in Nat \ {0} /\ sent \in Nat
    BY Sizes DEF IInv, Typed, TypeOK
  <2>. QED
    BY <2>1 DEF IInv, CallInv
<1>. QED
  BY <1>1, Inductive, PTL

=============================================================================
