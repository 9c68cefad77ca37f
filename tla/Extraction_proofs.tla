-------------------------- MODULE Extraction_proofs --------------------------
(***************************************************************************)
(* Proofs about Extraction, for any files, diffs, indexes and answers.     *)
(***************************************************************************)
EXTENDS Extraction, WellFoundedInduction, SequenceTheorems, TLAPS

GitState == [file : File \cup {NoFile}, at : Nat,
             last : {"start", "header", "section", "added", "removed", "context", "mark"},
             changed : BOOLEAN, marked : BOOLEAN, cut : BOOLEAN, stray : BOOLEAN,
             listed : SUBSET DOMAIN Order, sections : 0..MaxSections]
ScanState == [file : Path \cup {NoFile}, line : Nat, ctx : Seq(Name),
              class : BOOLEAN, method : Name]

\* The variables of the diff and its readers.
TextTyped ==
    /\ git \in GitState /\ scan \in ScanState
    /\ misread \subseteq added /\ added \subseteq File \X Nat /\ shifted \subseteq File
    /\ block = NoBlock \/ block \in Block
    /\ hunks \in Seq(Block)
    /\ emitted \in BOOLEAN /\ toolMethod \in Name

\* Those of the layers; before the first layer they are as they began.
LayersTyped ==
    /\ pc \in {"parse", "name", "index", "ask", "asked", "done", "failed"}
    /\ disk \in {"off", "missing", "old", "new"}
    /\ next \in 1..(Len(hunks) + 1) /\ uncovered \subseteq DOMAIN hunks
    /\ rows \in Indexes \cup {{}}
    /\ keys \cup symbols \subseteq Entry /\ result \subseteq Entry \cup Guesses
    /\ DOMAIN hints \subseteq {e \in keys : e.kind = "func"}
    /\ sent \subseteq SetOf(Order) \cup Stray
    /\ pc = "parse" => next = 1 /\ uncovered = {} /\ keys = {} /\ symbols = {}

Listed == {Order[k] : k \in git.listed}

\* Where the diff is, and where its readers think they are: a no-newline mark
\* counts as a line.
Position ==
    /\ IF git.stray THEN git.file # NoFile /\ scan.file \in Stray ELSE scan.file = git.file
    /\ git.file # NoFile => /\ git.file \in Listed
                            /\ git.at <= Len(New[git.file])
                            /\ git.stray \/ scan.line = git.at + IF git.marked THEN 1 ELSE 0
    /\ git.last \in {"start", "header"} => ~git.marked
    /\ git.last = "start" => git.file = NoFile
    /\ pc = "parse" /\ git.last = "start" => hunks = <<>> /\ added = {}

\* The block under way ends at the readers' line.
BlockInv ==
    block # NoBlock =>
        /\ git.file # NoFile /\ block.file = scan.file
        /\ block.start <= block.end /\ block.end = scan.line
        /\ git.marked => git.file \in shifted

Found(f, n) ==
    \/ \E k \in DOMAIN hunks : hunks[k].file = f /\ n \in LinesOf(hunks[k])
    \/ block # NoBlock /\ block.file = f /\ n \in LinesOf(block)

\* What the diff has added so far is in the hunks or in the block, in order.
Additions ==
    /\ \A x \in added : /\ x[1] \in Listed /\ x[2] \in 1..Len(New[x[1]])
                        /\ x[1] = git.file => x[2] <= git.at
    /\ \A k \in DOMAIN hunks : hunks[k].file \in Listed \cup Stray
       /\ hunks[k].start <= hunks[k].end
    /\ \A f \in File \ shifted, n \in Nat : (Found(f, n) <=> <<f, n>> \in added \ misread)
    /\ \A j, k \in DOMAIN hunks :
          j < k /\ hunks[j].file = hunks[k].file
          /\ hunks[j].file \in File \ shifted =>
             hunks[j].end < hunks[k].start
    /\ \A k \in DOMAIN hunks :
          hunks[k].file = git.file /\ git.file \notin shifted =>
             hunks[k].end <= git.at
             /\ (block # NoBlock /\ ~git.stray => hunks[k].end < block.start)

ParseInv ==
    /\ TextTyped /\ Position /\ BlockInv /\ Additions
    /\ pc = "parse" => ToolReports
    /\ pc # "parse" => git.file = NoFile /\ block = NoBlock /\ reported = {}

\* Hunks named so far are among the keys.
NamedInv ==
    \A k \in DOMAIN hunks :
        pc \notin {"parse", "name"} \/ (pc = "name" /\ k < next) =>
        EntryOf(hunks[k]) \in keys

Matched(h) ==
    \E r \in UNION Indexes :
        r.file = h.file /\ r.start <= h.end /\ r.end >= h.start
        /\ Func(r.file, <<r.name>>) \in symbols

LookupInv ==
    \A k \in DOMAIN hunks :
        /\ pc = "index" /\ k < next => k \in uncovered \/ Matched(hunks[k])
        /\ pc = "ask" => k \in uncovered \/ Matched(hunks[k])
        /\ pc \in {"asked", "done"} => hunks[k].file \in sent \/ Matched(hunks[k])

\* An answer keeps the keys, but for those of tests.
ResultInv == pc = "done" => \A e \in keys : e \in result \/ IsTest(e)

LayersInv == LayersTyped /\ NamedInv /\ LookupInv /\ ResultInv

IInv == ParseInv /\ LayersInv

-----------------------------------------------------------------------------
(* The helpers.                                                            *)

LEMMA ConstantTypes ==
    /\ MaxSections \in Nat \ {0} /\ MaxScan \in Nat \ {0}
    /\ \A f \in File : New[f] \in Seq(Line) /\ Old[f] \in Seq(Line)
    /\ NoFile \notin File /\ File \subseteq SetOf(Order) /\ None \in Name
    /\ Stray \cap (File \cup {NoFile}) = {}
    /\ Order \in Seq(STRING) /\ \A j, k \in DOMAIN Order : Order[j] = Order[k] =>
       j = k
  BY ExtractionAssumption DEF Name

LEMMA LargestIn ==
  ASSUME NEW n \in Nat, NEW S \in SUBSET (1..n), S # {}
  PROVE  Largest(S) \in S /\ \A m \in S : m <= Largest(S)
<1>. DEFINE D == {d \in Nat : n - d \in S}
            R == OpToRel(<, Nat)
<1>1. D \in SUBSET Nat /\ D # {}
  <2>1. PICK x \in S : TRUE
    OBVIOUS
  <2>2. n - x \in Nat /\ n - (n - x) = x
    OBVIOUS
  <2>. QED
    BY <2>2
<1>2. PICK d \in D : \A e \in D : ~(<<e, d>> \in R)
  <2>. HIDE DEF R, D
  <2>1. IsWellFoundedOn(R, Nat)
    BY NatLessThanWellFounded DEF R
  <2>. QED
    BY <1>1, <2>1, WFMin
<1>3. \A e \in D : ~(e < d)
  BY <1>2 DEF OpToRel
<1>4. n - d \in S /\ \A m \in S : m <= n - d
  <2>1. ASSUME NEW m \in S PROVE m <= n - d
    <3>1. n - m \in D
      OBVIOUS
    <3>2. ~(n - m < d) /\ m \in Nat
      BY <1>3
    <3>. QED
      BY <3>2
  <2>. QED
    BY <2>1
<1>5. \E x \in S : \A m \in S : m <= x
  BY <1>4
<1>. QED
  BY <1>5 DEF Largest

\* The name an added line that begins "++ " gives the readers.
LEMMA StrayName ==
  ASSUME NEW f \in File, NEW n \in 1..Len(New[f]), New[f][n].kind = "plus"
  PROVE  New[f][n].name \in Stray
<1>1. n \in DOMAIN New[f]
  BY ConstantTypes
<1>2. <<f, n>> \in File \X UNION {DOMAIN New[g] : g \in File}
  BY <1>1
<1>. QED
  BY <1>1, <1>2 DEF Stray

LEMMA FlushAppends ==
  ASSUME TextTyped, Flush
  PROVE  /\ block' = NoBlock /\ hunks' \in Seq(Block)
         /\ Len(hunks) <= Len(hunks')
         /\ \A k \in DOMAIN hunks : k \in DOMAIN hunks' /\ hunks'[k] = hunks[k]
         /\ block = NoBlock => hunks' = hunks
         /\ block # NoBlock =>
              Len(hunks') = Len(hunks) + 1 /\ hunks'[Len(hunks) + 1] = block
<1>1. CASE block = NoBlock
  BY DEF TextTyped, Flush
<1>2. CASE block # NoBlock
  <2>1. block \in Block /\ hunks \in Seq(Block) /\ hunks' = Append(hunks, block)
        /\ block' = NoBlock
    BY <1>2 DEF TextTyped, Flush
  <2>. QED
    BY <1>2, <2>1
<1>. QED
  BY <1>1, <1>2

\* Of a hunk that is flushed: its place among the others.
LEMMA FlushKeeps ==
  ASSUME ParseInv, Flush
  PROVE  /\ \A k \in DOMAIN hunks' : hunks'[k].file \in Listed \cup Stray
            /\ hunks'[k].start <= hunks'[k].end
         /\ \A f \in File \ shifted,
            n \in Nat : (Found(f, n)' <=> <<f, n>> \in added \ misread)
         /\ \A j, k \in DOMAIN hunks' :
               j < k /\ hunks'[j].file = hunks'[k].file
               /\ hunks'[j].file \in File \ shifted =>
                  hunks'[j].end < hunks'[k].start
         /\ \A k \in DOMAIN hunks' :
               hunks'[k].file = git.file /\ git.file \notin shifted =>
               hunks'[k].end <= git.at
<1>1. TextTyped /\ BlockInv /\ Position /\ Additions
  BY DEF ParseInv
<1>2. /\ block' = NoBlock /\ hunks' \in Seq(Block) /\ hunks \in Seq(Block)
      /\ \A k \in DOMAIN hunks : k \in DOMAIN hunks' /\ hunks'[k] = hunks[k]
  BY <1>1, FlushAppends DEF TextTyped
<1>3. CASE block = NoBlock
  <2>1. hunks' = hunks
    BY <1>1, <1>3, FlushAppends
  <2>. QED
    BY <1>1, <1>2, <1>3, <2>1 DEF Additions, Found
<1>4. CASE block # NoBlock
  <2>1. /\ block \in Block /\ block.start <= block.end /\ block.end = scan.line
        /\ git.marked => git.file \in shifted
        /\ git.file \in File /\ git.file \in Listed /\ git.at \in Nat
        /\ \/ git.stray /\ block.file \in Stray
           \/ /\ ~git.stray /\ block.file = git.file
              /\ scan.line = git.at + (IF git.marked THEN 1 ELSE 0)
    BY <1>1, <1>4, ExtractionAssumption DEF TextTyped, BlockInv, Position, GitState
  <2>2. Len(hunks') = Len(hunks) + 1 /\ hunks'[Len(hunks) + 1] = block
    BY <1>1, <1>4, FlushAppends
  <2>3. DOMAIN hunks' = DOMAIN hunks \cup {Len(hunks) + 1}
        /\ DOMAIN hunks = 1..Len(hunks) /\ Len(hunks) \in Nat
    BY <2>2
  <2>4. \A k \in DOMAIN hunks : hunks[k] \in Block
    BY <1>2
  <2>5. \A k \in DOMAIN hunks' : hunks'[k].file \in Listed \cup Stray
        /\ hunks'[k].start <= hunks'[k].end
    BY <1>1, <1>2, <2>1, <2>2 DEF Additions
  <2>6. \A f \in File \ shifted, n \in Nat : (Found(f, n)' <=> <<f, n>> \in added \ misread)
    <3>. SUFFICES ASSUME NEW f \in File \ shifted, NEW n \in Nat
         PROVE  Found(f, n)' <=> Found(f, n)
      BY <1>1 DEF Additions
    <3>1. Found(f, n) => Found(f, n)'
      BY <1>2, <2>2 DEF Found
    <3>2. Found(f, n)' => Found(f, n)
      BY <1>2, <1>4, <2>2 DEF Found
    <3>. QED
      BY <3>1, <3>2
  <2>7. ASSUME NEW j \in DOMAIN hunks', NEW k \in DOMAIN hunks', j < k,
               hunks'[j].file = hunks'[k].file, hunks'[j].file \in File \ shifted
        PROVE  hunks'[j].end < hunks'[k].start
    <3>1. j \in DOMAIN hunks
      BY <2>3, <2>7
    <3>2. CASE k \in DOMAIN hunks
      BY <1>1, <1>2, <2>7, <3>2 DEF Additions
    <3>3. CASE k = Len(hunks) + 1
      BY <1>1, <1>2, <1>4, <2>1, <2>2, <2>7, ConstantTypes DEF Additions
    <3>. QED
      BY <2>3, <3>2, <3>3
  <2>8. \A k \in DOMAIN hunks' :
           hunks'[k].file = git.file /\ git.file \notin shifted =>
           hunks'[k].end <= git.at
    BY <1>1, <1>2, <2>1, <2>2, ConstantTypes DEF Additions
  <2>. QED
    BY <2>5, <2>6, <2>7, <2>8
<1>. QED
  BY <1>3, <1>4

LEMMA InitIInv == Init => IInv
<1>. SUFFICES ASSUME Init PROVE IInv
  OBVIOUS
<1>1. NoDiff \in GitState /\ Nowhere \in ScanState
  BY ConstantTypes DEF NoDiff, Nowhere, GitState, ScanState
<1>2. TextTyped
  <2>1. <<>> \in Seq(Block) /\ None \in Name
    BY ConstantTypes
  <2>. QED
    BY <1>1, <2>1 DEF Init, TextTyped
<1>3. Position /\ BlockInv
  BY DEF Init, Position, BlockInv, NoDiff, Nowhere
<1>4. Additions
  <2>1. added = {} /\ DOMAIN hunks = {} /\ block = NoBlock
    BY DEF Init
  <2>2. \A f \in File, n \in Nat : ~Found(f, n)
    BY <2>1 DEF Found
  <2>. QED
    BY <2>1, <2>2 DEF Additions
<1>5. ParseInv
  BY <1>2, <1>3, <1>4 DEF Init, ParseInv, ToolReports
<1>6. LayersInv
  BY DEF Init, LayersInv, LayersTyped, NamedInv, LookupInv, ResultInv
<1>. QED
  BY <1>5, <1>6 DEF IInv

\* A step of the readers leaves the layers as they are.
LEMMA LayersWait ==
  ASSUME IInv, pc = "parse", UNCHANGED layers, hunks' \in Seq(Block),
         Len(hunks) <= Len(hunks')
  PROVE  LayersInv'
<1>1. LayersTyped'
  BY DEF IInv, LayersInv, LayersTyped, layers
<1>2. NamedInv' /\ LookupInv' /\ ResultInv'
  BY DEF NamedInv, LookupInv, ResultInv, layers
<1>. QED
  BY <1>1, <1>2 DEF LayersInv

LEMMA HeaderIInv == ASSUME IInv, NEW k \in DOMAIN Order, Header(k) PROVE IInv'
<1>1. ParseInv /\ TextTyped /\ Position /\ Additions /\ pc = "parse" /\ Flush
      /\ UNCHANGED <<added, misread, shifted, reported, layers>> /\ pc' = "parse"
  BY DEF IInv, ParseInv, Header, layers
<1>. DEFINE f == Named(k)
<1>2. /\ f \in File \cup {NoFile} /\ (f # NoFile => f = Order[k] /\ f \in File)
      /\ git' = [git EXCEPT !.file = f, !.at = 0, !.last = "header", !.changed = FALSE,
                            !.marked = FALSE, !.stray = FALSE, !.listed = @ \cup {k}]
      /\ scan' = [Nowhere EXCEPT !.file = f]
      /\ \A j \in git.listed : j < k
  BY DEF Named, Header
<1>. HIDE DEF f
<1>3. git.listed \subseteq DOMAIN Order /\ git \in GitState
  BY <1>1 DEF TextTyped, GitState
<1>5. git' \in GitState /\ scan' \in ScanState
  <2>1. git' \in GitState
    BY <1>2, <1>3 DEF GitState
  <2>2. scan' \in ScanState
    <3>1. scan' = [file |-> f, line |-> 0, ctx |-> <<>>, class |-> FALSE, method |-> None]
      BY <1>2 DEF Nowhere
    <3>2. <<>> \in Seq(Name) /\ None \in Name
      BY ConstantTypes
    <3>3. f \in File \cup {NoFile}
      BY <1>2
    <3>4. [file |-> f, line |-> 0, ctx |-> <<>>, class |-> FALSE, method |-> None] \in ScanState
      BY ONLY <3>2, <3>3 DEF ScanState, Path
    <3>. QED
      BY <3>1, <3>4
  <2>. QED
    BY <2>1, <2>2
<1>6. git'.file = f /\ git'.at = 0 /\ git'.last = "header" /\ git'.marked = FALSE
      /\ git'.stray = FALSE /\ scan'.file = f /\ scan'.line = 0
      /\ git'.listed = git.listed \cup {k}
  BY <1>2 DEF Nowhere
<1>7. Listed' = Listed \cup {Order[k]}
  BY <1>6 DEF Listed
<1>8. Order[k] \notin Listed
  <2>1. \A j \in git.listed : j \in Nat /\ k \in Nat /\ j # k
        /\ j \in DOMAIN Order
    BY <1>2, <1>3, ConstantTypes
  <2>. QED
    BY <2>1, ExtractionAssumption DEF Listed
<1>9. TextTyped'
  BY <1>1, <1>5, FlushAppends, ConstantTypes DEF TextTyped, Header
<1>10. Position'
  <2>1. f # NoFile => New[f] \in Seq(Line)
    BY <1>2, ExtractionAssumption
  <2>. QED
    BY <1>2, <1>6, <1>7 DEF Position
<1>11. block' = NoBlock /\ BlockInv'
  BY <1>1, FlushAppends DEF BlockInv
<1>12. Additions'
  <2>1. \A x \in added' : x[1] \in Listed' /\ x[2] \in 1..Len(New[x[1]])
        /\ (x[1] = git'.file => x[2] <= git'.at)
    BY <1>1, <1>2, <1>7, <1>8, ExtractionAssumption DEF Additions, TextTyped
  <2>2. \A j \in DOMAIN hunks' : hunks'[j].file # git'.file
    <3>1. \A j \in DOMAIN hunks' : hunks'[j] \in Block /\ hunks'[j].file \in Listed \cup Stray
      BY <1>1, <1>9, FlushKeeps DEF TextTyped
    <3>2. \A j \in DOMAIN hunks' : hunks'[j].file # NoFile
      BY <3>1, ConstantTypes DEF Block, Path
    <3>. QED
      BY <1>2, <1>6, <1>8, <3>1, <3>2, ConstantTypes
  <2>. QED
    BY <1>1, <1>7, <2>1, <2>2, FlushKeeps DEF Additions
<1>13. ToolReports'
  BY <1>1 DEF ParseInv, ToolReports
<1>fresh. LayersInv'
  BY <1>1, FlushAppends, LayersWait
<1>. QED
  BY <1>1, <1>9, <1>10, <1>11, <1>12, <1>13, <1>fresh DEF IInv, ParseInv

LEMMA InFile ==
  ASSUME IInv, git.file # NoFile
  PROVE  /\ git.file \in File /\ New[git.file] \in Seq(Line) /\ Size \in Nat
            /\ Size = Len(New[git.file])
         /\ git.at \in Nat /\ git.at <= Size /\ git \in GitState
            /\ scan \in ScanState
         /\ scan.file \in Path /\ scan.line \in Nat
         /\ IF git.stray THEN scan.file \in Stray ELSE scan.file = git.file
         /\ git.stray \/ scan.line = git.at + IF git.marked THEN 1 ELSE 0
         /\ git.marked \in BOOLEAN /\ git.stray \in BOOLEAN /\ git.file \in Listed
<1>1. git \in GitState /\ scan \in ScanState
  BY DEF IInv, ParseInv, TextTyped
<1>2. git.file \in File /\ git.at \in Nat /\ git.marked \in BOOLEAN
      /\ scan.line \in Nat
  BY <1>1 DEF GitState, ScanState
<1>3. New[git.file] \in Seq(Line)
  BY <1>2, ConstantTypes
<1>. QED
  BY <1>1, <1>2, <1>3 DEF IInv, ParseInv, Position, Size, Path, GitState

LEMMA HeadingType ==
  ASSUME NEW f \in File, NEW n \in Nat, n <= Len(New[f]), NEW h \in Headings(f, n),
         h # 0
  PROVE  h \in 1..Len(New[f])
<1>1. PICK S : S \subseteq 1..(n - 1) /\ S # {} /\ h = Largest(S)
  BY DEF Headings
<1>2. New[f] \in Seq(Line) /\ Len(New[f]) \in Nat
  BY ConstantTypes
<1>3. n - 1 \in Nat
  <2>1. PICK x \in S : x \in 1..(n - 1)
    BY <1>1
  <2>. QED
    BY <2>1
<1>4. Largest(S) \in S
  BY <1>1, <1>3, LargestIn
<1>5. h \in 1..(n - 1)
  BY <1>1, <1>4
<1>. QED
  BY <1>5

\* Of a step that flushes the block and goes on in the same file.
LEMMA FlushStays ==
  ASSUME IInv, Flush, UNCHANGED <<added, misread, shifted>>, git'.file = git.file,
         git'.listed = git.listed,
         git.at \in Nat, git'.at \in Nat, git'.at >= git.at
  PROVE  Additions' /\ BlockInv'
<1>1. ParseInv /\ TextTyped /\ Additions /\ Listed' = Listed
  BY DEF IInv, ParseInv, Listed
<1>2. block' = NoBlock
  BY <1>1, FlushAppends
<1>3. \A x \in added : x[2] \in Nat
  BY <1>1 DEF TextTyped
<1>4. \A k \in DOMAIN hunks' : hunks'[k] \in Block
  BY <1>1, FlushAppends
<1>5. \A k \in DOMAIN hunks' : hunks'[k].end \in Nat
  BY <1>4 DEF Block
<1>6. \A x \in added' : x[1] \in Listed' /\ x[2] \in 1..Len(New[x[1]])
      /\ (x[1] = git'.file => x[2] <= git'.at)
  BY <1>1 DEF Additions
<1>7. \A k \in DOMAIN hunks' :
         hunks'[k].file = git'.file /\ git'.file \notin shifted' =>
            hunks'[k].end <= git'.at
            /\ (block' # NoBlock => hunks'[k].end < block'.start)
  <2>1. \A k \in DOMAIN hunks' : hunks'[k].file = git.file
        /\ git.file \notin shifted => hunks'[k].end <= git.at
    BY <1>1, FlushKeeps
  <2>. QED
    BY <1>2, <1>5, <2>1
<1>8. Additions'
  BY <1>1, <1>7, FlushKeeps DEF Additions
<1>. QED
  BY <1>2, <1>8 DEF BlockInv

LEMMA SectionIInv ==
  ASSUME IInv, NEW n \in 1..(IF git.file = NoFile THEN 0 ELSE Size),
         NEW h \in Headings(git.file, n),
         Section(n, h)
  PROVE  IInv'
<1>1. ParseInv /\ TextTyped /\ Position /\ pc = "parse" /\ Flush
      /\ git.file # NoFile /\ ~git.marked
      /\ UNCHANGED <<added, misread, shifted, reported, layers>> /\ pc' = "parse"
  BY DEF IInv, ParseInv, Section, layers, Position
<1>2. n \in 1..Size /\ git.at <= n - 1 /\ n \in Nat
      /\ git.sections + 1 \in 0..MaxSections
  <2>1. n \in 1..Size /\ git.at \in Nat /\ Size \in Nat /\ git \in GitState
    BY InFile
  <2>2. n >= git.at + 1
    BY <2>1 DEF Section
  <2>3. git.sections \in Nat /\ git.sections < MaxSections
    BY <2>1 DEF GitState, Section
  <2>. QED
    BY <2>1, <2>2, <2>3, ConstantTypes
<1>3. git' = [git EXCEPT !.at = n - 1, !.last = "section", !.changed = FALSE,
                         !.cut = FALSE, !.sections = @ + 1]
  BY DEF Section
<1>4. git' \in GitState /\ git'.file = git.file /\ git'.at = n - 1
      /\ git'.marked = git.marked /\ git'.stray = git.stray
      /\ git'.listed = git.listed /\ git'.last = "section"
  <2>1. git \in GitState /\ n - 1 \in Nat
    BY <1>1 DEF TextTyped
  <2>. QED
    BY <1>2, <1>3, <2>1 DEF GitState
<1>5. PICK c \in Seq(Name), b \in BOOLEAN :
         scan' = [scan EXCEPT !.line = n - 1, !.ctx = c, !.class = b, !.method = None]
  <2>1. CASE h = 0
    <3>1. scan' = [scan EXCEPT !.line = n - 1, !.ctx = <<>>, !.class = FALSE, !.method = None]
      BY <2>1 DEF Section
    <3>2. <<>> \in Seq(Name) /\ FALSE \in BOOLEAN
      OBVIOUS
    <3>. QED
      BY <3>1, <3>2
  <2>2. CASE h # 0
    <3>1. New[git.file][h] \in Line
      BY <2>2, InFile, HeadingType
    <3>2. Context(New[git.file][h]) \in Seq(Name)
      BY <3>1 DEF Context, Line
    <3>3. scan' = [scan EXCEPT !.line = n - 1, !.ctx = Context(New[git.file][h]),
                               !.class = (h # 0 /\ New[git.file][h].kind \in {"class", "bareclass"}),
                               !.method = None]
      BY <2>2 DEF Section
    <3>4. (h # 0 /\ New[git.file][h].kind \in {"class", "bareclass"}) \in BOOLEAN
      OBVIOUS
    <3>. QED
      BY ONLY <3>2, <3>3, <3>4, Zenon
  <2>. QED
    BY <2>1, <2>2
<1>6. scan' \in ScanState /\ scan'.file = scan.file /\ scan'.line = n - 1
  <2>1. scan \in ScanState /\ n - 1 \in Nat /\ None \in Name
    BY <1>1, ConstantTypes DEF TextTyped
  <2>. QED
    BY <1>5, <2>1 DEF ScanState
<1>7. TextTyped'
  BY <1>1, <1>4, <1>6, FlushAppends, ConstantTypes DEF TextTyped, Section
<1>8. Position'
  <2>1. Listed' = Listed
    BY <1>4 DEF Listed
  <2>. QED
    BY <1>1, <1>4, <1>6, <2>1, InFile DEF Position
<1>9. Additions' /\ BlockInv'
  BY <1>1, <1>2, <1>4, FlushStays, InFile
<1>10. ToolReports'
  BY <1>1 DEF ParseInv, ToolReports
<1>11. LayersInv'
  BY <1>1, FlushAppends, LayersWait
<1>. QED
  BY <1>1, <1>7, <1>8, <1>9, <1>10, <1>11 DEF IInv, ParseInv

LEMMA ContextLineIInv == ASSUME IInv, ContextLine PROVE IInv'
<1>1. ParseInv /\ TextTyped /\ Position /\ pc = "parse" /\ Flush
      /\ git.file # NoFile /\ ~git.marked
      /\ git.at < Size /\ UNCHANGED <<added, misread, shifted, emitted, reported, layers>>
         /\ pc' = "parse"
  BY DEF IInv, ParseInv, ContextLine, Writing, layers
<1>2. git' \in GitState /\ git'.file = git.file /\ git'.at = git.at + 1
      /\ git'.marked = git.marked
      /\ git'.stray = git.stray /\ git'.listed = git.listed /\ git'.last = "context"
  <2>1. git' = [git EXCEPT !.at = @ + 1, !.last = "context"]
    BY DEF ContextLine
  <2>2. git \in GitState /\ git.at + 1 \in Nat
    BY <1>1, InFile
  <2>. QED
    BY <2>1, <2>2 DEF GitState
<1>3. AtLine.name \in Name
  <2>1. AtLine \in Line
    BY <1>1, InFile DEF AtLine
  <2>. QED
    BY <2>1 DEF Line
<1>4. PICK m \in Name : scan' = [scan EXCEPT !.line = @ + 1, !.method = m]
  <2>1. scan.method \in Name
    BY <1>1, InFile DEF ScanState
  <2>. QED
    BY <1>3, <2>1 DEF ContextLine
<1>5. scan' \in ScanState /\ scan'.file = scan.file /\ scan'.line = scan.line + 1
  <2>1. scan \in ScanState /\ scan.line + 1 \in Nat
    BY <1>1, InFile
  <2>. QED
    BY <1>4, <2>1 DEF ScanState
<1>6. toolMethod' \in Name
  BY <1>1, <1>3 DEF ContextLine, TextTyped
<1>7. TextTyped'
  BY <1>1, <1>2, <1>5, <1>6, FlushAppends DEF TextTyped
<1>8. Position'
  <2>1. Listed' = Listed
    BY <1>2 DEF Listed
  <2>. QED
    BY <1>1, <1>2, <1>5, <2>1, InFile DEF Position
<1>9. Additions' /\ BlockInv'
  BY <1>1, <1>2, FlushStays, InFile
<1>10. ToolReports'
  BY <1>1 DEF ParseInv, ToolReports
<1>11. LayersInv'
  BY <1>1, FlushAppends, LayersWait
<1>. QED
  BY <1>1, <1>7, <1>8, <1>9, <1>10, <1>11 DEF IInv, ParseInv

LEMMA MarkIInv == ASSUME IInv, Mark PROVE IInv'
<1>1. ParseInv /\ TextTyped /\ Position /\ pc = "parse" /\ Flush
      /\ git.file # NoFile /\ git.marked = FALSE
      /\ UNCHANGED <<added, misread, shifted, emitted, toolMethod, reported, layers>>
         /\ pc' = "parse"
  BY DEF IInv, ParseInv, Mark, Writing, layers
<1>2. git' \in GitState /\ git'.file = git.file /\ git'.at = git.at
      /\ git'.marked = TRUE
      /\ git'.stray = git.stray /\ git'.listed = git.listed /\ git'.last = "mark"
  <2>1. git' = [git EXCEPT !.last = "mark", !.marked = TRUE]
    BY DEF Mark
  <2>. QED
    BY <1>1, <2>1, InFile DEF GitState
<1>3. scan' \in ScanState /\ scan'.file = scan.file /\ scan'.line = scan.line + 1
  <2>1. scan' = [scan EXCEPT !.line = @ + 1]
    BY DEF Mark
  <2>. QED
    BY <1>1, <2>1, InFile DEF ScanState
<1>4. TextTyped'
  BY <1>1, <1>2, <1>3, FlushAppends DEF TextTyped
<1>5. Position'
  <2>1. Listed' = Listed
    BY <1>2 DEF Listed
  <2>. QED
    BY <1>1, <1>2, <1>3, <2>1, InFile DEF Position
<1>6. Additions' /\ BlockInv'
  BY <1>1, <1>2, FlushStays, InFile
<1>7. ToolReports'
  BY <1>1 DEF ParseInv, ToolReports
<1>8. LayersInv'
  BY <1>1, FlushAppends, LayersWait
<1>. QED
  BY <1>1, <1>4, <1>5, <1>6, <1>7, <1>8 DEF IInv, ParseInv

LEMMA RemovedLineIInv == ASSUME IInv, RemovedLine PROVE IInv'
<1>1. ParseInv /\ TextTyped /\ Position /\ BlockInv /\ Additions /\ pc = "parse"
      /\ git.file # NoFile
      /\ UNCHANGED <<added, misread, shifted, scan, block, hunks, emitted, toolMethod, reported, layers>> /\ pc' = "parse"
  BY DEF IInv, ParseInv, RemovedLine, Writing, layers
<1>2. git' \in GitState /\ git'.file = git.file /\ git'.at = git.at
      /\ git'.marked = git.marked
      /\ git'.stray = git.stray /\ git'.listed = git.listed /\ git'.last = "removed"
  <2>1. git' = [git EXCEPT !.last = "removed", !.changed = TRUE, !.cut = TRUE]
    BY DEF RemovedLine
  <2>. QED
    BY <1>1, <2>1, InFile DEF GitState
<1>3. Listed' = Listed
  BY <1>2 DEF Listed
<1>4. TextTyped' /\ Position' /\ BlockInv'
  BY <1>1, <1>2, <1>3 DEF TextTyped, Position, BlockInv
<1>5. Additions'
  <2>1. \A f, n : Found(f, n)' <=> Found(f, n)
    BY <1>1 DEF Found
  <2>. QED
    BY <1>1, <1>2, <1>3, <2>1 DEF Additions
<1>6. ToolReports'
  BY <1>1 DEF ParseInv, ToolReports
<1>7. LayersInv'
  BY <1>1, LayersWait DEF TextTyped
<1>. QED
  BY <1>1, <1>4, <1>5, <1>6, <1>7 DEF IInv, ParseInv

LEMMA ScanEndsIInv ==
  ASSUME IInv, NEW d \in {"off", "missing", "old", "new"}, NEW more \in SUBSET DOMAIN Order,
         ScanEnds(d, more)
  PROVE  IInv'
<1>1. /\ ParseInv /\ TextTyped /\ Position /\ Additions /\ BlockInv
         /\ pc = "parse" /\ Flush
      /\ UNCHANGED <<added, misread, shifted, rows, next, keys, hints, symbols, uncovered, sent, result>>
      /\ pc' = (IF git.last = "start" THEN "done" ELSE "name") /\ disk' = d
      /\ git' = [NoDiff EXCEPT !.listed = git.listed \cup more]
      /\ scan' = Nowhere /\ emitted' = FALSE /\ toolMethod' = None
         /\ reported' = {}
  BY DEF IInv, ParseInv, ScanEnds
<1>2. /\ git' \in GitState /\ git'.file = NoFile /\ git'.listed = git.listed \cup more
         /\ git'.last = "start" /\ git'.marked = FALSE /\ git'.stray = FALSE
      /\ scan' \in ScanState /\ scan'.file = NoFile
  <2>1. git.listed \cup more \subseteq DOMAIN Order
    BY <1>1 DEF TextTyped, GitState
  <2>2. git' = [file |-> NoFile, at |-> 0, last |-> "start", changed |-> TRUE,
                marked |-> FALSE, cut |-> FALSE, stray |-> FALSE,
                listed |-> git.listed \cup more, sections |-> 0]
    BY <1>1 DEF NoDiff
  <2>3. Nowhere \in ScanState /\ Nowhere.file = NoFile /\ 0 \in 0..MaxSections
    BY ConstantTypes DEF Nowhere, ScanState
  <2>4. git' \in GitState
    BY <2>1, <2>2, <2>3 DEF GitState
  <2>. QED
    BY <1>1, <2>2, <2>3, <2>4
<1>3. Listed \subseteq Listed'
  BY <1>2 DEF Listed
<1>4. block' = NoBlock /\ hunks' \in Seq(Block) /\ Len(hunks) <= Len(hunks')
  BY <1>1, FlushAppends
<1>5. TextTyped'
  BY <1>1, <1>2, <1>4, ConstantTypes DEF TextTyped
<1>6. Position' /\ BlockInv'
  BY <1>1, <1>2, <1>4 DEF Position, BlockInv
<1>7. Additions'
  <2>1. \A k \in DOMAIN hunks' : hunks'[k] \in Block
    BY <1>4
  <2>2. \A k \in DOMAIN hunks' : hunks'[k].file # NoFile
    BY <2>1, ConstantTypes DEF Block, Path
  <2>3. \A x \in added' : x[1] \in Listed' /\ x[2] \in 1..Len(New[x[1]])
        /\ (x[1] = git'.file => x[2] <= git'.at)
    BY <1>1, <1>2, <1>3, ConstantTypes DEF Additions, TextTyped
  <2>. QED
    BY <1>1, <1>2, <1>3, <2>2, <2>3, FlushKeeps DEF Additions
<1>8. git.last = "start" => hunks' = <<>>
  <2>. SUFFICES ASSUME git.last = "start" PROVE hunks' = <<>>
    OBVIOUS
  <2>1. git.file = NoFile /\ hunks = <<>>
    BY <1>1 DEF Position
  <2>2. block = NoBlock
    BY <1>1, <2>1 DEF BlockInv
  <2>. QED
    BY <1>1, <2>1, <2>2, FlushAppends
<1>9. LayersTyped'
  BY <1>1 DEF IInv, LayersInv, LayersTyped
<1>10. NamedInv' /\ LookupInv' /\ ResultInv'
  <2>1. next = 1 /\ keys = {}
    BY <1>1 DEF IInv, LayersInv, LayersTyped
  <2>2. CASE git.last = "start"
    BY <1>1, <1>8, <2>1, <2>2 DEF NamedInv, LookupInv, ResultInv
  <2>3. CASE git.last # "start"
    <3>1. pc' = "name" /\ next' = 1 /\ \A k \in DOMAIN hunks' : ~(k < 1)
      BY <1>1, <1>4, <2>1, <2>3
    <3>. QED
      BY <3>1 DEF NamedInv, LookupInv, ResultInv
  <2>. QED
    BY <2>2, <2>3
<1>. QED
  BY <1>1, <1>2, <1>4, <1>5, <1>6, <1>7, <1>9, <1>10 DEF IInv, ParseInv, LayersInv

LEMMA EffectiveType ==
  ASSUME IInv, git.file # NoFile, NEW m \in Name PROVE Effective(m) \in Seq(Name)
<1>1. scan.ctx \in Seq(Name) /\ None \in Name
  BY InFile, ConstantTypes DEF ScanState
<1>2. \A c \in Seq(Name) : c \o <<m>> \in Seq(Name)
  OBVIOUS
<1>3. <<None>> \o <<m>> \in Seq(Name)
  BY <1>1
<1>. QED
  BY <1>1 DEF Effective, Qualified

LEMMA AddedLineIInv == ASSUME IInv, AddedLine PROVE IInv'
<1>1. /\ ParseInv /\ TextTyped /\ Position /\ BlockInv /\ Additions /\ ToolReports
      /\ pc = "parse" /\ pc' = "parse" /\ git.file # NoFile /\ git.at < Size
      /\ UNCHANGED <<hunks, toolMethod, layers>>
      /\ added' = added \cup {<<git.file, git.at + 1>>}
      /\ misread' = (IF git.stray THEN misread \cup {<<git.file, git.at + 1>>} ELSE misread)
      /\ shifted' = (IF git.marked THEN shifted \cup {git.file} ELSE shifted)
  BY DEF IInv, ParseInv, AddedLine, Writing, layers
<1>2. /\ git.file \in File /\ git.at \in Nat /\ Size \in Nat
         /\ Size = Len(New[git.file])
      /\ git \in GitState /\ scan \in ScanState /\ git.marked \in BOOLEAN
         /\ git.file \in Listed
      /\ scan.file \in Path /\ scan.line \in Nat /\ git.stray \in BOOLEAN
      /\ IF git.stray THEN scan.file \in Stray ELSE scan.file = git.file
      /\ git.stray \/ scan.line = git.at + (IF git.marked THEN 1 ELSE 0)
  BY <1>1, InFile
<1>3. git' \in GitState /\ git'.file = git.file /\ git'.at = git.at + 1
      /\ git'.marked = git.marked
      /\ git'.stray = git.stray /\ git'.listed = git.listed /\ git'.last = "added"
  <2>1. git' = [git EXCEPT !.at = @ + 1, !.last = "added", !.changed = TRUE]
        /\ git.at + 1 \in Nat
    BY <1>2 DEF AddedLine
  <2>. QED
    BY <1>2, <2>1 DEF GitState
<1>4. scan' \in ScanState /\ scan'.file = scan.file /\ scan'.line = scan.line + 1
  <2>1. scan' = [scan EXCEPT !.line = @ + 1] /\ scan.line + 1 \in Nat
    BY <1>2 DEF AddedLine
  <2>. QED
    BY <1>2, <2>1 DEF ScanState
<1>5. AtLine \in Line /\ AtLine = New[git.file][git.at + 1]
  BY <1>1, InFile DEF AtLine
<1>6. PICK found :
        /\ found = Reported(AtLine, Effective(toolMethod))
        /\ reported' = reported \cup found
        /\ emitted' = (emitted \/ found # {})
  BY DEF AddedLine
<1>7. /\ block' \in Block /\ block' # NoBlock /\ block'.file = scan.file
         /\ block'.end = scan.line + 1
      /\ block'.start = IF block = NoBlock THEN scan.line + 1 ELSE block.start
  <2>. DEFINE opened == IF block # NoBlock THEN block
                        ELSE [block EXCEPT !.file = scan.file, !.start = scan.line + 1,
                                           !.ctx = Effective(scan.method)]
              start == IF block = NoBlock THEN scan.line + 1 ELSE block.start
              grown == [opened EXCEPT !.end = scan.line + 1]
  <2>1. PICK c \in Seq(Name), v \in Name, e \in Nat :
           opened = [file |-> scan.file, start |-> start, end |-> e, ctx |-> c, var |-> v]
    <3>1. CASE block = NoBlock
      <4>1. Effective(scan.method) \in Seq(Name) /\ None \in Name
        BY <1>2, EffectiveType, ConstantTypes DEF ScanState
      <4>2. opened = [file |-> scan.file, start |-> scan.line + 1, end |-> 0, ctx |-> Effective(scan.method), var |-> None]
        BY <1>2, <3>1 DEF NoBlock
      <4>. QED
        BY <3>1, <4>1, <4>2
    <3>2. CASE block # NoBlock
      <4>1. block \in Block /\ block.file = scan.file
        BY <1>1, <3>2 DEF TextTyped, BlockInv
      <4>. QED
        BY <3>2, <4>1 DEF Block
    <3>. QED
      BY <3>1, <3>2
  <2>2. start \in Nat \ {0}
    BY <1>1, <1>2 DEF TextTyped, Block
  <2>. HIDE DEF opened, start
  <2>3. grown = [file |-> scan.file, start |-> start, end |-> scan.line + 1, ctx |-> c, var |-> v]
    BY <2>1
  <2>4. \/ block' = [file |-> scan.file, start |-> start, end |-> scan.line + 1, ctx |-> <<>>, var |-> AtLine.name]
        \/ block' = [file |-> scan.file, start |-> start, end |-> scan.line + 1, ctx |-> c, var |-> v]
    <3>1. block' = IF AtLine.kind = "var" /\ grown.var = None
                   THEN [grown EXCEPT !.var = AtLine.name, !.ctx = <<>>] ELSE grown
      BY DEF AddedLine, opened
    <3>. QED
      BY <2>3, <3>1
  <2>5. AtLine.name \in Name /\ <<>> \in Seq(Name) /\ scan.line + 1 \in Nat \ {0}
    BY <1>2, <1>5 DEF Line
  <2>6. block' \in Block /\ block'.file = scan.file /\ block'.end = scan.line + 1
        /\ block'.start = start
    <3>1. scan.file \in Path
      BY <1>2
    <3>2. ASSUME NEW ctx \in Seq(Name), NEW w \in Name,
                 block' = [file |-> scan.file, start |-> start, end |-> scan.line + 1, ctx |-> ctx, var |-> w]
          PROVE  block' \in Block /\ block'.file = scan.file
                 /\ block'.end = scan.line + 1 /\ block'.start = start
      BY ONLY <2>2, <2>5, <3>1, <3>2 DEF Block
    <3>. QED
      BY <2>4, <2>5, <3>2
  <2>. QED
    BY <1>2, <2>6, ConstantTypes DEF NoBlock, start
<1>8. Listed' = Listed
  BY <1>3 DEF Listed
<1>fresh. <<git.file, git.at + 1>> \notin added /\ misread \subseteq added
  BY <1>1, <1>2 DEF Additions, TextTyped
<1>9. TextTyped'
  <2>1. emitted' \in BOOLEAN
    BY <1>6
  <2>2. misread' \subseteq added' /\ added' \subseteq File \X Nat /\ shifted' \subseteq File
    BY <1>1, <1>2 DEF TextTyped
  <2>. QED
    BY <1>1, <1>3, <1>4, <1>7, <2>1, <2>2 DEF TextTyped
<1>10. Position' /\ BlockInv'
  <2>1. Position'
    BY <1>1, <1>2, <1>3, <1>4, <1>8 DEF Position
  <2>2. BlockInv'
    BY <1>1, <1>2, <1>3, <1>4, <1>7 DEF BlockInv, Block
  <2>. QED
    BY <2>1, <2>2
<1>11. Additions'
  <2>1. \A x \in added' : x[1] \in Listed' /\ x[2] \in 1..Len(New[x[1]])
        /\ (x[1] = git'.file => x[2] <= git'.at)
    <3>. SUFFICES ASSUME NEW x \in added'
         PROVE  x[1] \in Listed /\ x[2] \in 1..Len(New[x[1]])
                /\ (x[1] = git.file => x[2] <= git.at + 1)
      BY <1>3, <1>8
    <3>1. CASE x = <<git.file, git.at + 1>>
      BY <1>1, <1>2, <3>1
    <3>2. CASE x \in added
      BY <1>1, <1>2 DEF Additions
    <3>. QED
      BY <1>1, <3>1, <3>2
  <2>2. \A f \in File \ shifted', n \in Nat : Found(f, n)' <=> <<f, n>> \in added' \ misread'
    <3>. SUFFICES ASSUME NEW f \in File, f \notin shifted', NEW n \in Nat
         PROVE  Found(f, n)' <=> <<f, n>> \in added' \ misread'
      OBVIOUS
    <3>1. f \notin shifted /\ (Found(f, n) <=> <<f, n>> \in added \ misread)
      BY <1>1 DEF Additions
    <3>2. CASE f # scan.file
      <4>1. Found(f, n)' <=> Found(f, n)
        BY <1>1, <1>7, <3>2 DEF Found, BlockInv
      <4>2. <<f, n>> \in added' \ misread' <=> <<f, n>> \in added \ misread
        BY <1>1, <1>2, <1>fresh, <3>2
      <4>. QED
        BY <3>1, <4>1, <4>2
    <3>3. CASE f = scan.file
      <4>1. ~git.stray /\ f = git.file /\ scan.line = git.at
        BY <1>1, <1>2, <3>3, ConstantTypes
      <4>2. n \in LinesOf(block') <=> (n = git.at + 1 \/ (block # NoBlock /\ n \in LinesOf(block)))
        BY <1>1, <1>2, <1>7, <4>1 DEF LinesOf, BlockInv, Block
      <4>3. Found(f, n)' <=> (Found(f, n) \/ n = git.at + 1)
        BY <1>1, <1>7, <3>3, <4>2 DEF Found, BlockInv
      <4>4. <<f, n>> \in added' \ misread' <=> (<<f, n>> \in added \ misread \/ n = git.at + 1)
        BY <1>1, <1>fresh, <4>1
      <4>. QED
        BY <3>1, <4>3, <4>4
    <3>. QED
      BY <3>2, <3>3
  <2>3. \A k \in DOMAIN hunks' :
           hunks'[k].file = git'.file /\ git'.file \notin shifted' =>
              hunks'[k].end <= git'.at
              /\ (block' # NoBlock /\ ~git'.stray => hunks'[k].end < block'.start)
    <3>. SUFFICES ASSUME NEW k \in DOMAIN hunks, hunks[k].file = git.file,
         git.file \notin shifted'
                  PROVE  /\ hunks[k].end <= git.at + 1
                         /\ ~git.stray => hunks[k].end < block'.start
      BY <1>1, <1>3
    <3>1. hunks[k] \in Block
      BY <1>1 DEF TextTyped
    <3>2. hunks[k].end \in Nat /\ hunks[k].end <= git.at
          /\ (block # NoBlock /\ ~git.stray => hunks[k].end < block.start)
      BY <1>1, <3>1 DEF Additions, Block
    <3>3. git.stray \/ scan.line = git.at
      BY <1>1, <1>2
    <3>. QED
      BY <1>2, <1>7, <3>2, <3>3
  <2>4. \A j, k \in DOMAIN hunks' :
          j < k /\ hunks'[j].file = hunks'[k].file
          /\ hunks'[j].file \in File \ shifted' =>
             hunks'[j].end < hunks'[k].start
    BY <1>1 DEF Additions
  <2>5. \A k \in DOMAIN hunks' : hunks'[k].file \in Listed' \cup Stray
        /\ hunks'[k].start <= hunks'[k].end
    BY <1>1, <1>8 DEF Additions
  <2>. QED
    BY <2>1, <2>2, <2>3, <2>4, <2>5 DEF Additions
<1>12. ToolReports'
  <2>1. ASSUME NEW r \in reported', r.file \in File \ shifted'
        PROVE  <<r.file, r.line>> \in added' \ misread'
    <3>1. CASE r \in reported
      <4>1. <<r.file, r.line>> \in added \ misread
        BY <1>1, <2>1, <3>1 DEF ToolReports
      <4>. QED
        BY <1>1, <1>fresh, <4>1
    <3>2. CASE r \in found
      <4>1. r.file = scan.file /\ r.line = scan.line + 1
        BY <1>6, <3>2 DEF Reported, Change
      <4>2. ~git.stray /\ r.file = git.file /\ r.line = git.at + 1
        BY <1>1, <1>2, <2>1, <4>1, ConstantTypes
      <4>. QED
        BY <1>1, <1>fresh, <4>2
    <3>. QED
      BY <1>6, <3>1, <3>2
  <2>2. ASSUME NEW x \in added' \ misread', New[x[1]][x[2]].kind = "def",
               x[1] \notin shifted'
        PROVE  [file |-> x[1], line |-> x[2], name |-> <<New[x[1]][x[2]].name>>,
                change |-> "added"] \in reported'
    <3>1. CASE x \in added
      BY <1>1, <1>6, <2>2, <3>1 DEF ToolReports
    <3>2. CASE x = <<git.file, git.at + 1>>
      <4>1. ~git.stray /\ scan.file = git.file /\ scan.line = git.at
        BY <1>1, <1>2, <2>2, <3>2
      <4>2. Change(<<AtLine.name>>, "added") \in found
        BY <1>5, <1>6, <2>2, <3>2 DEF Reported, Declares
      <4>. QED
        BY <1>2, <1>5, <1>6, <3>2, <4>1, <4>2 DEF Change
    <3>. QED
      BY <1>1, <3>1, <3>2
  <2>. QED
    BY <2>1, <2>2 DEF ToolReports
<1>13. LayersInv'
  BY <1>1, LayersWait DEF TextTyped
<1>. QED
  BY <1>1, <1>9, <1>10, <1>11, <1>12, <1>13 DEF IInv, ParseInv

LEMMA StrayHeaderIInv == ASSUME IInv, StrayHeader PROVE IInv'
<1>1. /\ ParseInv /\ TextTyped /\ Position /\ Additions /\ ToolReports /\ Flush
      /\ pc = "parse" /\ pc' = "parse" /\ git.file # NoFile /\ git.at < Size
      /\ UNCHANGED <<reported, layers>> /\ emitted' = FALSE /\ toolMethod' = None
      /\ added' = added \cup {<<git.file, git.at + 1>>}
      /\ misread' = misread \cup {<<git.file, git.at + 1>>}
      /\ shifted' \in {shifted, shifted \cup {git.file}}
  BY DEF IInv, ParseInv, StrayHeader, Writing, layers
<1>2. git.file \in File /\ git.at \in Nat /\ Size = Len(New[git.file]) /\ Size \in Nat
      /\ git \in GitState /\ git.file \in Listed /\ New[git.file] \in Seq(Line)
  BY <1>1, InFile
<1>3. git' \in GitState /\ git'.file = git.file /\ git'.at = git.at + 1 /\ git'.stray = TRUE
      /\ git'.marked = git.marked /\ git'.listed = git.listed /\ git'.last = "added"
  <2>1. git' = [git EXCEPT !.at = @ + 1, !.last = "added", !.changed = TRUE, !.stray = TRUE]
    BY DEF StrayHeader
  <2>2. git.at + 1 \in Nat
    BY <1>2
  <2>. QED
    BY <1>2, <2>1, <2>2 DEF GitState
<1>4. AtLine.name \in Stray
  <2>1. AtLine = New[git.file][git.at + 1] /\ AtLine.kind = "plus"
    BY DEF AtLine, StrayHeader
  <2>. QED
    BY <1>1, <1>2, <2>1, StrayName
<1>5. scan' \in ScanState /\ scan'.file = AtLine.name /\ scan'.line = 0
  <2>1. scan' = [file |-> AtLine.name, line |-> 0, ctx |-> <<>>, class |-> FALSE,
                 method |-> None]
    BY DEF StrayHeader, Nowhere
  <2>2. <<>> \in Seq(Name) /\ None \in Name /\ AtLine.name \in Path
    BY <1>4, ConstantTypes DEF Path
  <2>. QED
    BY <2>1, <2>2 DEF ScanState
<1>6. Listed' = Listed /\ <<git.file, git.at + 1>> \notin added /\ misread \subseteq added
  BY <1>1, <1>2, <1>3 DEF Listed, Additions, TextTyped
<1>7. block' = NoBlock /\ hunks' \in Seq(Block) /\ Len(hunks) <= Len(hunks')
  BY <1>1, FlushAppends
<1>8. TextTyped'
  <2>1. misread' \subseteq added' /\ added' \subseteq File \X Nat /\ shifted' \subseteq File
    BY <1>1, <1>2 DEF TextTyped
  <2>2. emitted' \in BOOLEAN /\ toolMethod' \in Name
    BY <1>1, ConstantTypes
  <2>. QED
    BY <1>3, <1>5, <1>7, <2>1, <2>2 DEF TextTyped
<1>9. Position' /\ BlockInv'
  BY <1>1, <1>2, <1>3, <1>4, <1>5, <1>6, <1>7 DEF Position, BlockInv
<1>10. Additions'
  <2>1. \A x \in added' : x[1] \in Listed' /\ x[2] \in 1..Len(New[x[1]])
        /\ (x[1] = git'.file => x[2] <= git'.at)
    BY <1>1, <1>2, <1>3, <1>6 DEF Additions
  <2>2. added' \ misread' = added \ misread
    BY <1>1, <1>6
  <2>3. \A k \in DOMAIN hunks' :
           hunks'[k].file = git'.file /\ git'.file \notin shifted' => hunks'[k].end <= git'.at
    <3>. SUFFICES ASSUME NEW k \in DOMAIN hunks', hunks'[k].file = git.file,
                         git.file \notin shifted
                  PROVE  hunks'[k].end <= git.at + 1
      BY <1>1, <1>3
    <3>1. hunks'[k] \in Block /\ hunks'[k].end <= git.at
      BY <1>1, <1>7, FlushKeeps
    <3>. QED
      BY <1>2, <3>1 DEF Block
  <2>. QED
    BY <1>1, <1>3, <1>6, <1>7, <2>1, <2>2, <2>3, FlushKeeps DEF Additions
<1>11. ToolReports'
  <2>1. added' \ misread' = added \ misread
    BY <1>1, <1>6
  <2>. QED
    BY <1>1, <2>1 DEF ToolReports
<1>12. LayersInv'
  BY <1>1, <1>7, LayersWait
<1>. QED
  BY <1>1, <1>8, <1>9, <1>10, <1>11, <1>12 DEF IInv, ParseInv

-----------------------------------------------------------------------------
(* The layers.                                                             *)

\* A step of the layers leaves the hunks as they are.
LEMMA TextKept ==
  ASSUME IInv, pc # "parse", pc' # "parse", UNCHANGED text
  PROVE  ParseInv' /\ UNCHANGED hunks /\ hunks \in Seq(Block)
<1>1. UNCHANGED <<git, added, misread, shifted, scan, block, hunks, emitted, toolMethod, reported>>
  BY DEF text
<1>2. TextTyped /\ Position /\ BlockInv /\ Additions /\ git.file = NoFile
      /\ block = NoBlock /\ reported = {}
  BY DEF IInv, ParseInv
<1>3. TextTyped' /\ Position' /\ BlockInv'
  BY <1>1, <1>2 DEF TextTyped, Position, BlockInv
<1>4. Additions'
  <2>1. \A f, n : Found(f, n)' <=> Found(f, n)
    BY <1>1 DEF Found
  <2>2. Listed' = Listed
    BY <1>1 DEF Listed
  <2>. QED
    BY <1>1, <1>2, <2>1, <2>2 DEF Additions
<1>. QED
  BY <1>1, <1>2, <1>3, <1>4 DEF ParseInv, TextTyped

LEMMA HierarchyType ==
  ASSUME NEW lines \in Seq(Line), NEW start \in Nat
  PROVE  Hierarchy(lines, start) \in Seq(Name)
<1>. DEFINE n == IF start > Len(lines) THEN Len(lines) ELSE start
            Defs == {i \in 1..n : i + MaxScan >= n /\ lines[i].kind \in Definition}
            Tops == {i \in Defs : lines[i].indent = 0}
            at == IF Tops = {} THEN Largest(Defs) ELSE Largest(Tops)
<1>1. n \in Nat /\ n <= Len(lines)
  OBVIOUS
<1>2. Defs # {} => at \in 1..Len(lines)
  <2>. SUFFICES ASSUME Defs # {} PROVE at \in 1..Len(lines)
    OBVIOUS
  <2>. HIDE DEF n
  <2>1. Defs \in SUBSET (1..n) /\ Tops \in SUBSET (1..n)
    OBVIOUS
  <2>2. CASE Tops = {}
    <3>1. Largest(Defs) \in Defs
      BY <1>1, LargestIn
    <3>. QED
      BY <1>1, <2>2, <3>1
  <2>3. CASE Tops # {}
    <3>1. Largest(Tops) \in Tops
      BY <1>1, <2>3, LargestIn
    <3>. QED
      BY <1>1, <3>1
  <2>. QED
    BY <2>2, <2>3
<1>3. Hierarchy(lines, start) = <<>> \/ (Defs # {} /\ Hierarchy(lines, start) = <<lines[at].name>>)
  BY DEF Hierarchy
<1>. HIDE DEF Defs, at
<1>4. \A x \in 1..Len(lines) : <<lines[x].name>> \in Seq(Name)
  <2>1. \A x \in 1..Len(lines) : lines[x] \in Line
    OBVIOUS
  <2>2. \A x \in 1..Len(lines) : lines[x].name \in Name
    BY <2>1 DEF Line
  <2>. QED
    BY <2>2
<1>5. <<>> \in Seq(Name)
  OBVIOUS
<1>. QED
  BY <1>2, <1>3, <1>4, <1>5

\* The name the hierarchy gives a line of a module-level function whose
\* definition is within reach.
LEMMA HierarchyIsEnclosing ==
  ASSUME NEW lines \in Seq(Line), NEW start \in Nat, start <= Len(lines),
         NEW i \in 1..start, start <= i + MaxScan,
         lines[i].kind \in Definition, lines[i].indent = 0,
         \A j \in (i + 1)..start : lines[j].indent > 0 \/ lines[j].kind = "blank"
  PROVE  Hierarchy(lines, start) \in {<<>>, <<lines[i].name>>}
<1>. DEFINE Defs == {d \in 1..start : d + MaxScan >= start /\ lines[d].kind \in Definition}
            Tops == {d \in Defs : lines[d].indent = 0}
<1>1. i \in Tops /\ Tops \in SUBSET (1..start)
  OBVIOUS
<1>2. Largest(Tops) \in Tops /\ i <= Largest(Tops)
  <2>. HIDE DEF Tops
  <2>. QED
    BY <1>1, LargestIn
<1>3. Largest(Tops) = i
  <2>. DEFINE top == Largest(Tops)
  <2>. SUFFICES ASSUME i < top PROVE FALSE
    BY <1>2
  <2>1. top \in (i + 1)..start /\ lines[top].indent = 0 /\ lines[top].kind \in Definition
    BY <1>2
  <2>. QED
    BY <2>1 DEF Definition
<1>4. \/ Hierarchy(lines, start) = <<>>
      \/ Hierarchy(lines, start) = <<lines[IF Tops = {} THEN Largest(Defs) ELSE Largest(Tops)].name>>
  <2>1. (IF start > Len(lines) THEN Len(lines) ELSE start) = start
    OBVIOUS
  <2>. QED
    BY <2>1 DEF Hierarchy
<1>. QED
  BY <1>3, <1>4

LEMMA EntryType ==
  ASSUME IInv, NEW h \in Block
  PROVE  EntryOf(h) \in Entry
<1>1. h.file \in Path /\ h.start \in Nat /\ h.ctx \in Seq(Name) /\ h.var \in Name
  BY DEF Block
<1>2. OnDisk(h.file) \in Seq(Line)
  BY <1>1, ConstantTypes DEF OnDisk
<1>3. Attributed(h) \in Seq(Name)
  BY <1>1, <1>2, HierarchyType DEF Attributed
<1>4. <<h.var>> \in Seq(Name) /\ <<>> \in Seq(Name)
  BY <1>1
<1>. QED
  BY <1>1, <1>3 DEF EntryOf, Entry, VarChanged, FileChanged, Func

LEMMA EntryKept ==
  ASSUME UNCHANGED <<hunks, disk>>
  PROVE  \A k \in DOMAIN hunks : EntryOf(hunks[k])' = EntryOf(hunks[k])
  BY DEF EntryOf, Attributed, OnDisk

LEMMA MatchedGrows ==
  ASSUME UNCHANGED hunks, symbols \subseteq symbols'
  PROVE  \A k \in DOMAIN hunks : Matched(hunks[k]) => Matched(hunks[k])'
  BY DEF Matched

LEMMA NameHunkIInv == ASSUME IInv, NameHunk PROVE IInv'
<1>1. /\ pc = "name" /\ pc' = "name" /\ next <= Len(hunks) /\ next' = next + 1
      /\ UNCHANGED <<text, pc, disk, rows, symbols, uncovered, sent, result>>
      /\ keys' = keys \cup {EntryOf(hunks[next])}
      /\ hints' = IF hunks[next].var = None /\ EntryOf(hunks[next]).kind = "func"
                  THEN HintOf(EntryOf(hunks[next]), hunks[next].start) ELSE hints
  BY DEF NameHunk
<1>2. ParseInv' /\ UNCHANGED hunks /\ hunks \in Seq(Block)
  BY <1>1, TextKept
<1>3. LayersTyped /\ NamedInv /\ next \in DOMAIN hunks /\ next \in Nat
  BY <1>1 DEF IInv, LayersInv, LayersTyped
<1>4. EntryOf(hunks[next]) \in Entry
  BY <1>2, <1>3, EntryType
<1>5. LayersTyped'
  <2>1. DOMAIN hints' \subseteq {e \in keys' : e.kind = "func"}
    <3>. DEFINE e == EntryOf(hunks[next])
    <3>1. CASE hunks[next].var = None /\ e.kind = "func"
      <4>1. DOMAIN hints' \subseteq DOMAIN hints \cup {e}
        BY <1>1 DEF HintOf
      <4>. QED
        BY <1>1, <1>3, <4>1 DEF LayersTyped
    <3>2. CASE ~(hunks[next].var = None /\ e.kind = "func")
      BY <1>1, <1>3, <3>2 DEF LayersTyped
    <3>. QED
      BY <3>1, <3>2
  <2>2. next' \in 1..(Len(hunks') + 1)
    BY <1>1, <1>2, <1>3
  <2>. QED
    BY <1>1, <1>2, <1>3, <1>4, <2>1 DEF LayersTyped
<1>6. NamedInv'
  <2>1. \A k \in DOMAIN hunks : k < next + 1 => k < next \/ k = next
    BY <1>2, <1>3
  <2>. QED
    BY <1>1, <1>2, <1>3, EntryKept DEF NamedInv
<1>7. LookupInv' /\ ResultInv'
  BY <1>1 DEF LookupInv, ResultInv
<1>. QED
  BY <1>2, <1>5, <1>6, <1>7 DEF IInv, LayersInv

LEMMA AllNamedIInv == ASSUME IInv, NEW b \in BOOLEAN, AllNamed(b) PROVE IInv'
<1>1. /\ pc = "name" /\ pc' \in {"index", "ask"} /\ next > Len(hunks) /\ next' = 1
      /\ uncovered' \in {{}, DOMAIN hunks}
         /\ (pc' = "ask" => uncovered' = DOMAIN hunks)
      /\ UNCHANGED <<text, disk, rows, keys, hints, symbols, sent, result>>
  BY DEF AllNamed
<1>2. ParseInv' /\ UNCHANGED hunks /\ hunks \in Seq(Block)
  BY <1>1, TextKept
<1>3. LayersTyped /\ NamedInv /\ next \in Nat
  BY DEF IInv, LayersInv, LayersTyped
<1>4. LayersTyped'
  BY <1>1, <1>2, <1>3 DEF LayersTyped
<1>5. NamedInv'
  <2>1. \A k \in DOMAIN hunks : k < next
    BY <1>1, <1>3
  <2>. QED
    BY <1>1, <1>2, <1>3, EntryKept DEF NamedInv
<1>6. LookupInv'
  <2>1. \A k \in DOMAIN hunks : ~(k < 1)
    BY <1>2
  <2>. QED
    BY <1>1, <1>2 DEF LookupInv
<1>7. ResultInv'
  BY <1>1 DEF ResultInv
<1>. QED
  BY <1>2, <1>4, <1>5, <1>6, <1>7 DEF IInv, LayersInv

LEMMA MatchHunkIInv == ASSUME IInv, MatchHunk PROVE IInv'
<1>. DEFINE found == Overlapping(hunks[next])
<1>1. /\ pc = "index" /\ pc' = "index" /\ next <= Len(hunks) /\ next' = next + 1
      /\ UNCHANGED <<text, pc, disk, rows, keys, hints, sent, result>>
      /\ symbols' = symbols \cup {Func(r.file, <<r.name>>) : r \in found}
      /\ uncovered' = IF found = {} THEN uncovered \cup {next} ELSE uncovered
  BY DEF MatchHunk
<1>2. ParseInv' /\ UNCHANGED hunks /\ hunks \in Seq(Block)
  BY <1>1, TextKept
<1>3. LayersTyped /\ NamedInv /\ LookupInv /\ next \in DOMAIN hunks
      /\ next \in Nat
  BY <1>1 DEF IInv, LayersInv, LayersTyped
<1>4. \A r \in found : /\ r \in UNION Indexes /\ r.file = hunks[next].file
                       /\ r.start <= hunks[next].end /\ r.end >= hunks[next].start
                       /\ r.file \in File /\ r.name \in Name
  <2>1. \A r \in UNION Indexes : r.file \in File /\ r.name \in Name
    BY ExtractionAssumption
  <2>. QED
    BY <1>3, <2>1 DEF Overlapping, LayersTyped
<1>. HIDE DEF found
<1>5. LayersTyped'
  <2>1. \A r \in found : Func(r.file, <<r.name>>) \in Entry
    BY <1>4 DEF Func, Entry, Path
  <2>2. next' \in 1..(Len(hunks') + 1)
    BY <1>1, <1>2, <1>3
  <2>. QED
    BY <1>1, <1>2, <1>3, <2>1, <2>2 DEF LayersTyped
<1>6. NamedInv'
  BY <1>1, <1>2, <1>3, EntryKept DEF NamedInv
<1>7. LookupInv'
  <2>1. \A k \in DOMAIN hunks : k < next + 1 => k < next \/ k = next
    BY <1>2, <1>3
  <2>2. ASSUME NEW k \in DOMAIN hunks, k = next
        PROVE  k \in uncovered' \/ Matched(hunks[k])'
    <3>1. CASE found = {}
      BY <1>1, <2>2, <3>1
    <3>2. CASE found # {}
      <4>1. PICK r \in found : TRUE
        BY <3>2
      <4>2. Func(r.file, <<r.name>>) \in symbols'
        BY <1>1
      <4>. QED
        BY <1>2, <1>4, <2>2, <4>2 DEF Matched
    <3>. QED
      BY <3>1, <3>2
  <2>. QED
    BY <1>1, <1>2, <1>3, <2>2, MatchedGrows DEF LookupInv
<1>8. ResultInv'
  BY <1>1 DEF ResultInv
<1>. QED
  BY <1>2, <1>5, <1>6, <1>7, <1>8 DEF IInv, LayersInv

LEMMA QueryFailsIInv == ASSUME IInv, QueryFails PROVE IInv'
<1>1. /\ pc = "index" /\ pc' = "ask" /\ symbols' = {} /\ uncovered' = DOMAIN hunks
      /\ UNCHANGED <<text, disk, rows, next, keys, hints, sent, result>>
  BY DEF QueryFails
<1>2. ParseInv' /\ UNCHANGED hunks /\ hunks \in Seq(Block)
  BY <1>1, TextKept
<1>3. LayersTyped /\ NamedInv
  BY DEF IInv, LayersInv
<1>4. LayersTyped'
  BY <1>1, <1>2, <1>3 DEF LayersTyped
<1>5. NamedInv' /\ LookupInv' /\ ResultInv'
  BY <1>1, <1>2, <1>3, EntryKept DEF NamedInv, LookupInv, ResultInv
<1>. QED
  BY <1>2, <1>4, <1>5 DEF IInv, LayersInv

LEMMA ReindexedIInv == ASSUME IInv, NEW R \in Indexes, Reindexed(R) PROVE IInv'
<1>1. /\ pc = "index" /\ pc' = "index" /\ rows' = R
      /\ UNCHANGED <<text, pc, disk, next, keys, hints, symbols, uncovered, sent, result>>
  BY DEF Reindexed
<1>2. ParseInv' /\ UNCHANGED hunks /\ hunks \in Seq(Block)
  BY <1>1, TextKept
<1>3. LayersTyped /\ NamedInv /\ LookupInv
  BY DEF IInv, LayersInv
<1>4. LayersTyped'
  BY <1>1, <1>2, <1>3 DEF LayersTyped
<1>5. NamedInv' /\ LookupInv' /\ ResultInv'
  BY <1>1, <1>2, <1>3, EntryKept, MatchedGrows DEF NamedInv, LookupInv, ResultInv
<1>. QED
  BY <1>2, <1>4, <1>5 DEF IInv, LayersInv

LEMMA AllMatchedIInv == ASSUME IInv, AllMatched PROVE IInv'
<1>1. /\ pc = "index" /\ pc' \in {"done", "ask"} /\ next > Len(hunks)
      /\ pc' = "done" => uncovered = {}
         /\ result' = {e \in symbols \cup keys : ~IsTest(e)}
      /\ pc' = "ask" => result' = result
      /\ UNCHANGED <<text, disk, rows, next, keys, hints, symbols, uncovered, sent>>
  BY DEF AllMatched
<1>2. ParseInv' /\ UNCHANGED hunks /\ hunks \in Seq(Block)
  BY <1>1, TextKept
<1>3. LayersTyped /\ NamedInv /\ LookupInv
  BY DEF IInv, LayersInv
<1>4. LayersTyped'
  BY <1>1, <1>2, <1>3 DEF LayersTyped
<1>5. NamedInv' /\ ResultInv'
  BY <1>1, <1>2, <1>3, EntryKept DEF NamedInv, ResultInv
<1>6. LookupInv'
  <2>1. \A k \in DOMAIN hunks : k < next
    BY <1>1, <1>3 DEF LayersTyped
  <2>. QED
    BY <1>1, <1>2, <1>3, <2>1, MatchedGrows DEF LookupInv
<1>. QED
  BY <1>2, <1>4, <1>5, <1>6 DEF IInv, LayersInv

LEMMA AskIInv == ASSUME IInv, Ask PROVE IInv'
<1>1. /\ pc = "ask" /\ pc' = "asked" /\ sent' = Shown
      /\ UNCHANGED <<text, disk, rows, next, keys, hints, symbols, uncovered, result>>
  BY DEF Ask
<1>2. ParseInv' /\ UNCHANGED hunks /\ hunks \in Seq(Block)
  BY <1>1, TextKept
<1>3. LayersTyped /\ NamedInv /\ LookupInv /\ Additions /\ git.listed \subseteq DOMAIN Order
  BY DEF IInv, LayersInv, ParseInv, TextTyped, GitState
<1>4. Listed \subseteq SetOf(Order)
  BY <1>3 DEF Listed, SetOf
<1>5. sent' \subseteq SetOf(Order) \cup Stray /\ \A k \in uncovered : hunks[k].file \in sent'
  <2>1. \A k \in uncovered : hunks[k].file \in Listed \cup Stray
    BY <1>3 DEF Additions, LayersTyped
  <2>. QED
    BY <1>1, <1>4, <2>1 DEF Shown, Listed
<1>6. LayersTyped'
  BY <1>1, <1>2, <1>3, <1>5 DEF LayersTyped
<1>7. NamedInv' /\ ResultInv'
  BY <1>1, <1>2, <1>3, EntryKept DEF NamedInv, ResultInv
<1>8. LookupInv'
  BY <1>1, <1>2, <1>3, <1>5, MatchedGrows DEF LookupInv
<1>. QED
  BY <1>2, <1>6, <1>7, <1>8 DEF IInv, LayersInv

LEMMA AnsweredIInv ==
  ASSUME IInv, NEW g \in SUBSET Guesses, Answered(g) PROVE IInv'
<1>1. /\ pc = "asked" /\ pc' = "done"
      /\ result' = symbols \cup keys \cup {e \in g : ~IsTest(e)}
      /\ UNCHANGED <<text, disk, rows, next, keys, hints, symbols, uncovered, sent>>
  BY DEF Answered
<1>2. ParseInv' /\ UNCHANGED hunks /\ hunks \in Seq(Block)
  BY <1>1, TextKept
<1>3. LayersTyped /\ NamedInv /\ LookupInv
  BY DEF IInv, LayersInv
<1>4. LayersTyped'
  BY <1>1, <1>2, <1>3 DEF LayersTyped
<1>5. NamedInv' /\ ResultInv' /\ LookupInv'
  BY <1>1, <1>2, <1>3, EntryKept, MatchedGrows DEF NamedInv, ResultInv, LookupInv
<1>. QED
  BY <1>2, <1>4, <1>5 DEF IInv, LayersInv

LEMMA AskFailsIInv == ASSUME IInv, AskFails PROVE IInv'
<1>1. /\ pc = "asked" /\ pc' = "failed"
      /\ UNCHANGED <<text, disk, rows, next, keys, hints, symbols, uncovered, sent, result>>
  BY DEF AskFails
<1>2. ParseInv' /\ UNCHANGED hunks /\ hunks \in Seq(Block)
  BY <1>1, TextKept
<1>3. LayersTyped /\ NamedInv
  BY DEF IInv, LayersInv
<1>4. LayersTyped'
  BY <1>1, <1>2, <1>3 DEF LayersTyped
<1>5. NamedInv' /\ ResultInv' /\ LookupInv'
  BY <1>1, <1>2, <1>3, EntryKept DEF NamedInv, ResultInv, LookupInv
<1>. QED
  BY <1>2, <1>4, <1>5 DEF IInv, LayersInv

LEMMA StutterIInv == ASSUME IInv, UNCHANGED vars PROVE IInv'
<1>1. UNCHANGED <<git, added, misread, shifted, scan, block, hunks, emitted, toolMethod, reported>>
      /\ UNCHANGED <<pc, disk, rows, next, keys, hints, symbols, uncovered, sent, result>>
  BY DEF vars, text, layers
<1>2. ParseInv'
  <2>1. \A f, n : Found(f, n)' <=> Found(f, n)
    BY <1>1 DEF Found
  <2>2. Additions'
    BY <1>1, <2>1 DEF IInv, ParseInv, Additions, Listed
  <2>3. TextTyped' /\ Position' /\ BlockInv'
    BY <1>1 DEF IInv, ParseInv, TextTyped, Position, BlockInv, Listed
  <2>. QED
    BY <1>1, <2>2, <2>3 DEF IInv, ParseInv, ToolReports
<1>3. LayersInv'
  <2>1. LayersTyped'
    BY <1>1 DEF IInv, LayersInv, LayersTyped
  <2>2. NamedInv' /\ LookupInv' /\ ResultInv'
    BY <1>1, EntryKept, MatchedGrows
       DEF IInv, LayersInv, NamedInv, LookupInv, ResultInv
  <2>. QED
    BY <2>1, <2>2 DEF LayersInv
<1>. QED
  BY <1>2, <1>3 DEF IInv

LEMMA NextIInv == ASSUME IInv, [Next]_vars PROVE IInv'
<1>1. CASE Parse
  <2>1. ASSUME NEW k \in DOMAIN Order, Header(k) PROVE IInv'
    BY <2>1, HeaderIInv
  <2>2. ASSUME NEW n \in 1..(IF git.file = NoFile THEN 0 ELSE Size),
               NEW h \in Headings(git.file, n), Section(n, h)
        PROVE  IInv'
    BY <2>2, SectionIInv
  <2>3. ASSUME NEW d \in {"off", "missing", "old", "new"}, EndOfDiff(d)
        PROVE  IInv'
    BY <2>3, ScanEndsIInv DEF EndOfDiff
  <2>4. ASSUME NEW d \in {"off", "missing", "old", "new"}, NEW more \in SUBSET DOMAIN Order,
               OverlongLine(d, more)
        PROVE  IInv'
    BY <2>4, ScanEndsIInv DEF OverlongLine
  <2>. QED
    BY <1>1, <2>1, <2>2, <2>3, <2>4, AddedLineIInv, StrayHeaderIInv,
       RemovedLineIInv, ContextLineIInv, MarkIInv
       DEF Parse
<1>2. CASE NameHunk \/ \E b \in BOOLEAN : AllNamed(b)
  BY <1>2, NameHunkIInv, AllNamedIInv
<1>3. CASE MatchHunk \/ QueryFails \/ (\E R \in Indexes : Reindexed(R)) \/ AllMatched
  BY <1>3, MatchHunkIInv, QueryFailsIInv, ReindexedIInv, AllMatchedIInv
<1>4. CASE Ask \/ (\E g \in SUBSET Guesses : Answered(g)) \/ AskFails
  BY <1>4, AskIInv, AnsweredIInv, AskFailsIInv
<1>5. CASE Finished \/ UNCHANGED vars
  BY <1>5, StutterIInv DEF Finished
<1>. QED
  BY <1>1, <1>2, <1>3, <1>4, <1>5 DEF Next

-----------------------------------------------------------------------------
(* The theorems.                                                           *)

\* Over every diff git can write of any files, every index and every answer,
\* the readers' position, the block under way, the hunks, the keys and what is
\* looked up keep to each other as IInv says.
THEOREM Inductive == Spec => []IInv
<1>1. IInv /\ [Next]_vars => IInv'
  BY NextIInv
<1>. QED
  BY <1>1, InitIInv, PTL DEF Spec

\* Every variable of the extraction has its type, hunks and keys name files of
\* the tree, and hints are for named functions (extractChangedFunctions).
THEOREM TypeCorrect == Spec => []TypeOK
<1>1. IInv => TypeOK
  BY DEF IInv, ParseInv, LayersInv, TextTyped, Position, LayersTyped, TypeOK,
         GitState, ScanState
<1>. QED
  BY <1>1, Inductive, PTL

\* Up to a line over 64 KB, ParseDiffHunks and parseDiff find the added lines of
\* every diff at their numbers in the new file, but for what follows a no-newline
\* mark and for what an added line that begins "++ " takes away with it.
THEOREM ReadExactly == Spec => []ReadersExact
<1>1. IInv => ReadersExact
  <2>. SUFFICES ASSUME IInv PROVE ReadersExact
    OBVIOUS
  <2>1. CASE pc = "parse"
    BY <2>1 DEF IInv, ParseInv, ReadersExact
  <2>2. CASE pc # "parse"
    <3>1. Additions /\ block = NoBlock /\ hunks \in Seq(Block)
      BY <2>2 DEF IInv, ParseInv, TextTyped
    <3>. SUFFICES ASSUME NEW f \in File, f \notin shifted
                  PROVE  LET mine == {k \in DOMAIN hunks : hunks[k].file = f}
                         IN /\ UNION {LinesOf(hunks[k]) : k \in mine}
                                 = {n \in 1..Len(New[f]) : <<f, n>> \in added \ misread}
                            /\ \A j, k \in mine : j < k =>
                               hunks[j].end < hunks[k].start
      BY <2>2 DEF ReadersExact, HunksAreAdditions
    <3>. DEFINE mine == {k \in DOMAIN hunks : hunks[k].file = f}
    <3>2. \A j, k \in mine : j < k => hunks[j].end < hunks[k].start
      BY <3>1 DEF Additions
    <3>3. \A n \in Nat : Found(f, n) <=> <<f, n>> \in added \ misread
      BY <3>1 DEF Additions
    <3>4. \A n \in Nat : Found(f, n) <=> \E k \in mine : n \in LinesOf(hunks[k])
      BY <3>1 DEF Found
    <3>5. \A k \in DOMAIN hunks : LinesOf(hunks[k]) \subseteq Nat
      <4>1. \A k \in DOMAIN hunks : hunks[k] \in Block
        BY <3>1
      <4>. QED
        BY <4>1 DEF LinesOf, Block
    <3>6. \A n \in Nat : <<f, n>> \in added => n \in 1..Len(New[f])
      BY <3>1 DEF Additions
    <3>7. Len(New[f]) \in Nat
      OBVIOUS
    <3>8. UNION {LinesOf(hunks[k]) : k \in mine} 
            = {n \in 1..Len(New[f]) : <<f, n>> \in added \ misread}
      BY <3>3, <3>4, <3>5, <3>6
    <3>. QED
      BY <3>2, <3>8
  <2>. QED
    BY <2>1, <2>2
<1>. QED
  BY <1>1, Inductive, PTL

\* However the rows of the index change between two queries, and whichever
\* query fails, a hunk has a symbol or its file is shown to the model.
THEOREM LookedUp == Spec => []EveryHunkLookedUp
<1>1. IInv => EveryHunkLookedUp
  BY DEF IInv, LayersInv, LookupInv, Matched, EveryHunkLookedUp
<1>. QED
  BY <1>1, Inductive, PTL

\* A change inside a module-level function is traced from that function or
\* searched for by its file, in every tree and with every answer.
THEOREM EnclosingNamed == Spec => []EnclosingAsked
<1>1. IInv => EnclosingAsked
  <2>. SUFFICES ASSUME IInv, pc = "done", disk = "new", NEW k \in DOMAIN hunks,
                       hunks[k].file \in File \ shifted, hunks[k].var = None,
                       NEW i \in Enclosing(hunks[k].file, hunks[k].start),
                       ~(i + MaxScan < hunks[k].start)
                PROVE  LET h == hunks[k]
                           here == {Func(h.file, <<New[h.file][i].name>>), FileChanged(h.file)}
                       IN here \cap result # {} \/ \E e \in here : IsTest(e)
    BY DEF EnclosingAsked
  <2>. DEFINE h == hunks[k]
              lines == New[h.file]
  <2>1. h \in Block /\ Additions
    BY DEF IInv, ParseInv, TextTyped
  <2>2. h.file \in File /\ h.start \in Nat \ {0} /\ h.end \in Nat
        /\ lines \in Seq(Line)
    BY <2>1, ConstantTypes DEF Block
  <2>3. h.start <= Len(lines)
    <3>1. Found(h.file, h.start)
      BY <2>1, <2>2 DEF Found, LinesOf, Additions
    <3>2. <<h.file, h.start>> \in added
      BY <2>1, <2>2, <3>1 DEF Additions
    <3>. QED
      BY <2>1, <3>2 DEF Additions
  <2>. HIDE DEF h
  <2>4. /\ i \in 1..h.start /\ lines[i].kind \in Definition /\ lines[i].indent = 0
        /\ \A j \in (i + 1)..h.start : lines[j].indent > 0 \/ lines[j].kind = "blank"
    BY DEF Enclosing, h
  <2>5. Hierarchy(lines, h.start) \in {<<>>, <<lines[i].name>>}
    <3>1. h.start <= i + MaxScan
      BY <2>2, <2>4, ConstantTypes DEF h
    <3>. QED
      BY <2>2, <2>3, <2>4, <3>1, HierarchyIsEnclosing
  <2>6. Attributed(h) = Hierarchy(lines, h.start)
    BY <2>2 DEF Attributed, OnDisk
  <2>7. EntryOf(h) \in {Func(h.file, <<lines[i].name>>), FileChanged(h.file)}
    BY <2>5, <2>6 DEF EntryOf, h
  <2>8. EntryOf(h) \in keys
    BY DEF IInv, LayersInv, NamedInv, h
  <2>9. EntryOf(h) \in result \/ IsTest(EntryOf(h))
    BY <2>8 DEF IInv, LayersInv, ResultInv
  <2>. QED
    BY <2>7, <2>9 DEF h
<1>. QED
  BY <1>1, Inductive, PTL
===============================================================================
