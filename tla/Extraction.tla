------------------------------ MODULE Extraction ------------------------------
(***************************************************************************)
(* From a unified diff to the changed functions: git writes the diff of a  *)
(* few files, two parsers (ParseDiffHunks and the gitdiff tool's parseDiff) *)
(* read it line by line, extractChangedFunctions names each hunk from the  *)
(* checked-out file (Layer A+), looks it up in the symbol index (Layer B)  *)
(* and asks the model about what the index does not know.                  *)
(*                                                                         *)
(* A function context is a path of names: <<f>>, <<class, method>>, or <<>>. *)
(***************************************************************************)
EXTENDS Naturals, Sequences, FiniteSets

CONSTANTS
    New,          \* file -> its lines after the change
    Old,          \* file -> other lines a read may give: an older tree's, or
                  \* those before a line over 64 KB
    Order,        \* paths in the order of a diff; one not in New is deleted
    MaxSections,  \* @@ sections of the diff
    MaxScan,      \* lines ResolveFuncHierarchy looks back
    Indexes,      \* possible contents of symbol_nodes, as ranges of functions
    TestFile,     \* files isTestFunction knows by the pattern of their name
    TestName,     \* files whose name begins as a test function's does
    TestFunc,     \* function and class names it knows
    Guesses       \* entries the model may answer

VARIABLES
    git,       \* the diff under way: what git knows of the line it writes
    added,     \* history: <<file, line>> of every line the diff adds
    misread,   \* history: those that begin "++ ", and those of the file after one
    shifted,   \* history: files with lines added after a no-newline mark
    scan,      \* the parsers' view of the position in the diff
    block,     \* contiguous block of added lines under way
    hunks,     \* []DiffHunk
    emitted, toolMethod, reported,  \* parseDiff: []ChangedFunction
    pc, disk, rows,                 \* disk: the tree the files are read from
    next,      \* hunk under way
    keys,      \* hunkContextFunctions
    hints,     \* hunkLineHints
    symbols, uncovered,
    sent,      \* files of the diff the model is shown
    result

text == <<git, added, misread, shifted, scan, block, hunks, emitted, toolMethod, reported>>
layers == <<pc, disk, rows, next, keys, hints, symbols, uncovered, sent, result>>
vars == <<text, layers>>

File == DOMAIN New
NoFile == "/dev/null"
None == ""
NoBlock == [file |-> NoFile, start |-> 0, end |-> 0, ctx |-> <<>>, var |-> None]
SetOf(s) == {s[k] : k \in DOMAIN s}
Largest(S) == CHOOSE n \in S : \A m \in S : m <= n

\* A line has a kind, a name and an indentation.  "call" is a statement such
\* as "return f(x)", which extractFuncName takes for a declaration of f; "async"
\* a definition it does not know (async def, export function, pub fn), though
\* the patterns for headings and files do; "plus" a line that begins "++ ".
Kinds == {"def", "async", "class", "bareclass", "call", "stmt", "var", "blank", "plus"}
Definition == {"def", "async"}
Name == STRING \cup {None}
Line == [kind : Kinds, name : Name, indent : Nat]

\* What the readers take for a path: an added line that begins "++ " is
\* "+++ <rest>" in the diff.
Stray == {New[x[1]][x[2]].name : x \in {y \in File \X UNION {DOMAIN New[f] : f \in File} :
                                          y[2] \in DOMAIN New[y[1]]
                                          /\ New[y[1]][y[2]].kind = "plus"}}
Path == File \cup Stray

ASSUME ExtractionAssumption ==
    /\ New \in [File -> Seq(Line)] /\ Old \in [File -> Seq(Line)] /\ NoFile \notin File
    /\ Order \in Seq(STRING) /\ \A j, k \in DOMAIN Order : Order[j] = Order[k] => j = k
    /\ File \subseteq SetOf(Order) /\ {MaxSections, MaxScan} \subseteq Nat \ {0}
    /\ \A R \in Indexes : R \subseteq [file : File, start : Nat, end : Nat, name : Name]
    /\ TestFile \subseteq File /\ TestName \subseteq File
    /\ Stray \cap (File \cup {NoFile}) = {}

Func(f, ctx) == [kind |-> "func", file |-> f, name |-> ctx]
FileChanged(f) == [kind |-> "file", file |-> f, name |-> <<>>]
VarChanged(f, v) == [kind |-> "var", file |-> f, name |-> <<v>>]

NoDiff == [file |-> NoFile, at |-> 0, last |-> "start", changed |-> TRUE,
           marked |-> FALSE, cut |-> FALSE, stray |-> FALSE, listed |-> {}, sections |-> 0]
Nowhere == [file |-> NoFile, line |-> 0, ctx |-> <<>>, class |-> FALSE, method |-> None]

Init ==
    /\ git = NoDiff /\ scan = Nowhere
    /\ added = {} /\ misread = {} /\ shifted = {}
    /\ block = NoBlock /\ hunks = <<>>
    /\ emitted = FALSE /\ toolMethod = None /\ reported = {}
    /\ pc = "parse" /\ disk = "off" /\ rows = {}
    /\ next = 1 /\ keys = {} /\ hints = <<>>
    /\ symbols = {} /\ uncovered = {} /\ sent = {} /\ result = {}

(***************************************************************************)
(* The diff, one line at a time, as git writes it: sections in the order   *)
(* of the file, new lines numbered by their place in it, and a mark after  *)
(* a last line that has no newline.                                        *)
(***************************************************************************)
Size == Len(New[git.file])
AtLine == New[git.file][git.at + 1]

Named(k) == IF Order[k] \in File THEN Order[k] ELSE NoFile

\* A file's part of the diff may end here.
Complete == git.changed /\ (git.marked => git.at = Size)

\* The block goes on after its hunk.
FlushKeepsBlock ==
    /\ hunks' = IF block = NoBlock THEN hunks ELSE Append(hunks, block)
    /\ UNCHANGED block

Flush ==
    /\ hunks' = IF block = NoBlock THEN hunks ELSE Append(hunks, block)
    /\ block' = NoBlock

\* "+++ b/<path>", or "+++ /dev/null" for a file the change deletes.
Header(k) ==
    /\ pc = "parse" /\ (git.file # NoFile => Complete)
    /\ git.sections < MaxSections
    /\ \A j \in git.listed : j < k
    /\ LET f == Named(k)
       IN /\ git' = [git EXCEPT !.file = f, !.at = 0, !.last = "header", !.changed = FALSE,
                                !.marked = FALSE, !.stray = FALSE, !.listed = @ \cup {k}]
          /\ scan' = [Nowhere EXCEPT !.file = f]
    /\ Flush
    /\ emitted' = FALSE /\ toolMethod' = None
    /\ UNCHANGED <<added, misread, shifted, reported, layers>>

\* The line git quotes after the second @@: the nearest declaration above, or
\* the nearest one that is not indented, or (0) nothing.
Headings(f, n) ==
    LET Above == {i \in 1..(n - 1) : New[f][i].kind \in Definition \cup {"class", "bareclass"}}
        Outer == {i \in Above : New[f][i].indent = 0}
    IN {0} \cup {Largest(S) : S \in {Above, Outer} \ {{}}}

\* parseHunkFuncContext: the name, of a class only when a parenthesis follows.
Context(l) == IF l.kind = "bareclass" THEN <<>> ELSE <<l.name>>
Qualified(ctx, method) == (IF ctx = <<>> THEN <<None>> ELSE ctx) \o <<method>>

\* "@@ -o,p +n,m @@ <heading>"
Section(n, h) ==
    /\ pc = "parse" /\ git.file # NoFile /\ git.sections < MaxSections
    /\ git.last = "header" \/ (Complete /\ ~git.marked)
    /\ n \in (git.at + (IF git.last = "header" THEN 1 ELSE 2))..Size
    /\ h \in Headings(git.file, n)
    /\ git' = [git EXCEPT !.at = n - 1, !.last = "section", !.changed = FALSE,
                          !.cut = FALSE, !.sections = @ + 1]
    /\ Flush
    /\ scan' = [scan EXCEPT !.line = n - 1,
                            !.ctx = IF h = 0 THEN <<>> ELSE Context(New[git.file][h]),
                            !.class = h # 0 /\ New[git.file][h].kind \in {"class", "bareclass"},
                            !.method = None]
    /\ emitted' = FALSE /\ toolMethod' = None
    /\ UNCHANGED <<added, misread, shifted, reported, layers>>

Writing == pc = "parse" /\ git.file # NoFile /\ git.last # "header"

\* What parseDiff reports for an added line: what extractFuncName takes for a
\* declaration, else the section's function, once per section.
Declares(l) == l.kind \in {"def", "class", "call"}
Change(name, type) == [file |-> scan.file, line |-> scan.line + 1, name |-> name,
                       change |-> type]
Reported(l, ctx) ==
    CASE Declares(l) -> {Change(<<l.name>>, "added")}
      [] ~Declares(l) /\ ~emitted -> {Change(c, "modified") : c \in {ctx} \ {<<>>}}
      [] OTHER -> {}

\* The context of a line: of a class, the last method seen in a context line.
Effective(method) ==
    IF scan.class /\ method # None THEN Qualified(scan.ctx, method) ELSE scan.ctx

\* "+<line>".  An unindented assignment makes the block a variable's.
AddedLine ==
    /\ Writing /\ git.at < Size /\ AtLine.kind # "plus"
    /\ LET l == AtLine
           opened == IF block # NoBlock THEN block
                     ELSE [block EXCEPT !.file = scan.file, !.start = scan.line + 1,
                                      !.ctx = Effective(scan.method)]
           grown == [opened EXCEPT !.end = scan.line + 1]
           found == Reported(l, Effective(toolMethod))
       IN /\ block' = IF l.kind = "var" /\ grown.var = None
                      THEN [grown EXCEPT !.var = l.name, !.ctx = <<>>] ELSE grown
          /\ reported' = reported \cup found
          /\ emitted' = (emitted \/ found # {})
    /\ git' = [git EXCEPT !.at = @ + 1, !.last = "added", !.changed = TRUE]
    /\ added' = added \cup {<<git.file, git.at + 1>>}
    /\ misread' = IF git.stray THEN misread \cup {<<git.file, git.at + 1>>} ELSE misread
    /\ shifted' = IF git.marked THEN shifted \cup {git.file} ELSE shifted
    /\ scan' = [scan EXCEPT !.line = @ + 1]
    /\ UNCHANGED <<hunks, toolMethod, layers>>

\* "+++ <rest>", an added line: both readers go on in a file of that name.
StrayHeader ==
    /\ Writing /\ git.at < Size /\ AtLine.kind = "plus"
    /\ git' = [git EXCEPT !.at = @ + 1, !.last = "added", !.changed = TRUE, !.stray = TRUE]
    /\ added' = added \cup {<<git.file, git.at + 1>>}
    /\ misread' = misread \cup {<<git.file, git.at + 1>>}
    /\ shifted' = IF git.marked THEN shifted \cup {git.file} ELSE shifted
    /\ scan' = [Nowhere EXCEPT !.file = AtLine.name]
    /\ Flush
    /\ emitted' = FALSE /\ toolMethod' = None
    /\ UNCHANGED <<reported, layers>>

\* "-<line>": no line of the new file, and no end of the block.  A section has
\* one place where lines are removed.
RemovedLine ==
    /\ Writing /\ ~git.marked /\ ~git.cut
    /\ git' = [git EXCEPT !.last = "removed", !.changed = TRUE, !.cut = TRUE]
    /\ UNCHANGED <<added, misread, shifted, scan, block, hunks, emitted, toolMethod, reported, layers>>

\* " <line>": ends the block; under a class heading it may name a method.
ContextLine ==
    /\ Writing /\ ~git.marked /\ git.at < Size
    /\ LET method == scan.class /\ AtLine.kind \in Definition /\ AtLine.indent > 0
       IN /\ scan' = [scan EXCEPT !.line = @ + 1,
                                  !.method = IF method THEN AtLine.name ELSE @]
          /\ toolMethod' = IF method /\ ~emitted THEN AtLine.name ELSE toolMethod
    /\ git' = [git EXCEPT !.at = @ + 1, !.last = "context"]
    /\ Flush
    /\ UNCHANGED <<added, misread, shifted, emitted, reported, layers>>

\* "\ No newline at end of file", after the last line of the old or the new
\* file: both parsers take it for a context line.
Mark ==
    /\ Writing /\ ~git.marked
    /\ git.last = "removed" \/ (git.last \in {"added", "context"} /\ git.changed /\ git.at = Size)
    /\ git' = [git EXCEPT !.last = "mark", !.marked = TRUE]
    /\ scan' = [scan EXCEPT !.line = @ + 1]
    /\ Flush
    /\ UNCHANGED <<added, misread, shifted, emitted, toolMethod, reported, layers>>

\* The scanner's end; the parsers' variables are gone.  Only from here on the
\* workspace matters: the tree searched may be the diff's, an older one, one
\* without the file, or none ("off").  The diff may name more files.
ScanEnds(d, more) ==
    /\ pc = "parse"
    /\ Flush
    /\ disk' = d
    /\ pc' = IF git.last = "start" THEN "done" ELSE "name"
    /\ git' = [NoDiff EXCEPT !.listed = git.listed \cup more]
    /\ scan' = Nowhere /\ emitted' = FALSE /\ toolMethod' = None /\ reported' = {}
    /\ UNCHANGED <<added, misread, shifted, rows, next, keys, hints, symbols, uncovered, sent,
                   result>>

EndOfDiff(d) == (git.file # NoFile => Complete) /\ ScanEnds(d, {})

\* The next line is over 64 KB: Scan returns false, and no parser asks for Err.
OverlongLine(d, more) ==
    /\ git.last # "start" /\ \A j \in git.listed, k \in more : j < k
    /\ ScanEnds(d, more)

(***************************************************************************)
(* Layer A+: a name for every hunk.                                        *)
(***************************************************************************)
\* funcEndsBeforeIdx: a statement as far left as the definition comes between.
Ends(lines, def, n) ==
    \E j \in (def + 1)..(n - 1) :
        lines[j].kind # "blank" /\ lines[j].indent <= lines[def].indent

\* resolveFuncHierarchyFromDisk and ResolveFuncHierarchy: the nearest definition
\* above must not have ended, the outermost is then the nearest unindented one.
Hierarchy(lines, start) ==
    LET n == IF start > Len(lines) THEN Len(lines) ELSE start
        Defs == {i \in 1..n : i + MaxScan >= n /\ lines[i].kind \in Definition}
        Tops == {i \in Defs : lines[i].indent = 0}
        inner == Largest(Defs)
    IN IF Defs = {} \/ Ends(lines, inner, n) THEN <<>>
       ELSE <<lines[IF Tops = {} THEN inner ELSE Largest(Tops)].name>>

OnDisk(f) == CASE disk = "new" /\ f \in File -> New[f]
               [] disk = "old" /\ f \in File -> Old[f]
               [] OTHER -> <<>>

\* The nearest definition above, as resolveFuncNameFromDisk finds it.
AttributedNearest(h) ==
    LET lines == OnDisk(h.file)
        Defs == {i \in DOMAIN lines : i <= h.start /\ lines[i].kind \in Definition}
    IN IF Defs = {} THEN <<>> ELSE <<lines[Largest(Defs)].name>>

\* With a workspace the file decides, whatever git quoted: both the fallback
\* and the override end with the hierarchy's outer function, or with none.
Attributed(h) == IF disk = "off" THEN h.ctx ELSE Hierarchy(OnDisk(h.file), h.start)

EntryOf(h) ==
    CASE h.var # None -> VarChanged(h.file, h.var)
      [] Attributed(h) = <<>> -> FileChanged(h.file)
      [] OTHER -> Func(h.file, Attributed(h))

\* The hint of an entry is the first line changed under its name.
HintOf(e, n) ==
    IF e \in DOMAIN hints /\ hints[e] <= n THEN hints
    ELSE [x \in DOMAIN hints \cup {e} |-> IF x = e THEN n ELSE hints[x]]

\* The hint is set before the sentinels are told apart.
NameHunkHintsAll ==
    /\ pc = "name" /\ next <= Len(hunks)
    /\ LET h == hunks[next] IN LET e == EntryOf(h)
       IN keys' = keys \cup {e} /\ hints' = HintOf(e, h.start)
    /\ next' = next + 1
    /\ UNCHANGED <<text, pc, disk, rows, symbols, uncovered, sent, result>>

NameHunk ==
    /\ pc = "name" /\ next <= Len(hunks)
    /\ LET h == hunks[next] IN LET e == EntryOf(h)
       IN /\ keys' = keys \cup {e}
          /\ hints' = IF h.var = None /\ e.kind = "func" THEN HintOf(e, h.start) ELSE hints
    /\ next' = next + 1
    /\ UNCHANGED <<text, pc, disk, rows, symbols, uncovered, sent, result>>

(***************************************************************************)
(* Layer B: each hunk is a query of its own, the nightly index may change   *)
(* the rows between two of them, and one failure discards what is matched. *)
(***************************************************************************)
AllNamed(indexed) ==
    /\ pc = "name" /\ next > Len(hunks)
    /\ pc' = IF indexed THEN "index" ELSE "ask"
    /\ uncovered' = IF indexed THEN {} ELSE DOMAIN hunks
    /\ next' = 1
    /\ UNCHANGED <<text, disk, rows, keys, hints, symbols, sent, result>>

\* FindSymbolsByLineRange
Overlapping(h) ==
    {r \in rows : r.file = h.file /\ r.start <= h.end /\ r.end >= h.start}

MatchHunk ==
    /\ pc = "index" /\ next <= Len(hunks)
    /\ LET found == Overlapping(hunks[next])
       IN /\ symbols' = symbols \cup {Func(r.file, <<r.name>>) : r \in found}
          /\ uncovered' = IF found = {} THEN uncovered \cup {next} ELSE uncovered
    /\ next' = next + 1
    /\ UNCHANGED <<text, pc, disk, rows, keys, hints, sent, result>>

\* What was matched before the failure is kept, and only that.
QueryFailsKeeps ==
    /\ pc = "index" /\ next <= Len(hunks)
    /\ pc' = "ask"
    /\ UNCHANGED <<text, disk, rows, next, keys, hints, symbols, uncovered, sent, result>>

QueryFails ==
    /\ pc = "index" /\ next <= Len(hunks)
    /\ symbols' = {} /\ uncovered' = DOMAIN hunks
    /\ pc' = "ask"
    /\ UNCHANGED <<text, disk, rows, next, keys, hints, sent, result>>

Reindexed(R) ==
    /\ pc = "index" /\ R # rows
    /\ rows' = R
    /\ UNCHANGED <<text, pc, disk, next, keys, hints, symbols, uncovered, sent, result>>

(***************************************************************************)
(* The end: without the model when every hunk is covered, else with it.    *)
(***************************************************************************)
\* isTestFunction: a function by the pattern of its file's name or by the first
\* part of its own; a sentinel has no "::", and what follows its last slash, the
\* name of the file, is tested as a function's would be.
IsTest(e) ==
    \/ e.kind = "func" /\ (e.file \in TestFile \/ e.name[1] \in TestFunc)
    \/ e.kind # "func" /\ e.file \in TestName

AllMatched ==
    /\ pc = "index" /\ next > Len(hunks)
    /\ IF uncovered = {} /\ symbols # {}
       THEN /\ result' = {e \in symbols \cup keys : ~IsTest(e)}
            /\ pc' = "done"
       ELSE pc' = "ask" /\ UNCHANGED result
    /\ UNCHANGED <<text, disk, rows, next, keys, hints, symbols, uncovered, sent>>

\* filterDiffToFiles keeps the files of uncovered hunks; compressDiffForExtract
\* keeps the file and section headers of whatever it is given.  Both split the
\* diff, so no line is too long for them, and take "+++ " for a path as well.
Shown == {hunks[k].file : k \in uncovered}
         \cup (IF uncovered = DOMAIN hunks THEN {Order[k] : k \in git.listed} ELSE {})

Ask ==
    /\ pc = "ask" /\ pc' = "asked"
    /\ sent' = Shown
    /\ UNCHANGED <<text, disk, rows, next, keys, hints, symbols, uncovered, result>>

Answered(guess) ==
    /\ pc = "asked" /\ pc' = "done"
    /\ result' = symbols \cup keys \cup {e \in guess : ~IsTest(e)}
    /\ UNCHANGED <<text, disk, rows, next, keys, hints, symbols, uncovered, sent>>

AskFails ==
    /\ pc = "asked" /\ pc' = "failed"
    /\ UNCHANGED <<text, disk, rows, next, keys, hints, symbols, uncovered, sent, result>>

Finished == pc \in {"done", "failed"} /\ UNCHANGED vars

Parse ==
    \/ \E k \in DOMAIN Order : Header(k)
    \/ \E n \in 1..(IF git.file = NoFile THEN 0 ELSE Size) :
           \E h \in Headings(git.file, n) : Section(n, h)
    \/ AddedLine \/ StrayHeader \/ RemovedLine \/ ContextLine \/ Mark
    \/ \E d \in {"off", "missing", "old", "new"} :
           EndOfDiff(d) \/ \E more \in SUBSET DOMAIN Order : OverlongLine(d, more)

Next ==
    \/ Parse
    \/ NameHunk \/ (\E b \in BOOLEAN : AllNamed(b))
    \/ MatchHunk \/ QueryFails \/ (\E R \in Indexes : Reindexed(R)) \/ AllMatched
    \/ Ask \/ (\E g \in SUBSET Guesses : Answered(g)) \/ AskFails
    \/ Finished

Spec == Init /\ [][Next]_vars

-----------------------------------------------------------------------------
(* Properties *)

Block == [file : Path, start : Nat \ {0}, end : Nat \ {0},
          ctx : Seq(Name), var : Name]
Entry == [kind : {"func", "file", "var"}, file : Path, name : Seq(Name)]

\* Every variable has its type; a hint is given for a named function only.
TypeOK ==
    /\ pc \in {"parse", "name", "index", "ask", "asked", "done", "failed"}
    /\ disk \in {"off", "missing", "old", "new"}
    /\ git.file \in File \cup {NoFile} /\ git.at \in Nat /\ git.sections \in 0..MaxSections
    /\ misread \subseteq added /\ added \subseteq File \X Nat /\ shifted \subseteq File
    /\ IF git.stray THEN scan.file \in Stray ELSE scan.file = git.file
    /\ scan.line \in Nat
    /\ block = NoBlock \/ block \in Block
    /\ hunks \in Seq(Block)
    /\ next \in 1..(Len(hunks) + 1) /\ uncovered \subseteq DOMAIN hunks
    /\ rows \in Indexes \cup {{}}
    /\ keys \cup symbols \subseteq Entry /\ result \subseteq Entry \cup Guesses
    /\ DOMAIN hints \subseteq {e \in keys : e.kind = "func"}
    /\ sent \subseteq SetOf(Order) \cup Stray

LinesOf(h) == h.start..h.end

\* ParseDiffHunks finds the change and nothing else: the hunks of a file are
\* exactly its added lines, at their numbers in the new file, none of them in
\* two hunks.
HunksAreAdditions ==
    \A f \in File \ shifted :
        LET mine == {k \in DOMAIN hunks : hunks[k].file = f}
        IN /\ UNION {LinesOf(hunks[k]) : k \in mine}
                = {n \in 1..Len(New[f]) : <<f, n>> \in added \ misread}
           /\ \A j, k \in mine : j < k => hunks[j].end < hunks[k].start

\* parseDiff reports only added lines, and every definition among them whose
\* form extractFuncName knows.
ToolReports ==
    /\ \A r \in reported : r.file \in File \ shifted => <<r.file, r.line>> \in added \ misread
    /\ \A x \in added \ misread : New[x[1]][x[2]].kind = "def" /\ x[1] \notin shifted =>
          [file |-> x[1], line |-> x[2], name |-> <<New[x[1]][x[2]].name>>,
           change |-> "added"] \in reported

\* Up to the first line over 64 KB, where both stop without a word, the readers
\* of the diff find the added lines at their numbers in the new file, each with
\* its own counters, flags and flushes.  Two kinds are lost: what is added after
\* a no-newline mark is numbered one too high, and a line that begins "++ " and
\* what its file adds after it go to a file that does not exist.
ReadersExact == IF pc = "parse" THEN ToolReports ELSE HunksAreAdditions

\* The module-level function a line is in, by the indentation of the lines
\* from its definition on (at most one).
Enclosing(f, n) ==
    {i \in 1..n : /\ New[f][i].kind \in Definition /\ New[f][i].indent = 0
                  /\ \A j \in (i + 1)..n : New[f][j].indent > 0 \/ New[f][j].kind = "blank"}

\* A change inside a module-level function of the checked-out tree, when a reader
\* found it and the file was read whole, is traced from that function, or searched
\* for by its file: a closure's name, git's heading of the section or a
\* neighbour's name never takes its place.
EnclosingAsked ==
    pc = "done" /\ disk = "new" =>
        \A k \in DOMAIN hunks :
            LET h == hunks[k]
            IN h.file \in File \ shifted /\ h.var = None =>
                 \A i \in Enclosing(h.file, h.start) :
                    LET here == {Func(h.file, <<New[h.file][i].name>>), FileChanged(h.file)}
                    IN \/ i + MaxScan < h.start
                       \/ here \cap result # {} \/ \E e \in here : IsTest(e)

\* Nothing falls between the index and the model: every hunk has a symbol that
\* overlapped it when it was looked up, or its file is in what the model reads,
\* though a query may fail half way and the rows may change between queries.
\* What no hunk holds (lines after one over 64 KB) is read with its file or never.
EveryHunkLookedUp ==
    pc = "done" => \A k \in DOMAIN hunks :
        \/ hunks[k].file \in sent
        \/ \E r \in UNION Indexes :
               /\ r.file = hunks[k].file /\ r.start <= hunks[k].end /\ r.end >= hunks[k].start
               /\ Func(r.file, <<r.name>>) \in symbols
=============================================================================
