---------------------------- MODULE MCSymbolIndex ----------------------------
(* A Go repository of two commits, of which the second renames a function  *)
(* and may have a package with errors, and a Python one whose second       *)
(* commit the indexer fails on.                                            *)
EXTENDS SymbolIndex

Sym(f, n, a) == [file |-> f, name |-> n, arity |-> a]
By(s, f, n, a) == [from |-> s, file |-> f, name |-> n, args |-> a]

goMain == Sym("a.go", "main", 0)
goOld == Sym("a.go", "Old", 1)
goNew == Sym("a.go", "New", 1)
goLib == Sym("lib/l.go", "Lib", 0)
pyRun == Sym("b.py", "run", 0)

MCOrder == <<"go", "py", "doc">>
MCLang == [go |-> "go", py |-> "python", doc |-> "unknown"]
MCDecl == [go |-> <<{goMain, goOld}, {goMain, goNew, goLib}>>,
           py |-> <<{pyRun}, {pyRun}>>, doc |-> <<{}>>]
MCUse == [go |-> <<{By(goMain, "a.go", "Old", 1)},
                   {By(goMain, "a.go", "New", 1), By(goNew, "a.go", "main", 0)}>>,
          py |-> <<{By(pyRun, "c.py", "run", 0)}, {}>>, doc |-> <<{}>>]
MCLapses == [go |-> <<{{}}, {{}, {goLib}}>>, py |-> <<{{}}, {{}}>>, doc |-> <<{{}}>>]
MCBroken == {<<"py", 2>>}
=============================================================================
