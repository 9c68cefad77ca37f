------------------------------ MODULE MCResolver ------------------------------
(* Five symbols in three repositories, two of one name; callers in a cycle. *)
EXTENDS Resolver, TLC

Sym(n, r, f) == [name |-> n, repo |-> r, file |-> f]
MCSymbolOf == (1 :> Sym("f", "svc", "a.go")) @@ (2 :> Sym("f", "svc", "pkg/a.go"))
              @@ (3 :> Sym("g", "lib", "g.go")) @@ (4 :> Sym("h", "svc", "h.go"))
              @@ (5 :> Sym("main", "web", "main.go"))
MCSuffix == {<<"pkg/a.go", "a.go">>}
MCCalls == {<<3, 1>>, <<1, 3>>, <<4, 3>>, <<4, 2>>, <<5, 4>>, <<3, 3>>}
MCInputs == {<<>>, <<Sym("f", "svc", "a.go"), Sym("gone", "svc", "")>>,
             <<Sym("g", "svc", ""), Sym("f", "", "pkg/a.go")>>,
             <<Sym("lost", "svc", ""), Sym("gone", "svc", ""), Sym("f", "svc", "x.go")>>}
MCDirect == [medium |-> 1, high |-> 2, critical |-> 3]
===============================================================================
