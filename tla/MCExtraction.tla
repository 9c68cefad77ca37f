----------------------------- MODULE MCExtraction -----------------------------
(* A file with a closure and a class, and a test file with a constant, an   *)
(* async test and a line that begins "++ ".                                 *)
EXTENDS Extraction

L(k, n, i) == [kind |-> k, name |-> n, indent |-> i]
MCOrder == <<"a", "d", "t">>
MCNew == [a |-> <<L("def", "f", 0), L("def", "g", 1), L("call", "f", 1), L("class", "K", 0),
                  L("def", "run", 1), L("stmt", "", 2)>>,
          t |-> <<L("async", "test_h", 0), L("plus", "i;", 0), L("var", "LIMIT", 0)>>]
MCOld == [a |-> <<L("bareclass", "K", 0), L("async", "run", 1), L("def", "f", 0)>>,
          t |-> <<L("def", "test_h", 0)>>]
Row(f, s, e, n) == [file |-> f, start |-> s, end |-> e, name |-> n]
MCIndexes == {{}, {Row("a", 1, 3, "f"), Row("a", 4, 6, "K"), Row("a", 5, 6, "run"),
                   Row("t", 1, 2, "test_h")}}
MCGuesses == {Func("t", <<"test_h">>)}
=============================================================================
