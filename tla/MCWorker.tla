------------------------------- MODULE MCWorker -------------------------------
(* Chunks of two; two functions of one name in two files; node and entry   *)
(* point names that exist, that a search finds, and that nothing finds.    *)
EXTENDS Worker

Fn(k, f, b) == [kind |-> k, file |-> f, base |-> b]
Loc(fun, file, repo) == [fun |-> fun, file |-> file, repo |-> repo]

MCTasks == {<<Fn("named", "a", "handler"), Fn("file", "c", ""),
              Fn("named", "b", "handler"), Fn("var", "a", "LIMIT")>>,
            <<Fn("file", "c", "")>>}
MCReport ==
    [nodes |-> <<Loc("Found", "made/up", "own"), Loc("import", "", "own"),
                 Loc("Lost", "made/up2", "own"), Loc("Far", "", "other"),
                 Loc("Added", "made/up3", "own")>>,
     eps |-> <<Loc("Entry", "other/made", "own"), Loc("Lost", "", "own"), Loc("Found", "b", "own"),
               Loc("Gone", "made/up2", "other"), Loc("Entry", "", "")>>]
MCContents == {[kind |-> "prose", report |-> NoReport], [kind |-> "short", report |-> NoReport],
               [kind |-> "misfit", report |-> NoReport],
               [kind |-> "json", report |-> MCReport]}
MCVariants == [Found |-> <<"Found", "found">>, Lost |-> <<"Lost">>, Far |-> <<"Far">>,
               Added |-> <<"Added">>, Entry |-> <<"Entry">>, Gone |-> <<"Gone">>,
               summary |-> <<"summary">>, import |-> <<"import">>]
Nowhere == [repo |-> "", workspace |-> ""]
MCHit == [Found |-> Nowhere, found |-> [repo |-> "a", workspace |-> "a"],
          Lost |-> Nowhere, Far |-> [repo |-> "", workspace |-> "other/f"],
          Added |-> Nowhere, Entry |-> [repo |-> "", workspace |-> "other/e"],
          Gone |-> [repo |-> "a", workspace |-> ""], summary |-> Nowhere,
          import |-> Nowhere]
MCStrangers == {[file |-> "", base |-> "stranger"]}
=============================================================================
