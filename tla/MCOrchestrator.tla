--------------------------- MODULE MCOrchestrator ---------------------------
(* Two repositories and three files whose keys overlap, for TLC.           *)
EXTENDS Orchestrator, TLC

CONSTANTS api, core,      \* repositories
          fc, fcpp, fdir, \* a_b.c, a_b.cpp and a/b.c: the first and the last
                          \* have one key, which begins that of the second
          kc, kcpp,
          f, g, worker, v

MCRepo == {api, core}
MCFile == {fc, fcpp, fdir}
MCFunc == {f, g, worker}
MCKey == {kc, kcpp}
MCKeyOf == (fc :> kc) @@ (fdir :> kc) @@ (fcpp :> kcpp)
MCBegins == {<<kc, kc>>, <<kcpp, kcpp>>, <<kc, kcpp>>}
MCUnslug == (kc :> NoFile) @@ (kcpp :> NoFile)

It(r, p, n) == [repo |-> r, file |-> p, name |-> n]

\* Two files of one key with more functions than a batch holds, a variable and a
\* function of the other repository; a function found without a path and a file
\* that nobody named; a function without any file; and an inner function.
MCInputs ==
    {[names |-> <<It(core, fc, f), It(core, fdir, f), It(core, fc, g),
                  It(core, fdir, worker), It(core, fdir, g), It(core, fc, worker),
                  It(core, fc, v), It(api, fcpp, g)>>,
      files |-> <<It(core, fc, Whole), It(core, fdir, Whole), It(api, fcpp, Whole)>>,
      mode  |-> m] : m \in {"llm", "deterministic"}}
    \cup
    {[names |-> <<It(core, NoFile, f), It(core, fcpp, g)>>,
      files |-> <<It(core, fcpp, Whole), It(core, fc, Whole)>>,
      mode  |-> "hybrid"],
     [names |-> <<It(core, NoFile, g)>>, files |-> <<>>, mode |-> "llm"],
     [names |-> <<It(core, fdir, worker), It(core, fcpp, g)>>,
      files |-> <<It(core, fcpp, Whole), It(core, fdir, Whole)>>,
      mode  |-> "llm"]}

\* A dead end, a cycle between the repositories, an inner function to be
\* searched for in its file, a repository nobody configured, a whole file, and
\* calls that name no function, with a file and without.
MCReports ==
    {[calls |-> {}, thin |-> TRUE],
     [calls |-> {It(core, NoFile, f), It("unknown", NoFile, g)}, thin |-> FALSE],
     [calls |-> {It(api, NoFile, f), It(api, fc, worker), It(core, fcpp, NoName)},
      thin |-> TRUE],
     [calls |-> {It(core, fcpp, Whole), It(core, NoFile, NoName)}, thin |-> FALSE]}
=============================================================================
