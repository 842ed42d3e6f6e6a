----------------------- MODULE MCGraphCompilation -----------------------
(* A program of four nodes, in every arrangement of their dependencies and  *)
(* of what is cacheable; graphs that cannot be frozen; a graph that is      *)
(* signed, in worlds that differ from each other in one thing.              *)
EXTENDS GraphCompilation

App == [Annotation |-> "App", Action |-> "link", Outputs |-> <<"app">>,
        Inputs |-> <<"gen.c", "main.c">>, ScannerIndex |-> 1,
        CachingInputIgnoreList |-> <<"stamp">>]
Gen == [Annotation |-> "Gen", Action |-> "generate", Outputs |-> <<"gen.c">>,
        Inputs |-> <<"stamp">>, FilesThatMightBeIncluded |-> <<"lib/api.h", "note.h">>,
        AllowUnexpectedOutput |-> TRUE]
Lib == [Annotation |-> "Lib", Action |-> "pack", Outputs |-> <<"lib.a">>,
        TargetDirectories |-> <<"lib">>, Inputs |-> <<"lib.c">>, ScannerIndex |-> 1,
        FilesThatMightBeIncluded |-> <<"deep.h">>]
Doc == [Annotation |-> "Doc", Action |-> "check", Inputs |-> <<"old/x", "doc.txt">>]
Program == <<App, Gen, Lib, Doc>>

Pairs == {<<1, 2>>, <<1, 3>>, <<2, 3>>, <<2, 4>>, <<3, 4>>}
Listed(edges, i, kind) ==
    SetToSortSeq({j \in 1 .. 4 : <<i, j>> \in Pairs /\ edges[<<i, j>>] = kind}, <)
NodesWith(edges, cached) ==
    [i \in 1 .. 4 |->
        Program[i] @@ [ToUseDependencies |-> Listed(edges, i, "use")]
          @@ (IF i = 3 THEN "Deps" :> Listed(edges, i, "build")
              ELSE "ToBuildDependencies" :> Listed(edges, i, "build"))
          @@ (IF i \in cached THEN "CachingMode" :> "ByLeafInputs" ELSE <<>>)]
GraphOf(nodes) ==
    [Nodes |-> nodes, DefaultNodes |-> <<1, 3>>,
     NamedNodes |-> <<[name |-> <<"a", "p">>, node |-> 1],
                      [name |-> <<"A", "p", "i">>, node |-> 3],
                      [name |-> <<"i", "p">>, node |-> 4]>>,
     Scanners |-> <<[Kind |-> "generic", IncludePaths |-> <<"lib">>]>>,
     SharedResources |-> <<[Annotation |-> "pool"]>>,
     DirectoriesCausingImplicitDependencies |-> <<"old">>]

Some == [p \in Pairs |-> IF p[1] = 2 THEN "use" ELSE "build"]
Plain == GraphOf(NodesWith(Some, {1}))
Without(n, i) == [Plain EXCEPT !.Nodes[i] = n]
Signed ==
    Plain @@ [FileSignatures |-> <<"build.lua">>, StatSignatures |-> <<"tools">>,
              GlobSignatures |-> <<"src">>, EnvironmentVariableSignatures |-> <<"CC", "LD">>]
BadGraphs ==
    {Without(Doc @@ [Outputs |-> <<"gen.c">>], 4),
     Without([ActionType |-> "RunShellCommand"], 4),
     Without(Doc @@ [ActionType |-> "CopyFiles", Outputs |-> <<"copy">>], 4),
     Without(Doc @@ [WriteTextFilePayload |-> "text", ActionType |-> "RunShellCommand"], 4),
     Without(Doc @@ [ActionType |-> "Unknown"], 4),
     [Plain EXCEPT !.Scanners = <<[Kind |-> "lisp", IncludePaths |-> <<>>]>>],
     [Plain EXCEPT !.SharedResources = <<[CreateAction |-> "start"]>>]}

MCGraphs ==
    {GraphOf(NodesWith(e, c)) :
        e \in [Pairs -> {"none", "build", "use"}], c \in {{1}, {1, 2}, {1, 3}, {1, 2, 3}}}
      \cup BadGraphs \cup {Signed}

\* A digest is the rank of a text; the order is any of three.
Texts(nodes) == {HashedText(nodes[i]) : i \in 1 .. 4}
AllTexts == Texts(Program) \cup {HashedText(g.Nodes[4]) : g \in BadGraphs}
MCDigests ==
    LET texts == <<HashedText(App), HashedText(Gen), HashedText(Lib), HashedText(Doc)>>
        Ranked(ranks) == [t \in AllTexts |->
            IF t \in ToSet(texts) THEN ranks[CHOOSE k \in 1 .. 4 : texts[k] = t] ELSE 5]
    IN  {Ranked(<<1, 2, 3, 4>>), Ranked(<<4, 2, 1, 3>>), Ranked(<<2, 4, 3, 1>>)}

MCParents ==
    [f \in {"app", "gen.c", "main.c", "stamp", "lib/api.h", "note.h", "lib.a", "lib.c",
            "deep.h", "old/x", "doc.txt", "copy"} |->
        CASE f = "lib/api.h" -> <<"lib">> [] f = "old/x" -> <<"old">> [] OTHER -> <<>>]
MCAnnotationRank == [App |-> 4, Gen |-> 1, Lib |-> 3, Doc |-> 2]
MCLower == [a |-> "a", A |-> "a", p |-> "p", i |-> "i"]
MCRequests == {{}, {<<"a", "p">>}, {<<"A", "p">>, <<"a", "p", "i">>}, {<<"a">>},
               {<<"i">>, <<"p", "a">>}}
MCCleanedPath == [r \in UNION MCRequests |-> IF r = <<"p", "a">> THEN "lib.a" ELSE "?"]

Dir(dirs, files) == [kind |-> "dir", mtime |-> 1, dirs |-> dirs, files |-> files]
File(mtime) == [kind |-> "file", mtime |-> mtime, dirs |-> {}, files |-> {}]
Nothing == [kind |-> "none", mtime |-> 0, dirs |-> {}, files |-> {}]
World0 ==
    [paths |-> ("build.lua" :> File(1)) @@ ("tools" :> Nothing)
                 @@ ("src" :> Dir({"a"}, {"b"})),
     variables |-> ("CC" :> "cc") @@ ("LD" :> "ld")]
MCWorlds(graph) ==
    IF graph # Signed THEN {World0} ELSE
    {World0,
     [World0 EXCEPT !.paths["build.lua"] = File(2)],
     [World0 EXCEPT !.paths["tools"] = Dir({}, {})],
     [World0 EXCEPT !.paths["src"] = Dir({}, {"a", "b"})],
     [World0 EXCEPT !.paths["src"] = Dir({"a", "b"}, {})],
     [World0 EXCEPT !.paths["src"] = File(1)],
     [World0 EXCEPT !.variables["LD"] = "lld"],
     [World0 EXCEPT !.variables["LD"] = Unset]}
MCNameRank == [a |-> 1, b |-> 2]

ASSUME NoCycles /\ AnnotationsDiffer /\ GeneratorsEnd
===========================================================================
