----------------------------- MODULE MCScanner -----------------------------
(* Two nodes of one source, whose headers are next to it, on the include   *)
(* path and generated; the last one includes itself and an empty one.      *)
EXTENDS Scanner

Quote(path) == <<"#", "include", Space, "'">> \o path \o <<"'">>
System(path) == <<Space, "#", Space, "include", Space, Space, "<">> \o path \o <<">", Space>>
MCTexts == [
    main   |-> <<Quote(<<"o">>), <<"int", Space, "x">>, <<"#", "include", "<", "g", ">">>>>,
    main2  |-> <<<<"#", "define", Space, "'", "o", "'">>, System(<<"..", "sub", "g">>)>>,
    o      |-> <<Quote(<<"..", ".", "x", "", "..", "sub", "g">>),
                 <<"#", "include", Space, "<", "o">>, System(<<"", "usr", "..", "g">>)>>,
    g      |-> <<Quote(<<"x", "..", "..", "sub", "o">>),
                 <<"include", Space, "'", "m", "'">>, System(<<"g">>)>>,
    none   |-> <<>>]

Main == <<"src", "m">>
O == <<"inc", "o">>
G == <<"sub", "g">>
Sub == <<"sub", "o">>
MCVersions == (Main :> <<"main", "main2">>) @@ (O :> <<"o">>)
                @@ (G :> <<"g">>) @@ (Sub :> <<"none">>)
MCGenerated == {G}
MCScanners == <<[type |-> "cpp", includePaths |-> <<<<"inc">>, <<"..", "up">>, <<".", "sub", "">>>>, config |-> <<>>],
                [type |-> "generic", includePaths |-> <<<<"src">>>>,
                 config |-> [keywords |-> <<"include">>, requireSpace |-> FALSE,
                             useSeparators |-> TRUE, bareIsSystem |-> FALSE]]>>
Scan(n, f, s, safe) == [node |-> n, file |-> f, scanner |-> s, safe |-> safe]
MCRequests == {Scan(1, Main, 1, TRUE), Scan(1, Main, 1, FALSE), Scan(2, Main, 1, FALSE)}
MCKeys == (DOMAIN MCVersions) \X {1, 2} \X BOOLEAN
Place(f) == CHOOSE k \in 1 .. 4 : <<Main, O, G, Sub>>[k] = f
MCKeyRank == [k \in MCKeys |-> ((Place(k[1]) * 3) % 7) * 10 + 2 * k[2] + IF k[3] THEN 1 ELSE 0]
MCKeyHash == [k \in MCKeys |-> Place(k[1])]

\* The hypothesis of the proofs holds here.
ASSUME InstanceAssumption == NothingShadowed
============================================================================
