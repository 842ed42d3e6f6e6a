---------------------------- MODULE MCLeafCache ----------------------------
(* An app and a tool use a library; its object file includes a header that  *)
(* is generated from s and may include x, and a, which may include x too.   *)
EXTENDS LeafCache, TLC

MCNodes == {"gen", "obj", "lib", "app", "tool"}
MCDeps == [n \in MCNodes |-> CASE n = "obj" -> {"gen"} [] n = "lib" -> {"obj"}
                               [] n \in {"app", "tool"} -> {"lib"} [] OTHER -> {}]
MCInputs == [n \in MCNodes |-> CASE n = "gen" -> {"s"} [] n = "obj" -> {"c"}
                                 [] n = "app" -> {"m"} [] OTHER -> {}]
MCContents == [c |-> <<"c1">>, m |-> <<"m1">>, s |-> <<"s2", "s1">>,
               a |-> <<"a1", "a2">>, x |-> <<"x1", "x2">>]
MCIncludes == [t \in UNION {ToSet(MCContents[f]) : f \in DOMAIN MCContents} |->
                 CASE t = "c1" -> {"a", "gen"} [] t = "a2" -> {"x"} [] OTHER -> {}]
MCHeaderIncludes == [t \in DOMAIN MCIncludes |-> IF t = "s2" THEN {"x"} ELSE {}]
Set(behaviour, letters) ==
    [server |-> TRUE, client |-> TRUE, behaviour |-> behaviour, letters |-> letters]
Writing == {Set("readwrite", <<>>), Set("letters", <<"_", "W">>), Set("letters", <<"r">>)}
============================================================================
