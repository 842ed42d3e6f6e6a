----------------------------- MODULE MCDriver -----------------------------
(* Two frontends; node 2 has an output directory, beside which the output  *)
(* of node 1 has a name that begins the same way.                          *)
EXTENDS Driver, TLC

MCOutputsOf == 1 :> {"gen2"} @@ 2 :> {}
MCInDirsOf == 1 :> {} @@ 2 :> {"gen/x"}
MCStartsAs == 1 :> {} @@ 2 :> {"gen/x", "gen2"}
MCGraphs == {[dag |-> 1, guids |-> {1, 2}, cyclic |-> FALSE, leaf |-> 1],
             [dag |-> 1, guids |-> {2}, cyclic |-> FALSE, leaf |-> 0],
             [dag |-> 2, guids |-> {1}, cyclic |-> FALSE, leaf |-> 2],
             [dag |-> 2, guids |-> {2}, cyclic |-> TRUE, leaf |-> 0]}
===========================================================================
