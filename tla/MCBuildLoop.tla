---------------------------- MODULE MCBuildLoop ----------------------------
(* Small graphs for checking BuildLoop with TLC. *)
EXTENDS BuildLoop, TLC

CONSTANTS gen, a, b, dll, app, f1, f2, w1, w2, w3

(* app is linked from a and b, all that is compiled needs what gen         *)
(* produces, and whoever builds on b also needs dll.                       *)
Nodes == {gen, a, b, dll, app}
NodeToBuild ==
  [n \in Nodes |-> CASE n = app -> {a, b} [] n \in {a, b, dll} -> {gen} [] OTHER -> {}]
NodeToUse == [n \in Nodes |-> IF n = b THEN {dll} ELSE {}]
Points ==
  [n \in Nodes |-> CASE n = gen -> 3 [] n \in {a, b, dll} -> 1 [] OTHER -> 0]
Inputs ==
  [n \in Nodes |-> CASE n = gen -> {f1} [] n = a -> {f1, f2} [] n = app -> {f2} [] OTHER -> {}]

(* gen, a compiled from it, and a test that runs a. *)
ChainNodes == {gen, a, app}
ChainToBuild == [n \in ChainNodes |-> CASE n = app -> {a} [] n = a -> {gen} [] OTHER -> {}]
ChainToUse == [n \in ChainNodes |-> {}]
ChainPoints == [n \in ChainNodes |-> CASE n = gen -> 2 [] n = a -> 1 [] OTHER -> 0]
ChainInputs == [n \in ChainNodes |-> IF n = app THEN {f1} ELSE {}]

NoInputs == [n \in Nodes |-> {}]
=============================================================================
