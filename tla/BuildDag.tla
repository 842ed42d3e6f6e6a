------------------------------ MODULE BuildDag ------------------------------
(***************************************************************************)
(* The frozen build graph as the scheduler sees it: the two dependency     *)
(* lists every DagNode carries, and what CompileDagDerived computes from   *)
(* them once per graph (combined dependencies, backlinks, node points).    *)
(* Lists are sets here: no reader of them depends on their order.          *)
(***************************************************************************)
EXTENDS Naturals, FiniteSets

CONSTANTS
  Node,        \* indices of the DagNodes
  ToBuild,     \* [Node -> SUBSET Node], m_ToBuildDependencies
  ToUse,       \* [Node -> SUBSET Node], m_ToUseDependencies
  NodePoints   \* [Node -> Nat], m_NodePoints, the scheduling priority

(* DetectCyclicDependencies follows both lists and a graph with a cycle is *)
(* refused when it is frozen, so every non-empty set of nodes has a node   *)
(* that depends on none of the others.                                     *)
Acyclic ==
  \A S \in SUBSET Node : S # {} => \E n \in S : (ToBuild[n] \cup ToUse[n]) \cap S = {}

ASSUME DagAssumption ==
  /\ IsFiniteSet(Node)
  /\ ToBuild \in [Node -> SUBSET Node]
  /\ ToUse \in [Node -> SUBSET Node]
  /\ NodePoints \in [Node -> Nat]

ASSUME AcyclicAssumption == Acyclic

(* What must be finished before n is executed: its to-build dependencies   *)
(* and everything those hand on through their to-use lists. The recursion  *)
(* of AddToUseDependenciesOfDagNodeRecursive is the least set closed that  *)
(* way.                                                                    *)
CombinedDependencies ==
  [n \in Node |->
    {d \in Node : \A S \in SUBSET Node :
        ToBuild[n] \subseteq S /\ (\A m \in S : ToUse[m] \subseteq S) => d \in S}]

(* The nodes that have n among their combined dependencies. *)
NodeBacklinks == [n \in Node |-> {m \in Node : n \in CombinedDependencies[m]}]
=============================================================================
