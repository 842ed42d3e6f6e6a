---------------------------- MODULE CycleDetector ----------------------------
(***************************************************************************)
(* DetectCyclicDependencies: a depth-first search that colours the nodes   *)
(* of a freshly frozen graph and, when it reaches back to a node that is   *)
(* still being visited, walks the breadcrumbs of m_ScheduledByWho to print *)
(* the cycle. The call stack of DepthFirstSearch is explicit. The order of *)
(* a node's dependency lists, and of the roots, is any order.              *)
(***************************************************************************)
EXTENDS Naturals, FiniteSets, Sequences

CONSTANTS Node, NoNode  \* NoNode is the -1 of m_ScheduledByWho

ASSUME NodeAssumption == IsFiniteSet(Node) /\ NoNode \notin Node

VARIABLES
  deps,            \* the graph: to-build and to-use dependencies of each node
  state,           \* m_State
  scheduledByWho,  \* m_ScheduledByWho
  stack,           \* the calls of DepthFirstSearch, and what each has left to visit
  roots,           \* what the loop of Detect has left to look at
  phase,           \* searching, printing, or what Detect returned
  cursor, path     \* of PrintCycleFor

vars == <<deps, state, scheduledByWho, stack, roots, phase, cursor, path>>

VisitState == {"NotYetVisited", "BeingVisited", "GuaranteedNoCycles"}

Frame == [node : Node, left : SUBSET Node]

Init ==
  /\ deps \in [Node -> SUBSET Node]
  /\ state = [n \in Node |-> "NotYetVisited"]
  /\ scheduledByWho = [n \in Node |-> NoNode]
  /\ stack = <<>> /\ roots = Node
  /\ phase = "search" /\ cursor = NoNode /\ path = <<>>

Caller == stack[Len(stack)]

(* The call on top of the stack has dealt with dep. *)
Visited(dep) == [stack EXCEPT ![Len(stack)].left = @ \ {dep}]

Visiting(dep) == phase = "search" /\ stack # <<>> /\ dep \in Caller.left

(* Detect: a root that an earlier search cleared is passed over. *)
SkipRoot(n) ==
  /\ phase = "search" /\ stack = <<>> /\ n \in roots
  /\ state[n] = "GuaranteedNoCycles"
  /\ roots' = roots \ {n}
  /\ UNCHANGED <<deps, state, scheduledByWho, stack, phase, cursor, path>>

SearchRoot(n) ==
  /\ phase = "search" /\ stack = <<>> /\ n \in roots
  /\ state[n] # "GuaranteedNoCycles"
  /\ roots' = roots \ {n}
  /\ state' = [state EXCEPT ![n] = "BeingVisited"]
  /\ stack' = <<[node |-> n, left |-> deps[n]]>>
  /\ UNCHANGED <<deps, scheduledByWho, phase, cursor, path>>

(* Mutant: any node seen before is passed over. *)
SkipDependency_AnySeen(dep) ==
  /\ Visiting(dep) /\ state[dep] # "NotYetVisited"
  /\ stack' = Visited(dep)
  /\ UNCHANGED <<deps, state, scheduledByWho, roots, phase, cursor, path>>

SkipDependency(dep) ==
  /\ Visiting(dep) /\ state[dep] = "GuaranteedNoCycles"
  /\ stack' = Visited(dep)
  /\ UNCHANGED <<deps, state, scheduledByWho, roots, phase, cursor, path>>

(* Mutant: the breadcrumb names the root of the search. *)
VisitDependency_RootCrumb(dep) ==
  /\ Visiting(dep) /\ state[dep] = "NotYetVisited"
  /\ scheduledByWho' = [scheduledByWho EXCEPT ![dep] = stack[1].node]
  /\ state' = [state EXCEPT ![dep] = "BeingVisited"]
  /\ stack' = Append(Visited(dep), [node |-> dep, left |-> deps[dep]])
  /\ UNCHANGED <<deps, roots, phase, cursor, path>>

VisitDependency(dep) ==
  /\ Visiting(dep) /\ state[dep] = "NotYetVisited"
  /\ scheduledByWho' = [scheduledByWho EXCEPT ![dep] = Caller.node]
  /\ state' = [state EXCEPT ![dep] = "BeingVisited"]
  /\ stack' = Append(Visited(dep), [node |-> dep, left |-> deps[dep]])
  /\ UNCHANGED <<deps, roots, phase, cursor, path>>

(* A cycle is found: PrintCycleFor(Caller.node, dep) starts to collect it. *)
ReachBack(dep) ==
  /\ Visiting(dep) /\ state[dep] = "BeingVisited"
  /\ phase' = "print" /\ cursor' = Caller.node /\ path' = <<dep>>
  /\ UNCHANGED <<deps, state, scheduledByWho, stack, roots>>

(* Mutant: a node stays marked as being visited. *)
FinishSearch_StaysVisited ==
  /\ phase = "search" /\ stack # <<>> /\ Caller.left = {}
  /\ stack' = SubSeq(stack, 1, Len(stack) - 1)
  /\ UNCHANGED <<deps, state, scheduledByWho, roots, phase, cursor, path>>

FinishSearch ==
  /\ phase = "search" /\ stack # <<>> /\ Caller.left = {}
  /\ state' = [state EXCEPT ![Caller.node] = "GuaranteedNoCycles"]
  /\ stack' = SubSeq(stack, 1, Len(stack) - 1)
  /\ UNCHANGED <<deps, scheduledByWho, roots, phase, cursor, path>>

(* One round of the while loop of PrintCycleFor, which then prints path    *)
(* back to front.                                                          *)
WalkBack ==
  /\ phase = "print" /\ cursor # NoNode
  /\ path' = Append(path, cursor)
  /\ IF cursor = path[1] THEN phase' = "cycle" /\ UNCHANGED cursor
     ELSE cursor' = scheduledByWho[cursor] /\ UNCHANGED phase
  /\ UNCHANGED <<deps, state, scheduledByWho, stack, roots>>

NoCycle ==
  /\ phase = "search" /\ stack = <<>> /\ roots = {}
  /\ phase' = "none"
  /\ UNCHANGED <<deps, state, scheduledByWho, stack, roots, cursor, path>>

Detect == \E n \in Node : SkipRoot(n) \/ SearchRoot(n)

DepthFirstSearch ==
  \/ \E dep \in Node : SkipDependency(dep) \/ VisitDependency(dep) \/ ReachBack(dep)
  \/ FinishSearch

Next == Detect \/ DepthFirstSearch \/ WalkBack \/ NoCycle

Spec == Init /\ [][Next]_vars /\ WF_vars(Next)

-----------------------------------------------------------------------------
(* Properties *)

(* Every variable keeps its type; PrintCycleFor never steps off the        *)
(* breadcrumbs, where it would index m_ScheduledByWho with -1.             *)
TypeOK ==
  /\ deps \in [Node -> SUBSET Node]
  /\ state \in [Node -> VisitState]
  /\ scheduledByWho \in [Node -> Node \cup {NoNode}]
  /\ stack \in Seq(Frame) /\ roots \subseteq Node
  /\ phase \in {"search", "print", "cycle", "none"}
  /\ cursor \in Node \cup {NoNode} /\ path \in Seq(Node)
  /\ phase \in {"print", "cycle"} => cursor \in Node /\ path # <<>>

(* What is printed, back to front, is a cycle of the graph: each node      *)
(* depends on the next one and the last is the first.                      *)
CycleIsReal ==
  phase = "cycle" =>
    /\ Len(path) > 1 /\ path[1] = path[Len(path)]
    /\ \A i \in 1..(Len(path) - 1) : path[i] \in deps[path[i + 1]]

Acyclic == \A S \in SUBSET Node : S # {} => \E n \in S : deps[n] \cap S = {}

(* A graph that is let through has no cycle, whatever order it is searched *)
(* in: the colour a node got from an earlier root or on another path never *)
(* hides one. The build loop relies on it (see BuildDag).                  *)
NoCycleMissed == phase = "none" => Acyclic

(* The search and the walk back come to an end. *)
DetectionEnds == <>(phase \in {"cycle", "none"})
=============================================================================
