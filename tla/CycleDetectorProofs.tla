------------------------- MODULE CycleDetectorProofs -------------------------
(***************************************************************************)
(* DetectCyclicDependencies is right for every graph: a graph it lets      *)
(* through is acyclic, and what it prints otherwise is a cycle.            *)
(***************************************************************************)
EXTENDS CycleDetector, SequenceTheorems, TLAPS

Cleared == {n \in Node : state[n] = "GuaranteedNoCycles"}

(* The calls on the stack are those of the nodes being visited, each once. *)
StackIsVisiting ==
  /\ \A i \in 1..Len(stack) : state[stack[i].node] = "BeingVisited"
  /\ \A n \in Node : state[n] = "BeingVisited" => \E i \in 1..Len(stack) : stack[i].node = n
  /\ \A i, j \in 1..Len(stack) : stack[i].node = stack[j].node => i = j

(* A call was made for a dependency of its caller, its breadcrumb says so, *)
(* and what a call no longer has to visit is cleared or being visited by   *)
(* the call above it.                                                      *)
CallsFollowDependencies ==
  /\ \A i \in 1..Len(stack) : stack[i].left \subseteq deps[stack[i].node]
  /\ \A i \in 1..(Len(stack) - 1) :
       /\ stack[i + 1].node \in deps[stack[i].node]
       /\ scheduledByWho[stack[i + 1].node] = stack[i].node
  /\ \A i \in 1..Len(stack) : \A d \in deps[stack[i].node] \ stack[i].left :
       d \in Cleared \/ (i < Len(stack) /\ d = stack[i + 1].node)

(* What is cleared only depends on what is cleared, without a cycle.       *)
ClearedIsAcyclic ==
  /\ \A n \in Cleared : deps[n] \subseteq Cleared
  /\ \A S \in SUBSET Cleared : S # {} => \E n \in S : deps[n] \cap S = {}

RootsAreDone ==
  \A n \in Node : n \in roots \cup Cleared \/ (stack # <<>> /\ stack[1].node = n)

(* PrintCycleFor walks down the stack, towards a call that is on it.       *)
WalksDownTheStack ==
  /\ phase \in {"print", "cycle"} =>
       \A i \in 1..(Len(path) - 1) : path[i] \in deps[path[i + 1]]
  /\ phase = "print" =>
       \E j, k \in 1..Len(stack) :
         /\ j <= k /\ stack[j].node = path[1] /\ stack[k].node = cursor
         /\ path[Len(path)] \in deps[cursor]
  /\ phase = "cycle" => Len(path) > 1 /\ path[1] = path[Len(path)]
  /\ phase = "none" => roots = {} /\ stack = <<>>

SearchInv ==
  /\ TypeOK
  /\ StackIsVisiting
  /\ CallsFollowDependencies
  /\ ClearedIsAcyclic
  /\ RootsAreDone
  /\ WalksDownTheStack

-----------------------------------------------------------------------------
(* The call stack *)

(* The innermost call, and that there is one. *)
LEMMA TopCall ==
  ASSUME TypeOK, stack # <<>>
  PROVE  /\ Len(stack) \in Nat \ {0}
         /\ \A i \in 1..Len(stack) :
              stack[i] \in Frame /\ stack[i].node \in Node /\ stack[i].left \subseteq Node
         /\ Caller = stack[Len(stack)]
<1>1. stack \in Seq(Frame) /\ Len(stack) \in Nat \ {0}
  BY EmptySeq DEF TypeOK
<1>2. \A i \in 1..Len(stack) : stack[i] \in Frame
  BY <1>1, ElementOfSeq
<1> QED
  BY <1>1, <1>2 DEF Caller, Frame

(* Taking a dependency off the innermost call leaves every call its node. *)
LEMMA VisitedKeepsCalls ==
  ASSUME TypeOK, stack # <<>>, NEW dep \in Node
  PROVE  /\ Visited(dep) \in Seq(Frame)
         /\ Len(Visited(dep)) = Len(stack)
         /\ \A i \in 1..Len(stack) :
              /\ Visited(dep)[i].node = stack[i].node
              /\ i # Len(stack) => Visited(dep)[i] = stack[i]
         /\ Visited(dep)[Len(stack)].left = Caller.left \ {dep}
<1> DEFINE top == [stack[Len(stack)] EXCEPT !.left = @ \ {dep}]
<1>1. Len(stack) \in 1..Len(stack) /\ stack \in Seq(Frame) /\ stack[Len(stack)] \in Frame
  BY TopCall DEF TypeOK
<1>2. top \in Frame /\ top.node = stack[Len(stack)].node /\ top.left = Caller.left \ {dep}
  BY <1>1 DEF Frame, Caller
<1>3. Visited(dep) = [stack EXCEPT ![Len(stack)] = top]
  BY DEF Visited
<1> HIDE DEF top
<1>4. /\ Visited(dep) \in Seq(Frame) /\ Len(Visited(dep)) = Len(stack)
      /\ \A i \in 1..Len(stack) : Visited(dep)[i] = IF i = Len(stack) THEN top ELSE stack[i]
  BY <1>1, <1>2, <1>3, ExceptSeq
<1> QED
  BY <1>1, <1>2, <1>4

(* A return leaves the calls below as they were. *)
LEMMA PopKeepsCalls ==
  ASSUME TypeOK, stack # <<>>
  PROVE  LET rest == SubSeq(stack, 1, Len(stack) - 1)
         IN  /\ rest \in Seq(Frame)
             /\ Len(rest) = Len(stack) - 1
             /\ \A i \in 1..(Len(stack) - 1) : rest[i] = stack[i]
             /\ Len(stack) > 1 <=> rest # <<>>
<1> DEFINE n == Len(stack) - 1
           rest == SubSeq(stack, 1, n)
<1>1. n \in Nat /\ \A i \in 1..n : stack[i] \in Frame
  BY TopCall
<1>2. /\ rest \in Seq(Frame)
      /\ Len(rest) = IF 1 <= n THEN n - 1 + 1 ELSE 0
      /\ \A i \in 1..(n - 1 + 1) : rest[i] = stack[1 + i - 1]
  BY <1>1, SubSeqProperties
<1>3. Len(rest) = n /\ \A i \in 1..n : rest[i] = stack[i]
  <2> HIDE DEF n, rest
  <2>1. n - 1 + 1 = n /\ \A i \in 1..n : 1 + i - 1 = i
    BY <1>1
  <2>2. Len(rest) = n
    BY <1>1, <1>2
  <2>3. \A i \in 1..n : rest[i] = stack[i]
    BY <1>2, <2>1
  <2> QED
    BY <2>2, <2>3
<1>4. n > 0 <=> rest # <<>>
  <2> HIDE DEF n, rest
  <2>1. rest \in Seq(Frame) /\ Len(rest) = n
    BY <1>2, <1>3
  <2>2. rest = <<>> <=> Len(rest) = 0
    BY <2>1, EmptySeq
  <2> QED
    BY <1>1, <2>1, <2>2
<1> QED
  BY <1>1, <1>2, <1>3, <1>4

-----------------------------------------------------------------------------
(* The invariant is inductive *)

(* Nothing is visited at first. *)
LEMMA SearchInit == Init => SearchInv
<1> SUFFICES ASSUME Init PROVE SearchInv
  OBVIOUS
<1>1. stack = <<>> /\ Len(stack) = 0 /\ stack \in Seq(Frame) /\ path \in Seq(Node)
  BY EmptySeq DEF Init
<1>2. TypeOK
  BY <1>1 DEF Init, TypeOK, VisitState
<1>3. Cleared = {}
  BY DEF Init, Cleared
<1>4. StackIsVisiting /\ CallsFollowDependencies
  BY <1>1 DEF Init, StackIsVisiting, CallsFollowDependencies
<1> QED
  BY <1>2, <1>3, <1>4 DEF Init, SearchInv, ClearedIsAcyclic, RootsAreDone, WalksDownTheStack

(* A root that was cleared before is passed over. *)
LEMMA SkipRootKeeps ==
  ASSUME SearchInv, NEW n \in Node, SkipRoot(n)
  PROVE  SearchInv'
<1>1. TypeOK'
  BY DEF SearchInv, TypeOK, SkipRoot
<1>2. /\ UNCHANGED <<deps, state, scheduledByWho, stack, phase, cursor, path>>
      /\ n \in Cleared /\ roots' = roots \ {n} /\ phase = "search" /\ Cleared' = Cleared
  BY DEF SkipRoot, Cleared
<1>3. StackIsVisiting' /\ CallsFollowDependencies' /\ ClearedIsAcyclic'
  BY <1>2 DEF SearchInv, StackIsVisiting, CallsFollowDependencies, ClearedIsAcyclic
<1>4. RootsAreDone' /\ WalksDownTheStack'
  BY <1>2 DEF SearchInv, RootsAreDone, WalksDownTheStack
<1> QED
  BY <1>1, <1>3, <1>4 DEF SearchInv

(* A search starts at a root nobody visited. *)
LEMMA SearchRootKeeps ==
  ASSUME SearchInv, NEW n \in Node, SearchRoot(n)
  PROVE  SearchInv'
<1> DEFINE call == [node |-> n, left |-> deps[n]]
<1>0. TypeOK /\ stack = <<>> /\ Len(stack) = 0 /\ phase = "search"
  BY EmptySeq DEF SearchInv, SearchRoot
<1>1. \A m \in Node : state[m] # "BeingVisited"
  BY <1>0 DEF SearchInv, StackIsVisiting
<1>2. /\ UNCHANGED <<deps, scheduledByWho, phase, cursor, path>>
      /\ roots' = roots \ {n} /\ state[n] # "GuaranteedNoCycles"
      /\ \A m \in Node : state'[m] = IF m = n THEN "BeingVisited" ELSE state[m]
      /\ stack' = <<call>>
  BY <1>0 DEF SearchRoot, TypeOK
<1>3. call \in Frame /\ call.node = n /\ call.left = deps[n]
  BY <1>0 DEF TypeOK, Frame
<1>4. stack' \in Seq(Frame) /\ Len(stack') = 1 /\ stack'[1] = call /\ stack' # <<>>
  <2> HIDE DEF call
  <2> QED
    BY <1>2, <1>3
<1> HIDE DEF call
<1>5. TypeOK'
  BY <1>0, <1>2, <1>4 DEF TypeOK, SearchRoot, VisitState
<1>6. Cleared' = Cleared
  BY <1>2 DEF Cleared
<1>7. StackIsVisiting'
  BY <1>1, <1>2, <1>3, <1>4 DEF StackIsVisiting
<1>8. CallsFollowDependencies'
  BY <1>2, <1>3, <1>4 DEF CallsFollowDependencies
<1>9. ClearedIsAcyclic' /\ WalksDownTheStack'
  BY <1>0, <1>2, <1>6 DEF SearchInv, ClearedIsAcyclic, WalksDownTheStack
<1>10. RootsAreDone'
  BY <1>0, <1>2, <1>3, <1>4, <1>6 DEF SearchInv, RootsAreDone
<1> QED
  BY <1>5, <1>7, <1>8, <1>9, <1>10 DEF SearchInv

(* A cleared dependency is passed over. *)
LEMMA SkipDependencyKeeps ==
  ASSUME SearchInv, NEW dep \in Node, SkipDependency(dep)
  PROVE  SearchInv'
<1>0. TypeOK /\ stack # <<>> /\ phase = "search" /\ dep \in Cleared
  BY DEF SearchInv, SkipDependency, Visiting, Cleared
<1>1. /\ UNCHANGED <<deps, state, scheduledByWho, roots, phase, cursor, path>>
      /\ stack' = Visited(dep) /\ Cleared' = Cleared
  BY DEF SkipDependency, Cleared
<1>2. /\ Len(stack) \in Nat \ {0} /\ Len(stack') = Len(stack)
      /\ stack' \in Seq(Frame) /\ stack' # <<>>
      /\ \A i \in 1..Len(stack) :
           /\ stack'[i].node = stack[i].node
           /\ i # Len(stack) => stack'[i] = stack[i]
      /\ stack'[Len(stack)].left = stack[Len(stack)].left \ {dep}
  BY <1>0, <1>1, TopCall, VisitedKeepsCalls, EmptySeq
<1>3. TypeOK'
  BY <1>0, <1>1, <1>2 DEF TypeOK
<1>4. StackIsVisiting' /\ RootsAreDone'
  BY <1>0, <1>1, <1>2 DEF SearchInv, StackIsVisiting, RootsAreDone
<1>5. CallsFollowDependencies'
  <2>1. \A i \in 1..Len(stack) : stack'[i].left \subseteq stack[i].left
    BY <1>2
  <2>2. \A i \in 1..Len(stack) : stack[i].left \subseteq stack'[i].left \cup {dep}
    BY <1>2
  <2> QED
    BY <1>0, <1>1, <1>2, <2>1, <2>2 DEF SearchInv, CallsFollowDependencies
<1>6. ClearedIsAcyclic' /\ WalksDownTheStack'
  BY <1>0, <1>1 DEF SearchInv, ClearedIsAcyclic, WalksDownTheStack
<1> QED
  BY <1>3, <1>4, <1>5, <1>6 DEF SearchInv

(* A call for a dependency, and the breadcrumb it leaves. *)
LEMMA VisitDependencyKeeps ==
  ASSUME SearchInv, NEW dep \in Node, VisitDependency(dep)
  PROVE  SearchInv'
<1> DEFINE call == [node |-> dep, left |-> deps[dep]]
           n == Len(stack)
<1>0. TypeOK /\ stack # <<>> /\ phase = "search" /\ state[dep] = "NotYetVisited"
  BY DEF SearchInv, VisitDependency, Visiting
<1>1. n \in Nat \ {0} /\ stack[n].node \in Node /\ dep \in stack[n].left
  BY <1>0, TopCall DEF VisitDependency, Visiting
<1>2. /\ UNCHANGED <<deps, roots, phase, cursor, path>>
      /\ \A m \in Node : state'[m] = IF m = dep THEN "BeingVisited" ELSE state[m]
      /\ \A m \in Node : scheduledByWho'[m] = IF m = dep THEN stack[n].node ELSE scheduledByWho[m]
      /\ stack' = Append(Visited(dep), call)
  BY <1>0 DEF VisitDependency, TypeOK, Caller
<1>3. call \in Frame /\ call.node = dep /\ call.left = deps[dep]
  BY <1>0 DEF TypeOK, Frame
<1> HIDE DEF call
<1>4. /\ stack' \in Seq(Frame) /\ Len(stack') = n + 1 /\ stack' # <<>>
      /\ stack'[n + 1] = call
      /\ \A i \in 1..n : stack'[i] = Visited(dep)[i]
  BY <1>0, <1>2, <1>3, VisitedKeepsCalls, AppendProperties
<1>5. /\ \A i \in 1..n :
           /\ stack'[i].node = stack[i].node
           /\ i # n => stack'[i] = stack[i]
      /\ stack'[n].left = stack[n].left \ {dep}
  BY <1>0, <1>1, <1>4, VisitedKeepsCalls, TopCall
<1>6. TypeOK'
  BY <1>0, <1>1, <1>2, <1>4 DEF TypeOK, VisitDependency, VisitState, Caller
<1>7. Cleared' = Cleared
  BY <1>0, <1>2 DEF Cleared
<1> HIDE DEF n
<1>8. StackIsVisiting'
  <2>1. \A i \in 1..n : stack[i].node # dep /\ state[stack[i].node] = "BeingVisited"
                          /\ stack[i].node \in Node
    BY <1>0, TopCall DEF SearchInv, StackIsVisiting, n
  <2>2. \A i \in 1..(n + 1) : i \in 1..n \/ i = n + 1
    BY <1>1
  <2>3. \A i \in 1..Len(stack') : state'[stack'[i].node] = "BeingVisited"
    BY <1>2, <1>3, <1>4, <1>5, <2>1, <2>2
  <2>4. \A m \in Node : state'[m] = "BeingVisited" => \E i \in 1..Len(stack') : stack'[i].node = m
    BY <1>1, <1>2, <1>3, <1>4, <1>5 DEF SearchInv, StackIsVisiting, n
  <2>5. \A i, j \in 1..Len(stack') : stack'[i].node = stack'[j].node => i = j
    BY <1>3, <1>4, <1>5, <2>1, <2>2 DEF SearchInv, StackIsVisiting, n
  <2> QED
    BY <2>3, <2>4, <2>5 DEF StackIsVisiting
<1>9. CallsFollowDependencies'
  <2>1. \A i \in 1..n : /\ stack'[i].left \subseteq stack[i].left
                        /\ stack[i].left \subseteq stack'[i].left \cup {dep}
                        /\ i # n => stack'[i].left = stack[i].left
    BY <1>5
  <2>2. \A i \in 1..(n + 1) : i \in 1..n \/ i = n + 1
    BY <1>1
  <2>3. \A i \in 1..Len(stack') : stack'[i].left \subseteq deps'[stack'[i].node]
    BY <1>2, <1>3, <1>4, <1>5, <2>1, <2>2 DEF SearchInv, CallsFollowDependencies, n
  <2>4. ASSUME NEW i \in 1..(Len(stack') - 1)
        PROVE  /\ stack'[i + 1].node \in deps'[stack'[i].node]
               /\ scheduledByWho'[stack'[i + 1].node] = stack'[i].node
    <3>1. CASE i = n
      BY <1>1, <1>2, <1>3, <1>4, <1>5, <3>1 DEF SearchInv, CallsFollowDependencies, n
    <3>2. CASE i # n
      <4>1. i \in 1..(n - 1) /\ i \in 1..n /\ i + 1 \in 1..n
        BY <1>1, <1>4, <3>2
      <4>2. stack[i + 1].node \in Node /\ stack[i + 1].node # dep
        BY <1>0, <4>1, TopCall DEF SearchInv, StackIsVisiting, n
      <4> QED
        BY <1>2, <1>5, <4>1, <4>2 DEF SearchInv, CallsFollowDependencies, n
    <3> QED
      BY <3>1, <3>2
  <2>5. ASSUME NEW i \in 1..Len(stack'), NEW d \in deps'[stack'[i].node] \ stack'[i].left
        PROVE  d \in Cleared' \/ (i < Len(stack') /\ d = stack'[i + 1].node)
    <3>1. CASE i = n + 1
      BY <1>2, <1>3, <1>4, <3>1
    <3>2. CASE i = n
      <4>1. d \in deps[stack[n].node] /\ d \notin stack[n].left \ {dep}
        BY <1>1, <1>2, <1>5, <3>2
      <4>2. d \in Cleared \/ d = dep
        BY <1>1, <4>1 DEF SearchInv, CallsFollowDependencies, n
      <4> QED
        BY <1>1, <1>3, <1>4, <1>7, <3>2, <4>2
    <3>3. CASE i # n /\ i # n + 1
      <4>1. i \in 1..n /\ i + 1 \in 1..n /\ i < n
        BY <1>1, <1>4, <3>3
      <4>2. d \in deps[stack[i].node] \ stack[i].left
        BY <1>2, <1>5, <3>3, <4>1
      <4>3. d \in Cleared \/ d = stack[i + 1].node
        BY <4>1, <4>2 DEF SearchInv, CallsFollowDependencies, n
      <4> QED
        BY <1>1, <1>4, <1>5, <1>7, <4>1, <4>3
    <3> QED
      BY <3>1, <3>2, <3>3
  <2> QED
    BY <2>3, <2>4, <2>5 DEF CallsFollowDependencies
<1>10. ClearedIsAcyclic' /\ WalksDownTheStack'
  BY <1>0, <1>2, <1>7 DEF SearchInv, ClearedIsAcyclic, WalksDownTheStack
<1>11. RootsAreDone'
  BY <1>0, <1>1, <1>2, <1>4, <1>5, <1>7 DEF SearchInv, RootsAreDone
<1> QED
  BY <1>6, <1>8, <1>9, <1>10, <1>11 DEF SearchInv

(* A dependency that is being visited: it is on the stack. *)
LEMMA ReachBackKeeps ==
  ASSUME SearchInv, NEW dep \in Node, ReachBack(dep)
  PROVE  SearchInv'
<1> DEFINE n == Len(stack)
<1>0. TypeOK /\ stack # <<>> /\ state[dep] = "BeingVisited"
  BY DEF SearchInv, ReachBack, Visiting
<1>1. n \in Nat \ {0} /\ stack[n].node \in Node /\ dep \in stack[n].left
  BY <1>0, TopCall DEF ReachBack, Visiting
<1>2. /\ UNCHANGED <<deps, state, scheduledByWho, stack, roots>>
      /\ phase' = "print" /\ cursor' = stack[n].node /\ path' = <<dep>>
      /\ Cleared' = Cleared
  BY DEF ReachBack, Caller, Cleared
<1>3. path' \in Seq(Node) /\ Len(path') = 1 /\ path'[1] = dep /\ path' # <<>>
  BY <1>2
<1>4. TypeOK'
  BY <1>0, <1>1, <1>2, <1>3 DEF TypeOK
<1>5. StackIsVisiting' /\ CallsFollowDependencies' /\ ClearedIsAcyclic' /\ RootsAreDone'
  BY <1>2 DEF SearchInv, StackIsVisiting, CallsFollowDependencies, ClearedIsAcyclic, RootsAreDone
<1>6. WalksDownTheStack'
  <2>1. PICK j \in 1..n : stack[j].node = dep
    BY <1>0 DEF SearchInv, StackIsVisiting
  <2>2. j <= n /\ n \in 1..n /\ dep \in deps[stack[n].node]
    BY <1>1, <2>1 DEF SearchInv, CallsFollowDependencies
  <2> QED
    BY <1>2, <1>3, <2>1, <2>2 DEF WalksDownTheStack
<1> QED
  BY <1>4, <1>5, <1>6 DEF SearchInv

(* A node is cleared once all it depends on is. *)
LEMMA FinishSearchKeeps ==
  ASSUME SearchInv, FinishSearch
  PROVE  SearchInv'
<1> DEFINE n == Len(stack)
           m == stack[n].node
<1>0. TypeOK /\ stack # <<>> /\ phase = "search"
  BY DEF SearchInv, FinishSearch
<1>1. n \in Nat \ {0} /\ m \in Node /\ stack[n].left = {} /\ n \in 1..n
  BY <1>0, TopCall DEF FinishSearch
<1>2. /\ UNCHANGED <<deps, scheduledByWho, roots, phase, cursor, path>>
      /\ \A k \in Node : state'[k] = IF k = m THEN "GuaranteedNoCycles" ELSE state[k]
      /\ stack' = SubSeq(stack, 1, n - 1)
  BY <1>0 DEF FinishSearch, TypeOK, Caller
<1>3. /\ stack' \in Seq(Frame) /\ Len(stack') = n - 1
      /\ \A i \in 1..(n - 1) : stack'[i] = stack[i]
      /\ n > 1 <=> stack' # <<>>
  BY <1>0, <1>2, PopKeepsCalls
<1>4. TypeOK'
  BY <1>0, <1>1, <1>2, <1>3 DEF TypeOK, FinishSearch, VisitState, Caller
<1>5. Cleared' = Cleared \cup {m} /\ m \notin Cleared
  BY <1>1, <1>2 DEF SearchInv, StackIsVisiting, Cleared
<1>6. deps[m] \subseteq Cleared
  BY <1>0, <1>1 DEF SearchInv, CallsFollowDependencies, TypeOK
<1> HIDE DEF n
<1>7. \A i \in 1..(n - 1) : i \in 1..n /\ i # n
  BY <1>1
<1>8. StackIsVisiting'
  <2>1. \A i \in 1..(n - 1) : stack[i].node # m
    BY <1>1, <1>7 DEF SearchInv, StackIsVisiting, n
  <2>2. \A i \in 1..Len(stack') : state'[stack'[i].node] = "BeingVisited"
    <3> SUFFICES ASSUME NEW i \in 1..(n - 1)
                 PROVE  state'[stack'[i].node] = "BeingVisited"
      BY <1>3
    <3>1. stack'[i] = stack[i] /\ i \in 1..n
      BY <1>3, <1>7
    <3>2. stack[i].node \in Node /\ stack[i].node # m
      BY <1>0, <2>1, <3>1, TopCall DEF n
    <3>3. state[stack[i].node] = "BeingVisited"
      BY <3>1 DEF SearchInv, StackIsVisiting, n
    <3> QED
      BY <1>2, <3>1, <3>2, <3>3
  <2>3. \A k \in Node : state'[k] = "BeingVisited" => \E i \in 1..Len(stack') : stack'[i].node = k
    <3> SUFFICES ASSUME NEW k \in Node, state'[k] = "BeingVisited"
                 PROVE  \E i \in 1..(n - 1) : stack'[i].node = k
      BY <1>3
    <3>1. PICK i \in 1..n : stack[i].node = k
      BY <1>2 DEF SearchInv, StackIsVisiting, n
    <3>2. i # n
      BY <1>2, <3>1
    <3> QED
      BY <1>1, <1>3, <3>1, <3>2
  <2>4. \A i, j \in 1..Len(stack') : stack'[i].node = stack'[j].node => i = j
    BY <1>3, <1>7 DEF SearchInv, StackIsVisiting, n
  <2> QED
    BY <2>2, <2>3, <2>4 DEF StackIsVisiting
<1>9. CallsFollowDependencies'
  <2>1. \A i \in 1..Len(stack') : stack'[i].left \subseteq deps'[stack'[i].node]
    BY <1>2, <1>3, <1>7 DEF SearchInv, CallsFollowDependencies, n
  <2>2. \A i \in 1..(Len(stack') - 1) : i \in 1..(n - 1) /\ i + 1 \in 1..(n - 1)
    BY <1>1, <1>3
  <2>3. \A i \in 1..(Len(stack') - 1) : /\ stack'[i + 1].node \in deps'[stack'[i].node]
                                        /\ scheduledByWho'[stack'[i + 1].node] = stack'[i].node
    BY <1>2, <1>3, <2>2 DEF SearchInv, CallsFollowDependencies, n
  <2>4. ASSUME NEW i \in 1..Len(stack'), NEW d \in deps'[stack'[i].node] \ stack'[i].left
        PROVE  d \in Cleared' \/ (i < Len(stack') /\ d = stack'[i + 1].node)
    <3>1. i \in 1..(n - 1) /\ i \in 1..n
      BY <1>3, <1>7
    <3>2. d \in Cleared \/ d = stack[i + 1].node
      BY <1>2, <1>3, <3>1 DEF SearchInv, CallsFollowDependencies, n
    <3>3. CASE i = n - 1
      BY <1>1, <1>5, <3>2, <3>3
    <3>4. CASE i # n - 1
      <4>1. i + 1 \in 1..(n - 1) /\ i < n - 1
        BY <1>1, <3>1, <3>4
      <4> QED
        BY <1>3, <1>5, <3>2, <4>1
    <3> QED
      BY <3>3, <3>4
  <2> QED
    BY <2>1, <2>3, <2>4 DEF CallsFollowDependencies
<1>10. ClearedIsAcyclic'
  <2>1. \A k \in Cleared' : deps'[k] \subseteq Cleared'
    BY <1>2, <1>5, <1>6 DEF SearchInv, ClearedIsAcyclic
  <2>2. ASSUME NEW S \in SUBSET Cleared', S # {}
        PROVE  \E k \in S : deps'[k] \cap S = {}
    <3>1. CASE S = {m}
      BY <1>2, <1>5, <1>6, <3>1
    <3>2. CASE S # {m}
      <4>1. S \ {m} \in SUBSET Cleared /\ S \ {m} # {}
        BY <1>5, <2>2, <3>2
      <4>2. PICK k \in S \ {m} : deps[k] \cap (S \ {m}) = {}
        BY <4>1 DEF SearchInv, ClearedIsAcyclic
      <4>3. m \notin deps[k]
        BY <1>5, <4>1 DEF SearchInv, ClearedIsAcyclic
      <4> QED
        BY <1>2, <4>2, <4>3
    <3> QED
      BY <3>1, <3>2
  <2> QED
    BY <2>1, <2>2 DEF ClearedIsAcyclic
<1>11. RootsAreDone'
  <2> SUFFICES ASSUME NEW k \in Node, k \notin roots \cup Cleared'
               PROVE  stack' # <<>> /\ stack'[1].node = k
    BY <1>2 DEF RootsAreDone
  <2>1. stack[1].node = k /\ k # m
    BY <1>5 DEF SearchInv, RootsAreDone
  <2>2. n # 1
    BY <2>1
  <2>3. n > 1 /\ 1 \in 1..(n - 1)
    BY <1>1, <2>2
  <2> QED
    BY <1>3, <2>1, <2>3
<1>12. WalksDownTheStack'
  BY <1>0, <1>2 DEF WalksDownTheStack
<1> QED
  BY <1>4, <1>8, <1>9, <1>10, <1>11, <1>12 DEF SearchInv

(* The walk over the breadcrumbs goes down the stack. *)
LEMMA WalkBackKeeps ==
  ASSUME SearchInv, WalkBack
  PROVE  SearchInv'
<1>0. TypeOK /\ phase = "print" /\ cursor \in Node /\ path \in Seq(Node) /\ path # <<>>
  BY DEF SearchInv, TypeOK, WalkBack
<1>1. /\ UNCHANGED <<deps, state, scheduledByWho, stack, roots>>
      /\ path' = Append(path, cursor) /\ Cleared' = Cleared
  BY DEF WalkBack, Cleared
<1>2. /\ Len(path) \in Nat \ {0}
      /\ path' \in Seq(Node) /\ path' # <<>> /\ Len(path') = Len(path) + 1
      /\ \A i \in 1..Len(path) : path'[i] = path[i]
      /\ path'[Len(path')] = cursor /\ path'[1] = path[1]
  BY <1>0, <1>1, EmptySeq, AppendProperties
<1>3. StackIsVisiting' /\ CallsFollowDependencies' /\ ClearedIsAcyclic' /\ RootsAreDone'
  BY <1>1 DEF SearchInv, StackIsVisiting, CallsFollowDependencies, ClearedIsAcyclic, RootsAreDone
<1>4. PICK j, k \in 1..Len(stack) :
        /\ j <= k /\ stack[j].node = path[1] /\ stack[k].node = cursor
        /\ path[Len(path)] \in deps[cursor]
  BY <1>0 DEF SearchInv, WalksDownTheStack
<1>5. \A i \in 1..(Len(path') - 1) : path'[i] \in deps'[path'[i + 1]]
  <2> SUFFICES ASSUME NEW i \in 1..Len(path)
               PROVE  path'[i] \in deps[path'[i + 1]]
    BY <1>1, <1>2
  <2>1. CASE i = Len(path)
    BY <1>2, <1>4, <2>1
  <2>2. CASE i # Len(path)
    <3>1. i \in 1..(Len(path) - 1) /\ i + 1 \in 1..Len(path)
      BY <1>2, <2>2
    <3> QED
      BY <1>0, <1>2, <3>1 DEF SearchInv, WalksDownTheStack
  <2> QED
    BY <2>1, <2>2
<1>6. CASE cursor = path[1]
  <2>1. phase' = "cycle" /\ cursor' = cursor
    BY <1>6 DEF WalkBack
  <2>2. TypeOK'
    BY <1>0, <1>1, <1>2, <2>1 DEF TypeOK
  <2>3. WalksDownTheStack'
    BY <1>2, <1>5, <1>6, <2>1 DEF WalksDownTheStack
  <2> QED
    BY <1>3, <2>2, <2>3 DEF SearchInv
<1>7. CASE cursor # path[1]
  <2>1. phase' = "print" /\ cursor' = scheduledByWho[cursor]
    BY <1>0, <1>7 DEF WalkBack
  <2>2. stack # <<>> /\ Len(stack) \in Nat /\ j # k
    BY <1>4, <1>7, EmptySeq
  <2>3. /\ k - 1 \in 1..(Len(stack) - 1) /\ k - 1 \in 1..Len(stack)
        /\ j <= k - 1 /\ (k - 1) + 1 = k
    BY <1>4, <2>2
  <2>4. /\ cursor \in deps[stack[k - 1].node]
        /\ scheduledByWho[cursor] = stack[k - 1].node
    BY <1>4, <2>3 DEF SearchInv, CallsFollowDependencies
  <2>5. stack[k - 1].node \in Node
    BY <1>0, <2>2, <2>3, TopCall
  <2>6. TypeOK'
    BY <1>0, <1>1, <1>2, <2>1, <2>4, <2>5 DEF TypeOK
  <2>7. WalksDownTheStack'
    BY <1>1, <1>2, <1>4, <1>5, <2>1, <2>3, <2>4 DEF WalksDownTheStack
  <2> QED
    BY <1>3, <2>6, <2>7 DEF SearchInv
<1> QED
  BY <1>6, <1>7

(* The end of a search that found nothing. *)
LEMMA NoCycleKeeps ==
  ASSUME SearchInv, NoCycle
  PROVE  SearchInv'
<1>1. TypeOK'
  BY DEF SearchInv, TypeOK, NoCycle
<1>2. /\ UNCHANGED <<deps, state, scheduledByWho, stack, roots, cursor, path>>
      /\ phase' = "none" /\ roots = {} /\ stack = <<>> /\ Cleared' = Cleared
  BY DEF NoCycle, Cleared
<1>3. StackIsVisiting' /\ CallsFollowDependencies' /\ ClearedIsAcyclic' /\ RootsAreDone'
  BY <1>2 DEF SearchInv, StackIsVisiting, CallsFollowDependencies, ClearedIsAcyclic, RootsAreDone
<1>4. WalksDownTheStack'
  BY <1>2 DEF WalksDownTheStack
<1> QED
  BY <1>1, <1>3, <1>4 DEF SearchInv

(* The inductive invariant of the search and of the walk that prints a     *)
(* cycle.                                                                  *)
THEOREM SearchInvariant == Spec => []SearchInv
<1>1. SearchInv /\ [Next]_vars => SearchInv'
  <2> SUFFICES ASSUME SearchInv, [Next]_vars PROVE SearchInv'
    OBVIOUS
  <2>1. CASE Detect
    BY <2>1, SkipRootKeeps, SearchRootKeeps DEF Detect
  <2>2. CASE DepthFirstSearch
    BY <2>2, SkipDependencyKeeps, VisitDependencyKeeps, ReachBackKeeps, FinishSearchKeeps
       DEF DepthFirstSearch
  <2>3. CASE UNCHANGED vars
    <3>1. UNCHANGED <<deps, state, scheduledByWho, stack, roots, phase, cursor, path>>
      BY <2>3 DEF vars
    <3> QED
      BY <3>1 DEF SearchInv, TypeOK, Cleared, StackIsVisiting, CallsFollowDependencies,
         ClearedIsAcyclic, RootsAreDone, WalksDownTheStack
  <2> QED
    BY <2>1, <2>2, <2>3, WalkBackKeeps, NoCycleKeeps DEF Next
<1> QED
  BY <1>1, SearchInit, PTL DEF Spec

(* PrintCycleFor never leaves the breadcrumbs, for any graph. *)
THEOREM DetectorTypeCorrect == Spec => []TypeOK
<1>1. SearchInv => TypeOK
  BY DEF SearchInv
<1> QED
  BY <1>1, SearchInvariant, PTL

(* A graph that DetectCyclicDependencies lets through has no cycle.        *)
THEOREM EveryCycleIsFound == Spec => []NoCycleMissed
<1>1. SearchInv => NoCycleMissed
  <2> SUFFICES ASSUME SearchInv, phase = "none" PROVE Acyclic
    BY DEF NoCycleMissed
  <2>1. Cleared = Node
    BY DEF SearchInv, WalksDownTheStack, RootsAreDone, Cleared
  <2> QED
    BY <2>1 DEF SearchInv, ClearedIsAcyclic, Acyclic
<1> QED
  BY <1>1, SearchInvariant, PTL

(* What it prints is a cycle of the graph. *)
THEOREM EveryPrintedCycleIsReal == Spec => []CycleIsReal
<1>1. SearchInv => CycleIsReal
  BY DEF SearchInv, WalksDownTheStack, CycleIsReal
<1> QED
  BY <1>1, SearchInvariant, PTL
=============================================================================
