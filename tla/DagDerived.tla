---------------------------- MODULE DagDerived ----------------------------
(***************************************************************************)
(* What CompileDagDerived computes once from a frozen graph: the flattened *)
(* dependencies and priorities the scheduler uses, and for every node that *)
(* is cached by its leaf inputs the files and nodes its signature is made  *)
(* of.  A frozen graph is what DagGenerator!WriteGraph returns.            *)
(***************************************************************************)
EXTENDS Integers, Sequences, FiniteSets, FiniteSetsExt, SequencesExt, TLC,
        Sorting

CONSTANTS
    Parents,         \* Parents[f]: the directories around f, from the inside out
    AnnotationRank   \* the order of strcmp on annotations

NodesOf(dag) == DOMAIN dag.nodes
IsLeafInputCacheable(dag, n) == "CacheableByLeafInputs" \in dag.nodes[n].flags

---------------------------------------------------------------------------
(* Flattened dependencies, backlinks and points *)

\* The first node in todo that is not a dependency yet becomes one, and the calls
\* for its to-use list come first: todo holds what the calls under way have left.
\* Mutant: only what is depended on directly hands its to-use list on.
AddToUseDependencies_Shallow(dag, s) ==
    LET new == {k \in DOMAIN s.todo : s.todo[k] \notin ToSet(s.deps)}
    IN  IF new = {} THEN s
        ELSE [deps |-> Append(s.deps, s.todo[Min(new)]),
              todo |-> SubSeq(s.todo, Min(new) + 1, Len(s.todo))]
AddToUseDependencies(dag, s) ==
    LET new == {k \in DOMAIN s.todo : s.todo[k] \notin ToSet(s.deps)}
    IN  IF new = {} THEN s
        ELSE [deps |-> Append(s.deps, s.todo[Min(new)]),
              todo |-> dag.nodes[s.todo[Min(new)]].toUse
                         \o SubSeq(s.todo, Min(new) + 1, Len(s.todo))]

\* There are no more dependencies than nodes.
CombinedDependencies(dag, n) ==
    LET at[k \in 0 .. Len(dag.nodes)] ==
            IF k = 0 THEN [deps |-> <<>>, todo |-> dag.nodes[n].toBuild]
            ELSE AddToUseDependencies(dag, at[k - 1])
    IN  at[Len(dag.nodes)].deps

Backlinks(deps) ==
    [n \in DOMAIN deps |-> {m \in DOMAIN deps : n \in ToSet(deps[m])}]

\* A node is worth more than any node that waits for it.
Points(backlinks) ==
    LET points[n \in DOMAIN backlinks] ==
            Cardinality(backlinks[n]) + Max({0} \cup {points[m] : m \in backlinks[n]})
    IN  points

---------------------------------------------------------------------------
(* Who generates a file *)

NotGenerated == -1
UnknownNode == 0

\* A lookup finds what was inserted first: the nodes in their order, and last the
\* directories nobody is known to write.
FirstOwner(dag, d) ==
    LET owners == {n \in NodesOf(dag) : d \in ToSet(dag.nodes[n].outputDirs)}
    IN  IF owners # {} THEN Min(owners)
        ELSE IF d \in ToSet(dag.implicitDirs) THEN UnknownNode
        ELSE NotGenerated

FindDagNodeForFile(dag, f) ==
    LET writing == {n \in NodesOf(dag) : f \in ToSet(dag.nodes[n].outputs)}
        owned == {k \in DOMAIN Parents[f] : FirstOwner(dag, Parents[f][k]) # NotGenerated}
    IN  IF writing # {} THEN Min(writing)
        ELSE IF owned # {} THEN FirstOwner(dag, Parents[f][Min(owned)])
        ELSE NotGenerated

IsFileGenerated(dag, f) == FindDagNodeForFile(dag, f) # NotGenerated

NonGeneratedInputIndices(dag, n) ==
    {k \in DOMAIN dag.nodes[n].inputs : ~IsFileGenerated(dag, dag.nodes[n].inputs[k])}

---------------------------------------------------------------------------
(* Nodes a cached node is made of *)

Visit(dag, s, n) ==
    IF n \in ToSet(s.results) THEN s
    ELSE IF IsLeafInputCacheable(dag, n)
         THEN [s EXCEPT !.cacheable = Append(@, n)]
    ELSE [s EXCEPT !.results = Append(@, n), !.stack = Append(@, n)]

\* What is on top of the stack is done with, and what it depends on visited.
Search(dag, s) ==
    LET node == dag.nodes[Last(s.stack)]
        next == node.toBuild \o node.toUse
        visited[k \in 0 .. Len(next)] ==
            IF k = 0 THEN [s EXCEPT !.stack = Front(@)] ELSE Visit(dag, visited[k - 1], next[k])
    IN  IF s.stack = <<>> THEN s ELSE visited[Len(next)]

\* A node is on the stack once.
FindDependentNodes(dag, root) ==
    LET at[k \in 0 .. Len(dag.nodes)] ==
            IF k = 0 THEN [results |-> <<root>>, stack |-> <<root>>, cacheable |-> <<>>]
            ELSE Search(dag, at[k - 1])
    IN  at[Len(dag.nodes)]

---------------------------------------------------------------------------
(* Files a cached node is made of *)

FilesNamedBy(dag, n) ==
    ToSet(dag.nodes[n].inputs) \cup ToSet(dag.nodes[n].mightInclude)

\* Mutant: files that might be included are left to the scanners.
LeafInputs_InputsOnly(dag, n) ==
    {f \in UNION {ToSet(dag.nodes[m].inputs) : m \in ToSet(FindDependentNodes(dag, n).results)} :
        ~IsFileGenerated(dag, f) /\ f \notin ToSet(dag.nodes[n].ignored)}
LeafInputs(dag, n) ==
    {f \in UNION {FilesNamedBy(dag, m) : m \in ToSet(FindDependentNodes(dag, n).results)} :
        ~IsFileGenerated(dag, f) /\ f \notin ToSet(dag.nodes[n].ignored)}

\* A scanner reads a generated file as the files its generator may include.
ReadAs(dag, f, read) ==
    LET g == FindDagNodeForFile(dag, f)
    IN  IF g = NotGenerated THEN {f} ELSE IF g = UnknownNode THEN {} ELSE read[g]
NonGeneratedFiles(dag, files) ==
    LET read[g \in NodesOf(dag)] ==
            UNION {ReadAs(dag, f, read) : f \in ToSet(dag.nodes[g].mightInclude)}
    IN  UNION {ReadAs(dag, f, read) : f \in ToSet(files)}

NodesWithScanners(dag, n) ==
    {m \in ToSet(FindDependentNodes(dag, n).results) : dag.nodes[m].scanner # 0}

ScannerFiles(dag, n, s) ==
    UNION {NonGeneratedFiles(dag, dag.nodes[m].inputs) :
             m \in {k \in NodesWithScanners(dag, n) : dag.nodes[k].scanner = s}}

---------------------------------------------------------------------------
(* The part of a leaf input signature that needs no file *)

RelevantFlags(node) == node.flags \ {"CacheableByLeafInputs"}
FlagsText(node) ==
    IF RelevantFlags(node) = {"OverwriteOutputs", "AllowUnexpectedOutput"}
    THEN <<>> ELSE <<ToString(RelevantFlags(node))>>
HashedNode(node) ==
    node.action \o node.env \o node.allowed \o node.outputs \o FlagsText(node)

\* Nodes are hashed in the order of their annotations: their positions in
\* the graph would change with every node added to it.
\* Mutant: they are hashed as they were found.
LeafInputHashOffline_Unsorted(dag, n) ==
    LET found == FindDependentNodes(dag, n).results
    IN  <<dag.nodes[n].annotation>>
          \o FlattenSeq([k \in DOMAIN found |-> HashedNode(dag.nodes[found[k]])])
LeafInputHashOffline(dag, n) ==
    LET found == FindDependentNodes(dag, n).results
        sorted == Sorted(found, [m \in ToSet(found) |-> AnnotationRank[dag.nodes[m].annotation]])
    IN  <<dag.nodes[n].annotation>>
          \o FlattenSeq([k \in DOMAIN sorted |-> HashedNode(dag.nodes[sorted[k]])])
===========================================================================
