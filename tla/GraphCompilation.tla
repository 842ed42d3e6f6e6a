------------------------- MODULE GraphCompilation -------------------------
(***************************************************************************)
(* A build graph on its way from the frontend to the build: FreezeDagJson, *)
(* CompileDagDerived, DriverSelectNodes, and CheckDagSignatures when the   *)
(* graph is used.  The world may change between freezing and checking.     *)
(***************************************************************************)
EXTENDS DagSignatures, DagDerived, FindNodesByName

CONSTANTS
    Graphs,    \* graphs frontends write, without cycles
    Digests,   \* ways the digests of their nodes may turn out
    Requests,  \* sets of names a command line may hold
    Worlds(_)  \* what the paths and variables a graph signs may look like

\* Edges, names and defaults are indices of nodes.
ASSUME GraphAssumption ==
    \A g \in Graphs :
        LET Indices == DOMAIN g.Nodes
            Named == FindArray(g, "NamedNodes")
            Scanners == FindArray(g, "Scanners")
        IN  /\ g.Nodes \in Seq(ToSet(g.Nodes)) /\ Scanners \in Seq(ToSet(Scanners))
            /\ Named \in Seq(ToSet(Named))
            /\ g.DefaultNodes \in Seq(Indices)
            /\ \A k \in DOMAIN Named :
                   /\ Named[k].node \in Indices /\ DOMAIN Named[k] = {"name", "node"}
                   /\ Named[k].name \in Seq(ToSet(Named[k].name))
            /\ \A i \in Indices :
                   /\ ToBuildDependencies(g.Nodes[i]) \in Seq(Indices)
                   /\ FindArray(g.Nodes[i], "ToUseDependencies") \in Seq(Indices)

ASSUME DigestAssumption ==
    \A g \in Graphs, d \in Digests :
        \A i \in DOMAIN g.Nodes : d[HashedText(g.Nodes[i])] \in Int

ASSUME RequestAssumption ==
    \A names \in Requests : \A name \in names : name \in Seq(ToSet(name))

\* The directories around a file are a list of paths.
ASSUME FileAssumption ==
    /\ \A f \in DOMAIN Parents : Parents[f] \in Seq(ToSet(Parents[f]))
    /\ \A g \in Graphs : \A i \in DOMAIN g.Nodes :
          \A key \in {"Inputs", "FilesThatMightBeIncluded"} :
              ToSet(FindArray(g.Nodes[i], key)) \subseteq DOMAIN Parents

\* What a graph signs is somewhere in every world.
ASSUME WorldAssumption ==
    \A g \in Graphs : \A w \in Worlds(g) :
        /\ \A p \in DOMAIN w.paths : w.paths[p] \in Infos
        /\ \A key \in {"FileSignatures", "StatSignatures", "GlobSignatures"} :
               ToSet(FindArray(g, key)) \subseteq DOMAIN w.paths
        /\ ToSet(FindArray(g, "EnvironmentVariableSignatures")) \subseteq DOMAIN w.variables

VARIABLES
    phase, json, digest, world, seen, order, dag, deps, backlinks, points,
    leaf, selected, requested

input == <<json, digest>>
worlds == <<world, seen>>
frozenVars == <<order, dag>>
derivedVars == <<deps, backlinks, points, leaf>>
selection == <<selected, requested>>
vars == <<phase, input, worlds, frozenVars, derivedVars, selection>>

NoGraph == [nodes |-> <<>>]

Init ==
    /\ phase = "guids"
    /\ json \in Graphs
    /\ digest \in Digests
    /\ world \in Worlds(json) /\ seen = world
    /\ order = <<>> /\ dag = NoGraph
    /\ deps = <<>> /\ backlinks = <<>> /\ points = <<>> /\ leaf = <<>>
    /\ selected = <<>> /\ requested = {}

---------------------------------------------------------------------------
(* FreezeDagJson *)

Fail == phase' = "failed"

ComputeNodeGuids ==
    /\ phase = "guids"
    /\ order' = SortedGuidTable(json, digest)
    /\ IF \/ \E i \in DOMAIN json.Nodes : HasNothingToHash(json.Nodes[i])
          \/ GuidsCollide(order')
       THEN Fail ELSE phase' = "nodes"
    /\ UNCHANGED <<input, worlds, dag, derivedVars, selection>>

InvalidGraph ==
    /\ phase = "nodes"
    /\ \/ ~GraphIsValid(json)
       \/ \E i \in DOMAIN json.Nodes : ~NodeIsValid(json.Nodes[i])
    /\ Fail
    /\ UNCHANGED <<input, worlds, frozenVars, derivedVars, selection>>

\* The signatures are taken now, however long ago the frontend looked.
CompileDag ==
    /\ phase = "nodes"
    /\ GraphIsValid(json)
    /\ \A i \in DOMAIN json.Nodes : NodeIsValid(json.Nodes[i])
    /\ dag' = WriteGraph(json, [k \in DOMAIN order |-> WriteNode(json, order, k)],
                         RemapTable(order), Signatures(json, world))
    /\ seen' = world
    /\ phase' = "dependencies"
    /\ UNCHANGED <<input, world, order, derivedVars, selection>>

---------------------------------------------------------------------------
(* CompileDagDerived *)

WriteDependencies ==
    /\ phase = "dependencies"
    /\ deps' = [n \in NodesOf(dag) |-> CombinedDependencies(dag, n)]
    /\ backlinks' = Backlinks(deps')
    /\ phase' = "points"
    /\ UNCHANGED <<input, worlds, frozenVars, points, leaf, selection>>

WritePoints ==
    /\ phase = "points"
    /\ points' = Points(backlinks)
    /\ phase' = "leaf"
    /\ UNCHANGED <<input, worlds, frozenVars, deps, backlinks, leaf, selection>>

LeafDataOf(g, n) ==
    IF IsLeafInputCacheable(g, n)
    THEN [nonGenerated |-> NonGeneratedInputIndices(g, n),
          leafInputs |-> LeafInputs(g, n),
          cacheableBelow |-> FindDependentNodes(g, n).cacheable,
          withScanners |-> NodesWithScanners(g, n),
          scannerFiles |-> [s \in DOMAIN g.scanners |-> ScannerFiles(g, n, s)],
          offline |-> LeafInputHashOffline(g, n)]
    ELSE [nonGenerated |-> NonGeneratedInputIndices(g, n),
          leafInputs |-> {}, cacheableBelow |-> <<>>, withScanners |-> {},
          scannerFiles |-> <<>>, offline |-> <<>>]

WriteCacheableNodeData ==
    /\ phase = "leaf"
    /\ leaf' = [n \in NodesOf(dag) |-> LeafDataOf(dag, n)]
    /\ phase' = "derived"
    /\ UNCHANGED <<input, worlds, frozenVars, deps, backlinks, points, selection>>

---------------------------------------------------------------------------
(* Using the graph *)

DriverSelectNodes(names) ==
    /\ phase = "derived"
    /\ requested' = names
    /\ IF CanSelect(dag, names)
       THEN phase' = "selected" /\ selected' = SelectedNodes(dag, names)
       ELSE Fail /\ UNCHANGED selected
    /\ UNCHANGED <<input, worlds, frozenVars, derivedVars>>

\* External: somebody edits what the graph was made from.
Edit(w) ==
    /\ phase = "selected"
    /\ world = seen
    /\ world' = w
    /\ UNCHANGED <<phase, input, seen, frozenVars, derivedVars, selection>>

CheckDagSignatures ==
    /\ phase = "selected"
    /\ phase' = IF ~FilesMatch(dag.signatures, world) THEN "outdated"
                ELSE IF ComparesUnset(dag.signatures, world) THEN "crashed"
                ELSE IF VariablesMatch(dag.signatures, world) THEN "building"
                ELSE "outdated"
    /\ UNCHANGED <<input, worlds, frozenVars, derivedVars, selection>>

Next ==
    \/ ComputeNodeGuids \/ InvalidGraph \/ CompileDag
    \/ WriteDependencies \/ WritePoints \/ WriteCacheableNodeData
    \/ \E names \in Requests : DriverSelectNodes(names)
    \/ \E w \in Worlds(json) : Edit(w)
    \/ CheckDagSignatures

Spec == Init /\ [][Next]_vars

---------------------------------------------------------------------------
(* Properties *)

Phases == {"guids", "nodes", "dependencies", "points", "leaf", "derived",
           "selected", "building", "outdated", "crashed", "failed"}
\* The graph and what is derived from it do not change once they are there.
Frozen == phase = "dependencies"
Derived == phase = "derived"
Nodes == NodesOf(dag)
Children(n) == ToSet(dag.nodes[n].toBuild) \cup ToSet(dag.nodes[n].toUse)

\* Sorting the nodes by their guids changes no meaning: whatever index of the
\* JSON an edge, a named node or a default node holds, the frozen one leads
\* to the same node; and no two nodes declare the same outputs.
NodesKeepTheirIdentity ==
    Frozen =>
        /\ \A k, l \in Nodes : k < l => dag.nodes[k].guid < dag.nodes[l].guid
        /\ \A k, l \in Nodes : k # l /\ dag.nodes[k].outputs # <<>> =>
               dag.nodes[k].outputs # dag.nodes[l].outputs
        /\ LET Original(indices) ==
                   [p \in DOMAIN indices |-> dag.nodes[indices[p]].originalIndex]
           IN  /\ \A k \in Nodes :
                     LET node == json.Nodes[dag.nodes[k].originalIndex]
                     IN  /\ dag.nodes[k].outputs = FindArray(node, "Outputs")
                         /\ Original(dag.nodes[k].toBuild) = ToBuildDependencies(node)
                         /\ Original(dag.nodes[k].toUse) = FindArray(node, "ToUseDependencies")
               /\ Original(dag.defaults) = json.DefaultNodes
               /\ \A k \in DOMAIN dag.named :
                     dag.nodes[dag.named[k].node].originalIndex = json.NamedNodes[k].node

\* The flattened dependencies of a node are what it depends on to build, and
\* everything those hand on through to-use lists, at any distance: the
\* scheduler starts a node once these are done and knows no others.
DependenciesAreFlattened ==
    phase = "points" => \A n, d \in Nodes :
        d \in ToSet(deps[n]) <=>
            \A S \in SUBSET Nodes :
                /\ ToSet(dag.nodes[n].toBuild) \subseteq S
                /\ \A m \in S : ToSet(dag.nodes[m].toUse) \subseteq S
                => d \in S

\* A node is selected because a name is its name or the beginning of no other
\* name, in any case of letters, or because it writes the file of a name; or
\* as a default when nothing is named.
SelectedAreRequested ==
    phase = "selected" =>
        /\ \A k \in DOMAIN selected : k > 1 => selected[k - 1] < selected[k]
        /\ \A n \in ToSet(selected) :
            \/ requested = {} /\ dag.nodes[n].originalIndex \in ToSet(json.DefaultNodes)
            \/ \E r \in requested :
                 \/ CleanedPath[r] \in ToSet(dag.nodes[n].outputs)
                 \/ \E k \in DOMAIN json.NamedNodes :
                      /\ json.NamedNodes[k].node = dag.nodes[n].originalIndex
                      /\ \/ Lowered(json.NamedNodes[k].name) = Lowered(r)
                         \/ \A l \in DOMAIN json.NamedNodes :
                              HasPrefix(json.NamedNodes[l].name, r) <=> l = k

\* DetectCyclicDependencies has let the graph through.
NoCycles ==
    \A g \in Graphs : \A S \in SUBSET DOMAIN g.Nodes : S # {} =>
        \E i \in S : S \cap (ToSet(ToBuildDependencies(g.Nodes[i]))
                               \cup ToSet(FindArray(g.Nodes[i], "ToUseDependencies"))) = {}

\* A node that others wait for always comes before them in the order the
\* work stack is sorted in.
PointsFallTowardsRoots ==
    phase = "leaf" => \A n \in Nodes : \A d \in ToSet(deps[n]) : points[d] > points[n]

\* What the build is made of is what the frontend asked for, though nodes are
\* renumbered, edges flattened and names resolved on the way, and what others
\* wait for comes first.
GraphKeepsItsMeaning ==
    /\ NodesKeepTheirIdentity
    /\ DependenciesAreFlattened
    /\ PointsFallTowardsRoots
    /\ SelectedAreRequested

---------------------------------------------------------------------------
Below(n) ==
    {m \in Nodes : \A S \in SUBSET Nodes :
        (n \in S /\ \A k \in S : Children(k) \subseteq S) => m \in S}
\* What is reached from n without passing through a cacheable node.
Own(n) ==
    {m \in Nodes : \A S \in SUBSET Nodes :
        (n \in S /\ \A k \in S : \A c \in Children(k) :
            c \in S \/ IsLeafInputCacheable(dag, c)) => m \in S}
CoveredBy(n) ==
    {m \in Nodes : \A S \in SUBSET Nodes :
        (n \in S /\ \A k \in S : ToSet(leaf[k].cacheableBelow) \subseteq S) => m \in S}
IsSource(f) ==
    \A n \in Nodes : /\ f \notin ToSet(dag.nodes[n].outputs)
                     /\ ToSet(dag.nodes[n].outputDirs) \cap ToSet(Parents[f]) = {}
                     /\ ToSet(dag.implicitDirs) \cap ToSet(Parents[f]) = {}

\* Whatever source a cached node depends on, through any number of nodes, is
\* in its own leaf inputs or in those of a cached node its signature is made
\* of, unless one of these ignores it: a source left out would let a stale
\* result be taken from the cache.
LeafInputsCoverSources ==
    Derived => \A n \in Nodes : IsLeafInputCacheable(dag, n) =>
        \A f \in UNION {FilesNamedBy(dag, m) : m \in Below(n)} : IsSource(f) =>
            \E c \in CoveredBy(n) : f \in leaf[c].leafInputs \cup ToSet(dag.nodes[c].ignored)

\* No node may include, through any number of generated files, what it makes
\* itself: the list of its sources would have no end.
Makes(node, f) ==
    \/ f \in ToSet(FindArray(node, "Outputs"))
    \/ ToSet(FindArray(node, "TargetDirectories")) \cap ToSet(Parents[f]) # {}
GeneratorsEnd ==
    \A g \in Graphs : \A S \in SUBSET DOMAIN g.Nodes : S # {} =>
        \E i \in S : \A f \in ToSet(FindArray(g.Nodes[i], "FilesThatMightBeIncluded")) :
            \A j \in S : ~Makes(g.Nodes[j], f)

\* The files whose includes a scanner is to follow are the sources among the
\* inputs of the nodes that use it and, in place of a generated input, the
\* sources its generator says it may include, to any depth.
ScannersFollowGeneratedFiles ==
    Derived => \A n \in Nodes : \A s \in DOMAIN leaf[n].scannerFiles :
        LET Users == {m \in Own(n) : dag.nodes[m].scanner = s}
            Makers(files) == {g \in Nodes : \E f \in files : FindDagNodeForFile(dag, f) = g}
            Inputs == UNION {ToSet(dag.nodes[m].inputs) : m \in Users}
            Included(G) == UNION {ToSet(dag.nodes[g].mightInclude) : g \in G}
            Through == {g \in Nodes : \A G \in SUBSET Nodes :
                (Makers(Inputs) \subseteq G /\ Makers(Included(G)) \subseteq G) => g \in G}
        IN  leaf[n].scannerFiles[s] = {f \in Inputs \cup Included(Through) : IsSource(f)}

\* A cached node is looked up by everything its result can depend on: the
\* sources named below it, and those its scanners are to look into.
CachedNodesSeeTheirSources == LeafInputsCoverSources /\ ScannersFollowGeneratedFiles

\* The nodes of a graph that can be frozen have annotations strcmp tells apart.
AnnotationsDiffer ==
    \A g \in Graphs : (\A i \in DOMAIN g.Nodes : ~HasNothingToHash(g.Nodes[i])) =>
        \A i, j \in DOMAIN g.Nodes :
            LET a == g.Nodes[i].Annotation
                b == g.Nodes[j].Annotation
            IN  /\ Has(g.Nodes[i], "Annotation") /\ AnnotationRank[a] \in Int
                /\ AnnotationRank[a] = AnnotationRank[b] => i = j

\* The part of a signature that is computed ahead does not change with the
\* digests of unrelated nodes: it is the text of the nodes in the order of
\* their annotations, wherever the guids put them in the graph.
OfflineHashIsStable ==
    Derived => \A n \in Nodes : IsLeafInputCacheable(dag, n) =>
        \E own \in SetToSeqs(Own(n)) :
            /\ \A k, l \in DOMAIN own : k < l =>
                   AnnotationRank[json.Nodes[dag.nodes[own[k]].originalIndex].Annotation]
                     < AnnotationRank[json.Nodes[dag.nodes[own[l]].originalIndex].Annotation]
            /\ leaf[n].offline = <<dag.nodes[n].annotation>>
                 \o FlattenSeq([k \in DOMAIN own |-> HashedNode(dag.nodes[own[k]])])

\* A build goes on only if everything its graph was signed with looks as it
\* did when the signatures were taken: a directory that became a file of the
\* same name is a change, a file whose contents only are listed is none.
UpToDateGraphIsCurrent ==
    phase = "building" =>
        /\ \A p \in ToSet(FindArray(json, "FileSignatures")) :
              world.paths[p].mtime = seen.paths[p].mtime
        /\ \A p \in ToSet(FindArray(json, "StatSignatures")) :
              world.paths[p].kind = seen.paths[p].kind
        /\ \A p \in ToSet(FindArray(json, "GlobSignatures")) :
              /\ world.paths[p].kind = seen.paths[p].kind
              /\ world.paths[p].dirs = seen.paths[p].dirs
              /\ world.paths[p].files = seen.paths[p].files
        /\ \A v \in ToSet(FindArray(json, "EnvironmentVariableSignatures")) :
              world.variables[v] = seen.variables[v]
===========================================================================
