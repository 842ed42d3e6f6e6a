----------------------------- MODULE LeafCache -----------------------------
(***************************************************************************)
(* Leaf input caching: the signature of a cacheable node is made of the    *)
(* contents of the versioned files below it, before anything is built, and *)
(* of the signatures of the cacheable nodes below it; under it outputs are *)
(* fetched from a cache, and uploaded to it after they were built.         *)
(* Several threads process the nodes of a graph, over several builds.      *)
(* Order of the queue, the checks of timestamps within a tick and the scan *)
(* cache are left to their own modules, and so are the lists of files that *)
(* might be included and of those a node ignores (GraphCompilation).       *)
(***************************************************************************)
EXTENDS Integers, Sequences, FiniteSets, SequencesExt

\* What can be reached from a set where step[x] is what x leads to: the least set
\* that holds it and that no step leaves.
Closure(start, step) ==
    LET all == start \cup UNION {step[x] : x \in DOMAIN step}
    IN  {x \in all : \A s \in SUBSET all :
            start \subseteq s /\ (\A y \in s : step[y] \subseteq s) => x \in s}

CONSTANTS
    Nodes, Deps,        \* Deps[n]: what n is built from
    Cacheable, Scanning,\* nodes that are cached; nodes whose inputs are scanned
    Requested,
    Inputs,             \* Inputs[n]: the versioned files among the inputs of n
    Contents,           \* Contents[f]: what may be in f, the first at first
    Includes,           \* Includes[c]: files and generated headers a text names
    HeaderIncludes,     \* HeaderIncludes[c]: what a header made from c names
    Workers,
    Environments,       \* [server, client, behaviour, letters] a build may find
    MaxClientFailureCount,
    MaxBuilds, MaxEdits, MaxIntrusions, MaxErrors

ASSUME ClientAssumption == IsFiniteSet(Workers) /\ MaxClientFailureCount \in Nat

\* What may be built: the files and the graph are there before anything runs, and
\* no node needs itself (DetectCyclicDependencies).
Files == DOMAIN Contents
AllTexts == UNION {ToSet(Contents[f]) : f \in Files}
ASSUME GraphAssumption ==
    /\ IsFiniteSet(Nodes) /\ "none" \notin Nodes /\ Nodes \cap Files = {}
    /\ Deps \in [Nodes -> SUBSET Nodes] /\ Inputs \in [Nodes -> SUBSET Files]
    /\ Cacheable \subseteq Nodes /\ Scanning \subseteq Nodes /\ Requested \subseteq Nodes
    /\ \A ns \in SUBSET Nodes : ns # {} => \E n \in ns : Deps[n] \cap ns = {}
\* Signatures are made of the names of files together with their contents.
ASSUME TextAssumption ==
    /\ \A f \in Files : Contents[f] \in Seq(ToSet(Contents[f])) /\ Contents[f] # <<>>
    /\ \A f, g \in Files : f # g => ToSet(Contents[f]) \cap ToSet(Contents[g]) = {}
    /\ Includes \in [AllTexts -> SUBSET (Files \cup Nodes)]
    /\ HeaderIncludes \in [AllTexts -> SUBSET (Files \cup Nodes)]

VARIABLES
    phase, disk, build, mode, edits, intrusions,
    out,        \* out[n]: the outputs on the disk
    record,     \* record[n]: the state of the last build
    cache,      \* {[signature, output]}, whoever shares it
    leaf,       \* leaf[n]: m_CurrentLeafInputSignature and who published it
    seen,       \* seen[f]: the content the stat and digest caches remember
    node,       \* node[n]: the RuntimeNode
    wanted, attempted,
    failureCount,   \* s_CacheClientFailureCount
    errors,         \* client calls that failed in this build
    worker

world == <<disk, edits, intrusions>>
client == <<cache, failureCount, errors>>
builds == <<phase, build, mode, record>>
vars == <<world, client, builds, out, leaf, seen, node, wanted, attempted, worker>>

NoSignature == [node |-> "none", texts |-> {}]
None == [value |-> NoSignature, by |-> 0]
NoRecord == [result |-> "none", signature |-> {}, leaf |-> NoSignature, implicit |-> {}]
Unknown == "unknown"
NoNode == [result |-> "DidNotRun", finished |-> FALSE, signature |-> {},
           implicit |-> {}, guaranteed |-> FALSE, waits |-> FALSE]
Idle == [pc |-> "idle", node |-> "none", stack |-> <<>>, stored |-> {}, count |-> 0, then |-> "idle"]

\* Letters are the old notation of a behaviour that is none of the words.
IsInvalid(e) ==
    /\ e.server
    /\ \/ ~e.client \/ e.behaviour = "unset"
       \/ e.behaviour = "letters" /\ ~(ToSet(e.letters) \subseteq {"R", "W", "_"})
CachingBehaviour(e) ==
    [reads  |-> e.server /\ (e.behaviour \in {"readwrite", "read"} \/ "R" \in ToSet(e.letters)),
     writes |-> e.server /\ (e.behaviour \in {"readwrite", "write"} \/ "W" \in ToSet(e.letters))]
\* Nodes that are queued, with what is below them up to a node that is cached.
Enqueued(ns, m) ==
    LET Cached(d) == d \in Cacheable /\ (m.reads \/ m.writes)
    IN  Closure(ns, [d \in Nodes |-> IF Cached(d) THEN {} ELSE Deps[d]])

---------------------------------------------------------------------------
(* Texts, outputs and signatures: a text is found in one file only, and    *)
(* what is made of files and outputs is the set of texts it is made of; no *)
(* output is there when the set is empty.                                  *)

Texts(files, view) == {view[f] : f \in files}

\* The versioned files a leaf scan finds: generated ones are left out.
LeafScan(starts, view) ==
    LET visible == [x \in Files |-> Includes[view[x]] \cap Files]
    IN  Closure(UNION {visible[f] : f \in starts}, visible)
\* What a normal scan finds, through generated headers too.
NormalScan(n, view, outs) ==
    LET named == [x \in Files \cup Nodes |->
            IF x \in Files THEN Includes[view[x]] ELSE UNION {HeaderIncludes[t] : t \in outs[x]}]
    IN  IF n \notin Scanning THEN {}
        ELSE Closure(UNION {named[f] : f \in Inputs[n]}, named) \cap Files

\* An action is a function of the files it reads and what its dependencies left.
Produced(n, view, outs) ==
    Texts(Inputs[n] \cup NormalScan(n, view, outs), view) \cup UNION {outs[d] : d \in Deps[n]}

\* The node and what is below it, not beyond nodes that are cacheable themselves.
Below == [n \in Nodes |->
    Closure({n}, [d \in Nodes |-> IF d = n \/ d \notin Cacheable THEN Deps[d] ELSE {}])]
Scope(n) == {d \in Below[n] : d = n \/ d \notin Cacheable}
CacheableDependencies(n) == {d \in Below[n] : d # n /\ d \in Cacheable}
NodesWithScanner(n) == Scope(n) \cap Scanning

ExplicitLeafInputs(n) == UNION {Inputs[d] : d \in Scope(n)}
ImplicitLeafInputs(n, view) ==
    LeafScan(UNION {Inputs[d] : d \in NodesWithScanner(n)}, view) \ ExplicitLeafInputs(n)

LeafInputs(n, view) == ExplicitLeafInputs(n) \cup ImplicitLeafInputs(n, view)

\* children: the signatures of the cacheable nodes below.
Combined(n, texts, children) == [node |-> n, texts |-> texts \cup UNION {c.texts : c \in children}]
\* Mutant: the signatures of the cacheable nodes below are left out.
LeafInputSignature_Alone(n, view, children) ==
    Combined(n, Texts(LeafInputs(n, view), view), {})
LeafInputSignature(n, view, children) ==
    Combined(n, Texts(LeafInputs(n, view), view), children)

\* Through the caches.
View == [f \in Files |-> IF seen[f] = Unknown THEN disk[f] ELSE seen[f]]
Looked(files) == [f \in Files |-> IF f \in files THEN View[f] ELSE seen[f]]

---------------------------------------------------------------------------
(* Processing a node *)

Step(w, pc) == worker' = [worker EXCEPT ![w].pc = pc]
Finish(w, n, result) ==
    /\ node' = [node EXCEPT ![n].result = result, ![n].finished = TRUE]
    /\ worker' = [worker EXCEPT ![w] = Idle]
Finished(ns) == \A n \in ns : node[n].finished
IsActive(n) == \E w \in Workers : worker[w].node = n
CachesNode(n) == n \in Cacheable /\ (mode.reads \/ mode.writes)

ProcessNode(w, n) ==
    /\ phase = "building" /\ worker[w].pc = "idle"
    /\ n \in wanted /\ ~node[n].finished /\ ~IsActive(n)
    /\ Finished(Deps[n]) \/ (CachesNode(n) /\ ~node[n].waits)
    /\ worker' = [worker EXCEPT ![w] = [@ EXCEPT
           !.node = n,
           !.pc = IF CachesNode(n) /\ n \notin attempted
                  THEN IF leaf[n] = None THEN "calculate" ELSE "lookup"
                  ELSE "dependencies",
           !.stack = IF leaf[n] = None THEN <<n>> ELSE <<>>]]
    /\ UNCHANGED <<world, client, builds, out, leaf, seen, node, wanted, attempted>>

\* CalculateLeafInputSignature
Calculating(w) == Last(worker[w].stack)
CalculateChild(w, child) ==
    /\ worker[w].pc = "calculate"
    /\ child \in CacheableDependencies(Calculating(w)) /\ leaf[child] = None
    /\ worker' = [worker EXCEPT ![w].stack = Append(@, child)]
    /\ UNCHANGED <<world, client, builds, out, leaf, seen, node, wanted, attempted>>

Signature(n) == LeafInputSignature(n, View, {leaf[d].value : d \in CacheableDependencies(n)})

\* Mutant: the last one to be done publishes.
Published_Last(n, w) == [leaf EXCEPT ![n] = [value |-> Signature(n), by |-> w]]
Published(n, w) ==
    IF leaf[n] = None THEN [leaf EXCEPT ![n] = [value |-> Signature(n), by |-> w]] ELSE leaf
Publish(w) ==
    /\ worker[w].pc = "calculate"
    /\ LET n == Calculating(w)
       IN  /\ \A d \in CacheableDependencies(n) : leaf[d] # None
           /\ leaf' = Published(n, w)
           /\ seen' = Looked(LeafInputs(n, View))
    /\ worker' = [worker EXCEPT ![w] = [@ EXCEPT
           !.stack = Front(worker[w].stack), !.pc = IF Len(worker[w].stack) = 1 THEN "lookup" ELSE "calculate"]]
    /\ UNCHANGED <<world, client, builds, out, node, wanted, attempted>>

\* Calls of the client are given up when too many have failed.
\* Mutant: they go on.
ClientMayBeCalled_Always == TRUE
ClientMayBeCalled == failureCount <= MaxClientFailureCount
\* The count is read here and written later, without a lock.
ClientFails(w, then) ==
    /\ errors < MaxErrors /\ errors' = errors + 1
    /\ worker' = [worker EXCEPT ![w].pc = "count", ![w].count = failureCount, ![w].then = then]
CountFailure(w) ==
    /\ worker[w].pc = "count"
    /\ failureCount' = worker[w].count + 1
    /\ IF worker[w].then = "finish" THEN Finish(w, worker[w].node, "RanSuccesfully")
       ELSE Step(w, worker[w].then) /\ UNCHANGED node
    /\ UNCHANGED <<world, cache, errors, builds, out, leaf, seen, wanted, attempted>>

\* AttemptToMakeConsistentWithoutNeedingDependenciesBuilt
IsConsistent(n) ==
    /\ record[n].result = "RanSuccessfullyWithGuaranteedCorrectInputSignature"
    /\ record[n].leaf = leaf[n].value
    /\ out[n] # {}
Lookup(w) ==
    /\ worker[w].pc = "lookup"
    /\ LET n == worker[w].node
       IN  IF ~mode.reads
           THEN Step(w, "dependencies") /\ UNCHANGED <<node, attempted>>
           ELSE IF IsConsistent(n)
           THEN Finish(w, n, "UpToDate") /\ UNCHANGED attempted
           ELSE /\ attempted' = attempted \cup {n}
                /\ Step(w, IF ClientMayBeCalled THEN "read" ELSE "dependencies")
                /\ UNCHANGED node
    /\ UNCHANGED <<world, client, builds, out, leaf, seen, wanted>>

CacheHit(w) ==
    /\ worker[w].pc = "read"
    /\ LET n == worker[w].node
       IN  /\ \E e \in cache : e.signature = leaf[n].value /\ out' = [out EXCEPT ![n] = e.output]
           /\ node' = [node EXCEPT ![n].result = "RanSuccesfully", ![n].finished = TRUE,
                                   ![n].guaranteed = TRUE]
    /\ worker' = [worker EXCEPT ![w] = Idle]
    /\ UNCHANGED <<world, client, builds, leaf, seen, wanted, attempted>>
CacheMiss(w) ==
    /\ worker[w].pc = "read"
    /\ \A e \in cache : e.signature # leaf[worker[w].node].value
    /\ Step(w, "dependencies")
    /\ UNCHANGED <<world, client, builds, out, leaf, seen, node, wanted, attempted>>
CacheReadFails(w) ==
    /\ worker[w].pc = "read"
    /\ ClientFails(w, "dependencies")
    /\ UNCHANGED <<world, cache, failureCount, builds, out, leaf, seen, node, wanted, attempted>>

EnqueueDependencies(w) ==
    /\ worker[w].pc = "dependencies"
    /\ ~Finished(Deps[worker[w].node])
    /\ wanted' = wanted \cup Enqueued(Deps[worker[w].node], mode)
    /\ node' = [node EXCEPT ![worker[w].node].waits = TRUE]
    /\ worker' = [worker EXCEPT ![w] = Idle]
    /\ UNCHANGED <<world, client, builds, out, leaf, seen, attempted>>

Successful(ns) == \A n \in ns : node[n].result \in {"UpToDate", "RanSuccesfully"}
\* ExecuteNode: the signature of the inputs, and whether the node has to run.
CheckInputSignature(w) ==
    /\ worker[w].pc = "dependencies"
    /\ LET n == worker[w].node
           implicit == NormalScan(n, View, out)
           signature == Produced(n, View, out)
           Checked(result) == [node EXCEPT ![n].signature = signature,
               ![n].implicit = implicit, ![n].guaranteed = TRUE,
               ![n].result = result, ![n].finished = result = "UpToDate"]
       IN  /\ Finished(Deps[n]) /\ Successful(Deps[n])
           /\ seen' = Looked(Inputs[n] \cup implicit)
           /\ IF /\ record[n].result = "RanSuccessfullyWithGuaranteedCorrectInputSignature"
                 /\ record[n].signature = signature /\ out[n] # {}
              THEN node' = Checked("UpToDate") /\ worker' = [worker EXCEPT ![w] = Idle]
              ELSE /\ node' = Checked("DidNotRun")
                   /\ worker' = [worker EXCEPT ![w] = [@ EXCEPT
                          !.pc = "run", !.stored = Texts(Inputs[n], disk)]]
    /\ UNCHANGED <<world, client, builds, out, leaf, wanted, attempted>>
DependencyFailed(w) ==
    /\ worker[w].pc = "dependencies"
    /\ LET n == worker[w].node
       IN  Finished(Deps[n]) /\ ~Successful(Deps[n]) /\ Finish(w, n, "DidNotRun")
    /\ UNCHANGED <<world, client, builds, out, leaf, seen, wanted, attempted>>

RunAction(w) ==
    /\ worker[w].pc = "run"
    /\ out' = [out EXCEPT ![worker[w].node] = Produced(worker[w].node, disk, out)]
    /\ Step(w, "validate")
    /\ UNCHANGED <<world, client, builds, leaf, seen, node, wanted, attempted>>

\* VerifyAllVersionedFilesIncludedByGeneratedHeaderFilesWereAlreadyPartOfTheLeafInputs
IsLeafInput(n, f) == ToSet(Contents[f]) \cap leaf[n].value.texts # {}
\* Mutant: what generated headers include is not looked at.
Verified_Never(n) == TRUE
Verified(n) ==
    \A d \in NodesWithScanner(n) :
        \A f \in (IF node[d].result = "UpToDate" THEN record[d] ELSE node[d]).implicit : IsLeafInput(n, f)
Unexpected(n) == \E d \in NodesWithScanner(n) : node[d].result \notin {"UpToDate", "RanSuccesfully"}

\* Nothing is uploaded when an input of the node itself changed meanwhile.
Validate(w) ==
    /\ worker[w].pc = "validate"
    /\ LET n == worker[w].node
           changed == worker[w].stored # Texts(Inputs[n], disk)
           uploads == ~changed /\ mode.writes /\ CachesNode(n)
       IN  /\ phase' = IF uploads /\ Unexpected(n) THEN "croaked" ELSE phase
           /\ IF uploads /\ Verified(n)
              THEN Step(w, IF ClientMayBeCalled THEN "write" ELSE "finish") /\ UNCHANGED node
              ELSE /\ node' = [node EXCEPT ![n].finished = TRUE, ![n].guaranteed = ~changed,
                                 ![n].result = IF uploads THEN "RanFailed" ELSE "RanSuccesfully"]
                   /\ worker' = [worker EXCEPT ![w] = Idle]
    /\ UNCHANGED <<world, client, build, mode, record, out, leaf, seen, wanted, attempted>>

\* AttemptCacheWrite
CacheWrite(w) ==
    /\ worker[w].pc = "write"
    /\ LET n == worker[w].node
       IN  /\ cache' = cache \cup {[signature |-> leaf[n].value, output |-> out[n]]}
           /\ Finish(w, n, "RanSuccesfully")
    /\ UNCHANGED <<world, failureCount, errors, builds, out, leaf, seen, wanted, attempted>>
CacheWriteFails(w) ==
    /\ worker[w].pc = "write"
    /\ ClientFails(w, "finish")
    /\ UNCHANGED <<world, cache, failureCount, builds, out, leaf, seen, node, wanted, attempted>>
\* Or the list of what the signature is made of cannot be written.
GiveUpWriting(w) ==
    /\ worker[w].pc \in {"write", "finish"}
    /\ Finish(w, worker[w].node, "RanSuccesfully")
    /\ UNCHANGED <<world, client, builds, out, leaf, seen, wanted, attempted>>

---------------------------------------------------------------------------
(* Builds *)

Fresh(environment) ==
    /\ phase' = IF IsInvalid(environment) THEN "croaked" ELSE "building"
    /\ mode' = CachingBehaviour(environment)
    /\ leaf' = [n \in Nodes |-> None] /\ seen' = [f \in Files |-> Unknown]
    /\ node' = [n \in Nodes |-> NoNode] /\ wanted' = Enqueued(Requested, mode') /\ attempted' = {}
    /\ failureCount' = 0 /\ errors' = 0

Init ==
    /\ phase = "between" /\ disk = [f \in Files |-> Head(Contents[f])] /\ build = 0
    /\ mode = [reads |-> FALSE, writes |-> FALSE] /\ edits = 0 /\ intrusions = 0
    /\ out = [n \in Nodes |-> {}] /\ record = [n \in Nodes |-> NoRecord]
    /\ cache = {} /\ leaf = [n \in Nodes |-> None] /\ seen = [f \in Files |-> Unknown]
    /\ node = [n \in Nodes |-> NoNode] /\ wanted = {} /\ attempted = {}
    /\ failureCount = 0 /\ errors = 0 /\ worker = [w \in Workers |-> Idle]

StartBuild(environment) ==
    /\ phase = "between" /\ build < MaxBuilds
    /\ build' = build + 1
    /\ Fresh(environment)
    /\ UNCHANGED <<world, record, cache, out, worker>>

\* What is kept of a node: of one that was up to date, all but the leaf input
\* signature is what it was.
Recorded(n) ==
    CASE node[n].result = "DidNotRun" -> record[n]
      [] node[n].result = "UpToDate" ->
            [record[n] EXCEPT !.leaf = IF leaf[n] = None THEN @ ELSE leaf[n].value]
      [] OTHER ->
            [signature |-> node[n].signature, leaf |-> leaf[n].value, implicit |-> node[n].implicit,
             result |-> IF node[n].result = "RanFailed" THEN "RanFailed"
                        ELSE IF node[n].guaranteed
                        THEN "RanSuccessfullyWithGuaranteedCorrectInputSignature"
                        ELSE "RanSuccessfullyButInputSignatureMightBeIncorrect"]
\* A failure ends the build early.
EndBuild ==
    /\ phase = "building"
    /\ Finished(Requested) \/ \E n \in Nodes : node[n].result = "RanFailed"
    /\ \A w \in Workers : worker[w].pc = "idle"
    /\ phase' = "between"
    /\ record' = [n \in Nodes |-> Recorded(n)]
    /\ UNCHANGED <<world, client, build, mode, out, leaf, seen, node, wanted, attempted, worker>>

\* External: somebody edits a file, between builds or during one.
Edit(f, c) ==
    /\ disk[f] # c
    /\ disk' = [disk EXCEPT ![f] = c]
    /\ IF phase = "between" THEN edits < MaxEdits /\ edits' = edits + 1 /\ UNCHANGED intrusions
       ELSE phase = "building" /\ intrusions < MaxIntrusions /\ intrusions' = intrusions + 1
              /\ UNCHANGED edits
    /\ UNCHANGED <<client, builds, out, leaf, seen, node, wanted, attempted, worker>>

\* External: the sources are built on another machine, which shares the cache.
Checkout ==
    /\ phase = "between" /\ edits < MaxEdits /\ edits' = edits + 1
    /\ out' = [n \in Nodes |-> {}] /\ record' = [n \in Nodes |-> NoRecord]
    /\ UNCHANGED <<phase, build, mode, disk, intrusions, client, leaf, seen, node, wanted, attempted, worker>>

Next ==
    \/ \E w \in Workers :
        \/ \E n \in Nodes : ProcessNode(w, n) \/ CalculateChild(w, n)
        \/ Publish(w) \/ Lookup(w) \/ CacheHit(w) \/ CacheMiss(w) \/ CacheReadFails(w) \/ CountFailure(w)
        \/ EnqueueDependencies(w) \/ CheckInputSignature(w) \/ DependencyFailed(w) \/ RunAction(w)
        \/ Validate(w) \/ CacheWrite(w) \/ CacheWriteFails(w) \/ GiveUpWriting(w)
    \/ \E e \in Environments : StartBuild(e)
    \/ EndBuild \/ Checkout
    \/ \E f \in Files : \E c \in ToSet(Contents[f]) : Edit(f, c)

Spec == Init /\ [][Next]_vars

---------------------------------------------------------------------------
(* Properties *)

Worlds == {v \in [Files -> UNION {ToSet(Contents[f]) : f \in Files}] :
            \A f \in Files : v[f] \in ToSet(Contents[f])}
\* What a first build of everything leaves in a world: a node runs when what is
\* below it was built.
BuiltBelow(k, outs) == [d \in Nodes |-> IF d \in Below[k] \ {k} THEN outs[d] ELSE {}]
Clean(v) ==
    LET outs[k \in Nodes] == Produced(k, v, BuiltBelow(k, outs))
    IN  [n \in Nodes |-> outs[n]]
SignatureIn(v) ==
    LET signature[k \in Nodes] ==
            LeafInputSignature(k, v, {signature[d] : d \in CacheableDependencies(k)})
    IN  [n \in Cacheable |-> signature[n]]
\* The outputs the worlds with a signature lead to.
Truth ==
    UNION {{[signature |-> SignatureIn(v)[n], output |-> Clean(v)[n]] : n \in Cacheable} : v \in Worlds}

\* Whoever finds an output in the cache for its sources would have built
\* the same: what is not in a signature has no influence on an output.
CacheIsTruthful ==
    \A e \in cache, t \in Truth : e.signature = t.signature => e.output = t.output

\* A build that succeeds leaves what a clean build would, wherever its parts
\* come from: the last build, the cache or an action.
BuiltIsClean ==
    phase = "building" /\ Finished(Requested) /\ Successful(Requested)
    => \A n \in Requested : out[n] = Clean(disk)[n]

\* A signature that was published stays for the build, whoever else computes
\* it: others may be reading it.
SignatureStays ==
    [][\A k \in Nodes : phase = "building" /\ leaf[k] # None => leaf'[k] = leaf[k]]_vars

\* How the counts that the workers go by may be spread: for each count up to the
\* limit, how many workers are beyond it.
Spreads ==
    {beyond \in [0 .. MaxClientFailureCount -> 0 .. Cardinality(Workers)] :
        \A k \in 1 .. MaxClientFailureCount : beyond[k] <= beyond[k - 1]}

\* A client that always fails is given up (CacheClient.cpp:98, 101). Counts are
\* lost, and one that is written late takes back those of all other workers, so
\* that calls go on after the client was said to be given up: but no failure
\* leaves the workers spread as they were before, which bounds their number.
ClientIsGivenUp == errors < Cardinality(Spreads)
===========================================================================
