# Tundra: specification, model checking and proofs

Tundra is the build backend of this repository. A frontend writes the build graph as JSON; tundra
freezes it into a memory-mapped file, works out what is out of date against what it remembers of
previous builds, and runs the actions of the graph on a pool of threads. This directory holds TLA+
modules of its core, the TLC configurations that check them and TLAPS proofs about them. File and line
references are to `src/tundra/src` unless they say otherwise.

## 1. The system

| Part | Source | State it keeps | Operations | Correct when |
|---|---|---|---|---|
| Build queue and build loop | `BuildQueue.cpp`, `BuildLoop.cpp` | `m_WorkStack`, flags and result of every `RuntimeNode`, `m_FinalBuildResult`, two counters, `m_DagVerificationStatus`, one mutex, two condition variables | enqueue, pick a task, verify the DAG, look a node up in the cache, execute it, finish it, sleep, leave | dependencies first, each node once, nothing forgotten, no wakeup lost, the result true, the build ends |
| Signals and canary | `SignalHandler.cpp`, `StandardInputCanary.cpp` | the reason of the signal; what was read from stdin | `SignalSet`, `ListenToStdin` | an interrupt ends the build, an `s` starts verification |
| DAG loading and freezing | `LoadOrBuildDag.cpp`, `DagGenerator.cpp` | the dag file and its derived file | freeze, load, derive | the graph means what the frontend wrote; its derived file is its own |
| DAG signatures and names | `DagData.cpp`, `FileSign.cpp`, `FindNodesByName.cpp` | signatures of what the frontend looked at | sign, compare; select by name | a graph in use is that of the files it was made from |
| Build graph | `DagData.*`, `DagDerivedCompiler.cpp` | frozen nodes; combined dependencies, backlinks, points, leaf inputs | computed once per graph | whatever a node depends on is in its lists |
| Cycle detection | `DetectCyclicDependencies.cpp` | colours, breadcrumbs | `Detect`, `DepthFirstSearch`, `PrintCycleFor` | finds a cycle exactly when there is one |
| Driver | `Driver.cpp`, `../Main.cpp` | state, scan and digest files; options | init, build, save | what a run learned is there for the next |
| Running a node | `RunAction.cpp`, `InputSignature.cpp`, `BuildLoop.cpp` | timestamps of the inputs, the node's signature | up-to-date check, run, validate | what is left alone is what a build from nothing makes |
| File caches | `StatCache.cpp`, `DigestCache.cpp`, `FileSign.cpp` | what is known of every file; reader/writer lock | look up, stat, insert, mark dirty | no stale answer after a node wrote the file |
| Leaf input cache | `LeafInputSignature*.cpp`, `CacheClient.cpp` | the signature of a node, a failure count | compute, look up, verify, store | an output under a signature is what its sources make; a client that fails is given up |
| Build state | `AllBuiltNodes.cpp`, `RemoveStaleOutputs.cpp` | the nodes of previous builds, by guid | load, merge and save; delete what is no longer made | no record lost, sorted by guid; stale files deleted |
| Include scanning | `Scanner.cpp`, `ScanCache.cpp`, `IncludeScanner.cpp`, `PathUtil.cpp` | frozen and new scan records | scan, look up, insert, save | the transitive includes, from the cache as from the files |
| Shared resources | `SharedResources.cpp` | a count per resource | acquire, destroy | created once, destroyed after the last user |
| Containers | `HashTable.hpp`, `Buffer.hpp`, `MemAlloc*.cpp` | tables, arenas | insert, look up, grow, rewind | as a map; as a stack |
| Processes, JSON, hashes, messages | `ExecUnix.cpp`, `JsonParse.cpp`, `Hash*.cpp`, `NodeResultPrinting.cpp`, ... | buffers of a call | | |

How they interact. `Main` runs the driver: it loads the graph (freezing, cycle check and derivation
first, if there is a new JSON), deletes stale outputs, and calls `BuildQueueBuild`. That enqueues the
requested nodes under `m_Lock`, which the main thread has held since before the workers were started,
wakes them and waits for the end. The workers share the queue under that one mutex and give it up
around the slow work: checking the DAG's own signatures, looking a node up in the cache, running it,
statting files ahead of need. During that work they share the stat, digest and scan caches, which have
locks of their own. The canary thread and the signal handlers interfere with the queue from outside,
the former without its lock. When the main thread is woken it reads the result, joins the workers,
destroys shared resources and saves the state files.

What is hard here: the queue's flags have to fit together over many interleavings (a node can be on
the stack before its dependencies, taken off, and come back); wakeups are economised; the end of a
build is recognised by comparing two counters; verification of the graph runs beside the build; files
written by one node are statted and digested by others, and edited by the user at any moment, with
times that do not tell two writes of one tick apart; four caches on disk outlive the run that filled
them, and a run can be killed while it writes them. `PROJECT.json` lists the hazards with their lines.

## 2. The modules

| Module | Models |
|---|---|
| `BuildDag` | the graph as the scheduler sees it: `ToBuild`, `ToUse`, `NodePoints`, and what `DagDerivedCompiler.cpp` computes from them, `CombinedDependencies` and `NodeBacklinks` |
| `NodeSchedule` | abstract: what a build promises about its nodes |
| `BuildLoop` | the build queue, its workers, the main thread, the canary and the signals |
| `MCBuildLoop` | graphs for TLC |
| `BuildLoopProofs` | theorems about `BuildLoop`: that no wakeup is lost, that what a build returns is true, that it implements `NodeSchedule` |
| `CycleDetector` | `DetectCyclicDependencies`, over every graph |
| `CycleDetectorProofs` | theorems about `CycleDetector` |
| `SharedResources` | `SharedResources.cpp`, from the first node that needs a resource to its destruction |
| `SharedResourcesProofs` | theorems about `SharedResources` |
| `Sorting` | `std::sort`, which leaves the order of equal elements open |
| `DagGenerator` | `DagGenerator.cpp`: the frozen graph of a JSON document |
| `DagDerived` | what is computed from a frozen graph, and the offline part of leaf input signatures |
| `DagSignatures` | signing a graph, and comparing the signatures with a world |
| `FindNodesByName` | from names on the command line to nodes |
| `GraphCompilation` | the last four one after the other: freeze, derive, select, check |
| `GraphCompilationProofs` | theorems about `GraphCompilation` |
| `BuildRecords` | which records of built nodes are kept, and what is in them |
| `BuildState` | the merge of this build's nodes with the records of earlier builds |
| `Driver` | runs of the program, with the files they leave to each other (extends `BuildState`) |
| `DriverProofs` | theorems about `Driver` and `BuildState` |
| `FileCaches` | the stat cache and the digest cache |
| `NodeExecution` | from picking a node to finishing it, over several builds (extends `FileCaches`) |
| `NodeExecutionProofs` | theorems about `NodeExecution` |
| `PathUtil` | `PathUtil.cpp` |
| `IncludeScanner` | the include statements of a text |
| `ScanCache` | the frozen and the new half of the scan cache |
| `Scanner` | `ScanImplicitDeps` on several threads (extends the three above) |
| `ScannerProofs` | theorems about `Scanner` and `ScanCache` |
| `LeafCache` | leaf input signatures and the cache they are used with |
| `LeafCacheProofs` | theorems about `LeafCache` |
| `MCBuildLoop`, `MCSharedResources`, `MCNodeExecution`, `MCDriver`, `MCGraphCompilation`, `MCScanner`, `MCLeafCache` | instances for TLC |

### BuildDag

The two dependency lists and the points are constants. `AddToUseDependenciesOfDagNodeRecursive`
collects the to-build dependencies of a node and everything their to-use lists hand on;
`CombinedDependencies` defines the same set as the least one closed that way. That the graph has no
cycle is an assumption here, and what `CycleDetector` proves of a graph that got past the check.

### BuildLoop

State. The flags of the `RuntimeNode`s are sets of nodes (`queued`, `active`, `finished`, ...), the
results a function. `workStack` is a set: `BufferAppendOneIfNotPresent` keeps out duplicates, and every
caller sorts the stack before the lock is given up or a node is popped, so what is popped is a node of
the highest points; equal points are popped in any order. `lock` is the owner of `m_Lock`. `pc` says
where a worker is.

Atomicity. Under the lock only two things can come in between the steps of a worker: the canary
thread, which writes `m_DagVerificationStatus` and signals without the lock, and signals. A worker's
step under the lock therefore reaches to its next read of either. The unlocked sections (`verify`,
`lookup`, `execute`, `stat`) are left by an action that takes the lock again and does everything the code
does under it with the outcome.

| Action | Code |
|---|---|
| `TakeLock` | `BuildLoop`: the lock, the head of the loop |
| `PickDagVerification`, `FinishDagVerification`, `NoDagVerification` | `PickAndDoDagVerificationTask` |
| `PopStale`, `NextNode`, `NoNodeToPick` | `NextNode`, `PickAndDoProcessNodeTask` |
| `PickEarlyStat`, `FinishEarlyStat`, `NoTask` | `PickAndDoEarlyStatTask` and the end of `PickAndDoNextTask` |
| `BeginCacheLookup`, `CacheLookupMadeConsistent`, `CacheLookupFoundNothing` | the first half of `ProcessNode` |
| `EnqueueToBuildDependencies`, `SkipNode`, `BeginExecuteNode`, `FinishExecuteNode` | the second half, with `FinishNode` |
| `PrepareToSleep`, `SleepUntilWorkAvailable`, `SpuriousWakeup`, `LeaveBuildLoop` | `MightMoreWorkArrive`, `CondWait`, the end of `BuildLoop` |
| `BuildQueueBuild` ... `BuildQueueDestroy` | the main thread |
| `ReceiveS`, `NotifyWorker`, `StdinClosed`, `HandleSignal` | the canary thread, the signal handlers |

Not in the model: the requests that only print a leaf input signature; messages, logs and
the locking of `m_Lock` around them inside `ExecuteNode`; the contents of files. `ExecuteNode`
and the cache lookup are a choice among everything the code can return.

### NodeSchedule

The promise without threads: a node starts when what it builds on is built, completes once, is restored
from the cache or skipped behind a failure, and `Ok` is only returned when the requested nodes are
built. `BuildLoop` implements it with `running` the nodes being executed.

### CycleDetector

`DepthFirstSearch` recurses; `stack` holds its calls with what each has left to visit. The graph is a
variable chosen in `Init`, so a run covers every graph of its size. Dependencies and roots are visited in
any order, which includes the order of the file.

### SharedResources

A worker runs an action (`node`), is at one of the resources in the node's list (`next`) and either looks at
its count without the lock (`FindCreated`, `FindMissing`), has taken the lock and looks again
(`FindCreatedMeanwhile`, `BeginCreate`), or creates it (`FinishCreate`), which may fail unless the resource
has no create action. `world` is what the create and destroy actions did outside of the program. The main
thread joins the workers and destroys what has a count. Which nodes are run, and when, is left open: any
order `BuildLoop` can give is among those here, and a worker may leave with nodes still to do.

`FinishCreate` counts a resource whose creation failed (`SharedResources.cpp:52` does not look at the result).
Only the node that tried fails: a node that comes later finds the count and runs, which is why
`RunsWithResources` promises no more than that creation was tried. At the end the resource is destroyed
with the others, although `BuildQueue.cpp:120` says "Destroy any shared resources that were created".
`NothingLeftBehind` depends on it: a failed create action may have left something.

### GraphCompilation and its parts

A JSON document is a record; a field that is absent is not in its domain. Nodes count from 1. The digest of
a text is given by `digest`, a choice of ranks, so that the same graph is frozen in several orders of
its guids; `DagGenerator` sorts, remaps and writes every index through the table as `ComputeNodeGuids` and
`WriteNodes` do. `DagDerived` walks the frozen graph with the code's own lists, in the order the code visits,
since some of its results are sequences: flattened dependencies, backlinks, points, leaf inputs, scanner
files, and the texts that are hashed ahead (`LeafInputHashOffline`). The calls under way of a recursion, and the stack of
the search for dependent nodes, are lists that a loop works off in as many rounds as there are nodes: a node is added once. `DagSignatures` takes a world, from paths to
what is there and from variables to their values; a glob is signed with the text that is hashed.

Actions follow the calls: `ComputeNodeGuids`, `InvalidGraph` or `CompileDag`, `WriteDependencies`, `WritePoints`,
`WriteCacheableNodeData`, `DriverSelectNodes`, `Edit` of the world, `CheckDagSignatures`. Signatures are taken when
the graph is frozen, not when the frontend looked; a change in between is not noticed, and is outside what
`UpToDateGraphIsCurrent` promises. A variable that is not set ends in the phase `crashed`: `strcmp` is given
a null pointer (`DagData.cpp:183`).

### Driver, BuildState and BuildRecords

`BuildRecords` is what a record of the state file holds and which are kept. A guid is the hash of the paths of
a node's outputs, so it stands for them. `BuildState` is the walk of `SaveAllBuiltNodes` over two sorted arrays,
one action for each thing the traversal does; `MergedRecords` says without an order what should
be written. `Driver` runs the program over and over: `FreezeFails` to `LoadDagDerived` are `LoadOrBuildDag`, then come
`LoadState`, `OnlyReports`, `RemoveStaleOutputs`, `DriverBuild` (any result of any node), `WalkRecords`, and `CommitState` or
`SavingStateFails`. `Kill` ends a run at any of them. A graph and its derived file are written in place: a run
that is killed while it writes leaves a torn file, which the next load rejects, and `FlushFails` leaves
the first segment, magic number included, of a file whose rest could not be written.

### NodeExecution and FileCaches

A thread that executes a node has a frame: the phase it is in (`sign`, `compare`, `outputs`, `stamps`, `wait`, `remove`,
`mkdir`, `act`, `mark`, `validate`, ...), the input it is at, what it has signed. `StatCacheStat` is three steps, as
in the code: a lookup, `lstat` with no lock held, and the insertion. `FileCaches` keeps for every file a
sequence of entries, for two threads that both miss insert it twice, and growing the table may
change which is found. `DigestCache` entries are valid for a time. `Tick` lets file times pass: a file is
dated with the tick it is written in. `UserEdits`, `UserDeletes` and `Kill` may come at any moment. A `Scenarios`
record says how the surroundings are: how many threads, builds and edits, which inputs are signed by
digest, what an action may do, whether the clock goes back or an input is dated in the future.

### Scanner and its parts

A line is a sequence of tokens, a path the sequence of its pieces; `PathUtil` takes paths apart and joins them. A
thread in a scan has a stack of files to look into. `Pop` asks the stat cache, which remembers the files that
are not there too; `LookupHit`, `LookupMiss`, `ReadFile`, `Insert` follow `ScanImplicitDeps`. `ReadFile` looks for the included
files and remembers what it saw in one step. `ScanCache` has the buckets of the table, each
chain as the set of its records (a key is in it once, so their order decides nothing), the frozen records in the order of their keys, and the traversal that merges both at the end of a build. `Generate`
is a node that writes a header, `Edit` and `EditDuringBuild` a user, `NextBuild` lets days pass.

### LeafCache

An output is the set of texts it is made of, a signature the set of texts that are hashed for
it: two signatures are equal when they were made of the same. A node is processed by `ProcessNode`, `CalculateChild`
and `Publish` (the compare-and-exchange), `Lookup`, then `CacheHit`, or a miss, `EnqueueDependencies`,
`CheckInputSignature`, `RunAction`, `Validate` and `CacheWrite`. `Verified` is the check, made before an upload, that
generated headers include nothing that is not in the signature. An environment says which variables
are set; one that is not understood ends the program. `Checkout` is another machine that shares the cache.

## 3. The runs

| Run | Instance | Shows |
|---|---|---|
| `plain` | three workers, five nodes, one of which releases three, a to-use dependency, early stats, continue on failure | dependencies first, nothing forgotten, saving a wakeup costs no parallelism, whatever is not behind a failure is built, result true and final, and the implementation of `NodeSchedule` |
| `cached` | two workers, the same graph, `app` and `a` cacheable, interrupts, a main thread that wakes by itself, the build stops at a failure | a node that is looked up, missed, put back and pushed again is still built once; every build ends |
| `deferred` | chain of three, deferred verification, `s`, signals, spurious wakeups | what is returned says what happened; with two workers the `s` is always acted upon |
| `graphs` | every graph of three nodes | the cycle detector is exact and ends |
| `acquire` | three threads, three nodes, two resources taken in opposite orders, one of which may fail | a resource is created once, is there while an action runs, is destroyed once all have ended |
| `execute` | two nodes, a chain or sharing a source, in six scenarios of up to three builds | a build that is undisturbed leaves what a build from nothing would; caches and records are never better than the truth |
| `lifecycle` | three runs of two frontends over one directory, one accident | no record or file is forgotten, the state file stays sorted, stale outputs go, a graph is built with its own derived data |
| `freeze` | four nodes, 243 arrangements of five dependencies, four choices of what is cached, three orders of guids; seven graphs to refuse; a signed graph in worlds that differ in one thing | the frozen graph means what was written; a cached node is looked up by all it depends on; a change of what was signed is noticed |
| `scan` | two threads, three scans of a source with three headers (one generated, one that includes itself, one empty), two builds, one accident | a scan from the cache finds what a scan of the files would; saving drops nothing in use; scans end |
| `leaf_cache` | two threads, five nodes, three of them cached, two builds, two edits or checkouts, a client that fails | what is fetched is what would be built |

Bounds. Two workers show every race between two threads over one node or one wakeup; the broadcast
against the signal in `WakeWaiters` needs three, which `plain` has. Five nodes hold each shape the
scheduler treats differently: a node with several dependents, one with several dependencies, a to-use
edge that is handed on, and independent nodes. Three nodes have cycles of length one to three, beside
and behind acyclic parts; four nodes (7.9 million states) hold no more shapes and pass too. Three threads are
the least with one that creates, one that waits for the lock and one that takes the unlocked path.
In `execute` a chain of two has each kind of input (a source, an output of another node) and two nodes with one
source each kind of race; two builds are a record and its use, and three (`killed`) one that was killed in
between. `MaxAccidents = 1` in `lifecycle` and `scan`, `MaxIntrusions = 0` in `leaf_cache`, and the numbers of the
scenarios are the bounds on what the surroundings do; the code itself counts nothing that had to be bounded.
In `lifecycle` three runs are a graph, another, and the first again. `scan` has a table of one bucket to start with,
so that it grows, and keeps entries two days instead of a week. `leaf_cache` gives up the client after the second
failure that is counted (`MaxClientFailureCount = 1`; the code has 5): the least limit at which a count that is written late
takes back what another worker has counted. `MaxErrors = 6` is one more failure than `ClientIsGivenUp` allows
for two workers, so the bound of the model does not stand in for what is checked. `CHECK_DEADLOCK FALSE` is set because programs end.

Fairness. `BuildLoop` gives weak fairness to each worker, the main thread and the canary's signal: the
operating system runs every thread that can run, and pthread mutexes are handed to a waiter
eventually. An action of a node is assumed to end. Nothing is assumed of signals, spurious wakeups and
stdin. Weak fairness of a worker is taken with the lock counted as something it waits for, so a
worker that finds the lock taken each time is not promised to get it. `CycleDetector` is a
sequential program that is run to its end. In `SharedResources` each worker and the main thread are weakly fair, and
create actions end. `NodeExecution` is weakly fair to the threads of a build and to time, which the wait for file
times needs, and `Scanner` to the threads that scan. `Driver`, `GraphCompilation` and `LeafCache` state no fairness and
no liveness: their steps are those of a sequential program, or ordered by the queue of `BuildLoop`.

What a property leaves out is in its comment. The exceptions that matter:

* `IncrementalEqualsClean` starts a build only when every output is dated in the past (`quick` FALSE): within the tick in
  which an output was written, writing it again does not change its time, and a second build takes
  what is made from it for up to date. Its digest scenario takes no text twice in one file. It also excludes a
  node whose action was writing, or had failed, when the build was killed, if its record calls the output good (`torn`): the node
  was run for a reason other than its signature, nothing is saved of the killed build, and the next one believes what was left.
* `BuiltGraphIsChecked` excludes runs after one that was cut short between writing the graph and its derived
  file, which no later run notices: `LoadOrBuildDag.cpp:58` checks for cycles and derives only if there is
  a new JSON or no derived file.
* `WrittenFilesAreRemembered` is about files some build recorded. A file in an output directory is only discovered after
  an action ran; one that an action left before its node failed in preparation is never known.
* `ScanIsExact` excludes builds in which a file is edited, and scans after a failed read. An edit during a build may
  leave an entry with the new time and the old text for the rest of that build only.
* `ClientIsGivenUp` allows for counts that are lost when threads increment at once. It does not say "at most as many failures
  as the limit and the workers": a worker that read the count long ago takes it back for all others when it writes, and may do
  so again. What no failure can do is leave the workers spread over the counts as they were, and `Spreads` counts these:
  4 failures at most for the run's two workers and limit 1, 3002 for eight workers and limit 5. So the message
  of `CacheClient.cpp:101`, "The rest of the build will not attempt any more cache client operations", may be printed and
  not kept.
* `GeneratedInputsAreFresh` with digests of outputs is checked where no build is killed. TLC finds this otherwise: an
  output is deleted and built anew within the tick it was last written in, the build is killed and so does not save its
  dirty marks (`DigestCache.cpp:178`), and the next build finds the old digest under the time the file has again.

### What the code does against what it says

Two runs check a statement of the repository and find it violated; `findings` quotes the lines.

* `stdin_closed`: `-c` is documented as "Abort build if stdin is closed"; a closed stdin does not end a build that
  still waits for its `s`.
* `untouched`: outputs that must not be removed first are to be backdated so that a write is noticed; the code
  compares seconds with nanoseconds, never backdates, and a node whose output was written over in the tick
  of the last write fails.

Others were met while modelling. No run states them:

* `CHECK(RuntimeNodeIsQueued(...))` in `NextNode` fails for a cacheable node that was missed in the cache and
  released by `FinishNode`. Nothing else reads the flag.
* "the BuildFinsished conditional variable gets signaled as soon as the buildresult will guaranteed no longer change"
  (`BuildQueue.cpp:116-117`). With deferred verification a worker that finds the counters equal
  leaves (`BuildLoop.cpp:910`) while another is still in `CheckDagSignatures`, without the lock: `BuildQueueBuild` then returns before the
  verification sets `RequireFrontendRerun`. `ReturnedResultIsFinal` is therefore not checked in `deferred`, nor proved for it.
* The main thread waits with `CondWait` outside of a loop (`BuildQueue.cpp:170`), so a wakeup without a signal
  returns a result that is not final. That is why the properties of `plain` are not checked in `cached`.
* An interrupted build goes on starting nodes, and with a single build thread an `s` can be lost.
* One edit of a source during a build can put an output under the signature of the old text into the leaf
  input cache, where it stays for everyone (`MaxIntrusions = 1` in `LeafCache`): the verification of
  `BuildLoop.cpp:545` is of the times of the node's own inputs, not of the leaf inputs the signature was made of.
* That generated headers include nothing that is not in the signature is only verified in builds that write (`BuildLoop.cpp:558`). A build that
  only reads records an unverified node as good under its signature. A later build that reads and writes takes it for up to date after such a file changed, and
  uploads what is made of it: with `read` among the environments, and two texts for `m`, both `BuiltIsClean` and `CacheIsTruthful` are violated.
* A cacheable node that scans its own inputs is among the nodes whose headers are verified, with a result that is
  still `kDidNotRun`: it reaches the `Croak` of `LeafInputSignature.cpp:319`.
* A cache entry for a file is found by the time of the file, not of the files on the include path: a header that appears
  in an earlier directory of the path is not noticed until the including file changes (`Scanner.cpp:66`).
* `#include"x"` without a space is not recognized (`IncludeScanner.cpp:37`).
* An absolute path that begins with `..` keeps it (`PathUtil.cpp`), and so names another entry of the same file.
* The texts a guid is made of are hashed one after the other without separators (`DagGenerator.cpp:675`), and the guid
  of a generic scanner does not depend on its keywords.
* Nodes with the same annotation are hashed in an unspecified order (`LeafInputSignatureOffline.cpp:19`).
* The scanner's walk through generated files has no set of visited nodes (`DagDerivedCompiler.cpp:122`): generators that
  may include each other's files would not end it.

Three comments describe something the code no longer does and no property depends on: `NextNode` says a
node may be on the stack more than once, which `BufferAppendOneIfNotPresent` prevents; `ProcessNode` says
it tests whether the DAG was verified and tests whether verification is deferred; and a worker woken by
the canary may do early stats first.

## 4. The proofs

`BuildLoopProofs` proves for every graph, number of workers and combination of options:

* `TypeCorrect`;
* `SchedulingInvariant`, the inductive invariant `SchedulingInv`. `OneWorkerPerNode` carries itself: the
  flag `kActive` is set exactly while a worker has the node, and `NextNode` leaves active and finished
  nodes alone. `DependenciesFirst` and `CountersAgree` need it: a node that is finished once keeps
  its result and is counted once. `CountersAgree` also needs that only enqueued nodes are finished
  (`OnlyEnqueued`). `NoForgottenNode` is the delicate one. It is strengthened to `WaitsForEnqueued` (the
  to-build dependencies of a waiting node are enqueued, and one of its combined dependencies is
  unfinished) and `ToUseEnqueued`; that an enqueue keeps both rests on what it flags being closed
  (`FirstTimeEnqueuedClosed`), that a finished node does rests on its backlinks. Neither needs the graph
  to be acyclic, which is what makes builds end;
* from it `OneWorkerAtATime`, `BuiltInOrder`, `CountersCountNodes`, `NothingForgotten` and the action
  property `FinishedForGood`.

The assumptions are the named ones of `BuildDag` and `BuildLoop`: finite sets of nodes and workers, an
acyclic graph, options that are Booleans, the main thread no worker, and that deferred
verification comes with the canary, which the driver insists on.

There are also, for builds in which the `CondWait` of the main thread only returns when it
is signalled (`Main \notin SpuriousWakeups`):

* `OkIsTrue`: when `Ok` is returned every enqueued node, the requested ones among them, is built;
* `LoopImplementsSchedule`: the loop implements `NodeSchedule`.

* `ToldWhy` and `GoesOn`: the main thread only leaves its wait for a signal, or a build that is over (`NoMoreToCome`), so that with
  `-k` whatever is not behind a failure is built (`KeepsGoing`);
* `ReturnsFinalResult`: what was returned is still the result when the workers have ended (`ReturnedResultIsFinal`).

and for every build:

* `FailuresAreReported`: a build in which a node failed does not end as a success (`FailureIsReported`).

The assumption is needed: a main thread that wakes by itself returns what the result is at that moment.
`ReturnsFinalResult` needs two more. `~DeferDagVerification`: a verification that is still running when the build ends may turn
what was returned into a rerun, as TLC shows (see above). `Requested # {}`: with nothing to build the counters are equal
from the start, and the same happens without deferring. Nothing is requested when no name was given and the
graph has no default nodes (`Driver.cpp:175-186`).

The invariant behind the first two is `ResultInv`. `ResultsAreHonest` ties `m_FinalBuildResult` to the results of the finished
nodes. `MainIsToldTheTruth` says that a main thread that is past its wait without a signal is in a build that is
over: all enqueued nodes are finished, or it is known that not all can be built. A worker that leaves the loop
has found that (`LeavesWhenOver`: equal counters mean equal sets, by `CountersAgree`), and it stays
so until the main thread has read the result (`OverStays`: a build in which everything is finished
has no node left to process). `ReportInv` adds what is recorded of failures: a skipped node has a failed one below it, a failed
verification asks for a rerun. `MainIsToldWhy` and `ReturnIsFinal` rest on it. `LookupsAreCacheable` lets a successful
lookup map to `Restore`.

And, whatever wakes by itself:

* `SomebodyIsAwake`: while there is a node to take, or a graph to verify, some worker is awake that will look (`NoLostWakeup`);
* `NoParallelismLost`: while workers sleep, as many are on their way as there are entries on the stack
  (`EnoughWorkersAwake`), if the graph is verified before anything is built. With deferred verification TLC refutes it: the worker an
  entry counted on takes the verification instead.

`WakeupInv` is what makes them inductive: a worker that is about to sleep found nothing to take, and nothing was added since
(`DullInv`, which needs to know who has the lock); an entry for a node that is being processed was put there by the node's
dependency, and the node will not be put back (`ReleasedInv`); the graph is verified by one worker (`VerificationInv`); and
`EnoughInv` counts the workers on their way against the entries.

`DriverProofs` proves about `Driver`, for any graphs, frontends, runs, failures and kills, all five invariants of `lifecycle`:
`SpecStateIsSorted`, `SpecBuiltGraphIsChecked`, `SpecWritesMergedRecords`, `SpecWrittenFilesAreRemembered` and
`SpecStaleOutputsAreGone`. The inductive invariant has a part for each matter: `MemoryInv` says what a process has in memory in
which phase; `GraphInv` which of the two graph files can be trusted where; `SavedInv` that both state files are sorted, one record for a guid;
`HistoryInv` that a written file is in a record that names the graph. `WalkInv` is the one of the merge. `Between` says that what lies behind one
iterator comes before all that is in front of the other, but for what is skipped anyway; `WrittenUpTo` that exactly the records
that passed are written, in order. At the end both iterators are through, and what passed is `MergedRecords`.

`NodeExecutionProofs` proves for any graph, number of threads, user and clock all safety properties of `execute`:

* `FramesAreEarned` and `RecordsAreEarned`: types, and the action property `RecordIsEarned`. A frame counts as run successfully only once its
  action succeeded (`EarnedInv`): an action that wrote nothing leaves the output with the time that was taken before;
* `ChangesAreNoticed` and `GuaranteedIsUnchanged`: `GuaranteedMeansUnchanged`. `WatchedInv` says that the stored times are in the past when the
  action begins (`CheckClock`, `WaitUntilInThePast`), so that an edit shows in the time of the file; that a source dated as stored was dated so when
  the action read it; and that the comparison looks at the disk, since the entry of a source that one node alone reads is single
  (`EnteredOnce`) and was marked dirty;
* `CachesAreFresh` and `SignedInputsAreFresh`: `GeneratedInputsAreFresh`. `FreshInv` says that a node that has begun has finished producers (`ProducersFirst`),
  that the stat cache has nothing, a dirty entry or the true time of their outputs (`OutputEntered`), that what is signed so far is what is in the files
  (`SignsFresh`), and that the digest of an output is dirty, of another time, or that of its content (`DigestsOfOutput`). `KillsLoseNoDigest`, under
  which this holds, keeps kills and digests of outputs apart in a scenario, for the reason given above;
* `RecordsAreTrue` and `RebuiltIsClean`: `IncrementalEqualsClean`, in scenarios in which times tell that files changed (`TimesTell`). `CleanInv`
  says of every record that calls its output good: as long as the inputs are dated as it says, the output is what the action makes of them
  (`RecordTrue`), and the times in it are so far in the past that no later write can have them again (`RecordDated`). The frame of a running
  node has the same of its own signature (`RunTrue`), from what the caches held when it was signed (`Honest`) to the stored timestamps, which are
  the signed ones (`Remembered`). An entry of the stat cache about a source may be wrong, but only in a build the
  user edits in, and the time it should be is in no good record (`Renewed`). Hence a build that nobody edits in leaves every node as its inputs are, and
  along the graph, which has no cycle, that is `CleanContent` (`LocallyCleanIsClean`: of all nodes that differ take one that
  needs none of the others).

`TimesTell` asks three things. Inputs are signed by time: that a digest is of the content the cache dates is only model-checked
(scenario `digests`). `quick` is FALSE, for the reason given above. And two nodes that read one source do not run at the same time, by one
thread or by their order: two of them look the source up between each other's steps, one
may mark dirty what the other has just signed, and `Remembered` is false. Scenario `shared` has two such nodes.

The steps of a node are first described field by field (the `...Outcome` lemmas) and by what they do to the disk and the caches
(`NodeEffects`), once for all four invariants. `ScenarioAssumption` is what a graph is: no file is made by two nodes, which
`DagGenerator.cpp` refuses, sources are the inputs no node makes, the directory is none of them, and no node needs itself, which
`DetectCyclicDependencies` has found out by then.

`LeafCacheProofs` proves `FailingClientIsGivenUp` and, as an action property, `PublishedSignatureStays`. For the former, `SpreadInv` weighs
the failures so far against the spreads that are still to come: whoever writes the count after `c` leaves the workers below `c` alone and brings one
more beyond `c`, so the spreads are met in ascending order, smaller counts compared first, and none twice.

It also proves `CachedOutputsAreTrue` and `SuccessfulBuildIsClean`, of `CacheIsTruthful` and `BuiltIsClean`. What there is to show is that a
signature tells the output although files that only a generated header includes are not in it. `TruthInv` says that everything is of
one world, a choice of contents for all files: an entry of the cache, a good record and what is on the disk each have a world whose signature
and clean output they are, and what is known of a node in a build is of the world on the disk. An entry, and the record of a cacheable node,
also have all texts of the output in the signature (`Covers`), which is what `Verified` looks for before an upload. Two worlds with that signature then agree on
these texts, so scans and actions find the same in both (`SignatureTellsOutput`). `Clean` and `SignatureIn` go down the graph; that
they are defined (`RecursionIsDefined`) and what two worlds have in common is shown by taking, of all nodes that are left, one with none of the others below it.
The assumptions on the constants are what a graph and files are: `GraphAssumption` that nodes and files are told apart and no node needs itself,
`TextAssumption` that a text is found in one file, since signatures hash names with contents. The theorems have three hypotheses, which the instance of the run
satisfies:

* `MaxIntrusions = 0`: nobody edits during a build;
* `EveryBuildWrites`: every build writes to the cache what it builds. What one that only reads leaves was never verified (see above);
* `HeadersAreBelow`: a generated header that a node may include is made below the node, so that it is there when the node runs. Nothing in the code
  makes sure of it, as in any build that includes what it does not depend on.

`ScannerProofs` proves, for any files, scanners, requests, threads and hash, the action property `SavingIsSound`, and `IncludesAreFound`.
`ScannerInv` is the order of the cache: every key is in its chain and there once, and what was saved is sorted. The traversal that merges both halves is
taken step by step: after each step what is saved is sorted, before all that is to come, and lacks no record and no entry that is kept
(`AdvanceMerges`). A step that leads from this to something else would be a least one, and there is none (`LoopKeeps`). The same
lemma says what a scan has after it has taken up a list of includes, and what a saved cache loads as.

Of what a scan finds, `TruthInv` says that an entry of the cache, new or frozen, holds of its file as long as the file has the time the entry
is cached under (`EntryTrue`); a change gives the file a time no entry has, so entries stay true (`EntryStays`). What a scan has found is in every set that is
closed under includes, and what it has found already and is not on its stack is looked into (`FindsTrue`); so a scan that has ended has found what can be
reached, no more and no less (`CachesChangeNothing`), and what was inserted is found again (`InsertedStaysInTable`). A generated file is the hard part: it
appears while others scan, and a list cached before must be a list that would be made after. That is so (`ScanLeads`) under a hypothesis, which
`MCScanner` assumes of its instance for TLC to evaluate:

* `NothingShadowed`: no generated file comes, on the path an include is looked for, before a file that is there from the start. Without it `ScanIsExact` is
  false of this code, for the reason given above (`Scanner.cpp:66`).

`LinesAreRead` compares the scanner of C++, which skips, matches and skips again, with the shape of a statement: `SkipSpaceOutcome` says where each
step stands in the line, `NameOutcome` that a name begins at the one place it may. `ScansLoseNothing` puts these together; it has
`IncludesGoByOnePath` as a second hypothesis, a fact of the constants alone that folds over the pieces of a path, which TLC evaluates.

`GraphCompilationProofs` proves for any graphs, digests, requests and worlds all four invariants of `freeze`. `CompiledInv` says that what a phase
computed stays as it is: the frozen graph is that of the JSON and of the world that was there, and so on. Each property is then one of the operators
that compute it.

* `IdentitiesAreKept`: sorting loses no node (`SortedElements`), the table leads back (`OrderOutcome`), so an index means the same node before and
  after (`OriginalOutcome`). Guids are ascending because neighbours that are equal are refused; that no outputs are twice follows, since a guid is
  that of the outputs;
* `DependenciesAreComplete`: a round adds one dependency or changes nothing, and what is in the list or still to do is in every closed set
  (`AddOutcome`). As many different nodes as there are, are all (`OnceCovers`), so no dependency is left when the rounds are over (`FlattenOutcome`);
* `PointsLeadUpwards`: in a graph without cycles every node has a height (`NodesHaveHeights`), along which the points are defined and
  fall (`PointsOutcome`);
* `SelectionIsMeant`: at distance zero two names are the same letters (`NoDistance`, along the table of distances), one prefix is nobody else's, and what is selected is
  sorted, each node once. `GraphsKeepTheirMeaning` puts these four together;
* `LeafInputsAreComplete`: a search finds what is reached without passing through a cached node, and the cached nodes it stops at
  (`FindOutcome`); where the search of one ends, that of the next begins;
* `ScannersSeeSources`: what is read in place of a generated file is what can be reached through generators (`ReadOutcome`);
* `OfflineHashesAreStable`: the nodes that are hashed are its own (`OwnIsFound`), in the order of their annotations;
* `BuildsUseCurrentGraphs`: two lists of directory entries with the same text are the same lists (`GlobsAreTold`), by the separator between them.

Loops are functions of the number of rounds. That there is such a function (`LoopIsDefined`) and what every round keeps
(`LoopKeeps`) are shown by way of a least round that fails. Three hypotheses are about graphs, and `MCGraphCompilation` assumes them of its
instance for TLC to evaluate:

* `NoCycles`, for the points and with them `GraphsKeepTheirMeaning`: `DetectCyclicDependencies` is called before anything is derived (`LoadOrBuildDag.cpp:58`), and
  `CycleDetectorProofs` proves that a graph it lets through has none;
* `GeneratorsEnd`, for `ScannersSeeSources` and with it `CachedNodesAreCovered`: no node may include, through any number of generated files, what it
  makes. `CollectNonGeneratedFilesBeingOperatedOnByScanner` recurses along these files and would not end; nothing else in the code excludes it;
* `AnnotationsDiffer`, for `OfflineHashesAreStable`: `strcmp` tells the annotations of a graph apart. Where it does not, `std::sort` leaves the nodes in
  an order that depends on their places in the graph (`LeafInputSignatureOffline.cpp:19`), and the hash is not stable.

The named assumptions on the constants are about types: indices of a graph are indices of its nodes, digests are numbers, names are sequences, and what a graph signs is
somewhere in every world.

`CycleDetectorProofs` proves, over any finite set of nodes, `DetectorTypeCorrect` (the walk over the
breadcrumbs never steps off), `EveryCycleIsFound` and `EveryPrintedCycleIsReal`. The invariant `SearchInv` says
that the nodes being visited are those on the call stack, each once; that each call was made for a
dependency of the one below and left a breadcrumb that says so; that what a call no longer has to visit
is cleared or is the call above it; and that cleared nodes only depend on cleared nodes and have no cycle
among them. `WalksDownTheStack` relates the walk to the stack while the cycle is collected.

`SharedResourcesProofs` proves, for any nodes, resources, threads and failures, the type invariant,
`CreatedOnce`, `RunsWithResources`, `NothingLeftBehind` and `DestroyedForGood`. `ResourceInv` adds that a worker has
been through the resources before its place in the list (`Acquired`), that the counts tell what there is
outside (`CreatedIsKnown`) and that nothing is destroyed before every thread has ended
(`DestroyedAfterJoin`).

Only model-checked:

* liveness (`BuildTerminates`, `SStartsVerification`, `DetectionEnds`, `BuildEnds`, `ScansEnd`), which is beyond the prover;
* `IncrementalEqualsClean` where `TimesTell` does not hold: with files signed by digest, and with two nodes that read one source at once;
* `IncludesGoByOnePath`, which needs induction over the pieces of a path, and what generic scanners recognize;
* in `GraphCompilation`, what a name that is not found is offered instead (`FuzzyMatches`), and that its three hypotheses hold of a given
  graph, which TLC evaluates for the instance.

## 5. What is left

Theorems worth having next: `IncrementalEqualsClean` for two nodes that read one source at once, which needs what the stat cache promises to
both; and `IncrementalEqualsClean` where files are signed by digest.

Worth modelling still: the composition of `NodeExecution` with the queue of `BuildLoop` (it now starts a node
whenever its producers are done), the requests that only print a leaf input signature, `HashTable` against a map,
the output loop of `ExecUnix`, and `JsonParse`.

## Not modelled

* Processes (`ExecUnix.cpp`): the outcome of an action is a choice of its results.
* JSON and binary layout (`JsonParse.cpp`, `BinaryWriter.cpp` but for how a write fails): text in, bytes out, no state that outlives a call.
* Hash arithmetic: a digest is what it is made of.
* Allocators and hash tables, but for the tables in which order or growth matters (`ScanCache`, `FileCaches`).
* Messages, logs, statistics, profiling: no decision reads them.
* The Windows and macOS backends, which this build does not compile, and the vendored regular expressions:
  whether the output of an action is accepted is part of its result.
* The options of `Main.cpp`, but for those that choose among the steps of `Driver` and `BuildLoop`.
