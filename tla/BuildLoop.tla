------------------------------ MODULE BuildLoop ------------------------------
(***************************************************************************)
(* The build queue and its threads: BuildQueueInit/BuildQueueBuild on the  *)
(* main thread, BuildLoop on every worker, the stdin canary thread and     *)
(* the signal handler. One mutex (m_Lock) protects the queue; workers      *)
(* sleep on m_WorkAvailable, the main thread on                            *)
(* m_BuildFinishedConditionalVariable.                                     *)
(*                                                                         *)
(* A step of a worker is either one unlocked section (checking the DAG     *)
(* signatures, a cache lookup, executing a node, a batch of early stats)   *)
(* or what it does under the lock up to the next point where the canary    *)
(* thread, which writes m_DagVerificationStatus WITHOUT the lock, can come *)
(* in between.                                                             *)
(***************************************************************************)
EXTENDS BuildDag

CONSTANTS
  Worker,              \* the build threads
  Main,                \* the main thread, as an owner of m_Lock
  NoOne,               \* m_Lock is free
  NoNode,              \* a worker that holds no node
  Requested,           \* m_RequestedNodes, what DriverSelectNodes found
  Cacheable,           \* nodes with kFlagCacheableByLeafInputs
  File,                \* non-generated input files
  NonGeneratedInputs,  \* [Node -> SUBSET File], m_NodeNonGeneratedInputIndicies
  EarlyStatBatch,      \* batchSize of PickAndDoEarlyStatTask
  AttemptCacheReads, AttemptCacheWrites,
  DeferDagVerification, StandardInputCanary, ContinueOnFailure,  \* DriverOptions
  SpuriousWakeups,     \* threads whose CondWait may return without a signal
  Interruptible        \* SIGINT, SIGTERM or SIGQUIT may arrive

ASSUME LoopAssumption ==
  /\ IsFiniteSet(Worker) /\ Worker # {}
  /\ Main \notin Worker /\ NoOne \notin Worker \cup {Main}
  /\ NoNode \notin Node
  /\ Requested \subseteq Node /\ Cacheable \subseteq Node
  /\ NonGeneratedInputs \in [Node -> SUBSET File]
  /\ EarlyStatBatch \in Nat \ {0}
  /\ AttemptCacheReads \in BOOLEAN /\ AttemptCacheWrites \in BOOLEAN
  /\ DeferDagVerification \in BOOLEAN /\ ContinueOnFailure \in BOOLEAN
  /\ StandardInputCanary \in BOOLEAN
  /\ SpuriousWakeups \subseteq Worker \cup {Main} /\ Interruptible \in BOOLEAN

(* DriverBuild refuses deferred verification without the canary. *)
ASSUME CanaryAssumption == DeferDagVerification => StandardInputCanary

VARIABLES
  \* the BuildQueue
  lock,                       \* owner of m_Lock
  dagVerificationStatus,      \* m_DagVerificationStatus
  workStack,                  \* m_WorkStack; kept sorted and free of duplicates
  earlyStatQueue,             \* m_QueueForNonGeneratedFileToEartlyStat
  earlyStatSeen,              \* m_InputFilesAlreadyQueuedForEarlyStatting
  finalBuildResult,           \* m_FinalBuildResult
  finishedNodeCount,          \* m_FinishedNodeCount
  amountOfNodesEverQueued,    \* m_AmountOfNodesEverQueued
  \* the RuntimeNodes: the nodes that have the flag, and m_BuildResult
  queued, hasEverBeenQueued, active, attemptedCacheLookup, finished,
  buildResult,
  \* the threads
  pc,                         \* where each worker is
  node,                       \* the node a worker processes
  mainPc, returned,           \* main thread; what BuildQueueBuild returned
  canary,                     \* the ListenToStdin thread
  signalled                   \* s_SignalInfo.m_Reason is set

queueVars == <<dagVerificationStatus, workStack, earlyStatQueue, earlyStatSeen,
               finalBuildResult, finishedNodeCount, amountOfNodesEverQueued>>
nodeVars == <<queued, hasEverBeenQueued, active, attemptedCacheLookup, finished,
              buildResult>>
mainVars == <<mainPc, returned>>
envVars == <<canary, signalled>>
vars == <<lock, queueVars, nodeVars, pc, node, mainVars, envVars>>

NodeBuildResult == {"DidNotRun", "UpToDate", "UpToDateButDependeesRequireFrontendRerun",
                    "RanSuccesfully", "RanFailed", "RanSuccessButDependeesRequireFrontendRerun"}

(* What ExecuteNode can return. *)
ExecuteResult == NodeBuildResult \ {"DidNotRun"}

Successful == {"RanSuccesfully", "UpToDate"}

BuildResult == {"Ok", "Interrupted", "BuildError", "RequireFrontendRerun"}

VerificationStatus == {"WaitingForInput", "RequiredVerification", "BeingVerified",
                       "Passed", "Failed"}

WorkerPc == {"lock",     \* about to take m_Lock and go round the loop
             "pick",     \* PickAndDoNextTask: DAG verification first
             "next",     \* PickAndDoNextTask: a node, or files to stat
             "process",  \* ProcessNode entered
             "build",    \* ProcessNode after the cache lookup found nothing
             "more",     \* MightMoreWorkArrive
             "sleep",    \* about to CondWait
             "verify", "lookup", "execute", "stat",   \* the unlocked sections
             "asleep",   \* in CondWait on m_WorkAvailable
             "exited"}

HoldsLock == {"pick", "next", "process", "build", "more", "sleep"}
HasNode == {"process", "build", "lookup", "execute"}
-----------------------------------------------------------------------------
(* Readiness and enqueueing *)

CachingEnabled == AttemptCacheReads \/ AttemptCacheWrites

IsNodeCacheableByLeafInputsAndCachingEnabled(n) == CachingEnabled /\ n \in Cacheable

AllDependenciesAreFinished(n) == CombinedDependencies[n] \subseteq finished

(* Mutant: a dependency that did not run is no failure. *)
AllDependenciesAreSuccesful_IfRun(n) ==
  \A d \in CombinedDependencies[n] : buildResult[d] \in Successful \cup {"DidNotRun"}
AllDependenciesAreSuccesful(n) ==
  \A d \in CombinedDependencies[n] : buildResult[d] \in Successful

(* Enqueueing puts a node straight on the work stack if it can be acted    *)
(* upon at once; a node that cannot only pulls in what it waits for.       *)
Actionable(n) ==
  AllDependenciesAreFinished(n) \/ IsNodeCacheableByLeafInputsAndCachingEnabled(n)

Pulls(n) == ToUse[n] \cup (IF Actionable(n) THEN {} ELSE ToBuild[n])

(* The nodes EnqueueNodeWithoutWakingAwaiters flags, called for each of    *)
(* roots: a node that was ever queued stops the recursion, any other is    *)
(* flagged before the recursion goes on to what it pulls in.               *)
FirstTimeEnqueued(roots) ==
  {n \in Node : \A S \in SUBSET Node :
      (roots \ hasEverBeenQueued \subseteq S
         /\ \A m \in S : Pulls(m) \ hasEverBeenQueued \subseteq S) => n \in S}

(* Every caller sorts the stack before the lock is released or a node is   *)
(* popped, so the stack is the set of its entries, popped by points.       *)
EnqueueNodes(roots) ==
  LET fresh == FirstTimeEnqueued(roots)
      files == UNION {NonGeneratedInputs[n] : n \in {m \in fresh : ~Actionable(m)}}
  IN  /\ amountOfNodesEverQueued' = amountOfNodesEverQueued + Cardinality(fresh)
      /\ queued' = queued \cup fresh
      /\ hasEverBeenQueued' = hasEverBeenQueued \cup fresh
      /\ workStack' = workStack \cup {n \in fresh : Actionable(n)}
      /\ earlyStatQueue' = earlyStatQueue \cup (files \ earlyStatSeen)
      /\ earlyStatSeen' = earlyStatSeen \cup files

-----------------------------------------------------------------------------
(* Condition variables *)

Sleepers == {w \in Worker : pc[w] = "asleep"}

(* The sets of workers a call may wake. CondSignal wakes one sleeper, if   *)
(* there is one; WakeWaiters broadcasts for a count above one.             *)
CondSignal == IF Sleepers = {} THEN {{}} ELSE {{w} : w \in Sleepers}
CondBroadcast == {Sleepers}
WakeWaiters(count) == IF count > 1 THEN CondBroadcast ELSE CondSignal

(* Mutant: one too few is woken. *)
WakeForPlaced_OneTooFew(placed) == IF placed > 2 THEN WakeWaiters(placed - 2) ELSE {{}}

(* After placing entries on the stack the worker counts itself as one of   *)
(* those that will take them.                                              *)
WakeForPlaced(placed) == IF placed > 1 THEN WakeWaiters(placed - 1) ELSE {{}}

(* w goes on to next, the woken workers queue up for the lock. *)
Goto(w, next, woken) ==
  pc' = [v \in Worker |-> IF v = w THEN next ELSE IF v \in woken THEN "lock" ELSE pc[v]]

(* Only the woken move. *)
Wake(woken) == pc' = [v \in Worker |-> IF v \in woken THEN "lock" ELSE pc[v]]

Acquire(t) == lock = NoOne /\ lock' = t
Release(t) == lock = t /\ lock' = NoOne
Holding(t) == lock = t /\ UNCHANGED lock

-----------------------------------------------------------------------------
(* FinishNode: n is finished, and the nodes that waited for it last become *)
(* actionable. The caller sets buildResult and holds the lock.             *)

(* Mutant: only direct dependees are looked at. *)
Released_Direct(n) ==
  {m \in hasEverBeenQueued :
      n \in ToBuild[m] /\ CombinedDependencies[m] \subseteq finished \cup {n}}

Released(n) ==
  {m \in NodeBacklinks[n] \cap hasEverBeenQueued :
      CombinedDependencies[m] \subseteq finished \cup {n}}

FinishNode(w, n, next) ==
  /\ finished' = finished \cup {n}
  /\ active' = active \ {n}
  /\ finishedNodeCount' = finishedNodeCount + 1
  /\ workStack' = workStack \cup Released(n)
  /\ \E woken \in WakeForPlaced(Cardinality(Released(n) \ workStack)) : Goto(w, next, woken)
  /\ node' = [node EXCEPT ![w] = NoNode]
  /\ UNCHANGED <<queued, hasEverBeenQueued, amountOfNodesEverQueued, earlyStatQueue,
                 earlyStatSeen>>

-----------------------------------------------------------------------------
(* The worker: PickAndDoNextTask *)

(* Top of the loop: the first lock, or the return from CondWait or from an *)
(* unlocked section.                                                       *)
TakeLock(w) ==
  /\ pc[w] = "lock" /\ Acquire(w)
  /\ Goto(w, "pick", {})
  /\ UNCHANGED <<queueVars, nodeVars, node, mainVars, envVars>>

PickDagVerification(w) ==
  /\ pc[w] = "pick" /\ dagVerificationStatus = "RequiredVerification"
  /\ Release(w)
  /\ dagVerificationStatus' = "BeingVerified"
  /\ Goto(w, "verify", {})
  /\ UNCHANGED <<workStack, earlyStatQueue, earlyStatSeen, finalBuildResult,
                 finishedNodeCount, amountOfNodesEverQueued, nodeVars, node,
                 mainVars, envVars>>

NoDagVerification(w) ==
  /\ pc[w] = "pick" /\ dagVerificationStatus # "RequiredVerification"
  /\ Holding(w)
  /\ Goto(w, "next", {})
  /\ UNCHANGED <<queueVars, nodeVars, node, mainVars, envVars>>

(* CheckDagSignatures ran without the lock; what it found is the           *)
(* environment's choice. The status is set to Passed or Failed whatever it *)
(* is by now.                                                              *)
FinishDagVerification(w, isValid) ==
  /\ pc[w] = "verify" /\ Acquire(w)
  /\ dagVerificationStatus' = IF isValid THEN "Passed" ELSE "Failed"
  /\ finalBuildResult' = IF isValid THEN finalBuildResult ELSE "RequireFrontendRerun"
  /\ \E woken \in WakeWaiters(Cardinality(workStack)) : Goto(w, "pick", woken)
  /\ UNCHANGED <<workStack, earlyStatQueue, earlyStatSeen, finishedNodeCount,
                 amountOfNodesEverQueued, nodeVars, node, mainVars, envVars>>

StopPicking ==
  \/ dagVerificationStatus = "Failed"
  \/ finalBuildResult = "BuildError" /\ ~ContinueOnFailure

AllowedToPickUpProcessNodeTask == DeferDagVerification \/ dagVerificationStatus = "Passed"

(* NextNode pops the entry with the most points and drops it if the node   *)
(* is being processed or done.                                             *)
Top(n) == n \in workStack /\ \A m \in workStack : NodePoints[m] <= NodePoints[n]
(* Mutant: one of the two tests of an old entry is missing. *)
Stale_OnlyFinished(n) == n \in finished
Stale(n) == n \in active \cup finished

CanPop(w, n) ==
  /\ pc[w] = "next" /\ ~StopPicking /\ AllowedToPickUpProcessNodeTask
  /\ Top(n)

PopStale(w, n) ==
  /\ CanPop(w, n) /\ Stale(n) /\ Holding(w)
  /\ workStack' = workStack \ {n}
  /\ UNCHANGED <<dagVerificationStatus, earlyStatQueue, earlyStatSeen, finalBuildResult,
                 finishedNodeCount, amountOfNodesEverQueued, nodeVars, pc, node,
                 mainVars, envVars>>

NextNode(w, n) ==
  /\ CanPop(w, n) /\ ~Stale(n) /\ Holding(w)
  /\ workStack' = workStack \ {n}
  /\ queued' = queued \ {n}
  /\ active' = active \cup {n}
  /\ node' = [node EXCEPT ![w] = n]
  /\ Goto(w, "process", {})
  /\ UNCHANGED <<dagVerificationStatus, earlyStatQueue, earlyStatSeen, finalBuildResult,
                 finishedNodeCount, amountOfNodesEverQueued, hasEverBeenQueued,
                 attemptedCacheLookup, finished, buildResult, mainVars, envVars>>

NoNodeToPick(w) ==
  pc[w] = "next" /\ ~StopPicking /\ (AllowedToPickUpProcessNodeTask => workStack = {})

PickEarlyStat(w) ==
  /\ NoNodeToPick(w) /\ earlyStatQueue # {} /\ Release(w)
  /\ \E batch \in SUBSET earlyStatQueue :
       /\ \/ Cardinality(batch) = EarlyStatBatch
          \/ batch = earlyStatQueue /\ Cardinality(batch) < EarlyStatBatch
       /\ earlyStatQueue' = earlyStatQueue \ batch
  /\ Goto(w, "stat", {})
  /\ UNCHANGED <<dagVerificationStatus, workStack, earlyStatSeen, finalBuildResult,
                 finishedNodeCount, amountOfNodesEverQueued, nodeVars, node,
                 mainVars, envVars>>

FinishEarlyStat(w) ==
  /\ pc[w] = "stat" /\ Acquire(w)
  /\ Goto(w, "pick", {})
  /\ UNCHANGED <<queueVars, nodeVars, node, mainVars, envVars>>

NoTask(w) ==
  /\ pc[w] = "next" /\ Holding(w)
  /\ StopPicking \/ (NoNodeToPick(w) /\ earlyStatQueue = {})
  /\ Goto(w, "more", {})
  /\ UNCHANGED <<queueVars, nodeVars, node, mainVars, envVars>>

-----------------------------------------------------------------------------
(* The worker: ProcessNode *)

NeedsCacheLookup(n) ==
  IsNodeCacheableByLeafInputsAndCachingEnabled(n) /\ n \notin attemptedCacheLookup

BeginCacheLookup(w) ==
  /\ pc[w] = "process" /\ NeedsCacheLookup(node[w]) /\ Release(w)
  /\ Goto(w, "lookup", {})
  /\ UNCHANGED <<queueVars, nodeVars, node, mainVars, envVars>>

(* AttemptToMakeConsistentWithoutNeedingDependenciesBuilt succeeded: the   *)
(* leaf inputs are those of the last build (up to date, no lookup made),   *)
(* or the cache had the outputs. FinishNode runs under a lock of its own,  *)
(* released again before ProcessNode takes the lock and returns.           *)
CacheLookupMadeConsistent(w, r) ==
  /\ pc[w] = "lookup" /\ AttemptCacheReads /\ lock = NoOne /\ UNCHANGED lock
  /\ buildResult' = [buildResult EXCEPT ![node[w]] = r]
  /\ attemptedCacheLookup' = IF r = "UpToDate" THEN attemptedCacheLookup
                             ELSE attemptedCacheLookup \cup {node[w]}
  /\ FinishNode(w, node[w], "lock")
  /\ UNCHANGED <<dagVerificationStatus, finalBuildResult, mainVars, envVars>>

(* No reads wanted, a miss, a failing cache client, or one given up on. *)
CacheLookupFoundNothing(w) ==
  /\ pc[w] = "lookup" /\ Acquire(w)
  /\ attemptedCacheLookup' = IF AttemptCacheReads THEN attemptedCacheLookup \cup {node[w]}
                             ELSE attemptedCacheLookup
  /\ Goto(w, "build", {})
  /\ UNCHANGED <<queueVars, queued, hasEverBeenQueued, active, finished, buildResult,
                 node, mainVars, envVars>>

AboutToBuild(w) ==
  \/ pc[w] = "build"
  \/ pc[w] = "process" /\ ~NeedsCacheLookup(node[w])

EnqueueToBuildDependencies(w) ==
  /\ AboutToBuild(w) /\ ~AllDependenciesAreFinished(node[w]) /\ Holding(w)
  /\ EnqueueNodes(ToBuild[node[w]])
  /\ active' = active \ {node[w]}
  /\ \E woken \in WakeForPlaced(Cardinality(workStack' \ workStack)) : Goto(w, "pick", woken)
  /\ node' = [node EXCEPT ![w] = NoNode]
  /\ UNCHANGED <<dagVerificationStatus, finalBuildResult, finishedNodeCount,
                 attemptedCacheLookup, finished, buildResult, mainVars, envVars>>

BeginExecuteNode(w) ==
  /\ AboutToBuild(w) /\ AllDependenciesAreFinished(node[w])
  /\ AllDependenciesAreSuccesful(node[w]) /\ Release(w)
  /\ Goto(w, "execute", {})
  /\ UNCHANGED <<queueVars, nodeVars, node, mainVars, envVars>>

(* Mutant: ProcessNode reports a skipped node as no task done. *)
SkipNode_NoTask(w) ==
  /\ AboutToBuild(w) /\ AllDependenciesAreFinished(node[w])
  /\ ~AllDependenciesAreSuccesful(node[w]) /\ Holding(w)
  /\ FinishNode(w, node[w], "more")
  /\ UNCHANGED <<dagVerificationStatus, finalBuildResult, attemptedCacheLookup,
                 buildResult, mainVars, envVars>>

(* A node whose dependencies did not all succeed is finished without being *)
(* run; its m_BuildResult stays DidNotRun.                                 *)
SkipNode(w) ==
  /\ AboutToBuild(w) /\ AllDependenciesAreFinished(node[w])
  /\ ~AllDependenciesAreSuccesful(node[w]) /\ Holding(w)
  /\ FinishNode(w, node[w], "pick")
  /\ UNCHANGED <<dagVerificationStatus, finalBuildResult, attemptedCacheLookup,
                 buildResult, mainVars, envVars>>

(* Mutants: the node's result as it is; a failure does not count in a      *)
(* build that goes on.                                                     *)
BuildResultAfter_NodeResult(r) == r
BuildResultAfter_KeepsOk(r) ==
  IF r = "RanFailed" /\ ~ContinueOnFailure THEN "BuildError" ELSE finalBuildResult

(* How a node's result changes the result of the build. *)
BuildResultAfter(r) ==
  CASE r = "RanFailed" ->
         IF finalBuildResult = "RequireFrontendRerun" /\ DeferDagVerification
         THEN finalBuildResult ELSE "BuildError"
    [] r \in {"RanSuccessButDependeesRequireFrontendRerun",
              "UpToDateButDependeesRequireFrontendRerun"} ->
         IF finalBuildResult = "Ok" THEN "RequireFrontendRerun" ELSE finalBuildResult
    [] OTHER -> finalBuildResult

FinishExecuteNode(w, r) ==
  /\ pc[w] = "execute" /\ Acquire(w)
  /\ buildResult' = [buildResult EXCEPT ![node[w]] = r]
  /\ finalBuildResult' = BuildResultAfter(r)
  /\ FinishNode(w, node[w], "pick")
  /\ UNCHANGED <<dagVerificationStatus, attemptedCacheLookup, mainVars, envVars>>

-----------------------------------------------------------------------------
(* The worker: nothing to pick *)

(* Mutants: the counters are not compared; an error ends a build that     *)
(* should go on; the s is not waited for.                                  *)
MightMoreWorkArrive_StackOnly ==
  dagVerificationStatus = "WaitingForInput" \/ workStack # {}
MightMoreWorkArrive_StopsOnError ==
  /\ dagVerificationStatus # "Failed" /\ finalBuildResult # "BuildError"
  /\ finishedNodeCount # amountOfNodesEverQueued /\ ~signalled
MightMoreWorkArrive_NoWaiting ==
  /\ dagVerificationStatus # "Failed" /\ ~signalled
  /\ finishedNodeCount # amountOfNodesEverQueued

MightMoreWorkArrive ==
  \/ dagVerificationStatus = "WaitingForInput"
  \/ /\ dagVerificationStatus # "Failed"
     /\ finishedNodeCount # amountOfNodesEverQueued
     /\ ~ (finalBuildResult = "BuildError" /\ dagVerificationStatus = "Passed"
             /\ ~ContinueOnFailure)
     /\ ~signalled

PrepareToSleep(w) ==
  /\ pc[w] = "more" /\ MightMoreWorkArrive /\ Holding(w)
  /\ Goto(w, "sleep", {})
  /\ UNCHANGED <<queueVars, nodeVars, node, mainVars, envVars>>

SleepUntilWorkAvailable(w) ==
  /\ pc[w] = "sleep" /\ Release(w)
  /\ Goto(w, "asleep", {})
  /\ UNCHANGED <<queueVars, nodeVars, node, mainVars, envVars>>

SpuriousWakeup(w) ==
  /\ w \in SpuriousWakeups /\ pc[w] = "asleep"
  /\ Goto(w, "lock", {})
  /\ UNCHANGED <<lock, queueVars, nodeVars, node, mainVars, envVars>>

(* A broadcast or signal on m_BuildFinishedConditionalVariable. *)
WakeMain == mainPc' = IF mainPc = "waiting" THEN "woken" ELSE mainPc

(* Mutant: the other workers are left asleep. *)
LeaveBuildLoop_NoBroadcast(w) ==
  /\ pc[w] = "more" /\ ~MightMoreWorkArrive /\ Release(w)
  /\ Goto(w, "exited", {})
  /\ WakeMain
  /\ UNCHANGED <<queueVars, nodeVars, node, returned, envVars>>

LeaveBuildLoop(w) ==
  /\ pc[w] = "more" /\ ~MightMoreWorkArrive /\ Release(w)
  /\ \E woken \in CondBroadcast : Goto(w, "exited", woken)
  /\ WakeMain
  /\ UNCHANGED <<queueVars, nodeVars, node, returned, envVars>>

-----------------------------------------------------------------------------
(* The main thread. It has owned m_Lock since BuildQueueInit. *)

BuildQueueBuild ==
  /\ mainPc = "enqueue" /\ Release(Main)
  /\ EnqueueNodes(Requested)
  /\ Wake(Sleepers)
  /\ mainPc' = "waiting"
  /\ UNCHANGED <<dagVerificationStatus, finalBuildResult, finishedNodeCount, active,
                 attemptedCacheLookup, finished, buildResult, node, returned, envVars>>

(* This wait has no predicate: any return from it counts as a signal. *)
MainSpuriousWakeup ==
  /\ Main \in SpuriousWakeups /\ mainPc = "waiting"
  /\ mainPc' = "woken"
  /\ UNCHANGED <<lock, queueVars, nodeVars, pc, node, returned, envVars>>

(* CondWait takes the lock again, BuildQueueBuild gives it up at once. *)
BuildFinished ==
  /\ mainPc = "woken" /\ lock = NoOne
  /\ mainPc' = "signal"
  /\ UNCHANGED <<lock, queueVars, nodeVars, pc, node, returned, envVars>>

CheckSignalReason ==
  /\ mainPc = "signal"
  /\ IF signalled THEN mainPc' = "join" /\ returned' = "Interrupted"
                  ELSE mainPc' = "result" /\ UNCHANGED returned
  /\ UNCHANGED <<lock, queueVars, nodeVars, pc, node, envVars>>

(* return queue->m_FinalBuildResult, read without the lock *)
ReturnFinalBuildResult ==
  /\ mainPc = "result"
  /\ mainPc' = "join" /\ returned' = finalBuildResult
  /\ UNCHANGED <<lock, queueVars, nodeVars, pc, node, envVars>>

(* BuildQueueDestroy joins every build thread. *)
BuildQueueDestroy ==
  /\ mainPc = "join" /\ \A w \in Worker : pc[w] = "exited"
  /\ mainPc' = "done"
  /\ UNCHANGED <<lock, queueVars, nodeVars, pc, node, returned, envVars>>

-----------------------------------------------------------------------------
(* The outside world. A frontend that deferred verification writes one 's' *)
(* when the inputs of the build program are there, and closes stdin when   *)
(* it goes away.                                                           *)

ReceiveS ==
  /\ canary = "listening" /\ DeferDagVerification
  /\ dagVerificationStatus' = "RequiredVerification"
  /\ canary' = "notify"
  /\ UNCHANGED <<lock, workStack, earlyStatQueue, earlyStatSeen, finalBuildResult,
                 finishedNodeCount, amountOfNodesEverQueued, nodeVars, pc, node,
                 mainVars, signalled>>

NotifyWorker ==
  /\ canary = "notify"
  /\ \E woken \in CondSignal : Wake(woken)
  /\ canary' = "gotS"
  /\ UNCHANGED <<lock, queueVars, nodeVars, node, mainVars, signalled>>

(* SignalSet publishes the reason and broadcasts to the main thread only.  *)
SignalSet == signalled' = TRUE /\ WakeMain

StdinClosed ==
  /\ canary \in {"listening", "gotS"}
  /\ SignalSet
  /\ canary' = "closed"
  /\ UNCHANGED <<lock, queueVars, nodeVars, pc, node, returned>>

(* SIGINT, SIGTERM, SIGQUIT: the handler is installed for the whole run. *)
HandleSignal ==
  /\ Interruptible /\ SignalSet
  /\ UNCHANGED <<lock, queueVars, nodeVars, pc, node, returned, canary>>

-----------------------------------------------------------------------------
Init ==
  /\ lock = Main
  /\ dagVerificationStatus =
       IF DeferDagVerification THEN "WaitingForInput" ELSE "RequiredVerification"
  /\ workStack = {} /\ earlyStatQueue = {} /\ earlyStatSeen = {}
  /\ finalBuildResult = "Ok"
  /\ finishedNodeCount = 0 /\ amountOfNodesEverQueued = 0
  /\ queued = {} /\ hasEverBeenQueued = {} /\ active = {}
  /\ attemptedCacheLookup = {} /\ finished = {}
  /\ buildResult = [n \in Node |-> "DidNotRun"]
  /\ pc = [w \in Worker |-> "lock"]
  /\ node = [w \in Worker |-> NoNode]
  /\ mainPc = "enqueue" /\ returned = "None"
  /\ canary = IF StandardInputCanary THEN "listening" ELSE "off"
  /\ signalled = FALSE

(* The unlocked sections a worker can be in, and what comes of them. *)
Pick(w) ==
  \/ TakeLock(w) \/ PickDagVerification(w) \/ NoDagVerification(w)
  \/ \E isValid \in BOOLEAN : FinishDagVerification(w, isValid)
  \/ \E n \in Node : PopStale(w, n) \/ NextNode(w, n)
  \/ PickEarlyStat(w) \/ FinishEarlyStat(w) \/ NoTask(w)

ProcessNode(w) ==
  \/ BeginCacheLookup(w) \/ CacheLookupFoundNothing(w)
  \/ \E r \in Successful : CacheLookupMadeConsistent(w, r)
  \/ EnqueueToBuildDependencies(w) \/ SkipNode(w) \/ BeginExecuteNode(w)
  \/ \E r \in ExecuteResult : FinishExecuteNode(w, r)

Idle(w) == PrepareToSleep(w) \/ SleepUntilWorkAvailable(w) \/ LeaveBuildLoop(w)

WorkerStep(w) == Pick(w) \/ ProcessNode(w) \/ Idle(w)

MainStep ==
  \/ BuildQueueBuild \/ BuildFinished \/ CheckSignalReason
  \/ ReturnFinalBuildResult \/ BuildQueueDestroy

CanaryStep == ReceiveS \/ NotifyWorker \/ StdinClosed

Next ==
  \/ \E w \in Worker : WorkerStep(w) \/ SpuriousWakeup(w)
  \/ MainStep \/ MainSpuriousWakeup
  \/ CanaryStep
  \/ HandleSignal

Spec == Init /\ [][Next]_vars

(* Every thread that can run eventually does, and a thread that waits for  *)
(* m_Lock eventually gets it. Signals, spurious wakeups and what arrives   *)
(* on stdin are nobody's duty.                                             *)
Fairness ==
  /\ \A w \in Worker : WF_vars(WorkerStep(w))
  /\ WF_vars(MainStep)
  /\ WF_vars(NotifyWorker)

FairSpec == Spec /\ Fairness

-----------------------------------------------------------------------------
(* Properties *)

(* Every variable keeps its type; a worker has a node exactly where        *)
(* ProcessNode has one.                                                    *)
TypeOK ==
  /\ lock \in Worker \cup {Main, NoOne}
  /\ dagVerificationStatus \in VerificationStatus
  /\ workStack \subseteq Node
  /\ earlyStatQueue \subseteq File /\ earlyStatSeen \subseteq File
  /\ finalBuildResult \in BuildResult
  /\ finishedNodeCount \in Nat /\ amountOfNodesEverQueued \in Nat
  /\ queued \subseteq Node /\ hasEverBeenQueued \subseteq Node /\ active \subseteq Node
  /\ attemptedCacheLookup \subseteq Node /\ finished \subseteq Node
  /\ buildResult \in [Node -> NodeBuildResult]
  /\ pc \in [Worker -> WorkerPc]
  /\ node \in [Worker -> Node \cup {NoNode}]
  /\ \A w \in Worker : node[w] # NoNode <=> pc[w] \in HasNode
  /\ mainPc \in {"enqueue", "waiting", "woken", "signal", "result", "join", "done"}
  /\ returned \in BuildResult \cup {"None"}
  /\ canary \in {"off", "listening", "notify", "gotS", "closed"}
  /\ signalled \in BOOLEAN

Executing == {node[w] : w \in {v \in Worker : pc[v] = "execute"}}
Processing == {node[w] : w \in {v \in Worker : pc[v] \in HasNode}}

(* Between AllDependenciesAreFinished, checked under the lock, and the end *)
(* of the action run without it, everything the node builds on is and      *)
(* stays successfully built.                                               *)
DependenciesFirst ==
  \A n \in Executing : \A d \in CombinedDependencies[n] :
    d \in finished /\ buildResult[d] \in Successful

(* The node a worker processes is its own: kActive, tested by NextNode     *)
(* when the entry is popped again, keeps the other workers off it until it *)
(* is finished or put back.                                                *)
OneWorkerPerNode ==
  /\ \A v, w \in Worker : pc[v] \in HasNode /\ pc[w] \in HasNode /\ node[v] = node[w] => v = w
  /\ active = Processing
  /\ active \cap finished = {}

(* BuildLoop ends when the two counters meet: each node is counted once    *)
(* when first enqueued and once when finished.                             *)
CountersAgree ==
  /\ finished \subseteq hasEverBeenQueued
  /\ finishedNodeCount = Cardinality(finished)
  /\ amountOfNodesEverQueued = Cardinality(hasEverBeenQueued)

(* A node taken off the stack without being finished (a missed cache       *)
(* lookup) or never put on it is found again: some dependency of it is     *)
(* queued and unfinished, and will release it.                             *)
NoForgottenNode ==
  \A n \in hasEverBeenQueued \ (finished \cup active \cup workStack) :
    \E d \in CombinedDependencies[n] : d \in hasEverBeenQueued \ finished

WorkAvailable ==
  /\ ~StopPicking /\ AllowedToPickUpProcessNodeTask
  /\ \E n \in workStack : ~Stale(n)

(* Waking one worker fewer than entries were placed, and none for a single *)
(* entry, never leaves work on the stack with every worker asleep or gone. *)
NoLostWakeup ==
  WorkAvailable => \E w \in Worker : pc[w] \notin {"asleep", "exited"}

Unlocked == {"verify", "lookup", "execute", "stat"}

(* While a worker sleeps, each entry on the stack has a worker of its own  *)
(* that is on its way to it: no parallelism is lost to a wakeup saved.     *)
EnoughWorkersAwake ==
  Sleepers # {} /\ ~StopPicking /\ AllowedToPickUpProcessNodeTask =>
    Cardinality({n \in workStack : ~Stale(n)})
      <= Cardinality({w \in Worker : pc[w] \notin Unlocked \cup {"asleep", "exited"}})

(* A node that failed fails the build, unless the graph was only built     *)
(* speculatively.                                                          *)
FailureIsReported ==
  (\E n \in Node : buildResult[n] = "RanFailed") =>
    \/ finalBuildResult = "BuildError"
    \/ DeferDagVerification /\ finalBuildResult = "RequireFrontendRerun"

(* Success is only returned when every node that was ever queued, the      *)
(* requested ones and the to-use dependencies they drag in, is built.      *)
OkMeansBuilt ==
  returned = "Ok" =>
    /\ Requested \subseteq hasEverBeenQueued
    /\ \A n \in hasEverBeenQueued : n \in finished /\ buildResult[n] \in Successful

(* The main thread is only told that the build is finished once the result *)
(* can no longer change: BuildQueue.cpp:116.                               *)
ReturnedResultIsFinal ==
  returned \notin {"None", "Interrupted"} => returned = finalBuildResult

(* "Build as much as possible after the first error" (Main.cpp:66): every  *)
(* queued node is dealt with, and left out only behind a failure.          *)
KeepsGoing ==
  ContinueOnFailure /\ returned = "BuildError" =>
    \A n \in hasEverBeenQueued :
      /\ n \in finished
      /\ buildResult[n] = "DidNotRun" =>
           \E d \in CombinedDependencies[n] : buildResult[d] \notin Successful

(* A finished node is done: it stays finished and keeps its result.        *)
FinishedIsFinal ==
  [][\A n \in finished : n \in finished' /\ buildResult'[n] = buildResult[n]]_vars

(* Every build comes to an end: the main thread returns and joins all its  *)
(* workers.                                                                *)
BuildTerminates == <>(mainPc = "done")

(* The threads, locks and stacks implement the promise of NodeSchedule.    *)
Schedule == INSTANCE NodeSchedule WITH running <- Executing
ImplementsSchedule == Schedule!Spec

(* "Abort build if stdin is closed" (Main.cpp:69): a build whose stdin is  *)
(* closed comes to an end.                                                 *)
StdinClosedAborts == canary = "closed" ~> mainPc = "done"

(* "Wait for an s character on stdin to start dag verification"            *)
(* (Main.cpp:70): the s does start it.                                     *)
SStartsVerification ==
  dagVerificationStatus = "RequiredVerification"
    ~> dagVerificationStatus # "RequiredVerification"
=============================================================================
