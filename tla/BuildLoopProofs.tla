--------------------------- MODULE BuildLoopProofs ---------------------------
(***************************************************************************)
(* Proofs about BuildLoop, for any graph, any number of build threads and  *)
(* any combination of options: that nothing is done twice or out of order, *)
(* that no wakeup is lost, that what BuildQueueBuild returns is true and   *)
(* final, and with that that the build loop implements NodeSchedule.       *)
(***************************************************************************)
EXTENDS BuildLoop, FiniteSetTheorems, TLAPS

-----------------------------------------------------------------------------
(* Waking and moving on *)

(* Whatever a call on m_WorkAvailable wakes was asleep on it.              *)
LEMMA WokenWereAsleep ==
  /\ \A W \in CondSignal : W \subseteq Sleepers
  /\ \A W \in CondBroadcast : W \subseteq Sleepers
  /\ \A c : \A W \in WakeWaiters(c) : W \subseteq Sleepers
  /\ \A c : \A W \in WakeForPlaced(c) : W \subseteq Sleepers
<1>1. \A W \in CondSignal : W \subseteq Sleepers
  BY DEF CondSignal
<1>2. \A W \in CondBroadcast : W \subseteq Sleepers
  BY DEF CondBroadcast
<1>3. \A c : \A W \in WakeWaiters(c) : W \subseteq Sleepers
  BY <1>1, <1>2 DEF WakeWaiters
<1>4. \A c : \A W \in WakeForPlaced(c) : W \subseteq Sleepers
  BY <1>3 DEF WakeForPlaced
<1> QED
  BY <1>1, <1>2, <1>3, <1>4

(* A worker that moves on changes its own place; of the others at most     *)
(* sleepers move, and they queue up for the lock.                          *)
LEMMA GotoMoves ==
  ASSUME TypeOK, NEW w \in Worker, NEW next \in WorkerPc, NEW woken,
         woken \subseteq Sleepers, Goto(w, next, woken)
  PROVE  /\ pc' \in [Worker -> WorkerPc]
         /\ pc'[w] = next
         /\ \A v \in Worker \ {w} :
              pc'[v] = pc[v] \/ (pc[v] = "asleep" /\ pc'[v] = "lock")
BY DEF Goto, Sleepers, TypeOK, WorkerPc

(* Nothing is counted that is not finite. *)
LEMMA NodesAreFinite ==
  ASSUME NEW S, S \subseteq Node
  PROVE  IsFiniteSet(S) /\ Cardinality(S) \in Nat
BY DagAssumption, FS_Subset, FS_CardinalityType DEF DagAssumption

-----------------------------------------------------------------------------
(* Type correctness *)

(* What of TypeOK a move of worker w must re-establish about the workers.  *)
WorkersTypeOK ==
  /\ pc \in [Worker -> WorkerPc]
  /\ node \in [Worker -> Node \cup {NoNode}]
  /\ \A w \in Worker : node[w] # NoNode <=> pc[w] \in HasNode

(* A worker that goes on with the node it has, or with none. *)
LEMMA KeepsNode ==
  ASSUME TypeOK, NEW w \in Worker, NEW next \in WorkerPc, NEW woken,
         woken \subseteq Sleepers, Goto(w, next, woken),
         pc[w] \in HasNode <=> next \in HasNode, UNCHANGED node
  PROVE  WorkersTypeOK'
<1>1. /\ pc' \in [Worker -> WorkerPc] /\ pc'[w] = next
      /\ \A v \in Worker \ {w} :
           pc'[v] = pc[v] \/ (pc[v] = "asleep" /\ pc'[v] = "lock")
  BY GotoMoves
<1>2. \A v \in Worker : node'[v] # NoNode <=> pc'[v] \in HasNode
  BY <1>1 DEF TypeOK, HasNode
<1> QED
  BY <1>1, <1>2 DEF WorkersTypeOK, TypeOK

(* A worker that gives its node up. *)
LEMMA DropsNode ==
  ASSUME TypeOK, NEW w \in Worker, NEW next \in WorkerPc \ HasNode, NEW woken,
         woken \subseteq Sleepers, Goto(w, next, woken),
         node' = [node EXCEPT ![w] = NoNode]
  PROVE  WorkersTypeOK'
<1>1. /\ pc' \in [Worker -> WorkerPc] /\ pc'[w] = next
      /\ \A v \in Worker \ {w} :
           pc'[v] = pc[v] \/ (pc[v] = "asleep" /\ pc'[v] = "lock")
  BY GotoMoves
<1>2. \A v \in Worker : node'[v] # NoNode <=> pc'[v] \in HasNode
  BY <1>1 DEF TypeOK, HasNode
<1> QED
  BY <1>1, <1>2 DEF WorkersTypeOK, TypeOK

(* A worker that takes a node. *)
LEMMA TakesNode ==
  ASSUME TypeOK, NEW w \in Worker, NEW n \in Node, NEW next \in HasNode,
         Goto(w, next, {}), node' = [node EXCEPT ![w] = n]
  PROVE  WorkersTypeOK'
<1>1. n # NoNode /\ next \in WorkerPc /\ {} \subseteq Sleepers
  BY LoopAssumption DEF LoopAssumption, HasNode, WorkerPc
<1>2. /\ pc' \in [Worker -> WorkerPc] /\ pc'[w] = next
      /\ \A v \in Worker \ {w} :
           pc'[v] = pc[v] \/ (pc[v] = "asleep" /\ pc'[v] = "lock")
  BY <1>1, GotoMoves
<1>3. \A v \in Worker : node'[v] # NoNode <=> pc'[v] \in HasNode
  BY <1>1, <1>2 DEF TypeOK, HasNode
<1> QED
  BY <1>2, <1>3 DEF WorkersTypeOK, TypeOK

(* EnqueueNodes flags and places nodes of the graph. *)
LEMMA EnqueueNodesTypeOK ==
  ASSUME TypeOK, NEW roots, EnqueueNodes(roots)
  PROVE  /\ amountOfNodesEverQueued' \in Nat
         /\ queued' \subseteq Node /\ hasEverBeenQueued' \subseteq Node
         /\ workStack' \subseteq Node
         /\ earlyStatQueue' \subseteq File /\ earlyStatSeen' \subseteq File
<1> DEFINE fresh == FirstTimeEnqueued(roots)
           files == UNION {NonGeneratedInputs[n] : n \in {m \in fresh : ~Actionable(m)}}
<1>1. fresh \subseteq Node
  BY DEF FirstTimeEnqueued
<1>2. files \subseteq File
  BY <1>1, LoopAssumption DEF LoopAssumption
<1>3. Cardinality(fresh) \in Nat
  BY <1>1, NodesAreFinite
<1> HIDE DEF fresh, files
<1>4. /\ amountOfNodesEverQueued' = amountOfNodesEverQueued + Cardinality(fresh)
      /\ queued' = queued \cup fresh
      /\ hasEverBeenQueued' = hasEverBeenQueued \cup fresh
      /\ workStack' = workStack \cup {n \in fresh : Actionable(n)}
      /\ earlyStatQueue' = earlyStatQueue \cup (files \ earlyStatSeen)
      /\ earlyStatSeen' = earlyStatSeen \cup files
  BY DEF EnqueueNodes, fresh, files
<1> QED
  BY <1>1, <1>2, <1>3, <1>4 DEF TypeOK

(* FinishNode keeps the types and leaves w without a node. *)
LEMMA FinishNodeTypeOK ==
  ASSUME TypeOK, NEW w \in Worker, NEW n \in Node, NEW next \in WorkerPc \ HasNode,
         FinishNode(w, n, next)
  PROVE  /\ finished' \subseteq Node /\ active' \subseteq Node
         /\ finishedNodeCount' \in Nat /\ workStack' \subseteq Node
         /\ queued' \subseteq Node /\ hasEverBeenQueued' \subseteq Node
         /\ amountOfNodesEverQueued' \in Nat
         /\ earlyStatQueue' \subseteq File /\ earlyStatSeen' \subseteq File
         /\ WorkersTypeOK'
<1>1. PICK woken \in WakeForPlaced(Cardinality(Released(n) \ workStack)) :
         Goto(w, next, woken)
  BY DEF FinishNode
<1>2. woken \subseteq Sleepers
  BY <1>1, WokenWereAsleep
<1>3. WorkersTypeOK'
  BY <1>1, <1>2, DropsNode DEF FinishNode
<1>4. Released(n) \subseteq Node
  BY DEF Released, TypeOK
<1> QED
  BY <1>3, <1>4 DEF FinishNode, TypeOK

(* What remains of TypeOK. *)
QueueTypeOK ==
  /\ lock \in Worker \cup {Main, NoOne}
  /\ dagVerificationStatus \in VerificationStatus
  /\ workStack \subseteq Node
  /\ earlyStatQueue \subseteq File /\ earlyStatSeen \subseteq File
  /\ finalBuildResult \in BuildResult
  /\ finishedNodeCount \in Nat /\ amountOfNodesEverQueued \in Nat
  /\ queued \subseteq Node /\ hasEverBeenQueued \subseteq Node /\ active \subseteq Node
  /\ attemptedCacheLookup \subseteq Node /\ finished \subseteq Node
  /\ buildResult \in [Node -> NodeBuildResult]
  /\ mainPc \in {"enqueue", "waiting", "woken", "signal", "result", "join", "done"}
  /\ returned \in BuildResult \cup {"None"}
  /\ canary \in {"off", "listening", "notify", "gotS", "closed"}
  /\ signalled \in BOOLEAN

(* The queue starts well typed. *)
LEMMA TypeOKInit ==
  ASSUME Init
  PROVE  TypeOK
<1>1. WorkersTypeOK
  BY DEF Init, WorkersTypeOK, WorkerPc, HasNode
<1>2. /\ lock \in Worker \cup {Main, NoOne}
      /\ dagVerificationStatus \in VerificationStatus
      /\ finalBuildResult \in BuildResult
      /\ returned \in BuildResult \cup {"None"}
      /\ canary \in {"off", "listening", "notify", "gotS", "closed"}
  BY DEF Init, VerificationStatus, BuildResult
<1>3. buildResult \in [Node -> NodeBuildResult]
  BY DEF Init, NodeBuildResult
<1>4. /\ mainPc \in {"enqueue", "waiting", "woken", "signal", "result", "join", "done"}
      /\ finishedNodeCount \in Nat /\ amountOfNodesEverQueued \in Nat
      /\ signalled \in BOOLEAN
  BY DEF Init
<1>5. /\ workStack \subseteq Node /\ earlyStatQueue \subseteq File
      /\ earlyStatSeen \subseteq File /\ queued \subseteq Node
      /\ hasEverBeenQueued \subseteq Node /\ active \subseteq Node
      /\ attemptedCacheLookup \subseteq Node /\ finished \subseteq Node
  BY DEF Init
<1> QED
  BY <1>1, <1>2, <1>3, <1>4, <1>5 DEF TypeOK, WorkersTypeOK

(* PickAndDoNextTask keeps the types. *)
LEMMA PickTypeOK ==
  ASSUME TypeOK, NEW w \in Worker, Pick(w)
  PROVE  TypeOK'
<1> SUFFICES QueueTypeOK' /\ WorkersTypeOK'
  BY DEF TypeOK, QueueTypeOK, WorkersTypeOK
<1> USE DEF queueVars, nodeVars, mainVars, envVars
<1>1. CASE TakeLock(w)
  <2>1. WorkersTypeOK'
    BY <1>1, KeepsNode DEF TakeLock, WorkerPc, HasNode
  <2> QED
    BY <1>1, <2>1 DEF TakeLock, Acquire, TypeOK, QueueTypeOK
<1>2. CASE PickDagVerification(w)
  <2>1. WorkersTypeOK'
    BY <1>2, KeepsNode DEF PickDagVerification, WorkerPc, HasNode
  <2> QED
    BY <1>2, <2>1 DEF PickDagVerification, Release, TypeOK, QueueTypeOK, VerificationStatus
<1>3. CASE NoDagVerification(w)
  <2>1. WorkersTypeOK'
    BY <1>3, KeepsNode DEF NoDagVerification, WorkerPc, HasNode
  <2> QED
    BY <1>3, <2>1 DEF NoDagVerification, Holding, TypeOK, QueueTypeOK
<1>4. CASE \E isValid \in BOOLEAN : FinishDagVerification(w, isValid)
  <2>1. PICK isValid \in BOOLEAN : FinishDagVerification(w, isValid)
    BY <1>4
  <2>2. PICK woken \in WakeWaiters(Cardinality(workStack)) : Goto(w, "pick", woken)
    BY <2>1 DEF FinishDagVerification
  <2>3. WorkersTypeOK'
    BY <2>1, <2>2, KeepsNode, WokenWereAsleep DEF FinishDagVerification, WorkerPc, HasNode
  <2> QED
    BY <2>1, <2>3 DEF FinishDagVerification, Acquire, TypeOK, QueueTypeOK,
       VerificationStatus, BuildResult
<1>5. ASSUME NEW n \in Node, PopStale(w, n)
      PROVE  QueueTypeOK' /\ WorkersTypeOK'
  BY <1>5 DEF PopStale, Holding, TypeOK, QueueTypeOK, WorkersTypeOK
<1>6. ASSUME NEW n \in Node, NextNode(w, n)
      PROVE  QueueTypeOK' /\ WorkersTypeOK'
  <2>1. WorkersTypeOK'
    BY <1>6, TakesNode DEF NextNode, HasNode
  <2> QED
    BY <1>6, <2>1 DEF NextNode, Holding, TypeOK, QueueTypeOK
<1>7. CASE PickEarlyStat(w)
  <2>1. WorkersTypeOK'
    BY <1>7, KeepsNode DEF PickEarlyStat, NoNodeToPick, WorkerPc, HasNode
  <2> QED
    BY <1>7, <2>1 DEF PickEarlyStat, Release, TypeOK, QueueTypeOK
<1>8. CASE FinishEarlyStat(w)
  <2>1. WorkersTypeOK'
    BY <1>8, KeepsNode DEF FinishEarlyStat, WorkerPc, HasNode
  <2> QED
    BY <1>8, <2>1 DEF FinishEarlyStat, Acquire, TypeOK, QueueTypeOK
<1>9. CASE NoTask(w)
  <2>1. WorkersTypeOK'
    BY <1>9, KeepsNode DEF NoTask, WorkerPc, HasNode
  <2> QED
    BY <1>9, <2>1 DEF NoTask, Holding, TypeOK, QueueTypeOK
<1> QED
  BY <1>1, <1>2, <1>3, <1>4, <1>5, <1>6, <1>7, <1>8, <1>9 DEF Pick

(* The node of a worker in ProcessNode is a node of the graph. *)
LEMMA ProcessedIsNode ==
  ASSUME TypeOK, NEW w \in Worker, pc[w] \in HasNode
  PROVE  node[w] \in Node
BY DEF TypeOK

(* ProcessNode keeps the types. *)
LEMMA ProcessNodeTypeOK ==
  ASSUME TypeOK, NEW w \in Worker, ProcessNode(w)
  PROVE  TypeOK'
<1> SUFFICES QueueTypeOK' /\ WorkersTypeOK'
  BY DEF TypeOK, QueueTypeOK, WorkersTypeOK
<1> USE DEF queueVars, nodeVars, mainVars, envVars
<1>1. CASE BeginCacheLookup(w)
  <2>1. WorkersTypeOK'
    BY <1>1, KeepsNode DEF BeginCacheLookup, WorkerPc, HasNode
  <2> QED
    BY <1>1, <2>1 DEF BeginCacheLookup, Release, TypeOK, QueueTypeOK
<1>2. CASE CacheLookupFoundNothing(w)
  <2>1. WorkersTypeOK'
    BY <1>2, KeepsNode DEF CacheLookupFoundNothing, WorkerPc, HasNode
  <2>2. node[w] \in Node
    BY <1>2, ProcessedIsNode DEF CacheLookupFoundNothing, HasNode
  <2> QED
    BY <1>2, <2>1, <2>2 DEF CacheLookupFoundNothing, Acquire, TypeOK, QueueTypeOK
<1>3. ASSUME NEW r \in Successful, CacheLookupMadeConsistent(w, r)
      PROVE  QueueTypeOK' /\ WorkersTypeOK'
  <2>1. node[w] \in Node /\ r \in NodeBuildResult /\ "lock" \in WorkerPc \ HasNode
    BY <1>3, ProcessedIsNode
       DEF CacheLookupMadeConsistent, HasNode, Successful, NodeBuildResult, WorkerPc
  <2>2. FinishNode(w, node[w], "lock")
    BY <1>3 DEF CacheLookupMadeConsistent
  <2> QED
    BY <1>3, <2>1, <2>2, FinishNodeTypeOK DEF CacheLookupMadeConsistent, TypeOK, QueueTypeOK
<1>4. CASE EnqueueToBuildDependencies(w)
  <2>1. PICK woken \in WakeForPlaced(Cardinality(workStack' \ workStack)) :
            Goto(w, "pick", woken)
    BY <1>4 DEF EnqueueToBuildDependencies
  <2>2. WorkersTypeOK'
    BY <1>4, <2>1, DropsNode, WokenWereAsleep
       DEF EnqueueToBuildDependencies, WorkerPc, HasNode
  <2>3. EnqueueNodes(ToBuild[node[w]])
    BY <1>4 DEF EnqueueToBuildDependencies
  <2> QED
    BY <1>4, <2>2, <2>3, EnqueueNodesTypeOK
       DEF EnqueueToBuildDependencies, Holding, TypeOK, QueueTypeOK
<1>5. CASE SkipNode(w)
  <2>1. node[w] \in Node /\ "pick" \in WorkerPc \ HasNode
    BY <1>5, ProcessedIsNode DEF SkipNode, AboutToBuild, HasNode, WorkerPc
  <2>2. FinishNode(w, node[w], "pick")
    BY <1>5 DEF SkipNode
  <2> QED
    BY <1>5, <2>1, <2>2, FinishNodeTypeOK DEF SkipNode, Holding, TypeOK, QueueTypeOK
<1>6. CASE BeginExecuteNode(w)
  <2>1. WorkersTypeOK'
    BY <1>6, KeepsNode DEF BeginExecuteNode, AboutToBuild, WorkerPc, HasNode
  <2> QED
    BY <1>6, <2>1 DEF BeginExecuteNode, Release, TypeOK, QueueTypeOK
<1>7. ASSUME NEW r \in ExecuteResult, FinishExecuteNode(w, r)
      PROVE  QueueTypeOK' /\ WorkersTypeOK'
  <2>1. node[w] \in Node /\ r \in NodeBuildResult /\ "pick" \in WorkerPc \ HasNode
    BY <1>7, ProcessedIsNode
       DEF FinishExecuteNode, HasNode, ExecuteResult, NodeBuildResult, WorkerPc
  <2>2. FinishNode(w, node[w], "pick")
    BY <1>7 DEF FinishExecuteNode
  <2>3. BuildResultAfter(r) \in BuildResult
    BY DEF BuildResultAfter, BuildResult, TypeOK
  <2> QED
    BY <1>7, <2>1, <2>2, <2>3, FinishNodeTypeOK
       DEF FinishExecuteNode, Acquire, TypeOK, QueueTypeOK
<1> QED
  BY <1>1, <1>2, <1>3, <1>4, <1>5, <1>6, <1>7 DEF ProcessNode

(* Sleeping, waking and leaving keep the types. *)
LEMMA IdleTypeOK ==
  ASSUME TypeOK, NEW w \in Worker, Idle(w) \/ SpuriousWakeup(w)
  PROVE  TypeOK'
<1> SUFFICES QueueTypeOK' /\ WorkersTypeOK'
  BY DEF TypeOK, QueueTypeOK, WorkersTypeOK
<1> USE DEF queueVars, nodeVars, mainVars, envVars
<1>1. CASE PrepareToSleep(w)
  <2>1. WorkersTypeOK'
    BY <1>1, KeepsNode DEF PrepareToSleep, WorkerPc, HasNode
  <2> QED
    BY <1>1, <2>1 DEF PrepareToSleep, Holding, TypeOK, QueueTypeOK
<1>2. CASE SleepUntilWorkAvailable(w)
  <2>1. WorkersTypeOK'
    BY <1>2, KeepsNode DEF SleepUntilWorkAvailable, WorkerPc, HasNode
  <2> QED
    BY <1>2, <2>1 DEF SleepUntilWorkAvailable, Release, TypeOK, QueueTypeOK
<1>3. CASE LeaveBuildLoop(w)
  <2>1. PICK woken \in CondBroadcast : Goto(w, "exited", woken)
    BY <1>3 DEF LeaveBuildLoop
  <2>2. WorkersTypeOK'
    BY <1>3, <2>1, KeepsNode, WokenWereAsleep DEF LeaveBuildLoop, WorkerPc, HasNode
  <2> QED
    BY <1>3, <2>2 DEF LeaveBuildLoop, Release, WakeMain, TypeOK, QueueTypeOK
<1>4. CASE SpuriousWakeup(w)
  <2>1. WorkersTypeOK'
    BY <1>4, KeepsNode DEF SpuriousWakeup, WorkerPc, HasNode
  <2> QED
    BY <1>4, <2>1 DEF SpuriousWakeup, TypeOK, QueueTypeOK
<1> QED
  BY <1>1, <1>2, <1>3, <1>4 DEF Idle

(* Waking sleepers gives and takes no node. *)
LEMMA WakeKeepsNodes ==
  ASSUME TypeOK, NEW woken, woken \subseteq Sleepers, Wake(woken), UNCHANGED node
  PROVE  WorkersTypeOK'
<1>1. pc' \in [Worker -> WorkerPc]
  BY DEF Wake, Sleepers, TypeOK, WorkerPc
<1>2. \A v \in Worker : pc'[v] = pc[v] \/ (pc[v] = "asleep" /\ pc'[v] = "lock")
  BY DEF Wake, Sleepers
<1>3. \A v \in Worker : node'[v] # NoNode <=> pc'[v] \in HasNode
  BY <1>2 DEF TypeOK, HasNode
<1> QED
  BY <1>1, <1>3 DEF WorkersTypeOK, TypeOK

(* The main thread keeps the types. *)
LEMMA MainTypeOK ==
  ASSUME TypeOK, MainStep \/ MainSpuriousWakeup
  PROVE  TypeOK'
<1> SUFFICES QueueTypeOK' /\ WorkersTypeOK'
  BY DEF TypeOK, QueueTypeOK, WorkersTypeOK
<1> USE DEF queueVars, nodeVars, mainVars, envVars
<1>1. CASE BuildQueueBuild
  <2>1. WorkersTypeOK'
    BY <1>1, WakeKeepsNodes DEF BuildQueueBuild
  <2>2. EnqueueNodes(Requested)
    BY <1>1 DEF BuildQueueBuild
  <2> QED
    BY <1>1, <2>1, <2>2, EnqueueNodesTypeOK DEF BuildQueueBuild, Release, TypeOK, QueueTypeOK
<1>2. CASE UNCHANGED <<lock, queueVars, nodeVars, pc, node, envVars>>
            /\ returned' \in BuildResult \cup {"None"}
            /\ mainPc' \in {"woken", "signal", "result", "join", "done"}
  BY <1>2 DEF TypeOK, QueueTypeOK, WorkersTypeOK
<1>3. CASE BuildFinished \/ MainSpuriousWakeup \/ BuildQueueDestroy
  BY <1>2, <1>3 DEF BuildFinished, MainSpuriousWakeup, BuildQueueDestroy, TypeOK
<1>4. CASE CheckSignalReason \/ ReturnFinalBuildResult
  BY <1>2, <1>4 DEF CheckSignalReason, ReturnFinalBuildResult, TypeOK, BuildResult
<1> QED
  BY <1>1, <1>3, <1>4 DEF MainStep

(* The canary and the signal handler keep the types. *)
LEMMA EnvironmentTypeOK ==
  ASSUME TypeOK, CanaryStep \/ HandleSignal
  PROVE  TypeOK'
<1> SUFFICES QueueTypeOK' /\ WorkersTypeOK'
  BY DEF TypeOK, QueueTypeOK, WorkersTypeOK
<1> USE DEF queueVars, nodeVars, mainVars, envVars
<1>1. CASE ReceiveS
  BY <1>1 DEF ReceiveS, TypeOK, QueueTypeOK, WorkersTypeOK, VerificationStatus
<1>2. CASE NotifyWorker
  <2>1. WorkersTypeOK'
    BY <1>2, WakeKeepsNodes, WokenWereAsleep DEF NotifyWorker
  <2> QED
    BY <1>2, <2>1 DEF NotifyWorker, TypeOK, QueueTypeOK
<1>3. CASE StdinClosed
  BY <1>3 DEF StdinClosed, SignalSet, WakeMain, TypeOK, QueueTypeOK, WorkersTypeOK
<1>4. CASE HandleSignal
  BY <1>4 DEF HandleSignal, SignalSet, WakeMain, TypeOK, QueueTypeOK, WorkersTypeOK
<1> QED
  BY <1>1, <1>2, <1>3, <1>4 DEF CanaryStep

(* Every variable keeps its type, and a worker has a node exactly where    *)
(* ProcessNode has one, whatever the graph and the options.                *)
THEOREM TypeCorrect == Spec => []TypeOK
<1>1. Init => TypeOK
  BY TypeOKInit
<1>2. TypeOK /\ [Next]_vars => TypeOK'
  <2> SUFFICES ASSUME TypeOK, [Next]_vars PROVE TypeOK'
    OBVIOUS
  <2>1. ASSUME NEW w \in Worker, WorkerStep(w) \/ SpuriousWakeup(w) PROVE TypeOK'
    BY <2>1, PickTypeOK, ProcessNodeTypeOK, IdleTypeOK DEF WorkerStep
  <2>2. CASE UNCHANGED vars
    BY <2>2 DEF vars, queueVars, nodeVars, mainVars, envVars, TypeOK
  <2> QED
    BY <2>1, <2>2, MainTypeOK, EnvironmentTypeOK DEF Next
<1> QED
  BY <1>1, <1>2, PTL DEF Spec

-----------------------------------------------------------------------------
(* The scheduling invariant *)

(* Nodes are on the stack, processed or finished only after they were      *)
(* enqueued.                                                               *)
OnlyEnqueued == active \cup workStack \cup finished \subseteq hasEverBeenQueued

(* To-use dependencies are enqueued with the node that has them.           *)
ToUseEnqueued == \A n \in hasEverBeenQueued : ToUse[n] \subseteq hasEverBeenQueued

(* A node that waits has its dependencies enqueued and one of them is      *)
(* still to be finished.                                                   *)
Waiting == hasEverBeenQueued \ (finished \cup active \cup workStack)
WaitsForEnqueued ==
  \A n \in Waiting :
    /\ ToBuild[n] \subseteq hasEverBeenQueued
    /\ ~ (CombinedDependencies[n] \subseteq finished)

(* OneWorkerPerNode, DependenciesFirst and CountersAgree hold together:    *)
(* the first keeps a finished node from being finished again, which the    *)
(* other two need.                                                         *)
SchedulingInv ==
  /\ TypeOK
  /\ OneWorkerPerNode /\ DependenciesFirst /\ CountersAgree
  /\ OnlyEnqueued /\ ToUseEnqueued /\ WaitsForEnqueued

(* FirstTimeEnqueued is closed: what is called for, and what the nodes in  *)
(* it pull in, is in it unless it was enqueued before.                     *)
LEMMA FirstTimeEnqueuedClosed ==
  ASSUME TypeOK, NEW roots, roots \subseteq Node
  PROVE  /\ FirstTimeEnqueued(roots) \subseteq Node \ hasEverBeenQueued
         /\ roots \subseteq hasEverBeenQueued \cup FirstTimeEnqueued(roots)
         /\ \A m \in FirstTimeEnqueued(roots) :
              Pulls(m) \subseteq hasEverBeenQueued \cup FirstTimeEnqueued(roots)
<1>1. \A m \in Node : Pulls(m) \subseteq Node
  BY DagAssumption DEF DagAssumption, Pulls
<1>2. ASSUME NEW n \in FirstTimeEnqueued(roots)
      PROVE  n \notin hasEverBeenQueued
  <2> DEFINE S == Node \ hasEverBeenQueued
  <2>1. S \in SUBSET Node /\ roots \ hasEverBeenQueued \subseteq S
    OBVIOUS
  <2>2. \A m \in S : Pulls(m) \ hasEverBeenQueued \subseteq S
    BY <1>1
  <2> HIDE DEF S
  <2>3. n \in S
    BY <1>2, <2>1, <2>2 DEF FirstTimeEnqueued
  <2> QED
    BY <2>3 DEF S
<1>3. roots \ hasEverBeenQueued \subseteq FirstTimeEnqueued(roots)
  BY DEF FirstTimeEnqueued
<1>4. ASSUME NEW m \in FirstTimeEnqueued(roots), NEW x \in Pulls(m) \ hasEverBeenQueued
      PROVE  x \in FirstTimeEnqueued(roots)
  <2>1. m \in Node /\ x \in Node
    BY <1>1, <1>4 DEF FirstTimeEnqueued
  <2>2. ASSUME NEW S \in SUBSET Node, roots \ hasEverBeenQueued \subseteq S,
               \A k \in S : Pulls(k) \ hasEverBeenQueued \subseteq S
        PROVE  x \in S
    <3>1. m \in S
      BY <1>4, <2>2 DEF FirstTimeEnqueued
    <3> QED
      BY <1>4, <2>2, <3>1
  <2> QED
    BY <2>1, <2>2 DEF FirstTimeEnqueued
<1>5. FirstTimeEnqueued(roots) \subseteq Node
  BY DEF FirstTimeEnqueued
<1> QED
  BY <1>2, <1>3, <1>4, <1>5

(* A set with the to-build dependencies of a node, closed under to-use     *)
(* dependencies, has all that the node waits for.                          *)
LEMMA CombinedDependenciesLeast ==
  ASSUME NEW n \in Node, NEW S, S \subseteq Node, ToBuild[n] \subseteq S,
         \A m \in S : ToUse[m] \subseteq S
  PROVE  CombinedDependencies[n] \subseteq S
BY DEF CombinedDependencies

(* The nodes with a worker, told from the workers' nodes alone.            *)
LEMMA ProcessingByNode ==
  ASSUME TypeOK
  PROVE  Processing = {node[w] : w \in {v \in Worker : node[v] # NoNode}}
BY DEF Processing, TypeOK

Owned ==
  /\ \A v, w \in Worker : node[v] # NoNode /\ node[v] = node[w] => v = w
  /\ active = {node[w] : w \in {v \in Worker : node[v] # NoNode}}
  /\ active \cap finished = {}

(* With types, a worker processes a node exactly where it has one. *)
LEMMA OwnedIsOneWorkerPerNode ==
  ASSUME TypeOK
  PROVE  OneWorkerPerNode <=> Owned
<1>1. (\A v, w \in Worker : pc[v] \in HasNode /\ pc[w] \in HasNode /\ node[v] = node[w] => v = w)
        <=> (\A v, w \in Worker : node[v] # NoNode /\ node[v] = node[w] => v = w)
  BY DEF TypeOK
<1> QED
  BY <1>1, ProcessingByNode DEF OneWorkerPerNode, Owned

(* Nothing is enqueued at first, so nothing can be wrong with it. *)
LEMMA SchedulingInit ==
  ASSUME Init
  PROVE  SchedulingInv
<1>1. TypeOK
  BY TypeOKInit
<1>2. OneWorkerPerNode /\ DependenciesFirst
  BY DEF Init, OneWorkerPerNode, Processing, DependenciesFirst, Executing, HasNode
<1>3. Cardinality({}) = 0
  BY FS_EmptySet
<1>4. CountersAgree /\ OnlyEnqueued /\ ToUseEnqueued /\ WaitsForEnqueued
  BY <1>3 DEF Init, CountersAgree, OnlyEnqueued, ToUseEnqueued, WaitsForEnqueued, Waiting
<1> QED
  BY <1>1, <1>2, <1>4 DEF SchedulingInv

-----------------------------------------------------------------------------
(* Steps that leave the scheduling of nodes alone *)

schedulingVars == <<active, finished, buildResult, hasEverBeenQueued, workStack,
                    finishedNodeCount, amountOfNodesEverQueued, node>>

NothingStarted == \A w \in Worker : pc'[w] = "execute" => pc[w] = "execute"

(* A step that changes no node and no stack, and starts no execution. *)
LEMMA QuietStep ==
  ASSUME SchedulingInv, TypeOK', UNCHANGED schedulingVars, NothingStarted
  PROVE  SchedulingInv'
<1> USE DEF schedulingVars
<1>1. OneWorkerPerNode'
  <2>1. Owned
    BY OwnedIsOneWorkerPerNode DEF SchedulingInv
  <2>2. Owned'
    BY <2>1 DEF Owned
  <2> QED
    BY <2>2, OwnedIsOneWorkerPerNode, PTL
<1>2. DependenciesFirst'
  <2>1. Executing' \subseteq Executing
    BY DEF Executing, NothingStarted
  <2> QED
    BY <2>1 DEF SchedulingInv, DependenciesFirst
<1>3. CountersAgree' /\ OnlyEnqueued' /\ ToUseEnqueued' /\ WaitsForEnqueued'
  BY DEF SchedulingInv, CountersAgree, OnlyEnqueued, ToUseEnqueued, WaitsForEnqueued, Waiting
<1> QED
  BY <1>1, <1>2, <1>3 DEF SchedulingInv

-----------------------------------------------------------------------------
(* Enqueueing *)

(* Enqueueing counts each fresh node once, pulls in the to-use             *)
(* dependencies, and leaves off the stack only nodes that have their       *)
(* to-build dependencies enqueued and must wait for one of them.           *)
LEMMA EnqueueNodesSchedules ==
  ASSUME SchedulingInv, NEW roots, roots \subseteq Node, EnqueueNodes(roots),
         UNCHANGED <<finished, finishedNodeCount>>
  PROVE  /\ CountersAgree'
         /\ ToUseEnqueued'
         /\ roots \subseteq hasEverBeenQueued'
         /\ hasEverBeenQueued \subseteq hasEverBeenQueued'
         /\ workStack \subseteq workStack'
         /\ workStack' \subseteq workStack \cup hasEverBeenQueued'
         /\ \A n \in hasEverBeenQueued' \ (hasEverBeenQueued \cup workStack') :
              /\ ToBuild[n] \subseteq hasEverBeenQueued'
              /\ ~ (CombinedDependencies[n] \subseteq finished)
<1> DEFINE fresh == FirstTimeEnqueued(roots)
<1>1. TypeOK
  BY DEF SchedulingInv
<1>2. /\ fresh \subseteq Node \ hasEverBeenQueued
      /\ roots \subseteq hasEverBeenQueued \cup fresh
      /\ \A m \in fresh : Pulls(m) \subseteq hasEverBeenQueued \cup fresh
  BY <1>1, FirstTimeEnqueuedClosed
<1>3. /\ amountOfNodesEverQueued' = amountOfNodesEverQueued + Cardinality(fresh)
      /\ hasEverBeenQueued' = hasEverBeenQueued \cup fresh
      /\ workStack' = workStack \cup {n \in fresh : Actionable(n)}
  BY DEF EnqueueNodes
<1> HIDE DEF fresh
<1>4. CountersAgree'
  <2>1. IsFiniteSet(hasEverBeenQueued) /\ IsFiniteSet(fresh)
    BY <1>1, <1>2, NodesAreFinite DEF TypeOK
  <2>2. Cardinality(hasEverBeenQueued \cup fresh)
          = Cardinality(hasEverBeenQueued) + Cardinality(fresh)
    <3>1. hasEverBeenQueued \cap fresh = {}
      BY <1>2
    <3>2. /\ Cardinality(hasEverBeenQueued \cap fresh) = 0
          /\ Cardinality(hasEverBeenQueued) \in Nat /\ Cardinality(fresh) \in Nat
      BY <2>1, <3>1, FS_EmptySet, FS_CardinalityType
    <3>3. Cardinality(hasEverBeenQueued \cup fresh)
            = Cardinality(hasEverBeenQueued) + Cardinality(fresh)
                - Cardinality(hasEverBeenQueued \cap fresh)
      BY <2>1, FS_Union, Zenon
    <3> QED
      BY <3>2, <3>3
  <2> QED
    BY <1>3, <2>2 DEF SchedulingInv, CountersAgree
<1>5. ToUseEnqueued'
  BY <1>2, <1>3 DEF SchedulingInv, ToUseEnqueued, Pulls
<1>6. ASSUME NEW n \in hasEverBeenQueued' \ (hasEverBeenQueued \cup workStack')
      PROVE  /\ ToBuild[n] \subseteq hasEverBeenQueued'
             /\ ~ (CombinedDependencies[n] \subseteq finished)
  <2>1. n \in fresh /\ ~Actionable(n)
    BY <1>3, <1>6
  <2> QED
    BY <1>2, <1>3, <2>1 DEF Pulls, Actionable, AllDependenciesAreFinished
<1> QED
  BY <1>2, <1>3, <1>4, <1>5, <1>6

-----------------------------------------------------------------------------
(* Finishing a node *)

(* Finishing counts the node once and puts everything that waited for it   *)
(* last on the stack; the other workers keep their nodes.                  *)
LEMMA FinishNodeSchedules ==
  ASSUME SchedulingInv, TypeOK', NEW w \in Worker, pc[w] \in HasNode,
         NEW next \in WorkerPc \ HasNode, FinishNode(w, node[w], next)
  PROVE  /\ OneWorkerPerNode' /\ CountersAgree'
         /\ OnlyEnqueued' /\ ToUseEnqueued' /\ WaitsForEnqueued'
         /\ NothingStarted
         /\ node[w] \in Node \ finished
         /\ finished' = finished \cup {node[w]}
         /\ node[w] \notin Executing'
<1> DEFINE n == node[w]
<1>1. TypeOK /\ Owned
  BY OwnedIsOneWorkerPerNode DEF SchedulingInv
<1>2. n \in Node /\ n \in active /\ n \notin finished
  BY <1>1, ProcessedIsNode DEF Owned, TypeOK
<1>3. PICK woken \in WakeForPlaced(Cardinality(Released(n) \ workStack)) : Goto(w, next, woken)
  BY DEF FinishNode
<1>4. /\ finished' = finished \cup {n} /\ active' = active \ {n}
      /\ finishedNodeCount' = finishedNodeCount + 1
      /\ workStack' = workStack \cup Released(n)
      /\ node' = [node EXCEPT ![w] = NoNode]
      /\ UNCHANGED <<queued, hasEverBeenQueued, amountOfNodesEverQueued>>
  BY DEF FinishNode
<1>5. /\ pc'[w] = next
      /\ \A v \in Worker \ {w} : pc'[v] = pc[v] \/ (pc[v] = "asleep" /\ pc'[v] = "lock")
  BY <1>1, <1>3, GotoMoves, WokenWereAsleep
<1>6. OneWorkerPerNode'
  <2>1. Owned'
    <3>1. \A v \in Worker : node'[v] = IF v = w THEN NoNode ELSE node[v]
      BY <1>1, <1>4 DEF TypeOK
    <3>2. \A u, v \in Worker : node'[u] # NoNode /\ node'[u] = node'[v] => u = v
      BY <1>1, <3>1 DEF Owned
    <3>3. active' = {node'[v] : v \in {u \in Worker : node'[u] # NoNode}}
      BY <1>1, <1>2, <1>4, <3>1 DEF Owned, TypeOK
    <3>4. active' \cap finished' = {}
      BY <1>1, <1>4 DEF Owned
    <3> QED
      BY <3>2, <3>3, <3>4 DEF Owned
  <2> QED
    BY <2>1, OwnedIsOneWorkerPerNode, PTL
<1>7. CountersAgree'
  <2>1. IsFiniteSet(finished)
    BY <1>1, NodesAreFinite DEF TypeOK
  <2>2. Cardinality(finished \cup {n}) = Cardinality(finished) + 1
    BY <1>2, <2>1, FS_AddElement
  <2> QED
    BY <1>2, <1>4, <2>2 DEF SchedulingInv, CountersAgree, OnlyEnqueued
<1>8. OnlyEnqueued' /\ ToUseEnqueued'
  BY <1>2, <1>4 DEF SchedulingInv, OnlyEnqueued, ToUseEnqueued, Released
<1>9. WaitsForEnqueued'
  <2> SUFFICES ASSUME NEW m \in Waiting'
               PROVE  /\ ToBuild[m] \subseteq hasEverBeenQueued'
                      /\ ~ (CombinedDependencies[m] \subseteq finished')
    BY DEF WaitsForEnqueued
  <2>1. m \in Waiting /\ m \in Node /\ m \notin Released(n)
    BY <1>1, <1>4 DEF Waiting, TypeOK
  <2>2. ToBuild[m] \subseteq hasEverBeenQueued /\ ~ (CombinedDependencies[m] \subseteq finished)
    BY <2>1 DEF SchedulingInv, WaitsForEnqueued
  <2>3. ASSUME CombinedDependencies[m] \subseteq finished \cup {n} PROVE FALSE
    <3>1. n \in CombinedDependencies[m]
      BY <2>2, <2>3
    <3>2. m \in NodeBacklinks[n]
      BY <1>2, <2>1, <3>1 DEF NodeBacklinks
    <3> QED
      BY <2>1, <2>3, <3>2 DEF Released, Waiting
  <2> QED
    BY <1>4, <2>2, <2>3
<1>10. NothingStarted
  BY <1>5 DEF NothingStarted, HasNode, WorkerPc
<1>11. n \notin Executing'
  <2>1. ASSUME NEW v \in Worker, pc'[v] = "execute", node'[v] = n PROVE FALSE
    <3>1. v # w
      BY <1>5, <2>1 DEF HasNode
    <3>2. node[v] = n
      BY <1>1, <1>4, <2>1, <3>1 DEF TypeOK
    <3>3. n # NoNode
      BY <1>1 DEF TypeOK
    <3> QED
      BY <1>1, <3>1, <3>2, <3>3 DEF Owned
  <2> QED
    BY <2>1 DEF Executing
<1> QED
  BY <1>2, <1>4, <1>6, <1>7, <1>8, <1>9, <1>10, <1>11

-----------------------------------------------------------------------------
(* The scheduling invariant is inductive *)

(* The step of FinishedIsFinal. *)
FinishedStays == \A n \in finished : n \in finished' /\ buildResult'[n] = buildResult[n]

(* Only a worker that goes to execute starts an execution. *)
LEMMA GotoStartsNothing ==
  ASSUME TypeOK, NEW w \in Worker, NEW next \in WorkerPc \ {"execute"}, NEW woken,
         woken \subseteq Sleepers, Goto(w, next, woken)
  PROVE  NothingStarted
<1>1. /\ pc'[w] = next
      /\ \A v \in Worker \ {w} : pc'[v] = pc[v] \/ (pc[v] = "asleep" /\ pc'[v] = "lock")
  BY GotoMoves
<1> QED
  BY <1>1 DEF NothingStarted

(* The same, with the finished nodes as they were. *)
LEMMA QuietStepStays ==
  ASSUME SchedulingInv, TypeOK', UNCHANGED schedulingVars, NothingStarted
  PROVE  SchedulingInv' /\ FinishedStays
BY QuietStep DEF schedulingVars, FinishedStays

(* PickAndDoNextTask only takes nodes nobody has. *)
LEMMA PickSchedules ==
  ASSUME SchedulingInv, TypeOK', NEW w \in Worker, Pick(w)
  PROVE  SchedulingInv' /\ FinishedStays
<1>0. TypeOK
  BY DEF SchedulingInv
<1> USE DEF queueVars, nodeVars, mainVars, envVars, schedulingVars
<1>1. CASE TakeLock(w) \/ NoDagVerification(w) \/ PickDagVerification(w)
            \/ PickEarlyStat(w) \/ FinishEarlyStat(w) \/ NoTask(w)
  <2>1. /\ UNCHANGED schedulingVars
        /\ \E next \in {"pick", "next", "verify", "stat", "more"} : Goto(w, next, {})
    BY <1>1 DEF TakeLock, NoDagVerification, PickDagVerification, PickEarlyStat,
       FinishEarlyStat, NoTask
  <2>2. NothingStarted
    BY <1>0, <2>1, GotoStartsNothing DEF WorkerPc
  <2> QED
    BY <2>1, <2>2, QuietStepStays
<1>2. ASSUME NEW isValid \in BOOLEAN, FinishDagVerification(w, isValid)
      PROVE  SchedulingInv' /\ FinishedStays
  <2>1. PICK woken \in WakeWaiters(Cardinality(workStack)) : Goto(w, "pick", woken)
    BY <1>2 DEF FinishDagVerification
  <2>2. NothingStarted
    BY <1>0, <2>1, GotoStartsNothing, WokenWereAsleep DEF WorkerPc
  <2>3. UNCHANGED schedulingVars
    BY <1>2 DEF FinishDagVerification
  <2> QED
    BY <2>2, <2>3, QuietStepStays
<1>3. ASSUME NEW n \in Node, PopStale(w, n)
      PROVE  SchedulingInv' /\ FinishedStays
  <2>1. n \in active \cup finished /\ workStack' = workStack \ {n}
    BY <1>3 DEF PopStale, Stale
  <2>2. UNCHANGED <<active, finished, buildResult, hasEverBeenQueued, finishedNodeCount,
                    amountOfNodesEverQueued, node, pc>>
    BY <1>3 DEF PopStale
  <2>3. OneWorkerPerNode' /\ DependenciesFirst' /\ CountersAgree' /\ ToUseEnqueued'
    BY <2>2 DEF SchedulingInv, OneWorkerPerNode, Processing, DependenciesFirst, Executing,
       CountersAgree, ToUseEnqueued
  <2>4. OnlyEnqueued' /\ Waiting' = Waiting
    BY <2>1, <2>2 DEF SchedulingInv, OnlyEnqueued, Waiting
  <2>5. WaitsForEnqueued'
    BY <2>2, <2>4 DEF SchedulingInv, WaitsForEnqueued
  <2> QED
    BY <2>2, <2>3, <2>4, <2>5 DEF SchedulingInv, FinishedStays
<1>4. ASSUME NEW n \in Node, NextNode(w, n)
      PROVE  SchedulingInv' /\ FinishedStays
  <2>1. /\ n \in workStack /\ n \notin active \cup finished
        /\ workStack' = workStack \ {n} /\ active' = active \cup {n}
        /\ node' = [node EXCEPT ![w] = n] /\ pc[w] = "next"
        /\ Goto(w, "process", {})
        /\ UNCHANGED <<finished, buildResult, hasEverBeenQueued, finishedNodeCount,
                       amountOfNodesEverQueued>>
    BY <1>4 DEF NextNode, CanPop, Top, Stale
  <2>2. NothingStarted
    BY <1>0, <2>1, GotoStartsNothing DEF WorkerPc
  <2>3. node[w] = NoNode /\ n # NoNode
    BY <1>0, <2>1, LoopAssumption DEF TypeOK, HasNode, LoopAssumption
  <2>4. \A v \in Worker : node'[v] = IF v = w THEN n ELSE node[v]
    BY <1>0, <2>1 DEF TypeOK
  <2>5. OneWorkerPerNode'
    <3>1. Owned
      BY <1>0, OwnedIsOneWorkerPerNode DEF SchedulingInv
    <3>2. \A u, v \in Worker : node'[u] # NoNode /\ node'[u] = node'[v] => u = v
      <4>1. \A v \in Worker : node[v] # n
        BY <2>1, <2>3, <3>1 DEF Owned
      <4> QED
        BY <2>4, <3>1, <4>1 DEF Owned
    <3>3. active' = {node'[v] : v \in {u \in Worker : node'[u] # NoNode}}
      BY <2>1, <2>3, <2>4, <3>1 DEF Owned
    <3>4. active' \cap finished' = {}
      BY <2>1, <3>1 DEF Owned
    <3>5. Owned'
      BY <3>2, <3>3, <3>4 DEF Owned
    <3> QED
      BY <3>5, OwnedIsOneWorkerPerNode, PTL
  <2>6. DependenciesFirst'
    <3>1. Executing' \subseteq Executing
      <4>1. pc'[w] = "process"
        BY <1>0, <2>1, GotoMoves DEF WorkerPc
      <4> QED
        BY <2>2, <2>4, <4>1 DEF Executing, NothingStarted
    <3> QED
      BY <2>1, <3>1 DEF SchedulingInv, DependenciesFirst
  <2>7. CountersAgree' /\ ToUseEnqueued' /\ OnlyEnqueued' /\ WaitsForEnqueued'
    BY <2>1 DEF SchedulingInv, CountersAgree, ToUseEnqueued, OnlyEnqueued, WaitsForEnqueued,
       Waiting
  <2> QED
    BY <2>1, <2>5, <2>6, <2>7 DEF SchedulingInv, FinishedStays
<1> QED
  BY <1>1, <1>2, <1>3, <1>4 DEF Pick

(* What remains to be shown of an action that finishes the node of w. *)
LEMMA FinishingStep ==
  ASSUME SchedulingInv, TypeOK', NEW w \in Worker, pc[w] \in HasNode,
         NEW next \in WorkerPc \ HasNode, FinishNode(w, node[w], next),
         \A m \in Node \ {node[w]} : buildResult'[m] = buildResult[m]
  PROVE  SchedulingInv' /\ FinishedStays
<1>1. /\ OneWorkerPerNode' /\ CountersAgree'
      /\ OnlyEnqueued' /\ ToUseEnqueued' /\ WaitsForEnqueued'
      /\ NothingStarted
      /\ node[w] \in Node \ finished
      /\ finished' = finished \cup {node[w]}
      /\ node[w] \notin Executing'
  BY FinishNodeSchedules
<1>2. FinishedStays
  BY <1>1 DEF FinishedStays, SchedulingInv, TypeOK
<1>3. DependenciesFirst'
  <2>1. \A v \in Worker : pc'[v] = "execute" => node'[v] = node[v]
    BY <1>1 DEF FinishNode, SchedulingInv, TypeOK, HasNode, Goto
  <2>2. Executing' \subseteq Executing
    BY <1>1, <2>1 DEF Executing, NothingStarted
  <2> QED
    BY <1>1, <1>2, <2>2 DEF SchedulingInv, DependenciesFirst, FinishedStays
<1> QED
  BY <1>1, <1>2, <1>3 DEF SchedulingInv

(* A node put back has its dependencies enqueued and waits for one of      *)
(* them.                                                                   *)
LEMMA EnqueueToBuildDependenciesSchedules ==
  ASSUME SchedulingInv, TypeOK', NEW w \in Worker, EnqueueToBuildDependencies(w)
  PROVE  SchedulingInv' /\ FinishedStays
<1> DEFINE n == node[w]
<1>0. TypeOK /\ Owned
  BY OwnedIsOneWorkerPerNode DEF SchedulingInv
<1>1. /\ ~ (CombinedDependencies[n] \subseteq finished)
      /\ EnqueueNodes(ToBuild[n])
      /\ active' = active \ {n}
      /\ node' = [node EXCEPT ![w] = NoNode]
      /\ UNCHANGED <<finished, finishedNodeCount, buildResult>>
  BY DEF EnqueueToBuildDependencies, AllDependenciesAreFinished
<1>2. n \in Node /\ n \in active
  BY <1>0, ProcessedIsNode
     DEF EnqueueToBuildDependencies, AboutToBuild, HasNode, Owned, TypeOK
<1>3. ToBuild[n] \subseteq Node
  BY <1>2, DagAssumption DEF DagAssumption
<1>4. PICK woken \in WakeForPlaced(Cardinality(workStack' \ workStack)) :
          Goto(w, "pick", woken)
  BY DEF EnqueueToBuildDependencies
<1>5. NothingStarted
  BY <1>0, <1>4, GotoStartsNothing, WokenWereAsleep DEF WorkerPc
<1>6. /\ CountersAgree' /\ ToUseEnqueued'
      /\ ToBuild[n] \subseteq hasEverBeenQueued'
      /\ hasEverBeenQueued \subseteq hasEverBeenQueued'
      /\ workStack \subseteq workStack' /\ workStack' \subseteq workStack \cup hasEverBeenQueued'
      /\ \A m \in hasEverBeenQueued' \ (hasEverBeenQueued \cup workStack') :
           /\ ToBuild[m] \subseteq hasEverBeenQueued'
           /\ ~ (CombinedDependencies[m] \subseteq finished)
  BY <1>1, <1>3, EnqueueNodesSchedules
<1>7. \A v \in Worker : node'[v] = IF v = w THEN NoNode ELSE node[v]
  BY <1>0, <1>1 DEF TypeOK
<1>8. OneWorkerPerNode'
  <2>1. \A u, v \in Worker : node'[u] # NoNode /\ node'[u] = node'[v] => u = v
    BY <1>0, <1>7 DEF Owned
  <2>2. active' = {node'[v] : v \in {u \in Worker : node'[u] # NoNode}}
    BY <1>0, <1>1, <1>2, <1>7 DEF Owned, TypeOK
  <2>3. active' \cap finished' = {}
    BY <1>0, <1>1 DEF Owned
  <2>4. Owned'
    BY <2>1, <2>2, <2>3 DEF Owned
  <2> QED
    BY <2>4, OwnedIsOneWorkerPerNode, PTL
<1>9. DependenciesFirst'
  <2>1. pc'[w] = "pick"
    BY <1>0, <1>4, GotoMoves, WokenWereAsleep DEF WorkerPc
  <2>2. Executing' \subseteq Executing
    BY <1>5, <1>7, <2>1 DEF Executing, NothingStarted
  <2> QED
    BY <1>1, <2>2 DEF SchedulingInv, DependenciesFirst
<1>10. OnlyEnqueued'
  BY <1>1, <1>6 DEF SchedulingInv, OnlyEnqueued
<1>11. WaitsForEnqueued'
  <2> SUFFICES ASSUME NEW m \in Waiting'
               PROVE  /\ ToBuild[m] \subseteq hasEverBeenQueued'
                      /\ ~ (CombinedDependencies[m] \subseteq finished')
    BY DEF WaitsForEnqueued
  <2>1. CASE m = n
    BY <1>1, <1>6, <2>1
  <2>2. CASE m \notin hasEverBeenQueued
    BY <1>1, <1>6, <2>2 DEF Waiting
  <2>3. CASE m # n /\ m \in hasEverBeenQueued
    <3>1. m \in Waiting
      BY <1>1, <1>6, <2>3 DEF Waiting
    <3> QED
      BY <1>1, <1>6, <3>1 DEF SchedulingInv, WaitsForEnqueued
  <2> QED
    BY <2>1, <2>2, <2>3
<1> QED
  BY <1>1, <1>6, <1>8, <1>9, <1>10, <1>11 DEF SchedulingInv, FinishedStays

(* ProcessNode keeps the invariant, whatever the cache and the action say. *)
LEMMA ProcessNodeSchedules ==
  ASSUME SchedulingInv, TypeOK', NEW w \in Worker, ProcessNode(w)
  PROVE  SchedulingInv' /\ FinishedStays
<1>0. TypeOK
  BY DEF SchedulingInv
<1> USE DEF queueVars, nodeVars, mainVars, envVars, schedulingVars
<1>1. CASE BeginCacheLookup(w) \/ CacheLookupFoundNothing(w)
  <2>1. /\ UNCHANGED schedulingVars
        /\ \E next \in {"lookup", "build"} : Goto(w, next, {})
    BY <1>1 DEF BeginCacheLookup, CacheLookupFoundNothing
  <2>2. NothingStarted
    BY <1>0, <2>1, GotoStartsNothing DEF WorkerPc
  <2> QED
    BY <2>1, <2>2, QuietStepStays
<1>2. ASSUME NEW r \in Successful, CacheLookupMadeConsistent(w, r)
      PROVE  SchedulingInv' /\ FinishedStays
  <2>1. "lock" \in WorkerPc \ HasNode /\ pc[w] \in HasNode /\ FinishNode(w, node[w], "lock")
    BY <1>2 DEF CacheLookupMadeConsistent, WorkerPc, HasNode
  <2>2. \A m \in Node \ {node[w]} : buildResult'[m] = buildResult[m]
    BY <1>0, <1>2 DEF CacheLookupMadeConsistent, TypeOK
  <2> QED
    BY <2>1, <2>2, FinishingStep
<1>3. CASE EnqueueToBuildDependencies(w)
  BY <1>3, EnqueueToBuildDependenciesSchedules
<1>4. CASE SkipNode(w)
  <2>1. "pick" \in WorkerPc \ HasNode /\ pc[w] \in HasNode /\ FinishNode(w, node[w], "pick")
    BY <1>4 DEF SkipNode, AboutToBuild, WorkerPc, HasNode
  <2>2. UNCHANGED buildResult
    BY <1>4 DEF SkipNode
  <2> QED
    BY <2>1, <2>2, FinishingStep
<1>5. ASSUME NEW r \in ExecuteResult, FinishExecuteNode(w, r)
      PROVE  SchedulingInv' /\ FinishedStays
  <2>1. "pick" \in WorkerPc \ HasNode /\ pc[w] \in HasNode /\ FinishNode(w, node[w], "pick")
    BY <1>5 DEF FinishExecuteNode, WorkerPc, HasNode
  <2>2. \A m \in Node \ {node[w]} : buildResult'[m] = buildResult[m]
    BY <1>0, <1>5 DEF FinishExecuteNode, TypeOK
  <2> QED
    BY <2>1, <2>2, FinishingStep
<1>6. CASE BeginExecuteNode(w)
  <2>1. /\ UNCHANGED schedulingVars /\ Goto(w, "execute", {})
        /\ \A d \in CombinedDependencies[node[w]] : d \in finished /\ buildResult[d] \in Successful
    BY <1>6 DEF BeginExecuteNode, AllDependenciesAreFinished, AllDependenciesAreSuccesful
  <2>2. \A v \in Worker \ {w} : pc'[v] = "execute" => pc[v] = "execute"
    BY <1>0, <2>1, GotoMoves DEF WorkerPc
  <2>3. Executing' \subseteq Executing \cup {node[w]}
    BY <2>1, <2>2 DEF Executing
  <2>4. DependenciesFirst'
    BY <2>1, <2>3 DEF SchedulingInv, DependenciesFirst
  <2>5. Owned
    BY <1>0, OwnedIsOneWorkerPerNode DEF SchedulingInv
  <2>6. Owned'
    BY <2>1, <2>5 DEF Owned
  <2>7. OneWorkerPerNode'
    BY <2>6, OwnedIsOneWorkerPerNode, PTL
  <2>8. CountersAgree' /\ OnlyEnqueued' /\ ToUseEnqueued' /\ WaitsForEnqueued' /\ FinishedStays
    BY <2>1 DEF SchedulingInv, CountersAgree, OnlyEnqueued, ToUseEnqueued, WaitsForEnqueued,
       Waiting, FinishedStays
  <2> QED
    BY <2>4, <2>7, <2>8 DEF SchedulingInv
<1> QED
  BY <1>1, <1>2, <1>3, <1>4, <1>5, <1>6 DEF ProcessNode

(* Sleeping and leaving touch no node. *)
LEMMA IdleSchedules ==
  ASSUME SchedulingInv, TypeOK', NEW w \in Worker, Idle(w) \/ SpuriousWakeup(w)
  PROVE  SchedulingInv' /\ FinishedStays
<1>1. \E next \in {"sleep", "asleep", "exited", "lock"} :
        \E woken \in {{}} \cup CondBroadcast : Goto(w, next, woken)
  BY DEF Idle, PrepareToSleep, SleepUntilWorkAvailable, LeaveBuildLoop, SpuriousWakeup
<1>2. NothingStarted
  BY <1>1, GotoStartsNothing, WokenWereAsleep DEF SchedulingInv, WorkerPc
<1>3. UNCHANGED schedulingVars
  BY DEF Idle, PrepareToSleep, SleepUntilWorkAvailable, LeaveBuildLoop, SpuriousWakeup,
     queueVars, nodeVars, schedulingVars
<1> QED
  BY <1>2, <1>3, QuietStepStays

(* A woken worker executes nothing yet. *)
LEMMA WakeStartsNothing ==
  ASSUME NEW woken, Wake(woken)
  PROVE  NothingStarted
BY DEF Wake, NothingStarted

(* The first enqueueing, of what was requested. *)
LEMMA BuildQueueBuildSchedules ==
  ASSUME SchedulingInv, TypeOK', BuildQueueBuild
  PROVE  SchedulingInv' /\ FinishedStays
<1>0. TypeOK /\ Owned
  BY OwnedIsOneWorkerPerNode DEF SchedulingInv
<1>1. /\ EnqueueNodes(Requested) /\ Wake(Sleepers)
      /\ UNCHANGED <<active, finished, finishedNodeCount, buildResult, node>>
  BY DEF BuildQueueBuild
<1>2. Requested \subseteq Node
  BY LoopAssumption DEF LoopAssumption
<1>3. /\ CountersAgree' /\ ToUseEnqueued'
      /\ hasEverBeenQueued \subseteq hasEverBeenQueued'
      /\ workStack \subseteq workStack' /\ workStack' \subseteq workStack \cup hasEverBeenQueued'
      /\ \A m \in hasEverBeenQueued' \ (hasEverBeenQueued \cup workStack') :
           /\ ToBuild[m] \subseteq hasEverBeenQueued'
           /\ ~ (CombinedDependencies[m] \subseteq finished)
  BY <1>1, <1>2, EnqueueNodesSchedules
<1>4. NothingStarted
  BY <1>1, WakeStartsNothing
<1>5. Owned'
  BY <1>0, <1>1 DEF Owned
<1>6. OneWorkerPerNode'
  BY <1>5, OwnedIsOneWorkerPerNode, PTL
<1>7. Executing' \subseteq Executing
  BY <1>1, <1>4 DEF Executing, NothingStarted
<1>8. DependenciesFirst'
  BY <1>1, <1>7 DEF SchedulingInv, DependenciesFirst
<1>9. OnlyEnqueued'
  BY <1>1, <1>3 DEF SchedulingInv, OnlyEnqueued
<1>10. WaitsForEnqueued'
  <2> SUFFICES ASSUME NEW m \in Waiting'
               PROVE  /\ ToBuild[m] \subseteq hasEverBeenQueued'
                      /\ ~ (CombinedDependencies[m] \subseteq finished')
    BY DEF WaitsForEnqueued
  <2>1. CASE m \notin hasEverBeenQueued
    BY <1>1, <1>3, <2>1 DEF Waiting
  <2>2. CASE m \in hasEverBeenQueued
    <3>1. m \in Waiting
      BY <1>1, <1>3, <2>2 DEF Waiting
    <3> QED
      BY <1>1, <1>3, <3>1 DEF SchedulingInv, WaitsForEnqueued
  <2> QED
    BY <2>1, <2>2
<1> QED
  BY <1>1, <1>3, <1>6, <1>8, <1>9, <1>10 DEF SchedulingInv, FinishedStays

(* The other threads do not touch the nodes. *)
LEMMA OthersSchedule ==
  ASSUME SchedulingInv, TypeOK',
         MainStep \/ MainSpuriousWakeup \/ CanaryStep \/ HandleSignal
  PROVE  SchedulingInv' /\ FinishedStays
<1> USE DEF queueVars, nodeVars, schedulingVars
<1>1. CASE BuildQueueBuild
  BY <1>1, BuildQueueBuildSchedules
<1>2. CASE NotifyWorker
  <2>1. UNCHANGED schedulingVars /\ NothingStarted
    BY <1>2, WakeStartsNothing DEF NotifyWorker
  <2> QED
    BY <2>1, QuietStepStays
<1>3. CASE BuildFinished \/ CheckSignalReason \/ ReturnFinalBuildResult
            \/ BuildQueueDestroy \/ MainSpuriousWakeup
            \/ ReceiveS \/ StdinClosed \/ HandleSignal
  <2>1. UNCHANGED schedulingVars /\ UNCHANGED pc
    BY <1>3 DEF BuildFinished, CheckSignalReason, ReturnFinalBuildResult,
       BuildQueueDestroy, MainSpuriousWakeup, ReceiveS, StdinClosed, HandleSignal
  <2> QED
    BY <2>1, QuietStepStays DEF NothingStarted
<1> QED
  BY <1>1, <1>2, <1>3 DEF MainStep, CanaryStep

(* SchedulingInv is inductive, and a finished node stays. *)
LEMMA SchedulingStep ==
  ASSUME SchedulingInv, TypeOK', [Next]_vars
  PROVE  SchedulingInv' /\ FinishedStays
<1>1. ASSUME NEW w \in Worker, WorkerStep(w) \/ SpuriousWakeup(w)
      PROVE  SchedulingInv' /\ FinishedStays
  BY <1>1, PickSchedules, ProcessNodeSchedules, IdleSchedules DEF WorkerStep
<1>2. CASE UNCHANGED vars
  BY <1>2, QuietStepStays DEF vars, queueVars, nodeVars, schedulingVars, NothingStarted
<1> QED
  BY <1>1, <1>2, OthersSchedule DEF Next

(* The inductive invariant behind the theorems that follow. *)
THEOREM SchedulingInvariant == Spec => []SchedulingInv
<1>1. Init => SchedulingInv
  BY SchedulingInit
<1>2. SchedulingInv /\ TypeOK' /\ [Next]_vars => SchedulingInv'
  BY SchedulingStep
<1> QED
  BY <1>1, <1>2, TypeCorrect, PTL DEF Spec

(* No node is ever processed by two workers, whatever the graph, the       *)
(* number of workers and the cache.                                        *)
THEOREM OneWorkerAtATime == Spec => []OneWorkerPerNode
<1>1. SchedulingInv => OneWorkerPerNode
  BY DEF SchedulingInv
<1> QED
  BY <1>1, SchedulingInvariant, PTL

(* An action only runs when and while everything it builds on is built.    *)
THEOREM BuiltInOrder == Spec => []DependenciesFirst
<1>1. SchedulingInv => DependenciesFirst
  BY DEF SchedulingInv
<1> QED
  BY <1>1, SchedulingInvariant, PTL

(* The counters BuildLoop ends by count nodes. *)
THEOREM CountersCountNodes == Spec => []CountersAgree
<1>1. SchedulingInv => CountersAgree
  BY DEF SchedulingInv
<1> QED
  BY <1>1, SchedulingInvariant, PTL

(* A node that is neither on the stack nor with a worker waits for one     *)
(* that is enqueued and will release it.                                   *)
THEOREM NothingForgotten == Spec => []NoForgottenNode
<1>1. SchedulingInv => NoForgottenNode
  <2> SUFFICES ASSUME SchedulingInv,
                      NEW n \in hasEverBeenQueued \ (finished \cup active \cup workStack)
               PROVE  \E d \in CombinedDependencies[n] : d \in hasEverBeenQueued \ finished
    BY DEF NoForgottenNode
  <2>1. /\ ToBuild[n] \subseteq hasEverBeenQueued /\ ~ (CombinedDependencies[n] \subseteq finished)
        /\ hasEverBeenQueued \subseteq Node
        /\ \A m \in hasEverBeenQueued : ToUse[m] \subseteq hasEverBeenQueued
    BY DEF SchedulingInv, WaitsForEnqueued, Waiting, TypeOK, ToUseEnqueued
  <2>2. CombinedDependencies[n] \subseteq hasEverBeenQueued
    BY <2>1, CombinedDependenciesLeast
  <2> QED
    BY <2>1, <2>2
<1> QED
  BY <1>1, SchedulingInvariant, PTL

(* A finished node is never touched again. *)
THEOREM FinishedForGood == Spec => FinishedIsFinal
<1>1. SchedulingInv /\ TypeOK' /\ [Next]_vars =>
        [\A n \in finished : n \in finished' /\ buildResult'[n] = buildResult[n]]_vars
  BY SchedulingStep DEF FinishedStays
<1> QED
  BY <1>1, SchedulingInvariant, TypeCorrect, PTL DEF Spec, FinishedIsFinal

-----------------------------------------------------------------------------
(* Wakeups.                                                                *)
(*                                                                         *)
(* No wakeup is lost: work on the stack never waits with every worker      *)
(* asleep or gone, and, if the graph is verified before anything is built, *)
(* every entry has a worker of its own on its way while others sleep.      *)


(* A worker is inside the lock where it says it is; the main thread has    *)
(* had it from the start until it has enqueued what was requested.         *)
LockInv ==
  /\ \A w \in Worker : pc[w] \in HoldsLock => lock = w
  /\ mainPc = "enqueue" => lock = Main /\ \A w \in Worker : pc[w] = "lock"

(* The graph is verified once, by one worker.                              *)
VerificationInv ==
  /\ \A w \in Worker : pc[w] = "verify" => dagVerificationStatus = "BeingVerified"
  /\ \A v, w \in Worker : pc[v] = "verify" /\ pc[w] = "verify" => v = w
  /\ DeferDagVerification /\ canary = "listening" => dagVerificationStatus = "WaitingForInput"
  /\ ~DeferDagVerification => dagVerificationStatus # "WaitingForInput"

MayTakeNodes == ~StopPicking /\ AllowedToPickUpProcessNodeTask

(* Only a worker that found nothing to take gives up.                      *)
Dull == {"more", "sleep"}
DullInv == \A w \in Worker : pc[w] \in Dull => (MayTakeNodes => workStack = {})

(* A node that is on the stack while a worker processes it was released:   *)
(* that worker will not put it back.                                       *)
ReleasedInv == \A n \in workStack \cap active : CombinedDependencies[n] \subseteq finished

Busy == {w \in Worker : pc[w] \notin Dull \cup {"asleep", "exited"}}
BusyInv == WorkAvailable => Busy # {}

(* The entries to be taken, and the workers that may still take one.       *)
Entries == {n \in workStack : ~Stale(n)}
OnTheWayPc == {"lock", "pick", "next", "more", "sleep"}
OnTheWay == {w \in Worker : pc[w] \in OnTheWayPc}
EnoughInv ==
  ~DeferDagVerification /\ Sleepers # {} /\ MayTakeNodes =>
    Cardinality(Entries) <= Cardinality(OnTheWay)

WakeupInv ==
  LockInv /\ VerificationInv /\ DullInv /\ ReleasedInv /\ BusyInv /\ EnoughInv
-----------------------------------------------------------------------------
(* What a step of a worker does to the lock and to the other workers       *)

(* Workers are few enough to be counted. *)
LEMMA WorkersAreFinite ==
  ASSUME NEW S, S \subseteq Worker
  PROVE  IsFiniteSet(S) /\ Cardinality(S) \in Nat
BY LoopAssumption, FS_Subset, FS_CardinalityType DEF LoopAssumption

(* At most sleepers move along with w. *)
OthersMove(w) ==
  \A v \in Worker \ {w} : pc'[v] = pc[v] \/ (pc[v] = "asleep" /\ pc'[v] = "lock")

(* Where w goes: it is alone inside the lock, and what it does on its way  *)
(* to and from the condition variable changes nothing.                     *)
Moves(w) ==
  /\ lock \in {NoOne, w} /\ (pc'[w] \in HoldsLock => lock' = w)
  /\ OthersMove(w) /\ pc[w] \notin {"asleep", "exited"}
  /\ (mainPc' = mainPc \/ mainPc' = "woken") /\ canary' = canary
  /\ pc'[w] \in Dull =>
       /\ UNCHANGED <<queueVars, nodeVars>>
       /\ pc[w] = "more" \/ StopPicking \/ NoNodeToPick(w)
  /\ pc'[w] \in {"asleep", "exited"} => pc[w] \in Dull /\ UNCHANGED <<queueVars, nodeVars>>
  /\ pc'[w] = "verify" =>
       dagVerificationStatus = "RequiredVerification" /\ dagVerificationStatus' = "BeingVerified"
  /\ \/ UNCHANGED dagVerificationStatus
     \/ /\ dagVerificationStatus = "RequiredVerification" /\ pc'[w] = "verify"
        /\ dagVerificationStatus' = "BeingVerified"
     \/ pc[w] = "verify" /\ pc'[w] = "pick" /\ dagVerificationStatus' \in {"Passed", "Failed"}

(* PickAndDoNextTask. *)
LEMMA PickMoves ==
  ASSUME TypeOK, NEW w \in Worker, Pick(w)
  PROVE  Moves(w)
<1> USE DEF queueVars, nodeVars, mainVars, envVars
<1>1. CASE TakeLock(w)
  <2>1. OthersMove(w) /\ pc'[w] = "pick"
    BY <1>1, GotoMoves DEF TakeLock, OthersMove, WorkerPc
  <2> QED
    BY <1>1, <2>1 DEF TakeLock, Acquire, Moves, Dull
<1>2. CASE PickDagVerification(w)
  <2>1. OthersMove(w) /\ pc'[w] = "verify"
    BY <1>2, GotoMoves DEF PickDagVerification, OthersMove, WorkerPc
  <2> QED
    BY <1>2, <2>1 DEF PickDagVerification, Release, Moves, Dull, HoldsLock
<1>3. CASE NoDagVerification(w)
  <2>1. OthersMove(w) /\ pc'[w] = "next"
    BY <1>3, GotoMoves DEF NoDagVerification, OthersMove, WorkerPc
  <2> QED
    BY <1>3, <2>1 DEF NoDagVerification, Holding, Moves, Dull
<1>4. ASSUME NEW isValid \in BOOLEAN, FinishDagVerification(w, isValid)
      PROVE  Moves(w)
  <2>1. PICK woken \in WakeWaiters(Cardinality(workStack)) : Goto(w, "pick", woken)
    BY <1>4 DEF FinishDagVerification
  <2>2. OthersMove(w) /\ pc'[w] = "pick"
    BY <2>1, GotoMoves, WokenWereAsleep DEF OthersMove, WorkerPc
  <2> QED
    BY <1>4, <2>2 DEF FinishDagVerification, Acquire, Moves, Dull
<1>5. ASSUME NEW n \in Node, PopStale(w, n)
      PROVE  Moves(w)
  BY <1>5 DEF PopStale, CanPop, Holding, Moves, OthersMove, Dull
<1>6. ASSUME NEW n \in Node, NextNode(w, n)
      PROVE  Moves(w)
  <2>1. OthersMove(w) /\ pc'[w] = "process"
    BY <1>6, GotoMoves DEF NextNode, OthersMove, WorkerPc
  <2> QED
    BY <1>6, <2>1 DEF NextNode, CanPop, Holding, Moves, Dull
<1>7. CASE PickEarlyStat(w)
  <2>1. OthersMove(w) /\ pc'[w] = "stat"
    BY <1>7, GotoMoves DEF PickEarlyStat, OthersMove, WorkerPc
  <2> QED
    BY <1>7, <2>1 DEF PickEarlyStat, NoNodeToPick, Release, Moves, Dull, HoldsLock
<1>8. CASE FinishEarlyStat(w)
  <2>1. OthersMove(w) /\ pc'[w] = "pick"
    BY <1>8, GotoMoves DEF FinishEarlyStat, OthersMove, WorkerPc
  <2> QED
    BY <1>8, <2>1 DEF FinishEarlyStat, Acquire, Moves, Dull
<1>9. CASE NoTask(w)
  <2>1. OthersMove(w) /\ pc'[w] = "more"
    BY <1>9, GotoMoves DEF NoTask, OthersMove, WorkerPc
  <2> QED
    BY <1>9, <2>1 DEF NoTask, Holding, Moves, Dull
<1> QED
  BY <1>1, <1>2, <1>3, <1>4, <1>5, <1>6, <1>7, <1>8, <1>9 DEF Pick

(* ProcessNode. *)
LEMMA ProcessNodeMoves ==
  ASSUME TypeOK, NEW w \in Worker, ProcessNode(w)
  PROVE  Moves(w)
<1> USE DEF queueVars, nodeVars, mainVars, envVars
<1>1. CASE BeginCacheLookup(w)
  <2>1. OthersMove(w) /\ pc'[w] = "lookup"
    BY <1>1, GotoMoves DEF BeginCacheLookup, OthersMove, WorkerPc
  <2> QED
    BY <1>1, <2>1 DEF BeginCacheLookup, Release, Moves, Dull, HoldsLock
<1>2. CASE CacheLookupFoundNothing(w)
  <2>1. OthersMove(w) /\ pc'[w] = "build"
    BY <1>2, GotoMoves DEF CacheLookupFoundNothing, OthersMove, WorkerPc
  <2> QED
    BY <1>2, <2>1 DEF CacheLookupFoundNothing, Acquire, Moves, Dull
<1>3. ASSUME NEW next \in {"lock", "pick"}, NEW c,
             \E woken \in WakeForPlaced(c) : Goto(w, next, woken)
      PROVE  OthersMove(w) /\ pc'[w] = next
  <2>1. PICK woken \in WakeForPlaced(c) : Goto(w, next, woken)
    BY <1>3
  <2> QED
    BY <2>1, GotoMoves, WokenWereAsleep DEF OthersMove, WorkerPc
<1>4. ASSUME NEW r \in Successful, CacheLookupMadeConsistent(w, r)
      PROVE  Moves(w)
  <2>1. OthersMove(w) /\ pc'[w] = "lock"
    BY <1>3, <1>4 DEF CacheLookupMadeConsistent, FinishNode
  <2> QED
    BY <1>4, <2>1 DEF CacheLookupMadeConsistent, Moves, Dull, HoldsLock
<1>5. CASE EnqueueToBuildDependencies(w)
  <2>1. OthersMove(w) /\ pc'[w] = "pick"
    BY <1>3, <1>5 DEF EnqueueToBuildDependencies
  <2> QED
    BY <1>5, <2>1 DEF EnqueueToBuildDependencies, AboutToBuild, Holding, Moves, Dull
<1>6. CASE SkipNode(w)
  <2>1. OthersMove(w) /\ pc'[w] = "pick"
    BY <1>3, <1>6 DEF SkipNode, FinishNode
  <2> QED
    BY <1>6, <2>1 DEF SkipNode, AboutToBuild, Holding, Moves, Dull
<1>7. ASSUME NEW r \in ExecuteResult, FinishExecuteNode(w, r)
      PROVE  Moves(w)
  <2>1. OthersMove(w) /\ pc'[w] = "pick"
    BY <1>3, <1>7 DEF FinishExecuteNode, FinishNode
  <2> QED
    BY <1>7, <2>1 DEF FinishExecuteNode, Acquire, Moves, Dull
<1>8. CASE BeginExecuteNode(w)
  <2>1. OthersMove(w) /\ pc'[w] = "execute"
    BY <1>8, GotoMoves DEF BeginExecuteNode, OthersMove, WorkerPc
  <2> QED
    BY <1>8, <2>1 DEF BeginExecuteNode, AboutToBuild, Release, Moves, Dull, HoldsLock
<1> QED
  BY <1>1, <1>2, <1>4, <1>5, <1>6, <1>7, <1>8 DEF ProcessNode

(* Going to sleep and leaving. *)
LEMMA IdleMoves ==
  ASSUME TypeOK, NEW w \in Worker, Idle(w)
  PROVE  Moves(w)
<1> USE DEF queueVars, nodeVars, mainVars, envVars
<1>1. CASE PrepareToSleep(w)
  <2>1. OthersMove(w) /\ pc'[w] = "sleep"
    BY <1>1, GotoMoves DEF PrepareToSleep, OthersMove, WorkerPc
  <2> QED
    BY <1>1, <2>1 DEF PrepareToSleep, Holding, Moves, Dull
<1>2. CASE SleepUntilWorkAvailable(w)
  <2>1. OthersMove(w) /\ pc'[w] = "asleep"
    BY <1>2, GotoMoves DEF SleepUntilWorkAvailable, OthersMove, WorkerPc
  <2> QED
    BY <1>2, <2>1 DEF SleepUntilWorkAvailable, Release, Moves, Dull, HoldsLock
<1>3. CASE LeaveBuildLoop(w)
  <2>1. PICK woken \in CondBroadcast : Goto(w, "exited", woken)
    BY <1>3 DEF LeaveBuildLoop
  <2>2. OthersMove(w) /\ pc'[w] = "exited"
    BY <2>1, GotoMoves, WokenWereAsleep DEF OthersMove, WorkerPc
  <2> QED
    BY <1>3, <2>2 DEF LeaveBuildLoop, Release, WakeMain, Moves, Dull, HoldsLock
<1> QED
  BY <1>1, <1>2, <1>3 DEF Idle

(* Every step of a worker. *)
LEMMA WorkerMoves ==
  ASSUME TypeOK, NEW w \in Worker, WorkerStep(w)
  PROVE  Moves(w)
BY PickMoves, ProcessNodeMoves, IdleMoves DEF WorkerStep

-----------------------------------------------------------------------------
(* The lock and the verification *)

(* The lock keeps everybody else out of the section it guards. *)
LEMMA LockStep ==
  ASSUME TypeOK, LockInv, NEW w \in Worker, Moves(w)
  PROVE  LockInv' /\ mainPc # "enqueue"
<1>1. lock # Main
  BY LoopAssumption DEF LoopAssumption, Moves
<1>2. mainPc # "enqueue" /\ mainPc' # "enqueue"
  BY <1>1 DEF LockInv, Moves
<1>3. \A v \in Worker \ {w} : pc[v] \notin HoldsLock
  BY LoopAssumption DEF LoopAssumption, LockInv, Moves
<1>4. \A v \in Worker \ {w} : pc'[v] \notin HoldsLock
  BY <1>3 DEF Moves, OthersMove, HoldsLock
<1> QED
  BY <1>2, <1>4 DEF LockInv, Moves

(* One worker verifies the graph, once. *)
LEMMA VerificationStep ==
  ASSUME TypeOK, VerificationInv, NEW w \in Worker, Moves(w)
  PROVE  VerificationInv'
<1>1. \A v \in Worker \ {w} : pc'[v] = "verify" => pc[v] = "verify"
  BY DEF Moves, OthersMove
<1>2. ASSUME NEW v \in Worker \ {w}, pc'[v] = "verify"
      PROVE  pc'[w] # "verify" /\ dagVerificationStatus' = "BeingVerified"
  BY <1>1, <1>2 DEF VerificationInv, Moves
<1>3. \A v \in Worker : pc'[v] = "verify" => dagVerificationStatus' = "BeingVerified"
  BY <1>2 DEF Moves
<1>4. \A u, v \in Worker : pc'[u] = "verify" /\ pc'[v] = "verify" => u = v
  <2> SUFFICES ASSUME NEW u \in Worker, NEW v \in Worker,
                      pc'[u] = "verify", pc'[v] = "verify"
               PROVE  u = v
    OBVIOUS
  <2>1. CASE u = w \/ v = w
    BY <1>2, <2>1
  <2>2. CASE u # w /\ v # w
    BY <1>1, <2>2 DEF VerificationInv
  <2> QED
    BY <2>1, <2>2
<1>5. DeferDagVerification /\ canary' = "listening"
        => dagVerificationStatus' = "WaitingForInput"
  BY DEF VerificationInv, Moves
<1>6. ~DeferDagVerification => dagVerificationStatus' # "WaitingForInput"
  BY DEF VerificationInv, Moves
<1> QED
  BY <1>3, <1>4, <1>5, <1>6 DEF VerificationInv

(* While a worker is inside the lock no other one is between finding       *)
(* nothing and falling asleep.                                             *)
LEMMA OnlyOneIsDull ==
  ASSUME TypeOK, LockInv, NEW w \in Worker, Moves(w)
  PROVE  \A v \in Worker \ {w} : pc'[v] \notin Dull
<1>1. \A v \in Worker \ {w} : pc[v] \notin HoldsLock
  BY LoopAssumption DEF LoopAssumption, LockInv, Moves
<1> QED
  BY <1>1 DEF Moves, OthersMove, HoldsLock, Dull

(* Dullness is honest: it comes from an empty stack, and the lock is kept. *)
LEMMA DullStep ==
  ASSUME TypeOK, LockInv, DullInv, NEW w \in Worker, Moves(w)
  PROVE  DullInv'
<1>1. \A v \in Worker \ {w} : pc'[v] \notin Dull
  BY OnlyOneIsDull
<1>2. ASSUME pc'[w] \in Dull
      PROVE  MayTakeNodes' => workStack' = {}
  <2>1. /\ UNCHANGED <<queueVars, nodeVars>>
        /\ pc[w] = "more" \/ StopPicking \/ NoNodeToPick(w)
    BY <1>2 DEF Moves
  <2>2. MayTakeNodes => workStack = {}
    BY <2>1 DEF DullInv, Dull, NoNodeToPick, MayTakeNodes
  <2> QED
    BY <2>1, <2>2 DEF MayTakeNodes, StopPicking, AllowedToPickUpProcessNodeTask, queueVars
<1> QED
  BY <1>1, <1>2 DEF DullInv

(* The worker that moved is still busy, or there is nothing to do. *)
LEMMA BusyStep ==
  ASSUME TypeOK, DullInv, DullInv', NEW w \in Worker, Moves(w)
  PROVE  BusyInv'
<1>1. CASE pc'[w] \notin Dull \cup {"asleep", "exited"}
  BY <1>1 DEF BusyInv, Busy
<1>2. CASE pc'[w] \in Dull
  BY <1>2 DEF BusyInv, WorkAvailable, DullInv, MayTakeNodes
<1>3. CASE pc'[w] \in {"asleep", "exited"}
  <2>1. pc[w] \in Dull /\ UNCHANGED <<queueVars, nodeVars>>
    BY <1>3 DEF Moves
  <2>2. MayTakeNodes => workStack = {}
    BY <2>1 DEF DullInv
  <2> QED
    BY <2>1, <2>2 DEF BusyInv, WorkAvailable, MayTakeNodes, StopPicking,
       AllowedToPickUpProcessNodeTask, queueVars
<1> QED
  BY <1>1, <1>2, <1>3

-----------------------------------------------------------------------------
(* Released nodes *)

(* What EnqueueNodes places was never enqueued, so no worker has it. *)
LEMMA PlacedAreFresh ==
  ASSUME TypeOK, OnlyEnqueued, NEW roots, roots \subseteq Node, EnqueueNodes(roots)
  PROVE  \A n \in workStack' \ workStack : n \notin active
BY FirstTimeEnqueuedClosed DEF EnqueueNodes, OnlyEnqueued

(* Steps that put nothing on the stack and take no node. *)
LEMMA ReleasedStays ==
  ASSUME ReleasedInv, workStack' \cap active' \subseteq workStack \cap active,
         finished \subseteq finished'
  PROVE  ReleasedInv'
BY DEF ReleasedInv

(* FinishNode puts on the stack what has nothing left to wait for. *)
LEMMA FinishNodeReleases ==
  ASSUME ReleasedInv, NEW w \in Worker, NEW n \in Node, NEW next, FinishNode(w, n, next)
  PROVE  ReleasedInv'
<1> SUFFICES ASSUME NEW m \in workStack' \cap active'
             PROVE  CombinedDependencies[m] \subseteq finished'
  BY DEF ReleasedInv
<1>1. /\ finished' = finished \cup {n} /\ active' \subseteq active
      /\ m \in workStack \/ m \in Released(n)
  BY DEF FinishNode
<1>2. CASE m \in workStack
  BY <1>1, <1>2 DEF ReleasedInv
<1>3. CASE m \in Released(n)
  BY <1>1, <1>3 DEF Released
<1> QED
  BY <1>1, <1>2, <1>3

(* Every step of a worker. *)
LEMMA ReleasedStep ==
  ASSUME SchedulingInv, ReleasedInv, NEW w \in Worker, WorkerStep(w)
  PROVE  ReleasedInv'
<1>0. TypeOK /\ OnlyEnqueued
  BY DEF SchedulingInv
<1> USE DEF queueVars, nodeVars
<1>1. ASSUME NEW n \in Node, NextNode(w, n)
      PROVE  ReleasedInv'
  BY <1>1, ReleasedStays DEF NextNode
<1>2. ASSUME NEW n \in Node, PopStale(w, n)
      PROVE  ReleasedInv'
  BY <1>2, ReleasedStays DEF PopStale
<1>3. CASE \/ TakeLock(w) \/ PickDagVerification(w) \/ NoDagVerification(w)
           \/ PickEarlyStat(w) \/ FinishEarlyStat(w) \/ NoTask(w)
           \/ BeginCacheLookup(w) \/ CacheLookupFoundNothing(w) \/ BeginExecuteNode(w)
           \/ Idle(w) \/ \E isValid \in BOOLEAN : FinishDagVerification(w, isValid)
  <2>1. UNCHANGED <<workStack, active, finished>>
    BY <1>3 DEF TakeLock, PickDagVerification, NoDagVerification, PickEarlyStat,
       FinishEarlyStat, NoTask, BeginCacheLookup, CacheLookupFoundNothing, BeginExecuteNode,
       Idle, PrepareToSleep, SleepUntilWorkAvailable, LeaveBuildLoop, FinishDagVerification
  <2> QED
    BY <2>1, ReleasedStays
<1>4. CASE \/ \E r \in Successful : CacheLookupMadeConsistent(w, r)
           \/ SkipNode(w) \/ \E r \in ExecuteResult : FinishExecuteNode(w, r)
  <2>1. pc[w] \in HasNode /\ \E next \in WorkerPc : FinishNode(w, node[w], next)
    BY <1>4 DEF CacheLookupMadeConsistent, SkipNode, AboutToBuild, FinishExecuteNode,
       HasNode, WorkerPc
  <2>2. node[w] \in Node
    BY <1>0, <2>1, ProcessedIsNode
  <2> QED
    BY <2>1, <2>2, FinishNodeReleases
<1>5. CASE EnqueueToBuildDependencies(w)
  <2>1. node[w] \in Node
    BY <1>0, <1>5, ProcessedIsNode DEF EnqueueToBuildDependencies, AboutToBuild, HasNode
  <2>2. ToBuild[node[w]] \subseteq Node
    BY <2>1, DagAssumption DEF DagAssumption
  <2>3. /\ EnqueueNodes(ToBuild[node[w]]) /\ active' \subseteq active
        /\ UNCHANGED finished
    BY <1>5 DEF EnqueueToBuildDependencies
  <2>4. \A n \in workStack' \ workStack : n \notin active
    BY <1>0, <2>2, <2>3, PlacedAreFresh
  <2> QED
    BY <2>3, <2>4, ReleasedStays
<1> QED
  BY <1>1, <1>2, <1>3, <1>4, <1>5 DEF WorkerStep, Pick, ProcessNode

-----------------------------------------------------------------------------
(* Counting entries and workers *)

(* Fewer elements are not more. *)
LEMMA FewerNodes ==
  ASSUME NEW S, NEW T, S \subseteq T, T \subseteq Node
  PROVE  /\ Cardinality(S) \in Nat /\ Cardinality(T) \in Nat
         /\ Cardinality(S) <= Cardinality(T)
BY NodesAreFinite, FS_Subset

LEMMA FewerWorkers ==
  ASSUME NEW S, NEW T, S \subseteq T, T \subseteq Worker
  PROVE  /\ Cardinality(S) \in Nat /\ Cardinality(T) \in Nat
         /\ Cardinality(S) <= Cardinality(T)
BY WorkersAreFinite, FS_Subset

(* Two sets of nodes have no more elements together than apart. *)
LEMMA TogetherNotMore ==
  ASSUME NEW S, NEW T, S \subseteq Node, T \subseteq Node
  PROVE  Cardinality(S \cup T) <= Cardinality(S) + Cardinality(T)
<1>1. IsFiniteSet(S) /\ IsFiniteSet(T) /\ IsFiniteSet(S \cap T)
  BY NodesAreFinite
<1>2. Cardinality(S) \in Nat /\ Cardinality(T) \in Nat /\ Cardinality(S \cap T) \in Nat
  BY <1>1, FS_CardinalityType
<1>3. Cardinality(S \cup T) = Cardinality(S) + Cardinality(T) - Cardinality(S \cap T)
  BY <1>1, FS_Union, Zenon
<1> QED
  BY <1>2, <1>3

(* No new entries, nobody off the way, nobody newly asleep. *)
LEMMA QuietIsEnough ==
  ASSUME TypeOK, TypeOK', EnoughInv, Entries' \subseteq Entries, OnTheWay \subseteq OnTheWay',
         Sleepers' \subseteq Sleepers, MayTakeNodes' => MayTakeNodes
  PROVE  EnoughInv'
<1> SUFFICES ASSUME ~DeferDagVerification, Sleepers' # {}, MayTakeNodes'
             PROVE  Cardinality(Entries') <= Cardinality(OnTheWay')
  BY DEF EnoughInv
<1>1. Cardinality(Entries) <= Cardinality(OnTheWay)
  BY DEF EnoughInv
<1>2. /\ Cardinality(Entries') \in Nat /\ Cardinality(Entries) \in Nat
      /\ Cardinality(Entries') <= Cardinality(Entries)
  BY FewerNodes DEF Entries, TypeOK
<1>3. OnTheWay' \subseteq Worker
  BY DEF OnTheWay
<1>4. /\ Cardinality(OnTheWay) \in Nat /\ Cardinality(OnTheWay') \in Nat
      /\ Cardinality(OnTheWay) <= Cardinality(OnTheWay')
  BY <1>3, FewerWorkers
<1> QED
  BY <1>1, <1>2, <1>4

(* Nothing to take. *)
LEMMA NothingIsEnough ==
  ASSUME MayTakeNodes' => workStack' = {}
  PROVE  EnoughInv'
<1> SUFFICES ASSUME MayTakeNodes'
             PROVE  Cardinality(Entries') <= Cardinality(OnTheWay')
  BY DEF EnoughInv
<1>1. Entries' = {}
  BY DEF Entries
<1>2. Cardinality(Entries') = 0
  BY <1>1, FS_EmptySet
<1>3. Cardinality(OnTheWay') \in Nat
  BY WorkersAreFinite DEF OnTheWay
<1> QED
  BY <1>2, <1>3

(* NextNode: one entry and one worker less. *)
LEMMA TakingIsEnough ==
  ASSUME TypeOK, EnoughInv, NEW w \in Worker, NEW n \in Node, NextNode(w, n)
  PROVE  EnoughInv'
<1> SUFFICES ASSUME ~DeferDagVerification, Sleepers' # {}, MayTakeNodes'
             PROVE  Cardinality(Entries') <= Cardinality(OnTheWay')
  BY DEF EnoughInv
<1>1. OthersMove(w) /\ pc[w] = "next" /\ pc'[w] = "process"
  BY GotoMoves DEF NextNode, CanPop, OthersMove, WorkerPc
<1>2. \A v \in Worker \ {w} : pc'[v] = pc[v]
  BY DEF NextNode, Goto, TypeOK
<1>3. Sleepers # {} /\ MayTakeNodes
  BY <1>1, <1>2
     DEF NextNode, Sleepers, MayTakeNodes, StopPicking, AllowedToPickUpProcessNodeTask
<1>4. Cardinality(Entries) <= Cardinality(OnTheWay)
  BY <1>3 DEF EnoughInv
<1>5. n \in Entries /\ Entries \subseteq Node /\ Entries' = Entries \ {n}
  BY DEF NextNode, CanPop, Top, Entries, Stale, TypeOK
<1>6. w \in OnTheWay /\ OnTheWay \subseteq Worker /\ OnTheWay' = OnTheWay \ {w}
  BY <1>1, <1>2 DEF OnTheWay, OnTheWayPc
<1>7. /\ Cardinality(Entries) \in Nat
      /\ Cardinality(Entries') = Cardinality(Entries) - 1
  BY <1>5, NodesAreFinite, FS_RemoveElement
<1>8. /\ Cardinality(OnTheWay) \in Nat
      /\ Cardinality(OnTheWay') = Cardinality(OnTheWay) - 1
  BY <1>6, WorkersAreFinite, FS_RemoveElement
<1> QED
  BY <1>4, <1>7, <1>8

(* Broadcast leaves nobody asleep but the caller. *)
LEMMA BroadcastWakesAll ==
  ASSUME TypeOK, NEW w \in Worker, NEW next \in WorkerPc \ {"asleep"},
         Goto(w, next, Sleepers)
  PROVE  Sleepers' = {}
BY DEF Goto, Sleepers, TypeOK

(* The end of the verification: it places nothing, but it allows what was  *)
(* on the stack to be taken.                                               *)
LEMMA VerifiedIsEnough ==
  ASSUME TypeOK, NEW w \in Worker, NEW isValid \in BOOLEAN, FinishDagVerification(w, isValid)
  PROVE  EnoughInv'
<1> SUFFICES ASSUME Sleepers' # {}
             PROVE  Cardinality(Entries') <= Cardinality(OnTheWay')
  BY DEF EnoughInv
<1>1. PICK woken \in WakeWaiters(Cardinality(workStack)) : Goto(w, "pick", woken)
  BY DEF FinishDagVerification
<1>2. Cardinality(workStack) \in Nat /\ ~ (Cardinality(workStack) > 1)
  <2>1. woken # Sleepers
    BY <1>1, BroadcastWakesAll DEF WorkerPc
  <2> QED
    BY <1>1, <2>1, NodesAreFinite DEF WakeWaiters, CondBroadcast, TypeOK
<1>3. pc'[w] = "pick"
  BY <1>1, GotoMoves, WokenWereAsleep DEF WorkerPc
<1>4. workStack' = workStack
  BY DEF FinishDagVerification
<1>5. Cardinality(Entries') \in Nat /\ Cardinality(Entries') <= Cardinality(workStack)
  BY <1>4, FewerNodes DEF Entries, TypeOK
<1>6. {w} \subseteq OnTheWay' /\ OnTheWay' \subseteq Worker
  BY <1>3 DEF OnTheWay, OnTheWayPc
<1>7. Cardinality({w}) <= Cardinality(OnTheWay') /\ Cardinality(OnTheWay') \in Nat
  BY <1>6, FewerWorkers
<1> QED
  BY <1>2, <1>5, <1>7, FS_Singleton

(* Entries placed by a worker that then goes for one itself: each of the   *)
(* others has a sleeper woken for it, or all are awake.                    *)
LEMMA PlacedIsEnough ==
  ASSUME TypeOK, EnoughInv, NEW w \in Worker, NEW next \in {"lock", "pick"},
         pc[w] \notin OnTheWayPc \cup {"asleep"},
         NEW placed, placed \subseteq Node, Entries' \subseteq Entries \cup placed,
         \E woken \in WakeForPlaced(Cardinality(placed)) : Goto(w, next, woken),
         MayTakeNodes' => MayTakeNodes
  PROVE  EnoughInv'
<1> SUFFICES ASSUME ~DeferDagVerification, Sleepers' # {}, MayTakeNodes'
             PROVE  Cardinality(Entries') <= Cardinality(OnTheWay')
  BY DEF EnoughInv
<1> DEFINE count == Cardinality(placed)
<1>1. PICK woken \in WakeForPlaced(count) : Goto(w, next, woken)
  OBVIOUS
<1>2. /\ woken \subseteq Sleepers /\ next \in WorkerPc \ {"asleep"} /\ count \in Nat
      /\ Entries \subseteq Node
  BY <1>1, WokenWereAsleep, NodesAreFinite DEF WorkerPc, Entries, TypeOK
<1>3. pc'[w] = next /\ OthersMove(w)
  BY <1>1, <1>2, GotoMoves DEF OthersMove
<1>4. Sleepers # {}
  BY <1>3 DEF Sleepers, OthersMove
<1>5. Cardinality(Entries) <= Cardinality(OnTheWay)
  BY <1>4 DEF EnoughInv
<1>6. /\ Cardinality(Entries') \in Nat /\ Cardinality(Entries) \in Nat
      /\ Cardinality(Entries') <= Cardinality(Entries) + count
  <2>1. Entries \cup placed \subseteq Node
    BY <1>2
  <2>2. /\ Cardinality(Entries') \in Nat /\ Cardinality(Entries \cup placed) \in Nat
        /\ Cardinality(Entries') <= Cardinality(Entries \cup placed)
    BY <2>1, FewerNodes
  <2>3. Cardinality(Entries \cup placed) <= Cardinality(Entries) + count
    BY <1>2, TogetherNotMore
  <2>4. Cardinality(Entries) \in Nat
    BY <1>2, NodesAreFinite
  <2> QED
    BY <1>2, <2>2, <2>3, <2>4
<1>7. /\ w \notin OnTheWay /\ OnTheWay \subseteq Worker /\ OnTheWay' \subseteq Worker
      /\ OnTheWay \cup {w} \subseteq OnTheWay'
  BY <1>3 DEF OnTheWay, OnTheWayPc, OthersMove
<1>8. /\ Cardinality(OnTheWay) \in Nat /\ IsFiniteSet(OnTheWay \cup {w})
      /\ Cardinality(OnTheWay \cup {w}) = Cardinality(OnTheWay) + 1
  BY <1>7, WorkersAreFinite, FS_AddElement
<1>9. CASE count <= 1
  <2>1. /\ Cardinality(OnTheWay') \in Nat
        /\ Cardinality(OnTheWay \cup {w}) <= Cardinality(OnTheWay')
    BY <1>7, FewerWorkers
  <2> QED
    BY <1>2, <1>5, <1>6, <1>8, <1>9, <2>1
<1>10. CASE count = 2
  <2>1. woken \in CondSignal
    BY <1>1, <1>10 DEF WakeForPlaced, WakeWaiters
  <2>2. PICK u \in Sleepers : woken = {u}
    BY <1>4, <2>1 DEF CondSignal
  <2>3. u \in Worker /\ u # w /\ u \notin OnTheWay /\ pc'[u] = "lock"
    BY <1>1, <2>2 DEF Sleepers, Goto, OnTheWay, OnTheWayPc
  <2>4. OnTheWay \cup {w} \cup {u} \subseteq OnTheWay' /\ u \notin OnTheWay \cup {w}
    BY <1>7, <2>3 DEF OnTheWay, OnTheWayPc
  <2>5. Cardinality(OnTheWay \cup {w} \cup {u}) = Cardinality(OnTheWay) + 2
    <3> DEFINE T == OnTheWay \cup {w}
    <3>1. IsFiniteSet(T) /\ u \notin T /\ Cardinality(T) = Cardinality(OnTheWay) + 1
      BY <1>8, <2>4
    <3> HIDE DEF T
    <3>2. Cardinality(T \cup {u}) = Cardinality(T) + 1
      BY <3>1, FS_AddElement
    <3>3. Cardinality(T \cup {u}) = Cardinality(OnTheWay) + 2
      BY <1>8, <3>1, <3>2
    <3> QED
      BY <3>3 DEF T
  <2>6. /\ Cardinality(OnTheWay') \in Nat
        /\ Cardinality(OnTheWay \cup {w} \cup {u}) <= Cardinality(OnTheWay')
    BY <1>7, <2>4, FewerWorkers
  <2> QED
    BY <1>5, <1>6, <1>8, <1>10, <2>5, <2>6
<1>11. CASE count > 2
  <2>1. woken = Sleepers
    BY <1>1, <1>2, <1>11 DEF WakeForPlaced, WakeWaiters, CondBroadcast
  <2> QED
    BY <1>1, <1>2, <2>1, BroadcastWakesAll
<1> QED
  BY <1>2, <1>9, <1>10, <1>11

(* A move of w that frees no entry and takes no worker off the way. *)
LEMMA QuietMoveIsEnough ==
  ASSUME TypeOK, TypeOK', EnoughInv, NEW w \in Worker, OthersMove(w),
         pc'[w] # "asleep", pc[w] \in OnTheWayPc => pc'[w] \in OnTheWayPc,
         workStack' \subseteq workStack, UNCHANGED <<active, finished>>,
         UNCHANGED <<dagVerificationStatus, finalBuildResult>>
  PROVE  EnoughInv'
<1>1. Entries' \subseteq Entries
  BY DEF Entries, Stale
<1>2. OnTheWay \subseteq OnTheWay' /\ Sleepers' \subseteq Sleepers
  BY DEF OthersMove, OnTheWay, OnTheWayPc, Sleepers
<1>3. MayTakeNodes' => MayTakeNodes
  BY DEF MayTakeNodes, StopPicking, AllowedToPickUpProcessNodeTask
<1> QED
  BY <1>1, <1>2, <1>3, QuietIsEnough

(* PickAndDoNextTask. *)
LEMMA PickIsEnough ==
  ASSUME TypeOK, TypeOK', EnoughInv, NEW w \in Worker, Pick(w)
  PROVE  EnoughInv'
<1> USE DEF queueVars, nodeVars, mainVars, envVars
<1>1. CASE TakeLock(w) \/ NoDagVerification(w) \/ FinishEarlyStat(w) \/ NoTask(w)
  <2>1. \E next \in {"pick", "next", "more"} :
           OthersMove(w) /\ pc'[w] = next
    BY <1>1, GotoMoves DEF TakeLock, NoDagVerification, FinishEarlyStat, NoTask, OthersMove,
       WorkerPc
  <2>2. UNCHANGED <<workStack, active, finished, dagVerificationStatus, finalBuildResult>>
    BY <1>1 DEF TakeLock, NoDagVerification, FinishEarlyStat, NoTask
  <2> QED
    BY <2>1, <2>2, QuietMoveIsEnough DEF OnTheWayPc
<1>2. CASE PickDagVerification(w)
  BY <1>2, NothingIsEnough
     DEF PickDagVerification, MayTakeNodes, AllowedToPickUpProcessNodeTask, EnoughInv
<1>3. ASSUME NEW isValid \in BOOLEAN, FinishDagVerification(w, isValid)
      PROVE  EnoughInv'
  BY <1>3, VerifiedIsEnough
<1>4. ASSUME NEW n \in Node, PopStale(w, n)
      PROVE  EnoughInv'
  BY <1>4, QuietMoveIsEnough DEF PopStale, CanPop, OthersMove
<1>5. ASSUME NEW n \in Node, NextNode(w, n)
      PROVE  EnoughInv'
  BY <1>5, TakingIsEnough
<1>6. CASE PickEarlyStat(w)
  BY <1>6, NothingIsEnough DEF PickEarlyStat, NoNodeToPick, MayTakeNodes, StopPicking,
     AllowedToPickUpProcessNodeTask
<1> QED
  BY <1>1, <1>2, <1>3, <1>4, <1>5, <1>6 DEF Pick

(* A failed node never makes more nodes available. *)
LEMMA ResultStopsPicking ==
  ASSUME NEW r, finalBuildResult' = BuildResultAfter(r), UNCHANGED dagVerificationStatus
  PROVE  MayTakeNodes' => MayTakeNodes
BY DEF BuildResultAfter, MayTakeNodes, StopPicking, AllowedToPickUpProcessNodeTask

(* FinishNode. *)
LEMMA FinishNodeIsEnough ==
  ASSUME TypeOK, TypeOK', EnoughInv, NEW w \in Worker, pc[w] \in HasNode,
         NEW next \in {"lock", "pick"}, FinishNode(w, node[w], next),
         MayTakeNodes' => MayTakeNodes
  PROVE  EnoughInv'
<1> DEFINE placed == Released(node[w]) \ workStack
<1>1. placed \subseteq Node
  BY DEF Released, TypeOK
<1>2. Entries' \subseteq Entries \cup placed
  BY DEF FinishNode, Entries, Stale
<1>3. \E woken \in WakeForPlaced(Cardinality(placed)) : Goto(w, next, woken)
  BY DEF FinishNode
<1>4. pc[w] \notin OnTheWayPc \cup {"asleep"}
  BY DEF HasNode, OnTheWayPc
<1> HIDE DEF placed
<1> QED
  BY <1>1, <1>2, <1>3, <1>4, PlacedIsEnough

(* A node put back is not on the stack, or it would not have been put      *)
(* back: the entries placed are all there are for others to take.          *)
LEMMA EnqueueToBuildDependenciesIsEnough ==
  ASSUME TypeOK, TypeOK', ReleasedInv, OneWorkerPerNode, EnoughInv, NEW w \in Worker,
         EnqueueToBuildDependencies(w)
  PROVE  EnoughInv'
<1> DEFINE placed == workStack' \ workStack
<1>1. pc[w] \in HasNode
  BY DEF EnqueueToBuildDependencies, AboutToBuild, HasNode
<1>2. node[w] \in active
  BY <1>1 DEF OneWorkerPerNode, Processing
<1>3. node[w] \notin workStack
  BY <1>2 DEF ReleasedInv, EnqueueToBuildDependencies, AllDependenciesAreFinished
<1>4. placed \subseteq Node
  BY DEF TypeOK
<1>5. Entries' \subseteq Entries \cup placed
  BY <1>3 DEF EnqueueToBuildDependencies, Entries, Stale
<1>6. \E woken \in WakeForPlaced(Cardinality(placed)) : Goto(w, "pick", woken)
  BY DEF EnqueueToBuildDependencies
<1>7. MayTakeNodes' => MayTakeNodes
  BY DEF EnqueueToBuildDependencies, MayTakeNodes, StopPicking, AllowedToPickUpProcessNodeTask
<1>8. pc[w] \notin OnTheWayPc \cup {"asleep"}
  BY <1>1 DEF HasNode, OnTheWayPc
<1> HIDE DEF placed
<1> QED
  BY <1>4, <1>5, <1>6, <1>7, <1>8, PlacedIsEnough

(* ProcessNode. *)
LEMMA ProcessNodeIsEnough ==
  ASSUME SchedulingInv, TypeOK', ReleasedInv, EnoughInv, NEW w \in Worker, ProcessNode(w)
  PROVE  EnoughInv'
<1>0. TypeOK /\ OneWorkerPerNode
  BY DEF SchedulingInv
<1> USE DEF queueVars, nodeVars, mainVars, envVars
<1>1. CASE BeginCacheLookup(w) \/ CacheLookupFoundNothing(w) \/ BeginExecuteNode(w)
  <2>1. \E next \in {"lookup", "build", "execute"} :
           OthersMove(w) /\ pc'[w] = next
    BY <1>0, <1>1, GotoMoves DEF BeginCacheLookup, CacheLookupFoundNothing, BeginExecuteNode,
       OthersMove, WorkerPc
  <2>2. UNCHANGED <<workStack, active, finished, dagVerificationStatus, finalBuildResult>>
    BY <1>1 DEF BeginCacheLookup, CacheLookupFoundNothing, BeginExecuteNode
  <2>3. pc[w] \notin OnTheWayPc
    BY <1>1 DEF BeginCacheLookup, CacheLookupFoundNothing, BeginExecuteNode, AboutToBuild,
       OnTheWayPc
  <2> QED
    BY <1>0, <2>1, <2>2, <2>3, QuietMoveIsEnough
<1>2. ASSUME NEW r \in Successful, CacheLookupMadeConsistent(w, r)
      PROVE  EnoughInv'
  <2>1. pc[w] \in HasNode /\ FinishNode(w, node[w], "lock")
    BY <1>2 DEF CacheLookupMadeConsistent, HasNode
  <2>2. MayTakeNodes' => MayTakeNodes
    BY <1>2 DEF CacheLookupMadeConsistent, MayTakeNodes, StopPicking,
       AllowedToPickUpProcessNodeTask
  <2> QED
    BY <1>0, <2>1, <2>2, FinishNodeIsEnough
<1>3. CASE EnqueueToBuildDependencies(w)
  BY <1>0, <1>3, EnqueueToBuildDependenciesIsEnough
<1>4. CASE SkipNode(w)
  <2>1. pc[w] \in HasNode /\ FinishNode(w, node[w], "pick")
    BY <1>4 DEF SkipNode, AboutToBuild, HasNode
  <2>2. MayTakeNodes' => MayTakeNodes
    BY <1>4 DEF SkipNode, MayTakeNodes, StopPicking, AllowedToPickUpProcessNodeTask
  <2> QED
    BY <1>0, <2>1, <2>2, FinishNodeIsEnough
<1>5. ASSUME NEW r \in ExecuteResult, FinishExecuteNode(w, r)
      PROVE  EnoughInv'
  <2>1. pc[w] \in HasNode /\ FinishNode(w, node[w], "pick")
    BY <1>5 DEF FinishExecuteNode, HasNode
  <2>2. MayTakeNodes' => MayTakeNodes
    BY <1>5, ResultStopsPicking DEF FinishExecuteNode
  <2> QED
    BY <1>0, <2>1, <2>2, FinishNodeIsEnough
<1> QED
  BY <1>1, <1>2, <1>3, <1>4, <1>5 DEF ProcessNode

(* Who falls asleep or leaves has seen an empty stack. *)
LEMMA IdleIsEnough ==
  ASSUME TypeOK, TypeOK', DullInv, EnoughInv, NEW w \in Worker, Idle(w)
  PROVE  EnoughInv'
<1> USE DEF queueVars, nodeVars
<1>1. pc[w] \in Dull
  BY DEF Idle, PrepareToSleep, SleepUntilWorkAvailable, LeaveBuildLoop, Dull
<1>2. UNCHANGED <<workStack, dagVerificationStatus, finalBuildResult>>
  BY DEF Idle, PrepareToSleep, SleepUntilWorkAvailable, LeaveBuildLoop
<1>3. MayTakeNodes' => workStack' = {}
  BY <1>1, <1>2 DEF DullInv, MayTakeNodes, StopPicking, AllowedToPickUpProcessNodeTask
<1> QED
  BY <1>3, NothingIsEnough

-----------------------------------------------------------------------------
(* The invariant *)

(* At the start the main thread has the lock and every worker waits for it. *)
LEMMA WakeupInit ==
  ASSUME Init
  PROVE  WakeupInv
<1>1. LockInv
  BY DEF Init, LockInv, HoldsLock
<1>2. VerificationInv
  BY DEF Init, VerificationInv
<1>3. DullInv /\ ReleasedInv /\ BusyInv
  BY DEF Init, DullInv, ReleasedInv, BusyInv, WorkAvailable
<1>4. EnoughInv
  BY DEF Init, EnoughInv, Sleepers
<1> QED
  BY <1>1, <1>2, <1>3, <1>4 DEF WakeupInv

(* Waking sleepers, and nothing else, harms nothing. *)
LEMMA WakingStep ==
  ASSUME TypeOK, TypeOK', WakeupInv,
         \A v \in Worker : pc'[v] = pc[v] \/ (pc[v] = "asleep" /\ pc'[v] = "lock"),
         UNCHANGED <<lock, queueVars, nodeVars>>, mainPc' = "enqueue" => mainPc = "enqueue",
         canary' = "listening" => canary = "listening"
  PROVE  WakeupInv'
<1> USE DEF queueVars, nodeVars
<1>1. LockInv'
  BY DEF WakeupInv, LockInv, HoldsLock
<1>2. VerificationInv'
  BY DEF WakeupInv, VerificationInv
<1>3. MayTakeNodes' <=> MayTakeNodes
  BY DEF MayTakeNodes, StopPicking, AllowedToPickUpProcessNodeTask
<1>4. DullInv'
  BY <1>3 DEF WakeupInv, DullInv, Dull
<1>5. ReleasedInv'
  BY DEF WakeupInv, ReleasedInv
<1>6. BusyInv'
  <2>1. Busy \subseteq Busy'
    BY DEF Busy, Dull
  <2>2. WorkAvailable' => WorkAvailable
    BY <1>3 DEF WorkAvailable, MayTakeNodes, Stale
  <2> QED
    BY <2>1, <2>2 DEF WakeupInv, BusyInv
<1>7. EnoughInv'
  <2>1. Entries' \subseteq Entries /\ OnTheWay \subseteq OnTheWay' /\ Sleepers' \subseteq Sleepers
    BY DEF Entries, Stale, OnTheWay, OnTheWayPc, Sleepers
  <2> QED
    BY <1>3, <2>1, QuietIsEnough DEF WakeupInv
<1> QED
  BY <1>1, <1>2, <1>4, <1>5, <1>6, <1>7 DEF WakeupInv

(* The first enqueueing is done before any worker gets the lock. *)
LEMMA BuildQueueBuildWakes ==
  ASSUME SchedulingInv, TypeOK', WakeupInv, BuildQueueBuild
  PROVE  WakeupInv'
<1>0. TypeOK /\ OnlyEnqueued
  BY DEF SchedulingInv
<1>1. \A v \in Worker : pc[v] = "lock" /\ pc'[v] = "lock"
  BY DEF BuildQueueBuild, WakeupInv, LockInv, Wake
<1>2. LockInv'
  BY <1>1 DEF BuildQueueBuild, LockInv, HoldsLock
<1>3. VerificationInv'
  BY <1>1 DEF BuildQueueBuild, WakeupInv, VerificationInv, envVars
<1>4. DullInv'
  BY <1>1 DEF DullInv, Dull
<1>5. ReleasedInv'
  <2>1. Requested \subseteq Node /\ EnqueueNodes(Requested) /\ UNCHANGED <<active, finished>>
    BY LoopAssumption DEF LoopAssumption, BuildQueueBuild
  <2>2. \A n \in workStack' \ workStack : n \notin active
    BY <1>0, <2>1, PlacedAreFresh
  <2> QED
    BY <2>1, <2>2, ReleasedStays DEF WakeupInv
<1>6. BusyInv'
  BY <1>1, LoopAssumption DEF LoopAssumption, BusyInv, Busy, Dull
<1>7. EnoughInv'
  BY <1>1 DEF EnoughInv, Sleepers
<1> QED
  BY <1>2, <1>3, <1>4, <1>5, <1>6, <1>7 DEF WakeupInv

(* The s arrives while nobody verifies; it makes no node available.        *)
LEMMA ReceiveSWakes ==
  ASSUME TypeOK, WakeupInv, ReceiveS
  PROVE  WakeupInv'
<1> USE DEF queueVars, nodeVars, mainVars
<1>1. /\ DeferDagVerification /\ dagVerificationStatus = "WaitingForInput"
      /\ dagVerificationStatus' = "RequiredVerification" /\ canary' = "notify"
      /\ UNCHANGED <<lock, pc, mainPc, workStack, active, finished, finalBuildResult>>
  BY DEF ReceiveS, WakeupInv, VerificationInv
<1>2. MayTakeNodes' <=> MayTakeNodes
  BY <1>1 DEF MayTakeNodes, StopPicking, AllowedToPickUpProcessNodeTask
<1>3. LockInv' /\ VerificationInv' /\ ReleasedInv' /\ EnoughInv'
  BY <1>1 DEF WakeupInv, LockInv, VerificationInv, ReleasedInv, EnoughInv
<1>4. DullInv'
  BY <1>1, <1>2 DEF WakeupInv, DullInv
<1>5. BusyInv'
  BY <1>1, <1>2 DEF WakeupInv, BusyInv, Busy, WorkAvailable, MayTakeNodes, Stale
<1> QED
  BY <1>3, <1>4, <1>5 DEF WakeupInv

(* WakeupInv is inductive. *)
LEMMA WakeupStep ==
  ASSUME SchedulingInv, TypeOK', WakeupInv, [Next]_vars
  PROVE  WakeupInv'
<1>0. TypeOK /\ OneWorkerPerNode
  BY DEF SchedulingInv
<1> USE DEF queueVars, nodeVars, mainVars, envVars
<1>1. ASSUME NEW w \in Worker, WorkerStep(w)
      PROVE  WakeupInv'
  <2>1. Moves(w)
    BY <1>0, <1>1, WorkerMoves
  <2>2. LockInv' /\ VerificationInv' /\ DullInv' /\ BusyInv'
    BY <1>0, <2>1, LockStep, VerificationStep, DullStep, BusyStep DEF WakeupInv
  <2>3. ReleasedInv'
    BY <1>1, ReleasedStep DEF WakeupInv
  <2>4. EnoughInv'
    BY <1>0, <1>1, PickIsEnough, ProcessNodeIsEnough, IdleIsEnough DEF WakeupInv, WorkerStep
  <2> QED
    BY <2>2, <2>3, <2>4 DEF WakeupInv
<1>2. ASSUME NEW w \in Worker, SpuriousWakeup(w)
      PROVE  WakeupInv'
  <2>1. \A v \in Worker : pc'[v] = pc[v] \/ (pc[v] = "asleep" /\ pc'[v] = "lock")
    BY <1>2 DEF SpuriousWakeup, Goto
  <2> QED
    BY <1>0, <1>2, <2>1, WakingStep DEF SpuriousWakeup
<1>3. CASE NotifyWorker
  <2>1. \A v \in Worker : pc'[v] = pc[v] \/ (pc[v] = "asleep" /\ pc'[v] = "lock")
    BY <1>3 DEF NotifyWorker, Wake, CondSignal, Sleepers
  <2> QED
    BY <1>0, <1>3, <2>1, WakingStep DEF NotifyWorker
<1>4. CASE \/ BuildFinished \/ CheckSignalReason \/ ReturnFinalBuildResult
           \/ BuildQueueDestroy \/ MainSpuriousWakeup
           \/ StdinClosed \/ HandleSignal \/ UNCHANGED vars
  <2>1. /\ UNCHANGED <<lock, queueVars, nodeVars, pc>>
        /\ mainPc' = "enqueue" => mainPc = "enqueue"
        /\ canary' = "listening" => canary = "listening"
    BY <1>4 DEF BuildFinished, CheckSignalReason, ReturnFinalBuildResult, BuildQueueDestroy,
       MainSpuriousWakeup, StdinClosed, HandleSignal, SignalSet, WakeMain, vars
  <2> QED
    BY <1>0, <2>1, WakingStep
<1>5. CASE BuildQueueBuild
  BY <1>5, BuildQueueBuildWakes
<1>6. CASE ReceiveS
  BY <1>0, <1>6, ReceiveSWakes
<1> QED
  BY <1>1, <1>2, <1>3, <1>4, <1>5, <1>6 DEF Next, MainStep, CanaryStep

(* The invariant behind the two theorems below.                            *)
THEOREM WakeupInvariant == Spec => []WakeupInv
<1>1. Init => WakeupInv
  BY WakeupInit
<1>2. SchedulingInv /\ TypeOK' /\ WakeupInv /\ [Next]_vars => WakeupInv'
  BY WakeupStep
<1> QED
  BY <1>1, <1>2, SchedulingInvariant, TypeCorrect, PTL DEF Spec

(* Whatever is saved on signals: while there is work to take, somebody is  *)
(* awake to take it.                                                       *)
THEOREM SomebodyIsAwake == Spec => []NoLostWakeup
<1>1. WakeupInv => NoLostWakeup
  BY DEF WakeupInv, BusyInv, Busy, NoLostWakeup
<1> QED
  BY <1>1, WakeupInvariant, PTL

(* A graph that is verified before anything is built loses no parallelism  *)
(* to a wakeup saved. (When verification is deferred it may: the worker    *)
(* that was counted on for an entry may take the verification instead.)    *)
THEOREM NoParallelismLost ==
  ASSUME ~DeferDagVerification
  PROVE  Spec => []EnoughWorkersAwake
<1>1. TypeOK /\ WakeupInv => EnoughWorkersAwake
  <2> SUFFICES ASSUME TypeOK, WakeupInv, Sleepers # {}, MayTakeNodes
               PROVE  Cardinality(Entries) <=
                        Cardinality({w \in Worker : pc[w] \notin Unlocked \cup {"asleep", "exited"}})
    BY DEF EnoughWorkersAwake, MayTakeNodes, Entries
  <2> DEFINE awake == {w \in Worker : pc[w] \notin Unlocked \cup {"asleep", "exited"}}
  <2>1. Cardinality(Entries) <= Cardinality(OnTheWay)
    BY DEF WakeupInv, EnoughInv
  <2>2. OnTheWay \subseteq awake /\ awake \subseteq Worker
    BY DEF OnTheWay, OnTheWayPc, Unlocked
  <2>3. /\ Cardinality(OnTheWay) \in Nat /\ Cardinality(awake) \in Nat
        /\ Cardinality(OnTheWay) <= Cardinality(awake)
    BY <2>2, FewerWorkers
  <2>4. Cardinality(Entries) \in Nat
    BY NodesAreFinite DEF Entries, TypeOK
  <2> QED
    BY <2>1, <2>3, <2>4
<1> QED
  BY <1>1, WakeupInvariant, TypeCorrect, PTL

-----------------------------------------------------------------------------
(* What BuildQueueBuild returns is true and final, failures are reported,  *)
(* and with that the build loop implements NodeSchedule. What the main     *)
(* thread is told rests on its CondWait returning only when signalled.     *)

(* Every node ever enqueued is finished. *)
Settled == finished = hasEverBeenQueued

(* Nothing is left to do, or it is known that not everything can be built. *)
BuildOver == Settled \/ finalBuildResult # "Ok"

AllBuilt == \A n \in finished : buildResult[n] \in Successful

(* What a result of the build says about the nodes. *)
ResultsAreHonest ==
  /\ finalBuildResult = "Ok" => AllBuilt
  /\ finalBuildResult = "BuildError" => \E n \in finished : buildResult[n] = "RanFailed"
  /\ dagVerificationStatus = "Failed" => finalBuildResult # "Ok"

(* The main thread has not returned yet. *)
Building == mainPc \in {"enqueue", "waiting", "woken", "signal", "result"}

(* The main thread is woken by a worker that found the build over, or by a *)
(* signal, which it asks for before it looks at the result.                *)
MainIsToldTheTruth ==
  /\ mainPc # "enqueue" => Requested \subseteq hasEverBeenQueued
  /\ mainPc \in {"woken", "signal"} => signalled \/ BuildOver
  /\ mainPc = "result" => BuildOver
  /\ Building => returned = "None"
  /\ returned = "Ok" => Settled /\ AllBuilt

LookupsAreCacheable == \A w \in Worker : pc[w] = "lookup" => node[w] \in Cacheable

ResultInv == ResultsAreHonest /\ MainIsToldTheTruth /\ LookupsAreCacheable

(* Before anything is enqueued nothing is claimed. *)
LEMMA ResultInit ==
  ASSUME Init
  PROVE  ResultInv
BY DEF Init, ResultInv, ResultsAreHonest, AllBuilt, MainIsToldTheTruth, Building,
   LookupsAreCacheable

-----------------------------------------------------------------------------
(* What a step does to the nodes *)

(* Nothing but processing a node, and the main thread's first step,        *)
(* finishes or enqueues a node.                                            *)
nodeSetVars == <<finished, hasEverBeenQueued, buildResult>>

(* Picking a task, sleeping and leaving keep every node as it is. *)
LEMMA OnlyProcessNodeMovesNodes ==
  ASSUME NEW w \in Worker, Pick(w) \/ Idle(w) \/ SpuriousWakeup(w)
  PROVE  UNCHANGED nodeSetVars
BY DEF Pick, TakeLock, PickDagVerification, NoDagVerification, FinishDagVerification,
   PopStale, NextNode, PickEarlyStat, FinishEarlyStat, NoTask, Idle, PrepareToSleep,
   SleepUntilWorkAvailable, LeaveBuildLoop, SpuriousWakeup, nodeVars, nodeSetVars

(* So does every thread that is no worker, once the build is enqueued. *)
LEMMA OthersMoveNoNodes ==
  ASSUME MainStep \/ MainSpuriousWakeup \/ CanaryStep \/ HandleSignal, ~BuildQueueBuild
  PROVE  UNCHANGED nodeSetVars
BY DEF MainStep, BuildFinished, CheckSignalReason, ReturnFinalBuildResult, BuildQueueDestroy,
   MainSpuriousWakeup, CanaryStep, ReceiveS, NotifyWorker, StdinClosed, HandleSignal,
   nodeVars, nodeSetVars

(* A worker that processes a node has one that is not finished. *)
LEMMA ProcessNodeHasNode ==
  ASSUME SchedulingInv, NEW w \in Worker, ProcessNode(w)
  PROVE  pc[w] \in HasNode /\ node[w] \in Node /\ node[w] \in hasEverBeenQueued \ finished
<1>1. pc[w] \in HasNode
  BY DEF ProcessNode, BeginCacheLookup, CacheLookupFoundNothing, CacheLookupMadeConsistent,
     EnqueueToBuildDependencies, SkipNode, BeginExecuteNode, FinishExecuteNode, AboutToBuild,
     HasNode
<1>2. TypeOK /\ Owned
  BY OwnedIsOneWorkerPerNode DEF SchedulingInv
<1>3. node[w] \in Node /\ node[w] \in active
  BY <1>1, <1>2, ProcessedIsNode DEF Owned, TypeOK
<1> QED
  BY <1>1, <1>2, <1>3 DEF Owned, SchedulingInv, OnlyEnqueued

(* A build in which everything is finished stays as it is. *)
LEMMA SettledStays ==
  ASSUME SchedulingInv, [Next]_vars, ~BuildQueueBuild, Settled
  PROVE  UNCHANGED nodeSetVars /\ Settled'
<1>1. ASSUME NEW w \in Worker, ProcessNode(w)
      PROVE  FALSE
  BY <1>1, ProcessNodeHasNode DEF Settled
<1>2. UNCHANGED nodeSetVars
  <2>1. ASSUME NEW w \in Worker, WorkerStep(w) \/ SpuriousWakeup(w)
        PROVE  UNCHANGED nodeSetVars
    BY <1>1, <2>1, OnlyProcessNodeMovesNodes DEF WorkerStep
  <2>2. CASE UNCHANGED vars
    BY <2>2 DEF vars, nodeVars, nodeSetVars
  <2> QED
    BY <2>1, <2>2, OthersMoveNoNodes DEF Next
<1> QED
  BY <1>2 DEF nodeSetVars, Settled
-----------------------------------------------------------------------------
(* The result of the build is that of its nodes *)

(* A result stays true while neither it nor the nodes change. *)
LEMMA QuietStepIsHonest ==
  ASSUME ResultsAreHonest, UNCHANGED <<finished, buildResult, finalBuildResult>>,
         dagVerificationStatus' = "Failed" => dagVerificationStatus = "Failed"
  PROVE  ResultsAreHonest'
BY DEF ResultsAreHonest, AllBuilt

(* A failed DAG verification leaves no Ok behind. *)
LEMMA PickIsHonest ==
  ASSUME ResultsAreHonest, NEW w \in Worker, Pick(w)
  PROVE  ResultsAreHonest'
<1> USE DEF queueVars, nodeVars
<1>1. ASSUME NEW isValid \in BOOLEAN, FinishDagVerification(w, isValid)
      PROVE  ResultsAreHonest'
  BY <1>1 DEF FinishDagVerification, ResultsAreHonest, AllBuilt
<1>2. CASE TakeLock(w) \/ NoDagVerification(w) \/ PickDagVerification(w)
            \/ PickEarlyStat(w) \/ FinishEarlyStat(w) \/ NoTask(w)
            \/ \E n \in Node : PopStale(w, n) \/ NextNode(w, n)
  <2>1. /\ UNCHANGED <<finished, buildResult, finalBuildResult>>
        /\ dagVerificationStatus' = "Failed" => dagVerificationStatus = "Failed"
    BY <1>2 DEF TakeLock, NoDagVerification, PickDagVerification, PickEarlyStat,
       FinishEarlyStat, NoTask, PopStale, NextNode
  <2> QED
    BY <2>1, QuietStepIsHonest
<1> QED
  BY <1>1, <1>2 DEF Pick

(* The node of w gets its result and joins the finished ones.              *)
LEMMA FinishedNodeHasResult ==
  ASSUME SchedulingInv, NEW w \in Worker, ProcessNode(w), NEW r \in NodeBuildResult,
         buildResult' = [buildResult EXCEPT ![node[w]] = r],
         finished' = finished \cup {node[w]}
  PROVE  /\ buildResult'[node[w]] = r
         /\ \A n \in finished : n \in Node /\ n # node[w] /\ buildResult'[n] = buildResult[n]
BY ProcessNodeHasNode DEF SchedulingInv, TypeOK

(* A node that ends badly takes the Ok away; a skipped one has a           *)
(* dependency that did.                                                    *)
LEMMA ProcessNodeIsHonest ==
  ASSUME SchedulingInv, ResultsAreHonest, NEW w \in Worker, ProcessNode(w)
  PROVE  ResultsAreHonest'
<1> USE DEF queueVars, nodeVars
<1>1. CASE BeginCacheLookup(w) \/ CacheLookupFoundNothing(w) \/ BeginExecuteNode(w)
            \/ EnqueueToBuildDependencies(w)
  <2>1. UNCHANGED <<finished, buildResult, finalBuildResult, dagVerificationStatus>>
    BY <1>1 DEF BeginCacheLookup, CacheLookupFoundNothing, BeginExecuteNode,
       EnqueueToBuildDependencies
  <2> QED
    BY <2>1, QuietStepIsHonest
<1>2. ASSUME NEW r \in Successful, CacheLookupMadeConsistent(w, r)
      PROVE  ResultsAreHonest'
  <2>1. /\ buildResult' = [buildResult EXCEPT ![node[w]] = r]
        /\ finished' = finished \cup {node[w]}
        /\ UNCHANGED <<finalBuildResult, dagVerificationStatus>>
    BY <1>2 DEF CacheLookupMadeConsistent, FinishNode
  <2>2. r \in NodeBuildResult
    BY DEF Successful, NodeBuildResult
  <2>3. /\ buildResult'[node[w]] = r
        /\ \A n \in finished : buildResult'[n] = buildResult[n]
    BY <2>1, <2>2, FinishedNodeHasResult
  <2> QED
    BY <2>1, <2>3 DEF ResultsAreHonest, AllBuilt
<1>3. CASE SkipNode(w)
  <2>1. /\ finished' = finished \cup {node[w]}
        /\ UNCHANGED <<buildResult, finalBuildResult, dagVerificationStatus>>
        /\ \E d \in finished : buildResult[d] \notin Successful
    BY <1>3 DEF SkipNode, FinishNode, AllDependenciesAreFinished, AllDependenciesAreSuccesful
  <2> QED
    BY <2>1 DEF ResultsAreHonest, AllBuilt
<1>4. ASSUME NEW r \in ExecuteResult, FinishExecuteNode(w, r)
      PROVE  ResultsAreHonest'
  <2>1. /\ buildResult' = [buildResult EXCEPT ![node[w]] = r]
        /\ finished' = finished \cup {node[w]}
        /\ finalBuildResult' = BuildResultAfter(r) /\ UNCHANGED dagVerificationStatus
    BY <1>4 DEF FinishExecuteNode, FinishNode
  <2>2. r \in NodeBuildResult
    BY DEF ExecuteResult
  <2>3. /\ buildResult'[node[w]] = r
        /\ \A n \in finished : buildResult'[n] = buildResult[n]
    BY <2>1, <2>2, FinishedNodeHasResult
  <2>4. /\ finalBuildResult' = "Ok" => finalBuildResult = "Ok" /\ r \in Successful
        /\ finalBuildResult' = "BuildError" => finalBuildResult = "BuildError" \/ r = "RanFailed"
    BY <2>1 DEF BuildResultAfter, ExecuteResult, NodeBuildResult, Successful
  <2> QED
    BY <2>1, <2>3, <2>4 DEF ResultsAreHonest, AllBuilt
<1> QED
  BY <1>1, <1>2, <1>3, <1>4 DEF ProcessNode

(* Nobody else changes the nodes or the result. *)
LEMMA OthersAreHonest ==
  ASSUME ResultsAreHonest,
         \/ \E w \in Worker : Idle(w) \/ SpuriousWakeup(w)
         \/ MainStep \/ MainSpuriousWakeup \/ CanaryStep \/ HandleSignal
         \/ UNCHANGED vars
  PROVE  ResultsAreHonest'
<1>1. /\ UNCHANGED <<finished, buildResult, finalBuildResult>>
      /\ dagVerificationStatus' = "Failed" => dagVerificationStatus = "Failed"
  BY DEF Idle, PrepareToSleep, SleepUntilWorkAvailable, LeaveBuildLoop, SpuriousWakeup,
     MainStep, BuildQueueBuild, BuildFinished, CheckSignalReason, ReturnFinalBuildResult,
     BuildQueueDestroy, MainSpuriousWakeup, CanaryStep, ReceiveS, NotifyWorker, StdinClosed,
     HandleSignal, vars, queueVars, nodeVars
<1> QED
  BY <1>1, QuietStepIsHonest

(* The result of the build is true of its nodes after every step. *)
LEMMA HonestStep ==
  ASSUME SchedulingInv, ResultsAreHonest, [Next]_vars
  PROVE  ResultsAreHonest'
BY PickIsHonest, ProcessNodeIsHonest, OthersAreHonest DEF Next, WorkerStep
-----------------------------------------------------------------------------
(* What the main thread is told *)

(* A build that is over stays over, and one that returned Ok stays built.  *)
LEMMA OverStays ==
  ASSUME SchedulingInv, ResultsAreHonest, [Next]_vars, ~BuildQueueBuild
  PROVE  /\ BuildOver => BuildOver'
         /\ Settled /\ AllBuilt => Settled' /\ AllBuilt'
<1>1. finalBuildResult # "Ok" => finalBuildResult' # "Ok"
  <2>1. ASSUME NEW w \in Worker, NEW r \in ExecuteResult, FinishExecuteNode(w, r),
               finalBuildResult # "Ok"
        PROVE  finalBuildResult' # "Ok"
    BY <2>1 DEF FinishExecuteNode, BuildResultAfter
  <2>2. ASSUME NEW w \in Worker, NEW isValid \in BOOLEAN, FinishDagVerification(w, isValid),
               finalBuildResult # "Ok"
        PROVE  finalBuildResult' # "Ok"
    BY <2>2 DEF FinishDagVerification
  <2>3. ASSUME NEW w \in Worker, ProcessNode(w), finalBuildResult # "Ok"
        PROVE  finalBuildResult' # "Ok"
    BY <2>1, <2>3 DEF ProcessNode, BeginCacheLookup, CacheLookupFoundNothing,
       CacheLookupMadeConsistent, EnqueueToBuildDependencies, SkipNode, BeginExecuteNode,
       queueVars
  <2>4. ASSUME NEW w \in Worker, Pick(w), finalBuildResult # "Ok"
        PROVE  finalBuildResult' # "Ok"
    BY <2>2, <2>4 DEF Pick, TakeLock, NoDagVerification, PickDagVerification, PickEarlyStat,
       FinishEarlyStat, NoTask, PopStale, NextNode, queueVars
  <2>5. ASSUME \/ \E w \in Worker : Idle(w) \/ SpuriousWakeup(w)
               \/ MainStep \/ MainSpuriousWakeup \/ CanaryStep \/ HandleSignal
               \/ UNCHANGED vars
        PROVE  UNCHANGED finalBuildResult
    BY <2>5 DEF Idle, PrepareToSleep, SleepUntilWorkAvailable, LeaveBuildLoop, SpuriousWakeup,
       MainStep, BuildQueueBuild, BuildFinished, CheckSignalReason, ReturnFinalBuildResult,
       BuildQueueDestroy, MainSpuriousWakeup, CanaryStep, ReceiveS, NotifyWorker, StdinClosed,
       HandleSignal, vars, queueVars
  <2> QED
    BY <2>3, <2>4, <2>5 DEF Next, WorkerStep
<1>2. Settled => UNCHANGED nodeSetVars /\ Settled'
  BY SettledStays
<1> QED
  BY <1>1, <1>2 DEF BuildOver, AllBuilt, nodeSetVars

(* The counters tell a worker that leaves when everything is finished.     *)
LEMMA LeavesWhenOver ==
  ASSUME SchedulingInv, ResultsAreHonest, ~MightMoreWorkArrive
  PROVE  signalled \/ BuildOver
<1>1. CASE finishedNodeCount = amountOfNodesEverQueued
  <2>1. IsFiniteSet(hasEverBeenQueued) /\ finished \subseteq hasEverBeenQueued
    BY NodesAreFinite DEF SchedulingInv, TypeOK, CountersAgree
  <2>2. Cardinality(finished) = Cardinality(hasEverBeenQueued)
    BY <1>1 DEF SchedulingInv, CountersAgree
  <2>3. finished = hasEverBeenQueued
    BY <2>1, <2>2, FS_Subset, FS_CardinalityType
  <2> QED
    BY <2>3 DEF BuildOver, Settled
<1>2. CASE finishedNodeCount # amountOfNodesEverQueued
  BY <1>2 DEF MightMoreWorkArrive, ResultsAreHonest, BuildOver
<1> QED
  BY <1>1, <1>2

(* A worker changes nothing of the main thread's, but may wake it once it *)
(* leaves the loop.                                                        *)
LEMMA WorkersAndMain ==
  ASSUME NEW w \in Worker, WorkerStep(w) \/ SpuriousWakeup(w)
  PROVE  /\ returned' = returned /\ signalled' = signalled
         /\ hasEverBeenQueued \subseteq hasEverBeenQueued'
         /\ \/ mainPc' = mainPc
            \/ mainPc = "waiting" /\ mainPc' = "woken" /\ ~MightMoreWorkArrive
<1> USE DEF mainVars, envVars, nodeVars
<1>1. CASE Pick(w)
  <2>1. UNCHANGED <<mainPc, returned, signalled, hasEverBeenQueued>>
    BY <1>1 DEF Pick, TakeLock, PickDagVerification, NoDagVerification, FinishDagVerification,
       PopStale, NextNode, PickEarlyStat, FinishEarlyStat, NoTask
  <2> QED
    BY <2>1
<1>2. CASE ProcessNode(w)
  <2>1. UNCHANGED <<mainPc, returned, signalled>>
    BY <1>2 DEF ProcessNode, BeginCacheLookup, CacheLookupFoundNothing,
       CacheLookupMadeConsistent, EnqueueToBuildDependencies, SkipNode, BeginExecuteNode,
       FinishExecuteNode
  <2>2. hasEverBeenQueued \subseteq hasEverBeenQueued'
    BY <1>2 DEF ProcessNode, BeginCacheLookup, CacheLookupFoundNothing,
       CacheLookupMadeConsistent, EnqueueToBuildDependencies, SkipNode, BeginExecuteNode,
       FinishExecuteNode, FinishNode, EnqueueNodes
  <2> QED
    BY <2>1, <2>2
<1>3. CASE Idle(w) \/ SpuriousWakeup(w)
  BY <1>3 DEF Idle, PrepareToSleep, SleepUntilWorkAvailable, LeaveBuildLoop, SpuriousWakeup,
     WakeMain
<1> QED
  BY <1>1, <1>2, <1>3 DEF WorkerStep

(* A worker only wakes the main thread when the build is over. *)
LEMMA WorkersTellTheTruth ==
  ASSUME SchedulingInv, ResultInv, NEW w \in Worker, WorkerStep(w) \/ SpuriousWakeup(w)
  PROVE  MainIsToldTheTruth'
<1>1. [Next]_vars
  BY DEF Next
<1>2. CASE BuildQueueBuild
  <2>1. mainPc = "enqueue" /\ mainPc' = "waiting"
    BY <1>2 DEF BuildQueueBuild
  <2> QED
    BY <2>1, WorkersAndMain
<1>3. CASE ~BuildQueueBuild
  <2>1. /\ BuildOver => BuildOver'
        /\ Settled /\ AllBuilt => Settled' /\ AllBuilt'
    BY <1>1, <1>3, OverStays DEF ResultInv
  <2>2. ~MightMoreWorkArrive => signalled \/ BuildOver
    BY LeavesWhenOver DEF ResultInv
  <2>3. /\ returned' = returned /\ signalled' = signalled
        /\ hasEverBeenQueued \subseteq hasEverBeenQueued'
        /\ \/ mainPc' = mainPc
           \/ mainPc = "waiting" /\ mainPc' = "woken" /\ ~MightMoreWorkArrive
    BY WorkersAndMain
  <2> HIDE DEF BuildOver, Settled, AllBuilt, MightMoreWorkArrive
  <2> QED
    BY <2>1, <2>2, <2>3 DEF ResultInv, MainIsToldTheTruth, Building
<1> QED
  BY <1>2, <1>3

(* The main thread enqueues what was requested before it waits.            *)
LEMMA MainEnqueuesRequested ==
  ASSUME TypeOK, BuildQueueBuild, MainIsToldTheTruth
  PROVE  MainIsToldTheTruth'
<1>1. hasEverBeenQueued' = hasEverBeenQueued \cup FirstTimeEnqueued(Requested)
  BY DEF BuildQueueBuild, EnqueueNodes
<1>2. Requested \subseteq hasEverBeenQueued'
  BY <1>1, FirstTimeEnqueuedClosed, LoopAssumption DEF LoopAssumption
<1>3. mainPc = "enqueue" /\ mainPc' = "waiting" /\ returned' = returned
  BY DEF BuildQueueBuild
<1> QED
  BY <1>2, <1>3 DEF MainIsToldTheTruth, Building

(* It asks whether it was signalled before it looks at the result, and     *)
(* takes an Ok only from a build whose nodes are all finished.             *)
LEMMA MainReturnsTheTruth ==
  ASSUME ResultInv, MainStep, ~BuildQueueBuild
  PROVE  MainIsToldTheTruth'
<1>1. UNCHANGED <<finished, hasEverBeenQueued, buildResult, finalBuildResult, signalled>>
  BY DEF MainStep, BuildFinished, CheckSignalReason, ReturnFinalBuildResult,
     BuildQueueDestroy, nodeVars, queueVars, envVars
<1>2. /\ BuildOver' <=> BuildOver
      /\ Settled' <=> Settled
      /\ AllBuilt' <=> AllBuilt
  BY <1>1 DEF BuildOver, Settled, AllBuilt
<1>3. finalBuildResult = "Ok" /\ BuildOver => Settled /\ AllBuilt
  BY DEF ResultInv, ResultsAreHonest, BuildOver
<1>4. CASE BuildFinished \/ BuildQueueDestroy
  BY <1>1, <1>2, <1>4 DEF BuildFinished, BuildQueueDestroy, ResultInv, MainIsToldTheTruth,
     Building
<1>5. CASE CheckSignalReason
  BY <1>1, <1>2, <1>5 DEF CheckSignalReason, ResultInv, MainIsToldTheTruth, Building
<1>6. CASE ReturnFinalBuildResult
  BY <1>1, <1>2, <1>3, <1>6 DEF ReturnFinalBuildResult, ResultInv, MainIsToldTheTruth,
     Building
<1> QED
  BY <1>4, <1>5, <1>6 DEF MainStep

(* The canary and the signal handler give the signal before they wake. *)
LEMMA EnvironmentTellsTheTruth ==
  ASSUME ResultInv, CanaryStep \/ HandleSignal \/ UNCHANGED vars
  PROVE  MainIsToldTheTruth'
<1> USE DEF mainVars, envVars, nodeVars, queueVars
<1>1. UNCHANGED <<finished, hasEverBeenQueued, buildResult, finalBuildResult, returned>>
  BY DEF CanaryStep, ReceiveS, NotifyWorker, StdinClosed, HandleSignal, vars
<1>2. /\ BuildOver' <=> BuildOver
      /\ Settled' <=> Settled
      /\ AllBuilt' <=> AllBuilt
  BY <1>1 DEF BuildOver, Settled, AllBuilt
<1>3. \/ mainPc' = mainPc /\ (signalled => signalled')
      \/ mainPc = "waiting" /\ mainPc' = "woken" /\ signalled'
  BY DEF CanaryStep, ReceiveS, NotifyWorker, StdinClosed, HandleSignal, SignalSet, WakeMain,
     vars
<1> QED
  BY <1>1, <1>2, <1>3 DEF ResultInv, MainIsToldTheTruth, Building

-----------------------------------------------------------------------------
(* Only nodes that a lookup can help are looked up *)

(* A worker that goes anywhere else starts no lookup. *)
LEMMA GotoLooksNothingUp ==
  ASSUME TypeOK, LookupsAreCacheable, NEW w \in Worker,
         NEW next \in WorkerPc \ {"lookup"}, NEW woken, woken \subseteq Sleepers,
         Goto(w, next, woken), \A v \in Worker \ {w} : node'[v] = node[v]
  PROVE  LookupsAreCacheable'
BY GotoMoves DEF LookupsAreCacheable

(* Nor does one that is woken. *)
LEMMA NoOneMoves ==
  ASSUME LookupsAreCacheable, NEW woken, Wake(woken) \/ UNCHANGED pc, UNCHANGED node
  PROVE  LookupsAreCacheable'
BY DEF LookupsAreCacheable, Wake

(* Where a step of a worker leaves it. *)
LEMMA WorkerGoes ==
  ASSUME TypeOK, NEW w \in Worker, WorkerStep(w) \/ SpuriousWakeup(w)
  PROVE  /\ \A v \in Worker \ {w} : node'[v] = node[v]
         /\ \/ BeginExecuteNode(w) /\ Goto(w, "execute", {})
            \/ BeginCacheLookup(w) /\ Goto(w, "lookup", {})
            \/ UNCHANGED <<pc, node>>
            \/ \E next \in WorkerPc \ {"lookup", "execute"} :
                 \E woken \in SUBSET Sleepers : Goto(w, next, woken)
<1> DEFINE Quietly == \E next \in WorkerPc \ {"lookup", "execute"} :
                        \E woken \in SUBSET Sleepers : Goto(w, next, woken)
<1>1. ASSUME NEW next \in WorkerPc \ {"lookup", "execute"},
             NEW woken, woken \subseteq Sleepers, Goto(w, next, woken)
      PROVE  Quietly
  BY <1>1
<1>2. ASSUME NEW next \in WorkerPc \ {"lookup", "execute"}, Goto(w, next, {})
      PROVE  Quietly
  BY <1>2
<1>3. ASSUME NEW next \in WorkerPc \ {"lookup", "execute"},
             NEW c, \E woken \in WakeForPlaced(c) \cup WakeWaiters(c) \cup CondBroadcast :
                      Goto(w, next, woken)
      PROVE  Quietly
  BY <1>3, WokenWereAsleep
<1> HIDE DEF Quietly
<1>4. /\ {"lock", "pick", "next", "process", "build", "more", "sleep", "verify", "stat",
          "asleep", "exited"} \subseteq WorkerPc \ {"lookup", "execute"}
  BY DEF WorkerPc
<1>5. ASSUME NEW n, NEW next \in WorkerPc \ {"lookup", "execute"}, FinishNode(w, n, next)
      PROVE  Quietly /\ \A v \in Worker \ {w} : node'[v] = node[v]
  BY <1>3, <1>5 DEF FinishNode, TypeOK
<1>6. CASE Pick(w)
  <2>1. UNCHANGED <<pc, node>> \/ Quietly
    BY <1>2, <1>3, <1>4, <1>6 DEF Pick, TakeLock, PickDagVerification, NoDagVerification,
       FinishDagVerification, PopStale, NextNode, PickEarlyStat, FinishEarlyStat, NoTask
  <2>2. \A v \in Worker \ {w} : node'[v] = node[v]
    BY <1>6 DEF Pick, TakeLock, PickDagVerification, NoDagVerification,
       FinishDagVerification, PopStale, NextNode, PickEarlyStat, FinishEarlyStat, NoTask,
       TypeOK
  <2> QED
    BY <2>1, <2>2 DEF Quietly
<1>7. CASE ProcessNode(w)
  <2>1. CASE BeginCacheLookup(w) \/ BeginExecuteNode(w)
    BY <2>1 DEF BeginCacheLookup, BeginExecuteNode
  <2>2. ASSUME NEW r \in ExecuteResult, FinishExecuteNode(w, r)
        PROVE  Quietly /\ \A v \in Worker \ {w} : node'[v] = node[v]
    BY <1>4, <1>5, <2>2 DEF FinishExecuteNode
  <2>3. ASSUME NEW r \in Successful, CacheLookupMadeConsistent(w, r)
        PROVE  Quietly /\ \A v \in Worker \ {w} : node'[v] = node[v]
    BY <1>4, <1>5, <2>3 DEF CacheLookupMadeConsistent
  <2>4. CASE SkipNode(w)
    BY <1>4, <1>5, <2>4 DEF SkipNode, Quietly
  <2>5. CASE CacheLookupFoundNothing(w)
    BY <1>2, <1>4, <2>5 DEF CacheLookupFoundNothing, Quietly
  <2>6. CASE EnqueueToBuildDependencies(w)
    BY <1>3, <1>4, <2>6 DEF EnqueueToBuildDependencies, Quietly, TypeOK
  <2> QED
    BY <1>7, <2>1, <2>2, <2>3, <2>4, <2>5, <2>6 DEF ProcessNode, Quietly
<1>8. CASE Idle(w) \/ SpuriousWakeup(w)
  BY <1>2, <1>3, <1>4, <1>8 DEF Idle, PrepareToSleep, SleepUntilWorkAvailable,
     LeaveBuildLoop, SpuriousWakeup, Quietly
<1> QED
  BY <1>6, <1>7, <1>8 DEF WorkerStep

(* The other threads move no worker but by waking it. *)
LEMMA OthersWakeWorkers ==
  ASSUME MainStep \/ MainSpuriousWakeup \/ CanaryStep \/ HandleSignal \/ UNCHANGED vars
  PROVE  UNCHANGED node /\ (UNCHANGED pc \/ \E woken : Wake(woken))
BY DEF MainStep, BuildQueueBuild, BuildFinished, CheckSignalReason, ReturnFinalBuildResult,
   BuildQueueDestroy, MainSpuriousWakeup, CanaryStep, ReceiveS, NotifyWorker, StdinClosed,
   HandleSignal, vars

(* NeedsCacheLookup lets only cacheable nodes through. *)
LEMMA LookupsStayCacheable ==
  ASSUME TypeOK, LookupsAreCacheable, [Next]_vars
  PROVE  LookupsAreCacheable'
<1>1. ASSUME NEW w \in Worker, WorkerStep(w) \/ SpuriousWakeup(w)
      PROVE  LookupsAreCacheable'
  <2>1. CASE BeginCacheLookup(w)
    <3>1. node' = node /\ node[w] \in Cacheable /\ Goto(w, "lookup", {})
      BY <2>1 DEF BeginCacheLookup, NeedsCacheLookup,
         IsNodeCacheableByLeafInputsAndCachingEnabled
    <3>2. \A v \in Worker \ {w} : pc'[v] = pc[v]
      BY <3>1 DEF Goto, TypeOK
    <3> QED
      BY <3>1, <3>2 DEF LookupsAreCacheable
  <2>2. CASE BeginExecuteNode(w)
    <3>1. node' = node /\ Goto(w, "execute", {}) /\ "execute" \in WorkerPc \ {"lookup"}
      BY <2>2 DEF BeginExecuteNode, WorkerPc
    <3> QED
      BY <3>1, GotoLooksNothingUp
  <2>3. CASE UNCHANGED <<pc, node>>
    BY <2>3 DEF LookupsAreCacheable
  <2>4. CASE \E next \in WorkerPc \ {"lookup", "execute"} :
               \E woken \in SUBSET Sleepers : Goto(w, next, woken)
    BY <1>1, <2>4, WorkerGoes, GotoLooksNothingUp
  <2> QED
    BY <1>1, <2>1, <2>2, <2>3, <2>4, WorkerGoes
<1>2. CASE MainStep \/ MainSpuriousWakeup \/ CanaryStep \/ HandleSignal \/ UNCHANGED vars
  BY <1>2, OthersWakeWorkers, NoOneMoves
<1> QED
  BY <1>1, <1>2 DEF Next
-----------------------------------------------------------------------------
(* The inductive invariant. A CondWait of the main thread that returns     *)
(* without a signal breaks it: it has no predicate to look at again.       *)

(* ResultInv is inductive together with SchedulingInv. *)
LEMMA ResultStep ==
  ASSUME Main \notin SpuriousWakeups, SchedulingInv, ResultInv, [Next]_vars
  PROVE  ResultInv'
<1>1. TypeOK
  BY DEF SchedulingInv
<1>2. ResultsAreHonest'
  BY HonestStep DEF ResultInv
<1>3. LookupsAreCacheable'
  BY <1>1, LookupsStayCacheable DEF ResultInv
<1>4. MainIsToldTheTruth'
  <2>1. ~MainSpuriousWakeup
    BY DEF MainSpuriousWakeup
  <2> QED
    BY <1>1, <2>1, WorkersTellTheTruth, MainEnqueuesRequested, MainReturnsTheTruth,
       EnvironmentTellsTheTruth DEF Next, ResultInv, MainStep
<1> QED
  BY <1>2, <1>3, <1>4 DEF ResultInv

(* What a build has recorded, and what its main thread was told, is true   *)
(* in every state.                                                         *)
THEOREM ResultInvariant ==
  ASSUME Main \notin SpuriousWakeups
  PROVE  Spec => []ResultInv
<1>1. Init => ResultInv
  BY ResultInit
<1>2. SchedulingInv /\ ResultInv /\ [Next]_vars => ResultInv'
  BY ResultStep
<1> QED
  BY <1>1, <1>2, SchedulingInvariant, PTL DEF Spec

(* When BuildQueueBuild returns Ok, every node ever enqueued, the          *)
(* requested ones among them, is finished and successfully built.          *)
THEOREM OkIsTrue ==
  ASSUME Main \notin SpuriousWakeups
  PROVE  Spec => []OkMeansBuilt
<1>1. SchedulingInv /\ ResultInv => OkMeansBuilt
  <2> SUFFICES ASSUME SchedulingInv, ResultInv, returned = "Ok"
               PROVE  /\ Requested \subseteq hasEverBeenQueued
                      /\ \A n \in hasEverBeenQueued :
                           n \in finished /\ buildResult[n] \in Successful
    BY DEF OkMeansBuilt
  <2>1. mainPc # "enqueue" /\ Settled /\ AllBuilt
    BY DEF ResultInv, MainIsToldTheTruth, Building
  <2> QED
    BY <2>1 DEF ResultInv, MainIsToldTheTruth, Settled, AllBuilt
<1> QED
  BY <1>1, SchedulingInvariant, ResultInvariant, PTL

-----------------------------------------------------------------------------
(* Failures are reported, and a build that goes on leaves nothing out      *)

(* Unless verification is deferred, nothing is begun before the graph has  *)
(* passed it.                                                              *)
NothingBegun ==
  ~DeferDagVerification /\ dagVerificationStatus # "Passed" =>
    /\ finished = {} /\ \A n \in Node : buildResult[n] = "DidNotRun"
    /\ \A w \in Worker : node[w] = NoNode

FailedMeansRerun ==
  dagVerificationStatus = "Failed" => finalBuildResult = "RequireFrontendRerun"

(* A node that was finished without being run builds on one that failed or *)
(* was itself left out.                                                    *)
SkippedBehindFailure ==
  \A n \in finished : buildResult[n] = "DidNotRun" =>
    /\ CombinedDependencies[n] \subseteq finished
    /\ \E d \in CombinedDependencies[n] : buildResult[d] \notin Successful

ReportInv ==
  NothingBegun /\ FailedMeansRerun /\ SkippedBehindFailure /\ FailureIsReported

(* Why a worker may leave a build nobody interrupted.                      *)
NoMoreToCome ==
  \/ Settled
  \/ dagVerificationStatus = "Failed"
  \/ finalBuildResult = "BuildError" /\ dagVerificationStatus = "Passed" /\ ~ContinueOnFailure

MainIsToldWhy ==
  /\ mainPc \in {"woken", "signal"} => signalled \/ NoMoreToCome
  /\ mainPc = "result" => NoMoreToCome
  /\ ContinueOnFailure /\ returned = "BuildError" => Settled

ReturnIsFinal ==
  returned \notin {"None", "Interrupted"} => NoMoreToCome /\ returned = finalBuildResult

(* What can happen to the verification and to the result.                  *)
LEMMA StatusAndResult ==
  ASSUME WakeupInv, [Next]_vars
  PROVE  \/ UNCHANGED <<dagVerificationStatus, finalBuildResult>>
         \/ /\ dagVerificationStatus = "RequiredVerification"
            /\ dagVerificationStatus' = "BeingVerified" /\ UNCHANGED finalBuildResult
         \/ /\ DeferDagVerification /\ dagVerificationStatus = "WaitingForInput"
            /\ dagVerificationStatus' = "RequiredVerification" /\ UNCHANGED finalBuildResult
         \/ /\ dagVerificationStatus = "BeingVerified"
            /\ \/ dagVerificationStatus' = "Passed" /\ UNCHANGED finalBuildResult
               \/ /\ dagVerificationStatus' = "Failed"
                  /\ finalBuildResult' = "RequireFrontendRerun"
         \/ \E w \in Worker : \E r \in ExecuteResult :
              FinishExecuteNode(w, r) /\ UNCHANGED dagVerificationStatus
<1> USE DEF queueVars
<1>1. ASSUME NEW w \in Worker, NEW isValid \in BOOLEAN, FinishDagVerification(w, isValid)
      PROVE  /\ dagVerificationStatus = "BeingVerified"
             /\ \/ dagVerificationStatus' = "Passed" /\ UNCHANGED finalBuildResult
                \/ /\ dagVerificationStatus' = "Failed"
                   /\ finalBuildResult' = "RequireFrontendRerun"
  BY <1>1 DEF FinishDagVerification, WakeupInv, VerificationInv
<1>2. ASSUME NEW w \in Worker, PickDagVerification(w)
      PROVE  /\ dagVerificationStatus = "RequiredVerification"
             /\ dagVerificationStatus' = "BeingVerified" /\ UNCHANGED finalBuildResult
  BY <1>2 DEF PickDagVerification
<1>3. ASSUME ReceiveS
      PROVE  /\ DeferDagVerification /\ dagVerificationStatus = "WaitingForInput"
             /\ dagVerificationStatus' = "RequiredVerification" /\ UNCHANGED finalBuildResult
  BY <1>3 DEF ReceiveS, WakeupInv, VerificationInv
<1>4. ASSUME NEW w \in Worker, NEW r \in ExecuteResult, FinishExecuteNode(w, r)
      PROVE  UNCHANGED dagVerificationStatus
  BY <1>4 DEF FinishExecuteNode
<1>5. ASSUME NEW w \in Worker,
             \/ TakeLock(w) \/ NoDagVerification(w) \/ PickEarlyStat(w) \/ FinishEarlyStat(w)
             \/ NoTask(w) \/ \E n \in Node : PopStale(w, n) \/ NextNode(w, n)
             \/ BeginCacheLookup(w) \/ CacheLookupFoundNothing(w)
             \/ \E r \in Successful : CacheLookupMadeConsistent(w, r)
             \/ EnqueueToBuildDependencies(w) \/ SkipNode(w) \/ BeginExecuteNode(w)
             \/ Idle(w) \/ SpuriousWakeup(w)
      PROVE  UNCHANGED <<dagVerificationStatus, finalBuildResult>>
  BY <1>5 DEF TakeLock, NoDagVerification, PickEarlyStat, FinishEarlyStat, NoTask, PopStale,
     NextNode, BeginCacheLookup, CacheLookupFoundNothing, CacheLookupMadeConsistent,
     EnqueueToBuildDependencies, SkipNode, BeginExecuteNode, Idle, PrepareToSleep,
     SleepUntilWorkAvailable, LeaveBuildLoop, SpuriousWakeup
<1>6. ASSUME NEW w \in Worker, WorkerStep(w) \/ SpuriousWakeup(w)
      PROVE  \/ PickDagVerification(w)
             \/ \E isValid \in BOOLEAN : FinishDagVerification(w, isValid)
             \/ \E r \in ExecuteResult : FinishExecuteNode(w, r)
             \/ UNCHANGED <<dagVerificationStatus, finalBuildResult>>
  BY <1>5, <1>6 DEF WorkerStep, Pick, ProcessNode
<1>7. ASSUME MainStep \/ MainSpuriousWakeup \/ NotifyWorker \/ StdinClosed \/ HandleSignal
             \/ UNCHANGED vars
      PROVE  UNCHANGED <<dagVerificationStatus, finalBuildResult>>
  BY <1>7 DEF MainStep, BuildQueueBuild, BuildFinished, CheckSignalReason,
     ReturnFinalBuildResult, BuildQueueDestroy, MainSpuriousWakeup, NotifyWorker, StdinClosed,
     HandleSignal, vars
<1> QED
  BY <1>1, <1>2, <1>3, <1>4, <1>6, <1>7 DEF Next, CanaryStep

(* A failed node fails the build for good, but for a graph that turned out *)
(* to be stale.                                                            *)
LEMMA BuildResultAfterFailure ==
  ASSUME NEW r \in ExecuteResult
  PROVE  /\ r = "RanFailed" =>
              \/ BuildResultAfter(r) = "BuildError"
              \/ DeferDagVerification /\ BuildResultAfter(r) = "RequireFrontendRerun"
         /\ finalBuildResult = "BuildError" => BuildResultAfter(r) = "BuildError"
         /\ DeferDagVerification /\ finalBuildResult = "RequireFrontendRerun" =>
              BuildResultAfter(r) = "RequireFrontendRerun"
BY DEF BuildResultAfter

(* The result a finishing node gets, and those of the others.              *)
LEMMA ResultsOfNodes ==
  ASSUME SchedulingInv, [Next]_vars
  PROVE  \/ finished' = finished /\ buildResult' = buildResult
         \/ \E w \in Worker :
              /\ pc[w] \in HasNode /\ node[w] \in Node \ finished
              /\ finished' = finished \cup {node[w]}
              /\ \A n \in Node \ {node[w]} : buildResult'[n] = buildResult[n]
              /\ \/ /\ buildResult' = buildResult
                    /\ CombinedDependencies[node[w]] \subseteq finished
                    /\ \E d \in CombinedDependencies[node[w]] : buildResult[d] \notin Successful
                 \/ buildResult'[node[w]] \in Successful
                 \/ \E r \in ExecuteResult :
                      FinishExecuteNode(w, r) /\ buildResult'[node[w]] = r
<1>0. TypeOK
  BY DEF SchedulingInv
<1>1. ASSUME NEW w \in Worker, ProcessNode(w)
      PROVE  pc[w] \in HasNode /\ node[w] \in Node \ finished
  BY <1>1, ProcessNodeHasNode
<1>2. ASSUME NEW w \in Worker, NEW r \in Successful, CacheLookupMadeConsistent(w, r)
      PROVE  /\ pc[w] \in HasNode /\ node[w] \in Node \ finished
             /\ finished' = finished \cup {node[w]}
             /\ \A n \in Node \ {node[w]} : buildResult'[n] = buildResult[n]
             /\ buildResult'[node[w]] \in Successful
  <2>1. pc[w] \in HasNode /\ node[w] \in Node \ finished
    BY <1>1, <1>2 DEF ProcessNode
  <2> QED
    BY <1>0, <1>2, <2>1 DEF CacheLookupMadeConsistent, FinishNode, TypeOK
<1>3. ASSUME NEW w \in Worker, NEW r \in ExecuteResult, FinishExecuteNode(w, r)
      PROVE  /\ pc[w] \in HasNode /\ node[w] \in Node \ finished
             /\ finished' = finished \cup {node[w]}
             /\ \A n \in Node \ {node[w]} : buildResult'[n] = buildResult[n]
             /\ buildResult'[node[w]] = r
  <2>1. pc[w] \in HasNode /\ node[w] \in Node \ finished
    BY <1>1, <1>3 DEF ProcessNode
  <2> QED
    BY <1>0, <1>3, <2>1 DEF FinishExecuteNode, FinishNode, TypeOK
<1>4. ASSUME NEW w \in Worker, SkipNode(w)
      PROVE  /\ pc[w] \in HasNode /\ node[w] \in Node \ finished
             /\ finished' = finished \cup {node[w]} /\ buildResult' = buildResult
             /\ CombinedDependencies[node[w]] \subseteq finished
             /\ \E d \in CombinedDependencies[node[w]] : buildResult[d] \notin Successful
  <2>1. pc[w] \in HasNode /\ node[w] \in Node \ finished
    BY <1>1, <1>4 DEF ProcessNode
  <2> QED
    BY <1>4, <2>1
       DEF SkipNode, FinishNode, AllDependenciesAreFinished, AllDependenciesAreSuccesful
<1>5. ASSUME NEW w \in Worker,
             \/ BeginCacheLookup(w) \/ CacheLookupFoundNothing(w)
             \/ EnqueueToBuildDependencies(w) \/ BeginExecuteNode(w)
      PROVE  finished' = finished /\ buildResult' = buildResult
  BY <1>5 DEF BeginCacheLookup, CacheLookupFoundNothing, EnqueueToBuildDependencies,
     BeginExecuteNode, nodeVars
<1>6. ASSUME NEW w \in Worker, Pick(w) \/ Idle(w) \/ SpuriousWakeup(w)
      PROVE  finished' = finished /\ buildResult' = buildResult
  BY <1>6, OnlyProcessNodeMovesNodes DEF nodeSetVars
<1>7. ASSUME MainStep \/ MainSpuriousWakeup \/ CanaryStep \/ HandleSignal \/ UNCHANGED vars
      PROVE  finished' = finished /\ buildResult' = buildResult
  <2>1. CASE BuildQueueBuild
    BY <2>1 DEF BuildQueueBuild
  <2>2. CASE UNCHANGED vars
    BY <2>2 DEF vars, nodeVars
  <2> QED
    BY <1>7, <2>1, <2>2, OthersMoveNoNodes DEF nodeSetVars
<1>8. ASSUME NEW w \in Worker, WorkerStep(w) \/ SpuriousWakeup(w)
      PROVE  \/ finished' = finished /\ buildResult' = buildResult
             \/ SkipNode(w)
             \/ \E r \in Successful : CacheLookupMadeConsistent(w, r)
             \/ \E r \in ExecuteResult : FinishExecuteNode(w, r)
  BY <1>5, <1>6, <1>8 DEF WorkerStep, ProcessNode
<1>9. CASE \E w \in Worker : WorkerStep(w) \/ SpuriousWakeup(w)
  <2>1. PICK w \in Worker : WorkerStep(w) \/ SpuriousWakeup(w)
    BY <1>9
  <2>2. CASE SkipNode(w)
    BY <1>4, <2>2
  <2>3. CASE \E r \in Successful : CacheLookupMadeConsistent(w, r)
    BY <1>2, <2>3
  <2>4. CASE \E r \in ExecuteResult : FinishExecuteNode(w, r)
    BY <1>3, <2>4
  <2> QED
    BY <1>8, <2>1, <2>2, <2>3, <2>4
<1> QED
  BY <1>7, <1>9 DEF Next

(* Only a worker that may take nodes gets one. *)
LEMMA NobodyBegins ==
  ASSUME TypeOK, [Next]_vars, ~MayTakeNodes, \A w \in Worker : node[w] = NoNode
  PROVE  \A w \in Worker : node'[w] = NoNode
<1>1. ASSUME NEW w \in Worker, ProcessNode(w)
      PROVE  FALSE
  <2>1. pc[w] \in HasNode
    BY <1>1 DEF ProcessNode, BeginCacheLookup, CacheLookupFoundNothing,
       CacheLookupMadeConsistent, EnqueueToBuildDependencies, SkipNode, BeginExecuteNode,
       FinishExecuteNode, AboutToBuild, HasNode
  <2> QED
    BY <2>1 DEF TypeOK
<1>2. ASSUME NEW w \in Worker, NEW n \in Node, NextNode(w, n)
      PROVE  FALSE
  BY <1>2 DEF NextNode, CanPop, MayTakeNodes
<1>3. ASSUME NEW w \in Worker, WorkerStep(w) \/ SpuriousWakeup(w)
      PROVE  UNCHANGED node
  BY <1>1, <1>2, <1>3 DEF WorkerStep, Pick, TakeLock, PickDagVerification, NoDagVerification,
     FinishDagVerification, PopStale, PickEarlyStat, FinishEarlyStat, NoTask, Idle,
     PrepareToSleep, SleepUntilWorkAvailable, LeaveBuildLoop, SpuriousWakeup
<1> QED
  BY <1>3, OthersWakeWorkers DEF Next

(* Nothing has begun, or the graph has passed and stays passed.            *)
LEMMA NothingBegunStep ==
  ASSUME SchedulingInv, WakeupInv, NothingBegun, [Next]_vars
  PROVE  NothingBegun'
<1> SUFFICES ASSUME ~DeferDagVerification, dagVerificationStatus' # "Passed"
             PROVE  /\ finished' = {} /\ \A n \in Node : buildResult'[n] = "DidNotRun"
                    /\ \A w \in Worker : node'[w] = NoNode
  BY DEF NothingBegun
<1>1. dagVerificationStatus # "Passed"
  BY StatusAndResult
<1>2. /\ finished = {} /\ \A n \in Node : buildResult[n] = "DidNotRun"
      /\ \A w \in Worker : node[w] = NoNode
  BY <1>1 DEF NothingBegun
<1>3. \A w \in Worker : node'[w] = NoNode
  BY <1>1, <1>2, NobodyBegins
     DEF SchedulingInv, MayTakeNodes, AllowedToPickUpProcessNodeTask
<1>4. finished' = finished /\ buildResult' = buildResult
  BY <1>2, ResultsOfNodes DEF SchedulingInv, TypeOK
<1> QED
  BY <1>2, <1>3, <1>4

(* A graph found stale keeps the rerun it asks for.                        *)
LEMMA FailedMeansRerunStep ==
  ASSUME SchedulingInv, WakeupInv, ReportInv, [Next]_vars
  PROVE  FailedMeansRerun'
<1> SUFFICES ASSUME dagVerificationStatus' = "Failed"
             PROVE  finalBuildResult' = "RequireFrontendRerun"
  BY DEF FailedMeansRerun
<1>1. ASSUME NEW w \in Worker, NEW r \in ExecuteResult, FinishExecuteNode(w, r),
             UNCHANGED dagVerificationStatus
      PROVE  finalBuildResult' = "RequireFrontendRerun"
  <2>1. finalBuildResult = "RequireFrontendRerun"
    BY <1>1 DEF ReportInv, FailedMeansRerun
  <2>2. DeferDagVerification
    BY <1>1 DEF ReportInv, NothingBegun, FinishExecuteNode, SchedulingInv, TypeOK, HasNode
  <2> QED
    BY <1>1, <2>1, <2>2, BuildResultAfterFailure DEF FinishExecuteNode
<1> QED
  BY <1>1, StatusAndResult DEF ReportInv, FailedMeansRerun

(* What a skipped node builds on is finished, so it stays unsuccessful.    *)
LEMMA SkippedStep ==
  ASSUME SchedulingInv, SkippedBehindFailure, [Next]_vars
  PROVE  SkippedBehindFailure'
<1>1. CASE finished' = finished /\ buildResult' = buildResult
  BY <1>1 DEF SkippedBehindFailure
<1>2. ASSUME NEW w \in Worker, node[w] \in Node \ finished,
             finished' = finished \cup {node[w]},
             \A n \in Node \ {node[w]} : buildResult'[n] = buildResult[n],
             \/ /\ buildResult' = buildResult
                /\ CombinedDependencies[node[w]] \subseteq finished
                /\ \E d \in CombinedDependencies[node[w]] : buildResult[d] \notin Successful
             \/ buildResult'[node[w]] \in Successful
             \/ buildResult'[node[w]] \in ExecuteResult
      PROVE  SkippedBehindFailure'
  <2>1. finished \subseteq Node
    BY DEF SchedulingInv, TypeOK
  <2>2. ASSUME NEW n \in finished, buildResult'[n] = "DidNotRun"
        PROVE  /\ CombinedDependencies[n] \subseteq finished'
               /\ \E d \in CombinedDependencies[n] : buildResult'[d] \notin Successful
    <3>1. buildResult[n] = "DidNotRun"
      BY <1>2, <2>1, <2>2
    <3>2. CombinedDependencies[n] \subseteq finished
      BY <3>1 DEF SkippedBehindFailure
    <3>3. PICK d \in CombinedDependencies[n] : buildResult[d] \notin Successful
      BY <3>1 DEF SkippedBehindFailure
    <3>4. buildResult'[d] = buildResult[d]
      BY <1>2, <2>1, <3>2
    <3> QED
      BY <1>2, <3>2, <3>3, <3>4
  <2>3. ASSUME buildResult'[node[w]] = "DidNotRun"
        PROVE  /\ CombinedDependencies[node[w]] \subseteq finished'
               /\ \E d \in CombinedDependencies[node[w]] : buildResult'[d] \notin Successful
    BY <1>2, <2>3 DEF Successful, ExecuteResult
  <2> QED
    BY <1>2, <2>2, <2>3 DEF SkippedBehindFailure
<1>3. CASE \E w \in Worker :
             /\ node[w] \in Node \ finished
             /\ finished' = finished \cup {node[w]}
             /\ \A n \in Node \ {node[w]} : buildResult'[n] = buildResult[n]
             /\ \/ /\ buildResult' = buildResult
                   /\ CombinedDependencies[node[w]] \subseteq finished
                   /\ \E d \in CombinedDependencies[node[w]] : buildResult[d] \notin Successful
                \/ buildResult'[node[w]] \in Successful
                \/ buildResult'[node[w]] \in ExecuteResult
  BY <1>2, <1>3
<1> QED
  BY <1>1, <1>3, ResultsOfNodes

(* A failure is recorded with the node and stays recorded.                 *)
LEMMA FailureIsReportedStep ==
  ASSUME SchedulingInv, WakeupInv, ReportInv, [Next]_vars
  PROVE  FailureIsReported'
<1> SUFFICES ASSUME NEW n \in Node, buildResult'[n] = "RanFailed"
             PROVE  \/ finalBuildResult' = "BuildError"
                    \/ DeferDagVerification /\ finalBuildResult' = "RequireFrontendRerun"
  BY DEF FailureIsReported
<1>1. CASE buildResult[n] = "RanFailed"
  <2>1. \/ finalBuildResult = "BuildError"
        \/ DeferDagVerification /\ finalBuildResult = "RequireFrontendRerun"
    BY <1>1 DEF ReportInv, FailureIsReported
  <2>2. ASSUME NEW w \in Worker, NEW r \in ExecuteResult, FinishExecuteNode(w, r)
        PROVE  \/ finalBuildResult' = "BuildError"
               \/ DeferDagVerification /\ finalBuildResult' = "RequireFrontendRerun"
    BY <2>1, <2>2, BuildResultAfterFailure DEF FinishExecuteNode
  <2>3. dagVerificationStatus = "BeingVerified" => DeferDagVerification
    BY <1>1 DEF ReportInv, NothingBegun
  <2> QED
    BY <2>1, <2>2, <2>3, StatusAndResult
<1>2. CASE buildResult[n] # "RanFailed"
  <2>1. PICK w \in Worker : \E r \in ExecuteResult :
           FinishExecuteNode(w, r) /\ r = "RanFailed"
    BY <1>2, ResultsOfNodes DEF Successful
  <2> QED
    BY <2>1, BuildResultAfterFailure DEF FinishExecuteNode
<1> QED
  BY <1>1, <1>2

(* What is recorded about failures is true in every state, whatever the    *)
(* main thread is told.                                                    *)
THEOREM ReportInvariant == Spec => []ReportInv
<1>1. Init => ReportInv
  BY DEF Init, ReportInv, NothingBegun, FailedMeansRerun, SkippedBehindFailure,
     FailureIsReported
<1>2. SchedulingInv /\ WakeupInv /\ ReportInv /\ [Next]_vars => ReportInv'
  BY NothingBegunStep, FailedMeansRerunStep, SkippedStep, FailureIsReportedStep
     DEF ReportInv
<1> QED
  BY <1>1, <1>2, SchedulingInvariant, WakeupInvariant, PTL DEF Spec

(* No failure is lost between a node and the result of the build.          *)
THEOREM FailuresAreReported == Spec => []FailureIsReported
<1>1. ReportInv => FailureIsReported
  BY DEF ReportInv
<1> QED
  BY <1>1, ReportInvariant, PTL

(* A build that is over stays over.                                        *)
LEMMA NoMoreStays ==
  ASSUME SchedulingInv, WakeupInv, ReportInv, [Next]_vars, ~BuildQueueBuild, NoMoreToCome
  PROVE  NoMoreToCome'
<1>1. CASE Settled
  BY <1>1, SettledStays DEF NoMoreToCome
<1>2. CASE dagVerificationStatus = "Failed"
  BY <1>2, StatusAndResult DEF NoMoreToCome
<1>3. CASE finalBuildResult = "BuildError" /\ dagVerificationStatus = "Passed"
            /\ ~ContinueOnFailure
  BY <1>3, StatusAndResult, BuildResultAfterFailure DEF NoMoreToCome, FinishExecuteNode
<1> QED
  BY <1>1, <1>2, <1>3 DEF NoMoreToCome

(* A worker that leaves an undisturbed build has seen it over.             *)
LEMMA LeavesForAReason ==
  ASSUME SchedulingInv, ~MightMoreWorkArrive
  PROVE  signalled \/ NoMoreToCome
<1>1. CASE finishedNodeCount = amountOfNodesEverQueued
  <2>1. IsFiniteSet(hasEverBeenQueued) /\ finished \subseteq hasEverBeenQueued
    BY NodesAreFinite DEF SchedulingInv, TypeOK, CountersAgree
  <2>2. Cardinality(finished) = Cardinality(hasEverBeenQueued)
    BY <1>1 DEF SchedulingInv, CountersAgree
  <2>3. finished = hasEverBeenQueued
    BY <2>1, <2>2, FS_Subset, FS_CardinalityType
  <2> QED
    BY <2>3 DEF NoMoreToCome, Settled
<1>2. CASE finishedNodeCount # amountOfNodesEverQueued
  BY <1>2 DEF MightMoreWorkArrive, NoMoreToCome
<1> QED
  BY <1>1, <1>2

(* The main thread, when it is not woken by mistake.                       *)
LEMMA ToldWhyStep ==
  ASSUME Main \notin SpuriousWakeups, SchedulingInv, WakeupInv, ReportInv, ResultInv,
         MainIsToldWhy, [Next]_vars
  PROVE  MainIsToldWhy'
<1>1. CASE BuildQueueBuild
  <2>1. mainPc = "enqueue" /\ mainPc' = "waiting" /\ returned' = returned
    BY <1>1 DEF BuildQueueBuild
  <2>2. returned = "None"
    BY <2>1 DEF ResultInv, MainIsToldTheTruth, Building
  <2> QED
    BY <2>1, <2>2 DEF MainIsToldWhy
<1>2. CASE ~BuildQueueBuild
  <2>1. /\ NoMoreToCome => NoMoreToCome'
        /\ Settled => Settled'
    BY <1>2, NoMoreStays, SettledStays
  <2>2. ASSUME NEW w \in Worker, WorkerStep(w) \/ SpuriousWakeup(w)
        PROVE  MainIsToldWhy'
    <3>1. ~MightMoreWorkArrive => signalled \/ NoMoreToCome
      BY LeavesForAReason
    <3>2. /\ returned' = returned /\ signalled' = signalled
          /\ \/ mainPc' = mainPc
             \/ mainPc = "waiting" /\ mainPc' = "woken" /\ ~MightMoreWorkArrive
      BY <2>2, WorkersAndMain
    <3> HIDE DEF NoMoreToCome, Settled, MightMoreWorkArrive
    <3> QED
      BY <2>1, <3>1, <3>2 DEF MainIsToldWhy
  <2>3. CASE BuildFinished \/ BuildQueueDestroy
    BY <2>1, <2>3 DEF BuildFinished, BuildQueueDestroy, MainIsToldWhy, envVars
  <2>4. CASE CheckSignalReason
    BY <2>1, <2>4 DEF CheckSignalReason, MainIsToldWhy, envVars
  <2>5. CASE ReturnFinalBuildResult
    <3>1. NoMoreToCome /\ mainPc' = "join" /\ returned' = finalBuildResult
      BY <2>5 DEF ReturnFinalBuildResult, MainIsToldWhy
    <3>2. ContinueOnFailure /\ finalBuildResult = "BuildError" => Settled
      BY <3>1 DEF NoMoreToCome, ReportInv, FailedMeansRerun
    <3> QED
      BY <2>1, <3>1, <3>2 DEF MainIsToldWhy
  <2>6. CASE CanaryStep \/ HandleSignal \/ UNCHANGED vars
    <3>1. \/ mainPc' = mainPc /\ (signalled => signalled')
          \/ mainPc = "waiting" /\ mainPc' = "woken" /\ signalled'
      BY <2>6 DEF CanaryStep, ReceiveS, NotifyWorker, StdinClosed, HandleSignal, SignalSet,
         WakeMain, vars, mainVars, envVars
    <3>2. returned' = returned
      BY <2>6 DEF CanaryStep, ReceiveS, NotifyWorker, StdinClosed, HandleSignal, vars, mainVars
    <3> QED
      BY <2>1, <3>1, <3>2 DEF MainIsToldWhy
  <2>7. ~MainSpuriousWakeup
    BY DEF MainSpuriousWakeup
  <2> QED
    BY <1>2, <2>2, <2>3, <2>4, <2>5, <2>6, <2>7 DEF Next, MainStep
<1> QED
  BY <1>1, <1>2

(* The main thread is only ever told of a build that is over. *)
THEOREM ToldWhy ==
  ASSUME Main \notin SpuriousWakeups
  PROVE  Spec => []MainIsToldWhy
<1>1. Init => MainIsToldWhy
  BY DEF Init, MainIsToldWhy
<1>2. SchedulingInv /\ WakeupInv /\ ReportInv /\ ResultInv /\ MainIsToldWhy /\ [Next]_vars
        => MainIsToldWhy'
  BY ToldWhyStep
<1> QED
  BY <1>1, <1>2, SchedulingInvariant, WakeupInvariant, ReportInvariant, ResultInvariant, PTL
     DEF Spec

(* A build told to go on after errors deals with every node, and leaves    *)
(* out only those behind a failure.                                        *)
THEOREM GoesOn ==
  ASSUME Main \notin SpuriousWakeups
  PROVE  Spec => []KeepsGoing
<1>1. ReportInv /\ MainIsToldWhy => KeepsGoing
  BY DEF ReportInv, SkippedBehindFailure, MainIsToldWhy, Settled, KeepsGoing
<1> QED
  BY <1>1, ReportInvariant, ToldWhy, PTL

(* Once nothing more is to come from a graph verified beforehand, the      *)
(* result does not change.                                                 *)
LEMMA ResultStays ==
  ASSUME ~DeferDagVerification, SchedulingInv, WakeupInv, ReportInv, [Next]_vars,
         NoMoreToCome, hasEverBeenQueued # {}
  PROVE  finalBuildResult' = finalBuildResult
<1>1. dagVerificationStatus # "BeingVerified"
  BY DEF NoMoreToCome, Settled, ReportInv, NothingBegun
<1>2. ASSUME NEW w \in Worker, NEW r \in ExecuteResult, FinishExecuteNode(w, r)
      PROVE  finalBuildResult' = finalBuildResult
  <2>1. node[w] \in hasEverBeenQueued \ finished /\ node[w] \in Node
    BY <1>2, ProcessNodeHasNode DEF ProcessNode
  <2>2. ~Settled /\ dagVerificationStatus = "Passed"
    BY <2>1, LoopAssumption DEF LoopAssumption, Settled, ReportInv, NothingBegun
  <2>3. finalBuildResult = "BuildError"
    BY <2>2 DEF NoMoreToCome
  <2> QED
    BY <1>2, <2>3, BuildResultAfterFailure DEF FinishExecuteNode
<1> QED
  BY <1>1, <1>2, StatusAndResult

(* The result that was returned stays the result.                          *)
LEMMA ReturnStep ==
  ASSUME ~DeferDagVerification, Requested # {}, SchedulingInv, WakeupInv, ReportInv,
         ResultInv, MainIsToldWhy, ReturnIsFinal, [Next]_vars
  PROVE  ReturnIsFinal'
<1>1. CASE BuildQueueBuild
  BY <1>1 DEF BuildQueueBuild, ResultInv, MainIsToldTheTruth, Building, ReturnIsFinal
<1>2. CASE ReturnFinalBuildResult
  <2>1. NoMoreToCome /\ ~BuildQueueBuild
    BY <1>2 DEF ReturnFinalBuildResult, MainIsToldWhy, BuildQueueBuild
  <2>2. NoMoreToCome'
    BY <2>1, NoMoreStays
  <2> QED
    BY <1>2, <2>2 DEF ReturnFinalBuildResult, ReturnIsFinal, queueVars
<1>3. CASE ~BuildQueueBuild /\ ~ReturnFinalBuildResult
  <2>1. returned' = returned \/ returned' = "Interrupted"
    <3>1. ASSUME NEW w \in Worker, WorkerStep(w) \/ SpuriousWakeup(w)
          PROVE  returned' = returned
      BY <3>1, WorkersAndMain
    <3> QED
      BY <1>3, <3>1 DEF Next, MainStep, BuildFinished, CheckSignalReason, BuildQueueDestroy,
         MainSpuriousWakeup, CanaryStep, ReceiveS, NotifyWorker, StdinClosed, HandleSignal,
         vars, mainVars
  <2>2. ASSUME returned \notin {"None", "Interrupted"}
        PROVE  NoMoreToCome' /\ finalBuildResult' = finalBuildResult
    <3>1. NoMoreToCome
      BY <2>2 DEF ReturnIsFinal
    <3>2. mainPc # "enqueue"
      BY <2>2 DEF ResultInv, MainIsToldTheTruth, Building
    <3>3. hasEverBeenQueued # {}
      BY <3>2 DEF ResultInv, MainIsToldTheTruth
    <3> QED
      BY <1>3, <3>1, <3>3, NoMoreStays, ResultStays
  <2> QED
    BY <2>1, <2>2 DEF ReturnIsFinal
<1> QED
  BY <1>1, <1>2, <1>3

(* What BuildQueueBuild returns is final: the main thread is woken once    *)
(* the result can no longer change. Two things it rests on: the graph is   *)
(* verified before anything is built, and something is requested, or a     *)
(* worker would find nothing to do while another still verifies.           *)
THEOREM ReturnsFinalResult ==
  ASSUME Main \notin SpuriousWakeups, ~DeferDagVerification, Requested # {}
  PROVE  Spec => []ReturnedResultIsFinal
<1>1. Init => ReturnIsFinal
  BY DEF Init, ReturnIsFinal
<1>2. SchedulingInv /\ WakeupInv /\ ReportInv /\ ResultInv /\ MainIsToldWhy
        /\ ReturnIsFinal /\ [Next]_vars => ReturnIsFinal'
  BY ReturnStep
<1>3. ReturnIsFinal => ReturnedResultIsFinal
  BY DEF ReturnIsFinal, ReturnedResultIsFinal
<1> QED
  BY <1>1, <1>2, <1>3, SchedulingInvariant, WakeupInvariant, ReportInvariant, ResultInvariant,
     ToldWhy, PTL DEF Spec

-----------------------------------------------------------------------------
(* The build loop implements NodeSchedule *)

(* Both specifications read the same graph. *)
LEMMA SameDependencies == CombinedDependencies = Schedule!CombinedDependencies
BY DEF CombinedDependencies, Schedule!CombinedDependencies

(* The loop starts where the schedule does. *)
LEMMA ScheduleInit ==
  ASSUME Init
  PROVE  Schedule!Init
BY DEF Init, Schedule!Init, Executing

(* What is executed changes with w alone. *)
ExecutingElsewhere(w) == {node[v] : v \in {u \in Worker \ {w} : pc[u] = "execute"}}

(* What is executed is what w executes and what the others do. *)
LEMMA ExecutingHereAndElsewhere ==
  ASSUME NEW w \in Worker
  PROVE  Executing = ExecutingElsewhere(w) \cup (IF pc[w] = "execute" THEN {node[w]} ELSE {})
BY DEF Executing, ExecutingElsewhere

(* A move of w starts and ends no execution of another worker. *)
LEMMA ElsewhereStays ==
  ASSUME TypeOK, NEW w \in Worker, NEW next \in WorkerPc, NEW woken, woken \subseteq Sleepers,
         Goto(w, next, woken), \A v \in Worker \ {w} : node'[v] = node[v]
  PROVE  ExecutingElsewhere(w)' = ExecutingElsewhere(w) /\ pc'[w] = next
<1>1. /\ pc'[w] = next
      /\ \A v \in Worker \ {w} : pc'[v] = "execute" <=> pc[v] = "execute"
  BY GotoMoves
<1> QED
  BY <1>1 DEF ExecutingElsewhere

(* A step that neither begins nor ends an execution. *)
LEMMA ExecutingStays ==
  ASSUME TypeOK, [Next]_vars, \A w \in Worker : ~BeginExecuteNode(w),
         \A w \in Worker : \A r \in ExecuteResult : ~FinishExecuteNode(w, r)
  PROVE  Executing' = Executing
<1>1. ASSUME NEW w \in Worker, WorkerStep(w) \/ SpuriousWakeup(w)
      PROVE  Executing' = Executing
  <2>1. CASE UNCHANGED <<pc, node>>
    BY <2>1 DEF Executing
  <2>2. CASE ~UNCHANGED <<pc, node>>
    <3>1. pc[w] # "execute"
      BY <1>1, <2>2 DEF WorkerStep, Pick, TakeLock, PickDagVerification, NoDagVerification,
         FinishDagVerification, PopStale, NextNode, PickEarlyStat, FinishEarlyStat, NoTask,
         CanPop, NoNodeToPick, ProcessNode, BeginCacheLookup, CacheLookupFoundNothing,
         CacheLookupMadeConsistent, EnqueueToBuildDependencies, SkipNode, AboutToBuild,
         Idle, PrepareToSleep, SleepUntilWorkAvailable, LeaveBuildLoop, SpuriousWakeup
    <3>2. \E next \in WorkerPc \ {"execute"} :
            \E woken \in SUBSET Sleepers : Goto(w, next, woken)
      <4>1. "lookup" \in WorkerPc \ {"execute"} /\ {} \in SUBSET Sleepers
        BY DEF WorkerPc
      <4> QED
        BY <1>1, <2>2, <4>1, WorkerGoes
    <3>3. ExecutingElsewhere(w)' = ExecutingElsewhere(w) /\ pc'[w] # "execute"
      BY <1>1, <3>2, WorkerGoes, ElsewhereStays
    <3> QED
      BY <3>1, <3>3, ExecutingHereAndElsewhere DEF Executing, ExecutingElsewhere
  <2> QED
    BY <2>1, <2>2
<1>2. CASE MainStep \/ MainSpuriousWakeup \/ CanaryStep \/ HandleSignal \/ UNCHANGED vars
  <2>1. \A v \in Worker : pc'[v] = "execute" <=> pc[v] = "execute"
    BY <1>2 DEF MainStep, BuildQueueBuild, BuildFinished, CheckSignalReason,
       ReturnFinalBuildResult, BuildQueueDestroy, MainSpuriousWakeup, CanaryStep, ReceiveS,
       NotifyWorker, StdinClosed, HandleSignal, vars, Wake, CondSignal, Sleepers
  <2> QED
    BY <1>2, <2>1, OthersWakeWorkers DEF Executing
<1> QED
  BY <1>1, <1>2 DEF Next

(* A step of BuildLoop that is none of NodeSchedule's. *)
LEMMA Stutters ==
  ASSUME Executing' = Executing, UNCHANGED <<finished, buildResult, returned>>
  PROVE  UNCHANGED Schedule!vars
BY DEF Schedule!vars

(* The node of a worker that does not execute it yet is fresh. *)
LEMMA ProcessedIsFresh ==
  ASSUME SchedulingInv, NEW w \in Worker, ProcessNode(w), pc[w] # "execute"
  PROVE  node[w] \in Node /\ Schedule!Fresh(node[w])
<1>1. pc[w] \in HasNode /\ node[w] \in Node /\ node[w] \notin finished
  BY ProcessNodeHasNode
<1>2. node[w] \notin Executing
  BY <1>1 DEF SchedulingInv, OneWorkerPerNode, Executing, HasNode
<1> QED
  BY <1>1, <1>2 DEF Schedule!Fresh

(* ExecuteNode begins where the schedule allows a node to start. *)
LEMMA BeginIsStart ==
  ASSUME SchedulingInv, NEW w \in Worker, BeginExecuteNode(w)
  PROVE  Schedule!Next
<1>1. ProcessNode(w) /\ pc[w] # "execute"
  BY DEF ProcessNode, BeginExecuteNode, AboutToBuild
<1>2. node[w] \in Node /\ Schedule!Fresh(node[w])
  BY <1>1, ProcessedIsFresh
<1>3. /\ Goto(w, "execute", {}) /\ node' = node
      /\ UNCHANGED <<finished, buildResult, returned>>
  BY DEF BeginExecuteNode, nodeVars, mainVars
<1>4. "execute" \in WorkerPc /\ TypeOK
  BY DEF WorkerPc, SchedulingInv
<1>5. ExecutingElsewhere(w)' = ExecutingElsewhere(w) /\ pc'[w] = "execute"
  BY <1>3, <1>4, ElsewhereStays
<1>6. Executing' = Executing \cup {node[w]}
  BY <1>1, <1>3, <1>5 DEF Executing, ExecutingElsewhere
<1>7. \A d \in CombinedDependencies[node[w]] : Schedule!Built(d)
  BY DEF BeginExecuteNode, AllDependenciesAreFinished, AllDependenciesAreSuccesful,
     Schedule!Built, Successful, Schedule!Successful
<1>8. Schedule!Start(node[w])
  BY <1>2, <1>3, <1>6, <1>7, SameDependencies DEF Schedule!Start
<1> QED
  BY <1>2, <1>8 DEF Schedule!Next

(* Its end completes the node with the same result. *)
LEMMA FinishIsComplete ==
  ASSUME SchedulingInv, NEW w \in Worker, NEW r \in ExecuteResult, FinishExecuteNode(w, r)
  PROVE  Schedule!Next
<1>1. pc[w] = "execute" /\ node[w] \in Node /\ TypeOK
  BY ProcessNodeHasNode DEF FinishExecuteNode, ProcessNode, SchedulingInv
<1>2. /\ buildResult' = [buildResult EXCEPT ![node[w]] = r]
      /\ finished' = finished \cup {node[w]}
      /\ returned' = returned
      /\ \E woken \in WakeForPlaced(Cardinality(Released(node[w]) \ workStack)) :
           Goto(w, "pick", woken)
      /\ \A v \in Worker \ {w} : node'[v] = node[v]
  BY <1>1 DEF FinishExecuteNode, FinishNode, mainVars, TypeOK
<1>3. "pick" \in WorkerPc
  BY DEF WorkerPc
<1>4. ExecutingElsewhere(w)' = ExecutingElsewhere(w) /\ pc'[w] = "pick"
  BY <1>1, <1>2, <1>3, WokenWereAsleep, ElsewhereStays
<1>5. node[w] \notin ExecutingElsewhere(w)
  BY <1>1 DEF SchedulingInv, OneWorkerPerNode, ExecutingElsewhere, HasNode
<1>6. Executing = ExecutingElsewhere(w) \cup {node[w]}
  BY <1>1, ExecutingHereAndElsewhere
<1>7. Executing' = ExecutingElsewhere(w)'
  BY <1>4 DEF Executing, ExecutingElsewhere
<1>8. r \in Schedule!Completed
  BY DEF ExecuteResult, NodeBuildResult, Schedule!Completed
<1>9. Schedule!Complete(node[w], r)
  BY <1>2, <1>4, <1>5, <1>6, <1>7, <1>8 DEF Schedule!Complete
<1> QED
  BY <1>1, <1>8, <1>9 DEF Schedule!Next

(* A successful lookup restores a cacheable node. *)
LEMMA LookupIsRestore ==
  ASSUME SchedulingInv, LookupsAreCacheable, NEW w \in Worker, NEW r \in Successful,
         CacheLookupMadeConsistent(w, r), Executing' = Executing
  PROVE  Schedule!Next
<1>1. ProcessNode(w) /\ pc[w] = "lookup"
  BY DEF ProcessNode, CacheLookupMadeConsistent
<1>2. node[w] \in Node /\ Schedule!Fresh(node[w]) /\ node[w] \in Cacheable
  BY <1>1, ProcessedIsFresh DEF LookupsAreCacheable
<1>3. /\ buildResult' = [buildResult EXCEPT ![node[w]] = r]
      /\ finished' = finished \cup {node[w]}
      /\ returned' = returned
  BY DEF CacheLookupMadeConsistent, FinishNode, mainVars
<1>4. r \in Schedule!Successful /\ r \in Schedule!Completed
  BY DEF Successful, Schedule!Successful, Schedule!Completed
<1>5. Schedule!Restore(node[w], r)
  BY <1>2, <1>3, <1>4 DEF Schedule!Restore
<1> QED
  BY <1>2, <1>4, <1>5 DEF Schedule!Next

(* A node is only skipped behind a dependency that was not built. *)
LEMMA SkipIsSkip ==
  ASSUME SchedulingInv, NEW w \in Worker, SkipNode(w), Executing' = Executing
  PROVE  Schedule!Next
<1>1. ProcessNode(w) /\ pc[w] # "execute"
  BY DEF ProcessNode, SkipNode, AboutToBuild
<1>2. node[w] \in Node /\ Schedule!Fresh(node[w])
  BY <1>1, ProcessedIsFresh
<1>3. /\ finished' = finished \cup {node[w]}
      /\ UNCHANGED <<buildResult, returned>>
  BY DEF SkipNode, FinishNode, mainVars
<1>4. /\ CombinedDependencies[node[w]] \subseteq finished
      /\ \E d \in CombinedDependencies[node[w]] : ~Schedule!Built(d)
  BY DEF SkipNode, AllDependenciesAreFinished, AllDependenciesAreSuccesful,
     Schedule!Built, Successful, Schedule!Successful
<1>5. Schedule!Skip(node[w])
  BY <1>2, <1>3, <1>4, SameDependencies DEF Schedule!Skip
<1> QED
  BY <1>2, <1>5 DEF Schedule!Next

(* What is returned is what the schedule allows to be returned. *)
LEMMA ReturnIsReturn ==
  ASSUME SchedulingInv, ResultInv, ReturnFinalBuildResult \/ CheckSignalReason,
         Executing' = Executing
  PROVE  Schedule!Next \/ UNCHANGED Schedule!vars
<1>1. UNCHANGED <<finished, buildResult>> /\ TypeOK
  BY DEF ReturnFinalBuildResult, CheckSignalReason, nodeVars, SchedulingInv
<1>2. returned = "None"
  BY DEF ReturnFinalBuildResult, CheckSignalReason, ResultInv, MainIsToldTheTruth, Building
<1>3. CASE CheckSignalReason
  <2>1. returned' = "Interrupted" \/ returned' = returned
    BY <1>3 DEF CheckSignalReason
  <2>2. CASE returned' = "Interrupted"
    <3>1. Schedule!Return("Interrupted")
      BY <1>1, <1>2, <2>2 DEF Schedule!Return
    <3> QED
      BY <3>1 DEF Schedule!Next
  <2> QED
    BY <1>1, <2>1, <2>2, Stutters
<1>4. CASE ReturnFinalBuildResult
  <2>1. returned' = finalBuildResult /\ mainPc = "result" /\ finalBuildResult \in BuildResult
    BY <1>1, <1>4 DEF ReturnFinalBuildResult, TypeOK
  <2>2. ASSUME finalBuildResult = "Ok"
        PROVE  \A n \in Requested : Schedule!Built(n)
    <3>1. Requested \subseteq hasEverBeenQueued /\ Settled /\ AllBuilt
      BY <2>1, <2>2 DEF ResultInv, MainIsToldTheTruth, ResultsAreHonest, BuildOver
    <3> QED
      BY <3>1 DEF Settled, AllBuilt, Schedule!Built, Successful, Schedule!Successful
  <2>3. ASSUME finalBuildResult = "BuildError"
        PROVE  \E n \in Node : buildResult[n] = "RanFailed"
    BY <1>1, <2>3 DEF ResultInv, ResultsAreHonest, TypeOK
  <2>4. Schedule!Return(finalBuildResult)
    BY <1>1, <1>2, <2>1, <2>2, <2>3 DEF Schedule!Return
  <2> QED
    BY <2>1, <2>4 DEF Schedule!Next, BuildResult
<1> QED
  BY <1>3, <1>4

(* Every step of the loop is one of the schedule or a stutter. *)
LEMMA StepImplements ==
  ASSUME SchedulingInv, ResultInv, [Next]_vars
  PROVE  [Schedule!Next]_Schedule!vars
<1>1. CASE \E w \in Worker : BeginExecuteNode(w)
  BY <1>1, BeginIsStart
<1>2. CASE \E w \in Worker : \E r \in ExecuteResult : FinishExecuteNode(w, r)
  BY <1>2, FinishIsComplete
<1>3. CASE /\ \A w \in Worker : ~BeginExecuteNode(w)
           /\ \A w \in Worker : \A r \in ExecuteResult : ~FinishExecuteNode(w, r)
  <2>1. Executing' = Executing
    BY <1>3, ExecutingStays DEF SchedulingInv
  <2>2. ASSUME NEW w \in Worker, ProcessNode(w)
        PROVE  [Schedule!Next]_Schedule!vars
    <3>1. CASE SkipNode(w) \/ \E r \in Successful : CacheLookupMadeConsistent(w, r)
      BY <2>1, <3>1, SkipIsSkip, LookupIsRestore DEF ResultInv
    <3>2. CASE BeginCacheLookup(w) \/ CacheLookupFoundNothing(w)
                 \/ EnqueueToBuildDependencies(w)
      <4>1. UNCHANGED <<finished, buildResult, returned>>
        BY <3>2 DEF BeginCacheLookup, CacheLookupFoundNothing, EnqueueToBuildDependencies,
           nodeVars, mainVars
      <4> QED
        BY <2>1, <4>1, Stutters
    <3> QED
      BY <1>3, <2>2, <3>1, <3>2 DEF ProcessNode
  <2>3. ASSUME NEW w \in Worker, Pick(w) \/ Idle(w) \/ SpuriousWakeup(w)
        PROVE  [Schedule!Next]_Schedule!vars
    <3>1. UNCHANGED <<finished, buildResult>>
      BY <2>3, OnlyProcessNodeMovesNodes DEF nodeSetVars
    <3>2. UNCHANGED returned
      BY <2>3, WorkersAndMain DEF WorkerStep
    <3> QED
      BY <2>1, <3>1, <3>2, Stutters
  <2>4. CASE ReturnFinalBuildResult \/ CheckSignalReason
    BY <2>1, <2>4, ReturnIsReturn
  <2>5. CASE BuildQueueBuild \/ BuildFinished \/ BuildQueueDestroy \/ MainSpuriousWakeup
               \/ CanaryStep \/ HandleSignal \/ UNCHANGED vars
    <3>1. UNCHANGED <<finished, buildResult, returned>>
      BY <2>5 DEF BuildQueueBuild, BuildFinished, BuildQueueDestroy, MainSpuriousWakeup,
         CanaryStep, ReceiveS, NotifyWorker, StdinClosed, HandleSignal, vars, nodeVars,
         mainVars
    <3> QED
      BY <2>1, <3>1, Stutters
  <2> QED
    BY <2>2, <2>3, <2>4, <2>5 DEF Next, WorkerStep, MainStep
<1> QED
  BY <1>1, <1>2, <1>3

(* The threads, locks and stacks implement the promise of NodeSchedule,    *)
(* whatever the graph, the number of workers and the options.              *)
THEOREM LoopImplementsSchedule ==
  ASSUME Main \notin SpuriousWakeups
  PROVE  Spec => ImplementsSchedule
<1>1. Init => Schedule!Init
  BY ScheduleInit
<1>2. SchedulingInv /\ ResultInv /\ [Next]_vars => [Schedule!Next]_Schedule!vars
  BY StepImplements
<1> QED
  BY <1>1, <1>2, SchedulingInvariant, ResultInvariant, PTL
     DEF Spec, ImplementsSchedule, Schedule!Spec
=============================================================================
