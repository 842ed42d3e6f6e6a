------------------------ MODULE SharedResourcesProofs ------------------------
(***************************************************************************)
(* Proofs about SharedResources, for any nodes, resources and number of    *)
(* build threads, and whichever create actions fail.                       *)
(***************************************************************************)
EXTENDS SharedResources, TLAPS

InRunAction == {"acquire", "lock", "create", "run"}

(* A worker has been through the resources before its place in the list.   *)
Acquired ==
  \A w \in Worker : pc[w] \in InRunAction =>
    /\ \A i \in 1..Len(Uses[node[w]]) : i < next[w] => created[Uses[node[w]][i]] # 0
    /\ pc[w] = "run" => ~AtResource(w)

(* The array tells what there is outside. *)
CreatedIsKnown ==
  \A r \in Resource : created[r] # 0 <=> world[r] \in {"there", "failed"}

(* Destroying begins when every thread has ended. *)
DestroyedAfterJoin ==
  /\ mainPc # "join" => \A w \in Worker : pc[w] = "exited"
  /\ \A r \in Resource : world[r] = "destroyed" => mainPc # "join"
  /\ mainPc = "done" => \A r \in Resource : created[r] = 0

ResourceInv == TypeOK /\ CreatedOnce /\ Acquired /\ CreatedIsKnown /\ DestroyedAfterJoin

(* Nothing is created before the first node asks for it. *)
LEMMA ResourceInit ==
  ASSUME Init
  PROVE  ResourceInv
BY ResourceAssumption DEF Init, ResourceInv, TypeOK, CreatedOnce, Acquired, CreatedIsKnown,
   DestroyedAfterJoin, WorkerPc, InRunAction, ResourceAssumption

(* What a worker that is not through with its list is at.                  *)
LEMMA WantedIsResource ==
  ASSUME TypeOK, NEW w \in Worker, pc[w] \in InRunAction, AtResource(w)
  PROVE  /\ node[w] \in Node /\ Uses[node[w]] \in Seq(Resource)
         /\ next[w] \in 1..Len(Uses[node[w]])
         /\ Wanted(w) \in Resource
<1>1. node[w] \in Node /\ Uses[node[w]] \in Seq(Resource)
  BY ResourceAssumption DEF TypeOK, ResourceAssumption, InRunAction
<1>2. next[w] \in 1..Len(Uses[node[w]])
  BY <1>1 DEF TypeOK, AtResource
<1> QED
  BY <1>1, <1>2 DEF Wanted

-----------------------------------------------------------------------------
(* The worker *)

(* Taking a node, running it, ending and leaving touch no resource.        *)
LEMMA RunActionKeeps ==
  ASSUME ResourceInv, NEW w \in Worker,
         \/ \E n \in Node : BeginRunAction(w, n)
         \/ RunActualAction(w) \/ EndRunAction(w) \/ LeaveBuildLoop(w)
  PROVE  ResourceInv'
<1>1. TypeOK'
  <2>1. ASSUME NEW n \in Node, BeginRunAction(w, n)
        PROVE  TypeOK'
    BY <2>1, ResourceAssumption DEF ResourceInv, TypeOK, BeginRunAction, WorkerPc, AtResource,
       ResourceAssumption
  <2>2. CASE RunActualAction(w)
    BY <2>2 DEF ResourceInv, TypeOK, RunActualAction, WorkerPc, AtResource
  <2>3. CASE EndRunAction(w)
    BY <2>3 DEF ResourceInv, TypeOK, EndRunAction, WorkerPc, AtResource
  <2>4. CASE LeaveBuildLoop(w)
    BY <2>4 DEF ResourceInv, TypeOK, LeaveBuildLoop, WorkerPc, AtResource
  <2> QED
    BY <2>1, <2>2, <2>3, <2>4
<1>2. CreatedOnce'
  BY DEF ResourceInv, TypeOK, CreatedOnce, BeginRunAction, RunActualAction, EndRunAction,
     LeaveBuildLoop, Wanted
<1>3. Acquired'
  BY DEF ResourceInv, TypeOK, Acquired, BeginRunAction, RunActualAction, EndRunAction,
     LeaveBuildLoop, AtResource, InRunAction
<1>4. CreatedIsKnown'
  BY DEF ResourceInv, CreatedIsKnown, BeginRunAction, RunActualAction, EndRunAction,
     LeaveBuildLoop
<1>5. DestroyedAfterJoin'
  BY DEF ResourceInv, TypeOK, DestroyedAfterJoin, BeginRunAction, RunActualAction,
     EndRunAction, LeaveBuildLoop
<1> QED
  BY <1>1, <1>2, <1>3, <1>4, <1>5 DEF ResourceInv

(* Looking for a resource, with or without the lock, creates none.         *)
LEMMA LookingKeeps ==
  ASSUME ResourceInv, NEW w \in Worker,
         FindCreated(w) \/ FindMissing(w) \/ FindCreatedMeanwhile(w) \/ BeginCreate(w)
  PROVE  ResourceInv'
<1>1. AtResource(w) /\ pc[w] \in InRunAction
  BY DEF FindCreated, FindMissing, FindCreatedMeanwhile, BeginCreate, ResourceInv, TypeOK,
     InRunAction
<1>2. /\ node[w] \in Node /\ next[w] \in 1..Len(Uses[node[w]]) /\ Wanted(w) \in Resource
      /\ Uses[node[w]] \in Seq(Resource)
  BY <1>1, WantedIsResource DEF ResourceInv
<1>3. TypeOK'
  <2>1. CASE FindCreated(w)
    BY <1>1, <1>2, <2>1 DEF ResourceInv, TypeOK, FindCreated, WorkerPc, AtResource
  <2>2. CASE FindMissing(w)
    BY <1>1, <1>2, <2>2 DEF ResourceInv, TypeOK, FindMissing, WorkerPc, AtResource
  <2>3. CASE FindCreatedMeanwhile(w)
    BY <1>1, <1>2, <2>3 DEF ResourceInv, TypeOK, FindCreatedMeanwhile, WorkerPc, AtResource
  <2>4. CASE BeginCreate(w)
    BY <1>1, <1>2, <2>4 DEF ResourceInv, TypeOK, BeginCreate, WorkerPc, AtResource
  <2> QED
    BY <2>1, <2>2, <2>3, <2>4
<1>4. CreatedOnce'
  <2>1. CASE FindCreated(w)
    BY <1>1, <1>2, <2>1 DEF ResourceInv, TypeOK, FindCreated, CreatedOnce, Wanted
  <2>2. CASE FindMissing(w)
    BY <1>1, <1>2, <2>2 DEF ResourceInv, TypeOK, FindMissing, CreatedOnce, Wanted
  <2>3. CASE FindCreatedMeanwhile(w)
    BY <1>1, <1>2, <2>3 DEF ResourceInv, TypeOK, FindCreatedMeanwhile, CreatedOnce, Wanted
  <2>4. CASE BeginCreate(w)
    <3>1. \A v \in Worker : pc[v] # "create"
      BY <2>4, ResourceAssumption DEF BeginCreate, ResourceInv, CreatedOnce, ResourceAssumption
    <3> QED
      BY <1>1, <1>2, <2>4, <3>1 DEF ResourceInv, TypeOK, BeginCreate, CreatedOnce, Wanted
  <2> QED
    BY <2>1, <2>2, <2>3, <2>4
<1>5. Acquired'
  <2>1. CASE FindCreated(w) \/ FindCreatedMeanwhile(w)
    <3>1. /\ created[Wanted(w)] # 0 /\ UNCHANGED <<node, created>>
          /\ pc'[w] = "acquire" /\ next'[w] = next[w] + 1
          /\ \A v \in Worker : v # w => pc'[v] = pc[v] /\ next'[v] = next[v]
      BY <2>1 DEF FindCreated, FindCreatedMeanwhile, ResourceInv, TypeOK
    <3>2. ASSUME NEW i \in 1..Len(Uses[node[w]]), i < next[w] + 1
          PROVE  created[Uses[node[w]][i]] # 0
      <4>1. CASE i = next[w]
        BY <3>1, <4>1 DEF Wanted
      <4>2. CASE i < next[w]
        BY <1>1, <4>2 DEF ResourceInv, Acquired
      <4> QED
        BY <1>2, <3>2, <4>1, <4>2
    <3> QED
      BY <3>1, <3>2 DEF ResourceInv, Acquired, AtResource
  <2>2. CASE FindMissing(w) \/ BeginCreate(w)
    <3>1. /\ UNCHANGED <<node, created, next>> /\ pc'[w] # "run"
          /\ \A v \in Worker : v # w => pc'[v] = pc[v]
      BY <2>2 DEF FindMissing, BeginCreate, ResourceInv, TypeOK
    <3> QED
      BY <1>1, <3>1 DEF ResourceInv, Acquired, AtResource
  <2> QED
    BY <2>1, <2>2
<1>6. CreatedIsKnown'
  BY DEF ResourceInv, CreatedIsKnown, FindCreated, FindMissing, FindCreatedMeanwhile,
     BeginCreate
<1>7. DestroyedAfterJoin'
  BY <1>1 DEF ResourceInv, TypeOK, DestroyedAfterJoin, FindCreated, FindMissing,
     FindCreatedMeanwhile, BeginCreate, InRunAction
<1> QED
  BY <1>3, <1>4, <1>5, <1>6, <1>7 DEF ResourceInv

(* The owner of the lock counts the resource it has created, or tried to.  *)
LEMMA FinishCreateKeeps ==
  ASSUME ResourceInv, NEW w \in Worker, NEW succeeds \in BOOLEAN, FinishCreate(w, succeeds)
  PROVE  ResourceInv'
<1> DEFINE r == Wanted(w)
<1>1. AtResource(w) /\ pc[w] = "create" /\ pc[w] \in InRunAction
  BY DEF FinishCreate, ResourceInv, TypeOK, InRunAction
<1>2. /\ node[w] \in Node /\ next[w] \in 1..Len(Uses[node[w]]) /\ r \in Resource
      /\ Uses[node[w]] \in Seq(Resource)
  BY <1>1, WantedIsResource DEF ResourceInv
<1>3. created[r] = 0 /\ lock = w
  BY <1>1 DEF ResourceInv, CreatedOnce
<1>4. /\ created' = [created EXCEPT ![r] = 1]
      /\ world' = [world EXCEPT ![r] = IF succeeds THEN "there" ELSE "failed"]
      /\ lock' = NoOne /\ mainPc' = mainPc /\ todo' = todo
      /\ pc' = [pc EXCEPT ![w] = IF succeeds THEN "acquire" ELSE "idle"]
      /\ node' = [node EXCEPT ![w] = IF succeeds THEN @ ELSE NoNode]
      /\ next' = [next EXCEPT ![w] = @ + 1]
  BY <1>2, <1>3 DEF FinishCreate, ResourceInv, TypeOK
<1>5. \A v \in Worker : v # w => pc[v] # "create"
  BY <1>3 DEF ResourceInv, CreatedOnce
<1> HIDE DEF r
<1>6. TypeOK'
  BY <1>1, <1>2, <1>4 DEF ResourceInv, TypeOK, WorkerPc, AtResource
<1>7. CreatedOnce'
  BY <1>2, <1>4, <1>5 DEF ResourceInv, TypeOK, CreatedOnce, Wanted
<1>8. Acquired'
  <2> SUFFICES ASSUME NEW v \in Worker, pc'[v] \in InRunAction
               PROVE  /\ \A i \in 1..Len(Uses[node'[v]]) :
                           i < next'[v] => created'[Uses[node'[v]][i]] # 0
                      /\ pc'[v] = "run" => ~AtResource(v)'
    BY DEF Acquired
  <2>1. CASE v # w
    <3>1. /\ pc'[v] = pc[v] /\ node'[v] = node[v] /\ next'[v] = next[v]
          /\ node[v] \in Node /\ Uses[node[v]] \in Seq(Resource)
      BY <1>4, <2>1, ResourceAssumption DEF ResourceInv, TypeOK, InRunAction,
         ResourceAssumption
    <3>2. \A q \in Resource : created[q] # 0 => created'[q] # 0
      BY <1>2, <1>4 DEF ResourceInv, TypeOK
    <3> QED
      BY <3>1, <3>2 DEF ResourceInv, Acquired, AtResource
  <2>2. CASE v = w
    <3>1. /\ pc'[w] = "acquire" /\ node'[w] = node[w] /\ next'[w] = next[w] + 1
      BY <1>4, <2>2 DEF ResourceInv, TypeOK, InRunAction
    <3>2. ASSUME NEW i \in 1..Len(Uses[node[w]]), i < next[w] + 1
          PROVE  created'[Uses[node[w]][i]] # 0
      <4>1. CASE i = next[w]
        BY <1>2, <1>4, <4>1 DEF ResourceInv, TypeOK, Wanted, r
      <4>2. CASE i < next[w]
        BY <1>1, <1>2, <1>4, <4>2 DEF ResourceInv, TypeOK, Acquired
      <4> QED
        BY <1>2, <3>2, <4>1, <4>2
    <3> QED
      BY <2>2, <3>1, <3>2
  <2> QED
    BY <2>1, <2>2
<1>9. CreatedIsKnown'
  BY <1>2, <1>4 DEF ResourceInv, TypeOK, CreatedIsKnown
<1>10. DestroyedAfterJoin'
  BY <1>1, <1>2, <1>4 DEF ResourceInv, TypeOK, DestroyedAfterJoin
<1> QED
  BY <1>6, <1>7, <1>8, <1>9, <1>10 DEF ResourceInv

-----------------------------------------------------------------------------
(* The main thread *)

(* With every thread joined nobody is in RunAction.                        *)
LEMMA BuildQueueDestroyKeeps ==
  ASSUME ResourceInv, BuildQueueDestroy
  PROVE  ResourceInv'
<1>1. TypeOK'
  <2>1. CASE JoinBuildThreads \/ FinishDestroy
    BY <2>1 DEF ResourceInv, TypeOK, JoinBuildThreads, FinishDestroy, threadVars, AtResource
  <2>2. ASSUME NEW r \in Resource, SharedResourceDestroy(r)
        PROVE  TypeOK'
    BY <2>2 DEF ResourceInv, TypeOK, SharedResourceDestroy, threadVars, AtResource
  <2> QED
    BY <2>1, <2>2 DEF BuildQueueDestroy
<1>2. \A w \in Worker : pc[w] = "exited" /\ pc'[w] = "exited"
  BY DEF ResourceInv, DestroyedAfterJoin, BuildQueueDestroy, JoinBuildThreads,
     SharedResourceDestroy, FinishDestroy, threadVars
<1>3. CreatedOnce'
  BY <1>2 DEF ResourceInv, TypeOK, CreatedOnce, BuildQueueDestroy, JoinBuildThreads,
     SharedResourceDestroy, FinishDestroy
<1>4. Acquired'
  BY <1>2 DEF Acquired, InRunAction
<1>5. CreatedIsKnown'
  BY DEF ResourceInv, TypeOK, CreatedIsKnown, BuildQueueDestroy, JoinBuildThreads,
     SharedResourceDestroy, FinishDestroy
<1>6. DestroyedAfterJoin'
  BY <1>2 DEF ResourceInv, TypeOK, DestroyedAfterJoin, BuildQueueDestroy, JoinBuildThreads,
     SharedResourceDestroy, FinishDestroy
<1> QED
  BY <1>1, <1>3, <1>4, <1>5, <1>6 DEF ResourceInv

(* ResourceInv is inductive. *)
LEMMA ResourceStep ==
  ASSUME ResourceInv, [Next]_vars
  PROVE  ResourceInv'
<1>1. CASE UNCHANGED vars
  <2>1. TypeOK'
    BY <1>1 DEF vars, threadVars, ResourceInv, TypeOK, AtResource
  <2>2. CreatedOnce'
    BY <1>1 DEF vars, threadVars, ResourceInv, CreatedOnce, Wanted
  <2>3. Acquired'
    BY <1>1 DEF vars, threadVars, ResourceInv, Acquired, AtResource
  <2>4. CreatedIsKnown' /\ DestroyedAfterJoin'
    BY <1>1 DEF vars, threadVars, ResourceInv, CreatedIsKnown, DestroyedAfterJoin
  <2> QED
    BY <2>1, <2>2, <2>3, <2>4 DEF ResourceInv
<1> QED
  BY <1>1, RunActionKeeps, LookingKeeps, FinishCreateKeeps, BuildQueueDestroyKeeps
     DEF Next, WorkerStep

(* The inductive invariant behind the theorems that follow. *)
THEOREM ResourceInvariant == Spec => []ResourceInv
<1>1. Init => ResourceInv
  BY ResourceInit
<1>2. ResourceInv /\ [Next]_vars => ResourceInv'
  BY ResourceStep
<1> QED
  BY <1>1, <1>2, PTL DEF Spec

(* Every variable keeps its type. *)
THEOREM ResourcesTypeCorrect == Spec => []TypeOK
<1>1. ResourceInv => TypeOK
  BY DEF ResourceInv
<1> QED
  BY <1>1, ResourceInvariant, PTL

(* However many threads ask for a resource, one creates it.                *)
THEOREM ResourceCreatedOnce == Spec => []CreatedOnce
<1>1. ResourceInv => CreatedOnce
  BY DEF ResourceInv
<1> QED
  BY <1>1, ResourceInvariant, PTL

(* An action runs with its resources set up and not yet destroyed.         *)
THEOREM ActionsHaveTheirResources == Spec => []RunsWithResources
<1>1. ResourceInv => RunsWithResources
  <2> SUFFICES ASSUME ResourceInv, NEW w \in Worker, pc[w] = "run", NEW r \in UsedBy(w)
               PROVE  world[r] \in {"there", "failed"}
    BY DEF RunsWithResources
  <2>1. Uses[node[w]] \in Seq(Resource) /\ next[w] \in Nat /\ ~AtResource(w)
    BY ResourceAssumption DEF ResourceInv, TypeOK, Acquired, InRunAction, ResourceAssumption
  <2>2. PICK i \in 1..Len(Uses[node[w]]) : r = Uses[node[w]][i]
    BY <2>1 DEF UsedBy
  <2>3. i < next[w] /\ r \in Resource
    BY <2>1, <2>2 DEF AtResource
  <2> QED
    BY <2>2, <2>3 DEF ResourceInv, Acquired, CreatedIsKnown, InRunAction
<1> QED
  BY <1>1, ResourceInvariant, PTL

(* No thread brings back what was destroyed. *)
THEOREM DestroyedStays == Spec => DestroyedForGood
<1>1. ResourceInv /\ [Next]_vars =>
        [\A r \in Resource : world[r] = "destroyed" => world'[r] = "destroyed"]_vars
  <2> SUFFICES ASSUME ResourceInv, [Next]_vars, NEW r \in Resource, world[r] = "destroyed"
               PROVE  world'[r] = "destroyed"
    OBVIOUS
  <2>1. \A w \in Worker : pc[w] = "exited"
    BY DEF ResourceInv, DestroyedAfterJoin
  <2>2. ASSUME NEW w \in Worker, WorkerStep(w)
        PROVE  FALSE
    BY <2>1, <2>2 DEF WorkerStep, BeginRunAction, FindCreated, FindMissing,
       FindCreatedMeanwhile, BeginCreate, FinishCreate, RunActualAction, EndRunAction,
       LeaveBuildLoop
  <2>3. CASE BuildQueueDestroy
    BY <2>3 DEF BuildQueueDestroy, JoinBuildThreads, SharedResourceDestroy, FinishDestroy,
       ResourceInv, TypeOK
  <2> QED
    BY <2>2, <2>3 DEF Next, vars
<1> QED
  BY <1>1, ResourceInvariant, PTL DEF Spec, DestroyedForGood

(* When the queue is destroyed, so is everything that was created.         *)
THEOREM NothingIsLeft == Spec => []NothingLeftBehind
<1>1. ResourceInv => NothingLeftBehind
  BY DEF ResourceInv, NothingLeftBehind, CreatedIsKnown, DestroyedAfterJoin, TypeOK
<1> QED
  BY <1>1, ResourceInvariant, PTL
=============================================================================
