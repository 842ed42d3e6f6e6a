--------------------------- MODULE SharedResources ---------------------------
(***************************************************************************)
(* Shared resources: processes or files several nodes need while they run. *)
(* The first node that needs one creates it, under m_SharedResourcesLock,  *)
(* the others find m_SharedResourcesCreated set, which they read without   *)
(* the lock first. They are destroyed once the build threads have been     *)
(* joined.                                                                 *)
(***************************************************************************)
EXTENDS Naturals, Sequences, FiniteSets

CONSTANTS
  Worker,           \* the build threads
  NoOne,            \* m_SharedResourcesLock is free
  Node,             \* nodes whose actions are run
  NoNode,           \* a worker that runs no action
  Resource,         \* indices of the SharedResourceData
  Uses,             \* [Node -> Seq(Resource)], m_SharedResources of a DagNode
  HasCreateAction   \* resources with an m_CreateAction

ASSUME ResourceAssumption ==
  /\ NoOne \notin Worker /\ NoNode \notin Node
  /\ Uses \in [Node -> Seq(Resource)]
  /\ HasCreateAction \subseteq Resource

VARIABLES
  todo,      \* nodes whose action was not begun
  pc,        \* where each worker is
  node,      \* the node whose action a worker runs
  next,      \* its place in the node's list of resources
  lock,      \* owner of m_SharedResourcesLock
  created,   \* m_SharedResourcesCreated
  world,     \* what there is outside of the program
  mainPc

threadVars == <<pc, node, next>>
vars == <<todo, threadVars, lock, created, world, mainPc>>

WorkerPc == {"idle", "acquire", "lock", "create", "run", "exited"}

(* The resource a worker is at, if it is not through with the list. *)
AtResource(w) == next[w] <= Len(Uses[node[w]])
Wanted(w) == Uses[node[w]][next[w]]

-----------------------------------------------------------------------------
(* RunAction, as far as shared resources go *)

BeginRunAction(w, n) ==
  /\ pc[w] = "idle" /\ n \in todo
  /\ todo' = todo \ {n}
  /\ pc' = [pc EXCEPT ![w] = "acquire"]
  /\ node' = [node EXCEPT ![w] = n]
  /\ next' = [next EXCEPT ![w] = 1]
  /\ UNCHANGED <<lock, created, world, mainPc>>

(* refVar is read without the lock. *)
FindCreated(w) ==
  /\ pc[w] = "acquire" /\ AtResource(w) /\ created[Wanted(w)] # 0
  /\ next' = [next EXCEPT ![w] = @ + 1]
  /\ UNCHANGED <<todo, pc, node, lock, created, world, mainPc>>

FindMissing(w) ==
  /\ pc[w] = "acquire" /\ AtResource(w) /\ created[Wanted(w)] = 0
  /\ pc' = [pc EXCEPT ![w] = "lock"]
  /\ UNCHANGED <<todo, node, next, lock, created, world, mainPc>>

(* Mutant: the loop goes on to the next resource with the lock. *)

(* Another thread created it while this one waited for the lock, which is  *)
(* given up at once.                                                       *)
FindCreatedMeanwhile(w) ==
  /\ pc[w] = "lock" /\ lock = NoOne /\ created[Wanted(w)] # 0
  /\ pc' = [pc EXCEPT ![w] = "acquire"]
  /\ next' = [next EXCEPT ![w] = @ + 1]
  /\ UNCHANGED <<todo, node, lock, created, world, mainPc>>

(* Mutant: refVar is not read again. *)
BeginCreate_Unchecked(w) ==
  /\ pc[w] = "lock" /\ lock = NoOne
  /\ lock' = w
  /\ pc' = [pc EXCEPT ![w] = "create"]
  /\ UNCHANGED <<todo, node, next, created, world, mainPc>>

BeginCreate(w) ==
  /\ pc[w] = "lock" /\ lock = NoOne /\ created[Wanted(w)] = 0
  /\ lock' = w
  /\ pc' = [pc EXCEPT ![w] = "create"]
  /\ UNCHANGED <<todo, node, next, created, world, mainPc>>

(* Mutants: a failed create is not counted; it keeps the lock. *)
FinishCreate_CountsSuccess(w, succeeds) ==
  /\ pc[w] = "create" /\ lock' = NoOne
  /\ succeeds \/ Wanted(w) \in HasCreateAction
  /\ created' = [created EXCEPT ![Wanted(w)] = IF succeeds THEN @ + 1 ELSE @]
  /\ world' = [world EXCEPT ![Wanted(w)] = IF succeeds THEN "there" ELSE "failed"]
  /\ pc' = [pc EXCEPT ![w] = IF succeeds THEN "acquire" ELSE "idle"]
  /\ node' = [node EXCEPT ![w] = IF succeeds THEN @ ELSE NoNode]
  /\ next' = [next EXCEPT ![w] = @ + 1]
  /\ UNCHANGED <<todo, mainPc>>

(* The create action ends. Whether it succeeded decides what becomes of    *)
(* this node, which fails without being run; the resource counts as        *)
(* created either way. Nothing is done to create one without an action.    *)
FinishCreate(w, succeeds) ==
  /\ pc[w] = "create" /\ lock' = NoOne
  /\ succeeds \/ Wanted(w) \in HasCreateAction
  /\ created' = [created EXCEPT ![Wanted(w)] = @ + 1]
  /\ world' = [world EXCEPT ![Wanted(w)] = IF succeeds THEN "there" ELSE "failed"]
  /\ pc' = [pc EXCEPT ![w] = IF succeeds THEN "acquire" ELSE "idle"]
  /\ node' = [node EXCEPT ![w] = IF succeeds THEN @ ELSE NoNode]
  /\ next' = [next EXCEPT ![w] = @ + 1]
  /\ UNCHANGED <<todo, mainPc>>

RunActualAction(w) ==
  /\ pc[w] = "acquire" /\ ~AtResource(w)
  /\ pc' = [pc EXCEPT ![w] = "run"]
  /\ UNCHANGED <<todo, node, next, lock, created, world, mainPc>>

EndRunAction(w) ==
  /\ pc[w] = "run"
  /\ pc' = [pc EXCEPT ![w] = "idle"]
  /\ node' = [node EXCEPT ![w] = NoNode]
  /\ UNCHANGED <<todo, next, lock, created, world, mainPc>>

(* The build loop is left when nothing is left to do, or when the build is *)
(* over for another reason.                                                *)
LeaveBuildLoop(w) ==
  /\ pc[w] = "idle"
  /\ pc' = [pc EXCEPT ![w] = "exited"]
  /\ UNCHANGED <<todo, node, next, lock, created, world, mainPc>>

-----------------------------------------------------------------------------
(* BuildQueueDestroy *)

(* Mutant: the resources are destroyed before the threads are joined. *)
JoinBuildThreads_Skipped ==
  /\ mainPc = "join"
  /\ mainPc' = "destroy"
  /\ UNCHANGED <<todo, threadVars, lock, created, world>>

JoinBuildThreads ==
  /\ mainPc = "join" /\ \A w \in Worker : pc[w] = "exited"
  /\ mainPc' = "destroy"
  /\ UNCHANGED <<todo, threadVars, lock, created, world>>

(* The loop over the resources; their order makes no difference. *)
SharedResourceDestroy(r) ==
  /\ mainPc = "destroy" /\ created[r] > 0
  /\ created' = [created EXCEPT ![r] = 0]
  /\ world' = [world EXCEPT ![r] = "destroyed"]
  /\ UNCHANGED <<todo, threadVars, lock, mainPc>>

FinishDestroy ==
  /\ mainPc = "destroy" /\ \A r \in Resource : created[r] = 0
  /\ mainPc' = "done"
  /\ UNCHANGED <<todo, threadVars, lock, created, world>>

-----------------------------------------------------------------------------
Init ==
  /\ todo = Node
  /\ pc = [w \in Worker |-> "idle"]
  /\ node = [w \in Worker |-> NoNode] /\ next = [w \in Worker |-> 1]
  /\ lock = NoOne
  /\ created = [r \in Resource |-> 0]
  /\ world = [r \in Resource |-> "absent"]
  /\ mainPc = "join"

WorkerStep(w) ==
  \/ \E n \in Node : BeginRunAction(w, n)
  \/ FindCreated(w) \/ FindMissing(w) \/ FindCreatedMeanwhile(w)
  \/ BeginCreate(w) \/ \E succeeds \in BOOLEAN : FinishCreate(w, succeeds)
  \/ RunActualAction(w) \/ EndRunAction(w) \/ LeaveBuildLoop(w)

BuildQueueDestroy ==
  JoinBuildThreads \/ (\E r \in Resource : SharedResourceDestroy(r)) \/ FinishDestroy

Next == (\E w \in Worker : WorkerStep(w)) \/ BuildQueueDestroy

Spec == Init /\ [][Next]_vars
FairSpec == Spec /\ (\A w \in Worker : WF_vars(WorkerStep(w))) /\ WF_vars(BuildQueueDestroy)

-----------------------------------------------------------------------------
(* Properties *)

(* Every variable keeps its type; a worker has a node while it is in       *)
(* RunAction, and waits for the lock only on behalf of a resource.         *)
TypeOK ==
  /\ todo \subseteq Node
  /\ pc \in [Worker -> WorkerPc]
  /\ node \in [Worker -> Node \cup {NoNode}]
  /\ next \in [Worker -> Nat \ {0}]
  /\ lock \in Worker \cup {NoOne}
  /\ created \in [Resource -> Nat]
  /\ world \in [Resource -> {"absent", "there", "failed", "destroyed"}]
  /\ mainPc \in {"join", "destroy", "done"}
  /\ \A w \in Worker : pc[w] \in {"idle", "exited"} <=> node[w] = NoNode
  /\ \A w \in Worker : pc[w] \in {"lock", "create"} => AtResource(w)

UsedBy(w) == {Uses[node[w]][i] : i \in DOMAIN Uses[node[w]]}

(* A resource is created once, whichever nodes ask for it at the same      *)
(* time: reading refVar again under the lock closes the gap the first,     *)
(* unlocked read leaves.                                                   *)
CreatedOnce ==
  /\ \A r \in Resource : created[r] <= 1
  /\ \A w \in Worker : pc[w] = "create" => lock = w /\ created[Wanted(w)] = 0

(* While an action runs each of its resources has been set up, or at least *)
(* tried to, and none has been destroyed: BuildQueue.cpp:114-117 joins the *)
(* threads first, because the build is reported as finished before they    *)
(* all are.                                                                *)
RunsWithResources ==
  \A w \in Worker : pc[w] = "run" => \A r \in UsedBy(w) : world[r] \in {"there", "failed"}

(* What is destroyed is not brought back by a thread still running.        *)
DestroyedForGood ==
  [][\A r \in Resource : world[r] = "destroyed" => world'[r] = "destroyed"]_vars

(* Whatever was created, successfully or not, is destroyed in the end.     *)
NothingLeftBehind ==
  mainPc = "done" => \A r \in Resource : world[r] \in {"absent", "destroyed"}

(* Threads that wait for each other's create actions all get on, and the   *)
(* resources are destroyed.                                                *)
=============================================================================
