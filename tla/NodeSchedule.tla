---------------------------- MODULE NodeSchedule ----------------------------
(***************************************************************************)
(* What a build promises about its nodes, whatever threads, locks and      *)
(* stacks it uses: no node runs before everything it needs was built, none *)
(* runs twice or beside itself, a node behind a failure is never run, and  *)
(* the result handed back says what happened to the nodes.                 *)
(***************************************************************************)
EXTENDS BuildDag

CONSTANTS Requested, Cacheable

VARIABLES
  running,      \* nodes whose action is being run
  finished,     \* nodes the build is done with
  buildResult,  \* how each finished node ended
  returned      \* the result of the build, "None" while it runs

vars == <<running, finished, buildResult, returned>>

Successful == {"RanSuccesfully", "UpToDate"}

Completed == {"RanSuccesfully", "UpToDate", "RanFailed",
              "UpToDateButDependeesRequireFrontendRerun",
              "RanSuccessButDependeesRequireFrontendRerun"}

Built(n) == n \in finished /\ buildResult[n] \in Successful

Fresh(n) == n \notin running \cup finished

Init ==
  /\ running = {} /\ finished = {}
  /\ buildResult = [n \in Node |-> "DidNotRun"]
  /\ returned = "None"

Start(n) ==
  /\ Fresh(n) /\ \A d \in CombinedDependencies[n] : Built(d)
  /\ running' = running \cup {n}
  /\ UNCHANGED <<finished, buildResult, returned>>

Complete(n, r) ==
  /\ n \in running /\ r \in Completed
  /\ running' = running \ {n}
  /\ finished' = finished \cup {n}
  /\ buildResult' = [buildResult EXCEPT ![n] = r]
  /\ UNCHANGED returned

(* The outputs of a cacheable node are found without building what it      *)
(* depends on.                                                             *)
Restore(n, r) ==
  /\ n \in Cacheable /\ Fresh(n) /\ r \in Successful
  /\ finished' = finished \cup {n}
  /\ buildResult' = [buildResult EXCEPT ![n] = r]
  /\ UNCHANGED <<running, returned>>

Skip(n) ==
  /\ Fresh(n) /\ CombinedDependencies[n] \subseteq finished
  /\ \E d \in CombinedDependencies[n] : ~Built(d)
  /\ finished' = finished \cup {n}
  /\ UNCHANGED <<running, buildResult, returned>>

(* Ok promises every requested node, BuildError names a node that failed.  *)
(* A rerun may be asked for whenever the graph itself turns out to be out  *)
(* of date, an interrupt comes when it comes.                              *)
Return(r) ==
  /\ returned = "None"
  /\ r = "Ok" => \A n \in Requested : Built(n)
  /\ r = "BuildError" => \E n \in Node : buildResult[n] = "RanFailed"
  /\ returned' = r
  /\ UNCHANGED <<running, finished, buildResult>>

Next ==
  \/ \E n \in Node :
        \/ Start(n) \/ Skip(n)
        \/ \E r \in Completed : Complete(n, r) \/ Restore(n, r)
  \/ \E r \in {"Ok", "Interrupted", "BuildError", "RequireFrontendRerun"} : Return(r)

Spec == Init /\ [][Next]_vars
=============================================================================
