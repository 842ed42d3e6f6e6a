------------------------------ MODULE Driver ------------------------------
(***************************************************************************)
(* Runs of the program, one after the other: LoadOrBuildDag, DriverInitData,*)
(* RemoveStaleOutputs, the build (any outcome it can have), and the saving *)
(* of what it learned.  Frontends with different identifiers may write     *)
(* graphs for the same directory.  The program may be killed anywhere, and *)
(* the files it was writing are then as it left them.                      *)
(***************************************************************************)
EXTENDS BuildState, FiniteSets

CONSTANTS
    Graphs,      \* what a frontend may write; leaf is the leaf input signature
                 \* of its nodes, 0 if they are not looked up by one
    MaxRuns,
    MaxAccidents \* runs killed and files deleted by the user

ASSUME GraphAssumption ==
    /\ Graphs \subseteq [dag : Dags, guids : SUBSET Guids, cyclic : BOOLEAN, leaf : Nat]
    /\ \A g \in Graphs : IsFiniteSet(g.guids)

VARIABLES
    phase,       \* where main is, "exited" between runs
    json,        \* the graph this run is to freeze, or NoGraph
    hadDerived,  \* dagderived_info.Exists()
    frozen,      \* the dag file
    derived,     \* the derived file: the graph it was computed from
    stateFile,   \* the state file, or NoFile
    mapped,      \* the state file as renamed for mapping, or NoFile
    runs, accidents,
    cutShort,    \* whether a run was killed while it renewed the graph
    wroteFor     \* wroteFor[f]: the graphs for which f was written and recorded

\* A file is the sequence of its one content, empty if it does not exist.
NoFile == <<>>
NoGraph == [dag |-> 0, guids |-> {}, cyclic |-> FALSE, leaf |-> 0]
File(graph, whole) == <<[graph |-> graph, whole |-> whole]>>
Torn == File(NoGraph, FALSE)

graphFiles == <<frozen, derived>>
stateFiles == <<stateFile, mapped>>
options == <<json, hadDerived>>
bounds == <<runs, accidents>>
walk == <<nodes, previous, i, j, written, pc>>
history == <<cutShort, wroteFor>>
driverVars == <<phase, options, graphFiles, stateFiles, bounds, history>>
allVars == <<vars, driverVars>>

Frozen == frozen[1].graph
InOrder(guids) ==
    {s \in [1 .. Cardinality(guids) -> guids] : \A a, b \in DOMAIN s : a < b => s[a] < s[b]}
CurrentOutputs == UNION {OutputsOf[g] : g \in Frozen.guids}
Sheltered == UNION {StartsAs[g] : g \in Frozen.guids}
Recorded(file) == IF file = NoFile THEN <<>> ELSE file[1]

Goto(p) == phase' = p /\ UNCHANGED options

\* A process that ends takes its memory with it.
Exit == /\ phase' = "exited"
        /\ json' = NoGraph /\ hadDerived' = FALSE
Forget == /\ nodes' = <<>> /\ previous' = <<>> /\ written' = <<>>
          /\ i' = 1 /\ j' = 1 /\ pc' = "idle" /\ dag' = NoGraph.dag

---------------------------------------------------------------------------
(* LoadOrBuildDag.  BinaryWriterFlush writes in place: first the segment   *)
(* with both magic numbers, then the rest.                                 *)

StartRun(g) ==
    /\ phase = "exited"
    /\ runs < MaxRuns
    /\ runs' = runs + 1
    /\ json' = g
    /\ hadDerived' = (derived # NoFile)
    /\ phase' = (IF g = NoGraph THEN "load" ELSE "freeze")
    /\ UNCHANGED <<vars, graphFiles, stateFiles, accidents, history>>

FreezeFails ==
    /\ phase = "freeze"
    /\ Exit
    /\ UNCHANGED <<vars, graphFiles, stateFiles, bounds, history>>

BeginFreezeDag ==
    /\ phase = "freeze"
    /\ \E head \in BOOLEAN : frozen' = IF head THEN File(json, FALSE) ELSE Torn
    /\ Goto("freezing")
    /\ UNCHANGED <<vars, derived, stateFiles, bounds, history>>

FinishFreezeDag ==
    /\ phase = "freezing"
    /\ frozen' = File(json, TRUE)
    /\ cutShort' = FALSE
    /\ Goto("load")
    /\ UNCHANGED <<vars, derived, stateFiles, bounds, wroteFor>>

\* Flushing a file fails, the disk being full: what was written stays.
FlushFails ==
    /\ phase \in {"freezing", "deriving"}
    /\ cutShort' = TRUE
    /\ Exit
    /\ UNCHANGED <<vars, graphFiles, stateFiles, bounds, wroteFor>>

RemoveGraphFiles == frozen' = NoFile /\ derived' = NoFile

\* A file with its head is loaded, and what is then read behind the end of it
\* may stop the program at once.
LoadFrozenData(file, next) ==
    IF file \in {NoFile, Torn}
    THEN RemoveGraphFiles /\ Exit
    ELSE UNCHANGED graphFiles /\ (Goto(next) \/ (~file[1].whole /\ Exit))

\* Mutant: a derived file that was there is used for a new graph too.
LoadDag_TrustsDerived ==
    /\ phase = "load"
    /\ LoadFrozenData(frozen, IF hadDerived THEN "loadDerived" ELSE "cycles")
    /\ UNCHANGED <<vars, stateFiles, bounds, history>>

LoadDag ==
    /\ phase = "load"
    /\ LoadFrozenData(frozen, IF json # NoGraph THEN "cycles"
                              ELSE IF hadDerived THEN "loadDerived" ELSE "derive")
    /\ UNCHANGED <<vars, stateFiles, bounds, history>>

DetectCyclicDependencies ==
    /\ phase = "cycles"
    /\ IF Frozen.cyclic THEN RemoveGraphFiles /\ Exit
                              ELSE UNCHANGED graphFiles /\ Goto("derive")
    /\ UNCHANGED <<vars, stateFiles, bounds, history>>

BeginCompileDagDerived ==
    /\ phase = "derive"
    /\ \E head \in BOOLEAN : derived' = IF head THEN File(Frozen, FALSE) ELSE Torn
    /\ Goto("deriving")
    /\ UNCHANGED <<vars, frozen, stateFiles, bounds, history>>

FinishCompileDagDerived ==
    /\ phase = "deriving"
    /\ derived' = File(Frozen, TRUE)
    /\ Goto("loadDerived")
    /\ UNCHANGED <<vars, frozen, stateFiles, bounds, history>>

LoadDagDerived ==
    /\ phase = "loadDerived"
    /\ LoadFrozenData(derived, "state")
    /\ UNCHANGED <<vars, stateFiles, bounds, history>>

---------------------------------------------------------------------------
(* DriverInitData and RemoveStaleOutputs *)

\* Mutant: a state file that was renamed for mapping is not looked for.
Remembered_NotMapped == stateFile

Remembered == IF stateFile # NoFile THEN stateFile ELSE mapped

LoadState ==
    /\ phase = "state"
    /\ mapped' = Remembered
    /\ stateFile' = NoFile
    /\ previous' = Recorded(Remembered)
    /\ dag' = Frozen.dag
    /\ Goto("stale")
    /\ UNCHANGED <<disk, nodes, i, j, written, pc, graphFiles, bounds, history>>

\* A run that only reports, as with --show-targets, ends here.
OnlyReports ==
    /\ phase = "state"
    /\ Exit
    /\ UNCHANGED <<vars, graphFiles, stateFiles, bounds, history>>

\* Mutant: only the outputs that the guid stands for are looked at.
StaleOutputs_NotDiscovered ==
    (UNION {OutputsOf[previous[k].guid] :
                k \in {l \in DOMAIN previous : NodeWasUsedByThisDagPreviously(previous[l], dag)}})
    \ (CurrentOutputs \cup Sheltered)

StaleOutputs ==
    (UNION {previous[k].outputs :
                k \in {l \in DOMAIN previous : NodeWasUsedByThisDagPreviously(previous[l], dag)}})
    \ (CurrentOutputs \cup Sheltered)

RemoveStaleOutputs ==
    /\ phase = "stale"
    /\ disk' = disk \ StaleOutputs
    /\ wroteFor' = [f \in Files |-> IF f \in StaleOutputs THEN {} ELSE wroteFor[f]]
    /\ Goto("build")
    /\ UNCHANGED <<dag, walk, graphFiles, stateFiles, bounds, cutShort>>

---------------------------------------------------------------------------
(* The build: every node gets a result it can get, and what ran leaves     *)
(* files.  DriverPrepareNodes finds the previous record of each node.      *)

Own(g) == {k \in DOMAIN previous : previous[k].guid = g}

CanBeUpToDate(g) ==
    \E k \in Own(g) : previous[k].result = "guaranteed" /\ previous[k].outputs \subseteq disk

\* What the runs of a build leave: a successful one its outputs and anything in
\* its directories, a failed one any part of them.
Left(result) ==
    {d \in SUBSET Files :
        /\ \A g \in DOMAIN result : result[g] = "kRanSuccesfully" => OutputsOf[g] \subseteq d
        /\ \A f \in Files :
               (f \in d) # (f \in disk) =>
                   \E g \in DOMAIN result :
                       result[g] \in {"kRanSuccesfully", "kRanFailed"}
                       /\ f \in OutputsOf[g] \cup InDirsOf[g]}

\* A node that is looked at for its leaf inputs has a signature of them.
RuntimeNode(g, result, left, leaf) ==
    [guid |-> g, result |-> result, doubtful |-> FALSE, leaf |-> leaf,
     discovered |-> IF result \in {"kRanSuccesfully", "kRanFailed"}
                    THEN InDirsOf[g] \cap left ELSE {},
     seenBy |-> UNION {previous[k].dags : k \in Own(g)}]

DriverBuild ==
    /\ phase = "build"
    /\ \E result \in [Frozen.guids -> NodeBuildResult] :
           /\ \A g \in DOMAIN result : result[g] = "kUpToDate" => CanBeUpToDate(g)
           /\ \E left \in Left(result), guids \in InOrder(Frozen.guids) :
                  /\ disk' = left
                  /\ nodes' = [k \in DOMAIN guids |->
                         RuntimeNode(guids[k], result[guids[k]], left, Frozen.leaf)]
    /\ i' = 1 /\ j' = 1
    /\ written' = <<>>
    /\ pc' = "merge"
    /\ Goto("save")
    /\ UNCHANGED <<dag, previous, graphFiles, stateFiles, bounds, history>>

---------------------------------------------------------------------------
(* Saving: the walk of BuildState, then tmp file and rename; the scan and  *)
(* digest caches go the same way, after it, and any failure ends in kCroak: *)
(* that changes the exit code alone, which is not modelled.                *)

WalkRecords ==
    /\ phase = "save"
    /\ Walk
    /\ UNCHANGED driverVars

\* The files a node that ran may have written, so far as the record of it says.
WrittenBy(n) ==
    IF n.result \in {"kRanSuccesfully", "kRanFailed"}
    THEN OutputsOf[n.guid] \cup n.discovered ELSE {}

CommitState ==
    /\ phase = "save"
    /\ pc = "done"
    /\ stateFile' = <<written>>
    /\ wroteFor' = [f \in Files |->
           IF f \notin disk THEN {}
           ELSE IF \E k \in DOMAIN nodes : f \in WrittenBy(nodes[k])
           THEN wroteFor[f] \cup {dag} ELSE wroteFor[f]]
    /\ Exit /\ Forget
    /\ UNCHANGED <<disk, graphFiles, mapped, bounds, cutShort>>

SavingStateFails ==
    /\ phase = "save"
    /\ pc = "done"
    /\ Exit
    /\ Forget
    /\ UNCHANGED <<disk, graphFiles, stateFiles, bounds, history>>

Kill ==
    /\ phase # "exited"
    /\ accidents < MaxAccidents
    /\ accidents' = accidents + 1
    /\ cutShort' = (cutShort \/ (json # NoGraph /\ phase \in {"freezing", "load", "cycles", "derive"})
                             \/ phase = "deriving")
    /\ Exit /\ Forget
    /\ UNCHANGED <<disk, graphFiles, stateFiles, runs, wroteFor>>

\* Between runs the user may delete any file.
UserDeletes(f) ==
    /\ phase = "exited"
    /\ accidents < MaxAccidents
    /\ f \in disk
    /\ accidents' = accidents + 1
    /\ disk' = disk \ {f}
    /\ wroteFor' = [wroteFor EXCEPT ![f] = {}]
    /\ UNCHANGED <<dag, walk, phase, options, graphFiles, stateFiles, runs, cutShort>>

---------------------------------------------------------------------------
Init ==
    /\ dag = NoGraph.dag /\ disk = {}
    /\ nodes = <<>> /\ previous = <<>> /\ written = <<>>
    /\ i = 1 /\ j = 1 /\ pc = "idle"
    /\ phase = "exited"
    /\ json = NoGraph /\ hadDerived = FALSE
    /\ frozen = NoFile /\ derived = NoFile
    /\ stateFile = NoFile /\ mapped = NoFile
    /\ runs = 0 /\ accidents = 0
    /\ cutShort = FALSE
    /\ wroteFor = [f \in Files |-> {}]

main ==
    \/ FreezeFails \/ BeginFreezeDag \/ FinishFreezeDag \/ FlushFails \/ LoadDag
    \/ DetectCyclicDependencies \/ BeginCompileDagDerived \/ FinishCompileDagDerived
    \/ LoadDagDerived \/ LoadState \/ OnlyReports \/ RemoveStaleOutputs \/ DriverBuild
    \/ WalkRecords \/ CommitState \/ SavingStateFails

Next == \/ main \/ Kill
        \/ \E g \in Graphs \cup {NoGraph} : StartRun(g)
        \/ \E f \in Files : UserDeletes(f)

Spec == Init /\ [][Next]_allVars
---------------------------------------------------------------------------
(* Properties *)

\* Whatever is skipped on either side of the walk, the state file it writes is
\* sorted by guid without duplicates, and so is the one it was mapped from, also
\* after runs that were killed or could not save: otherwise the bisection of the
\* next run misses records that are there and builds their nodes for nothing.
StateIsSorted ==
    /\ SortedByGuid(Recorded(stateFile))
    /\ SortedByGuid(Recorded(mapped))
    /\ SortedByGuid(written)

\* A graph is built with the data derived from it, whole, and without a cycle:
\* unless a run was killed, or could not write, between beginning to write the
\* one and having written the other, which no later run notices
\* (LoadOrBuildDag.cpp:58, 71).
BuiltGraphIsChecked ==
    phase \in {"state", "stale", "build", "save"} /\ ~cutShort =>
        /\ derived = frozen
        /\ frozen[1].whole
        /\ ~Frozen.cyclic

\* No file is forgotten: one that some build wrote and recorded stays in the
\* records that the next run will load as long as it exists, whatever other
\* graphs are built in between, and over runs that are killed or cannot save.
WrittenFilesAreRemembered ==
    phase = "exited" => \A f \in disk :
        wroteFor[f] # {} =>
            \E k \in DOMAIN Recorded(Remembered) : f \in Recorded(Remembered)[k].outputs

\* When a build begins, no file is left that an earlier build of a graph with
\* this identifier wrote and that is no output of it any more.
StaleOutputsAreGone ==
    phase = "build" => \A f \in disk :
        dag \in wroteFor[f] => f \in CurrentOutputs \cup Sheltered

===========================================================================
