--------------------------- MODULE BuildRecords ---------------------------
(***************************************************************************)
(* The records of the state file: one for every node some build has run,   *)
(* by the guid of the node.  The guid is the hash of the paths of the      *)
(* node's outputs (DagGenerator.cpp:652), so a guid stands for its output   *)
(* files; outputs found in the output directories after a run come on top. *)
(***************************************************************************)
EXTENDS Naturals, Sequences

CONSTANTS
    Guids,     \* the guids, numbers in the order of CompareHashDigests
    Files,
    OutputsOf, \* OutputsOf[g]: the output files of the node with guid g
    InDirsOf,  \* InDirsOf[g]: the files in the output directories of g
    StartsAs,  \* StartsAs[g]: the files whose path begins as one of those does
    Dags       \* the identifiers of the graphs that share the state file

ASSUME GuidAssumption == Guids \subseteq Nat
ASSUME OutputAssumption ==
    /\ OutputsOf \in [Guids -> SUBSET Files]
    /\ InDirsOf \in [Guids -> SUBSET Files]
    /\ StartsAs \in [Guids -> SUBSET Files]
    /\ \A g \in Guids : InDirsOf[g] \subseteq StartsAs[g]

NodeBuildResult == {"kDidNotRun", "kUpToDate", "kRanSuccesfully", "kRanFailed"}
Records == [guid : Guids, result : {"failed", "doubtful", "guaranteed"}, leaf : Nat,
            outputs : SUBSET Files, dags : SUBSET Dags]
RuntimeNodes == [guid : Guids, result : NodeBuildResult, doubtful : BOOLEAN, leaf : Nat,
                 discovered : SUBSET Files, seenBy : SUBSET Dags]

---------------------------------------------------------------------------
(* A runtime node carries its result, the leaf input signature that was    *)
(* computed (0 if none was), the output files discovered after running,    *)
(* and the graphs its previous record names.                               *)

BuiltNodeResultFor(n) ==
    IF n.result \in {"kDidNotRun", "kRanFailed"} THEN "failed"
    ELSE IF n.doubtful THEN "doubtful" ELSE "guaranteed"

\* What records from a run and from an earlier record share: all outputs are
\* listed in one array, those found in the output directories last.  The graphs
\* are for the caller to add.
save_node_sharedcode(result, leaf, guid, outputs, additional) ==
    [guid |-> guid, result |-> result, leaf |-> leaf,
     outputs |-> outputs \cup additional, dags |-> {}]

EmitBuiltNodeFromRuntimeNode(n, dag) ==
    [save_node_sharedcode(BuiltNodeResultFor(n), n.leaf, n.guid, OutputsOf[n.guid], n.discovered)
        EXCEPT !.dags = n.seenBy \cup {dag}]

\* No leaf input signature given (0): the one of the record stays.
EmitBuiltNodeFromPreviouslyBuiltNode(b, leaf) ==
    [save_node_sharedcode(b.result, IF leaf = 0 THEN b.leaf ELSE leaf, b.guid, b.outputs, {})
        EXCEPT !.dags = b.dags]

\* For a node that was up to date only the leaf input signature is new.  That
\* of a node without one is read through a null pointer, which compares equal
\* to "none given".
EmitBuiltNodeFromBothRuntimeNodeAndPreviouslyBuiltNode(n, b, dag) ==
    IF n.result # "kUpToDate" THEN EmitBuiltNodeFromRuntimeNode(n, dag)
    ELSE EmitBuiltNodeFromPreviouslyBuiltNode(b, n.leaf)

IsRuntimeNodeValidForWritingToBuiltNodes(n) == n.result # "kDidNotRun"

NodeWasUsedByThisDagPreviously(b, dag) == dag \in b.dags

IsPreviouslyBuiltNodeValidForWritingToBuiltNodes(b, graph, dag, disk) ==
    \/ b.guid \in graph
    \/ ~NodeWasUsedByThisDagPreviously(b, dag)
    \/ \E f \in b.outputs : f \in disk

===========================================================================
