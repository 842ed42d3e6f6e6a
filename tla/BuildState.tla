---------------------------- MODULE BuildState ----------------------------
(***************************************************************************)
(* SaveAllBuiltNodes: the nodes of this build and the records of earlier   *)
(* ones, both sorted by guid, are walked together and written to one file  *)
(* sorted by guid again, which the next build searches by bisection.       *)
(* Driver says what there is to walk.                                      *)
(***************************************************************************)
EXTENDS BuildRecords

VARIABLES
    dag,       \* m_HashedIdentifier of the graph that was built
    disk,      \* the files that exist
    nodes,     \* the runtime nodes, sorted
    previous,  \* the records of the state file, sorted
    i, j,      \* the two iterators
    written,   \* the records written so far
    pc         \* "merge", "done", or "idle" when nothing is saved

inputVars == <<dag, disk, nodes, previous>>
vars == <<inputVars, i, j, written, pc>>

Graph == {nodes[k].guid : k \in DOMAIN nodes}
PreviousIsValid(b) ==
    IsPreviouslyBuiltNodeValidForWritingToBuiltNodes(b, Graph, dag, disk)

SortedByGuid(s) == \A a, b \in DOMAIN s : a < b => s[a].guid < s[b].guid

---------------------------------------------------------------------------
BothLeft == pc = "merge" /\ i <= Len(nodes) /\ j <= Len(previous)

SkipNodeThatDidNotRun ==
    /\ BothLeft
    /\ ~IsRuntimeNodeValidForWritingToBuiltNodes(nodes[i])
    /\ i' = i + 1
    /\ UNCHANGED <<inputVars, j, written, pc>>

\* Mutant: the node beside the record is skipped with it.
SkipForgottenRecord_AndNode ==
    /\ BothLeft
    /\ IsRuntimeNodeValidForWritingToBuiltNodes(nodes[i])
    /\ ~PreviousIsValid(previous[j])
    /\ i' = i + 1 /\ j' = j + 1
    /\ UNCHANGED <<inputVars, written, pc>>

SkipForgottenRecord ==
    /\ BothLeft
    /\ IsRuntimeNodeValidForWritingToBuiltNodes(nodes[i])
    /\ ~PreviousIsValid(previous[j])
    /\ j' = j + 1
    /\ UNCHANGED <<inputVars, i, written, pc>>

BothValid ==
    /\ BothLeft
    /\ IsRuntimeNodeValidForWritingToBuiltNodes(nodes[i])
    /\ PreviousIsValid(previous[j])

WritePrevious ==
    /\ BothValid
    /\ nodes[i].guid > previous[j].guid
    /\ written' = Append(written, EmitBuiltNodeFromPreviouslyBuiltNode(previous[j], 0))
    /\ j' = j + 1
    /\ UNCHANGED <<inputVars, i, pc>>

WriteNode ==
    /\ BothValid
    /\ nodes[i].guid < previous[j].guid
    /\ written' = Append(written, EmitBuiltNodeFromRuntimeNode(nodes[i], dag))
    /\ i' = i + 1
    /\ UNCHANGED <<inputVars, j, pc>>

\* Mutant: the previous record stays to be written again.
WriteBoth_KeepsPrevious ==
    /\ BothValid
    /\ nodes[i].guid = previous[j].guid
    /\ written' = Append(written,
           EmitBuiltNodeFromBothRuntimeNodeAndPreviouslyBuiltNode(nodes[i], previous[j], dag))
    /\ i' = i + 1
    /\ UNCHANGED <<inputVars, j, pc>>

WriteBoth ==
    /\ BothValid
    /\ nodes[i].guid = previous[j].guid
    /\ written' = Append(written,
           EmitBuiltNodeFromBothRuntimeNodeAndPreviouslyBuiltNode(nodes[i], previous[j], dag))
    /\ i' = i + 1
    /\ j' = j + 1
    /\ UNCHANGED <<inputVars, pc>>

DrainNodes ==
    /\ pc = "merge"
    /\ i <= Len(nodes)
    /\ j > Len(previous)
    /\ written' = IF IsRuntimeNodeValidForWritingToBuiltNodes(nodes[i])
                  THEN Append(written, EmitBuiltNodeFromRuntimeNode(nodes[i], dag))
                  ELSE written
    /\ i' = i + 1
    /\ UNCHANGED <<inputVars, j, pc>>

DrainPrevious ==
    /\ pc = "merge"
    /\ i > Len(nodes)
    /\ j <= Len(previous)
    /\ written' = IF PreviousIsValid(previous[j])
                  THEN Append(written, EmitBuiltNodeFromPreviouslyBuiltNode(previous[j], 0))
                  ELSE written
    /\ j' = j + 1
    /\ UNCHANGED <<inputVars, i, pc>>

CompleteState ==
    /\ pc = "merge"
    /\ i > Len(nodes)
    /\ j > Len(previous)
    /\ pc' = "done"
    /\ UNCHANGED <<inputVars, i, j, written>>

Walk == \/ SkipNodeThatDidNotRun \/ SkipForgottenRecord
        \/ WritePrevious \/ WriteNode \/ WriteBoth
        \/ DrainNodes \/ DrainPrevious \/ CompleteState
---------------------------------------------------------------------------
\* What should be in the file, without regard to the order of the walk: of a
\* node that ran, what the build knows; of one that was up to date, the record
\* with the new leaf input signature; of any other, the record as long as it
\* is of use.
MergedRecords ==
    LET ran == {n \in {nodes[k] : k \in DOMAIN nodes} : n.result # "kDidNotRun"}
        old == {previous[k] : k \in DOMAIN previous}
    IN  {EmitBuiltNodeFromRuntimeNode(n, dag) : n \in {m \in ran : m.result # "kUpToDate"}}
        \cup {[x[1] EXCEPT !.leaf = x[2].leaf] :
                  x \in {y \in old \X ran : /\ y[1].guid = y[2].guid
                                            /\ y[2].result = "kUpToDate" /\ y[2].leaf # 0}}
        \cup {b \in old : /\ PreviousIsValid(b)
                          /\ \A n \in ran : n.guid = b.guid =>
                                 n.result = "kUpToDate" /\ n.leaf = 0}

\* The walk, with its skipping and draining, writes these records and no other.
WritesMergedRecords ==
    pc = "done" => {written[k] : k \in DOMAIN written} = MergedRecords

===========================================================================
