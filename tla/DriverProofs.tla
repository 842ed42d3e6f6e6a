---------------------------- MODULE DriverProofs ----------------------------
(***************************************************************************)
(* Proofs about Driver and the walk of BuildState, for any graphs and any  *)
(* number of runs, accidents and frontends: the state file is sorted and   *)
(* holds what it should, the graph that is built was checked, no written   *)
(* file is forgotten and no stale one is left.                             *)
(***************************************************************************)
EXTENDS Driver, SequenceTheorems, FiniteSetTheorems, TLAPS

---------------------------------------------------------------------------
(* The inductive invariant *)

Phases == {"exited", "freeze", "freezing", "load", "cycles", "derive", "deriving",
           "loadDerived", "state", "stale", "build", "save"}
Loaded == {"cycles", "derive", "deriving", "loadDerived", "state", "stale", "build", "save"}

WholeOrNot(g) == {File(g, w) : w \in BOOLEAN}
GraphFiles == UNION {WholeOrNot(g) : g \in Graphs}
IsStateFile(file) == file \in Seq(Seq(Records)) /\ Len(file) <= 1

\* A record names no files but the outputs of its guid and what is found in the
\* directories of it.
PlainRecords(s) == \A k \in DOMAIN s : s[k].outputs \subseteq OutputsOf[s[k].guid] \cup InDirsOf[s[k].guid]

TypeOK ==
    /\ dag \in Dags \cup {NoGraph.dag}
    /\ disk \subseteq Files
    /\ nodes \in Seq(RuntimeNodes)
    /\ previous \in Seq(Records)
    /\ written \in Seq(Records)
    /\ i \in 1 .. Len(nodes) + 1
    /\ j \in 1 .. Len(previous) + 1
    /\ pc \in {"idle", "merge", "done"}
    /\ phase \in Phases
    /\ json \in Graphs \cup {NoGraph}
    /\ hadDerived \in BOOLEAN
    /\ frozen \in GraphFiles \cup {NoFile, Torn}
    /\ derived \in GraphFiles \cup {NoFile, Torn}
    /\ IsStateFile(stateFile)
    /\ IsStateFile(mapped)
    /\ cutShort \in BOOLEAN
    /\ wroteFor \in [Files -> SUBSET Dags]

\* What a process has in memory in which phase.
MemoryInv ==
    /\ phase \in {"freeze", "freezing", "cycles"} => json \in Graphs /\ json # NoGraph
    /\ phase \in Loaded => frozen \in GraphFiles
    /\ phase \notin {"stale", "build", "save"} => previous = <<>> /\ dag = NoGraph.dag
    /\ phase \in {"stale", "build", "save"} =>
           /\ previous = Recorded(Remembered)
           /\ dag = Frozen.dag
           /\ stateFile = NoFile
    /\ phase # "save" => nodes = <<>> /\ written = <<>> /\ i = 1 /\ j = 1 /\ pc = "idle"
    /\ phase = "save" => pc # "idle"

\* Where the graph stands in a run that follows no accident.
Checked == /\ frozen \in GraphFiles /\ frozen[1].whole /\ ~Frozen.cyclic
Settled == \/ frozen = NoFile /\ derived = NoFile
           \/ Checked /\ derived = frozen
GraphInv ==
    ~cutShort =>
        /\ phase \in {"exited", "freeze"} => Settled
        /\ phase = "load" => IF json = NoGraph
                             THEN Settled /\ (hadDerived <=> derived # NoFile)
                             ELSE frozen = File(json, TRUE)
        /\ phase = "cycles" => frozen = File(json, TRUE)
        /\ phase \in {"derive", "deriving"} => Checked /\ json # NoGraph
        /\ phase \in {"loadDerived", "state", "stale", "build", "save"} =>
               Checked /\ derived = frozen

\* The nodes of a build, once it is over, and the records they go with.
Ran(n) == n.result \in {"kRanSuccesfully", "kRanFailed"}
NodesInv ==
    /\ SortedByGuid(nodes)
    /\ \A a \in DOMAIN nodes :
           /\ nodes[a].result = "kUpToDate" => Own(nodes[a].guid) # {}
           /\ Ran(nodes[a]) => nodes[a].discovered = InDirsOf[nodes[a].guid] \cap disk
           /\ nodes[a].discovered \subseteq InDirsOf[nodes[a].guid]
           /\ nodes[a].seenBy = UNION {previous[k].dags : k \in Own(nodes[a].guid)}

\* How far the walk has come, at node x and record y: what is behind one of the
\* iterators and of use comes before all that is in front of the other.
Between(x, y) ==
    \A a \in DOMAIN nodes, b \in DOMAIN previous :
        /\ a < x /\ b >= y /\ nodes[a].result # "kDidNotRun" => nodes[a].guid < previous[b].guid
        /\ a >= x /\ b < y /\ PreviousIsValid(previous[b]) => previous[b].guid < nodes[a].guid
IteratorsInv ==
    /\ Between(i, j)
    /\ pc = "done" => i = Len(nodes) + 1 /\ j = Len(previous) + 1

\* The records written come from a node or a record behind its iterator: from a
\* node that ran, from the record of one that was up to date, or from the record
\* of one that is not looked at.
Comes(r, a) == /\ nodes[a].result \notin {"kDidNotRun", "kUpToDate"}
               /\ r = EmitBuiltNodeFromRuntimeNode(nodes[a], dag)
Renewed(r, a, b) ==
    /\ nodes[a].result = "kUpToDate" /\ nodes[a].guid = previous[b].guid
    /\ r = EmitBuiltNodeFromPreviouslyBuiltNode(previous[b], nodes[a].leaf)
Kept(r, b) ==
    /\ PreviousIsValid(previous[b]) /\ r = previous[b]
    /\ \A a \in DOMAIN nodes : nodes[a].result # "kDidNotRun" => nodes[a].guid # previous[b].guid

Passed(r, x, y) ==
    \/ \E a \in DOMAIN nodes : a < x /\ Comes(r, a)
    \/ \E a \in DOMAIN nodes, b \in DOMAIN previous : a < x /\ b < y /\ Renewed(r, a, b)
    \/ \E b \in DOMAIN previous : b < y /\ Kept(r, b)

WrittenUpTo(w, x, y) ==
    /\ SortedByGuid(w)
    /\ \A k \in DOMAIN w : Passed(w[k], x, y)
    /\ \A r \in Records : Passed(r, x, y) => \E k \in DOMAIN w : w[k] = r
WrittenInv == WrittenUpTo(written, i, j)

SavedInv == \A file \in {stateFile, mapped} :
    SortedByGuid(Recorded(file)) /\ PlainRecords(Recorded(file))

\* Whatever a build wrote and recorded is in a record that names the graph.
HistoryInv ==
    \A f \in Files : \A d \in wroteFor[f] :
        \E k \in DOMAIN Recorded(Remembered) :
            f \in Recorded(Remembered)[k].outputs /\ d \in Recorded(Remembered)[k].dags

WalkInv == NodesInv /\ IteratorsInv /\ WrittenInv
Inv == TypeOK /\ MemoryInv /\ GraphInv /\ SavedInv /\ WalkInv /\ HistoryInv /\ StaleOutputsAreGone
---------------------------------------------------------------------------
(* Records and lists of them *)

\* What is written of a node that ran.
LEMMA EmitsOfNode ==
    ASSUME NEW n \in RuntimeNodes, NEW d \in Dags
    PROVE  LET r == EmitBuiltNodeFromRuntimeNode(n, d)
           IN  /\ r \in Records
               /\ r.guid = n.guid
               /\ r.outputs = OutputsOf[n.guid] \cup n.discovered
               /\ r.dags = n.seenBy \cup {d}
<1>1. EmitBuiltNodeFromRuntimeNode(n, d) =
        [guid |-> n.guid, result |-> BuiltNodeResultFor(n), leaf |-> n.leaf,
         outputs |-> OutputsOf[n.guid] \cup n.discovered, dags |-> n.seenBy \cup {d}]
  BY DEF EmitBuiltNodeFromRuntimeNode, save_node_sharedcode
<1>2. BuiltNodeResultFor(n) \in {"failed", "doubtful", "guaranteed"}
  BY DEF BuiltNodeResultFor
<1>3. OutputsOf[n.guid] \subseteq Files
  BY OutputAssumption DEF OutputAssumption, RuntimeNodes
<1> QED
  BY <1>1, <1>2, <1>3 DEF Records, RuntimeNodes

\* What is written of an earlier record: the record, but for the leaf signature.
LEMMA EmitsOfRecord ==
    ASSUME NEW b \in Records, NEW leaf \in Nat
    PROVE  LET r == EmitBuiltNodeFromPreviouslyBuiltNode(b, leaf)
           IN  /\ r = [b EXCEPT !.leaf = IF leaf = 0 THEN @ ELSE leaf]
               /\ leaf = 0 => r = b
               /\ r \in Records
               /\ r.guid = b.guid /\ r.outputs = b.outputs /\ r.dags = b.dags
<1>1. EmitBuiltNodeFromPreviouslyBuiltNode(b, leaf) =
        [guid |-> b.guid, result |-> b.result, leaf |-> IF leaf = 0 THEN b.leaf ELSE leaf,
         outputs |-> b.outputs, dags |-> b.dags]
  <2>1. b.outputs \cup {} = b.outputs
    OBVIOUS
  <2> QED
    BY <2>1 DEF EmitBuiltNodeFromPreviouslyBuiltNode, save_node_sharedcode
<1>2. b = [guid |-> b.guid, result |-> b.result, leaf |-> b.leaf,
           outputs |-> b.outputs, dags |-> b.dags]
  BY DEF Records
<1>3. [b EXCEPT !.leaf = IF leaf = 0 THEN @ ELSE leaf] =
        [guid |-> b.guid, result |-> b.result, leaf |-> IF leaf = 0 THEN b.leaf ELSE leaf,
         outputs |-> b.outputs, dags |-> b.dags]
  BY DEF Records
<1> QED
  BY <1>1, <1>2, <1>3 DEF Records

\* A list in order has one place for a guid.
LEMMA PlacesByGuid ==
    ASSUME NEW s \in Seq(Records) \cup Seq(RuntimeNodes), SortedByGuid(s),
           NEW a \in DOMAIN s, NEW b \in DOMAIN s
    PROVE  /\ s[a].guid \in Nat
           /\ s[a].guid < s[b].guid <=> a < b
           /\ s[a].guid = s[b].guid <=> a = b
<1>1. DOMAIN s = 1 .. Len(s) /\ Len(s) \in Nat
  BY LenProperties
<1>2. \A c \in DOMAIN s : s[c].guid \in Nat
  <2>1. \A c \in DOMAIN s : s[c] \in Records \cup RuntimeNodes
    <3>1. CASE s \in Seq(Records)
      BY <1>1, <3>1, ElementOfSeq
    <3>2. CASE s \in Seq(RuntimeNodes)
      BY <1>1, <3>2, ElementOfSeq
    <3> QED
      BY <3>1, <3>2
  <2>2. \A r \in Records \cup RuntimeNodes : r.guid \in Nat
    BY GuidAssumption DEF GuidAssumption, Records, RuntimeNodes
  <2> QED
    BY <2>1, <2>2
<1>3. a \in Nat /\ b \in Nat
  BY <1>1
<1>4. (a < b => s[a].guid < s[b].guid) /\ (b < a => s[b].guid < s[a].guid)
  BY DEF SortedByGuid
<1> QED
  BY <1>2, <1>3, <1>4

LEMMA AppendKeepsOrder ==
    ASSUME NEW s \in Seq(Records), SortedByGuid(s), NEW r \in Records,
           \A k \in DOMAIN s : s[k].guid < r.guid
    PROVE  SortedByGuid(Append(s, r))
<1> DEFINE t == Append(s, r)
<1>1. /\ DOMAIN s = 1 .. Len(s) /\ Len(s) \in Nat
      /\ t \in Seq(Records) /\ Len(t) = Len(s) + 1
      /\ DOMAIN t = 1 .. Len(s) + 1
      /\ \A k \in 1 .. Len(s) : t[k] = s[k]
      /\ t[Len(s) + 1] = r
  BY LenProperties, AppendProperties
<1> HIDE DEF t
<1> SUFFICES ASSUME NEW a \in DOMAIN t, NEW b \in DOMAIN t, a < b
             PROVE  t[a].guid < t[b].guid
  BY DEF SortedByGuid, t
<1>2. a \in 1 .. Len(s) /\ t[a] = s[a]
  BY <1>1
<1>3. CASE b = Len(s) + 1
  BY <1>1, <1>2, <1>3
<1>4. CASE b # Len(s) + 1
  BY <1>1, <1>2, <1>4 DEF SortedByGuid
<1> QED
  BY <1>3, <1>4
---------------------------------------------------------------------------
(* The walk *)

LEMMA Lists ==
    ASSUME TypeOK
    PROVE  /\ Len(nodes) \in Nat /\ DOMAIN nodes = 1 .. Len(nodes)
           /\ Len(previous) \in Nat /\ DOMAIN previous = 1 .. Len(previous)
           /\ Len(written) \in Nat /\ DOMAIN written = 1 .. Len(written)
           /\ \A a \in DOMAIN nodes : nodes[a] \in RuntimeNodes
           /\ \A b \in DOMAIN previous : previous[b] \in Records
           /\ \A k \in DOMAIN written : written[k] \in Records
           /\ i \in Nat /\ j \in Nat
<1>1. nodes \in Seq(RuntimeNodes) /\ previous \in Seq(Records) /\ written \in Seq(Records)
  BY DEF TypeOK
<1>2. /\ Len(nodes) \in Nat /\ DOMAIN nodes = 1 .. Len(nodes)
      /\ Len(previous) \in Nat /\ DOMAIN previous = 1 .. Len(previous)
      /\ Len(written) \in Nat /\ DOMAIN written = 1 .. Len(written)
  BY <1>1, LenProperties
<1>3. /\ \A a \in DOMAIN nodes : nodes[a] \in RuntimeNodes
      /\ \A b \in DOMAIN previous : previous[b] \in Records
      /\ \A k \in DOMAIN written : written[k] \in Records
  BY <1>1, <1>2, ElementOfSeq
<1> QED
  BY <1>2, <1>3 DEF TypeOK

WalkContext == /\ TypeOK /\ dag \in Dags
               /\ NodesInv /\ SortedByGuid(previous)
               /\ Between(i, j) /\ WrittenUpTo(written, i, j)

\* A record of a node of the build is always of use.
LEMMA RecordsOfNodesStay ==
    ASSUME NEW a \in DOMAIN nodes, NEW b \in DOMAIN previous,
           nodes[a].guid = previous[b].guid
    PROVE  PreviousIsValid(previous[b])
BY DEF PreviousIsValid, IsPreviouslyBuiltNodeValidForWritingToBuiltNodes, Graph

\* What was passed comes before all that is still to come.
LEMMA PassedIsBehind ==
    ASSUME WalkContext, NEW r \in Records, Passed(r, i, j)
    PROVE  /\ \A a \in DOMAIN nodes : a >= i => r.guid < nodes[a].guid
           /\ \A b \in DOMAIN previous : b >= j => r.guid < previous[b].guid
<1> USE DEF WalkContext
<1>1. CASE \E a \in DOMAIN nodes : a < i /\ Comes(r, a)
  <2>1. PICK a \in DOMAIN nodes : a < i /\ Comes(r, a)
    BY <1>1
  <2>2. r.guid = nodes[a].guid /\ nodes[a].result # "kDidNotRun"
    BY <2>1, Lists, EmitsOfNode DEF Comes
  <2>3. \A c \in DOMAIN nodes : c >= i => nodes[a].guid < nodes[c].guid
    BY <2>1, Lists DEF NodesInv, SortedByGuid
  <2> QED
    BY <2>1, <2>2, <2>3 DEF Between
<1>2. CASE \E a \in DOMAIN nodes, b \in DOMAIN previous : a < i /\ b < j /\ Renewed(r, a, b)
  <2>1. PICK a \in DOMAIN nodes, b \in DOMAIN previous : a < i /\ b < j /\ Renewed(r, a, b)
    BY <1>2
  <2>2. nodes[a].leaf \in Nat
    BY Lists DEF RuntimeNodes
  <2>3. r.guid = nodes[a].guid /\ nodes[a].result # "kDidNotRun"
    BY <2>1, <2>2, Lists, EmitsOfRecord DEF Renewed
  <2>4. \A c \in DOMAIN nodes : c >= i => nodes[a].guid < nodes[c].guid
    BY <2>1, Lists DEF NodesInv, SortedByGuid
  <2> QED
    BY <2>1, <2>3, <2>4 DEF Between
<1>3. CASE \E b \in DOMAIN previous : b < j /\ Kept(r, b)
  <2>1. PICK b \in DOMAIN previous : b < j /\ Kept(r, b)
    BY <1>3
  <2>2. r = previous[b] /\ PreviousIsValid(previous[b])
    BY <2>1 DEF Kept
  <2>3. \A c \in DOMAIN previous : c >= j => previous[b].guid < previous[c].guid
    BY <2>1, Lists DEF SortedByGuid
  <2> QED
    BY <2>1, <2>2, <2>3 DEF Between
<1> QED
  BY <1>1, <1>2, <1>3 DEF Passed

\* Writing the one record that is passed now.
LEMMA WritesOne ==
    ASSUME WalkContext, NEW r \in Records, NEW x, NEW y,
           \A k \in DOMAIN written : written[k].guid < r.guid,
           Passed(r, x, y),
           \A q \in Records : Passed(q, i, j) => Passed(q, x, y),
           \A q \in Records : Passed(q, x, y) => Passed(q, i, j) \/ q = r
    PROVE  Append(written, r) \in Seq(Records) /\ WrittenUpTo(Append(written, r), x, y)
<1> DEFINE t == Append(written, r)
<1>1. /\ DOMAIN written = 1 .. Len(written) /\ Len(written) \in Nat
      /\ t \in Seq(Records)
      /\ DOMAIN t = 1 .. Len(written) + 1
      /\ \A k \in 1 .. Len(written) : t[k] = written[k]
      /\ t[Len(written) + 1] = r
  <2>1. written \in Seq(Records)
    BY DEF WalkContext, TypeOK
  <2> QED
    BY <2>1, LenProperties, AppendProperties
<1>2. SortedByGuid(t)
  BY AppendKeepsOrder DEF WalkContext, TypeOK, WrittenUpTo
<1> HIDE DEF t
<1>3. \A k \in DOMAIN t : Passed(t[k], x, y)
  BY <1>1, Lists DEF WalkContext, WrittenUpTo
<1>4. \A q \in Records : Passed(q, x, y) => \E k \in DOMAIN t : t[k] = q
  <2> SUFFICES ASSUME NEW q \in Records, Passed(q, x, y)
               PROVE  \E k \in DOMAIN t : t[k] = q
    OBVIOUS
  <2>1. CASE q = r
    BY <1>1, <2>1
  <2>2. CASE Passed(q, i, j)
    <3>1. PICK k \in DOMAIN written : written[k] = q
      BY <2>2 DEF WalkContext, WrittenUpTo
    <3> QED
      BY <1>1, <3>1
  <2> QED
    BY <2>1, <2>2
<1> QED
  BY <1>1, <1>2, <1>3, <1>4 DEF WrittenUpTo, t

\* Writing none, when nothing new is passed.
LEMMA WritesNone ==
    ASSUME WalkContext, NEW x, NEW y,
           \A q \in Records : Passed(q, x, y) <=> Passed(q, i, j)
    PROVE  WrittenUpTo(written, x, y)
BY Lists DEF WalkContext, WrittenUpTo

\* The iterators only move on, so what was passed stays passed.
LEMMA PassedStays ==
    ASSUME NEW r, NEW x \in Nat, NEW y \in Nat, NEW x2 \in Nat, NEW y2 \in Nat,
           x <= x2, y <= y2, TypeOK, Passed(r, x, y)
    PROVE  Passed(r, x2, y2)
<1>1. \A a \in DOMAIN nodes : a < x => a < x2
  BY Lists
<1>2. \A b \in DOMAIN previous : b < y => b < y2
  BY Lists
<1> QED
  BY <1>1, <1>2 DEF Passed
---------------------------------------------------------------------------
(* What each step of the walk leaves *)

Advances(w, x, y) ==
    /\ w \in Seq(Records) /\ x \in 1 .. Len(nodes) + 1 /\ y \in 1 .. Len(previous) + 1
    /\ Between(x, y) /\ WrittenUpTo(w, x, y)

LEMMA SkippingNode ==
    ASSUME WalkContext, i \in DOMAIN nodes, nodes[i].result = "kDidNotRun"
    PROVE  Advances(written, i + 1, j)
<1>1. \A q \in Records : Passed(q, i + 1, j) <=> Passed(q, i, j)
  <2>1. \A q : Passed(q, i, j) => Passed(q, i + 1, j)
    BY Lists, PassedStays DEF WalkContext
  <2>2. \A q : ~Comes(q, i) /\ \A b : ~Renewed(q, i, b)
    BY DEF Comes, Renewed
  <2>3. \A a \in DOMAIN nodes : a < i + 1 => a < i \/ a = i
    BY Lists DEF WalkContext
  <2>4. \A q : Passed(q, i + 1, j) => Passed(q, i, j)
    BY <2>2, <2>3 DEF Passed
  <2> QED
    BY <2>1, <2>4
<1>2. WrittenUpTo(written, i + 1, j)
  BY <1>1, WritesNone
<1>3. Between(i + 1, j)
  BY Lists DEF WalkContext, Between
<1> QED
  BY <1>2, <1>3, Lists DEF Advances, WalkContext, TypeOK

LEMMA SkippingRecord ==
    ASSUME WalkContext, j \in DOMAIN previous, ~PreviousIsValid(previous[j])
    PROVE  Advances(written, i, j + 1)
<1>1. \A q \in Records : Passed(q, i, j + 1) <=> Passed(q, i, j)
  <2>1. \A q : Passed(q, i, j) => Passed(q, i, j + 1)
    BY Lists, PassedStays DEF WalkContext
  <2>2. \A q : ~Kept(q, j) /\ \A a \in DOMAIN nodes : ~Renewed(q, a, j)
    BY RecordsOfNodesStay DEF Kept, Renewed
  <2>3. \A b \in DOMAIN previous : b < j + 1 => b < j \/ b = j
    BY Lists DEF WalkContext
  <2>4. \A q : Passed(q, i, j + 1) => Passed(q, i, j)
    BY <2>2, <2>3 DEF Passed
  <2> QED
    BY <2>1, <2>4
<1>2. WrittenUpTo(written, i, j + 1)
  BY <1>1, WritesNone
<1>3. Between(i, j + 1)
  BY Lists DEF WalkContext, Between
<1> QED
  BY <1>2, <1>3, Lists DEF Advances, WalkContext, TypeOK

\* A record without a node that ran is written as it is.
LEMMA WritingRecord ==
    ASSUME WalkContext, j \in DOMAIN previous, PreviousIsValid(previous[j]),
           \A a \in DOMAIN nodes : a >= i => previous[j].guid < nodes[a].guid
    PROVE  Advances(Append(written, EmitBuiltNodeFromPreviouslyBuiltNode(previous[j], 0)), i, j + 1)
<1> DEFINE r == EmitBuiltNodeFromPreviouslyBuiltNode(previous[j], 0)
<1>1. r \in Records /\ r = previous[j]
  BY Lists, EmitsOfRecord DEF WalkContext
<1>2. \A a \in DOMAIN nodes : nodes[a].result # "kDidNotRun" => nodes[a].guid # previous[j].guid
  <2> SUFFICES ASSUME NEW a \in DOMAIN nodes, nodes[a].result # "kDidNotRun",
                      nodes[a].guid = previous[j].guid
               PROVE  FALSE
    OBVIOUS
  <2>1. nodes[a].guid \in Nat /\ a \in Nat /\ i \in Nat /\ j \in Nat
    BY Lists, PlacesByGuid DEF WalkContext, NodesInv, TypeOK
  <2>2. CASE a < i
    BY <2>1, <2>2 DEF WalkContext, Between
  <2>3. CASE a >= i
    BY <2>1, <2>3
  <2> QED
    BY <2>1, <2>2, <2>3
<1> HIDE DEF r
<1>3. Kept(r, j)
  BY <1>1, <1>2 DEF Kept
<1>4. Passed(r, i, j + 1)
  BY <1>3, Lists DEF Passed, WalkContext
<1>5. \A q \in Records : Passed(q, i, j + 1) => Passed(q, i, j) \/ q = r
  <2>1. \A q : Kept(q, j) => q = r
    BY <1>1 DEF Kept
  <2>2. \A q : \A a \in DOMAIN nodes : ~Renewed(q, a, j)
    BY <1>2 DEF Renewed
  <2>3. \A b \in DOMAIN previous : b < j + 1 => b < j \/ b = j
    BY Lists DEF WalkContext
  <2> QED
    BY <2>1, <2>2, <2>3 DEF Passed
<1>6. \A q \in Records : Passed(q, i, j) => Passed(q, i, j + 1)
  BY Lists, PassedStays DEF WalkContext
<1>7. \A k \in DOMAIN written : written[k].guid < r.guid
  BY <1>1, Lists, PassedIsBehind DEF WalkContext, WrittenUpTo
<1>8. Append(written, r) \in Seq(Records) /\ WrittenUpTo(Append(written, r), i, j + 1)
  BY <1>1, <1>4, <1>5, <1>6, <1>7, WritesOne
<1>9. Between(i, j + 1)
  <2>1. \A b \in DOMAIN previous : b >= j + 1 => b >= j
    BY Lists DEF WalkContext
  <2>2. \A b \in DOMAIN previous : b < j + 1 => b < j \/ b = j
    BY Lists DEF WalkContext
  <2> QED
    BY <2>1, <2>2 DEF WalkContext, Between
<1> QED
  BY <1>8, <1>9, Lists DEF Advances, WalkContext, TypeOK, r

\* A node that was up to date has a record, which comes no earlier.
LEMMA NodeWithoutRecordRan ==
    ASSUME WalkContext, i \in DOMAIN nodes, nodes[i].result # "kDidNotRun",
           \A b \in DOMAIN previous : b >= j => nodes[i].guid < previous[b].guid
    PROVE  nodes[i].result # "kUpToDate"
<1> SUFFICES ASSUME nodes[i].result = "kUpToDate"
             PROVE  FALSE
  OBVIOUS
<1>1. PICK b \in DOMAIN previous : previous[b].guid = nodes[i].guid
  BY DEF WalkContext, NodesInv, Own
<1>2. PreviousIsValid(previous[b]) /\ b \in Nat /\ j \in Nat /\ i \in Nat
  BY <1>1, RecordsOfNodesStay, Lists DEF WalkContext
<1>3. nodes[i].guid \in Nat
  BY PlacesByGuid DEF WalkContext, NodesInv, TypeOK
<1>4. CASE b < j
  BY <1>1, <1>2, <1>3, <1>4 DEF WalkContext, Between
<1>5. CASE b >= j
  BY <1>1, <1>3, <1>5
<1> QED
  BY <1>2, <1>4, <1>5

LEMMA WritingNode ==
    ASSUME WalkContext, i \in DOMAIN nodes, nodes[i].result # "kDidNotRun",
           \A b \in DOMAIN previous : b >= j => nodes[i].guid < previous[b].guid
    PROVE  Advances(Append(written, EmitBuiltNodeFromRuntimeNode(nodes[i], dag)), i + 1, j)
<1> DEFINE r == EmitBuiltNodeFromRuntimeNode(nodes[i], dag)
<1>1. r \in Records /\ r.guid = nodes[i].guid
  BY Lists, EmitsOfNode DEF WalkContext
<1>2. nodes[i].result # "kUpToDate"
  BY NodeWithoutRecordRan
<1>3. Comes(r, i)
  BY <1>2 DEF Comes
<1>4. \A q : (Comes(q, i) => q = r) /\ \A b : ~Renewed(q, i, b)
  BY <1>2 DEF Comes, Renewed
<1> HIDE DEF r
<1>5. Passed(r, i + 1, j)
  BY <1>3, Lists DEF Passed, WalkContext
<1>6. \A q \in Records : Passed(q, i + 1, j) => Passed(q, i, j) \/ q = r
  <2>1. \A a \in DOMAIN nodes : a < i + 1 => a < i \/ a = i
    BY Lists DEF WalkContext
  <2> QED
    BY <1>4, <2>1 DEF Passed
<1>7. \A q \in Records : Passed(q, i, j) => Passed(q, i + 1, j)
  BY Lists, PassedStays DEF WalkContext
<1>8. \A k \in DOMAIN written : written[k].guid < r.guid
  BY <1>1, Lists, PassedIsBehind DEF WalkContext, WrittenUpTo
<1>9. Append(written, r) \in Seq(Records) /\ WrittenUpTo(Append(written, r), i + 1, j)
  BY <1>1, <1>5, <1>6, <1>7, <1>8, WritesOne
<1>10. Between(i + 1, j)
  <2>1. \A a \in DOMAIN nodes : (a >= i + 1 => a >= i) /\ (a < i + 1 => a < i \/ a = i)
    BY Lists DEF WalkContext
  <2> QED
    BY <2>1 DEF WalkContext, Between
<1> QED
  BY <1>9, <1>10, Lists DEF Advances, WalkContext, TypeOK, r

\* A node and its record go together.
LEMMA WritingBoth ==
    ASSUME WalkContext, i \in DOMAIN nodes, j \in DOMAIN previous,
           nodes[i].result # "kDidNotRun", nodes[i].guid = previous[j].guid
    PROVE  Advances(Append(written, EmitBuiltNodeFromBothRuntimeNodeAndPreviouslyBuiltNode(
                                        nodes[i], previous[j], dag)), i + 1, j + 1)
<1> DEFINE r == EmitBuiltNodeFromBothRuntimeNodeAndPreviouslyBuiltNode(nodes[i], previous[j], dag)
<1>1. nodes[i] \in RuntimeNodes /\ previous[j] \in Records /\ nodes[i].leaf \in Nat
  BY Lists DEF WalkContext, RuntimeNodes
<1>2. r \in Records /\ r.guid = nodes[i].guid
  BY <1>1, EmitsOfNode, EmitsOfRecord DEF WalkContext, EmitBuiltNodeFromBothRuntimeNodeAndPreviouslyBuiltNode
<1>3. Comes(r, i) \/ Renewed(r, i, j)
  BY DEF Comes, Renewed, EmitBuiltNodeFromBothRuntimeNodeAndPreviouslyBuiltNode
<1>4. \A q : Comes(q, i) \/ Renewed(q, i, j) => q = r
  BY DEF Comes, Renewed, EmitBuiltNodeFromBothRuntimeNodeAndPreviouslyBuiltNode
<1> HIDE DEF r
<1>5. \A b \in DOMAIN previous : previous[b].guid = previous[j].guid => b = j
  BY PlacesByGuid DEF WalkContext, TypeOK
<1>6. \A a \in DOMAIN nodes : nodes[a].guid = nodes[i].guid => a = i
  BY PlacesByGuid DEF WalkContext, TypeOK, NodesInv
<1>7. /\ \A q : \A b \in DOMAIN previous : Renewed(q, i, b) => b = j
      /\ \A q : \A a \in DOMAIN nodes : Renewed(q, a, j) => a = i
      /\ \A q : ~Kept(q, j)
  BY <1>5, <1>6 DEF Renewed, Kept
<1>8. /\ \A a \in DOMAIN nodes : a < i + 1 <=> a < i \/ a = i
      /\ \A b \in DOMAIN previous : b < j + 1 <=> b < j \/ b = j
      /\ i < i + 1 /\ j < j + 1
  BY Lists DEF WalkContext
<1>9. Passed(r, i + 1, j + 1)
  BY <1>3, <1>8 DEF Passed
<1>10. \A q \in Records : Passed(q, i + 1, j + 1) => Passed(q, i, j) \/ q = r
  BY <1>4, <1>7, <1>8 DEF Passed
<1>11. \A q \in Records : Passed(q, i, j) => Passed(q, i + 1, j + 1)
  BY <1>8 DEF Passed
<1>12. \A k \in DOMAIN written : written[k].guid < r.guid
  BY <1>2, Lists, PassedIsBehind DEF WalkContext, WrittenUpTo
<1>13. Append(written, r) \in Seq(Records) /\ WrittenUpTo(Append(written, r), i + 1, j + 1)
  BY <1>2, <1>9, <1>10, <1>11, <1>12, WritesOne
<1>14. Between(i + 1, j + 1)
  <2>1. \A a \in DOMAIN nodes : (a >= i + 1 => a >= i /\ i < a) /\ (a < i + 1 => a < i \/ a = i)
    BY Lists DEF WalkContext
  <2>2. \A b \in DOMAIN previous : (b >= j + 1 => b >= j /\ j < b) /\ (b < j + 1 => b < j \/ b = j)
    BY Lists DEF WalkContext
  <2>3. \A a \in DOMAIN nodes : a >= i + 1 => previous[j].guid < nodes[a].guid
    BY <2>1 DEF WalkContext, NodesInv, SortedByGuid
  <2>4. \A b \in DOMAIN previous : b >= j + 1 => nodes[i].guid < previous[b].guid
    BY <2>2 DEF WalkContext, SortedByGuid
  <2> QED
    BY <2>1, <2>2, <2>3, <2>4 DEF WalkContext, Between
<1> QED
  BY <1>13, <1>14, Lists DEF Advances, WalkContext, TypeOK, r
\* The inputs of the walk stay as they are, so what was said of where the
\* iterators get is true of them when they are there.
LEMMA AdvancesThere ==
    ASSUME UNCHANGED inputVars, Advances(written', i', j')
    PROVE  Between(i, j)' /\ WrittenUpTo(written, i, j)'
<1>1. nodes' = nodes /\ previous' = previous /\ dag' = dag /\ disk' = disk
  BY DEF inputVars
<1>2. Between(i, j)'
  BY <1>1 DEF Advances, Between, PreviousIsValid, Graph
<1>3. SortedByGuid(written)'
  BY DEF Advances, WrittenUpTo, SortedByGuid
<1>4. ASSUME NEW r PROVE Passed(r, i, j)' <=> Passed(r, i', j')
  BY <1>1 DEF Passed, Comes, Renewed, Kept, PreviousIsValid, Graph
<1>5. /\ \A k \in DOMAIN written' : Passed(written'[k], i', j')
      /\ \A r \in Records : Passed(r, i', j') => \E k \in DOMAIN written' : written'[k] = r
  BY DEF Advances, WrittenUpTo
<1>6. \A k \in DOMAIN written' : Passed(written[k], i, j)'
  <2> SUFFICES ASSUME NEW k \in DOMAIN written'
               PROVE  Passed(written[k], i, j)'
    OBVIOUS
  <2>1. CASE \E a \in DOMAIN nodes : a < i' /\ Comes(written'[k], a)
    BY <1>1, <2>1 DEF Passed, Comes
  <2>2. CASE \E a \in DOMAIN nodes, b \in DOMAIN previous : a < i' /\ b < j' /\ Renewed(written'[k], a, b)
    BY <1>1, <2>2 DEF Passed, Renewed
  <2>3. CASE \E b \in DOMAIN previous : b < j' /\ Kept(written'[k], b)
    BY <1>1, <2>3 DEF Passed, Kept, PreviousIsValid, Graph
  <2> QED
    BY <1>5, <2>1, <2>2, <2>3 DEF Passed
<1> QED
  BY <1>2, <1>3, <1>4, <1>5, <1>6 DEF WrittenUpTo

LEMMA WalkSteps ==
    ASSUME WalkContext, Walk
    PROVE  /\ UNCHANGED inputVars
           /\ \/ pc' = "merge" /\ Advances(written', i', j')
              \/ /\ pc' = "done" /\ UNCHANGED <<written, i, j>>
                 /\ i = Len(nodes) + 1 /\ j = Len(previous) + 1
<1> USE DEF IsRuntimeNodeValidForWritingToBuiltNodes
<1>1. /\ i <= Len(nodes) => i \in DOMAIN nodes
      /\ j <= Len(previous) => j \in DOMAIN previous
      /\ i > Len(nodes) => i = Len(nodes) + 1 /\ \A a \in DOMAIN nodes : ~(a >= i)
      /\ j > Len(previous) => j = Len(previous) + 1 /\ \A b \in DOMAIN previous : ~(b >= j)
  BY Lists DEF WalkContext, TypeOK
<1>2. /\ \A a \in DOMAIN nodes : a >= i /\ i \in DOMAIN nodes => nodes[i].guid <= nodes[a].guid
      /\ \A b \in DOMAIN previous : b >= j /\ j \in DOMAIN previous => previous[j].guid <= previous[b].guid
  <2>1. ASSUME NEW a \in DOMAIN nodes, a >= i, i \in DOMAIN nodes
        PROVE  nodes[i].guid <= nodes[a].guid
    <3>1. nodes[i].guid \in Nat /\ nodes[a].guid \in Nat /\ i \in Nat /\ a \in Nat
      BY <2>1, Lists, PlacesByGuid DEF WalkContext, NodesInv, TypeOK
    <3> QED
      BY <2>1, <3>1 DEF WalkContext, NodesInv, SortedByGuid
  <2>2. ASSUME NEW b \in DOMAIN previous, b >= j, j \in DOMAIN previous
        PROVE  previous[j].guid <= previous[b].guid
    <3>1. previous[j].guid \in Nat /\ previous[b].guid \in Nat /\ j \in Nat /\ b \in Nat
      BY <2>2, Lists, PlacesByGuid DEF WalkContext, TypeOK
    <3> QED
      BY <2>2, <3>1 DEF WalkContext, SortedByGuid
  <2> QED
    BY <2>1, <2>2
<1>3. /\ \A a \in DOMAIN nodes : nodes[a].guid \in Nat
      /\ \A b \in DOMAIN previous : previous[b].guid \in Nat
  BY PlacesByGuid DEF WalkContext, NodesInv, TypeOK
<1>4. CASE SkipNodeThatDidNotRun
  BY <1>1, <1>4, SkippingNode DEF SkipNodeThatDidNotRun, BothLeft
<1>5. CASE SkipForgottenRecord
  BY <1>1, <1>5, SkippingRecord DEF SkipForgottenRecord, BothLeft
<1>6. CASE WritePrevious
  <2>1. \A a \in DOMAIN nodes : a >= i => previous[j].guid < nodes[a].guid
    BY <1>1, <1>2, <1>3, <1>6 DEF WritePrevious, BothValid, BothLeft
  <2> QED
    BY <1>1, <1>6, <2>1, WritingRecord DEF WritePrevious, BothValid, BothLeft
<1>7. CASE WriteNode
  <2>1. \A b \in DOMAIN previous : b >= j => nodes[i].guid < previous[b].guid
    BY <1>1, <1>2, <1>3, <1>7 DEF WriteNode, BothValid, BothLeft
  <2> QED
    BY <1>1, <1>7, <2>1, WritingNode DEF WriteNode, BothValid, BothLeft
<1>8. CASE WriteBoth
  BY <1>1, <1>8, WritingBoth DEF WriteBoth, BothValid, BothLeft
<1>9. CASE DrainNodes
  BY <1>1, <1>9, WritingNode, SkippingNode DEF DrainNodes
<1>10. CASE DrainPrevious
  BY <1>1, <1>10, WritingRecord, SkippingRecord DEF DrainPrevious
<1>11. CASE CompleteState
  BY <1>1, <1>11 DEF CompleteState
<1> QED
  BY <1>4, <1>5, <1>6, <1>7, <1>8, <1>9, <1>10, <1>11 DEF Walk

\* When the walk is over, the records passed are the ones that should be written.
LEMMA AllIsMerged ==
    ASSUME WalkContext, i = Len(nodes) + 1, j = Len(previous) + 1
    PROVE  {written[k] : k \in DOMAIN written} = MergedRecords
<1>1. \A r : Passed(r, i, j) <=>
            \/ \E a \in DOMAIN nodes : Comes(r, a)
            \/ \E a \in DOMAIN nodes, b \in DOMAIN previous : Renewed(r, a, b)
            \/ \E b \in DOMAIN previous : Kept(r, b)
  <2>1. (\A a \in DOMAIN nodes : a < i) /\ (\A b \in DOMAIN previous : b < j)
    BY Lists DEF WalkContext
  <2> QED
    BY <2>1 DEF Passed
<1>2. /\ \A a \in DOMAIN nodes : nodes[a] \in RuntimeNodes /\ nodes[a].leaf \in Nat
      /\ \A b \in DOMAIN previous : previous[b] \in Records
  BY Lists DEF WalkContext, RuntimeNodes
<1>3. \A a, c \in DOMAIN nodes : nodes[a].guid = nodes[c].guid => a = c
  BY PlacesByGuid DEF WalkContext, TypeOK, NodesInv
<1>4. \A r : Passed(r, i, j) => r \in Records /\ r \in MergedRecords
  <2> SUFFICES ASSUME NEW r, Passed(r, i, j)
               PROVE  r \in Records /\ r \in MergedRecords
    OBVIOUS
  <2>1. CASE \E a \in DOMAIN nodes : Comes(r, a)
    BY <1>2, <2>1, EmitsOfNode DEF WalkContext, Comes, MergedRecords
  <2>2. CASE \E a \in DOMAIN nodes, b \in DOMAIN previous : Renewed(r, a, b)
    <3>1. PICK a \in DOMAIN nodes, b \in DOMAIN previous : Renewed(r, a, b)
      BY <2>2
    <3>2. /\ r \in Records
          /\ r = [previous[b] EXCEPT !.leaf = IF nodes[a].leaf = 0 THEN @ ELSE nodes[a].leaf]
          /\ nodes[a].leaf = 0 => r = previous[b]
      BY <1>2, <3>1, EmitsOfRecord DEF Renewed
    <3>3. CASE nodes[a].leaf = 0
      <4>1. PreviousIsValid(previous[b])
        BY <3>1, RecordsOfNodesStay DEF Renewed
      <4>2. \A c \in DOMAIN nodes : nodes[c].guid = previous[b].guid => c = a
        BY <1>3, <3>1 DEF Renewed
      <4> QED
        BY <3>1, <3>2, <3>3, <4>1, <4>2 DEF Renewed, MergedRecords
    <3>4. CASE nodes[a].leaf # 0
      <4> DEFINE x == <<previous[b], nodes[a]>>
      <4>1. /\ x \in {previous[k] : k \in DOMAIN previous}
                     \X {n \in {nodes[k] : k \in DOMAIN nodes} : n.result # "kDidNotRun"}
            /\ x[1].guid = x[2].guid /\ x[2].result = "kUpToDate" /\ x[2].leaf # 0
        BY <3>1, <3>4 DEF Renewed
      <4>2. r = [x[1] EXCEPT !.leaf = x[2].leaf]
        BY <3>2, <3>4
      <4> QED
        BY <3>2, <4>1, <4>2 DEF MergedRecords
    <3> QED
      BY <3>3, <3>4
  <2>3. CASE \E b \in DOMAIN previous : Kept(r, b)
    BY <1>2, <2>3 DEF Kept, MergedRecords
  <2> QED
    BY <1>1, <2>1, <2>2, <2>3
<1>5. ASSUME NEW r \in MergedRecords
      PROVE  r \in Records /\ Passed(r, i, j)
  <2> DEFINE ran == {n \in {nodes[k] : k \in DOMAIN nodes} : n.result # "kDidNotRun"}
             old == {previous[k] : k \in DOMAIN previous}
  <2>1. CASE \E n \in ran : n.result # "kUpToDate" /\ r = EmitBuiltNodeFromRuntimeNode(n, dag)
    BY <1>1, <1>2, <2>1, EmitsOfNode DEF WalkContext, Comes
  <2>2. CASE \E x \in old \X ran : /\ x[1].guid = x[2].guid
                                   /\ x[2].result = "kUpToDate" /\ x[2].leaf # 0
                                   /\ r = [x[1] EXCEPT !.leaf = x[2].leaf]
    <3>1. PICK a \in DOMAIN nodes, b \in DOMAIN previous :
                 /\ nodes[a].guid = previous[b].guid
                 /\ nodes[a].result = "kUpToDate" /\ nodes[a].leaf # 0
                 /\ r = [previous[b] EXCEPT !.leaf = nodes[a].leaf]
      BY <2>2
    <3>2. r = EmitBuiltNodeFromPreviouslyBuiltNode(previous[b], nodes[a].leaf) /\ r \in Records
      BY <1>2, <3>1, EmitsOfRecord
    <3> QED
      BY <1>1, <3>1, <3>2 DEF Renewed
  <2>3. CASE /\ r \in old /\ PreviousIsValid(r)
             /\ \A n \in ran : n.guid = r.guid => n.result = "kUpToDate" /\ n.leaf = 0
    <3>1. PICK b \in DOMAIN previous : r = previous[b]
      BY <2>3
    <3>2. CASE \E a \in DOMAIN nodes : nodes[a].result # "kDidNotRun" /\ nodes[a].guid = r.guid
      <4>1. PICK a \in DOMAIN nodes : nodes[a].result # "kDidNotRun" /\ nodes[a].guid = r.guid
        BY <3>2
      <4>2. nodes[a].result = "kUpToDate" /\ nodes[a].leaf = 0
        BY <2>3, <4>1
      <4>3. Renewed(r, a, b)
        BY <1>2, <3>1, <4>1, <4>2, EmitsOfRecord DEF Renewed
      <4> QED
        BY <1>1, <1>2, <3>1, <4>3
    <3>3. CASE \A a \in DOMAIN nodes : nodes[a].result # "kDidNotRun" => nodes[a].guid # r.guid
      BY <1>1, <1>2, <2>3, <3>1, <3>3 DEF Kept
    <3> QED
      BY <3>2, <3>3
  <2> QED
    BY <2>1, <2>2, <2>3 DEF MergedRecords
<1>6. ASSUME NEW k \in DOMAIN written
      PROVE  written[k] \in MergedRecords
  BY <1>4 DEF WalkContext, WrittenUpTo
<1>7. ASSUME NEW r \in MergedRecords
      PROVE  \E k \in DOMAIN written : written[k] = r
  BY <1>5 DEF WalkContext, WrittenUpTo
<1> QED
  BY <1>6, <1>7
---------------------------------------------------------------------------
(* Files and what memory holds of them *)

LEMMA GraphFileContents ==
    ASSUME NEW file \in GraphFiles
    PROVE  /\ file[1].graph \in Graphs /\ file[1].whole \in BOOLEAN
           /\ file = File(file[1].graph, file[1].whole)
           /\ file # NoFile
           /\ file[1].whole => file # Torn
<1>1. PICK g \in Graphs, w \in BOOLEAN : file = File(g, w)
  BY DEF GraphFiles, WholeOrNot
<1>2. file[1] = [graph |-> g, whole |-> w]
  BY <1>1 DEF File
<1>3. Torn[1].whole = FALSE
  BY DEF Torn, File
<1>4. file # NoFile
  BY <1>1 DEF File, NoFile
<1> QED
  BY <1>1, <1>2, <1>3, <1>4

LEMMA FileOfGraph ==
    ASSUME NEW g \in Graphs, NEW w \in BOOLEAN
    PROVE  /\ File(g, w) \in GraphFiles /\ File(g, w) # NoFile
           /\ File(g, w)[1].graph = g /\ File(g, w)[1].whole = w
           /\ w => File(g, w) # Torn
<1>1. File(g, w)[1] = [graph |-> g, whole |-> w]
  BY DEF File
<1>2. Torn[1].whole = FALSE
  BY DEF Torn, File
<1>3. File(g, w) # NoFile
  BY DEF File, NoFile
<1> QED
  BY <1>1, <1>2, <1>3 DEF GraphFiles, WholeOrNot

LEMMA StateFileContents ==
    ASSUME NEW file, IsStateFile(file)
    PROVE  Recorded(file) \in Seq(Records)
<1>1. CASE file = NoFile
  BY <1>1 DEF Recorded
<1>2. CASE file # NoFile
  <2>1. file \in Seq(Seq(Records)) /\ file # <<>>
    BY <1>2 DEF IsStateFile, NoFile
  <2>2. 1 \in DOMAIN file
    BY <2>1, LenProperties, EmptySeq
  <2>3. file[1] \in Seq(Records)
    BY <2>1, <2>2, LenProperties, ElementOfSeq
  <2> QED
    BY <1>2, <2>3 DEF Recorded
<1> QED
  BY <1>1, <1>2

LEMMA RememberedIsOne ==
    ASSUME TypeOK, SavedInv
    PROVE  /\ Remembered \in {stateFile, mapped} /\ IsStateFile(Remembered)
           /\ Recorded(Remembered) \in Seq(Records)
           /\ SortedByGuid(Recorded(Remembered)) /\ PlainRecords(Recorded(Remembered))
<1>1. Remembered \in {stateFile, mapped}
  BY DEF Remembered
<1>2. IsStateFile(Remembered)
  BY <1>1 DEF TypeOK
<1> QED
  BY <1>1, <1>2, StateFileContents DEF SavedInv

Idle == nodes = <<>> /\ written = <<>> /\ i = 1 /\ j = 1 /\ pc = "idle"

\* With nothing to save there is nothing to say of the walk.
LEMMA NothingToWalk ==
    ASSUME Idle', previous' \in Seq(Records)
    PROVE  WalkInv'
<1>1. DOMAIN nodes' = {} /\ DOMAIN written' = {} /\ i' = 1 /\ j' = 1 /\ pc' = "idle"
  BY DEF Idle
<1>2. NodesInv'
  BY <1>1 DEF NodesInv, SortedByGuid
<1>3. IteratorsInv'
  BY <1>1 DEF IteratorsInv, Between
<1>4. WrittenInv'
  <2>1. SortedByGuid(written)'
    BY <1>1 DEF SortedByGuid
  <2>2. \A b \in DOMAIN previous' : ~(b < 1)
    BY LenProperties
  <2>3. \A r : ~Passed(r, 1, 1)'
    BY <1>1, <2>2 DEF Passed
  <2> QED
    BY <1>1, <2>1, <2>3 DEF WrittenInv, WrittenUpTo, Passed
<1> QED
  BY <1>2, <1>3, <1>4 DEF WalkInv

Empty == {"exited", "freeze", "freezing", "load", "cycles", "derive", "deriving",
          "loadDerived", "state"}

\* What loading the graph leaves alone, and what is then to show.
LEMMA GraphStep ==
    ASSUME Inv, UNCHANGED <<vars, stateFiles, wroteFor>>, phase \in Empty, phase' \in Empty,
           json' \in Graphs \cup {NoGraph}, hadDerived' \in BOOLEAN, cutShort' \in BOOLEAN,
           frozen' \in GraphFiles \cup {NoFile, Torn},
           derived' \in GraphFiles \cup {NoFile, Torn},
           phase' \in {"freeze", "freezing", "cycles"} => json' \in Graphs /\ json' # NoGraph,
           phase' \in Loaded => frozen' \in GraphFiles,
           GraphInv'
    PROVE  Inv'
<1>1. /\ UNCHANGED <<dag, disk, nodes, previous, written, i, j, pc, stateFile, mapped, wroteFor>>
      /\ TypeOK /\ MemoryInv /\ SavedInv /\ HistoryInv
  BY DEF Inv, vars, inputVars, stateFiles
<1>2. Idle /\ previous = <<>> /\ dag = NoGraph.dag
  BY <1>1 DEF MemoryInv, Idle, Empty
<1>3. Idle' /\ previous' \in Seq(Records) /\ MemoryInv'
  BY <1>1, <1>2 DEF MemoryInv, Idle, Empty
<1>4. TypeOK'
  <2>1. phase' \in Phases
    BY DEF Phases, Empty
  <2> QED
    BY <1>1, <2>1 DEF TypeOK
<1>5. SavedInv' /\ HistoryInv'
  <2>1. SavedInv'
    BY <1>1 DEF SavedInv, PlainRecords, SortedByGuid, Recorded
  <2>2. Recorded(Remembered)' = Recorded(Remembered)
    BY <1>1 DEF Recorded, Remembered
  <2> QED
    BY <1>1, <2>1, <2>2 DEF HistoryInv
<1>6. StaleOutputsAreGone'
  BY DEF StaleOutputsAreGone, Empty
<1> QED
  BY <1>3, <1>4, <1>5, <1>6, NothingToWalk DEF Inv

\* Loading a file that is not whole may end in the files being removed, or at
\* once; one that is whole is loaded.
LEMMA Loading ==
    ASSUME NEW file \in GraphFiles \cup {NoFile, Torn}, NEW next, LoadFrozenData(file, next)
    PROVE  \/ /\ file \in {NoFile, Torn} /\ phase' = "exited"
              /\ frozen' = NoFile /\ derived' = NoFile /\ json' = NoGraph /\ hadDerived' = FALSE
           \/ /\ file \in GraphFiles /\ phase' = next
              /\ UNCHANGED <<frozen, derived, json, hadDerived>>
           \/ /\ file \in GraphFiles /\ ~file[1].whole /\ phase' = "exited"
              /\ UNCHANGED <<frozen, derived>> /\ json' = NoGraph /\ hadDerived' = FALSE
BY DEF LoadFrozenData, RemoveGraphFiles, Exit, Goto, graphFiles, options

LEMMA StartingStep ==
    ASSUME Inv, NEW g \in Graphs \cup {NoGraph}, StartRun(g)
    PROVE  Inv'
<1>1. TypeOK /\ MemoryInv /\ GraphInv /\ phase = "exited"
  BY DEF Inv, StartRun
<1>2. /\ UNCHANGED <<frozen, derived, cutShort, wroteFor, vars, stateFiles>>
      /\ json' = g /\ hadDerived' = (derived # NoFile)
      /\ phase' = (IF g = NoGraph THEN "load" ELSE "freeze")
  BY DEF StartRun, graphFiles, history
<1>3. GraphInv'
  BY <1>1, <1>2 DEF GraphInv, Settled, Checked, Frozen
<1> QED
  BY <1>1, <1>2, <1>3, GraphStep DEF TypeOK, Empty, Loaded

LEMMA FreezingStep ==
    ASSUME Inv, FreezeFails \/ BeginFreezeDag \/ FinishFreezeDag \/ FlushFails
    PROVE  Inv'
<1>1. TypeOK /\ MemoryInv /\ GraphInv
  BY DEF Inv
<1>2. CASE FreezeFails
  <2>1. /\ UNCHANGED <<frozen, derived, cutShort, wroteFor, vars, stateFiles>>
        /\ phase = "freeze" /\ phase' = "exited" /\ json' = NoGraph /\ hadDerived' = FALSE
    BY <1>2 DEF FreezeFails, Exit, graphFiles, history
  <2>2. GraphInv'
    BY <1>1, <2>1 DEF GraphInv, Settled, Checked, Frozen
  <2> QED
    BY <1>1, <2>1, <2>2, GraphStep DEF TypeOK, Empty, Loaded
<1>3. CASE BeginFreezeDag
  <2>1. /\ UNCHANGED <<derived, json, hadDerived, cutShort, wroteFor, vars, stateFiles>>
        /\ phase = "freeze" /\ phase' = "freezing" /\ json \in Graphs /\ json # NoGraph
        /\ \/ frozen' = File(json, FALSE)
           \/ frozen' = Torn
    BY <1>1, <1>3 DEF BeginFreezeDag, Goto, options, history, MemoryInv
  <2>2. frozen' \in GraphFiles \cup {NoFile, Torn}
    BY <2>1, FileOfGraph
  <2>3. GraphInv'
    BY <2>1 DEF GraphInv
  <2> QED
    BY <1>1, <2>1, <2>2, <2>3, GraphStep DEF TypeOK, Empty, Loaded
<1>4. CASE FinishFreezeDag
  <2>1. /\ UNCHANGED <<derived, json, hadDerived, wroteFor, vars, stateFiles>>
        /\ phase = "freezing" /\ phase' = "load" /\ json \in Graphs /\ json # NoGraph
        /\ frozen' = File(json, TRUE) /\ cutShort' = FALSE
    BY <1>1, <1>4 DEF FinishFreezeDag, Goto, options, MemoryInv
  <2>2. frozen' \in GraphFiles \cup {NoFile, Torn}
    BY <2>1, FileOfGraph
  <2>3. GraphInv'
    BY <2>1 DEF GraphInv
  <2> QED
    BY <1>1, <2>1, <2>2, <2>3, GraphStep DEF TypeOK, Empty, Loaded
<1>5. CASE FlushFails
  <2>1. /\ UNCHANGED <<frozen, derived, wroteFor, vars, stateFiles>>
        /\ phase \in {"freezing", "deriving"} /\ phase' = "exited"
        /\ json' = NoGraph /\ hadDerived' = FALSE /\ cutShort' = TRUE
    BY <1>5 DEF FlushFails, Exit, graphFiles
  <2>2. GraphInv'
    BY <2>1 DEF GraphInv
  <2> QED
    BY <1>1, <2>1, <2>2, GraphStep DEF TypeOK, Empty, Loaded
<1> QED
  BY <1>2, <1>3, <1>4, <1>5

LEMMA LoadingStep ==
    ASSUME Inv, LoadDag \/ DetectCyclicDependencies \/ LoadDagDerived
    PROVE  Inv'
<1>1. TypeOK /\ MemoryInv /\ GraphInv
  BY DEF Inv
<1>2. CASE LoadDag
  <2> DEFINE next == IF json # NoGraph THEN "cycles"
                     ELSE IF hadDerived THEN "loadDerived" ELSE "derive"
  <2>1. /\ UNCHANGED <<cutShort, wroteFor, vars, stateFiles>>
        /\ phase = "load" /\ LoadFrozenData(frozen, next)
    BY <1>2 DEF LoadDag, history
  <2>2. \/ /\ frozen \in {NoFile, Torn} /\ phase' = "exited"
           /\ frozen' = NoFile /\ derived' = NoFile /\ json' = NoGraph /\ hadDerived' = FALSE
        \/ /\ frozen \in GraphFiles /\ phase' = next
           /\ UNCHANGED <<frozen, derived, json, hadDerived>>
        \/ /\ frozen \in GraphFiles /\ ~frozen[1].whole /\ phase' = "exited"
           /\ UNCHANGED <<frozen, derived>> /\ json' = NoGraph /\ hadDerived' = FALSE
    BY <1>1, <2>1, Loading DEF TypeOK
  <2>3. json \in Graphs \cup {NoGraph} /\ hadDerived \in BOOLEAN
    BY <1>1 DEF TypeOK
  <2>4. GraphInv'
    <3> SUFFICES ASSUME ~cutShort
                 PROVE  GraphInv'
      BY <2>1 DEF GraphInv
    <3>1. IF json = NoGraph THEN Settled /\ (hadDerived <=> derived # NoFile)
                            ELSE frozen = File(json, TRUE)
      BY <1>1, <2>1 DEF GraphInv
    <3>2. json # NoGraph => frozen[1].whole /\ frozen \notin {NoFile, Torn}
      BY <2>3, <3>1, FileOfGraph
    <3>3. frozen \in GraphFiles => frozen # NoFile
      BY GraphFileContents
    <3>4. frozen \in GraphFiles /\ json = NoGraph => frozen[1].whole /\ Checked /\ derived = frozen /\ hadDerived
      BY <3>1, <3>3, GraphFileContents DEF Settled, Checked
    <3>5. CASE frozen \in {NoFile, Torn} /\ phase' = "exited" /\ frozen' = NoFile /\ derived' = NoFile
      BY <3>5 DEF GraphInv, Settled
    <3>6. CASE /\ frozen \in GraphFiles /\ phase' = next
               /\ UNCHANGED <<frozen, derived, json, hadDerived>>
      <4>1. CASE json # NoGraph
        BY <3>1, <3>6, <4>1 DEF GraphInv
      <4>2. CASE json = NoGraph
        BY <3>4, <3>6, <4>2 DEF GraphInv, Checked, Frozen
      <4> QED
        BY <4>1, <4>2
    <3> QED
      BY <2>2, <3>2, <3>4, <3>5, <3>6
  <2>5. next \in {"cycles", "loadDerived", "derive"}
    OBVIOUS
  <2>6. /\ phase' \in Empty
        /\ phase' \in {"freeze", "freezing", "cycles"} => json' \in Graphs /\ json' # NoGraph
        /\ phase' \in Loaded => frozen' \in GraphFiles
    BY <2>2, <2>3 DEF Empty, Loaded
  <2> QED
    BY <1>1, <2>1, <2>2, <2>3, <2>4, <2>6, GraphStep DEF TypeOK, Empty
<1>3. CASE DetectCyclicDependencies
  <2>1. /\ UNCHANGED <<cutShort, wroteFor, vars, stateFiles>> /\ phase = "cycles"
        /\ \/ /\ Frozen.cyclic /\ phase' = "exited" /\ frozen' = NoFile /\ derived' = NoFile
              /\ json' = NoGraph /\ hadDerived' = FALSE
           \/ /\ ~Frozen.cyclic /\ phase' = "derive"
              /\ UNCHANGED <<frozen, derived, json, hadDerived>>
    BY <1>3 DEF DetectCyclicDependencies, history, RemoveGraphFiles, Exit, Goto, graphFiles, options
  <2>2. json \in Graphs /\ json # NoGraph /\ frozen \in GraphFiles
    BY <1>1, <2>1 DEF MemoryInv, Loaded
  <2>3. ~cutShort => frozen[1].whole
    BY <1>1, <2>1, <2>2, FileOfGraph DEF GraphInv
  <2>4. GraphInv'
    BY <2>1, <2>2, <2>3 DEF GraphInv, Settled, Checked, Frozen
  <2> QED
    BY <1>1, <2>1, <2>2, <2>4, GraphStep DEF TypeOK, Empty, Loaded
<1>4. CASE LoadDagDerived
  <2>1. /\ UNCHANGED <<cutShort, wroteFor, vars, stateFiles>>
        /\ phase = "loadDerived" /\ LoadFrozenData(derived, "state")
        /\ frozen \in GraphFiles
    BY <1>1, <1>4 DEF LoadDagDerived, history, MemoryInv, Loaded
  <2>2. \/ /\ derived \in {NoFile, Torn} /\ phase' = "exited"
           /\ frozen' = NoFile /\ derived' = NoFile /\ json' = NoGraph /\ hadDerived' = FALSE
        \/ /\ derived \in GraphFiles /\ phase' = "state"
           /\ UNCHANGED <<frozen, derived, json, hadDerived>>
        \/ /\ derived \in GraphFiles /\ ~derived[1].whole /\ phase' = "exited"
           /\ UNCHANGED <<frozen, derived>> /\ json' = NoGraph /\ hadDerived' = FALSE
    BY <1>1, <2>1, Loading DEF TypeOK
  <2>3. ~cutShort => Checked /\ derived = frozen /\ derived[1].whole
    BY <1>1, <2>1 DEF GraphInv, Checked
  <2>4. GraphInv'
    BY <2>1, <2>2, <2>3 DEF GraphInv, Settled, Checked, Frozen
  <2> QED
    BY <1>1, <2>1, <2>2, <2>4, GraphStep DEF TypeOK, Empty, Loaded
<1> QED
  BY <1>2, <1>3, <1>4

LEMMA DerivingStep ==
    ASSUME Inv, BeginCompileDagDerived \/ FinishCompileDagDerived \/ OnlyReports
    PROVE  Inv'
<1>1. TypeOK /\ MemoryInv /\ GraphInv
  BY DEF Inv
<1>2. CASE BeginCompileDagDerived \/ FinishCompileDagDerived
  <2>1. /\ UNCHANGED <<frozen, json, hadDerived, cutShort, wroteFor, vars, stateFiles>>
        /\ \/ /\ phase = "derive" /\ phase' = "deriving"
              /\ derived' = File(Frozen, FALSE) \/ derived' = Torn
           \/ /\ phase = "deriving" /\ phase' = "loadDerived"
              /\ derived' = File(Frozen, TRUE)
    BY <1>2 DEF BeginCompileDagDerived, FinishCompileDagDerived, Goto, options, history
  <2>2. frozen \in GraphFiles /\ Frozen \in Graphs
    BY <1>1, <2>1, GraphFileContents DEF MemoryInv, Loaded, Frozen
  <2>3. derived' \in GraphFiles \cup {NoFile, Torn}
    BY <2>1, <2>2, FileOfGraph
  <2>4. GraphInv'
    <3>1. frozen[1].whole => frozen = File(Frozen, TRUE)
      BY <2>2, GraphFileContents DEF Frozen
    <3> QED
      BY <1>1, <2>1, <3>1 DEF GraphInv, Checked, Frozen
  <2> QED
    BY <1>1, <2>1, <2>2, <2>3, <2>4, GraphStep DEF TypeOK, Empty, Loaded
<1>3. CASE OnlyReports
  <2>1. /\ UNCHANGED <<frozen, derived, cutShort, wroteFor, vars, stateFiles>>
        /\ phase = "state" /\ phase' = "exited" /\ json' = NoGraph /\ hadDerived' = FALSE
    BY <1>3 DEF OnlyReports, Exit, graphFiles, history
  <2>2. GraphInv'
    BY <1>1, <2>1 DEF GraphInv, Settled, Checked, Frozen
  <2> QED
    BY <1>1, <2>1, <2>2, GraphStep DEF TypeOK, Empty, Loaded
<1> QED
  BY <1>2, <1>3
---------------------------------------------------------------------------
(* From loading the state to saving it *)

LEMMA StateStep ==
    ASSUME Inv, LoadState
    PROVE  Inv'
<1>1. TypeOK /\ MemoryInv /\ GraphInv /\ SavedInv /\ HistoryInv
  BY DEF Inv
<1>2. /\ UNCHANGED <<disk, nodes, i, j, written, pc, frozen, derived, json, hadDerived, cutShort, wroteFor>>
      /\ phase = "state" /\ phase' = "stale"
      /\ mapped' = Remembered /\ stateFile' = NoFile
      /\ previous' = Recorded(Remembered) /\ dag' = Frozen.dag
  BY DEF LoadState, Goto, options, graphFiles, history
<1>3. Remembered' = Remembered
  BY <1>2 DEF Remembered
<1>4. frozen \in GraphFiles /\ Frozen \in Graphs /\ Frozen.dag \in Dags
  BY <1>1, <1>2, GraphFileContents, GraphAssumption DEF MemoryInv, Loaded, Frozen, GraphAssumption
<1>5. Idle'
  BY <1>1, <1>2 DEF MemoryInv, Idle
<1>6. /\ previous' \in Seq(Records)
      /\ SortedByGuid(Recorded(Remembered)) /\ PlainRecords(Recorded(Remembered))
  BY <1>1, <1>2, RememberedIsOne
<1>7. IsStateFile(NoFile) /\ IsStateFile(Remembered)
  <2>1. Len(NoFile) = 0 /\ NoFile \in Seq(Seq(Records))
    BY DEF NoFile
  <2> QED
    BY <1>1, <2>1, RememberedIsOne DEF IsStateFile
<1>8. TypeOK'
  <2>1. j' \in 1 .. Len(previous') + 1
    BY <1>5, <1>6, LenProperties DEF Idle
  <2> QED
    BY <1>1, <1>2, <1>4, <1>6, <1>7, <2>1 DEF TypeOK, Phases, IsStateFile
<1>9. MemoryInv'
  BY <1>1, <1>2, <1>3, <1>4, <1>5 DEF MemoryInv, Idle, Frozen, Recorded
<1>10. GraphInv'
  BY <1>1, <1>2 DEF GraphInv, Checked, Frozen
<1>11. SavedInv'
  <2>1. SortedByGuid(Recorded(NoFile)) /\ PlainRecords(Recorded(NoFile))
    BY DEF Recorded, SortedByGuid, PlainRecords
  <2>2. stateFile' = NoFile /\ mapped' = Remembered
    BY <1>2
  <2> QED
    BY <1>6, <2>1, <2>2 DEF SavedInv, SortedByGuid, PlainRecords, Recorded
<1>12. HistoryInv'
  BY <1>1, <1>2, <1>3 DEF HistoryInv, Recorded
<1>13. StaleOutputsAreGone'
  BY <1>2 DEF StaleOutputsAreGone
<1> QED
  BY <1>5, <1>6, <1>8, <1>9, <1>10, <1>11, <1>12, <1>13, NothingToWalk DEF Inv

LEMMA StaleStep ==
    ASSUME Inv, RemoveStaleOutputs
    PROVE  Inv'
<1>1. TypeOK /\ MemoryInv /\ GraphInv /\ SavedInv /\ HistoryInv
  BY DEF Inv
<1>2. /\ UNCHANGED <<dag, nodes, previous, i, j, written, pc, frozen, derived, stateFile, mapped,
                     json, hadDerived, cutShort>>
      /\ phase = "stale" /\ phase' = "build"
      /\ disk' = disk \ StaleOutputs
      /\ wroteFor' = [f \in Files |-> IF f \in StaleOutputs THEN {} ELSE wroteFor[f]]
  BY DEF RemoveStaleOutputs, Goto, options, graphFiles, stateFiles, walk
<1>3. Remembered' = Remembered
  BY <1>2 DEF Remembered
<1>4. wroteFor' \in [Files -> SUBSET Dags]
  BY <1>1, <1>2 DEF TypeOK
<1>5. TypeOK'
  BY <1>1, <1>2, <1>4 DEF TypeOK, Phases
<1>6. Idle' /\ previous' \in Seq(Records)
  BY <1>1, <1>2 DEF MemoryInv, Idle, TypeOK
<1>7. MemoryInv'
  BY <1>1, <1>2, <1>3 DEF MemoryInv, Frozen, Recorded, Loaded
<1>8. GraphInv'
  BY <1>1, <1>2 DEF GraphInv, Checked, Frozen
<1>9. SavedInv'
  BY <1>1, <1>2 DEF SavedInv, SortedByGuid, PlainRecords, Recorded
<1>10. HistoryInv'
  <2>1. Recorded(Remembered)' = Recorded(Remembered)
    BY <1>3 DEF Recorded
  <2> QED
    BY <1>1, <1>2, <2>1 DEF HistoryInv
<1>11. StaleOutputsAreGone'
  <2> SUFFICES ASSUME NEW f \in disk', dag \in wroteFor'[f]
               PROVE  f \in CurrentOutputs \cup Sheltered
    BY <1>2 DEF StaleOutputsAreGone, CurrentOutputs, Sheltered, Frozen
  <2>1. f \in disk /\ f \notin StaleOutputs /\ f \in Files /\ dag \in wroteFor[f]
    BY <1>1, <1>2 DEF TypeOK
  <2>2. PICK k \in DOMAIN previous : f \in previous[k].outputs /\ dag \in previous[k].dags
    BY <1>1, <1>2, <2>1 DEF HistoryInv, MemoryInv
  <2>3. k \in {l \in DOMAIN previous : NodeWasUsedByThisDagPreviously(previous[l], dag)}
    BY <2>2 DEF NodeWasUsedByThisDagPreviously
  <2> QED
    BY <2>1, <2>2, <2>3 DEF StaleOutputs
<1> QED
  BY <1>5, <1>6, <1>7, <1>8, <1>9, <1>10, <1>11, NothingToWalk DEF Inv

LEMMA BuildStep ==
    ASSUME Inv, DriverBuild
    PROVE  Inv'
<1>1. TypeOK /\ MemoryInv /\ GraphInv /\ SavedInv /\ HistoryInv
  BY DEF Inv
<1>0. PICK result \in [Frozen.guids -> NodeBuildResult] :
        /\ \A g \in DOMAIN result : result[g] = "kUpToDate" => CanBeUpToDate(g)
        /\ \E left \in Left(result), guids \in InOrder(Frozen.guids) :
               /\ disk' = left
               /\ nodes' = [k \in DOMAIN guids |->
                      RuntimeNode(guids[k], result[guids[k]], left, Frozen.leaf)]
  BY DEF DriverBuild
<1>2. PICK left \in Left(result), guids \in InOrder(Frozen.guids) :
        /\ disk' = left
        /\ nodes' = [k \in DOMAIN guids |->
               RuntimeNode(guids[k], result[guids[k]], left, Frozen.leaf)]
  BY <1>0
<1>3. /\ UNCHANGED <<dag, previous, frozen, derived, stateFile, mapped, json, hadDerived, cutShort, wroteFor>>
      /\ phase = "build" /\ phase' = "save"
      /\ i' = 1 /\ j' = 1 /\ written' = <<>> /\ pc' = "merge"
  BY DEF DriverBuild, Goto, options, graphFiles, stateFiles, history
<1>4. frozen \in GraphFiles /\ Frozen \in Graphs
  BY <1>1, <1>3, GraphFileContents DEF MemoryInv, Loaded, Frozen
<1>5. Frozen.guids \subseteq Guids /\ Frozen.leaf \in Nat /\ IsFiniteSet(Frozen.guids)
  BY <1>4, GraphAssumption DEF GraphAssumption
<1>6. /\ Cardinality(Frozen.guids) \in Nat
      /\ guids \in [1 .. Cardinality(Frozen.guids) -> Frozen.guids]
      /\ \A a, b \in DOMAIN guids : a < b => guids[a] < guids[b]
  BY <1>5, FS_CardinalityType DEF InOrder
<1> DEFINE node(k) == RuntimeNode(guids[k], result[guids[k]], left, Frozen.leaf)
<1>7. left \subseteq Files
  BY DEF Left
<1>8. ASSUME NEW k \in DOMAIN guids
      PROVE  /\ nodes'[k] = node(k) /\ node(k) \in RuntimeNodes /\ node(k).guid = guids[k]
             /\ node(k).result = result[guids[k]]
             /\ node(k).seenBy = UNION {previous[l].dags : l \in Own(guids[k])}
             /\ node(k).discovered = IF Ran(node(k)) THEN InDirsOf[guids[k]] \cap left ELSE {}
  <2>1. guids[k] \in Frozen.guids /\ guids[k] \in Guids /\ result[guids[k]] \in NodeBuildResult
    BY <1>5, <1>6
  <2>2. \A l \in DOMAIN previous : previous[l].dags \subseteq Dags
    BY <1>1, Lists DEF Records
  <2>3. UNION {previous[l].dags : l \in Own(guids[k])} \subseteq Dags
    BY <2>2 DEF Own
  <2>4. InDirsOf[guids[k]] \subseteq Files
    BY <2>1, OutputAssumption DEF OutputAssumption
  <2> QED
    BY <1>2, <1>5, <2>1, <2>3, <2>4 DEF RuntimeNode, RuntimeNodes, Ran
<1> HIDE DEF node
<1>9. /\ DOMAIN nodes' = DOMAIN guids /\ DOMAIN guids = 1 .. Cardinality(Frozen.guids)
      /\ nodes' \in Seq(RuntimeNodes)
  <2>1. DOMAIN nodes' = DOMAIN guids /\ DOMAIN guids = 1 .. Cardinality(Frozen.guids)
    BY <1>2, <1>6
  <2>2. nodes' = [k \in 1 .. Cardinality(Frozen.guids) |-> node(k)]
    BY <1>2, <2>1 DEF node
  <2>3. \A k \in 1 .. Cardinality(Frozen.guids) : node(k) \in RuntimeNodes
    BY <1>8, <2>1
  <2> HIDE DEF node
  <2> QED
    BY <1>6, <2>1, <2>2, <2>3
<1>10. TypeOK'
  <2>1. i' \in 1 .. Len(nodes') + 1
    BY <1>3, <1>9, LenProperties
  <2>2. j' \in 1 .. Len(previous') + 1
    BY <1>1, <1>3, LenProperties DEF TypeOK
  <2>3. written' \in Seq(Records)
    BY <1>3
  <2> QED
    BY <1>1, <1>2, <1>3, <1>7, <1>9, <2>1, <2>2, <2>3 DEF TypeOK, Phases
<1>11. MemoryInv'
  BY <1>1, <1>3 DEF MemoryInv, Frozen, Recorded, Remembered, Loaded
<1>12. GraphInv'
  BY <1>1, <1>3 DEF GraphInv, Checked, Frozen
<1>13. SavedInv' /\ HistoryInv'
  <2>1. Recorded(Remembered)' = Recorded(Remembered)
    BY <1>3 DEF Recorded, Remembered
  <2> QED
    BY <1>1, <1>3, <2>1 DEF SavedInv, SortedByGuid, PlainRecords, Recorded, HistoryInv
<1>14. StaleOutputsAreGone'
  BY <1>3 DEF StaleOutputsAreGone
<1>15. NodesInv'
  <2>1. SortedByGuid(nodes)'
    <3> SUFFICES ASSUME NEW a \in DOMAIN nodes', NEW b \in DOMAIN nodes', a < b
                 PROVE  nodes'[a].guid < nodes'[b].guid
      BY DEF SortedByGuid
    <3>1. nodes'[a].guid = guids[a] /\ nodes'[b].guid = guids[b]
      BY <1>8, <1>9
    <3> QED
      BY <1>6, <1>9, <3>1
  <2>2. ASSUME NEW k \in DOMAIN nodes'
        PROVE  /\ nodes'[k].result = "kUpToDate" => Own(nodes'[k].guid) # {}
               /\ Ran(nodes'[k]) => nodes'[k].discovered = InDirsOf[nodes'[k].guid] \cap disk'
               /\ nodes'[k].discovered \subseteq InDirsOf[nodes'[k].guid]
               /\ nodes'[k].seenBy = UNION {previous[l].dags : l \in Own(nodes'[k].guid)}
    <3> DEFINE n == nodes'[k]
    <3>1. k \in DOMAIN guids /\ guids[k] \in DOMAIN result
      BY <1>6, <1>9
    <3>2. /\ n.guid = guids[k] /\ n.result = result[guids[k]]
          /\ n.seenBy = UNION {previous[l].dags : l \in Own(guids[k])}
          /\ n.discovered = IF Ran(n) THEN InDirsOf[guids[k]] \cap left ELSE {}
      <4>1. nodes'[k] = node(k)
        BY <1>8, <3>1
      <4>2. Ran(nodes'[k]) <=> Ran(node(k))
        BY <4>1
      <4> QED
        BY <1>8, <3>1, <4>1, <4>2
    <3> HIDE DEF n
    <3>3. ASSUME n.result = "kUpToDate" PROVE Own(n.guid) # {}
      <4>1. CanBeUpToDate(n.guid)
        BY <1>0, <3>1, <3>2, <3>3
      <4> QED
        BY <4>1 DEF CanBeUpToDate
    <3>4. /\ Ran(n) => n.discovered = InDirsOf[n.guid] \cap disk'
          /\ n.discovered \subseteq InDirsOf[n.guid]
      BY <1>2, <3>2
    <3>5. n.seenBy = UNION {previous[l].dags : l \in Own(n.guid)}
      BY <3>2
    <3> QED
      BY <3>3, <3>4, <3>5 DEF n
  <2>3. \A g : Own(g)' = Own(g)
    BY <1>3 DEF Own
  <2> QED
    BY <1>3, <2>1, <2>2, <2>3 DEF NodesInv, Ran, Own
<1>16. WrittenInv' /\ IteratorsInv'
  <2>1. (\A a \in DOMAIN nodes' : ~(a < 1)) /\ (\A b \in DOMAIN previous' : ~(b < 1))
    BY <1>1, <1>3, <1>9, LenProperties DEF TypeOK
  <2>2. DOMAIN written' = {}
    BY <1>3
  <2> QED
    BY <1>3, <2>1, <2>2 DEF WrittenInv, WrittenUpTo, SortedByGuid, Passed, IteratorsInv, Between
<1> QED
  BY <1>10, <1>11, <1>12, <1>13, <1>14, <1>15, <1>16 DEF Inv, WalkInv
\* While a build is saved the walk has all it needs.
LEMMA ContextOfSaving ==
    ASSUME Inv, phase = "save"
    PROVE  WalkContext
<1>1. TypeOK /\ MemoryInv /\ SavedInv /\ WalkInv
  BY DEF Inv
<1>2. frozen \in GraphFiles /\ dag = Frozen.dag /\ previous = Recorded(Remembered)
  BY <1>1 DEF MemoryInv, Loaded
<1>3. dag \in Dags
  BY <1>2, GraphFileContents, GraphAssumption DEF Frozen, GraphAssumption
<1>4. SortedByGuid(previous)
  BY <1>1, <1>2, RememberedIsOne
<1> QED
  BY <1>1, <1>3, <1>4 DEF WalkContext, WalkInv, IteratorsInv, WrittenInv

LEMMA WalkStep ==
    ASSUME Inv, WalkRecords
    PROVE  Inv'
<1>1. TypeOK /\ MemoryInv /\ GraphInv /\ SavedInv /\ HistoryInv /\ WalkInv
  BY DEF Inv
<1>2. /\ UNCHANGED <<phase, json, hadDerived, frozen, derived, stateFile, mapped, cutShort, wroteFor>>
      /\ phase = "save" /\ Walk
  BY DEF WalkRecords, driverVars, options, graphFiles, stateFiles, history
<1>3. WalkContext
  BY <1>2, ContextOfSaving
<1>4. UNCHANGED inputVars /\ UNCHANGED <<dag, disk, nodes, previous>>
  BY <1>2, <1>3, WalkSteps DEF inputVars
<1>5. Advances(written', i', j')
  <2>1. Advances(written, i, j)
    BY <1>3 DEF WalkContext, TypeOK, Advances
  <2>2. \/ Advances(written', i', j')
        \/ UNCHANGED <<written, i, j>>
    BY <1>2, <1>3, WalkSteps
  <2> QED
    BY <2>1, <2>2
<1>6. /\ pc' \in {"merge", "done"}
      /\ pc' = "done" => i' = Len(nodes) + 1 /\ j' = Len(previous) + 1
  BY <1>2, <1>3, WalkSteps
<1>7. TypeOK'
  BY <1>1, <1>2, <1>4, <1>5, <1>6 DEF TypeOK, Advances
<1>8. MemoryInv'
  BY <1>1, <1>2, <1>4, <1>6 DEF MemoryInv, Frozen, Recorded, Remembered
<1>9. GraphInv'
  BY <1>1, <1>2 DEF GraphInv, Checked, Frozen
<1>10. SavedInv' /\ HistoryInv'
  <2>1. Recorded(Remembered)' = Recorded(Remembered)
    BY <1>2 DEF Recorded, Remembered
  <2> QED
    BY <1>1, <1>2, <2>1 DEF SavedInv, SortedByGuid, PlainRecords, Recorded, HistoryInv
<1>11. StaleOutputsAreGone'
  BY <1>2 DEF StaleOutputsAreGone
<1>12. WalkInv'
  <2>1. NodesInv'
    <3>1. \A g : Own(g)' = Own(g)
      BY <1>4 DEF Own
    <3>2. NodesInv
      BY <1>1 DEF WalkInv
    <3> QED
      BY <1>4, <3>1, <3>2 DEF NodesInv, SortedByGuid, Ran, Own
  <2>2. Between(i, j)' /\ WrittenUpTo(written, i, j)'
    BY <1>4, <1>5, AdvancesThere
  <2> QED
    BY <1>4, <1>6, <2>1, <2>2 DEF WalkInv, IteratorsInv, WrittenInv
<1> QED
  BY <1>7, <1>8, <1>9, <1>10, <1>11, <1>12 DEF Inv

\* What is written names no more files than records do.
LEMMA WrittenIsPlain ==
    ASSUME WalkContext, PlainRecords(previous)
    PROVE  PlainRecords(written)
<1> SUFFICES ASSUME NEW k \in DOMAIN written
             PROVE  written[k].outputs \subseteq OutputsOf[written[k].guid] \cup InDirsOf[written[k].guid]
  BY DEF PlainRecords
<1> DEFINE r == written[k]
<1>1. Passed(r, i, j)
  BY DEF WalkContext, WrittenUpTo
<1> HIDE DEF r
<1>2. CASE \E a \in DOMAIN nodes : Comes(r, a)
  <2>1. PICK a \in DOMAIN nodes : Comes(r, a)
    BY <1>2
  <2>2. r.guid = nodes[a].guid /\ r.outputs = OutputsOf[nodes[a].guid] \cup nodes[a].discovered
    BY <2>1, Lists, EmitsOfNode DEF WalkContext, Comes
  <2> QED
    BY <2>2 DEF WalkContext, NodesInv, r
<1>3. CASE \E a \in DOMAIN nodes, b \in DOMAIN previous : Renewed(r, a, b)
  <2>1. PICK a \in DOMAIN nodes, b \in DOMAIN previous : Renewed(r, a, b)
    BY <1>3
  <2>2. nodes[a].leaf \in Nat /\ previous[b] \in Records
    BY Lists DEF WalkContext, RuntimeNodes
  <2>3. r.guid = previous[b].guid /\ r.outputs = previous[b].outputs
    BY <2>1, <2>2, EmitsOfRecord DEF Renewed
  <2> QED
    BY <2>3 DEF PlainRecords, r
<1>4. CASE \E b \in DOMAIN previous : Kept(r, b)
  BY <1>4 DEF Kept, PlainRecords, r
<1> QED
  BY <1>1, <1>2, <1>3, <1>4 DEF Passed

\* Once the walk is over, what was recorded of a file that is still there is in
\* the records written: of a node that ran anew, which then found the file, with
\* all the graphs the earlier record named.
LEMMA NothingIsForgotten ==
    ASSUME WalkContext, PlainRecords(previous), i = Len(nodes) + 1, j = Len(previous) + 1,
           NEW f \in disk, NEW d, NEW b \in DOMAIN previous,
           f \in previous[b].outputs, d \in previous[b].dags
    PROVE  \E k \in DOMAIN written : f \in written[k].outputs /\ d \in written[k].dags
<1>1. /\ previous[b] \in Records /\ b < j
      /\ \A a \in DOMAIN nodes : a < i /\ nodes[a] \in RuntimeNodes /\ nodes[a].leaf \in Nat
  BY Lists DEF WalkContext, RuntimeNodes
<1> SUFFICES \E r \in Records : Passed(r, i, j) /\ f \in r.outputs /\ d \in r.dags
  BY DEF WalkContext, WrittenUpTo
<1>2. CASE \A a \in DOMAIN nodes : nodes[a].result # "kDidNotRun" => nodes[a].guid # previous[b].guid
  <2>1. PreviousIsValid(previous[b])
    BY DEF PreviousIsValid, IsPreviouslyBuiltNodeValidForWritingToBuiltNodes
  <2>2. Passed(previous[b], i, j)
    BY <1>1, <1>2, <2>1 DEF Kept, Passed
  <2> QED
    BY <1>1, <2>2
<1>3. CASE \E a \in DOMAIN nodes : nodes[a].result # "kDidNotRun" /\ nodes[a].guid = previous[b].guid
  <2>1. PICK a \in DOMAIN nodes : nodes[a].result # "kDidNotRun" /\ nodes[a].guid = previous[b].guid
    BY <1>3
  <2>2. CASE nodes[a].result = "kUpToDate"
    <3> DEFINE r == EmitBuiltNodeFromPreviouslyBuiltNode(previous[b], nodes[a].leaf)
    <3>1. r \in Records /\ r.outputs = previous[b].outputs /\ r.dags = previous[b].dags
      BY <1>1, EmitsOfRecord
    <3> HIDE DEF r
    <3>2. Renewed(r, a, b)
      BY <2>1, <2>2 DEF Renewed, r
    <3>3. Passed(r, i, j)
      BY <1>1, <3>2 DEF Passed
    <3> QED
      BY <3>1, <3>3
  <2>3. CASE nodes[a].result # "kUpToDate"
    <3> DEFINE r == EmitBuiltNodeFromRuntimeNode(nodes[a], dag)
    <3>1. /\ r \in Records /\ r.outputs = OutputsOf[nodes[a].guid] \cup nodes[a].discovered
          /\ r.dags = nodes[a].seenBy \cup {dag}
      BY <1>1, EmitsOfNode DEF WalkContext
    <3> HIDE DEF r
    <3>2. Passed(r, i, j)
      BY <1>1, <2>1, <2>3 DEF Passed, Comes, r
    <3>3. Ran(nodes[a])
      BY <1>1, <2>1, <2>3 DEF Ran, RuntimeNodes, NodeBuildResult
    <3>4. nodes[a].discovered = InDirsOf[nodes[a].guid] \cap disk
      BY <3>3 DEF WalkContext, NodesInv
    <3>5. f \in OutputsOf[nodes[a].guid] \cup InDirsOf[nodes[a].guid]
      BY <2>1 DEF PlainRecords
    <3>6. b \in Own(nodes[a].guid)
      BY <2>1 DEF Own
    <3>7. d \in nodes[a].seenBy
      BY <3>6 DEF WalkContext, NodesInv
    <3> QED
      BY <3>1, <3>2, <3>4, <3>5, <3>7
  <2> QED
    BY <2>2, <2>3
<1> QED
  BY <1>2, <1>3
\* A process that ends leaves its files.
LEMMA EndStep ==
    ASSUME Inv, Exit, Forget, UNCHANGED <<disk, graphFiles>>,
           IsStateFile(stateFile)', IsStateFile(mapped)', cutShort' \in BOOLEAN,
           wroteFor' \in [Files -> SUBSET Dags], SavedInv', HistoryInv',
           ~cutShort' => Settled
    PROVE  Inv'
<1>1. TypeOK /\ UNCHANGED <<disk, frozen, derived>>
  BY DEF Inv, graphFiles
<1>2. /\ Idle' /\ previous' = <<>> /\ dag' = NoGraph.dag
      /\ phase' = "exited" /\ json' = NoGraph /\ hadDerived' = FALSE
  BY DEF Exit, Forget, Idle
<1>3. TypeOK'
  <2>1. Len(nodes') = 0 /\ Len(previous') = 0
    BY <1>2 DEF Idle
  <2>2. i' \in 1 .. Len(nodes') + 1 /\ j' \in 1 .. Len(previous') + 1
    BY <1>2, <2>1 DEF Idle
  <2>3. nodes' \in Seq(RuntimeNodes) /\ previous' \in Seq(Records) /\ written' \in Seq(Records)
    BY <1>2 DEF Idle
  <2>4. IsStateFile(stateFile)' /\ IsStateFile(mapped)'
    OBVIOUS
  <2> QED
    BY <1>1, <1>2, <2>2, <2>3, <2>4 DEF TypeOK, Idle, Phases
<1>4. MemoryInv'
  BY <1>2 DEF MemoryInv, Loaded, Idle
<1>5. GraphInv'
  BY <1>1, <1>2 DEF GraphInv, Settled, Checked, Frozen
<1>6. StaleOutputsAreGone'
  BY <1>2 DEF StaleOutputsAreGone
<1>7. WalkInv'
  BY <1>2, NothingToWalk
<1> QED
  BY <1>3, <1>4, <1>5, <1>6, <1>7 DEF Inv

LEMMA SavingStep ==
    ASSUME Inv, CommitState \/ SavingStateFails
    PROVE  Inv'
<1>1. TypeOK /\ MemoryInv /\ GraphInv /\ SavedInv /\ HistoryInv /\ WalkInv
  BY DEF Inv
<1>2. phase = "save" /\ pc = "done" /\ Exit /\ Forget /\ UNCHANGED <<disk, graphFiles>>
  BY DEF CommitState, SavingStateFails
<1>3. ~cutShort => Settled
  BY <1>1, <1>2 DEF GraphInv, Settled
<1>4. CASE SavingStateFails
  <2>1. UNCHANGED <<stateFile, mapped, cutShort, wroteFor>>
    BY <1>4 DEF SavingStateFails, stateFiles, history
  <2>2. Recorded(Remembered)' = Recorded(Remembered)
    BY <2>1 DEF Recorded, Remembered
  <2>3. SavedInv' /\ HistoryInv'
    BY <1>1, <2>1, <2>2 DEF SavedInv, SortedByGuid, PlainRecords, Recorded, HistoryInv
  <2> QED
    BY <1>1, <1>2, <1>3, <2>1, <2>3, EndStep DEF TypeOK, IsStateFile
<1>5. CASE CommitState
  <2>1. /\ UNCHANGED <<mapped, cutShort>> /\ stateFile' = <<written>>
        /\ wroteFor' = [f \in Files |->
               IF f \notin disk THEN {}
               ELSE IF \E k \in DOMAIN nodes : f \in WrittenBy(nodes[k])
               THEN wroteFor[f] \cup {dag} ELSE wroteFor[f]]
    BY <1>5 DEF CommitState
  <2>2. WalkContext
    BY <1>2, ContextOfSaving
  <2>3. i = Len(nodes) + 1 /\ j = Len(previous) + 1
    BY <1>1, <1>2 DEF WalkInv, IteratorsInv
  <2>4. previous = Recorded(Remembered) /\ PlainRecords(previous)
    BY <1>1, <1>2, RememberedIsOne DEF MemoryInv
  <2>5. written \in Seq(Records) /\ SortedByGuid(written) /\ PlainRecords(written)
    BY <2>2, <2>4, WrittenIsPlain DEF WalkContext, WrittenUpTo, TypeOK
  <2>6. IsStateFile(stateFile)' /\ Recorded(stateFile)' = written /\ stateFile' # NoFile
    BY <2>1, <2>5 DEF IsStateFile, Recorded, NoFile
  <2>7. Recorded(Remembered)' = written
    BY <2>6 DEF Recorded, Remembered
  <2>8. SavedInv'
    <3>1. Recorded(mapped)' = Recorded(mapped)
      BY <2>1 DEF Recorded
    <3>2. SortedByGuid(Recorded(mapped)) /\ PlainRecords(Recorded(mapped))
      BY <1>1 DEF SavedInv
    <3> QED
      BY <2>5, <2>6, <3>1, <3>2 DEF SavedInv, SortedByGuid, PlainRecords
  <2>9. wroteFor' \in [Files -> SUBSET Dags]
    BY <1>1, <2>1, <2>2 DEF TypeOK, WalkContext
  <2>10. HistoryInv'
    <3> SUFFICES ASSUME NEW f \in Files, NEW d \in wroteFor'[f]
                 PROVE  \E k \in DOMAIN written : f \in written[k].outputs /\ d \in written[k].dags
      BY <2>7 DEF HistoryInv
    <3>1. f \in disk
      BY <2>1
    <3>2. CASE d \in wroteFor[f]
      <4>1. PICK b \in DOMAIN previous : f \in previous[b].outputs /\ d \in previous[b].dags
        BY <1>1, <2>4, <3>2 DEF HistoryInv
      <4> QED
        BY <2>2, <2>3, <2>4, <3>1, <4>1, NothingIsForgotten
    <3>3. CASE d \notin wroteFor[f]
      <4>1. PICK a \in DOMAIN nodes : d = dag /\ f \in WrittenBy(nodes[a])
        BY <2>1, <3>1, <3>3
      <4> DEFINE r == EmitBuiltNodeFromRuntimeNode(nodes[a], dag)
      <4>2. nodes[a] \in RuntimeNodes /\ a < i
        BY <2>2, <2>3, Lists DEF WalkContext
      <4>3. /\ r \in Records /\ r.outputs = OutputsOf[nodes[a].guid] \cup nodes[a].discovered
            /\ r.dags = nodes[a].seenBy \cup {dag}
        BY <2>2, <4>2, EmitsOfNode DEF WalkContext
      <4> HIDE DEF r
      <4>4. nodes[a].result \in {"kRanSuccesfully", "kRanFailed"}
        BY <4>1 DEF WrittenBy
      <4>5. f \in r.outputs /\ d \in r.dags
        BY <4>1, <4>3, <4>4 DEF WrittenBy
      <4>6. Passed(r, i, j)
        BY <4>2, <4>4 DEF Passed, Comes, r
      <4>7. PICK k \in DOMAIN written : written[k] = r
        BY <2>2, <4>3, <4>6 DEF WalkContext, WrittenUpTo
      <4> QED
        BY <4>5, <4>7
    <3> QED
      BY <3>2, <3>3
  <2> QED
    BY <1>1, <1>2, <1>3, <2>1, <2>6, <2>8, <2>9, <2>10, EndStep DEF TypeOK, IsStateFile
<1> QED
  BY <1>4, <1>5

LEMMA KillStep ==
    ASSUME Inv, Kill
    PROVE  Inv'
<1>1. TypeOK /\ MemoryInv /\ GraphInv /\ SavedInv /\ HistoryInv
  BY DEF Inv
<1>2. /\ Exit /\ Forget /\ UNCHANGED <<disk, graphFiles>>
      /\ UNCHANGED <<stateFile, mapped, wroteFor>> /\ phase # "exited"
      /\ cutShort' = (cutShort \/ (json # NoGraph /\ phase \in {"freezing", "load", "cycles", "derive"})
                               \/ phase = "deriving")
  BY DEF Kill, stateFiles
<1>3. Recorded(Remembered)' = Recorded(Remembered)
  BY <1>2 DEF Recorded, Remembered
<1>4. SavedInv' /\ HistoryInv'
  BY <1>1, <1>2, <1>3 DEF SavedInv, SortedByGuid, PlainRecords, Recorded, HistoryInv
<1>5. ~cutShort' => Settled
  <2> SUFFICES ASSUME ~cutShort'
               PROVE  Settled
    OBVIOUS
  <2>1. /\ ~cutShort /\ phase # "deriving"
        /\ json # NoGraph => phase \notin {"freezing", "load", "cycles", "derive"}
    BY <1>2
  <2>2. phase \notin {"freezing", "cycles"}
    BY <1>1, <2>1 DEF MemoryInv
  <2>3. phase # "derive"
    BY <1>1, <2>1 DEF GraphInv
  <2> QED
    BY <1>1, <1>2, <2>1, <2>2, <2>3 DEF GraphInv, Settled, TypeOK, Phases
<1>6. cutShort' \in BOOLEAN
  BY <1>1, <1>2 DEF TypeOK
<1> QED
  BY <1>1, <1>2, <1>4, <1>5, <1>6, EndStep DEF TypeOK, IsStateFile

LEMMA DeletionStep ==
    ASSUME Inv, NEW f \in Files, UserDeletes(f)
    PROVE  Inv'
<1>1. TypeOK /\ MemoryInv /\ GraphInv /\ SavedInv /\ HistoryInv
  BY DEF Inv
<1>2. /\ UNCHANGED <<dag, nodes, previous, i, j, written, pc, frozen, derived, stateFile, mapped,
                     phase, json, hadDerived, cutShort>>
      /\ phase = "exited" /\ disk' = disk \ {f} /\ wroteFor' = [wroteFor EXCEPT ![f] = {}]
  BY DEF UserDeletes, walk, options, graphFiles, stateFiles
<1>3. wroteFor' \in [Files -> SUBSET Dags] /\ \A g \in Files : wroteFor'[g] \subseteq wroteFor[g]
  BY <1>1, <1>2 DEF TypeOK
<1>4. TypeOK'
  BY <1>1, <1>2, <1>3 DEF TypeOK
<1>5. MemoryInv'
  BY <1>1, <1>2 DEF MemoryInv, Loaded
<1>6. GraphInv'
  BY <1>1, <1>2 DEF GraphInv, Settled, Checked, Frozen
<1>7. SavedInv' /\ HistoryInv'
  <2>1. Recorded(Remembered)' = Recorded(Remembered)
    BY <1>2 DEF Recorded, Remembered
  <2>2. SavedInv'
    BY <1>1, <1>2 DEF SavedInv, SortedByGuid, PlainRecords, Recorded
  <2>3. HistoryInv'
    BY <1>1, <1>3, <2>1 DEF HistoryInv
  <2> QED
    BY <2>2, <2>3
<1>8. StaleOutputsAreGone'
  BY <1>2 DEF StaleOutputsAreGone
<1>9. Idle' /\ previous' \in Seq(Records)
  BY <1>1, <1>2 DEF MemoryInv, Idle
<1> QED
  BY <1>4, <1>5, <1>6, <1>7, <1>8, <1>9, NothingToWalk DEF Inv
---------------------------------------------------------------------------
(* The theorems *)

LEMMA InvHoldsAtFirst ==
    ASSUME Init
    PROVE  Inv
<1> USE DEF Init
<1>1. TypeOK
  <2>1. IsStateFile(NoFile)
    BY DEF IsStateFile, NoFile
  <2>2. Len(nodes) = 0 /\ Len(previous) = 0
    OBVIOUS
  <2>3. i \in 1 .. Len(nodes) + 1 /\ j \in 1 .. Len(previous) + 1
    BY <2>2
  <2>4. nodes \in Seq(RuntimeNodes) /\ previous \in Seq(Records) /\ written \in Seq(Records)
    OBVIOUS
  <2>5. wroteFor \in [Files -> SUBSET Dags] /\ disk \subseteq Files
    OBVIOUS
  <2>6. IsStateFile(stateFile) /\ IsStateFile(mapped)
    BY <2>1
  <2> HIDE DEF Init
  <2>7. /\ dag = NoGraph.dag /\ pc = "idle" /\ phase = "exited" /\ json = NoGraph
        /\ hadDerived = FALSE /\ cutShort = FALSE /\ frozen = NoFile /\ derived = NoFile
    BY DEF Init
  <2> QED
    BY <2>3, <2>4, <2>5, <2>6, <2>7 DEF TypeOK, Phases
<1>2. MemoryInv /\ GraphInv /\ StaleOutputsAreGone /\ HistoryInv
  BY DEF MemoryInv, Loaded, GraphInv, Settled, StaleOutputsAreGone, HistoryInv
<1>3. SavedInv
  BY DEF SavedInv, Recorded, SortedByGuid, PlainRecords
<1>4. WalkInv
  <2>1. DOMAIN nodes = {} /\ DOMAIN previous = {} /\ DOMAIN written = {}
    OBVIOUS
  <2> QED
    BY <2>1 DEF WalkInv, NodesInv, SortedByGuid, IteratorsInv, Between, WrittenInv, WrittenUpTo, Passed
<1> QED
  BY <1>1, <1>2, <1>3, <1>4 DEF Inv

LEMMA InvIsKept ==
    ASSUME Inv, [Next]_allVars
    PROVE  Inv'
<1>1. CASE FreezeFails \/ BeginFreezeDag \/ FinishFreezeDag \/ FlushFails
  BY <1>1, FreezingStep
<1>2. CASE LoadDag \/ DetectCyclicDependencies \/ LoadDagDerived
  BY <1>2, LoadingStep
<1>3. CASE BeginCompileDagDerived \/ FinishCompileDagDerived \/ OnlyReports
  BY <1>3, DerivingStep
<1>4. CASE LoadState
  BY <1>4, StateStep
<1>5. CASE RemoveStaleOutputs
  BY <1>5, StaleStep
<1>6. CASE DriverBuild
  BY <1>6, BuildStep
<1>7. CASE WalkRecords
  BY <1>7, WalkStep
<1>8. CASE CommitState \/ SavingStateFails
  BY <1>8, SavingStep
<1>9. CASE Kill
  BY <1>9, KillStep
<1>10. ASSUME NEW g \in Graphs \cup {NoGraph}, StartRun(g)
       PROVE  Inv'
  BY <1>10, StartingStep
<1>11. ASSUME NEW f \in Files, UserDeletes(f)
       PROVE  Inv'
  BY <1>11, DeletionStep
<1>12. CASE UNCHANGED allVars
  <2>1. UNCHANGED <<dag, disk, nodes, previous, i, j, written, pc, phase, json, hadDerived,
                    frozen, derived, stateFile, mapped, cutShort, wroteFor>>
    BY <1>12 DEF allVars, vars, inputVars, driverVars, options, graphFiles, stateFiles, history
  <2>2. \A g : Own(g)' = Own(g)
    BY <2>1 DEF Own
  <2>3. TypeOK'
    BY <2>1 DEF Inv, TypeOK, IsStateFile
  <2>4. MemoryInv'
    BY <2>1 DEF Inv, MemoryInv, Frozen, Recorded, Remembered
  <2>5. GraphInv'
    BY <2>1 DEF Inv, GraphInv, Settled, Checked, Frozen
  <2>6. StaleOutputsAreGone'
    BY <2>1 DEF Inv, StaleOutputsAreGone, CurrentOutputs, Sheltered, Frozen
  <2>7. SavedInv' /\ HistoryInv'
    BY <2>1 DEF Inv, SavedInv, HistoryInv, SortedByGuid, PlainRecords, Recorded, Remembered
  <2>8. NodesInv'
    BY <2>1, <2>2 DEF Inv, WalkInv, NodesInv, SortedByGuid, Ran, Own
  <2>9. IteratorsInv'
    BY <2>1 DEF Inv, WalkInv, IteratorsInv, Between, PreviousIsValid, Graph
  <2>10. WrittenInv'
    <3>1. \A r : Passed(r, i, j)' <=> Passed(r, i, j)
      BY <2>1 DEF Passed, Comes, Renewed, Kept, PreviousIsValid, Graph
    <3>2. \A k \in DOMAIN written' : Passed(written[k], i, j)' <=> Passed(written[k], i, j)
      BY <2>1 DEF Passed, Comes, Renewed, Kept, PreviousIsValid, Graph
    <3> QED
      BY <2>1, <3>1, <3>2 DEF Inv, WalkInv, WrittenInv, WrittenUpTo, SortedByGuid
  <2> QED
    BY <2>3, <2>7, <2>8, <2>9, <2>10, <2>4, <2>5, <2>6 DEF Inv, WalkInv
<1> QED
  BY <1>1, <1>2, <1>3, <1>4, <1>5, <1>6, <1>7, <1>8, <1>9, <1>10, <1>11, <1>12 DEF Next, main

\* The inductive invariant: what the files hold and the memory of a run has of
\* them in each phase, and how far the walk of the records has come.
THEOREM LifecycleInvariant == Spec => []Inv
<1>1. Init => Inv
  BY InvHoldsAtFirst
<1>2. Inv /\ [Next]_allVars => Inv'
  BY InvIsKept
<1> QED
  BY <1>1, <1>2, PTL DEF Spec

\* The state file and the one it was mapped from are sorted by guid without
\* duplicates (BuildState), after any runs, accidents and failures to save.
THEOREM SpecStateIsSorted == Spec => []StateIsSorted
<1>1. Inv => StateIsSorted
  BY DEF Inv, SavedInv, WalkInv, WrittenInv, WrittenUpTo, StateIsSorted
<1> QED
  BY <1>1, LifecycleInvariant, PTL

\* Outside of the window in which the graph is renewed and a run is cut short,
\* what is built is a whole graph without a cycle and the data derived from it.
THEOREM SpecBuiltGraphIsChecked == Spec => []BuiltGraphIsChecked
<1>1. Inv => BuiltGraphIsChecked
  BY DEF Inv, GraphInv, Checked, BuiltGraphIsChecked
<1> QED
  BY <1>1, LifecycleInvariant, PTL

\* The two iterators of SaveAllBuiltNodes skip and drain their way to just the
\* records that should be in the file, for any nodes and any earlier records.
THEOREM SpecWritesMergedRecords == Spec => []WritesMergedRecords
<1>1. Inv => WritesMergedRecords
  <2> SUFFICES ASSUME Inv, pc = "done"
               PROVE  {written[k] : k \in DOMAIN written} = MergedRecords
    BY DEF WritesMergedRecords
  <2>1. phase = "save"
    BY DEF Inv, MemoryInv
  <2>2. WalkContext
    BY <2>1, ContextOfSaving
  <2>3. i = Len(nodes) + 1 /\ j = Len(previous) + 1
    BY DEF Inv, WalkInv, IteratorsInv
  <2> QED
    BY <2>2, <2>3, AllIsMerged
<1> QED
  BY <1>1, LifecycleInvariant, PTL

\* A file that a build wrote and recorded stays in the records the next run will
\* load for as long as it exists, whatever graphs are built in between.
THEOREM SpecWrittenFilesAreRemembered == Spec => []WrittenFilesAreRemembered
<1>1. Inv => WrittenFilesAreRemembered
  BY DEF Inv, HistoryInv, TypeOK, WrittenFilesAreRemembered
<1> QED
  BY <1>1, LifecycleInvariant, PTL

\* RemoveStaleOutputs leaves no file that an earlier build of a graph with this
\* identifier wrote and that is no output of it any more.
THEOREM SpecStaleOutputsAreGone == Spec => []StaleOutputsAreGone
<1>1. Inv => StaleOutputsAreGone
  BY DEF Inv
<1> QED
  BY <1>1, LifecycleInvariant, PTL
=============================================================================
