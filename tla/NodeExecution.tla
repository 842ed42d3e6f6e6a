--------------------------- MODULE NodeExecution ---------------------------
(***************************************************************************)
(* What happens to the nodes of a graph between being picked and being     *)
(* finished: ExecuteNode of BuildLoop.cpp with everything it calls, the    *)
(* input signature, the file caches, RunAction, the timestamps taken       *)
(* before the action and compared after it, and the build state that the   *)
(* next build starts from.  Several nodes run at once; the user edits      *)
(* sources at any moment; the program may be killed; file times tick.      *)
(*                                                                         *)
(* A node has one output.  A content is a sequence of numbers: <<k>> for   *)
(* the k-th text of a source, and for an output the contents its action    *)
(* read, one after the other.                                              *)
(***************************************************************************)
EXTENDS FileCaches, FiniteSets, SequencesExt

CONSTANTS
    Nodes, Files,
    Dir,          \* the directory all outputs are in
    Scenarios     \* the graphs and surroundings looked at, by name

VARIABLES
    scenario,
    clock,        \* what a file written now is dated
    lastSeen,     \* FileSystem::g_LastSeenFileSystemTime
    mode,         \* "between" builds, "building", or "saved" the state
    run,          \* run[n]: the frame of the thread that executes n
    built,        \* built[n]: the BuiltNode of the state file
    savedDigests, \* the digest cache file
    builds, edits, kills,  \* how many there were, bounded by the scenario
    edited,       \* whether the user touched anything since the build began
    read,         \* read[n]: the times of the files when the action read them
    torn          \* nodes whose record was good when they were killed with half an output

scenarioVars == <<scenario, builds, edits, kills>>
persistent == <<built, savedDigests>>
history == <<edited, read, torn>>
vars == <<disk, caches, scenario, clock, lastSeen, mode, run, persistent,
          builds, edits, kills, history>>

sc == Scenarios[scenario]
Graph == DOMAIN sc.inputs
Inputs(n) == sc.inputs[n]
Output(n) == sc.output[n]
Outputs == {Output(n) : n \in Graph}
\* The list of inputs that no node makes, from the data derived from the graph.
Sources(n) == sc.sources[n]
Producers(n) == {p \in Graph : Output(p) \in ToSet(Inputs(n))}
Readers(f) == {n \in Graph : f \in ToSet(Inputs(n))}
Present == ToSet(FlattenSeq(SetToSeq({Inputs(n) : n \in Graph}))) \cup Outputs

\* No file is made by two nodes: the program that writes the graph sees to it, and
\* that no node needs itself is checked before anything is built (DetectCycles).
ASSUME ScenarioAssumption ==
    /\ IsFiniteSet(Nodes)
    /\ Dir \in Files
    /\ \A s \in DOMAIN Scenarios :
        LET inputs == Scenarios[s].inputs
            output == Scenarios[s].output
            outputs == {output[n] : n \in DOMAIN inputs}
        IN  /\ DOMAIN inputs \subseteq Nodes
            /\ \A n \in DOMAIN inputs :
                   /\ inputs[n] \in Seq(Files \ {Dir})
                   /\ Scenarios[s].sources[n] \in Seq(Files)
                   /\ ToSet(Scenarios[s].sources[n]) = ToSet(inputs[n]) \ outputs
                   /\ output[n] \in Files \ {Dir}
            /\ \A m, n \in DOMAIN inputs : output[m] = output[n] => m = n
            /\ \A ns \in SUBSET DOMAIN inputs :
                   ns # {} => \E n \in ns : \A p \in ns : output[p] \notin ToSet(inputs[n])
            /\ Scenarios[s].outcomes \subseteq {"succeeds", "fails", "silent"}
            /\ Scenarios[s].future \in Nat

NotBuilt == [result |-> "none", sig |-> <<>>]

Frame == [phase |-> "idle", step |-> "look", i |-> 1, known |-> FALSE,
          seen |-> 0, sig |-> <<>>, stamps |-> <<>>, future |-> FALSE,
          pre |-> 0, acted |-> "no", made |-> <<>>, result |-> "kDidNotRun",
          doubtful |-> FALSE]

Active(n) == run[n].phase \notin {"idle", "finished"}
Successful(n) == run[n].result \in {"kUpToDate", "kRanSuccesfully"}

\* The action writes what it makes of the contents it reads.
Made(contents) == FlattenSeq(contents)
Torn == <<0>>

---------------------------------------------------------------------------
(* StatCacheStat: a lookup under the read lock, the unlocked lstat, and    *)
(* the insertion or update under the write lock.  What the caller does     *)
(* with the answer is AfterStat.                                           *)

Goto(r, phase) == [r EXCEPT !.phase = phase, !.step = "look", !.i = 1]
Finish(r, result) == [r EXCEPT !.phase = "finished", !.result = result]

\* A node without inputs has nothing to sign.
FirstOfNode(n) == IF Inputs(n) = <<>> THEN "compare" ELSE "sign"
\* A node without sources has no timestamp to store.
FirstOfRun(n) == IF Sources(n) = <<>> THEN "clock" ELSE "stamps"

StatFile(n) ==
    LET r == run[n] IN
    CASE r.phase = "sign" -> Inputs(n)[r.i]
      [] r.phase \in {"stamps", "validate"} -> Sources(n)[r.i]
      [] r.phase = "outputs" -> Output(n)
      [] r.phase = "mkdir" -> Dir

\* CalculateInputSignature: one entry for every input.
SignNext(n, r) ==
    IF r.i < Len(Inputs(n)) THEN [r EXCEPT !.phase = "sign", !.step = "look", !.i = @ + 1]
                            ELSE Goto(r, "compare")
WithEntry(r, entry) == [r EXCEPT !.sig = Append(@, entry)]
Signed(n, r, entry) == SignNext(n, WithEntry(r, entry))

\* ComputeFileSignature
SignInput(n, r, t) ==
    IF Inputs(n)[r.i] \in sc.digests
    THEN IF t = 0 THEN Signed(n, r, NoContent) ELSE [r EXCEPT !.phase = "digest", !.seen = t]
    ELSE Signed(n, r, <<t>>)

\* StoreTimestampsOfNonGeneratedInputFiles
StoreTimestamp(n, r, t) ==
    LET s == [r EXCEPT !.stamps = Append(@, t)] IN
    IF r.i < Len(Sources(n)) THEN [s EXCEPT !.step = "look", !.i = @ + 1] ELSE Goto(s, "clock")

\* ValidateTimestampsOfNonGeneratedInputFiles
ValidateTimestamp(n, r, t) ==
    IF t # r.stamps[r.i] THEN [Finish(r, r.result) EXCEPT !.doubtful = TRUE]
    ELSE IF r.i < Len(Sources(n)) THEN [r EXCEPT !.step = "dirty", !.i = @ + 1]
    ELSE Finish(r, r.result)

AfterStat(n, r, t) ==
    CASE r.phase = "sign"     -> SignInput(n, r, t)
      [] r.phase = "outputs"  -> IF t = 0 THEN Goto(r, FirstOfRun(n)) ELSE Finish(r, "kUpToDate")
      [] r.phase = "stamps"   -> StoreTimestamp(n, r, t)
      [] r.phase = "mkdir"    -> IF t = 0 THEN Goto(r, "make") ELSE Goto(r, "pre")
      [] r.phase = "validate" -> ValidateTimestamp(n, r, t)

InStat(n, step) ==
    /\ run[n].phase \in {"sign", "outputs", "stamps", "mkdir", "validate"}
    /\ run[n].step = step

StatCacheStat(n) ==
    /\ InStat(n, "look")
    /\ run' = [run EXCEPT ![n] =
           IF StatCacheIsClean(StatFile(n))
           THEN AfterStat(n, @, HashTableLookup(StatFile(n)).mtime)
           ELSE [@ EXCEPT !.step = "info", !.known = StatCacheKnows(StatFile(n))]]
    /\ UNCHANGED <<disk, caches, clock, lastSeen, mode, persistent, scenarioVars, history>>

StatTheFile(n) ==
    /\ InStat(n, "info")
    /\ run' = [run EXCEPT ![n] = [@ EXCEPT !.step = "store", !.seen = GetFileInfo(StatFile(n))]]
    /\ UNCHANGED <<disk, caches, clock, lastSeen, mode, persistent, scenarioVars, history>>

StoreStat(n) ==
    /\ InStat(n, "store")
    /\ IF run[n].known THEN StatCacheUpdate(StatFile(n), run[n].seen)
                       ELSE StatCacheInsert(StatFile(n), run[n].seen)
    /\ run' = [run EXCEPT ![n] = AfterStat(n, @, @.seen)]
    /\ UNCHANGED <<disk, digestCache, clock, lastSeen, mode, persistent, scenarioVars, history>>

---------------------------------------------------------------------------
(* ComputeFileSignatureSha1: the digest known for the timestamp, or the    *)
(* content read now and remembered under the timestamp looked up before.   *)

GetDigest(n) ==
    LET f == Inputs(n)[run[n].i] IN
    /\ run[n].phase = "digest"
    /\ run' = [run EXCEPT ![n] =
           IF DigestCacheHas(f, @.seen) THEN Signed(n, @, digestCache[f].content)
                                        ELSE [@ EXCEPT !.phase = "hash"]]
    /\ UNCHANGED <<disk, caches, clock, lastSeen, mode, persistent, scenarioVars, history>>

\* A file that is gone by now has the empty digest, which is not stored.
HashContent(n) ==
    LET c == disk[Inputs(n)[run[n].i]].content IN
    /\ run[n].phase = "hash"
    /\ run' = [run EXCEPT ![n] =
           IF c = NoContent THEN Signed(n, @, c)
                            ELSE [WithEntry(@, c) EXCEPT !.phase = "remember"]]
    /\ UNCHANGED <<disk, caches, clock, lastSeen, mode, persistent, scenarioVars, history>>

RememberDigest(n) ==
    LET r == run[n] IN
    /\ r.phase = "remember"
    /\ DigestCacheSet(Inputs(n)[r.i], r.seen, Last(r.sig))
    /\ run' = [run EXCEPT ![n] = SignNext(n, @)]
    /\ UNCHANGED <<disk, statCache, clock, lastSeen, mode, persistent, scenarioVars, history>>

---------------------------------------------------------------------------
(* CheckInputSignatureToSeeNodeNeedsExecuting, and the look at the file    *)
(* system's clock before the action.                                       *)

\* Mutant: only the signature is looked at, not how the last run went.
NeedsRun_SignatureOnly(n) == built[n].result = "none" \/ built[n].sig # run[n].sig

NeedsRun(n) ==
    \/ built[n].result \in {"none", "failed", "doubtful"}
    \/ sc.dontReuse
    \/ built[n].sig # run[n].sig

CheckInputSignature(n) ==
    /\ run[n].phase = "compare"
    /\ run' = [run EXCEPT ![n] = Goto(@, IF ~NeedsRun(n) THEN "outputs"
                                         ELSE FirstOfRun(n))]
    /\ UNCHANGED <<disk, caches, clock, lastSeen, mode, persistent, scenarioVars, history>>

Latest(n) == Max({0} \cup ToSet(run[n].stamps))

CheckClock(n) ==
    LET past == Latest(n) < lastSeen IN
    /\ run[n].phase = "clock"
    /\ lastSeen' = IF past THEN lastSeen ELSE clock
    /\ run' = [run EXCEPT ![n] =
           IF ~past /\ Latest(n) = clock THEN Goto(@, "wait")
           ELSE [Goto(@, "remove") EXCEPT !.future = ~past /\ Latest(n) > clock]]
    /\ UNCHANGED <<disk, caches, clock, mode, persistent, scenarioVars, history>>

\* Mutant: the wait never looks at the file system's time again.
WaitUntilInThePast_Unrefreshed(n) ==
    /\ run[n].phase = "wait"
    /\ lastSeen > Latest(n)
    /\ run' = [run EXCEPT ![n] = Goto(@, "remove")]
    /\ UNCHANGED <<disk, caches, clock, lastSeen, mode, persistent, scenarioVars, history>>

WaitUntilInThePast(n) ==
    /\ run[n].phase = "wait"
    /\ clock > Latest(n)
    /\ lastSeen' = clock
    /\ run' = [run EXCEPT ![n] = Goto(@, "remove")]
    /\ UNCHANGED <<disk, caches, clock, mode, persistent, scenarioVars, history>>

---------------------------------------------------------------------------
(* RunAction *)

Writes(f, c) == disk' = [disk EXCEPT ![f] = [content |-> c, mtime |-> clock]]

RemoveOutput(n) ==
    /\ run[n].phase = "remove"
    /\ disk' = IF sc.overwrites THEN disk ELSE [disk EXCEPT ![Output(n)] = Absent]
    /\ run' = [run EXCEPT ![n] = Goto(@, IF sc.overwrites THEN "mkdir" ELSE "removed")]
    /\ UNCHANGED <<caches, clock, lastSeen, mode, persistent, scenarioVars, history>>

MarkRemoved(n) ==
    /\ run[n].phase = "removed"
    /\ StatCacheMarkDirty(Output(n))
    /\ run' = [run EXCEPT ![n] = Goto(@, "mkdir")]
    /\ UNCHANGED <<disk, digestCache, clock, lastSeen, mode, persistent, scenarioVars, history>>

\* mkdir answers EEXIST for a directory that another node has just made.
MakeDirectorySucceeds == TRUE

MakeDirectory(n) ==
    /\ run[n].phase = "make"
    /\ disk' = [disk EXCEPT ![Dir] = [content |-> NoContent, mtime |-> 1]]
    /\ run' = [run EXCEPT ![n] = IF MakeDirectorySucceeds THEN Goto(@, "made")
                                 ELSE Finish(@, "kRanFailed")]
    /\ UNCHANGED <<caches, clock, lastSeen, mode, persistent, scenarioVars, history>>

MarkMade(n) ==
    /\ run[n].phase = "made"
    /\ StatCacheMarkDirty(Dir)
    /\ run' = [run EXCEPT ![n] = Goto(@, "pre")]
    /\ UNCHANGED <<disk, digestCache, clock, lastSeen, mode, persistent, scenarioVars, history>>

\* The time of the output before the action.  It is compared with time(NULL),
\* which counts seconds where m_Timestamp counts nanoseconds, so the backdating
\* of an output written just now never happens.
TakePreTimestamp(n) ==
    /\ run[n].phase = "pre"
    /\ run' = [run EXCEPT ![n] = [Goto(@, "act") EXCEPT !.pre = GetFileInfo(Output(n))]]
    /\ UNCHANGED <<disk, caches, clock, lastSeen, mode, persistent, scenarioVars, history>>

\* The action reads its inputs and begins to write.
BeginAction(n) ==
    LET in == Inputs(n) IN
    /\ run[n].phase = "act"
    /\ \E outcome \in sc.outcomes :
           /\ run' = [run EXCEPT ![n] = [Goto(@, "acting") EXCEPT
                  !.acted = outcome, !.made = Made([k \in DOMAIN in |-> disk[in[k]].content])]]
           /\ IF outcome = "silent" THEN UNCHANGED disk ELSE Writes(Output(n), Torn)
    /\ read' = [read EXCEPT ![n] = [k \in DOMAIN Sources(n) |-> GetFileInfo(Sources(n)[k])]]
    /\ UNCHANGED <<caches, clock, lastSeen, mode, persistent, scenarioVars, edited, torn>>

EndAction(n) ==
    /\ run[n].phase = "acting"
    /\ IF run[n].acted = "succeeds" THEN Writes(Output(n), run[n].made) ELSE UNCHANGED disk
    /\ run' = [run EXCEPT ![n] = [Goto(@, "post") EXCEPT !.made = NoContent]]
    /\ torn' = IF run[n].acted = "succeeds" THEN torn \ {n} ELSE torn
    /\ UNCHANGED <<caches, clock, lastSeen, mode, persistent, scenarioVars, edited, read>>

CheckWritten(n) ==
    LET untouched == run[n].pre = GetFileInfo(Output(n)) IN
    /\ run[n].phase = "post"
    /\ run' = [run EXCEPT ![n] = [Goto(@, "mark") EXCEPT
           !.result = IF run[n].acted # "fails" /\ ~untouched
                      THEN "kRanSuccesfully" ELSE "kRanFailed"]]
    /\ UNCHANGED <<disk, caches, clock, lastSeen, mode, persistent, scenarioVars, history>>

\* PostRunActionBookkeeping
MarkDigestDirty(n) ==
    /\ run[n].phase = "mark"
    /\ DigestCacheMarkDirty(Output(n))
    /\ run' = [run EXCEPT ![n] = Goto(@, "marked")]
    /\ UNCHANGED <<disk, statCache, clock, lastSeen, mode, persistent, scenarioVars, history>>

MarkStatDirty(n) ==
    /\ run[n].phase = "marked"
    /\ StatCacheMarkDirty(Output(n))
    /\ run' = [run EXCEPT ![n] =
           IF @.future THEN [Finish(@, @.result) EXCEPT !.doubtful = TRUE]
           ELSE IF Sources(n) = <<>> THEN Finish(@, @.result)
           ELSE [Goto(@, "validate") EXCEPT !.step = "dirty"]]
    /\ UNCHANGED <<disk, digestCache, clock, lastSeen, mode, persistent, scenarioVars, history>>

\* Mutant: the time of a source is compared with the remembered one.
MarkSourceDirty_Cached(n) ==
    /\ InStat(n, "dirty")
    /\ run' = [run EXCEPT ![n].step = "look"]
    /\ UNCHANGED <<disk, caches, clock, lastSeen, mode, persistent, scenarioVars, history>>

MarkSourceDirty(n) ==
    /\ InStat(n, "dirty")
    /\ StatCacheMarkDirty(StatFile(n))
    /\ run' = [run EXCEPT ![n].step = "look"]
    /\ UNCHANGED <<disk, digestCache, clock, lastSeen, mode, persistent, scenarioVars, history>>

---------------------------------------------------------------------------
(* The build around the nodes *)

StartBuild ==
    /\ mode = "between"
    /\ builds < sc.builds
    /\ sc.quick \/ \A f \in Outputs : disk[f].mtime < clock
    /\ mode' = "building"
    /\ builds' = builds + 1
    /\ run' = [n \in Nodes |-> Frame]
    /\ statCache' = [f \in Files |-> <<>>]
    /\ digestCache' = savedDigests
    /\ lastSeen' = 0
    /\ edited' = FALSE
    /\ UNCHANGED <<disk, clock, persistent, scenario, edits, kills, read, torn>>

StartNode(n) ==
    /\ mode = "building"
    /\ run[n].phase = "idle"
    /\ \A p \in Producers(n) : run[p].phase = "finished"
    /\ Cardinality({m \in Graph : Active(m)}) < sc.workers
    /\ run' = [run EXCEPT ![n] =
           IF \A p \in Producers(n) : Successful(p) THEN Goto(@, FirstOfNode(n))
                                                    ELSE Finish(@, "kDidNotRun")]
    /\ UNCHANGED <<disk, caches, clock, lastSeen, mode, persistent, scenarioVars, history>>

\* Mutant: a node that ran on inputs in doubt is as good as any.
BuiltNodeResultFor_Optimistic(n) == IF Successful(n) THEN "guaranteed" ELSE "failed"

BuiltNodeResultFor(n) ==
    IF ~Successful(n) THEN "failed" ELSE IF run[n].doubtful THEN "doubtful" ELSE "guaranteed"

SaveAllBuiltNodes ==
    /\ mode = "building"
    /\ \A n \in Graph : run[n].phase = "finished"
    /\ mode' = "saved"
    /\ built' = [n \in Nodes |->
           IF n \notin Graph \/ run[n].result \in {"kDidNotRun", "kUpToDate"} THEN built[n]
           ELSE [result |-> BuiltNodeResultFor(n), sig |-> run[n].sig]]
    /\ UNCHANGED <<disk, caches, clock, lastSeen, run, savedDigests, scenarioVars, history>>

SaveDigestCache ==
    /\ mode = "saved"
    /\ mode' = "between"
    /\ savedDigests' = DigestCacheSaved
    /\ UNCHANGED <<disk, caches, clock, lastSeen, run, built, scenarioVars, history>>

\* What the action left is not an output: it has not ended, or failed.
HalfWritten(n) == run[n].phase = "acting" \/ run[n].acted = "fails"

\* The process is gone; what it had written stays.
Kill ==
    /\ mode # "between"
    /\ kills < sc.kills
    /\ kills' = kills + 1
    /\ mode' = "between"
    /\ torn' = torn \cup {n \in Graph : /\ HalfWritten(n)
                                        /\ built[n] = [result |-> "guaranteed", sig |-> run[n].sig]}
    /\ UNCHANGED <<disk, caches, clock, lastSeen, run, persistent, scenario,
                   builds, edits, edited, read>>

Tick ==
    /\ clock < sc.clock
    /\ clock' = clock + 1
    /\ UNCHANGED <<disk, caches, lastSeen, mode, run, persistent, scenarioVars, history>>

\* A source gets a text it never had, or, where the scenario lets the user
\* go back, one it had before; and the time of the edit, or a later one.
UserEdits(f) ==
    /\ edits < sc.edits
    /\ f \in Present \ Outputs
    /\ \E k \in (IF sc.goesBack THEN 1 .. edits + 1 ELSE {}) \cup {edits + 2},
          t \in clock .. clock + sc.future :
           /\ t < sc.clock
           /\ disk' = [disk EXCEPT ![f] = [content |-> <<k>>, mtime |-> t]]
    /\ edits' = edits + 1
    /\ edited' = TRUE
    /\ UNCHANGED <<caches, clock, lastSeen, mode, run, persistent, scenario,
                   builds, kills, read, torn>>

\* Between builds the user may delete an output, or the whole directory.
UserDeletes ==
    /\ mode = "between"
    /\ edits < sc.edits
    /\ \E gone \in {Outputs \cup {Dir}} \cup {{f} : f \in Outputs} :
           disk' = [f \in Files |-> IF f \in gone THEN Absent ELSE disk[f]]
    /\ edits' = edits + 1
    /\ edited' = TRUE
    /\ UNCHANGED <<caches, clock, lastSeen, mode, run, persistent, scenario,
                   builds, kills, read, torn>>

---------------------------------------------------------------------------
Init ==
    /\ scenario \in DOMAIN Scenarios
    /\ disk = [f \in Files |-> IF f \in Present \ Outputs
                               THEN [content |-> <<1>>, mtime |-> 1] ELSE Absent]
    /\ statCache = [f \in Files |-> <<>>]
    /\ digestCache = [f \in Files |-> NoDigest]
    /\ clock = 1
    /\ lastSeen = 0
    /\ mode = "between"
    /\ run = [n \in Nodes |-> Frame]
    /\ built = [n \in Nodes |-> NotBuilt]
    /\ savedDigests = [f \in Files |-> NoDigest]
    /\ builds = 0 /\ edits = 0 /\ kills = 0
    /\ edited = FALSE
    /\ read = [n \in Nodes |-> <<>>]
    /\ torn = {}

NodeStep(n) ==
    \/ StatCacheStat(n) \/ StatTheFile(n) \/ StoreStat(n)
    \/ GetDigest(n) \/ HashContent(n) \/ RememberDigest(n)
    \/ CheckInputSignature(n) \/ CheckClock(n) \/ WaitUntilInThePast(n)
    \/ RemoveOutput(n) \/ MarkRemoved(n) \/ MakeDirectory(n) \/ MarkMade(n)
    \/ TakePreTimestamp(n) \/ BeginAction(n) \/ EndAction(n) \/ CheckWritten(n)
    \/ MarkDigestDirty(n) \/ MarkStatDirty(n) \/ MarkSourceDirty(n)

Build == \/ SaveAllBuiltNodes \/ SaveDigestCache
         \/ \E n \in Graph : StartNode(n) \/ (mode = "building" /\ NodeStep(n))

User == \/ UserDeletes \/ StartBuild \/ Kill \/ \E f \in Files : UserEdits(f)

Next == Build \/ User \/ Tick

Spec == Init /\ [][Next]_vars
---------------------------------------------------------------------------
(* Properties *)

Phases == {"idle", "sign", "digest", "hash", "remember", "compare", "outputs",
           "stamps", "clock", "wait", "remove", "removed", "mkdir", "make",
           "made", "pre", "act", "acting", "post", "mark", "marked",
           "validate", "finished"}

\* What a build from nothing would leave in a file.
CleanContent ==
    LET c[f \in Files] ==
            IF f \notin Outputs THEN disk[f].content
            ELSE LET n == CHOOSE m \in Graph : Output(m) = f
                 IN  Made([k \in DOMAIN Inputs(n) |-> c[Inputs(n)[k]]])
    IN  c

\* A build that nobody disturbed by editing, and that reports every node as
\* successful, leaves each output as a build from nothing would: whatever was
\* left alone as up to date was made from what its inputs hold now.  This must
\* survive edits during earlier builds, deleted outputs, failed actions and
\* builds that were killed.  It does not hold for a node whose action was still
\* writing, or had failed, when the build was killed, if its record in the state
\* file still calls it good: that node had been run for another reason than its
\* signature, and the next build takes the half-written output for up to date.
IncrementalEqualsClean ==
    mode = "saved" /\ ~edited /\ torn = {} /\ (\A n \in Graph : Successful(n))
    => \A n \in Graph : disk[Output(n)].content = CleanContent[Output(n)]

\* What a node signed of a file other nodes produce is what is in the file when
\* its action runs: no entry of a cache outlives the writing of the file.
GeneratedInputsAreFresh ==
    \A n \in Graph : mode = "building" /\ run[n].phase = "act" =>
        \A k \in DOMAIN Inputs(n) :
            LET f == Inputs(n)[k] IN
            f \in Outputs => run[n].sig[k] =
                IF f \in sc.digests THEN disk[f].content ELSE <<disk[f].mtime>>

\* A node whose signature is recorded as guaranteed ran with every source it
\* alone reads dated as it was when the signature was computed (BuildLoop.cpp:542):
\* an edit while the signature was checked or the action ran is noticed. For a
\* source that another node looks up at the same time the stat cache does not
\* promise it.
GuaranteedMeansUnchanged ==
    \A n \in Graph :
        mode = "building" /\ run[n].phase = "finished" /\ ~run[n].doubtful
        /\ run[n].result = "kRanSuccesfully"
        => \A k \in DOMAIN Sources(n) :
               Readers(Sources(n)[k]) = {n} => run[n].stamps[k] = read[n][k]

\* An action that succeeded and wrote its output does not fail its node: not for
\* a directory that another node was making too, nor for an output whose time
\* does not tell that it was written (RunAction.cpp:265).
NoSpuriousFailure ==
    \A n \in Graph : mode = "building" /\ run[n].phase = "finished"
        /\ run[n].acted \in {"no", "succeeds"} => run[n].result # "kRanFailed"

\* A node that is not run again is one whose last action is known to have
\* succeeded; a record is never made better than the run it is of.
RecordIsEarned ==
    [][\A n \in Nodes : built'[n].result = "guaranteed" /\ built'[n] # built[n]
          => run[n].acted = "succeeds" /\ ~run[n].doubtful]_vars

\* Every build ends, also one that waits for the time of a file to pass.
BuildEnds == (mode = "building") ~> (mode # "building")

FairSpec == Spec /\ WF_vars(Build) /\ WF_vars(Tick)

===========================================================================
