------------------------ MODULE NodeExecutionProofs ------------------------
(***************************************************************************)
(* Proofs about the execution of nodes: for every graph, number of         *)
(* workers, user and clock.                                                *)
(*                                                                         *)
(* Four invariants are proved beside TypeOK, each with the property that   *)
(* it is for.                                                              *)
(*                                                                         *)
(*   EarnedInv (RecordIsEarned): a frame says "kRanSuccesfully" only once  *)
(*     its action succeeded, because the time taken before a silent action *)
(*     is still the time of the output when it is looked at again.         *)
(*   WatchedInv (GuaranteedMeansUnchanged): the stored times of sources    *)
(*     are in the past when the action begins, so a source dated as stored *)
(*     after it was dated so when it was read; and the comparison looks at *)
(*     the disk, because the entry of a source that one node alone reads   *)
(*     is single and has been marked dirty.                                *)
(*   FreshInv (GeneratedInputsAreFresh): a node starts when its producers  *)
(*     are finished, nobody writes their outputs any more, and the entries *)
(*     that the caches have of them are true or dirty.                     *)
(*   CleanInv (IncrementalEqualsClean): as long as the files are dated as  *)
(*     the record of a node says, its output is what its action makes of   *)
(*     them; the frame of a running node has that of its own signature.    *)
(*                                                                         *)
(* The first part says, step by step, what becomes of the frame of a node  *)
(* (the ...Outcome lemmas) and of the disk and the caches (NodeEffects);   *)
(* the proofs of the invariants use those instead of the actions.          *)
(***************************************************************************)
EXTENDS NodeExecution, FiniteSetTheorems, WellFoundedInduction, TLAPS

---------------------------------------------------------------------------
(* Types *)

IsSequence(s) == s \in Seq({s[k] : k \in DOMAIN s})
FrameFields == {"phase", "step", "i", "known", "seen", "sig", "stamps", "future", "pre", "acted",
                "made", "result", "doubtful"}

FrameOK(r) ==
    /\ r = [x \in FrameFields |-> r[x]]
    /\ r.phase \in Phases /\ r.step \in {"look", "info", "store", "dirty"}
    /\ r.i \in Nat \ {0} /\ r.seen \in Nat /\ r.pre \in Nat
    /\ r.future \in BOOLEAN /\ r.doubtful \in BOOLEAN /\ r.known \in BOOLEAN
    /\ r.stamps \in Seq(Nat)
    /\ IsSequence(r.sig)

Signing == {"sign", "digest", "hash", "remember"}
HasSigned == {"compare", "outputs", "stamps", "clock", "wait", "remove", "removed", "mkdir", "make",
            "made", "pre", "act"}
Stamped == {"clock", "wait", "remove", "removed", "mkdir", "make", "made", "pre", "act", "acting",
            "post", "mark", "marked", "validate"}

\* Where a frame is in the list that it goes through.
IndexOK(n, r) ==
    /\ r.phase \in Signing => r.i <= Len(Inputs(n))
    /\ r.phase \in {"stamps", "validate"} => r.i <= Len(Sources(n))
    /\ r.phase \in {"sign", "digest", "hash"} => Len(r.sig) = r.i - 1
    /\ r.phase = "remember" => Len(r.sig) = r.i
    /\ r.phase \in HasSigned \cup Stamped => Len(r.sig) = Len(Inputs(n))
    /\ r.phase = "idle" => r.sig = <<>>
    /\ r.phase \in Signing \cup {"idle", "compare", "outputs"} => r.stamps = <<>>
    /\ r.phase = "stamps" => Len(r.stamps) = r.i - 1
    /\ r.phase \in Stamped => Len(r.stamps) = Len(Sources(n))
    /\ r.step = "dirty" => r.phase = "validate"

EntryType == [mtime : Nat, dirty : BOOLEAN]
RecordOK(d) == d = [content |-> d.content, mtime |-> d.mtime, dirty |-> d.dirty]

Sound(n, r) == FrameOK(r) /\ IndexOK(n, r)

FramesOK == run = [n \in Nodes |-> run[n]] /\ \A n \in Graph : Sound(n, run[n])
DiskOK ==
    /\ disk = [f \in Files |-> disk[f]]
    /\ \A f \in Files : /\ disk[f] = [content |-> disk[f].content, mtime |-> disk[f].mtime]
                        /\ disk[f].mtime \in Nat
StatOK == statCache \in [Files -> Seq(EntryType)]
DigestOK == digestCache = [f \in Files |-> digestCache[f]] /\ \A f \in Files : RecordOK(digestCache[f])
TimesOK == clock \in Nat \ {0} /\ lastSeen \in 0 .. clock /\ kills \in Nat

TypeOK ==
    /\ scenario \in DOMAIN Scenarios
    /\ mode \in {"between", "building", "saved"}
    /\ TimesOK /\ DiskOK /\ StatOK /\ DigestOK /\ FramesOK
    /\ savedDigests = [f \in Files |-> savedDigests[f]] /\ \A f \in Files : RecordOK(savedDigests[f])
    /\ read = [n \in Nodes |-> read[n]]
    /\ built = [n \in Nodes |-> built[n]]

---------------------------------------------------------------------------
(* What an action is known to have done *)

EarnedBy(n) ==
    LET r == run[n] IN
    /\ r.result = "kRanSuccesfully" =>
        r.acted = "succeeds" /\ r.phase \in {"mark", "marked", "validate", "finished"}
    /\ mode = "building" =>
        /\ r.phase = "act" => r.pre = GetFileInfo(Output(n))
        /\ r.phase \in {"acting", "post"} => r.acted \in {"succeeds", "fails", "silent"}
        /\ r.phase \in {"acting", "post"} /\ r.acted = "silent" => r.pre = GetFileInfo(Output(n))
EarnedInv == \A n \in Graph : EarnedBy(n)

---------------------------------------------------------------------------
(* Whether a source was changed *)

Alone(n, k) == Readers(Sources(n)[k]) = {n}
SameAsRead(n, k) == read[n][k] = run[n].stamps[k]
BeforeAction == {"remove", "removed", "mkdir", "make", "made", "pre", "act"}
AfterAction == {"acting", "post", "mark", "marked", "validate"}

WatchedBy(n) ==
    LET r == run[n] IN
    /\ r.phase \in BeforeAction \cup AfterAction /\ ~r.future =>
        \A k \in DOMAIN Sources(n) : r.stamps[k] < clock
    /\ r.phase \in AfterAction /\ ~r.future =>
        \A k \in DOMAIN Sources(n) :
            GetFileInfo(Sources(n)[k]) = r.stamps[k] => SameAsRead(n, k)
    /\ r.phase = "validate" =>
        /\ ~r.future
        /\ \A k \in 1 .. r.i - 1 : Alone(n, k) => SameAsRead(n, k)
        /\ r.step = "look" /\ Alone(n, r.i) => ~StatCacheIsClean(Sources(n)[r.i])
        /\ r.step = "store" /\ r.seen = r.stamps[r.i] => SameAsRead(n, r.i)
    /\ r.phase = "finished" /\ ~r.doubtful /\ r.result = "kRanSuccesfully" =>
        \A k \in DOMAIN Sources(n) : Alone(n, k) => SameAsRead(n, k)

\* One thread alone enters a file once.
EnteredOnce(n) ==
    \A f \in ToSet(Sources(n)) : Readers(f) = {n} =>
        /\ Len(statCache[f]) <= 1
        /\ run[n].step \in {"info", "store"} /\ run[n].phase \in {"sign", "stamps", "validate"} /\ StatFile(n) = f =>
               run[n].known = (statCache[f] # <<>>)
WatchedInv == mode = "building" => \A n \in Graph : WatchedBy(n) /\ EnteredOnce(n)

---------------------------------------------------------------------------
(* Whether what a node knows of a generated file is what is in it *)

\* p has not looked at its output yet; has not looked at it since it ran.
NotLooked == {"idle", "compare", "outputs"} \cup Signing
Fresh(f, t) == t = GetFileInfo(f)
OutputEntered(p) ==
    LET f == Output(p) IN
    /\ run[p].phase \in NotLooked => statCache[f] = <<>>
    /\ run[p].phase = "outputs" /\ run[p].step = "store" => Fresh(f, run[p].seen)
    /\ run[p].phase = "outputs" /\ run[p].step \in {"info", "store"} => ~run[p].known
    /\ run[p].phase # "finished" => Len(statCache[f]) <= 1
    /\ run[p].phase \in {"validate", "finished"} =>
        \A k \in DOMAIN statCache[f] : ~statCache[f][k].dirty => Fresh(f, statCache[f][k].mtime)

ProducersFirst(n) ==
    run[n].phase # "idle" => \A p \in Producers(n) : run[p].phase = "finished"

SignatureOf(f) == IF f \in sc.digests THEN disk[f].content ELSE <<disk[f].mtime>>
SignsFresh(n) ==
    LET r == run[n] IN
    /\ r.phase \in Signing \cup HasSigned =>
        \A k \in DOMAIN r.sig : Inputs(n)[k] \in Outputs => r.sig[k] = SignatureOf(Inputs(n)[k])
    /\ r.phase = "sign" /\ r.step = "store" /\ Inputs(n)[r.i] \in Outputs => Fresh(Inputs(n)[r.i], r.seen)
    /\ r.phase \in {"digest", "hash", "remember"} => Inputs(n)[r.i] \in sc.digests /\ r.seen # 0
    /\ r.phase \in {"digest", "hash", "remember"} /\ Inputs(n)[r.i] \in Outputs =>
        Fresh(Inputs(n)[r.i], r.seen)

Believable(d, f) ==
    ~d.dirty /\ d.mtime = disk[f].mtime /\ d.mtime # 0 => d.content = disk[f].content
DigestsOfOutput(p) ==
    LET f == Output(p) IN
    f \in sc.digests =>
    /\ mode \in {"building", "saved"} /\ run[p].phase \notin {"acting", "post", "mark"} =>
           Believable(digestCache[f], f)
    /\ mode = "saved" => run[p].phase = "finished"
    /\ mode = "between" => Believable(savedDigests[f], f)

AbsentIsEmpty == \A f \in Outputs : disk[f].mtime = 0 => disk[f].content = NoContent
FreshInv ==
    /\ AbsentIsEmpty
    /\ mode = "building" => \A n \in Graph : OutputEntered(n) /\ ProducersFirst(n) /\ SignsFresh(n)
    /\ \A n \in Graph : DigestsOfOutput(n)

---------------------------------------------------------------------------
(* Sequences of anything, the graph, and the latest of some times *)

LEMMA EmptyIsASequence == IsSequence(<<>>) /\ Len(<<>>) = 0
BY DEF IsSequence

LEMMA AppendToSequence ==
    ASSUME NEW s, IsSequence(s), NEW e
    PROVE  /\ IsSequence(Append(s, e))
           /\ Len(s) \in Nat /\ DOMAIN s = 1 .. Len(s)
           /\ Len(Append(s, e)) = Len(s) + 1
           /\ \A k \in 1 .. Len(s) : Append(s, e)[k] = s[k]
           /\ Append(s, e)[Len(s) + 1] = e
<1> DEFINE S == {s[k] : k \in DOMAIN s} \cup {e}
           t == Append(s, e)
<1>1. s \in Seq(S) /\ e \in S
  BY DEF IsSequence
<1> HIDE DEF S
<1>2. /\ t \in Seq(S) /\ Len(t) = Len(s) + 1 /\ Len(s) \in Nat /\ DOMAIN s = 1 .. Len(s)
      /\ DOMAIN t = 1 .. Len(t)
      /\ \A k \in 1 .. Len(s) : t[k] = s[k]
      /\ t[Len(s) + 1] = e
  BY <1>1
<1> HIDE DEF t
<1>3. \A k \in 1 .. Len(t) : t[k] \in {t[j] : j \in DOMAIN t}
  BY <1>2
<1>4. t = [k \in 1 .. Len(t) |-> t[k]]
  BY <1>2
<1>5. t \in Seq({t[j] : j \in DOMAIN t})
  BY <1>2, <1>3, <1>4
<1> QED
  BY <1>2, <1>5 DEF IsSequence, t

LEMMA GraphFacts ==
    ASSUME scenario \in DOMAIN Scenarios
    PROVE  /\ Graph \subseteq Nodes
           /\ \A n \in Graph :
                  /\ Inputs(n) \in Seq(Files \ {Dir}) /\ Sources(n) \in Seq(Files)
                  /\ ToSet(Sources(n)) = ToSet(Inputs(n)) \ Outputs
                  /\ Output(n) \in Files \ {Dir} /\ Output(n) \in Outputs
           /\ \A m, n \in Graph : Output(m) = Output(n) => m = n
           /\ sc.outcomes \subseteq {"succeeds", "fails", "silent"}
           /\ sc.future \in Nat
BY ScenarioAssumption DEF sc, Graph, Inputs, Sources, Output, Outputs

\* A source is an input that no node makes.
LEMMA SourceFacts ==
    ASSUME scenario \in DOMAIN Scenarios, NEW n \in Graph, NEW k \in DOMAIN Sources(n)
    PROVE  /\ DOMAIN Sources(n) = 1 .. Len(Sources(n)) /\ Len(Sources(n)) \in Nat
           /\ Sources(n)[k] \in Files \ {Dir} /\ Sources(n)[k] \notin Outputs
           /\ Sources(n)[k] \in ToSet(Inputs(n)) /\ n \in Readers(Sources(n)[k])
<1>1. Sources(n) \in Seq(Files) /\ Inputs(n) \in Seq(Files \ {Dir})
      /\ ToSet(Sources(n)) = ToSet(Inputs(n)) \ Outputs
  BY GraphFacts
<1>2. Sources(n)[k] \in ToSet(Sources(n))
  BY DEF ToSet
<1>3. ToSet(Inputs(n)) \subseteq Files \ {Dir}
  BY <1>1 DEF ToSet
<1> QED
  BY <1>1, <1>2, <1>3 DEF Readers

LEMMA InputFacts ==
    ASSUME scenario \in DOMAIN Scenarios, NEW n \in Graph
    PROVE  /\ DOMAIN Inputs(n) = 1 .. Len(Inputs(n)) /\ Len(Inputs(n)) \in Nat
           /\ \A k \in 1 .. Len(Inputs(n)) :
                Inputs(n)[k] \in Files \ {Dir} /\ n \in Readers(Inputs(n)[k])
           /\ Inputs(n) = <<>> <=> Len(Inputs(n)) = 0
           /\ DOMAIN Sources(n) = 1 .. Len(Sources(n)) /\ Len(Sources(n)) \in Nat
           /\ Sources(n) = <<>> <=> Len(Sources(n)) = 0
BY GraphFacts DEF Readers, ToSet

LEMMA SameGraph ==
    ASSUME scenario' = scenario
    PROVE  /\ sc' = sc /\ Graph' = Graph /\ Outputs' = Outputs
           /\ \A n : Inputs(n)' = Inputs(n) /\ Sources(n)' = Sources(n) /\ Output(n)' = Output(n)
           /\ \A f : Readers(f)' = Readers(f)
           /\ \A n : Producers(n)' = Producers(n)
BY DEF sc, Graph, Inputs, Sources, Output, Outputs, Readers, Producers

LEMMA LatestIsLatest ==
    ASSUME NEW n, run[n].stamps \in Seq(Nat), NEW b \in Nat,
           \A k \in DOMAIN run[n].stamps : run[n].stamps[k] <= b
    PROVE  /\ Latest(n) \in Nat
           /\ \A k \in DOMAIN run[n].stamps : run[n].stamps[k] <= Latest(n)
<1> DEFINE T == {0} \cup ToSet(run[n].stamps)
           U == {x \in Nat : \A t \in T : t <= x}
<1>1. T \subseteq Nat /\ b \in U /\ 0 \in T
  BY DEF ToSet
<1>2. PICK x \in U : \A y \in U : ~(<<y, x>> \in OpToRel(<, Nat))
  BY <1>1, NatLessThanWellFounded, WFMin
<1>7. \A y \in U : ~ (y < x)
  BY <1>2, Zenon DEF OpToRel
<1>3. \A y \in U : x <= y
  BY <1>7
<1>4. x \in T
  <2> SUFFICES ASSUME x \notin T PROVE FALSE
    OBVIOUS
  <2>1. x \in Nat /\ x # 0 /\ \A t \in T : t <= x /\ t # x /\ t \in Nat
    BY <1>1
  <2>2. x - 1 \in Nat
    BY <2>1
  <2>3. ASSUME NEW t \in T PROVE t <= x - 1
    <3>1. t \in Nat /\ t <= x /\ t # x
      BY <2>1
    <3> HIDE DEF T
    <3> QED
      BY <2>1, <3>1
  <2>4. x - 1 \in U
    BY <2>2, <2>3
  <2>5. x <= x - 1
    BY <1>3, <2>4
  <2> HIDE DEF T, U
  <2> QED
    BY <2>1, <2>5
<1>5. \E z \in T : \A t \in T : z >= t
  BY <1>1, <1>4
<1>6. Max(T) \in T /\ \A t \in T : Max(T) >= t
  BY <1>5 DEF Max
<1> QED
  BY <1>1, <1>6 DEF Latest, ToSet

---------------------------------------------------------------------------
(* Frames *)

Rest(r, s, changed) == \A x \in FrameFields \ changed : s[x] = r[x]

LEMMA Going ==
    ASSUME NEW r, FrameOK(r), NEW phase \in Phases
    PROVE  LET s == Goto(r, phase) IN
           /\ FrameOK(s) /\ s.phase = phase /\ s.step = "look" /\ s.i = 1
           /\ Rest(r, s, {"phase", "step", "i"})
<1> DEFINE s == Goto(r, phase)
<1>1. /\ s = [x \in FrameFields |-> s[x]] /\ s.phase = phase /\ s.step = "look" /\ s.i = 1
      /\ Rest(r, s, {"phase", "step", "i"})
  BY DEF Goto, FrameOK, FrameFields, Rest
<1> HIDE DEF s
<1>2. \A x \in FrameFields \ {"phase", "step", "i"} : s[x] = r[x]
  BY <1>1 DEF Rest
<1>3. FrameOK(s)
  <2>1. s = [x \in FrameFields |-> s[x]]
    BY <1>1
  <2>2. s.phase \in Phases /\ s.step \in {"look", "info", "store", "dirty"} /\ s.i \in Nat \ {0}
    BY <1>1
  <2>3. /\ s.seen = r.seen /\ s.pre = r.pre /\ s.future = r.future /\ s.doubtful = r.doubtful
        /\ s.known = r.known /\ s.stamps = r.stamps /\ s.sig = r.sig
    BY <1>2 DEF FrameFields
  <2> QED
    BY <2>1, <2>2, <2>3, Zenon DEF FrameOK
<1> QED
  BY <1>1, <1>3 DEF s

LEMMA Finishing ==
    ASSUME NEW r, FrameOK(r), NEW result
    PROVE  LET s == Finish(r, result) IN
           /\ FrameOK(s) /\ s.phase = "finished" /\ s.result = result
           /\ Rest(r, s, {"phase", "result"})
BY DEF Finish, FrameOK, FrameFields, Rest, Phases

LEMMA Stepping ==
    ASSUME NEW r, FrameOK(r), NEW step \in {"look", "info", "store", "dirty"}
    PROVE  LET s == [r EXCEPT !.step = step] IN
           /\ FrameOK(s) /\ s.step = step /\ Rest(r, s, {"step"})
BY DEF FrameOK, FrameFields, Rest

LEMMA LookingUp ==
    ASSUME NEW r, FrameOK(r), NEW known \in BOOLEAN
    PROVE  LET s == [r EXCEPT !.step = "info", !.known = known] IN
           /\ FrameOK(s) /\ s.step = "info" /\ s.known = known /\ Rest(r, s, {"step", "known"})
BY DEF FrameOK, FrameFields, Rest

LEMMA Seeing ==
    ASSUME NEW r, FrameOK(r), NEW t \in Nat
    PROVE  /\ LET s == [r EXCEPT !.step = "store", !.seen = t] IN
              /\ FrameOK(s) /\ s.step = "store" /\ s.seen = t /\ Rest(r, s, {"step", "seen"})
           /\ LET s == [r EXCEPT !.phase = "digest", !.seen = t] IN
              /\ FrameOK(s) /\ s.phase = "digest" /\ s.seen = t /\ Rest(r, s, {"phase", "seen"})
<1>1. LET s == [r EXCEPT !.step = "store", !.seen = t] IN
        /\ FrameOK(s) /\ s.step = "store" /\ s.seen = t /\ Rest(r, s, {"step", "seen"})
  BY DEF FrameOK, FrameFields, Rest
<1>2. LET s == [r EXCEPT !.phase = "digest", !.seen = t] IN
        /\ FrameOK(s) /\ s.phase = "digest" /\ s.seen = t /\ Rest(r, s, {"phase", "seen"})
  BY DEF FrameOK, FrameFields, Rest, Phases
<1> QED
  BY <1>1, <1>2

LEMMA SettingPre ==
    ASSUME NEW r, FrameOK(r), NEW t \in Nat, NEW s, s = [r EXCEPT !.pre = t]
    PROVE  FrameOK(s) /\ s.pre = t /\ Rest(r, s, {"pre"})
BY DEF FrameOK, FrameFields, Rest

LEMMA Noting ==
    ASSUME NEW r, FrameOK(r), NEW v, NEW b \in BOOLEAN
    PROVE  /\ LET s == [r EXCEPT !.acted = v] IN FrameOK(s) /\ s.acted = v /\ Rest(r, s, {"acted"})
           /\ LET s == [r EXCEPT !.made = v] IN FrameOK(s) /\ s.made = v /\ Rest(r, s, {"made"})
           /\ LET s == [r EXCEPT !.result = v] IN FrameOK(s) /\ s.result = v /\ Rest(r, s, {"result"})
           /\ LET s == [r EXCEPT !.future = b] IN FrameOK(s) /\ s.future = b /\ Rest(r, s, {"future"})
           /\ LET s == [r EXCEPT !.doubtful = b] IN FrameOK(s) /\ s.doubtful = b /\ Rest(r, s, {"doubtful"})
<1>1. LET s == [r EXCEPT !.acted = v] IN FrameOK(s) /\ s.acted = v /\ Rest(r, s, {"acted"})
  BY DEF FrameOK, FrameFields, Rest
<1>2. LET s == [r EXCEPT !.made = v] IN FrameOK(s) /\ s.made = v /\ Rest(r, s, {"made"})
  BY DEF FrameOK, FrameFields, Rest
<1>3. LET s == [r EXCEPT !.result = v] IN FrameOK(s) /\ s.result = v /\ Rest(r, s, {"result"})
  BY DEF FrameOK, FrameFields, Rest
<1>4. LET s == [r EXCEPT !.future = b] IN FrameOK(s) /\ s.future = b /\ Rest(r, s, {"future"})
  BY DEF FrameOK, FrameFields, Rest
<1>5. LET s == [r EXCEPT !.doubtful = b] IN FrameOK(s) /\ s.doubtful = b /\ Rest(r, s, {"doubtful"})
  BY DEF FrameOK, FrameFields, Rest
<1> QED
  BY <1>1, <1>2, <1>3, <1>4, <1>5

LEMMA SigningOne ==
    ASSUME NEW r, FrameOK(r), NEW e, NEW s, s = WithEntry(r, e)
    PROVE  /\ FrameOK(s) /\ s.sig = Append(r.sig, e) /\ Len(s.sig) = Len(r.sig) + 1
           /\ \A k \in 1 .. Len(r.sig) : s.sig[k] = r.sig[k]
           /\ s.sig[Len(r.sig) + 1] = e
           /\ Len(r.sig) \in Nat /\ DOMAIN r.sig = 1 .. Len(r.sig)
           /\ Rest(r, s, {"sig"})
<1>1. IsSequence(r.sig)
  BY DEF FrameOK
<1>2. s = [x \in FrameFields |-> s[x]] /\ s.sig = Append(r.sig, e) /\ Rest(r, s, {"sig"})
  BY DEF WithEntry, FrameOK, FrameFields, Rest
<1>3. /\ IsSequence(s.sig) /\ Len(s.sig) = Len(r.sig) + 1
      /\ \A k \in 1 .. Len(r.sig) : s.sig[k] = r.sig[k]
      /\ s.sig[Len(r.sig) + 1] = e
      /\ Len(r.sig) \in Nat /\ DOMAIN r.sig = 1 .. Len(r.sig)
  <2>1. /\ IsSequence(Append(r.sig, e)) /\ Len(Append(r.sig, e)) = Len(r.sig) + 1
        /\ \A k \in 1 .. Len(r.sig) : Append(r.sig, e)[k] = r.sig[k]
        /\ Append(r.sig, e)[Len(r.sig) + 1] = e
        /\ Len(r.sig) \in Nat /\ DOMAIN r.sig = 1 .. Len(r.sig)
    BY <1>1, AppendToSequence
  <2>2. s.sig = Append(r.sig, e)
    BY <1>2
  <2> QED
    BY <2>1, <2>2, Zenon
<1>4. FrameOK(s)
  BY <1>2, <1>3 DEF FrameOK, FrameFields, Rest
<1> QED
  BY <1>2, <1>3, <1>4

LEMMA StampingOne ==
    ASSUME NEW r, FrameOK(r), NEW t \in Nat
    PROVE  LET s == [r EXCEPT !.stamps = Append(@, t)] IN
           /\ FrameOK(s) /\ s.stamps = Append(r.stamps, t) /\ Len(s.stamps) = Len(r.stamps) + 1
           /\ Len(r.stamps) \in Nat
           /\ Rest(r, s, {"stamps"})
<1> DEFINE s == [r EXCEPT !.stamps = Append(@, t)]
<1>1. s = [x \in FrameFields |-> s[x]] /\ s.stamps = Append(r.stamps, t) /\ Rest(r, s, {"stamps"})
  BY DEF FrameOK, FrameFields, Rest
<1> HIDE DEF s
<1>2. /\ s.stamps \in Seq(Nat) /\ Len(s.stamps) = Len(r.stamps) + 1 /\ Len(r.stamps) \in Nat
  <2>1. r.stamps \in Seq(Nat)
    BY DEF FrameOK
  <2> QED
    <3>1. Append(r.stamps, t) \in Seq(Nat) /\ Len(Append(r.stamps, t)) = Len(r.stamps) + 1
          /\ Len(r.stamps) \in Nat
      BY <2>1
    <3>2. s.stamps = Append(r.stamps, t)
      BY <1>1
    <3> QED
      BY <3>1, <3>2, Zenon
<1>3. FrameOK(s)
  BY <1>1, <1>2 DEF FrameOK, FrameFields, Rest
<1> QED
  BY <1>1, <1>2, <1>3 DEF s

LEMMA Advancing ==
    ASSUME NEW r, FrameOK(r)
    PROVE  /\ LET s == [r EXCEPT !.phase = "sign", !.step = "look", !.i = @ + 1] IN
              /\ FrameOK(s) /\ s.phase = "sign" /\ s.step = "look" /\ s.i = r.i + 1
              /\ Rest(r, s, {"phase", "step", "i"})
           /\ \A step \in {"look", "dirty"} : LET s == [r EXCEPT !.step = step, !.i = @ + 1] IN
              /\ FrameOK(s) /\ s.step = step /\ s.i = r.i + 1
              /\ Rest(r, s, {"step", "i"})
<1>1. r.i + 1 \in Nat \ {0}
  BY DEF FrameOK
<1>2. LET s == [r EXCEPT !.phase = "sign", !.step = "look", !.i = @ + 1] IN
        /\ FrameOK(s) /\ s.phase = "sign" /\ s.step = "look" /\ s.i = r.i + 1
        /\ Rest(r, s, {"phase", "step", "i"})
  <2> DEFINE s == [r EXCEPT !.phase = "sign", !.step = "look", !.i = @ + 1]
  <2>1. /\ s = [x \in FrameFields |-> s[x]] /\ s.phase = "sign" /\ s.step = "look" /\ s.i = r.i + 1
        /\ Rest(r, s, {"phase", "step", "i"})
    BY DEF FrameOK, FrameFields, Rest
  <2> HIDE DEF s
  <2>2. FrameOK(s)
    BY <1>1, <2>1 DEF FrameOK, FrameFields, Rest, Phases
  <2> QED
    BY <2>1, <2>2 DEF s
<1>3. ASSUME NEW step \in {"look", "dirty"}
      PROVE  LET s == [r EXCEPT !.step = step, !.i = @ + 1] IN
        /\ FrameOK(s) /\ s.step = step /\ s.i = r.i + 1 /\ Rest(r, s, {"step", "i"})
  <2> DEFINE s == [r EXCEPT !.step = step, !.i = @ + 1]
  <2>1. /\ s = [x \in FrameFields |-> s[x]] /\ s.step = step /\ s.i = r.i + 1
        /\ Rest(r, s, {"step", "i"})
    BY DEF FrameOK, FrameFields, Rest
  <2> HIDE DEF s
  <2>2. FrameOK(s)
    BY <1>1, <2>1 DEF FrameOK, FrameFields, Rest
  <2> QED
    BY <2>1, <2>2 DEF s
<1> QED
  BY <1>2, <1>3

---------------------------------------------------------------------------
(* What a thread does with an answer, field by field *)

GoesOn(r, s, phase) ==
    s.phase = phase /\ s.step = "look" /\ s.i = 1 /\ Rest(r, s, {"phase", "step", "i"})
Ends(r, s, result) ==
    s.phase = "finished" /\ s.result = result /\ Rest(r, s, {"phase", "result"})
SignsNext(n, r, s) ==
    /\ s.step = "look"
    /\ \/ r.i < Len(Inputs(n)) /\ s.phase = "sign" /\ s.i = r.i + 1
       \/ r.i = Len(Inputs(n)) /\ s.phase = "compare" /\ s.i = 1
Signs(n, r, s, e) ==
    /\ Len(s.sig) = r.i /\ s.sig[r.i] = e
    /\ \A k \in 1 .. r.i - 1 : s.sig[k] = r.sig[k]
    /\ SignsNext(n, r, s)
    /\ Rest(r, s, {"phase", "step", "i", "sig"})
AnswersSign(n, r, s, t) ==
    IF Inputs(n)[r.i] \in sc.digests /\ t # 0
    THEN s.phase = "digest" /\ s.seen = t /\ Rest(r, s, {"phase", "seen"})
    ELSE Signs(n, r, s, IF Inputs(n)[r.i] \in sc.digests THEN NoContent ELSE <<t>>)
AnswersStamp(n, r, s, t) ==
    /\ s.stamps = Append(r.stamps, t) /\ s.step = "look"
    /\ \/ r.i < Len(Sources(n)) /\ s.phase = "stamps" /\ s.i = r.i + 1
       \/ r.i = Len(Sources(n)) /\ s.phase = "clock" /\ s.i = 1
    /\ Rest(r, s, {"phase", "step", "i", "stamps"})
AnswersValidate(n, r, s, t) ==
    \/ /\ t # r.stamps[r.i]
       /\ s.phase = "finished" /\ s.doubtful /\ Rest(r, s, {"phase", "doubtful"})
    \/ /\ t = r.stamps[r.i] /\ r.i < Len(Sources(n))
       /\ s.step = "dirty" /\ s.i = r.i + 1 /\ Rest(r, s, {"step", "i"})
    \/ /\ t = r.stamps[r.i] /\ r.i = Len(Sources(n))
       /\ s.phase = "finished" /\ Rest(r, s, {"phase"})
Answers(n, r, s, t) ==
    /\ r.phase = "sign" => AnswersSign(n, r, s, t)
    /\ r.phase = "outputs" => IF t = 0 THEN GoesOn(r, s, FirstOfRun(n)) ELSE Ends(r, s, "kUpToDate")
    /\ r.phase = "stamps" => AnswersStamp(n, r, s, t)
    /\ r.phase = "mkdir" => GoesOn(r, s, IF t = 0 THEN "make" ELSE "pre")
    /\ r.phase = "validate" => AnswersValidate(n, r, s, t)

IsNode(n) == scenario \in DOMAIN Scenarios /\ n \in Graph

LEMMA SignNextOutcome ==
    ASSUME NEW n, IsNode(n), NEW r, FrameOK(r), r.i <= Len(Inputs(n)), Len(r.sig) = r.i,
           r.stamps = <<>>, r.phase \in Signing
    PROVE  LET s == SignNext(n, r) IN
           Sound(n, s) /\ SignsNext(n, r, s) /\ Rest(r, s, {"phase", "step", "i"})
<1> DEFINE s == SignNext(n, r)
<1>0. r.i \in Nat \ {0} /\ Len(Inputs(n)) \in Nat
  BY InputFacts DEF FrameOK, IsNode
<1>1. CASE r.i < Len(Inputs(n))
  <2>1. /\ FrameOK(s) /\ s.phase = "sign" /\ s.step = "look" /\ s.i = r.i + 1
        /\ Rest(r, s, {"phase", "step", "i"})
    BY <1>1, Advancing DEF SignNext
  <2>2. s.sig = r.sig /\ s.stamps = r.stamps
    BY <2>1 DEF Rest, FrameFields
  <2> HIDE DEF s
  <2>3. IndexOK(n, s)
    BY <1>0, <1>1, <2>1, <2>2 DEF IndexOK, Signing, HasSigned, Stamped
  <2> QED
    BY <1>1, <2>1, <2>3 DEF s, Sound, SignsNext
<1>2. CASE ~(r.i < Len(Inputs(n)))
  <2>1. /\ FrameOK(s) /\ s.phase = "compare" /\ s.step = "look" /\ s.i = 1
        /\ Rest(r, s, {"phase", "step", "i"})
    BY <1>2, Going DEF SignNext, Phases
  <2>2. s.sig = r.sig /\ s.stamps = r.stamps
    BY <2>1 DEF Rest, FrameFields
  <2> HIDE DEF s
  <2>3. IndexOK(n, s) /\ r.i = Len(Inputs(n))
    BY <1>0, <1>2, <2>1, <2>2 DEF IndexOK, Signing, HasSigned, Stamped
  <2> QED
    BY <2>1, <2>3 DEF s, Sound, SignsNext
<1> QED
  BY <1>1, <1>2

LEMMA SignedOutcome ==
    ASSUME NEW n, IsNode(n), NEW r, Sound(n, r), r.phase \in {"sign", "digest", "hash"}, NEW e
    PROVE  LET s == Signed(n, r, e) IN Sound(n, s) /\ Signs(n, r, s, e)
<1> DEFINE q == WithEntry(r, e)
           s == Signed(n, r, e)
<1>1. /\ FrameOK(q) /\ Len(q.sig) = Len(r.sig) + 1
      /\ \A k \in 1 .. Len(r.sig) : q.sig[k] = r.sig[k]
      /\ q.sig[Len(r.sig) + 1] = e /\ Rest(r, q, {"sig"})
  <2>1. FrameOK(r)
    BY DEF Sound
  <2>2. q = WithEntry(r, e)
    OBVIOUS
  <2> HIDE DEF q
  <2>3. FrameOK(q)
    BY <2>1, <2>2, SigningOne
  <2>4. Len(q.sig) = Len(r.sig) + 1
    BY <2>1, <2>2, SigningOne
  <2>5. \A k \in 1 .. Len(r.sig) : q.sig[k] = r.sig[k]
    BY <2>1, <2>2, SigningOne
  <2>6. q.sig[Len(r.sig) + 1] = e
    BY <2>1, <2>2, SigningOne
  <2>7. Rest(r, q, {"sig"})
    BY <2>1, <2>2, SigningOne
  <2> QED
    BY <2>3, <2>4, <2>5, <2>6, <2>7
<1>2. r.i \in Nat \ {0} /\ r.i <= Len(Inputs(n)) /\ Len(r.sig) = r.i - 1 /\ r.stamps = <<>>
  BY DEF Sound, FrameOK, IndexOK, Signing
<1> HIDE DEF q
<1>3. q.phase = r.phase /\ q.i = r.i /\ q.stamps = r.stamps
  BY <1>1 DEF Rest, FrameFields
<1>4. /\ Len(q.sig) = r.i /\ q.sig[r.i] = e /\ \A k \in 1 .. r.i - 1 : q.sig[k] = r.sig[k]
  BY <1>1, <1>2
<1>5. Sound(n, SignNext(n, q)) /\ SignsNext(n, q, SignNext(n, q))
      /\ Rest(q, SignNext(n, q), {"phase", "step", "i"})
  BY <1>1, <1>2, <1>3, <1>4, SignNextOutcome DEF Signing
<1>6. s = SignNext(n, q)
  BY DEF Signed, q
<1> HIDE DEF s
<1>7. s.sig = q.sig /\ Rest(r, s, {"phase", "step", "i", "sig"})
  BY <1>1, <1>5, <1>6 DEF Rest, FrameFields
<1> QED
  BY <1>3, <1>4, <1>5, <1>6, <1>7 DEF Signs, SignsNext, s

LEMMA RememberedOutcome ==
    ASSUME NEW n, IsNode(n), NEW r, Sound(n, r), r.phase = "remember"
    PROVE  LET s == SignNext(n, r) IN
           Sound(n, s) /\ SignsNext(n, r, s) /\ Rest(r, s, {"phase", "step", "i"})
BY SignNextOutcome DEF Sound, IndexOK, Signing

LEMMA SignInputOutcome ==
    ASSUME NEW n, IsNode(n), NEW r, Sound(n, r), r.phase = "sign", NEW t \in Nat
    PROVE  LET s == SignInput(n, r, t) IN Sound(n, s) /\ AnswersSign(n, r, s, t)
<1>1. CASE Inputs(n)[r.i] \in sc.digests /\ t # 0
  <2> DEFINE s == [r EXCEPT !.phase = "digest", !.seen = t]
  <2>1. FrameOK(s) /\ s.phase = "digest" /\ s.seen = t /\ Rest(r, s, {"phase", "seen"})
    BY Seeing DEF Sound
  <2>2. SignInput(n, r, t) = s
    BY <1>1 DEF SignInput
  <2> HIDE DEF s
  <2>3. s.i = r.i /\ s.sig = r.sig /\ s.stamps = r.stamps /\ s.step = r.step
    BY <2>1 DEF Rest, FrameFields
  <2>4. IndexOK(n, s)
    BY <2>1, <2>3 DEF Sound, IndexOK, Signing, HasSigned, Stamped
  <2> QED
    BY <1>1, <2>1, <2>2, <2>4 DEF Sound, AnswersSign
<1>2. CASE ~(Inputs(n)[r.i] \in sc.digests /\ t # 0)
  <2> DEFINE e == IF Inputs(n)[r.i] \in sc.digests THEN NoContent ELSE <<t>>
  <2>1. SignInput(n, r, t) = Signed(n, r, e)
    BY <1>2 DEF SignInput
  <2> HIDE DEF e
  <2>2. Sound(n, Signed(n, r, e)) /\ Signs(n, r, Signed(n, r, e), e)
    BY SignedOutcome
  <2> QED
    BY <1>2, <2>1, <2>2 DEF AnswersSign, e
<1> QED
  BY <1>1, <1>2

LEMMA StoreTimestampOutcome ==
    ASSUME NEW n, IsNode(n), NEW r, Sound(n, r), r.phase = "stamps", NEW t \in Nat
    PROVE  LET s == StoreTimestamp(n, r, t) IN Sound(n, s) /\ AnswersStamp(n, r, s, t)
<1> DEFINE q == [r EXCEPT !.stamps = Append(@, t)]
           s == StoreTimestamp(n, r, t)
<1>1. /\ FrameOK(q) /\ q.stamps = Append(r.stamps, t) /\ Len(q.stamps) = Len(r.stamps) + 1
      /\ Rest(r, q, {"stamps"})
  <2>1. FrameOK(r)
    BY DEF Sound
  <2> QED
    BY <2>1, StampingOne, Zenon
<1>2. /\ r.i \in Nat \ {0} /\ r.i <= Len(Sources(n)) /\ Len(r.stamps) = r.i - 1
      /\ Len(r.sig) = Len(Inputs(n)) /\ Len(Sources(n)) \in Nat
  BY InputFacts DEF Sound, FrameOK, IndexOK, HasSigned, IsNode
<1> HIDE DEF q
<1>3. q.phase = r.phase /\ q.i = r.i /\ q.sig = r.sig
  BY <1>1 DEF Rest, FrameFields
<1>4. CASE r.i < Len(Sources(n))
  <2>1. s = [q EXCEPT !.step = "look", !.i = @ + 1]
    BY <1>4 DEF StoreTimestamp, q
  <2> HIDE DEF s
  <2>2. /\ FrameOK(s) /\ s.step = "look" /\ s.i = q.i + 1 /\ Rest(q, s, {"step", "i"})
    BY <1>1, <2>1, Advancing
  <2>3. s.phase = "stamps" /\ s.sig = r.sig /\ s.stamps = q.stamps
    BY <1>3, <2>2 DEF Rest, FrameFields
  <2>4. IndexOK(n, s)
    BY <1>1, <1>2, <1>3, <1>4, <2>2, <2>3 DEF IndexOK, Signing, HasSigned, Stamped
  <2>5. Rest(r, s, {"phase", "step", "i", "stamps"})
    BY <1>1, <2>2 DEF Rest
  <2> QED
    BY <1>1, <1>3, <1>4, <2>2, <2>3, <2>4, <2>5 DEF Sound, AnswersStamp, s
<1>5. CASE ~(r.i < Len(Sources(n)))
  <2>1. s = Goto(q, "clock")
    BY <1>5 DEF StoreTimestamp, q
  <2> HIDE DEF s
  <2>2. /\ FrameOK(s) /\ s.phase = "clock" /\ s.step = "look" /\ s.i = 1
        /\ Rest(q, s, {"phase", "step", "i"})
    BY <1>1, <2>1, Going DEF Phases
  <2>3. s.sig = r.sig /\ s.stamps = q.stamps
    BY <1>3, <2>2 DEF Rest, FrameFields
  <2>4. IndexOK(n, s) /\ r.i = Len(Sources(n))
    BY <1>1, <1>2, <1>3, <1>5, <2>2, <2>3 DEF IndexOK, Signing, HasSigned, Stamped
  <2>5. Rest(r, s, {"phase", "step", "i", "stamps"})
    BY <1>1, <2>2 DEF Rest
  <2> QED
    BY <1>1, <2>2, <2>3, <2>4, <2>5 DEF Sound, AnswersStamp, s
<1> QED
  BY <1>4, <1>5

LEMMA ValidateTimestampOutcome ==
    ASSUME NEW n, IsNode(n), NEW r, Sound(n, r), r.phase = "validate", r.step # "dirty", NEW t \in Nat
    PROVE  LET s == ValidateTimestamp(n, r, t) IN Sound(n, s) /\ AnswersValidate(n, r, s, t)
<1> DEFINE s == ValidateTimestamp(n, r, t)
           q == Finish(r, r.result)
<1>1. FrameOK(q) /\ q.phase = "finished" /\ q.result = r.result /\ Rest(r, q, {"phase", "result"})
  BY Finishing DEF Sound
<1>2. /\ r.i \in Nat \ {0} /\ r.i <= Len(Sources(n)) /\ Len(Sources(n)) \in Nat
      /\ Len(r.stamps) = Len(Sources(n)) /\ Len(r.sig) = Len(Inputs(n))
  BY InputFacts DEF Sound, FrameOK, IndexOK, Stamped, IsNode
<1> HIDE DEF q
<1>3. Rest(r, q, {"phase"}) /\ q.step = r.step
  BY <1>1 DEF Rest, FrameFields
<1>4. CASE t # r.stamps[r.i]
  <2>1. s = [q EXCEPT !.doubtful = TRUE]
    BY <1>4 DEF ValidateTimestamp, q
  <2> HIDE DEF s
  <2>2. FrameOK(s) /\ s.doubtful = TRUE /\ Rest(q, s, {"doubtful"})
    BY <1>1, <2>1, Noting
  <2>3. s.phase = "finished" /\ s.step = r.step
    BY <1>1, <1>3, <2>2 DEF Rest, FrameFields
  <2>4. IndexOK(n, s)
    BY <2>3 DEF IndexOK, Signing, HasSigned, Stamped
  <2>5. Rest(r, s, {"phase", "doubtful"})
    BY <1>3, <2>2 DEF Rest
  <2> QED
    BY <1>4, <2>2, <2>3, <2>4, <2>5 DEF Sound, AnswersValidate, s
<1>5. CASE t = r.stamps[r.i] /\ r.i < Len(Sources(n))
  <2>1. s = [r EXCEPT !.step = "dirty", !.i = @ + 1]
    BY <1>5 DEF ValidateTimestamp
  <2> HIDE DEF s
  <2>2. FrameOK(s) /\ s.step = "dirty" /\ s.i = r.i + 1 /\ Rest(r, s, {"step", "i"})
    BY <2>1, Advancing DEF Sound
  <2>3. s.phase = r.phase /\ s.sig = r.sig /\ s.stamps = r.stamps
    BY <2>2 DEF Rest, FrameFields
  <2>4. IndexOK(n, s)
    BY <1>2, <1>5, <2>2, <2>3 DEF IndexOK, Signing, HasSigned, Stamped
  <2> QED
    BY <1>5, <2>2, <2>4 DEF Sound, AnswersValidate, s
<1>6. CASE t = r.stamps[r.i] /\ ~(r.i < Len(Sources(n)))
  <2>1. s = q
    BY <1>6 DEF ValidateTimestamp, q
  <2>2. IndexOK(n, q) /\ r.i = Len(Sources(n))
    BY <1>1, <1>2, <1>3, <1>6 DEF IndexOK, Signing, HasSigned, Stamped
  <2> QED
    BY <1>1, <1>3, <1>6, <2>1, <2>2 DEF Sound, AnswersValidate
<1> QED
  BY <1>4, <1>5, <1>6

LEMMA GoingOn ==
    ASSUME NEW n, NEW r, Sound(n, r), NEW phase \in Phases,
           IndexOK(n, Goto(r, phase))
    PROVE  Sound(n, Goto(r, phase)) /\ GoesOn(r, Goto(r, phase), phase)
BY Going DEF Sound, GoesOn

LEMMA FirstOfRunIsSound ==
    ASSUME NEW n, IsNode(n), NEW r, Sound(n, r), r.phase \in {"compare", "outputs"}
    PROVE  LET s == Goto(r, FirstOfRun(n)) IN Sound(n, s) /\ GoesOn(r, s, FirstOfRun(n))
<1> DEFINE p == FirstOfRun(n)
           s == Goto(r, p)
<1>1. /\ p \in {"clock", "stamps"} /\ p \in Phases /\ Len(Sources(n)) \in Nat
      /\ p = "clock" <=> Len(Sources(n)) = 0
  BY InputFacts DEF FirstOfRun, Phases, IsNode
<1> HIDE DEF p
<1>2. /\ FrameOK(s) /\ s.phase = p /\ s.step = "look" /\ s.i = 1
      /\ Rest(r, s, {"phase", "step", "i"})
  BY <1>1, Going DEF Sound
<1> HIDE DEF s
<1>3. s.sig = r.sig /\ s.stamps = r.stamps
  BY <1>2 DEF Rest, FrameFields
<1>4. IndexOK(n, s)
  <2>1. Len(r.sig) = Len(Inputs(n)) /\ r.stamps = <<>>
    BY DEF Sound, IndexOK, HasSigned
  <2> QED
    BY <1>1, <1>2, <1>3, <2>1 DEF IndexOK, Signing, HasSigned, Stamped
<1> QED
  BY <1>2, <1>4 DEF Sound, GoesOn, s, p

LEMMA AfterStatOutcome ==
    ASSUME NEW n, IsNode(n), NEW r, Sound(n, r), NEW t \in Nat,
           r.phase \in {"sign", "outputs", "stamps", "mkdir", "validate"}, r.step # "dirty"
    PROVE  Sound(n, AfterStat(n, r, t)) /\ Answers(n, r, AfterStat(n, r, t), t)
<1> DEFINE s == AfterStat(n, r, t)
<1>1. CASE r.phase = "sign"
  <2>1. s = SignInput(n, r, t)
    BY <1>1 DEF AfterStat
  <2> QED
    BY <1>1, <2>1, SignInputOutcome DEF Answers
<1>2. CASE r.phase = "outputs" /\ t = 0
  <2>1. s = Goto(r, FirstOfRun(n))
    BY <1>2 DEF AfterStat
  <2> QED
    BY <1>2, <2>1, FirstOfRunIsSound DEF Answers
<1>3. CASE r.phase = "outputs" /\ t # 0
  <2>1. s = Finish(r, "kUpToDate")
    BY <1>3 DEF AfterStat
  <2> HIDE DEF s
  <2>2. /\ FrameOK(s) /\ s.phase = "finished" /\ s.result = "kUpToDate"
        /\ Rest(r, s, {"phase", "result"})
    BY <2>1, Finishing DEF Sound
  <2>3. s.step = r.step
    BY <2>2 DEF Rest, FrameFields
  <2>4. IndexOK(n, s)
    BY <1>3, <2>2, <2>3 DEF Sound, IndexOK, Signing, HasSigned, Stamped
  <2> QED
    BY <1>3, <2>2, <2>4 DEF Sound, Ends, Answers, s
<1>4. CASE r.phase = "stamps"
  <2>1. s = StoreTimestamp(n, r, t)
    BY <1>4 DEF AfterStat
  <2> QED
    BY <1>4, <2>1, StoreTimestampOutcome DEF Answers
<1>5. CASE r.phase = "mkdir"
  <2> DEFINE p == IF t = 0 THEN "make" ELSE "pre"
  <2>1. s = Goto(r, p) /\ p \in {"make", "pre"} /\ p \in Phases
    BY <1>5 DEF AfterStat, Phases
  <2> HIDE DEF s, p
  <2>2. /\ FrameOK(s) /\ s.phase = p /\ s.step = "look" /\ s.i = 1
        /\ Rest(r, s, {"phase", "step", "i"})
    BY <2>1, Going DEF Sound
  <2>3. s.sig = r.sig /\ s.stamps = r.stamps
    BY <2>2 DEF Rest, FrameFields
  <2>4. IndexOK(n, s)
    BY <1>5, <2>1, <2>2, <2>3 DEF Sound, IndexOK, Signing, HasSigned, Stamped
  <2> QED
    BY <1>5, <2>2, <2>4 DEF Sound, GoesOn, Answers, s, p
<1>6. CASE r.phase = "validate"
  <2>1. s = ValidateTimestamp(n, r, t)
    BY <1>6 DEF AfterStat
  <2> QED
    BY <1>6, <2>1, ValidateTimestampOutcome DEF Answers
<1> QED
  BY <1>1, <1>2, <1>3, <1>4, <1>5, <1>6

---------------------------------------------------------------------------
(* What each step does to the frame of its node *)

LEMMA FirstEntry ==
    ASSUME TypeOK, NEW f \in Files, statCache[f] # <<>>
    PROVE  HashTableLookup(f) = statCache[f][1] /\ 1 \in DOMAIN statCache[f]
<1>1. statCache[f] \in Seq(EntryType)
  BY DEF TypeOK, StatOK
<1> QED
  BY <1>1 DEF HashTableLookup

LEMMA NodeMoves ==
    ASSUME TypeOK, NEW n \in Graph, NEW s, Sound(n, s), run' = [run EXCEPT ![n] = s],
           scenario' = scenario
    PROVE  FramesOK' /\ run'[n] = s /\ \A m \in Nodes \ {n} : run'[m] = run[m]
<1>1. n \in Nodes /\ run = [m \in Nodes |-> run[m]] /\ Graph' = Graph
  BY GraphFacts, SameGraph DEF TypeOK, FramesOK
<1>2. /\ run' = [m \in Nodes |-> run'[m]] /\ run'[n] = s
      /\ \A m \in Nodes \ {n} : run'[m] = run[m]
  BY <1>1
<1>4. ASSUME NEW m \in Graph PROVE Sound(m, run'[m])
  BY <1>2, GraphFacts DEF TypeOK, FramesOK
<1>5. ASSUME NEW m \in Graph' PROVE Sound(m, run[m])'
  <2>1. Inputs(m)' = Inputs(m) /\ Sources(m)' = Sources(m)
    BY SameGraph
  <2>2. Sound(m, run'[m])
    BY <1>1, <1>4
  <2> QED
    BY <2>1, <2>2, Zenon DEF Sound, IndexOK, FrameOK, IsSequence
<1> QED
  BY <1>2, <1>5 DEF FramesOK

LEMMA NodeIsSound ==
    ASSUME TypeOK, NEW n \in Graph
    PROVE  IsNode(n) /\ Sound(n, run[n]) /\ FrameOK(run[n]) /\ n \in Nodes
           /\ Output(n) \in Files \ {Dir} /\ Dir \in Files
BY GraphFacts, ScenarioAssumption DEF TypeOK, FramesOK, Sound, IsNode

LEMMA StatFileIsAFile ==
    ASSUME TypeOK, NEW n \in Graph,
           run[n].phase \in {"sign", "outputs", "stamps", "mkdir", "validate"}
    PROVE  /\ StatFile(n) \in Files /\ GetFileInfo(StatFile(n)) \in Nat
           /\ run[n].phase = "sign" => StatFile(n) = Inputs(n)[run[n].i]
           /\ run[n].phase = "outputs" => StatFile(n) = Output(n)
           /\ run[n].phase \in {"stamps", "validate"} => StatFile(n) = Sources(n)[run[n].i]
           /\ run[n].phase = "mkdir" => StatFile(n) = Dir
<1> DEFINE r == run[n]
<1>1. r.i \in Nat \ {0} /\ IsNode(n)
  BY NodeIsSound DEF FrameOK
<1>2. /\ r.phase = "sign" => r.i \in 1 .. Len(Inputs(n))
      /\ r.phase \in {"stamps", "validate"} => r.i \in DOMAIN Sources(n)
  BY <1>1, NodeIsSound, InputFacts DEF Sound, IndexOK, Signing, IsNode
<1>3. /\ r.phase = "sign" => StatFile(n) = Inputs(n)[r.i]
      /\ r.phase = "outputs" => StatFile(n) = Output(n)
      /\ r.phase \in {"stamps", "validate"} => StatFile(n) = Sources(n)[r.i]
      /\ r.phase = "mkdir" => StatFile(n) = Dir
  BY DEF StatFile
<1>4. StatFile(n) \in Files
  BY <1>1, <1>2, <1>3, NodeIsSound, InputFacts, SourceFacts DEF IsNode
<1> QED
  BY <1>3, <1>4 DEF TypeOK, DiskOK, GetFileInfo

\* The answer from the cache, or the way to the file.
Looks(n, r, s) ==
    \/ /\ StatCacheIsClean(StatFile(n)) /\ statCache[StatFile(n)] # <<>>
       /\ statCache[StatFile(n)][1].mtime \in Nat
       /\ ~statCache[StatFile(n)][1].dirty
       /\ Answers(n, r, s, statCache[StatFile(n)][1].mtime)
    \/ /\ ~StatCacheIsClean(StatFile(n))
       /\ s.step = "info" /\ s.known = (statCache[StatFile(n)] # <<>>) /\ Rest(r, s, {"step", "known"})

LEMMA StatCacheStatOutcome ==
    ASSUME TypeOK, NEW n \in Graph, StatCacheStat(n)
    PROVE  FramesOK' /\ Looks(n, run[n], run'[n]) /\ \A m \in Nodes \ {n} : run'[m] = run[m]
<1> DEFINE r == run[n]
           f == StatFile(n)
           s == IF StatCacheIsClean(f) THEN AfterStat(n, r, HashTableLookup(f).mtime)
                ELSE [r EXCEPT !.step = "info", !.known = StatCacheKnows(f)]
<1>1. /\ run' = [run EXCEPT ![n] = s] /\ scenario' = scenario
      /\ r.phase \in {"sign", "outputs", "stamps", "mkdir", "validate"} /\ r.step = "look"
  BY DEF StatCacheStat, InStat, scenarioVars
<1>2. IsNode(n) /\ Sound(n, r) /\ FrameOK(r) /\ f \in Files
  BY <1>1, NodeIsSound, StatFileIsAFile
<1> HIDE DEF f
<1>3. CASE StatCacheIsClean(f)
  <2>1. /\ statCache[f] # <<>> /\ HashTableLookup(f) = statCache[f][1]
        /\ statCache[f][1].mtime \in Nat /\ ~statCache[f][1].dirty
    <3>1. statCache[f] \in Seq(EntryType) /\ statCache[f] # <<>> /\ ~Head(statCache[f]).dirty
      BY <1>2, <1>3 DEF StatCacheIsClean, StatCacheKnows, HashTableLookup, TypeOK, StatOK
    <3>2. Head(statCache[f]) = statCache[f][1] /\ statCache[f][1] \in EntryType
      BY <3>1
    <3> QED
      BY <3>1, <3>2 DEF EntryType, HashTableLookup
  <2>2. Sound(n, s) /\ Answers(n, r, s, statCache[f][1].mtime)
    BY <1>1, <1>2, <1>3, <2>1, AfterStatOutcome
  <2> HIDE DEF s
  <2> QED
    BY <1>1, <1>3, <2>1, <2>2, NodeMoves DEF Looks, f
<1>4. CASE ~StatCacheIsClean(f)
  <2>1. s = [r EXCEPT !.step = "info", !.known = StatCacheKnows(f)]
    BY <1>4
  <2> HIDE DEF s
  <2>2. /\ FrameOK(s) /\ s.step = "info" /\ s.known = (statCache[f] # <<>>)
        /\ Rest(r, s, {"step", "known"})
    BY <1>2, <2>1, LookingUp DEF StatCacheKnows
  <2>3. s.phase = r.phase /\ s.i = r.i /\ s.sig = r.sig /\ s.stamps = r.stamps
    BY <2>2 DEF Rest, FrameFields
  <2>4. IndexOK(n, s)
    BY <1>1, <1>2, <2>2, <2>3 DEF Sound, IndexOK, Signing, HasSigned, Stamped
  <2>5. Sound(n, s)
    BY <2>2, <2>4 DEF Sound
  <2> QED
    BY <1>1, <1>4, <2>2, <2>5, NodeMoves DEF Looks, f
<1> QED
  BY <1>3, <1>4

LEMMA StatTheFileOutcome ==
    ASSUME TypeOK, NEW n \in Graph, StatTheFile(n)
    PROVE  /\ FramesOK' /\ \A m \in Nodes \ {n} : run'[m] = run[m]
           /\ run'[n].step = "store" /\ run'[n].seen = GetFileInfo(StatFile(n))
           /\ Rest(run[n], run'[n], {"step", "seen"})
<1> DEFINE r == run[n]
           t == GetFileInfo(StatFile(n))
           s == [r EXCEPT !.step = "store", !.seen = t]
<1>1. /\ run' = [run EXCEPT ![n] = s] /\ scenario' = scenario
      /\ r.phase \in {"sign", "outputs", "stamps", "mkdir", "validate"} /\ r.step = "info"
  BY DEF StatTheFile, InStat, scenarioVars
<1>2. IsNode(n) /\ Sound(n, r) /\ FrameOK(r) /\ t \in Nat
  BY <1>1, NodeIsSound, StatFileIsAFile
<1> HIDE DEF t
<1>3. FrameOK(s) /\ s.step = "store" /\ s.seen = t /\ Rest(r, s, {"step", "seen"})
  BY <1>2, Seeing
<1> HIDE DEF s
<1>4. s.phase = r.phase /\ s.i = r.i /\ s.sig = r.sig /\ s.stamps = r.stamps
  BY <1>3 DEF Rest, FrameFields
<1>5. Sound(n, s)
  BY <1>1, <1>2, <1>3, <1>4 DEF Sound, IndexOK, Signing, HasSigned, Stamped
<1> QED
  BY <1>1, <1>3, <1>5, NodeMoves DEF t

LEMMA StoreStatOutcome ==
    ASSUME TypeOK, NEW n \in Graph, StoreStat(n)
    PROVE  /\ FramesOK' /\ \A m \in Nodes \ {n} : run'[m] = run[m]
           /\ Answers(n, run[n], run'[n], run[n].seen)
<1> DEFINE r == run[n]
           s == AfterStat(n, r, r.seen)
<1>1. /\ run' = [run EXCEPT ![n] = s] /\ scenario' = scenario
      /\ r.phase \in {"sign", "outputs", "stamps", "mkdir", "validate"} /\ r.step = "store"
  BY DEF StoreStat, InStat, scenarioVars
<1>2. IsNode(n) /\ Sound(n, r) /\ r.seen \in Nat
  BY NodeIsSound DEF FrameOK
<1>3. Sound(n, s) /\ Answers(n, r, s, r.seen)
  BY <1>1, <1>2, AfterStatOutcome
<1> HIDE DEF s
<1> QED
  BY <1>1, <1>3, NodeMoves

LEMMA GetDigestOutcome ==
    ASSUME TypeOK, NEW n \in Graph, GetDigest(n)
    PROVE  LET f == Inputs(n)[run[n].i] IN
           /\ FramesOK' /\ \A m \in Nodes \ {n} : run'[m] = run[m]
           /\ \/ DigestCacheHas(f, run[n].seen) /\ Signs(n, run[n], run'[n], digestCache[f].content)
              \/ run'[n].phase = "hash" /\ Rest(run[n], run'[n], {"phase"})
<1> DEFINE r == run[n]
           f == Inputs(n)[r.i]
           s == IF DigestCacheHas(f, r.seen) THEN Signed(n, r, digestCache[f].content)
                ELSE [r EXCEPT !.phase = "hash"]
<1>1. run' = [run EXCEPT ![n] = s] /\ scenario' = scenario /\ r.phase = "digest"
  BY DEF GetDigest, scenarioVars
<1>2. IsNode(n) /\ Sound(n, r) /\ FrameOK(r)
  BY NodeIsSound
<1> HIDE DEF f
<1>3. CASE DigestCacheHas(f, r.seen)
  <2>1. s = Signed(n, r, digestCache[f].content)
    BY <1>3
  <2> HIDE DEF s
  <2>2. Sound(n, s) /\ Signs(n, r, s, digestCache[f].content)
    BY <1>1, <1>2, <2>1, SignedOutcome
  <2> QED
    BY <1>1, <1>3, <2>2, NodeMoves DEF f
<1>4. CASE ~DigestCacheHas(f, r.seen)
  <2>1. s = [r EXCEPT !.phase = "hash"]
    BY <1>4
  <2> HIDE DEF s
  <2>2. FrameOK(s) /\ s.phase = "hash" /\ Rest(r, s, {"phase"})
    BY <1>2, <2>1 DEF FrameOK, FrameFields, Rest, Phases
  <2>3. s.step = r.step /\ s.i = r.i /\ s.sig = r.sig /\ s.stamps = r.stamps
    BY <2>2 DEF Rest, FrameFields
  <2>4. Sound(n, s)
    BY <1>1, <1>2, <2>2, <2>3 DEF Sound, IndexOK, Signing, HasSigned, Stamped
  <2> QED
    BY <1>1, <2>2, <2>4, NodeMoves
<1> QED
  BY <1>3, <1>4

\* The content is hashed and, where there is one, about to be remembered.
Hashes(n, r, s, c) ==
    /\ s.phase = "remember" /\ Len(s.sig) = r.i /\ s.sig[r.i] = c
    /\ \A k \in 1 .. r.i - 1 : s.sig[k] = r.sig[k]
    /\ Rest(r, s, {"phase", "sig"})

LEMMA HashContentOutcome ==
    ASSUME TypeOK, NEW n \in Graph, HashContent(n)
    PROVE  LET c == disk[Inputs(n)[run[n].i]].content IN
           /\ FramesOK' /\ \A m \in Nodes \ {n} : run'[m] = run[m]
           /\ \/ c = NoContent /\ Signs(n, run[n], run'[n], c)
              \/ c # NoContent /\ Hashes(n, run[n], run'[n], c)
<1> DEFINE r == run[n]
           c == disk[Inputs(n)[r.i]].content
           s == IF c = NoContent THEN Signed(n, r, c)
                ELSE [WithEntry(r, c) EXCEPT !.phase = "remember"]
<1>1. run' = [run EXCEPT ![n] = s] /\ scenario' = scenario /\ r.phase = "hash"
  BY DEF HashContent, scenarioVars
<1>2. IsNode(n) /\ Sound(n, r) /\ FrameOK(r)
  BY NodeIsSound
<1> HIDE DEF c
<1>3. CASE c = NoContent
  <2>1. s = Signed(n, r, c)
    BY <1>3
  <2> HIDE DEF s
  <2>2. Sound(n, s) /\ Signs(n, r, s, c)
    BY <1>1, <1>2, <2>1, SignedOutcome
  <2> QED
    BY <1>1, <1>3, <2>2, NodeMoves DEF c
<1>4. CASE c # NoContent
  <2> DEFINE q == WithEntry(r, c)
  <2>1. q = WithEntry(r, c)
    OBVIOUS
  <2> HIDE DEF q
  <2>2. FrameOK(q)
    BY <1>2, <2>1, SigningOne
  <2>17. Len(q.sig) = Len(r.sig) + 1
    BY <1>2, <2>1, SigningOne
  <2>3. \A k \in 1 .. Len(r.sig) : q.sig[k] = r.sig[k]
    BY <1>2, <2>1, SigningOne
  <2>4. q.sig[Len(r.sig) + 1] = c
    BY <1>2, <2>1, SigningOne
  <2>5. Rest(r, q, {"sig"})
    BY <1>2, <2>1, SigningOne
  <2>6. s = [q EXCEPT !.phase = "remember"]
    BY <1>4 DEF q
  <2> HIDE DEF s
  <2>7. /\ s = [x \in FrameFields |-> s[x]] /\ s.phase = "remember" /\ s.sig = q.sig
        /\ Rest(r, s, {"phase", "sig"})
    BY <2>2, <2>5, <2>6 DEF FrameOK, FrameFields, Rest
  <2>8. /\ s.step = r.step /\ s.i = r.i /\ s.stamps = r.stamps /\ s.seen = r.seen /\ s.pre = r.pre
        /\ s.future = r.future /\ s.doubtful = r.doubtful /\ s.known = r.known
    BY <2>7 DEF Rest, FrameFields
  <2>9. s.sig = q.sig /\ IsSequence(s.sig)
    BY <2>2, <2>7 DEF FrameOK
  <2>10. FrameOK(s)
    BY <1>2, <2>7, <2>8, <2>9 DEF FrameOK, Phases
  <2>11. /\ r.i <= Len(Inputs(n)) /\ Len(r.sig) = r.i - 1 /\ r.stamps = <<>> /\ r.step # "dirty"
         /\ r.i \in Nat \ {0}
    BY <1>1, <1>2 DEF Sound, IndexOK, Signing, FrameOK
  <2>12. Len(s.sig) = r.i
    BY <2>17, <2>9, <2>11
  <2>13. Sound(n, s)
    BY <2>7, <2>8, <2>10, <2>11, <2>12 DEF Sound, IndexOK, Signing, HasSigned, Stamped
  <2>14. s.sig[r.i] = c
    BY <2>4, <2>9, <2>11
  <2>15. \A k \in 1 .. r.i - 1 : s.sig[k] = r.sig[k]
    BY <2>3, <2>9, <2>11
  <2>16. Hashes(n, r, s, c)
    BY <2>7, <2>12, <2>14, <2>15 DEF Hashes
  <2> QED
    BY <1>1, <1>4, <2>13, <2>16, NodeMoves DEF c
<1> QED
  BY <1>3, <1>4

LEMMA RememberDigestOutcome ==
    ASSUME TypeOK, NEW n \in Graph, RememberDigest(n)
    PROVE  /\ FramesOK' /\ \A m \in Nodes \ {n} : run'[m] = run[m]
           /\ SignsNext(n, run[n], run'[n]) /\ Rest(run[n], run'[n], {"phase", "step", "i"})
<1> DEFINE r == run[n]
           s == SignNext(n, r)
<1>1. run' = [run EXCEPT ![n] = s] /\ scenario' = scenario /\ r.phase = "remember"
  BY DEF RememberDigest, scenarioVars
<1>2. IsNode(n) /\ Sound(n, r)
  BY NodeIsSound
<1>3. Sound(n, s) /\ SignsNext(n, r, s) /\ Rest(r, s, {"phase", "step", "i"})
  BY <1>1, <1>2, RememberedOutcome
<1> HIDE DEF s
<1> QED
  BY <1>1, <1>3, NodeMoves

LEMMA CheckInputSignatureOutcome ==
    ASSUME TypeOK, NEW n \in Graph, CheckInputSignature(n)
    PROVE  /\ FramesOK' /\ \A m \in Nodes \ {n} : run'[m] = run[m]
           /\ \E p \in {"outputs", "clock", "stamps"} : GoesOn(run[n], run'[n], p)
<1> DEFINE r == run[n]
           s == Goto(r, IF ~NeedsRun(n) THEN "outputs" ELSE FirstOfRun(n))
<1>1. run' = [run EXCEPT ![n] = s] /\ scenario' = scenario /\ r.phase = "compare"
  BY DEF CheckInputSignature, scenarioVars
<1>2. IsNode(n) /\ Sound(n, r) /\ FrameOK(r)
  BY NodeIsSound
<1>3. CASE ~NeedsRun(n)
  <2>1. s = Goto(r, "outputs")
    BY <1>3
  <2> HIDE DEF s
  <2>2. FrameOK(s) /\ GoesOn(r, s, "outputs")
    BY <1>2, <2>1, Going DEF Phases, GoesOn
  <2>3. s.sig = r.sig /\ s.stamps = r.stamps /\ s.phase = "outputs" /\ s.step = "look" /\ s.i = 1
    BY <2>2 DEF GoesOn, Rest, FrameFields
  <2>4. Sound(n, s)
    BY <1>1, <1>2, <2>2, <2>3 DEF Sound, IndexOK, Signing, HasSigned, Stamped
  <2> QED
    BY <1>1, <2>2, <2>4, NodeMoves
<1>4. CASE NeedsRun(n)
  <2>1. s = Goto(r, FirstOfRun(n)) /\ FirstOfRun(n) \in {"clock", "stamps"}
    BY <1>4 DEF FirstOfRun
  <2> HIDE DEF s
  <2>2. Sound(n, s) /\ GoesOn(r, s, FirstOfRun(n))
    BY <1>1, <1>2, <2>1, FirstOfRunIsSound
  <2> QED
    BY <1>1, <2>1, <2>2, NodeMoves
<1> QED
  BY <1>3, <1>4

\* From here on a frame has all its signature and stamps.
LEMMA GoingOnStamped ==
    ASSUME TypeOK, NEW n \in Graph, run[n].phase \in Stamped,
           NEW p \in (Stamped \cup {"finished"}) \ {"validate"}
    PROVE  Sound(n, Goto(run[n], p)) /\ GoesOn(run[n], Goto(run[n], p), p)
<1> DEFINE r == run[n]
           s == Goto(r, p)
<1>1. Sound(n, r) /\ FrameOK(r) /\ p \in Phases
  BY NodeIsSound DEF Stamped, Phases
<1>2. FrameOK(s) /\ GoesOn(r, s, p)
  BY <1>1, Going DEF GoesOn
<1> HIDE DEF s
<1>3. s.sig = r.sig /\ s.stamps = r.stamps /\ s.phase = p /\ s.step = "look" /\ s.i = 1
  BY <1>2 DEF GoesOn, Rest, FrameFields
<1>4. IndexOK(n, s)
  BY <1>1, <1>3 DEF Sound, IndexOK, Signing, HasSigned, Stamped
<1> QED
  BY <1>2, <1>4 DEF Sound, s

LEMMA StampedMoves ==
    ASSUME TypeOK, NEW n \in Graph, run[n].phase \in Stamped, scenario' = scenario,
           NEW p \in (Stamped \cup {"finished"}) \ {"validate"},
           run' = [run EXCEPT ![n] = Goto(@, p)]
    PROVE  FramesOK' /\ GoesOn(run[n], run'[n], p) /\ \A m \in Nodes \ {n} : run'[m] = run[m]
<1> DEFINE s == Goto(run[n], p)
<1>1. Sound(n, s) /\ GoesOn(run[n], s, p)
  BY GoingOnStamped
<1> HIDE DEF s
<1>2. run' = [run EXCEPT ![n] = s]
  BY DEF s
<1> QED
  BY <1>1, <1>2, NodeMoves

\* The same with other fields of the frame set.
Notes == {"future", "pre", "acted", "made", "result", "doubtful"}

LEMMA NotesAreSound ==
    ASSUME NEW n, NEW q, Sound(n, q), NEW s, FrameOK(s), Rest(q, s, Notes)
    PROVE  Sound(n, s)
<1>1. s.phase = q.phase /\ s.step = q.step /\ s.i = q.i /\ s.sig = q.sig /\ s.stamps = q.stamps
  BY DEF Rest, FrameFields, Notes
<1> QED
  BY <1>1 DEF Sound, IndexOK

ChecksClock(n, r, s) ==
    \/ GoesOn(r, s, "wait")
    \/ /\ s.phase = "remove" /\ s.step = "look" /\ s.i = 1
       /\ ~s.future => Latest(n) < lastSeen \/ Latest(n) < clock
       /\ Rest(r, s, {"phase", "step", "i", "future"})

LEMMA TimesAreBounded ==
    ASSUME NEW times \in Seq(Nat)
    PROVE  \E b \in Nat : \A k \in DOMAIN times : times[k] <= b
<1> DEFINE Bounded(j) == \E b \in Nat : \A k \in 1 .. j : times[k] <= b
           T == {j \in 0 .. Len(times) : ~Bounded(j)}
<1>1. Len(times) \in Nat /\ DOMAIN times = 1 .. Len(times) /\ \A k \in 1 .. Len(times) : times[k] \in Nat
  OBVIOUS
<1>2. Bounded(0)
  OBVIOUS
<1>3. ASSUME NEW j \in 1 .. Len(times), Bounded(j - 1) PROVE Bounded(j)
  <2>1. PICK b \in Nat : \A k \in 1 .. j - 1 : times[k] <= b
    BY <1>3
  <2>2. \A k \in 1 .. j : times[k] <= b + times[j]
    <3> SUFFICES ASSUME NEW k \in 1 .. j PROVE times[k] <= b + times[j]
      OBVIOUS
    <3>1. times[j] \in Nat /\ times[k] \in Nat
      BY <1>1, <1>3
    <3>2. CASE k = j
      BY <3>1, <3>2
    <3>3. CASE k # j
      <4>1. k \in 1 .. j - 1
        BY <3>3, <1>1
      <4> QED
        BY <2>1, <3>1, <4>1
    <3> QED
      BY <3>2, <3>3
  <2>3. b + times[j] \in Nat
    BY <1>1, <1>3
  <2> QED
    BY <2>2, <2>3
<1> HIDE DEF Bounded
<1>4. T \subseteq Nat
  BY <1>1
<1>5. T = {}
  <2> SUFFICES ASSUME T # {} PROVE FALSE
    OBVIOUS
  <2>1. \E x \in T : \A y \in T : ~ (y < x)
    <3>1. PICK x \in T : \A y \in T : ~(<<y, x>> \in OpToRel(<, Nat))
      BY <1>4, NatLessThanWellFounded, WFMin
    <3> QED
      BY <1>4, <3>1, Zenon DEF OpToRel
  <2>2. PICK x \in T : \A y \in T : ~ (y < x)
    BY <2>1
  <2>3. x \in 1 .. Len(times) /\ x - 1 \in 0 .. Len(times) /\ x - 1 < x
    BY <1>1, <1>2, <2>2
  <2>4. Bounded(x - 1)
    BY <2>2, <2>3
  <2> QED
    BY <1>3, <2>2, <2>3, <2>4
<1>6. Bounded(Len(times))
  BY <1>1, <1>5
<1> QED
  BY <1>1, <1>6 DEF Bounded

LEMMA StampsHaveALatest ==
    ASSUME TypeOK, NEW n \in Graph
    PROVE  /\ Latest(n) \in Nat
           /\ \A k \in DOMAIN run[n].stamps : run[n].stamps[k] \in Nat /\ run[n].stamps[k] <= Latest(n)
<1>1. run[n].stamps \in Seq(Nat)
  BY NodeIsSound DEF FrameOK
<1>2. \E b \in Nat : \A k \in DOMAIN run[n].stamps : run[n].stamps[k] <= b
  BY <1>1, TimesAreBounded
<1> QED
  BY <1>1, <1>2, LatestIsLatest

LEMMA CheckClockOutcome ==
    ASSUME TypeOK, NEW n \in Graph, CheckClock(n)
    PROVE  /\ FramesOK' /\ \A m \in Nodes \ {n} : run'[m] = run[m]
           /\ ChecksClock(n, run[n], run'[n]) /\ lastSeen' \in 0 .. clock
<1> DEFINE r == run[n]
           past == Latest(n) < lastSeen
           future == ~past /\ Latest(n) > clock
           s == IF ~past /\ Latest(n) = clock THEN Goto(r, "wait")
                ELSE [Goto(r, "remove") EXCEPT !.future = future]
<1>1. run' = [run EXCEPT ![n] = s] /\ scenario' = scenario /\ r.phase = "clock"
  BY DEF CheckClock, scenarioVars
<1>2. lastSeen' \in 0 .. clock
  BY DEF CheckClock, TypeOK, TimesOK
<1>3. CASE ~past /\ Latest(n) = clock
  <2>1. run' = [run EXCEPT ![n] = Goto(@, "wait")]
    BY <1>1, <1>3
  <2>2. FramesOK' /\ GoesOn(r, run'[n], "wait") /\ \A m \in Nodes \ {n} : run'[m] = run[m]
    BY <1>1, <2>1, StampedMoves DEF Stamped
  <2> QED
    BY <1>2, <2>2 DEF ChecksClock
<1>4. CASE ~(~past /\ Latest(n) = clock)
  <2> DEFINE q == Goto(r, "remove")
  <2>1. s = [q EXCEPT !.future = future] /\ future \in BOOLEAN
    BY <1>4
  <2>2. FrameOK(q)
    BY GoingOnStamped, <1>1 DEF Stamped, Sound
  <2> HIDE DEF s
  <2>3. FrameOK(s) /\ s.future = future /\ Rest(q, s, {"future"})
    BY <2>1, <2>2, Noting
  <2>4. q = Goto(run[n], "remove")
    OBVIOUS
  <2> HIDE DEF q, future
  <2>5. /\ FramesOK' /\ \A m \in Nodes \ {n} : run'[m] = run[m]
        /\ run'[n] = s /\ s.phase = "remove" /\ s.step = "look" /\ s.i = 1
        /\ Rest(run[n], s, {"phase", "step", "i", "future"})
    <3>1. Sound(n, q) /\ GoesOn(run[n], q, "remove")
      BY <1>1, <2>4, GoingOnStamped DEF Stamped
    <3>2. Rest(q, s, Notes)
      BY <2>3 DEF Rest, Notes
    <3>3. Sound(n, s)
      BY <2>3, <3>1, <3>2, NotesAreSound
    <3>4. s.phase = q.phase /\ s.step = q.step /\ s.i = q.i
      BY <2>3 DEF Rest, FrameFields
    <3> QED
      BY <1>1, <2>3, <3>1, <3>3, <3>4, NodeMoves DEF GoesOn, Rest
  <2>7. ~s.future => Latest(n) < lastSeen \/ Latest(n) < clock
    <3>1. ~s.future => ~future
      BY <2>3, Zenon
    <3> QED
      BY <1>4, <3>1, StampsHaveALatest DEF future, TypeOK, TimesOK
  <2> QED
    BY <1>2, <2>5, <2>7 DEF ChecksClock
<1> QED
  BY <1>3, <1>4

LEMMA WaitUntilInThePastOutcome ==
    ASSUME TypeOK, NEW n \in Graph, WaitUntilInThePast(n)
    PROVE  /\ FramesOK' /\ \A m \in Nodes \ {n} : run'[m] = run[m]
           /\ GoesOn(run[n], run'[n], "remove") /\ clock > Latest(n) /\ lastSeen' = clock
BY StampedMoves DEF WaitUntilInThePast, Stamped, scenarioVars

LEMMA RemoveOutputOutcome ==
    ASSUME TypeOK, NEW n \in Graph, RemoveOutput(n)
    PROVE  /\ FramesOK' /\ \A m \in Nodes \ {n} : run'[m] = run[m]
           /\ \E p \in {"mkdir", "removed"} : GoesOn(run[n], run'[n], p)
<1> DEFINE p == IF sc.overwrites THEN "mkdir" ELSE "removed"
<1>1. run' = [run EXCEPT ![n] = Goto(@, p)] /\ scenario' = scenario /\ run[n].phase = "remove"
  BY DEF RemoveOutput, scenarioVars
<1>2. p \in {"mkdir", "removed"}
  OBVIOUS
<1> HIDE DEF p
<1> QED
  BY <1>1, <1>2, StampedMoves DEF Stamped

LEMMA MarkRemovedOutcome ==
    ASSUME TypeOK, NEW n \in Graph, MarkRemoved(n)
    PROVE  /\ FramesOK' /\ \A m \in Nodes \ {n} : run'[m] = run[m]
           /\ GoesOn(run[n], run'[n], "mkdir")
BY StampedMoves DEF MarkRemoved, Stamped, scenarioVars

LEMMA MakeDirectoryOutcome ==
    ASSUME TypeOK, NEW n \in Graph, MakeDirectory(n)
    PROVE  /\ FramesOK' /\ \A m \in Nodes \ {n} : run'[m] = run[m]
           /\ GoesOn(run[n], run'[n], "made")
BY StampedMoves DEF MakeDirectory, MakeDirectorySucceeds, Stamped, scenarioVars

LEMMA MarkMadeOutcome ==
    ASSUME TypeOK, NEW n \in Graph, MarkMade(n)
    PROVE  /\ FramesOK' /\ \A m \in Nodes \ {n} : run'[m] = run[m]
           /\ GoesOn(run[n], run'[n], "pre")
BY StampedMoves DEF MarkMade, Stamped, scenarioVars

LEMMA MarkDigestDirtyOutcome ==
    ASSUME TypeOK, NEW n \in Graph, MarkDigestDirty(n)
    PROVE  /\ FramesOK' /\ \A m \in Nodes \ {n} : run'[m] = run[m]
           /\ GoesOn(run[n], run'[n], "marked")
BY StampedMoves DEF MarkDigestDirty, Stamped, scenarioVars

LEMMA TakePreTimestampOutcome ==
    ASSUME TypeOK, NEW n \in Graph, TakePreTimestamp(n)
    PROVE  /\ FramesOK' /\ \A m \in Nodes \ {n} : run'[m] = run[m]
           /\ run'[n].phase = "act" /\ run'[n].pre = GetFileInfo(Output(n))
           /\ Rest(run[n], run'[n], {"phase", "step", "i", "pre"})
<1> DEFINE q == Goto(run[n], "act")
           t == GetFileInfo(Output(n))
           s == [q EXCEPT !.pre = t]
<1>1. run' = [run EXCEPT ![n] = s] /\ scenario' = scenario /\ run[n].phase = "pre"
  BY DEF TakePreTimestamp, scenarioVars
<1>2. FrameOK(q) /\ q = Goto(run[n], "act")
  BY GoingOnStamped, <1>1 DEF Stamped, Sound
<1>3. t \in Nat
  BY NodeIsSound DEF TypeOK, DiskOK, GetFileInfo
<1> HIDE DEF q, t
<1>4. FrameOK(s) /\ s.pre = t /\ Rest(q, s, {"pre"})
  <2>1. s = [q EXCEPT !.pre = t]
    OBVIOUS
  <2> HIDE DEF s
  <2> QED
    BY <1>2, <1>3, <2>1, SettingPre
<1> HIDE DEF s
<1>5. Sound(n, q) /\ GoesOn(run[n], q, "act")
  BY <1>1, <1>2, GoingOnStamped DEF Stamped
<1>6. Rest(q, s, Notes)
  BY <1>4 DEF Rest, Notes
<1>7. Sound(n, s)
  BY <1>4, <1>5, <1>6, NotesAreSound
<1>8. s.phase = q.phase
  BY <1>4 DEF Rest, FrameFields
<1> QED
  <2>1. FramesOK' /\ run'[n] = s /\ \A m \in Nodes \ {n} : run'[m] = run[m]
    BY <1>1, <1>7, NodeMoves
  <2>2. Rest(run[n], s, {"phase", "step", "i", "pre"})
    BY <1>4, <1>5 DEF GoesOn, Rest
  <2> QED
    BY <1>4, <1>5, <1>8, <2>1, <2>2 DEF GoesOn, t

LEMMA BeginActionOutcome ==
    ASSUME TypeOK, NEW n \in Graph, BeginAction(n)
    PROVE  /\ FramesOK' /\ \A m \in Nodes \ {n} : run'[m] = run[m]
           /\ run'[n].phase = "acting" /\ run'[n].acted \in {"succeeds", "fails", "silent"}
           /\ run'[n].acted = "silent" => disk' = disk
           /\ \/ disk' = disk
              \/ disk' = [disk EXCEPT ![Output(n)] = [content |-> Torn, mtime |-> clock]]
           /\ Rest(run[n], run'[n], {"phase", "step", "i", "acted", "made"})
<1> DEFINE in == Inputs(n)
           made == Made([k \in DOMAIN in |-> disk[in[k]].content])
           q == Goto(run[n], "acting")
           After(outcome) == [q EXCEPT !.acted = outcome, !.made = made]
<1>1. PICK outcome \in sc.outcomes :
        /\ run' = [run EXCEPT ![n] = After(outcome)]
        /\ IF outcome = "silent" THEN UNCHANGED disk ELSE Writes(Output(n), Torn)
  BY DEF BeginAction
<1> DEFINE s == After(outcome)
<1>2. scenario' = scenario /\ run[n].phase = "act"
  BY DEF BeginAction, scenarioVars
<1>3. Sound(n, q) /\ GoesOn(run[n], q, "acting")
  BY <1>2, GoingOnStamped DEF Stamped
<1> HIDE DEF q, made
<1>4. FrameOK(s) /\ s.acted = outcome /\ Rest(q, s, {"acted", "made"})
  <2>1. s = [q EXCEPT !.acted = outcome, !.made = made]
    OBVIOUS
  <2> HIDE DEF s
  <2> QED
    BY <1>3, <2>1 DEF Sound, FrameOK, FrameFields, Rest
<1>5. run' = [run EXCEPT ![n] = s]
  BY <1>1
<1> HIDE DEF s, After
<1>6. Rest(q, s, Notes)
  BY <1>4 DEF Rest, Notes
<1>7. Sound(n, s)
  BY <1>3, <1>4, <1>6, NotesAreSound
<1>8. s.phase = q.phase
  BY <1>4 DEF Rest, FrameFields
<1>9. FramesOK' /\ run'[n] = s /\ \A m \in Nodes \ {n} : run'[m] = run[m]
  BY <1>2, <1>5, <1>7, NodeMoves
<1>10. Rest(run[n], s, {"phase", "step", "i", "acted", "made"})
  BY <1>3, <1>4 DEF GoesOn, Rest
<1>11. s.acted \in {"succeeds", "fails", "silent"}
  BY <1>1, <1>4, GraphFacts DEF TypeOK
<1>12. /\ s.acted = "silent" => disk' = disk
       /\ \/ disk' = disk
          \/ disk' = [disk EXCEPT ![Output(n)] = [content |-> Torn, mtime |-> clock]]
  BY <1>1, <1>4 DEF Writes
<1> QED
  BY <1>3, <1>8, <1>9, <1>10, <1>11, <1>12 DEF GoesOn

LEMMA EndActionOutcome ==
    ASSUME TypeOK, NEW n \in Graph, EndAction(n)
    PROVE  /\ FramesOK' /\ \A m \in Nodes \ {n} : run'[m] = run[m]
           /\ run'[n].phase = "post"
           /\ Rest(run[n], run'[n], {"phase", "step", "i", "made"})
<1> DEFINE q == Goto(run[n], "post")
           s == [q EXCEPT !.made = NoContent]
<1>1. run' = [run EXCEPT ![n] = s] /\ scenario' = scenario /\ run[n].phase = "acting"
  BY DEF EndAction, scenarioVars
<1>2. Sound(n, q) /\ GoesOn(run[n], q, "post")
  BY <1>1, GoingOnStamped DEF Stamped
<1> HIDE DEF q
<1>3. FrameOK(s) /\ Rest(q, s, {"made"})
  <2>1. s = [q EXCEPT !.made = NoContent]
    OBVIOUS
  <2> HIDE DEF s
  <2> QED
    BY <1>2, <2>1 DEF Sound, FrameOK, FrameFields, Rest
<1> HIDE DEF s
<1>4. Rest(q, s, Notes)
  BY <1>3 DEF Rest, Notes
<1>5. Sound(n, s)
  BY <1>2, <1>3, <1>4, NotesAreSound
<1>6. s.phase = q.phase
  BY <1>3 DEF Rest, FrameFields
<1>7. FramesOK' /\ run'[n] = s /\ \A m \in Nodes \ {n} : run'[m] = run[m]
  BY <1>1, <1>5, NodeMoves
<1>8. Rest(run[n], s, {"phase", "step", "i", "made"})
  BY <1>2, <1>3 DEF GoesOn, Rest
<1> QED
  BY <1>2, <1>6, <1>7, <1>8 DEF GoesOn

LEMMA CheckWrittenOutcome ==
    ASSUME TypeOK, NEW n \in Graph, CheckWritten(n)
    PROVE  /\ FramesOK' /\ \A m \in Nodes \ {n} : run'[m] = run[m]
           /\ run'[n].phase = "mark"
           /\ run'[n].result = IF run[n].acted # "fails" /\ run[n].pre # GetFileInfo(Output(n))
                               THEN "kRanSuccesfully" ELSE "kRanFailed"
           /\ Rest(run[n], run'[n], {"phase", "step", "i", "result"})
<1> DEFINE result == IF run[n].acted # "fails" /\ run[n].pre # GetFileInfo(Output(n))
                     THEN "kRanSuccesfully" ELSE "kRanFailed"
           q == Goto(run[n], "mark")
           s == [q EXCEPT !.result = result]
<1>1. run' = [run EXCEPT ![n] = s] /\ scenario' = scenario /\ run[n].phase = "post"
  BY DEF CheckWritten, scenarioVars
<1>2. Sound(n, q) /\ GoesOn(run[n], q, "mark")
  BY <1>1, GoingOnStamped DEF Stamped
<1> HIDE DEF q, result
<1>3. FrameOK(s) /\ s.result = result /\ Rest(q, s, {"result"})
  <2>1. s = [q EXCEPT !.result = result]
    OBVIOUS
  <2> HIDE DEF s
  <2> QED
    BY <1>2, <2>1 DEF Sound, FrameOK, FrameFields, Rest
<1> HIDE DEF s
<1>4. Rest(q, s, Notes)
  BY <1>3 DEF Rest, Notes
<1>5. Sound(n, s)
  BY <1>2, <1>3, <1>4, NotesAreSound
<1>6. s.phase = q.phase
  BY <1>3 DEF Rest, FrameFields
<1>7. FramesOK' /\ run'[n] = s /\ \A m \in Nodes \ {n} : run'[m] = run[m]
  BY <1>1, <1>5, NodeMoves
<1>8. Rest(run[n], s, {"phase", "step", "i", "result"})
  BY <1>2, <1>3 DEF GoesOn, Rest
<1> QED
  BY <1>2, <1>3, <1>6, <1>7, <1>8 DEF GoesOn, result

\* Done, in doubt where a source is dated in the future, or on to the sources.
AfterMarking(n, r, s) ==
    \/ s.phase = "finished" /\ s.doubtful /\ Rest(r, s, {"phase", "doubtful"})
    \/ ~r.future /\ Sources(n) = <<>> /\ s.phase = "finished" /\ Rest(r, s, {"phase"})
    \/ /\ ~r.future /\ Sources(n) # <<>>
       /\ s.phase = "validate" /\ s.step = "dirty" /\ s.i = 1 /\ Rest(r, s, {"phase", "step", "i"})

LEMMA MarkStatDirtyOutcome ==
    ASSUME TypeOK, NEW n \in Graph, MarkStatDirty(n)
    PROVE  /\ FramesOK' /\ \A m \in Nodes \ {n} : run'[m] = run[m]
           /\ AfterMarking(n, run[n], run'[n])
<1> DEFINE r == run[n]
           e == Finish(r, r.result)
           q == Goto(r, "validate")
           s == IF r.future THEN [e EXCEPT !.doubtful = TRUE]
                ELSE IF Sources(n) = <<>> THEN e ELSE [q EXCEPT !.step = "dirty"]
<1>1. run' = [run EXCEPT ![n] = s] /\ scenario' = scenario /\ r.phase = "marked"
  BY DEF MarkStatDirty, scenarioVars
<1>2. IsNode(n) /\ Sound(n, r) /\ FrameOK(r)
  BY NodeIsSound
<1>3. FrameOK(e) /\ e.phase = "finished" /\ e.result = r.result /\ Rest(r, e, {"phase", "result"})
  BY <1>2, Finishing
<1>4. FrameOK(q) /\ q.phase = "validate" /\ q.step = "look" /\ q.i = 1
      /\ Rest(r, q, {"phase", "step", "i"})
  BY <1>2, Going DEF Phases
<1> HIDE DEF e, q
<1>5. Rest(r, e, {"phase"}) /\ e.step = r.step
  BY <1>3 DEF Rest, FrameFields
<1>6. CASE r.future
  <2>1. s = [e EXCEPT !.doubtful = TRUE]
    BY <1>6
  <2> HIDE DEF s
  <2>2. FrameOK(s) /\ s.doubtful = TRUE /\ Rest(e, s, {"doubtful"})
    BY <1>3, <2>1, Noting
  <2>3. s.phase = "finished" /\ s.step = r.step
    BY <1>3, <1>5, <2>2 DEF Rest, FrameFields
  <2>4. Sound(n, s)
    BY <1>1, <1>2, <2>2, <2>3 DEF Sound, IndexOK, Signing, HasSigned, Stamped
  <2>5. Rest(r, s, {"phase", "doubtful"})
    BY <1>5, <2>2 DEF Rest
  <2> QED
    BY <1>1, <2>2, <2>3, <2>4, <2>5, NodeMoves DEF AfterMarking
<1>7. CASE ~r.future /\ Sources(n) = <<>>
  <2>1. s = e
    BY <1>7
  <2> HIDE DEF s
  <2>2. Sound(n, s)
    BY <1>1, <1>2, <1>3, <1>5, <2>1 DEF Sound, IndexOK, Signing, HasSigned, Stamped
  <2> QED
    BY <1>1, <1>3, <1>5, <1>7, <2>1, <2>2, NodeMoves DEF AfterMarking
<1>8. CASE ~r.future /\ Sources(n) # <<>>
  <2>1. s = [q EXCEPT !.step = "dirty"]
    BY <1>8
  <2> HIDE DEF s
  <2>2. FrameOK(s) /\ s.step = "dirty" /\ Rest(q, s, {"step"})
    BY <1>4, <2>1, Stepping
  <2>3. s.phase = "validate" /\ s.i = 1 /\ s.sig = q.sig /\ s.stamps = q.stamps
    BY <1>4, <2>2 DEF Rest, FrameFields
  <2>4. q.sig = r.sig /\ q.stamps = r.stamps
    BY <1>4 DEF Rest, FrameFields
  <2>5. 1 <= Len(Sources(n))
    BY <1>2, <1>8, InputFacts DEF IsNode
  <2>6. Sound(n, s)
    BY <1>1, <1>2, <2>2, <2>3, <2>4, <2>5 DEF Sound, IndexOK, Signing, HasSigned, Stamped
  <2>7. Rest(r, s, {"phase", "step", "i"})
    BY <1>4, <2>2 DEF Rest
  <2> QED
    BY <1>1, <1>8, <2>2, <2>3, <2>6, <2>7, NodeMoves DEF AfterMarking
<1> QED
  BY <1>6, <1>7, <1>8

LEMMA MarkSourceDirtyOutcome ==
    ASSUME TypeOK, NEW n \in Graph, MarkSourceDirty(n)
    PROVE  /\ FramesOK' /\ \A m \in Nodes \ {n} : run'[m] = run[m]
           /\ run[n].phase = "validate" /\ run[n].step = "dirty"
           /\ run'[n].step = "look" /\ Rest(run[n], run'[n], {"step"})
<1> DEFINE r == run[n]
           s == [r EXCEPT !.step = "look"]
<1>1. /\ run' = [run EXCEPT ![n] = s] /\ scenario' = scenario /\ r.step = "dirty"
  BY DEF MarkSourceDirty, InStat, scenarioVars
<1>2. Sound(n, r) /\ FrameOK(r)
  BY NodeIsSound
<1>3. FrameOK(s) /\ s.step = "look" /\ Rest(r, s, {"step"})
  BY <1>2, Stepping
<1> HIDE DEF s
<1>4. s.phase = r.phase /\ s.i = r.i /\ s.sig = r.sig /\ s.stamps = r.stamps
  BY <1>3 DEF Rest, FrameFields
<1>5. Sound(n, s) /\ r.phase = "validate"
  BY <1>1, <1>2, <1>3, <1>4 DEF Sound, IndexOK
<1> QED
  BY <1>1, <1>3, <1>5, NodeMoves

---------------------------------------------------------------------------
(* What each operation does to the caches and the disk *)

Clean(t) == [mtime |-> t, dirty |-> FALSE]
OldEntry(f, e) == \E j \in DOMAIN statCache[f] : e = statCache[f][j]
\* The entries of f change places at most.
Kept(f) ==
    /\ Len(statCache'[f]) = Len(statCache[f])
    /\ Len(statCache[f]) <= 1 => statCache'[f] = statCache[f]
    /\ \A k \in DOMAIN statCache'[f] : OldEntry(f, statCache'[f][k])
Stored(f, t, known) ==
    /\ \A g \in Files \ {f} : Kept(g)
    /\ \A k \in DOMAIN statCache'[f] : statCache'[f][k] = Clean(t) \/ OldEntry(f, statCache'[f][k])
    /\ known = (statCache[f] # <<>>) /\ Len(statCache[f]) <= 1 =>
           Len(statCache'[f]) = 1 /\ statCache'[f][1] = Clean(t)
Marked(f) ==
    /\ \A g \in Files \ {f} : statCache'[g] = statCache[g]
    /\ Len(statCache'[f]) = Len(statCache[f])
    /\ statCache'[f] # <<>> => statCache'[f][1].dirty
    /\ \A k \in DOMAIN statCache'[f] :
           statCache'[f][k].dirty \/ OldEntry(f, statCache'[f][k])

LEMMA Rotating ==
    ASSUME NEW S, NEW s \in Seq(S), Len(s) > 1
    PROVE  /\ Rotated(s) \in Seq(S) /\ Len(Rotated(s)) = Len(s)
           /\ \A k \in DOMAIN Rotated(s) : \E j \in DOMAIN s : Rotated(s)[k] = s[j]
<1>1. /\ Tail(s) \in Seq(S) /\ Len(Tail(s)) = Len(s) - 1 /\ Head(s) = s[1] /\ s[1] \in S
      /\ DOMAIN s = 1 .. Len(s) /\ Len(s) \in Nat
      /\ \A k \in 1 .. Len(s) - 1 : Tail(s)[k] = s[k + 1]
  OBVIOUS
<1> DEFINE u == Rotated(s)
<1>2. /\ u \in Seq(S) /\ Len(u) = Len(s) /\ DOMAIN u = 1 .. Len(s)
      /\ \A k \in 1 .. Len(s) - 1 : u[k] = Tail(s)[k]
      /\ u[Len(s)] = s[1]
  BY <1>1 DEF Rotated
<1> HIDE DEF u
<1>3. ASSUME NEW k \in DOMAIN u PROVE \E j \in DOMAIN s : u[k] = s[j]
  <2>1. CASE k = Len(s)
    BY <1>1, <1>2, <2>1
  <2>2. CASE k # Len(s)
    <3>1. k \in 1 .. Len(s) - 1 /\ k + 1 \in 1 .. Len(s)
      BY <1>1, <1>2, <2>2
    <3> QED
      BY <1>1, <1>2, <3>1
  <2> QED
    BY <2>1, <2>2
<1> QED
  BY <1>2, <1>3 DEF u

LEMMA Inserting ==
    ASSUME StatOK, NEW f \in Files, NEW t \in Nat, StatCacheInsert(f, t)
    PROVE  StatOK' /\ Stored(f, t, FALSE)
<1> DEFINE e == Clean(t)
<1>0. e \in EntryType /\ e = [mtime |-> t, dirty |-> FALSE]
  BY DEF EntryType, Clean
<1>1. PICK moved \in SUBSET {g \in DOMAIN statCache : Len(statCache[g]) > 1} :
        statCache' = [g \in DOMAIN statCache |->
            LET s == IF g \in moved THEN Rotated(statCache[g]) ELSE statCache[g]
            IN  IF g = f THEN Append(s, [mtime |-> t, dirty |-> FALSE]) ELSE s]
  BY DEF StatCacheInsert
<1> DEFINE S(g) == IF g \in moved THEN Rotated(statCache[g]) ELSE statCache[g]
<1>2. /\ DOMAIN statCache = Files /\ \A g \in Files : statCache[g] \in Seq(EntryType)
      /\ \A g \in moved : g \in Files /\ Len(statCache[g]) > 1
  BY DEF StatOK
<1>3. /\ statCache' = [g \in Files |-> IF g = f THEN Append(S(g), e) ELSE S(g)]
  BY <1>0, <1>1, <1>2
<1>4. ASSUME NEW g \in Files
      PROVE  /\ S(g) \in Seq(EntryType) /\ Len(S(g)) = Len(statCache[g])
             /\ Len(statCache[g]) <= 1 => S(g) = statCache[g]
             /\ \A k \in DOMAIN S(g) : OldEntry(g, S(g)[k])
  <2>1. CASE g \in moved
    BY <1>2, <2>1, Rotating DEF OldEntry
  <2>2. CASE g \notin moved
    BY <1>2, <2>2 DEF OldEntry
  <2> QED
    BY <2>1, <2>2
<1> HIDE DEF S, e
<1>5. statCache'[f] = Append(S(f), e) /\ \A g \in Files \ {f} : statCache'[g] = S(g)
  BY <1>3
<1>6. /\ Append(S(f), e) \in Seq(EntryType) /\ Len(Append(S(f), e)) = Len(statCache[f]) + 1
      /\ \A k \in DOMAIN Append(S(f), e) :
             \/ k \in DOMAIN S(f) /\ Append(S(f), e)[k] = S(f)[k]
             \/ Append(S(f), e)[k] = e
      /\ Len(statCache[f]) = 0 => Append(S(f), e)[1] = e
  BY <1>0, <1>4
<1>7. StatOK'
  BY <1>3, <1>4, <1>6 DEF StatOK
<1>8. \A g \in Files \ {f} : Kept(g)
  BY <1>4, <1>5 DEF Kept
<1>9. \A k \in DOMAIN statCache'[f] : statCache'[f][k] = e \/ OldEntry(f, statCache'[f][k])
  BY <1>4, <1>5, <1>6
<1>10. statCache[f] = <<>> => Len(statCache'[f]) = 1 /\ statCache'[f][1] = e
  BY <1>2, <1>5, <1>6
<1> QED
  BY <1>7, <1>8, <1>9, <1>10 DEF Stored, e

LEMMA Updating ==
    ASSUME StatOK, NEW f \in Files, NEW t \in Nat, StatCacheUpdate(f, t)
    PROVE  StatOK' /\ Stored(f, t, TRUE)
<1> DEFINE e == Clean(t)
           s == statCache[f]
           u == [s EXCEPT ![1] = e]
<1>1. e \in EntryType /\ e = [mtime |-> t, dirty |-> FALSE]
  BY DEF EntryType, Clean
<1>2. s \in Seq(EntryType) /\ statCache = [g \in Files |-> statCache[g]]
      /\ \A g \in Files : statCache[g] \in Seq(EntryType)
  BY DEF StatOK
<1>3. statCache' = [statCache EXCEPT ![f] = u]
  BY <1>1 DEF StatCacheUpdate
<1> HIDE DEF e, s
<1>4. /\ u \in Seq(EntryType) /\ Len(u) = Len(s) /\ DOMAIN u = DOMAIN s /\ DOMAIN s = 1 .. Len(s)
      /\ Len(s) \in Nat
      /\ \A k \in DOMAIN s : u[k] = IF k = 1 THEN e ELSE s[k]
  <2>1. s = [k \in 1 .. Len(s) |-> s[k]] /\ Len(s) \in Nat /\ \A k \in 1 .. Len(s) : s[k] \in EntryType
    BY <1>2
  <2>2. u = [k \in 1 .. Len(s) |-> IF k = 1 THEN e ELSE s[k]]
    BY <2>1
  <2> HIDE DEF u
  <2>3. \A k \in 1 .. Len(s) : u[k] \in EntryType
    BY <1>1, <2>1, <2>2
  <2>4. u \in Seq(EntryType)
    BY <2>1, <2>2, <2>3
  <2>5. Len(u) = Len(s)
    BY <2>1, <2>2, <2>4
  <2> QED
    BY <2>1, <2>2, <2>4, <2>5
<1> HIDE DEF u
<1>5. statCache'[f] = u /\ \A g \in Files \ {f} : statCache'[g] = statCache[g]
  BY <1>2, <1>3
<1>6. StatOK'
  BY <1>2, <1>3, <1>4 DEF StatOK
<1>7. \A g \in Files \ {f} : Kept(g)
  BY <1>5 DEF Kept, OldEntry
<1>8. \A k \in DOMAIN statCache'[f] : statCache'[f][k] = e \/ OldEntry(f, statCache'[f][k])
  BY <1>4, <1>5 DEF OldEntry, s
<1>9. statCache[f] # <<>> /\ Len(statCache[f]) <= 1 => Len(statCache'[f]) = 1 /\ statCache'[f][1] = e
  <2>1. s # <<>> => Len(s) # 0
    BY <1>2
  <2> QED
    BY <1>4, <1>5, <2>1 DEF s
<1> QED
  BY <1>6, <1>7, <1>8, <1>9 DEF Stored, e

LEMMA Marking ==
    ASSUME StatOK, NEW f \in Files, StatCacheMarkDirty(f)
    PROVE  StatOK' /\ Marked(f)
<1> DEFINE s == statCache[f]
<1>1. s \in Seq(EntryType) /\ statCache = [g \in Files |-> statCache[g]]
      /\ \A g \in Files : statCache[g] \in Seq(EntryType)
  BY DEF StatOK
<1>2. CASE s = <<>>
  <2>1. statCache' = statCache
    BY <1>2 DEF StatCacheMarkDirty, StatCacheKnows
  <2> QED
    BY <1>1, <1>2, <2>1 DEF StatOK, Marked, OldEntry
<1>3. CASE s # <<>>
  <2> DEFINE d == [s[1] EXCEPT !.dirty = TRUE]
             u == [s EXCEPT ![1] = d]
  <2>1. statCache' = [statCache EXCEPT ![f][1].dirty = TRUE]
    BY <1>3 DEF StatCacheMarkDirty, StatCacheKnows
  <2>2. statCache' = [statCache EXCEPT ![f] = u]
    BY <2>1
  <2>3. /\ s = [k \in 1 .. Len(s) |-> s[k]] /\ Len(s) \in Nat \ {0}
        /\ \A k \in 1 .. Len(s) : s[k] \in EntryType
    BY <1>1, <1>3
  <2>4. d \in EntryType /\ d.dirty
    <3>0. 1 \in 1 .. Len(s)
      BY <2>3
    <3>1. s[1] \in EntryType
      BY <2>3, <3>0, Zenon
    <3>2. s[1] = [mtime |-> s[1].mtime, dirty |-> s[1].dirty] /\ s[1].mtime \in Nat
      BY <3>1 DEF EntryType
    <3> DEFINE b == s[1]
    <3>4. b = [mtime |-> b.mtime, dirty |-> b.dirty] /\ d = [b EXCEPT !.dirty = TRUE]
      BY <3>2
    <3> HIDE DEF b, d
    <3>5. d = [mtime |-> b.mtime, dirty |-> TRUE]
      BY <3>4
    <3>3. d = [mtime |-> s[1].mtime, dirty |-> TRUE]
      BY <3>5 DEF b
    <3> QED
      BY <3>2, <3>3 DEF EntryType
  <2> HIDE DEF d, s
  <2>5. u = [k \in 1 .. Len(s) |-> IF k = 1 THEN d ELSE s[k]]
    BY <2>3
  <2> HIDE DEF u
  <2>6. \A k \in 1 .. Len(s) : u[k] \in EntryType
    BY <2>3, <2>4, <2>5
  <2>7. u \in Seq(EntryType)
    BY <2>3, <2>5, <2>6
  <2>8. Len(u) = Len(s)
    BY <2>3, <2>5, <2>7
  <2>9. statCache'[f] = u /\ \A g \in Files \ {f} : statCache'[g] = statCache[g]
    BY <1>1, <2>2
  <2>10. StatOK'
    BY <1>1, <2>2, <2>7 DEF StatOK
  <2>11. \A k \in DOMAIN u : u[k].dirty \/ OldEntry(f, u[k])
    BY <2>3, <2>4, <2>5 DEF OldEntry, s
  <2>12. u[1].dirty
    <3>0. 1 \in 1 .. Len(s)
      BY <2>3
    <3>1. u[1] = d
      BY <2>5, <3>0
    <3> QED
      BY <2>4, <3>1
  <2> QED
    BY <2>8, <2>9, <2>10, <2>11, <2>12 DEF Marked, s
<1> QED
  BY <1>2, <1>3

LEMMA Writing ==
    ASSUME DiskOK, NEW f \in Files, NEW c, NEW t \in Nat,
           disk' = [disk EXCEPT ![f] = [content |-> c, mtime |-> t]]
    PROVE  /\ DiskOK' /\ disk'[f].content = c /\ disk'[f].mtime = t
           /\ \A g \in Files \ {f} : disk'[g] = disk[g]
<1>1. /\ disk' = [g \in Files |-> disk'[g]]
      /\ disk'[f] = [content |-> c, mtime |-> t] /\ \A g \in Files \ {f} : disk'[g] = disk[g]
  BY DEF DiskOK
<1>2. ASSUME NEW g \in Files
      PROVE  disk'[g] = [content |-> disk'[g].content, mtime |-> disk'[g].mtime] /\ disk'[g].mtime \in Nat
  <2>1. CASE g = f
    BY <1>1, <2>1
  <2>2. CASE g # f
    BY <1>1, <2>2 DEF DiskOK
  <2> QED
    BY <2>1, <2>2
<1> QED
  BY <1>1, <1>2 DEF DiskOK

\* What the steps of a node leave alone.
Surroundings == UNCHANGED <<scenario, mode, clock, kills, built, savedDigests>>

LEMMA NodeStepIsInBuild ==
    ASSUME NEW n, NodeStep(n)
    PROVE  Surroundings
BY DEF NodeStep, Surroundings, StatCacheStat, StatTheFile, StoreStat, GetDigest, HashContent,
       RememberDigest, CheckInputSignature, CheckClock, WaitUntilInThePast, RemoveOutput, MarkRemoved,
       MakeDirectory, MarkMade, TakePreTimestamp, BeginAction, EndAction, CheckWritten,
       MarkDigestDirty, MarkStatDirty, MarkSourceDirty, scenarioVars, persistent

\* What the step of a node does to the disk.
DiskStep(n) ==
    LET f == Output(n) IN
    \/ disk' = disk
    \/ /\ run[n].phase = "make" /\ \A g \in Files \ {Dir} : disk'[g] = disk[g]
    \/ /\ run[n].phase \in {"remove", "act", "acting"} /\ \A g \in Files \ {f} : disk'[g] = disk[g]
       /\ run[n].phase = "remove" => disk'[f] = Absent
       /\ disk'[f].mtime = 0 => disk'[f].content = NoContent
\* ... and to the caches.
StatStep(n) ==
    \/ statCache' = statCache
    \/ InStat(n, "store") /\ Stored(StatFile(n), run[n].seen, run[n].known)
    \/ /\ run[n].phase \in {"removed", "marked"} /\ Marked(Output(n))
    \/ run[n].phase = "made" /\ Marked(Dir)
    \/ /\ run[n].phase = "validate" /\ run[n].step = "dirty" /\ Marked(StatFile(n))
DigestStep(n) ==
    LET g == Inputs(n)[run[n].i] IN
    \/ digestCache' = digestCache
    \/ /\ run[n].phase = "remember"
       /\ digestCache'[g] = [content |-> Last(run[n].sig), mtime |-> run[n].seen, dirty |-> FALSE]
       /\ \A f \in Files \ {g} : digestCache'[f] = digestCache[f]
    \/ /\ run[n].phase = "mark" /\ digestCache'[Output(n)].dirty
       /\ \A f \in Files \ {Output(n)} : digestCache'[f] = digestCache[f]
ReadStep(n) ==
    \/ read' = read
    \/ /\ run[n].phase = "act" /\ \A m \in Nodes \ {n} : read'[m] = read[m]
       /\ \A k \in DOMAIN Sources(n) : read'[n][k] = GetFileInfo(Sources(n)[k])
NodeEffect(n) ==
    /\ Surroundings
    /\ DiskOK' /\ StatOK' /\ DigestOK' /\ lastSeen' \in 0 .. clock /\ read' = [m \in Nodes |-> read'[m]]
    /\ DiskStep(n) /\ StatStep(n) /\ DigestStep(n) /\ ReadStep(n)

LEMMA QuietEffect ==
    ASSUME TypeOK, NEW n \in Graph, NodeStep(n),
           UNCHANGED <<disk, statCache, digestCache, lastSeen, read>>
    PROVE  NodeEffect(n)
BY NodeStepIsInBuild DEF NodeEffect, TypeOK, DiskOK, StatOK, DigestOK, RecordOK, TimesOK, DiskStep, StatStep,
   DigestStep, ReadStep

LEMMA StoreStatEffect ==
    ASSUME TypeOK, NEW n \in Graph, StoreStat(n)
    PROVE  NodeEffect(n)
<1> DEFINE f == StatFile(n)
           t == run[n].seen
<1>1. f \in Files /\ t \in Nat /\ run[n].known \in BOOLEAN
  BY NodeIsSound, StatFileIsAFile DEF StoreStat, InStat, FrameOK
<1>2. IF run[n].known THEN StatCacheUpdate(f, t) ELSE StatCacheInsert(f, t)
  BY DEF StoreStat
<1>3. StatOK' /\ Stored(f, t, run[n].known)
  <2>1. CASE run[n].known = TRUE
    BY <1>1, <1>2, <2>1, Updating DEF TypeOK
  <2>2. CASE run[n].known = FALSE
    BY <1>1, <1>2, <2>2, Inserting DEF TypeOK
  <2> QED
    BY <1>1, <2>1, <2>2
<1>4. StatStep(n)
  BY <1>3 DEF StatStep, StoreStat
<1>5. UNCHANGED <<disk, digestCache, lastSeen, read>> /\ Surroundings
  BY NodeStepIsInBuild DEF StoreStat, history, NodeStep
<1> QED
  BY <1>3, <1>4, <1>5 DEF NodeEffect, TypeOK, DiskOK, DigestOK, RecordOK, TimesOK, DiskStep,
     DigestStep, ReadStep

LEMMA MarkEffect ==
    ASSUME TypeOK, NEW n \in Graph, MarkRemoved(n) \/ MarkMade(n) \/ MarkStatDirty(n) \/ MarkSourceDirty(n)
    PROVE  NodeEffect(n)
<1>0. Output(n) \in Files /\ Dir \in Files
  BY NodeIsSound
<1>1. UNCHANGED <<disk, digestCache, lastSeen, read>>
  BY DEF MarkRemoved, MarkMade, MarkStatDirty, MarkSourceDirty, history
<1>2. Surroundings
  BY NodeStepIsInBuild DEF NodeStep
<1>3. StatOK' /\ StatStep(n)
  <2>1. CASE MarkRemoved(n)
    BY <1>0, <2>1, Marking DEF MarkRemoved, TypeOK, StatStep
  <2>2. CASE MarkMade(n)
    BY <1>0, <2>2, Marking DEF MarkMade, TypeOK, StatStep
  <2>3. CASE MarkStatDirty(n)
    BY <1>0, <2>3, Marking DEF MarkStatDirty, TypeOK, StatStep
  <2>4. CASE MarkSourceDirty(n)
    <3>1. run[n].phase = "validate" /\ run[n].step = "dirty"
      BY <2>4, MarkSourceDirtyOutcome
    <3>2. StatFile(n) \in Files
      BY <3>1, StatFileIsAFile
    <3> QED
      BY <2>4, <3>1, <3>2, Marking DEF MarkSourceDirty, TypeOK, StatStep
  <2> QED
    BY <2>1, <2>2, <2>3, <2>4
<1> QED
  BY <1>1, <1>2, <1>3 DEF NodeEffect, TypeOK, DiskOK, DigestOK, RecordOK, TimesOK, DiskStep,
     DigestStep, ReadStep

LEMMA DigestEffect ==
    ASSUME TypeOK, NEW n \in Graph, RememberDigest(n) \/ MarkDigestDirty(n)
    PROVE  NodeEffect(n)
<1>1. UNCHANGED <<disk, statCache, lastSeen, read>>
  BY DEF RememberDigest, MarkDigestDirty, history
<1>2. Surroundings
  BY NodeStepIsInBuild DEF NodeStep
<1>3. DigestOK' /\ DigestStep(n)
  <2>1. CASE RememberDigest(n)
    <3> DEFINE g == Inputs(n)[run[n].i]
               d == [content |-> Last(run[n].sig), mtime |-> run[n].seen, dirty |-> FALSE]
    <3>1. run[n].phase = "remember" /\ digestCache' = [digestCache EXCEPT ![g] = d]
      BY <2>1 DEF RememberDigest, DigestCacheSet
    <3>2. g \in Files
      <4>1. run[n].i \in 1 .. Len(Inputs(n)) /\ IsNode(n)
        <5>1. IsNode(n) /\ Sound(n, run[n])
          BY NodeIsSound
        <5>2. run[n].i \in Nat \ {0} /\ run[n].i <= Len(Inputs(n))
          BY <3>1, <5>1 DEF Sound, IndexOK, FrameOK, Signing
        <5>3. Len(Inputs(n)) \in Nat
          BY <5>1, InputFacts DEF IsNode
        <5> QED
          BY <5>1, <5>2, <5>3
      <4> QED
        BY <4>1, InputFacts DEF IsNode
    <3>3. RecordOK(d)
      BY DEF RecordOK
    <3> HIDE DEF g, d
    <3>4. /\ digestCache' = [f \in Files |-> digestCache'[f]] /\ digestCache'[g] = d
          /\ \A f \in Files \ {g} : digestCache'[f] = digestCache[f]
      BY <3>1, <3>2 DEF TypeOK, DigestOK
    <3>5. \A f \in Files : RecordOK(digestCache'[f])
      BY <3>3, <3>4 DEF TypeOK, DigestOK
    <3> QED
      BY <3>1, <3>4, <3>5 DEF DigestOK, DigestStep, RecordOK, g, d
  <2>2. CASE MarkDigestDirty(n)
    <3> DEFINE g == Output(n)
               d == [digestCache[g] EXCEPT !.dirty = TRUE]
    <3>1. run[n].phase = "mark" /\ digestCache' = [digestCache EXCEPT ![g] = d]
      BY <2>2 DEF MarkDigestDirty, DigestCacheMarkDirty
    <3>2. g \in Files
      BY NodeIsSound
    <3>3. RecordOK(d) /\ d.dirty
      <4> DEFINE o == digestCache[g]
      <4>1. o = [content |-> o.content, mtime |-> o.mtime, dirty |-> o.dirty]
            /\ d = [o EXCEPT !.dirty = TRUE]
        BY <3>2 DEF RecordOK, TypeOK, DigestOK
      <4> HIDE DEF o, d
      <4>2. d = [content |-> o.content, mtime |-> o.mtime, dirty |-> TRUE]
        BY <4>1
      <4> QED
        BY <4>2 DEF RecordOK
    <3> HIDE DEF g, d
    <3>4. /\ digestCache' = [f \in Files |-> digestCache'[f]] /\ digestCache'[g] = d
          /\ \A f \in Files \ {g} : digestCache'[f] = digestCache[f]
      BY <3>1, <3>2 DEF TypeOK, DigestOK
    <3>5. \A f \in Files : RecordOK(digestCache'[f])
      BY <3>3, <3>4 DEF TypeOK, DigestOK
    <3> QED
      BY <3>1, <3>3, <3>4, <3>5 DEF DigestOK, DigestStep, RecordOK, g
  <2> QED
    BY <2>1, <2>2
<1> QED
  BY <1>1, <1>2, <1>3 DEF NodeEffect, TypeOK, DiskOK, StatOK, TimesOK, DiskStep, StatStep, ReadStep

LEMMA ClockEffect ==
    ASSUME TypeOK, NEW n \in Graph, CheckClock(n) \/ WaitUntilInThePast(n)
    PROVE  NodeEffect(n)
<1>1. UNCHANGED <<disk, statCache, digestCache, read>>
  BY DEF CheckClock, WaitUntilInThePast, caches, history
<1>2. Surroundings
  BY NodeStepIsInBuild DEF NodeStep
<1>3. lastSeen' \in 0 .. clock
  BY CheckClockOutcome DEF WaitUntilInThePast, TypeOK, TimesOK
<1> QED
  BY <1>1, <1>2, <1>3 DEF NodeEffect, TypeOK, DiskOK, StatOK, DigestOK, RecordOK, DiskStep,
     StatStep, DigestStep, ReadStep

LEMMA WriteEffect ==
    ASSUME TypeOK, NEW n \in Graph, RemoveOutput(n) \/ MakeDirectory(n) \/ BeginAction(n) \/ EndAction(n)
    PROVE  NodeEffect(n)
<1>0. Output(n) \in Files /\ Dir \in Files /\ clock \in Nat /\ clock # 0 /\ DiskOK /\ n \in Nodes
  BY NodeIsSound DEF TypeOK, TimesOK
<1>1. UNCHANGED <<statCache, digestCache, lastSeen>>
  BY DEF RemoveOutput, MakeDirectory, BeginAction, EndAction, caches
<1>2. Surroundings
  BY NodeStepIsInBuild DEF NodeStep
<1>3. DiskOK' /\ DiskStep(n)
  <2>1. CASE RemoveOutput(n)
    <3>1. run[n].phase = "remove" /\ (disk' = disk \/ disk' = [disk EXCEPT ![Output(n)] = Absent])
      BY <2>1 DEF RemoveOutput
    <3>2. CASE disk' = disk
      BY <1>0, <3>2 DEF DiskOK, DiskStep
    <3>3. CASE disk' = [disk EXCEPT ![Output(n)] = Absent]
      <4>1. /\ DiskOK' /\ disk'[Output(n)].content = NoContent /\ disk'[Output(n)].mtime = 0
            /\ \A g \in Files \ {Output(n)} : disk'[g] = disk[g]
        BY <1>0, <3>3, Writing DEF Absent
      <4>2. disk'[Output(n)] = Absent
        BY <1>0, <3>3 DEF DiskOK
      <4> QED
        BY <3>1, <4>1, <4>2 DEF DiskStep
    <3> QED
      BY <3>1, <3>2, <3>3
  <2>2. CASE MakeDirectory(n)
    <3>1. run[n].phase = "make" /\ disk' = [disk EXCEPT ![Dir] = [content |-> NoContent, mtime |-> 1]]
      BY <2>2 DEF MakeDirectory
    <3>2. DiskOK' /\ \A g \in Files \ {Dir} : disk'[g] = disk[g]
      BY <1>0, <3>1, Writing
    <3> QED
      BY <3>1, <3>2 DEF DiskStep
  <2>3. ASSUME run[n].phase \in {"act", "acting"},
               disk' = disk \/ \E c : disk' = [disk EXCEPT ![Output(n)] = [content |-> c, mtime |-> clock]]
        PROVE  DiskOK' /\ DiskStep(n)
    <3>1. CASE disk' = disk
      BY <1>0, <3>1 DEF DiskOK, DiskStep
    <3>2. CASE \E c : disk' = [disk EXCEPT ![Output(n)] = [content |-> c, mtime |-> clock]]
      <4>1. PICK c : disk' = [disk EXCEPT ![Output(n)] = [content |-> c, mtime |-> clock]]
        BY <3>2
      <4>2. /\ DiskOK' /\ disk'[Output(n)].mtime = clock
            /\ \A g \in Files \ {Output(n)} : disk'[g] = disk[g]
        <5> DEFINE f == Output(n)
        <5>1. f \in Files /\ clock \in Nat /\ DiskOK
          BY <1>0
        <5>2. disk' = [disk EXCEPT ![f] = [content |-> c, mtime |-> clock]]
          BY <4>1
        <5> HIDE DEF f
        <5>3. DiskOK' /\ disk'[f].mtime = clock
          BY <5>1, <5>2, Writing
        <5>4. \A g \in Files \ {f} : disk'[g] = disk[g]
          BY <5>1, <5>2 DEF DiskOK
        <5> QED
          BY <5>3, <5>4 DEF f
      <4> QED
        BY <1>0, <2>3, <4>2 DEF DiskStep
    <3> QED
      BY <2>3, <3>1, <3>2
  <2>4. CASE BeginAction(n)
    BY <2>3, <2>4 DEF BeginAction, Writes
  <2>5. CASE EndAction(n)
    BY <2>3, <2>5 DEF EndAction, Writes
  <2> QED
    BY <2>1, <2>2, <2>4, <2>5
<1>4. read' = [m \in Nodes |-> read'[m]] /\ ReadStep(n)
  <2>1. CASE read' = read
    BY <2>1 DEF TypeOK, ReadStep
  <2>2. CASE BeginAction(n)
    <3>1. /\ run[n].phase = "act"
          /\ read' = [read EXCEPT ![n] = [k \in DOMAIN Sources(n) |-> GetFileInfo(Sources(n)[k])]]
      BY <2>2 DEF BeginAction
    <3> QED
      BY <1>0, <3>1 DEF TypeOK, ReadStep
  <2> QED
    BY <2>1, <2>2 DEF RemoveOutput, MakeDirectory, EndAction, history
<1> QED
  BY <1>1, <1>2, <1>3, <1>4 DEF NodeEffect, TypeOK, StatOK, DigestOK, RecordOK, TimesOK, StatStep, DigestStep

LEMMA NodeEffects ==
    ASSUME TypeOK, NEW n \in Graph, NodeStep(n)
    PROVE  NodeEffect(n)
<1>1. CASE \/ StatCacheStat(n) \/ StatTheFile(n) \/ GetDigest(n) \/ HashContent(n)
           \/ CheckInputSignature(n) \/ TakePreTimestamp(n) \/ CheckWritten(n)
  <2>1. UNCHANGED <<disk, statCache, digestCache, lastSeen, read>>
    BY <1>1 DEF StatCacheStat, StatTheFile, GetDigest, HashContent, CheckInputSignature, TakePreTimestamp,
                CheckWritten, caches, history
  <2> QED
    BY <2>1, QuietEffect
<1> QED
  BY <1>1, StoreStatEffect, MarkEffect, DigestEffect, ClockEffect, WriteEffect DEF NodeStep

LEMMA NodeFrames ==
    ASSUME TypeOK, NEW n \in Graph, NodeStep(n)
    PROVE  FramesOK' /\ \A m \in Nodes \ {n} : run'[m] = run[m]
<1>1. CASE StatCacheStat(n) \/ StatTheFile(n) \/ StoreStat(n)
  BY <1>1, StatCacheStatOutcome, StatTheFileOutcome, StoreStatOutcome
<1>2. CASE GetDigest(n) \/ HashContent(n) \/ RememberDigest(n) \/ CheckInputSignature(n)
  BY <1>2, GetDigestOutcome, HashContentOutcome, RememberDigestOutcome, CheckInputSignatureOutcome
<1>3. CASE CheckClock(n) \/ WaitUntilInThePast(n)
  BY <1>3, CheckClockOutcome, WaitUntilInThePastOutcome
<1>4. CASE RemoveOutput(n) \/ MarkRemoved(n) \/ MakeDirectory(n) \/ MarkMade(n)
  BY <1>4, RemoveOutputOutcome, MarkRemovedOutcome, MakeDirectoryOutcome, MarkMadeOutcome
<1>5. CASE TakePreTimestamp(n) \/ BeginAction(n) \/ EndAction(n) \/ CheckWritten(n)
  BY <1>5, TakePreTimestampOutcome, BeginActionOutcome, EndActionOutcome, CheckWrittenOutcome
<1>6. CASE MarkDigestDirty(n) \/ MarkStatDirty(n) \/ MarkSourceDirty(n)
  BY <1>6, MarkDigestDirtyOutcome, MarkStatDirtyOutcome, MarkSourceDirtyOutcome
<1> QED
  BY <1>1, <1>2, <1>3, <1>4, <1>5, <1>6 DEF NodeStep

---------------------------------------------------------------------------
(* Types are preserved *)

LEMMA StartNodeOutcome ==
    ASSUME TypeOK, NEW n \in Graph, StartNode(n)
    PROVE  /\ FramesOK' /\ \A m \in Nodes \ {n} : run'[m] = run[m]
           /\ \/ GoesOn(run[n], run'[n], FirstOfNode(n))
              \/ Ends(run[n], run'[n], "kDidNotRun")
<1> DEFINE r == run[n]
           ok == \A p \in Producers(n) : Successful(p)
           s == IF ok THEN Goto(r, FirstOfNode(n)) ELSE Finish(r, "kDidNotRun")
<1>1. run' = [run EXCEPT ![n] = s] /\ scenario' = scenario /\ r.phase = "idle"
  BY DEF StartNode, scenarioVars
<1>2. IsNode(n) /\ Sound(n, r) /\ FrameOK(r)
  BY NodeIsSound
<1> HIDE DEF ok
<1>3. CASE ok
  <2> DEFINE p == FirstOfNode(n)
  <2>1. s = Goto(r, p)
    BY <1>3
  <2>2. /\ p \in {"compare", "sign"} /\ p \in Phases /\ Len(Inputs(n)) \in Nat
        /\ p = "compare" <=> Len(Inputs(n)) = 0
    BY <1>2, InputFacts DEF FirstOfNode, Phases, IsNode
  <2> HIDE DEF s, p
  <2>3. FrameOK(s) /\ GoesOn(r, s, p)
    BY <1>2, <2>1, <2>2, Going DEF GoesOn
  <2>4. s.sig = r.sig /\ s.stamps = r.stamps /\ s.phase = p /\ s.step = "look" /\ s.i = 1
    BY <2>3 DEF GoesOn, Rest, FrameFields
  <2>5. r.sig = <<>> /\ r.stamps = <<>>
    BY <1>1, <1>2 DEF Sound, IndexOK
  <2>6. Sound(n, s)
    BY <2>2, <2>3, <2>4, <2>5 DEF Sound, IndexOK, Signing, HasSigned, Stamped
  <2> QED
    BY <1>1, <2>3, <2>6, NodeMoves DEF p
<1>4. CASE ~ok
  <2>1. s = Finish(r, "kDidNotRun")
    BY <1>4
  <2> HIDE DEF s
  <2>2. FrameOK(s) /\ Ends(r, s, "kDidNotRun")
    BY <1>2, <2>1, Finishing DEF Ends
  <2>3. s.step = r.step /\ s.phase = "finished"
    BY <2>2 DEF Ends, Rest, FrameFields
  <2>4. Sound(n, s)
    BY <1>1, <1>2, <2>2, <2>3 DEF Sound, IndexOK, Signing, HasSigned, Stamped
  <2> QED
    BY <1>1, <2>2, <2>4, NodeMoves
<1> QED
  BY <1>3, <1>4

LEMMA FrameIsSound ==
    ASSUME NEW n
    PROVE  Sound(n, Frame)
<1>1. FrameOK(Frame)
  BY EmptyIsASequence DEF Frame, FrameOK, FrameFields, Phases
<1>2. IndexOK(n, Frame)
  BY DEF Frame, IndexOK, Signing, HasSigned, Stamped
<1> QED
  BY <1>1, <1>2 DEF Sound

LEMMA FramesStay ==
    ASSUME TypeOK, run' = run, scenario' = scenario
    PROVE  FramesOK'
<1>1. Graph' = Graph
  BY SameGraph
<1>2. ASSUME NEW m \in Graph' PROVE Sound(m, run[m])'
  <2>1. Inputs(m)' = Inputs(m) /\ Sources(m)' = Sources(m)
    BY SameGraph
  <2>2. Sound(m, run'[m])
    BY <1>1 DEF TypeOK, FramesOK
  <2> QED
    BY <2>1, <2>2, Zenon DEF Sound, IndexOK, FrameOK, IsSequence
<1> QED
  BY <1>2 DEF TypeOK, FramesOK

LEMMA InitIsTypeOK == Init => TypeOK
<1> SUFFICES ASSUME Init PROVE TypeOK
  OBVIOUS
<1>1. FramesOK
  <2>1. Graph \subseteq Nodes
    BY GraphFacts DEF Init
  <2> QED
    BY <2>1, FrameIsSound DEF Init, FramesOK
<1>2. DiskOK
  BY DEF Init, DiskOK, Absent
<1>3. StatOK
  BY DEF Init, StatOK
<1>4. DigestOK /\ savedDigests = [f \in Files |-> savedDigests[f]] /\ \A f \in Files : RecordOK(savedDigests[f])
  BY DEF Init, DigestOK, RecordOK, NoDigest
<1> QED
  BY <1>1, <1>2, <1>3, <1>4 DEF Init, TypeOK, TimesOK

LEMMA NextIsTypeOK == TypeOK /\ [Next]_vars => TypeOK'
<1> SUFFICES ASSUME TypeOK, [Next]_vars PROVE TypeOK'
  OBVIOUS
<1> USE DEF TimesOK
<1>1. CASE UNCHANGED vars
  BY <1>1, FramesStay DEF vars, caches, persistent, history, TypeOK, DiskOK, StatOK, DigestOK, RecordOK
<1>2. ASSUME NEW n \in Graph, NodeStep(n) PROVE TypeOK'
  BY <1>2, NodeEffects, NodeFrames DEF NodeEffect, Surroundings, TypeOK, RecordOK
<1>3. ASSUME NEW n \in Graph, StartNode(n) PROVE TypeOK'
  BY <1>3, StartNodeOutcome DEF StartNode, caches, persistent, scenarioVars, history, TypeOK, DiskOK, StatOK,
     DigestOK, RecordOK
<1>4. CASE SaveAllBuiltNodes
  BY <1>4, FramesStay DEF SaveAllBuiltNodes, caches, scenarioVars, history, TypeOK, DiskOK, StatOK,
     DigestOK, RecordOK
<1>5. CASE SaveDigestCache
  <2>1. /\ DigestCacheSaved = [f \in Files |-> DigestCacheSaved[f]]
        /\ \A f \in Files : RecordOK(DigestCacheSaved[f])
    BY DEF TypeOK, DigestOK, RecordOK, NoDigest, DigestCacheSaved
  <2> HIDE DEF TimesOK
  <2>2. UNCHANGED <<disk, caches, clock, lastSeen, run, built, scenario, kills, read>>
        /\ mode' = "between" /\ savedDigests' = DigestCacheSaved
    BY <1>5 DEF SaveDigestCache, scenarioVars, history
  <2>3. TimesOK' /\ DiskOK' /\ StatOK' /\ DigestOK'
    BY <2>2 DEF caches, TypeOK, TimesOK, DiskOK, StatOK, DigestOK, RecordOK
  <2>4. savedDigests' = [f \in Files |-> savedDigests'[f]] /\ \A f \in Files : RecordOK(savedDigests'[f])
    BY <2>1, <2>2
  <2> QED
    BY <2>2, <2>3, <2>4, FramesStay DEF TypeOK, RecordOK
<1>6. CASE StartBuild
  <2>1. FramesOK'
    <3>1. run' = [n \in Nodes |-> Frame] /\ scenario' = scenario
      BY <1>6 DEF StartBuild
    <3>2. Graph' = Graph /\ Graph \subseteq Nodes
      BY <3>1, SameGraph, GraphFacts DEF TypeOK
    <3>3. ASSUME NEW m \in Graph' PROVE Sound(m, run[m])'
      <4>1. run'[m] = Frame
        BY <3>1, <3>2
      <4>2. Inputs(m)' = Inputs(m) /\ Sources(m)' = Sources(m)
        BY <3>1, SameGraph
      <4>3. Sound(m, run'[m])
        BY <4>1, FrameIsSound
      <4> QED
        BY <4>2, <4>3, Zenon DEF Sound, IndexOK, FrameOK, IsSequence
    <3> QED
      BY <3>1, <3>3 DEF FramesOK
  <2> QED
    BY <1>6, <2>1 DEF StartBuild, persistent, TypeOK, DiskOK, StatOK, DigestOK, RecordOK
<1>7. CASE Kill
  BY <1>7, FramesStay DEF Kill, caches, persistent, TypeOK, DiskOK, StatOK, DigestOK, RecordOK
<1>8. CASE Tick
  BY <1>8, FramesStay DEF Tick, caches, persistent, scenarioVars, history, TypeOK, DiskOK, StatOK, DigestOK, RecordOK
<1>9. ASSUME NEW f \in Files, UserEdits(f) PROVE TypeOK'
  <2>0. \E k, t : /\ t \in clock .. clock + sc.future
                  /\ disk' = [disk EXCEPT ![f] = [content |-> <<k>>, mtime |-> t]]
    BY <1>9 DEF UserEdits
  <2>1. PICK k, t : /\ t \in clock .. clock + sc.future
                    /\ disk' = [disk EXCEPT ![f] = [content |-> <<k>>, mtime |-> t]]
    BY <2>0
  <2>2. t \in Nat
    BY <2>1, GraphFacts DEF TypeOK
  <2>3. DiskOK'
    BY <2>1, <2>2, Writing DEF TypeOK
  <2> QED
    BY <1>9, <2>3, FramesStay DEF UserEdits, caches, persistent, TypeOK, StatOK, DigestOK, RecordOK
<1>10. CASE UserDeletes
  <2>1. PICK gone : disk' = [f \in Files |-> IF f \in gone THEN Absent ELSE disk[f]]
    BY <1>10 DEF UserDeletes
  <2>2. DiskOK'
    BY <2>1 DEF TypeOK, DiskOK, Absent
  <2> QED
    BY <1>10, <2>2, FramesStay DEF UserDeletes, caches, persistent, TypeOK, StatOK, DigestOK, RecordOK
<1> QED
  BY <1>1, <1>2, <1>3, <1>4, <1>5, <1>6, <1>7, <1>8, <1>9, <1>10 DEF Next, Build, User

---------------------------------------------------------------------------
(* A record is earned *)

LEMMA OutputsOfOthers ==
    ASSUME TypeOK, NEW n \in Graph, DiskStep(n), NEW m \in Graph \ {n}
    PROVE  disk'[Output(m)] = disk[Output(m)]
<1>1. Output(m) # Output(n) /\ Output(m) \in Files \ {Dir}
  BY GraphFacts DEF TypeOK
<1> QED
  BY <1>1 DEF DiskStep

Done == {"mark", "marked", "validate", "finished"}

LEMMA EarnedQuietly ==
    ASSUME NEW n, EarnedBy(n), run'[n].acted = run[n].acted,
           run'[n].result = run[n].result \/ run'[n].result # "kRanSuccesfully",
           run'[n].phase \notin {"act", "acting", "post"},
           run[n].phase \in Done => run'[n].phase \in Done
    PROVE  EarnedBy(n)'
BY DEF EarnedBy, Done

LEMMA GoesOnEarned ==
    ASSUME NEW n, EarnedBy(n), NEW p, p \notin {"act", "acting", "post"},
           GoesOn(run[n], run'[n], p), run[n].phase \notin Done
    PROVE  EarnedBy(n)'
<1>1. run'[n].acted = run[n].acted /\ run'[n].result = run[n].result /\ run'[n].phase = p
  BY DEF GoesOn, Rest, FrameFields
<1> QED
  BY <1>1, EarnedQuietly

LEMMA AnswersEarned ==
    ASSUME TypeOK, NEW n \in Graph, EarnedBy(n), NEW t, Answers(n, run[n], run'[n], t),
           run[n].phase \in {"sign", "outputs", "stamps", "mkdir", "validate"}
    PROVE  EarnedBy(n)'
<1> DEFINE r == run[n]
           s == run'[n]
<1> HIDE DEF r, s
<1>0. Answers(n, r, s, t) /\ r.phase \in {"sign", "outputs", "stamps", "mkdir", "validate"}
  BY DEF r, s
<1>1. /\ s.acted = r.acted /\ (s.result = r.result \/ s.result # "kRanSuccesfully")
      /\ s.phase \notin {"act", "acting", "post"}
      /\ r.phase \in Done => s.phase \in Done
  <2>1. CASE r.phase = "sign"
    BY <1>0, <2>1 DEF Answers, AnswersSign, Signs, SignsNext, Rest, FrameFields, Done
  <2>2. CASE r.phase = "outputs"
    BY <1>0, <2>2 DEF Answers, GoesOn, Ends, FirstOfRun, Rest, FrameFields, Done
  <2>3. CASE r.phase = "stamps"
    BY <1>0, <2>3 DEF Answers, AnswersStamp, Rest, FrameFields, Done
  <2>4. CASE r.phase = "mkdir"
    BY <1>0, <2>4 DEF Answers, GoesOn, Rest, FrameFields, Done
  <2>5. CASE r.phase = "validate"
    BY <1>0, <2>5 DEF Answers, AnswersValidate, Rest, FrameFields, Done
  <2> QED
    BY <1>0, <2>1, <2>2, <2>3, <2>4, <2>5
<1> QED
  BY <1>1, EarnedQuietly DEF r, s

LEMMA NodeStepIsEarned ==
    ASSUME TypeOK, NEW n \in Graph, EarnedBy(n), mode = "building", NodeStep(n)
    PROVE  EarnedBy(n)'
<1>0. IsNode(n) /\ Surroundings
  BY NodeIsSound, NodeStepIsInBuild
<1>1. CASE StatCacheStat(n)
  <2>1. Looks(n, run[n], run'[n])
    BY <1>1, StatCacheStatOutcome
  <2>2. run[n].phase \in {"sign", "outputs", "stamps", "mkdir", "validate"}
    BY <1>1 DEF StatCacheStat, InStat
  <2>3. CASE Answers(n, run[n], run'[n], statCache[StatFile(n)][1].mtime)
    BY <2>2, <2>3, AnswersEarned
  <2>4. CASE Rest(run[n], run'[n], {"step", "known"})
    BY <2>2, <2>4, EarnedQuietly DEF Rest, FrameFields, Done
  <2> QED
    BY <2>1, <2>3, <2>4 DEF Looks
<1>2. CASE StatTheFile(n)
  <2>1. run[n].phase \in {"sign", "outputs", "stamps", "mkdir", "validate"}
    BY <1>2 DEF StatTheFile, InStat
  <2> QED
    BY <1>2, <2>1, StatTheFileOutcome, EarnedQuietly DEF Rest, FrameFields, Done
<1>3. CASE StoreStat(n)
  BY <1>3, StoreStatOutcome, AnswersEarned DEF StoreStat, InStat
<1>4. CASE GetDigest(n)
  <2> DEFINE c == digestCache[Inputs(n)[run[n].i]].content
  <2>1. Signs(n, run[n], run'[n], c) \/ (run'[n].phase = "hash" /\ Rest(run[n], run'[n], {"phase"}))
    BY <1>4, GetDigestOutcome
  <2> HIDE DEF c
  <2>2. /\ run'[n].acted = run[n].acted /\ run'[n].result = run[n].result
        /\ run'[n].phase \in {"sign", "compare", "hash"}
    BY <2>1 DEF Signs, SignsNext, Rest, FrameFields
  <2> QED
    BY <1>4, <2>2, EarnedQuietly DEF GetDigest, Done
<1>5. CASE HashContent(n)
  <2> DEFINE c == disk[Inputs(n)[run[n].i]].content
  <2>1. Signs(n, run[n], run'[n], c) \/ Hashes(n, run[n], run'[n], c)
    BY <1>5, HashContentOutcome
  <2> HIDE DEF c
  <2>2. /\ run'[n].acted = run[n].acted /\ run'[n].result = run[n].result
        /\ run'[n].phase \in {"sign", "compare", "remember"}
    BY <2>1 DEF Hashes, Signs, SignsNext, Rest, FrameFields
  <2> QED
    BY <1>5, <2>2, EarnedQuietly DEF HashContent, Done
<1>6. CASE RememberDigest(n)
  BY <1>6, RememberDigestOutcome, EarnedQuietly DEF RememberDigest, SignsNext, Rest, FrameFields, Done
<1>7. CASE CheckInputSignature(n)
  BY <1>7, CheckInputSignatureOutcome, GoesOnEarned DEF CheckInputSignature, Done
<1>8. CASE CheckClock(n)
  <2>1. /\ run'[n].acted = run[n].acted /\ run'[n].result = run[n].result
        /\ run'[n].phase \in {"wait", "remove"}
    BY <1>8, CheckClockOutcome DEF ChecksClock, GoesOn, Rest, FrameFields
  <2> QED
    BY <1>8, <2>1, EarnedQuietly DEF CheckClock, Done
<1>9. CASE WaitUntilInThePast(n)
  BY <1>9, WaitUntilInThePastOutcome, GoesOnEarned DEF WaitUntilInThePast, Done
<1>10. CASE RemoveOutput(n)
  BY <1>10, RemoveOutputOutcome, GoesOnEarned DEF RemoveOutput, Done
<1>11. CASE MarkRemoved(n)
  BY <1>11, MarkRemovedOutcome, GoesOnEarned DEF MarkRemoved, Done
<1>12. CASE MakeDirectory(n)
  BY <1>12, MakeDirectoryOutcome, GoesOnEarned DEF MakeDirectory, Done
<1>13. CASE MarkMade(n)
  BY <1>13, MarkMadeOutcome, GoesOnEarned DEF MarkMade, Done
<1>14. CASE TakePreTimestamp(n)
  <2>1. /\ run[n].phase = "pre" /\ disk' = disk /\ run'[n].phase = "act"
        /\ run'[n].pre = disk[Output(n)].mtime /\ Output(n)' = Output(n)
        /\ run'[n].acted = run[n].acted /\ run'[n].result = run[n].result
    BY <1>0, <1>14, TakePreTimestampOutcome, SameGraph
       DEF TakePreTimestamp, Rest, FrameFields, GetFileInfo, Surroundings
  <2> QED
    BY <2>1 DEF EarnedBy, GetFileInfo
<1>15. CASE BeginAction(n)
  <2>1. /\ run[n].phase = "act" /\ run'[n].phase = "acting" /\ Output(n)' = Output(n)
        /\ run'[n].pre = run[n].pre /\ run'[n].result = run[n].result
        /\ run'[n].acted \in {"succeeds", "fails", "silent"}
        /\ run'[n].acted = "silent" => disk' = disk
    BY <1>0, <1>15, BeginActionOutcome, SameGraph DEF BeginAction, Rest, FrameFields, Surroundings
  <2> QED
    BY <1>0, <2>1 DEF EarnedBy, GetFileInfo, Surroundings
<1>16. CASE EndAction(n)
  <2>1. /\ run[n].phase = "acting" /\ run'[n].phase = "post" /\ Output(n)' = Output(n)
        /\ run'[n].pre = run[n].pre /\ run'[n].result = run[n].result /\ run'[n].acted = run[n].acted
        /\ run[n].acted = "silent" => disk' = disk
    BY <1>0, <1>16, EndActionOutcome, SameGraph DEF EndAction, Rest, FrameFields, Surroundings
  <2> QED
    BY <1>0, <2>1 DEF EarnedBy, GetFileInfo, Surroundings
<1>17. CASE CheckWritten(n)
  <2>1. /\ run[n].phase = "post" /\ run'[n].phase = "mark" /\ mode' = mode
        /\ run'[n].result = "kRanSuccesfully" => run[n].acted # "fails" /\ run[n].pre # GetFileInfo(Output(n))
        /\ run'[n].acted = run[n].acted
    <3>1. /\ run[n].phase = "post" /\ run'[n].phase = "mark" /\ mode' = mode
          /\ Rest(run[n], run'[n], {"phase", "step", "i", "result"})
      BY <1>0, <1>17, CheckWrittenOutcome DEF CheckWritten, Surroundings
    <3>2. run'[n].result = IF run[n].acted # "fails" /\ run[n].pre # GetFileInfo(Output(n))
                           THEN "kRanSuccesfully" ELSE "kRanFailed"
      BY <1>17, CheckWrittenOutcome
    <3>3. run'[n].acted = run[n].acted
      BY <3>1 DEF Rest, FrameFields
    <3> QED
      BY <3>1, <3>2, <3>3
  <2> QED
    BY <2>1 DEF EarnedBy
<1>18. CASE MarkDigestDirty(n)
  BY <1>18, MarkDigestDirtyOutcome, EarnedQuietly DEF MarkDigestDirty, GoesOn, Rest, FrameFields, Done
<1>19. CASE MarkStatDirty(n)
  <2>1. run[n].phase = "marked" /\ run'[n].phase \in {"finished", "validate"}
    BY <1>19, MarkStatDirtyOutcome DEF MarkStatDirty, AfterMarking
  <2>2. run'[n].acted = run[n].acted /\ run'[n].result = run[n].result
    BY <1>19, MarkStatDirtyOutcome DEF AfterMarking, Rest, FrameFields
  <2> QED
    BY <2>1, <2>2, EarnedQuietly DEF Done
<1>20. CASE MarkSourceDirty(n)
  BY <1>20, MarkSourceDirtyOutcome, EarnedQuietly DEF Rest, FrameFields, Done
<1> QED
  BY <1>1, <1>2, <1>3, <1>4, <1>5, <1>6, <1>7, <1>8, <1>9, <1>10, <1>11, <1>12, <1>13, <1>14, <1>15,
     <1>16, <1>17, <1>18, <1>19, <1>20 DEF NodeStep

LEMMA EarnedElsewhere ==
    ASSUME NEW m, EarnedBy(m), run'[m] = run[m], Output(m)' = Output(m),
           mode' = "building" => mode = "building" /\ disk'[Output(m)].mtime = disk[Output(m)].mtime
    PROVE  EarnedBy(m)'
BY DEF EarnedBy, GetFileInfo

LEMMA InitIsEarned == Init => EarnedInv
<1> SUFFICES ASSUME Init, NEW n \in Graph PROVE EarnedBy(n)
  BY DEF EarnedInv
<1>1. run[n] = Frame /\ mode = "between"
  BY GraphFacts DEF Init
<1> QED
  BY <1>1 DEF EarnedBy, Frame

LEMMA NextIsEarned == TypeOK /\ EarnedInv /\ [Next]_vars => EarnedInv'
<1> SUFFICES ASSUME TypeOK, EarnedInv, [Next]_vars, NEW m \in Graph' PROVE EarnedBy(m)'
  BY DEF EarnedInv
<1>0. /\ scenario' = scenario /\ Graph' = Graph /\ m \in Graph /\ EarnedBy(m) /\ Output(m)' = Output(m)
      /\ m \in Nodes /\ Output(m) \in Files /\ Output(m) \in Outputs
  <2>1. scenario' = scenario
    BY NodeStepIsInBuild DEF Next, Build, User, StartNode, SaveAllBuiltNodes, SaveDigestCache, StartBuild, Kill,
       Tick, UserEdits, UserDeletes, vars, scenarioVars, Surroundings
  <2> QED
    BY <2>1, SameGraph, GraphFacts DEF EarnedInv, TypeOK
<1>1. CASE UNCHANGED vars
  BY <1>0, <1>1, EarnedElsewhere DEF vars
<1>2. ASSUME NEW n \in Graph, mode = "building", NodeStep(n) PROVE EarnedBy(m)'
  <2>1. CASE m = n
    BY <1>0, <1>2, <2>1, NodeStepIsEarned
  <2>2. CASE m # n
    <3>1. run'[m] = run[m] /\ disk'[Output(m)] = disk[Output(m)]
      BY <1>0, <1>2, <2>2, NodeFrames, NodeEffects, OutputsOfOthers DEF NodeEffect
    <3> QED
      BY <1>0, <1>2, <3>1, EarnedElsewhere
  <2> QED
    BY <2>1, <2>2
<1>3. ASSUME NEW n \in Graph, StartNode(n) PROVE EarnedBy(m)'
  <2>1. CASE m = n
    <3>1. run[n].phase = "idle" /\ (GoesOn(run[n], run'[n], FirstOfNode(n)) \/ Ends(run[n], run'[n], "kDidNotRun"))
      BY <1>3, StartNodeOutcome DEF StartNode
    <3> QED
      BY <1>0, <2>1, <3>1, EarnedQuietly DEF GoesOn, Ends, Rest, FrameFields, FirstOfNode, Done
  <2>2. CASE m # n
    <3>1. run'[m] = run[m] /\ disk' = disk /\ mode' = mode
      BY <1>0, <1>3, <2>2, StartNodeOutcome DEF StartNode
    <3> QED
      BY <1>0, <3>1, EarnedElsewhere
  <2> QED
    BY <2>1, <2>2
<1>4. CASE SaveAllBuiltNodes \/ SaveDigestCache \/ Kill
  BY <1>0, <1>4, EarnedElsewhere DEF SaveAllBuiltNodes, SaveDigestCache, Kill
<1>5. CASE StartBuild
  <2>1. run'[m] = Frame
    BY <1>0, <1>5 DEF StartBuild
  <2> QED
    BY <2>1 DEF EarnedBy, Frame
<1>6. CASE Tick
  BY <1>0, <1>6, EarnedElsewhere DEF Tick
<1>7. ASSUME NEW f \in Files, UserEdits(f) PROVE EarnedBy(m)'
  <2>1. f \notin Outputs /\ run' = run /\ mode' = mode
    BY <1>7 DEF UserEdits
  <2>2. disk'[Output(m)] = disk[Output(m)]
    BY <1>0, <1>7, <2>1 DEF UserEdits, TypeOK, DiskOK
  <2> QED
    BY <1>0, <2>1, <2>2, EarnedElsewhere
<1>8. CASE UserDeletes
  BY <1>0, <1>8, EarnedElsewhere DEF UserDeletes
<1> QED
  BY <1>1, <1>2, <1>3, <1>4, <1>5, <1>6, <1>7, <1>8 DEF Next, Build, User

\* The frames of a build have the form the code gives them, and a result says
\* that an action succeeded only of one that did.
THEOREM FramesAreEarned == Spec => [](TypeOK /\ EarnedInv)
<1>1. Init => TypeOK /\ EarnedInv
  BY InitIsTypeOK, InitIsEarned
<1>2. TypeOK /\ EarnedInv /\ [Next]_vars => (TypeOK /\ EarnedInv)'
  BY NextIsTypeOK, NextIsEarned
<1> QED
  BY <1>1, <1>2, PTL DEF Spec

\* RecordIsEarned, for all graphs, workers and users: what the state file calls
\* guaranteed is the record of an action that succeeded on inputs not in doubt.
THEOREM RecordsAreEarned == Spec => RecordIsEarned
<1> DEFINE A == \A n \in Nodes : built'[n].result = "guaranteed" /\ built'[n] # built[n]
                    => run[n].acted = "succeeds" /\ ~run[n].doubtful
<1>1. TypeOK /\ EarnedInv /\ [Next]_vars => [A]_vars
  <2> SUFFICES ASSUME TypeOK, EarnedInv, Next, NEW n \in Nodes,
                      built'[n].result = "guaranteed", built'[n] # built[n]
               PROVE  run[n].acted = "succeeds" /\ ~run[n].doubtful
    OBVIOUS
  <2>1. SaveAllBuiltNodes
    BY NodeStepIsInBuild DEF Next, Build, User, StartNode, SaveDigestCache, StartBuild, Kill,
       Tick, UserEdits, UserDeletes, persistent, Surroundings
  <2>2. /\ n \in Graph /\ run[n].result \notin {"kDidNotRun", "kUpToDate"}
        /\ built'[n].result = BuiltNodeResultFor(n)
    BY <2>1 DEF SaveAllBuiltNodes
  <2>3. Successful(n) /\ ~run[n].doubtful
    BY <2>2 DEF BuiltNodeResultFor
  <2> QED
    BY <2>2, <2>3 DEF Successful, EarnedInv, EarnedBy
<1> QED
  BY <1>1, FramesAreEarned, PTL DEF Spec, RecordIsEarned

---------------------------------------------------------------------------
(* What changed under an action is noticed *)

LEMMA SourcesStay ==
    ASSUME TypeOK, NEW n \in Graph, DiskStep(n), NEW m \in Graph, NEW k \in DOMAIN Sources(m)
    PROVE  disk'[Sources(m)[k]] = disk[Sources(m)[k]]
<1>1. /\ Sources(m)[k] \in Files \ {Dir} /\ Sources(m)[k] \notin Outputs
      /\ Output(n) \in Outputs
  BY SourceFacts, GraphFacts DEF TypeOK
<1> QED
  BY <1>1 DEF DiskStep

\* A file that one node alone looks up is looked up by no other.
LEMMA LoneSourcesStay ==
    ASSUME TypeOK, NEW n \in Graph, StatStep(n), NEW m \in Graph \ {n}, NEW f \in ToSet(Sources(m)),
           Readers(f) = {m}, Len(statCache[f]) <= 1
    PROVE  statCache'[f] = statCache[f]
<1>0. PICK k \in DOMAIN Sources(m) : f = Sources(m)[k]
  BY DEF ToSet
<1>1. f \in Files /\ f # Dir /\ f # Output(n) /\ n \notin Readers(f)
  BY <1>0, SourceFacts, GraphFacts DEF TypeOK
<1>2. ASSUME run[n].phase \in {"sign", "outputs", "stamps", "mkdir", "validate"} PROVE StatFile(n) # f
  <2>1. /\ run[n].phase = "sign" => StatFile(n) = Inputs(n)[run[n].i]
        /\ run[n].phase = "outputs" => StatFile(n) = Output(n)
        /\ run[n].phase \in {"stamps", "validate"} => StatFile(n) = Sources(n)[run[n].i]
        /\ run[n].phase = "mkdir" => StatFile(n) = Dir
    BY <1>2, StatFileIsAFile
  <2>2. IsNode(n) /\ Sound(n, run[n]) /\ run[n].i \in Nat \ {0}
    BY NodeIsSound DEF FrameOK
  <2>3. /\ run[n].phase = "sign" => run[n].i \in 1 .. Len(Inputs(n))
        /\ run[n].phase \in {"stamps", "validate"} => run[n].i \in DOMAIN Sources(n)
    BY <2>2, InputFacts DEF Sound, IndexOK, Signing, IsNode
  <2>4. /\ run[n].phase = "sign" => n \in Readers(Inputs(n)[run[n].i])
        /\ run[n].phase \in {"stamps", "validate"} => n \in Readers(Sources(n)[run[n].i])
    BY <2>2, <2>3, InputFacts, SourceFacts DEF IsNode
  <2> QED
    BY <1>1, <1>2, <2>1, <2>4
<1>3. CASE statCache' = statCache
  BY <1>3
<1>4. CASE InStat(n, "store") /\ Stored(StatFile(n), run[n].seen, run[n].known)
  <2>1. f # StatFile(n)
    BY <1>2, <1>4 DEF InStat
  <2>2. Kept(f)
    BY <1>1, <1>4, <2>1 DEF Stored
  <2> QED
    BY <2>2 DEF Kept
<1>5. CASE Marked(Output(n)) \/ Marked(Dir)
  BY <1>1, <1>5 DEF Marked
<1>6. CASE run[n].phase = "validate" /\ Marked(StatFile(n))
  BY <1>1, <1>2, <1>6 DEF Marked
<1> QED
  BY <1>3, <1>4, <1>5, <1>6 DEF StatStep

\* The stamps are there, and in the past where the frame says so.
LEMMA StampsAreTimes ==
    ASSUME TypeOK, NEW n \in Graph, run[n].phase \in Stamped, NEW k \in DOMAIN Sources(n)
    PROVE  run[n].stamps[k] \in Nat /\ k \in DOMAIN run[n].stamps
<1>1. run[n].stamps \in Seq(Nat) /\ Len(run[n].stamps) = Len(Sources(n)) /\ IsNode(n)
  BY NodeIsSound DEF Sound, FrameOK, IndexOK
<1>2. DOMAIN Sources(n) = 1 .. Len(Sources(n))
  BY <1>1, InputFacts DEF IsNode
<1> QED
  BY <1>1, <1>2

LEMMA WatchedElsewhere ==
    ASSUME TypeOK, NEW m \in Graph, WatchedBy(m), scenario' = scenario, clock' \in Nat, clock' >= clock,
           run'[m] = run[m], read'[m] = read[m],
           \A k \in DOMAIN Sources(m) : \/ disk'[Sources(m)[k]] = disk[Sources(m)[k]]
                                        \/ disk'[Sources(m)[k]].mtime >= clock,
           \A k \in DOMAIN Sources(m) : Alone(m, k) =>
               statCache'[Sources(m)[k]] = statCache[Sources(m)[k]],
           \A k \in DOMAIN Sources(m) : disk'[Sources(m)[k]].mtime \in Nat
    PROVE  WatchedBy(m)'
<1> DEFINE r == run[m]
           In == DOMAIN Sources(m)
<1>1. /\ Sources(m)' = Sources(m) /\ clock \in Nat
      /\ \A f : Readers(f)' = Readers(f)
  BY SameGraph DEF TypeOK, TimesOK
<1>2. \A k \in In : Alone(m, k)' = Alone(m, k) /\ SameAsRead(m, k)' = SameAsRead(m, k)
  BY <1>1 DEF Alone, SameAsRead
<1>3. r.phase \in BeforeAction \cup AfterAction => \A k \in In : r.stamps[k] \in Nat
  BY StampsAreTimes DEF BeforeAction, AfterAction, Stamped
<1>4. r.phase \in BeforeAction \cup AfterAction /\ ~r.future => \A k \in In : r.stamps[k] < clock'
  BY <1>1, <1>3 DEF WatchedBy
<1>5. r.phase \in AfterAction /\ ~r.future =>
        \A k \in In : disk'[Sources(m)[k]].mtime = r.stamps[k] => SameAsRead(m, k)
  <2> SUFFICES ASSUME r.phase \in AfterAction, ~r.future, NEW k \in In,
                      disk'[Sources(m)[k]].mtime = r.stamps[k]
               PROVE  SameAsRead(m, k)
    OBVIOUS
  <2>1. r.stamps[k] \in Nat /\ r.stamps[k] < clock
    BY <1>3 DEF WatchedBy
  <2>2. disk'[Sources(m)[k]] = disk[Sources(m)[k]]
    BY <1>1, <2>1
  <2> QED
    BY <2>2 DEF WatchedBy, GetFileInfo
<1>6. r.phase = "validate" => r.i \in In
  <2>1. Sound(m, r) /\ IsNode(m)
    BY NodeIsSound
  <2> QED
    BY <2>1, InputFacts DEF Sound, FrameOK, IndexOK, IsNode
<1>7. r.phase = "validate" =>
        /\ ~r.future
        /\ \A k \in 1 .. r.i - 1 : Alone(m, k)' => SameAsRead(m, k)'
        /\ r.step = "look" /\ Alone(m, r.i)' => ~StatCacheIsClean(Sources(m)[r.i])'
        /\ r.step = "store" /\ r.seen = r.stamps[r.i] => SameAsRead(m, r.i)'
  <2> SUFFICES ASSUME r.phase = "validate"
               PROVE  /\ ~r.future
                      /\ \A k \in 1 .. r.i - 1 : Alone(m, k)' => SameAsRead(m, k)'
                      /\ r.step = "look" /\ Alone(m, r.i)' => ~StatCacheIsClean(Sources(m)[r.i])'
                      /\ r.step = "store" /\ r.seen = r.stamps[r.i] => SameAsRead(m, r.i)'
    OBVIOUS
  <2>1. \A k \in 1 .. r.i - 1 : k \in In
    <3>1. IsNode(m) /\ r.i \in Nat
      BY NodeIsSound DEF FrameOK
    <3> QED
      BY <1>6, <3>1, InputFacts DEF IsNode
  <2>2. Alone(m, r.i) => StatCacheIsClean(Sources(m)[r.i])' = StatCacheIsClean(Sources(m)[r.i])
    BY <1>1, <1>6 DEF StatCacheIsClean, StatCacheKnows, HashTableLookup
  <2> QED
    BY <1>2, <1>6, <2>1, <2>2 DEF WatchedBy
<1>8. r.phase = "finished" /\ ~r.doubtful /\ r.result = "kRanSuccesfully" =>
        \A k \in In : Alone(m, k)' => SameAsRead(m, k)'
  BY <1>2 DEF WatchedBy
<1> QED
  BY <1>1, <1>2, <1>4, <1>5, <1>7, <1>8 DEF WatchedBy, GetFileInfo

\* A node that has not stored its timestamps yet, or that is not said to have
\* run on unchanged sources, claims nothing.
LEMMA NothingClaimed ==
    ASSUME NEW n, \/ run'[n].phase \notin BeforeAction \cup AfterAction \cup {"finished"}
                  \/ run'[n].phase = "finished" /\ (run'[n].doubtful \/ run'[n].result # "kRanSuccesfully")
    PROVE  WatchedBy(n)'
BY DEF WatchedBy, BeforeAction, AfterAction

\* What the step of a node leaves alone of what it claims.
Watching(n) ==
    /\ scenario' = scenario /\ clock' = clock /\ Sources(n)' = Sources(n)
    /\ \A k \in DOMAIN Sources(n) : GetFileInfo(Sources(n)[k])' = GetFileInfo(Sources(n)[k])

LEMMA NodeWatches ==
    ASSUME TypeOK, NEW n \in Graph, NodeStep(n)
    PROVE  Watching(n) /\ (run[n].phase # "act" => read'[n] = read[n])
<1>1. Surroundings /\ DiskStep(n) /\ ReadStep(n)
  BY NodeEffects DEF NodeEffect
<1>2. \A k \in DOMAIN Sources(n) : disk'[Sources(n)[k]] = disk[Sources(n)[k]]
  BY <1>1, SourcesStay
<1>3. run[n].phase # "act" => read'[n] = read[n]
  BY <1>1 DEF ReadStep
<1> QED
  BY <1>1, <1>2, <1>3, SameGraph DEF Surroundings, Watching, GetFileInfo

LEMMA StillWatched ==
    ASSUME NEW n, WatchedBy(n), Watching(n), read'[n] = read[n],
           Rest(run[n], run'[n], Notes \cup {"phase", "step", "i"}), run'[n].future = run[n].future,
           run[n].phase \in BeforeAction \cup AfterAction,
           run'[n].phase \in BeforeAction \cup AfterAction,
           run'[n].phase \in AfterAction => run[n].phase \in AfterAction,
           run'[n].phase # "validate"
    PROVE  WatchedBy(n)'
<1>1. run'[n].stamps = run[n].stamps
  BY DEF Rest, FrameFields, Notes
<1> QED
  BY <1>1 DEF WatchedBy, Watching, SameAsRead, BeforeAction, AfterAction

\* The action reads the sources between the look at them before and after it.
LEMMA BeginIsWatched ==
    ASSUME TypeOK, NEW n \in Graph, WatchedBy(n), BeginAction(n)
    PROVE  WatchedBy(n)'
<1>1. /\ run[n].phase = "act" /\ run'[n].phase = "acting"
      /\ run'[n].stamps = run[n].stamps /\ run'[n].future = run[n].future
  BY BeginActionOutcome DEF BeginAction, Rest, FrameFields
<1>2. Watching(n)
  BY NodeWatches DEF NodeStep
<1>3. n \in Nodes /\ read = [m \in Nodes |-> read[m]]
  BY NodeIsSound DEF TypeOK
<1>4. \A k \in DOMAIN Sources(n) : read'[n][k] = GetFileInfo(Sources(n)[k])
  BY <1>3 DEF BeginAction
<1> QED
  BY <1>1, <1>2, <1>4 DEF WatchedBy, Watching, SameAsRead, BeforeAction, AfterAction

LEMMA ClockIsWatched ==
    ASSUME TypeOK, NEW n \in Graph, WatchedBy(n), CheckClock(n) \/ WaitUntilInThePast(n)
    PROVE  WatchedBy(n)'
<1>1. Watching(n) /\ clock \in Nat /\ lastSeen \in 0 .. clock
  BY NodeWatches DEF NodeStep, TypeOK, TimesOK
<1>2. CASE run'[n].phase = "wait"
  BY <1>2, NothingClaimed DEF BeforeAction, AfterAction
<1>3. CASE run'[n].phase # "wait"
  <2>1. /\ run'[n].phase = "remove" /\ run'[n].stamps = run[n].stamps
        /\ ~run'[n].future => Latest(n) < clock
    <3>1. CASE CheckClock(n)
      <4>1. ChecksClock(n, run[n], run'[n])
        BY <3>1, CheckClockOutcome
      <4>2. Latest(n) \in Nat
        BY StampsHaveALatest
      <4> QED
        BY <1>1, <1>3, <4>1, <4>2 DEF ChecksClock, GoesOn, Rest, FrameFields
    <3>2. CASE WaitUntilInThePast(n)
      BY <3>2, WaitUntilInThePastOutcome DEF GoesOn, Rest, FrameFields
    <3> QED
      BY <3>1, <3>2
  <2>2. run[n].phase \in Stamped
    BY DEF CheckClock, WaitUntilInThePast, Stamped
  <2>3. ~run'[n].future => \A k \in DOMAIN Sources(n) : run'[n].stamps[k] < clock'
    <3> SUFFICES ASSUME ~run'[n].future, NEW k \in DOMAIN Sources(n) PROVE run[n].stamps[k] < clock
      BY <1>1, <2>1 DEF Watching
    <3>1. k \in DOMAIN run[n].stamps
      BY <2>2, StampsAreTimes
    <3>2. run[n].stamps[k] \in Nat /\ run[n].stamps[k] <= Latest(n) /\ Latest(n) \in Nat
      BY <3>1, StampsHaveALatest
    <3> QED
      BY <1>1, <2>1, <3>2
  <2> QED
    BY <1>1, <2>1, <2>3 DEF WatchedBy, Watching, BeforeAction, AfterAction
<1> QED
  BY <1>2, <1>3

LEMMA MarkedIsWatched ==
    ASSUME TypeOK, NEW n \in Graph, WatchedBy(n), MarkStatDirty(n)
    PROVE  WatchedBy(n)'
<1>1. AfterMarking(n, run[n], run'[n]) /\ run[n].phase = "marked"
  BY MarkStatDirtyOutcome DEF MarkStatDirty
<1>2. Watching(n) /\ read'[n] = read[n]
  BY <1>1, NodeWatches DEF NodeStep
<1>3. CASE run'[n].phase = "finished" /\ run'[n].doubtful
  BY <1>3, NothingClaimed
<1>4. CASE Sources(n) = <<>> /\ run'[n].phase = "finished"
  BY <1>2, <1>4 DEF WatchedBy, Watching, BeforeAction, AfterAction
<1>5. CASE /\ ~run[n].future /\ run'[n].phase = "validate" /\ run'[n].step = "dirty" /\ run'[n].i = 1
           /\ Rest(run[n], run'[n], {"phase", "step", "i"})
  <2>1. run'[n].stamps = run[n].stamps /\ run'[n].future = run[n].future
    BY <1>5 DEF Rest, FrameFields
  <2> QED
    BY <1>1, <1>2, <1>5, <2>1 DEF WatchedBy, Watching, SameAsRead, BeforeAction, AfterAction
<1> QED
  BY <1>1, <1>3, <1>4, <1>5 DEF AfterMarking

---------------------------------------------------------------------------
(* The look at the sources after the action *)

\* What holds of a node that compares, whatever it does next.
LEMMA Comparing ==
    ASSUME TypeOK, NEW n \in Graph, WatchedBy(n), run[n].phase = "validate"
    PROVE  LET r == run[n] IN
           /\ ~r.future /\ r.i \in DOMAIN Sources(n) /\ r.i \in Nat
           /\ DOMAIN Sources(n) = 1 .. Len(Sources(n)) /\ Len(Sources(n)) \in Nat
           /\ \A k \in DOMAIN Sources(n) : r.stamps[k] < clock
           /\ \A k \in DOMAIN Sources(n) :
                  GetFileInfo(Sources(n)[k]) = r.stamps[k] => SameAsRead(n, k)
           /\ \A k \in 1 .. r.i - 1 : Alone(n, k) => SameAsRead(n, k)
           /\ r.step = "look" /\ Alone(n, r.i) => ~StatCacheIsClean(Sources(n)[r.i])
           /\ r.step = "store" /\ r.seen = r.stamps[r.i] => SameAsRead(n, r.i)
<1>1. IsNode(n) /\ Sound(n, run[n])
  BY NodeIsSound
<1>2. /\ run[n].i \in DOMAIN Sources(n) /\ run[n].i \in Nat
      /\ DOMAIN Sources(n) = 1 .. Len(Sources(n)) /\ Len(Sources(n)) \in Nat
  BY <1>1, InputFacts DEF Sound, FrameOK, IndexOK, IsNode
<1> QED
  BY <1>2 DEF WatchedBy, BeforeAction, AfterAction

\* One source more was compared.
LEMMA ComparedOne ==
    ASSUME TypeOK, NEW n \in Graph, WatchedBy(n), Watching(n), read'[n] = read[n],
           run[n].phase = "validate", NEW t, AnswersValidate(n, run[n], run'[n], t),
           t = run[n].stamps[run[n].i] /\ Alone(n, run[n].i) => SameAsRead(n, run[n].i)
    PROVE  WatchedBy(n)'
<1> DEFINE r == run[n]
           s == run'[n]
<1>0. \A k \in DOMAIN Sources(n) : Alone(n, k)' = Alone(n, k)
  BY SameGraph DEF Watching, Alone
<1>1. CASE s.phase = "finished" /\ s.doubtful
  BY <1>1, NothingClaimed
<1>2. CASE t = r.stamps[r.i] /\ r.i < Len(Sources(n))
           /\ s.step = "dirty" /\ s.i = r.i + 1 /\ Rest(r, s, {"step", "i"})
  <2>1. s.phase = "validate" /\ s.stamps = r.stamps /\ s.future = r.future
    BY <1>2 DEF Rest, FrameFields
  <2>2. \A k \in DOMAIN Sources(n) : SameAsRead(n, k)' = SameAsRead(n, k)
    BY <2>1 DEF SameAsRead
  <2>3. \A k \in 1 .. s.i - 1 : k \in DOMAIN Sources(n) /\ (Alone(n, k)' => SameAsRead(n, k)')
    BY <1>0, <1>2, <2>2, Comparing
  <2> QED
    BY <1>2, <2>1, <2>2, <2>3, Comparing DEF WatchedBy, Watching
<1>3. CASE t = r.stamps[r.i] /\ r.i = Len(Sources(n)) /\ s.phase = "finished" /\ Rest(r, s, {"phase"})
  <2>1. s.stamps = r.stamps
    BY <1>3 DEF Rest, FrameFields
  <2>2. \A k \in DOMAIN Sources(n) : SameAsRead(n, k)' = SameAsRead(n, k)
    BY <2>1 DEF SameAsRead
  <2>3. \A k \in DOMAIN Sources(n) : Alone(n, k)' => SameAsRead(n, k)'
    BY <1>0, <1>3, <2>2, Comparing
  <2> QED
    BY <1>3, <2>3 DEF WatchedBy, Watching, BeforeAction, AfterAction
<1> QED
  BY <1>1, <1>2, <1>3 DEF AnswersValidate

\* One step of the look at a source.
LEMMA LookingAgain ==
    ASSUME TypeOK, NEW n \in Graph, WatchedBy(n), Watching(n), read'[n] = read[n],
           run[n].phase = "validate", Rest(run[n], run'[n], {"step", "known", "seen"}),
           run'[n].step = "look" /\ Alone(n, run[n].i) => ~StatCacheIsClean(Sources(n)[run[n].i])',
           run'[n].step = "store" /\ run'[n].seen = run[n].stamps[run[n].i] => SameAsRead(n, run[n].i)
    PROVE  WatchedBy(n)'
<1> DEFINE r == run[n]
           s == run'[n]
<1>0. \A k \in DOMAIN Sources(n) : Alone(n, k)' = Alone(n, k)
  BY SameGraph DEF Watching, Alone
<1>1. s.phase = "validate" /\ s.stamps = r.stamps /\ s.future = r.future /\ s.i = r.i
  BY DEF Rest, FrameFields
<1>2. \A k \in DOMAIN Sources(n) : SameAsRead(n, k)' = SameAsRead(n, k)
  BY <1>1 DEF SameAsRead
<1>3. \A k \in 1 .. s.i - 1 : Alone(n, k)' => SameAsRead(n, k)'
  BY <1>0, <1>1, <1>2, Comparing
<1>4. s.step = "look" /\ Alone(n, run[n].i)' => ~StatCacheIsClean(Sources(n)[run[n].i])'
  <2>1. Alone(n, run[n].i)' = Alone(n, r.i)
    BY <1>1, SameGraph DEF Watching, Alone
  <2> QED
    BY <2>1
<1>5. s.step = "store" /\ s.seen = s.stamps[s.i] => SameAsRead(n, run[n].i)'
  <2>1. SameAsRead(n, run[n].i)' = SameAsRead(n, r.i)
    BY <1>1 DEF SameAsRead
  <2> QED
    BY <1>1, <2>1
<1>6. \A k \in DOMAIN Sources(n) : s.stamps[k] < clock'
  BY <1>1, Comparing DEF Watching
<1>7. \A k \in DOMAIN Sources(n) : GetFileInfo(Sources(n)[k])' = s.stamps[k] => SameAsRead(n, k)'
  BY <1>1, <1>2, Comparing DEF Watching
<1> QED
  BY <1>1, <1>3, <1>4, <1>5, <1>6, <1>7, Comparing DEF WatchedBy, Watching

LEMMA ComparingIsWatched ==
    ASSUME TypeOK, NEW n \in Graph, WatchedBy(n), run[n].phase = "validate", NodeStep(n)
    PROVE  WatchedBy(n)'
<1> DEFINE r == run[n]
           s == run'[n]
<1>1. /\ Watching(n) /\ read'[n] = read[n]
  BY NodeWatches
<1>2. /\ StatFile(n) = Sources(n)[r.i] /\ Sources(n)[r.i] \in Files
      /\ statCache[StatFile(n)] \in Seq(EntryType)
  BY Comparing, StatFileIsAFile DEF TypeOK, StatOK
<1>3. CASE StatCacheStat(n)
  <2>1. Looks(n, r, s) /\ r.step = "look"
    BY <1>3, StatCacheStatOutcome DEF StatCacheStat, InStat
  <2>2. CASE StatCacheIsClean(StatFile(n))
    <3>1. PICK t : AnswersValidate(n, r, s, t)
      BY <2>1, <2>2 DEF Looks, Answers
    <3>2. ~Alone(n, r.i)
      BY <1>2, <2>1, <2>2, Comparing
    <3> QED
      BY <1>1, <3>1, <3>2, ComparedOne
  <2>3. CASE s.step = "info" /\ Rest(r, s, {"step", "known"})
    <3>1. Rest(r, s, {"step", "known", "seen"})
      BY <2>3 DEF Rest
    <3> QED
      BY <1>1, <2>3, <3>1, LookingAgain
  <2> QED
    BY <2>1, <2>2, <2>3 DEF Looks
<1>4. CASE StatTheFile(n)
  <2>1. s.step = "store" /\ s.seen = GetFileInfo(StatFile(n)) /\ Rest(r, s, {"step", "seen"})
    BY <1>4, StatTheFileOutcome
  <2>2. Rest(r, s, {"step", "known", "seen"})
    BY <2>1 DEF Rest
  <2>3. s.seen = r.stamps[r.i] => SameAsRead(n, r.i)
    BY <1>2, <2>1, Comparing
  <2> QED
    BY <1>1, <2>1, <2>2, <2>3, LookingAgain
<1>5. CASE StoreStat(n)
  <2>1. Answers(n, r, s, r.seen) /\ r.step = "store"
    BY <1>5, StoreStatOutcome DEF StoreStat, InStat
  <2>2. r.seen = r.stamps[r.i] => SameAsRead(n, r.i)
    BY <2>1, Comparing
  <2> QED
    BY <1>1, <2>1, <2>2, ComparedOne DEF Answers
<1>6. CASE MarkSourceDirty(n)
  <2>1. r.step = "dirty" /\ s.step = "look" /\ Rest(r, s, {"step"})
    BY <1>6, MarkSourceDirtyOutcome
  <2>2. Rest(r, s, {"step", "known", "seen"}) /\ s.i = r.i
    BY <2>1 DEF Rest, FrameFields
  <2>3. Marked(StatFile(n)) /\ StatOK'
    BY <1>2, <1>6, Marking DEF MarkSourceDirty, TypeOK
  <2>4. ~StatCacheIsClean(Sources(n)[run[n].i])'
    <3> DEFINE c == statCache'[Sources(n)[r.i]]
    <3>1. c \in Seq(EntryType) /\ (c # <<>> => c[1].dirty)
      BY <1>2, <2>3 DEF Marked, StatOK
    <3>2. c # <<>> => Head(c).dirty
      BY <3>1
    <3>3. (Sources(n)[run[n].i])' = Sources(n)[r.i]
      BY <1>1, <2>2 DEF Watching
    <3> QED
      BY <3>2, <3>3 DEF StatCacheIsClean, StatCacheKnows, HashTableLookup
  <2> QED
    BY <1>1, <2>1, <2>2, <2>4, LookingAgain
<1> QED
  BY <1>3, <1>4, <1>5, <1>6 DEF NodeStep, GetDigest, HashContent, RememberDigest, CheckInputSignature,
     CheckClock, WaitUntilInThePast, RemoveOutput, MarkRemoved, MakeDirectory, MarkMade, TakePreTimestamp,
     BeginAction, EndAction, CheckWritten, MarkDigestDirty, MarkStatDirty

\* An answer to a node that does not compare its sources yet.
LEMMA AnswersAreWatched ==
    ASSUME NEW n, WatchedBy(n), Watching(n), read'[n] = read[n],
           run[n].phase \in {"sign", "outputs", "stamps", "mkdir"},
           \/ \E t : Answers(n, run[n], run'[n], t)
           \/ Rest(run[n], run'[n], {"step", "known", "seen"})
    PROVE  WatchedBy(n)'
<1> DEFINE r == run[n]
           s == run'[n]
<1>1. CASE r.phase = "mkdir"
  <2>1. /\ s.phase \in {"mkdir", "make", "pre"} /\ s.future = r.future
        /\ Rest(r, s, {"phase", "step", "i", "known", "seen"})
    BY <1>1 DEF Answers, GoesOn, Rest, FrameFields
  <2>2. s.stamps = r.stamps
    BY <2>1 DEF Rest, FrameFields
  <2> QED
    BY <1>1, <2>1, <2>2 DEF WatchedBy, Watching, BeforeAction, AfterAction
<1>2. CASE r.phase # "mkdir"
  <2>1. \/ s.phase \in {"sign", "digest", "compare", "outputs", "stamps", "clock"}
        \/ s.phase = "finished" /\ s.result = "kUpToDate"
    <3>1. CASE r.phase = "sign"
      BY <3>1 DEF Answers, AnswersSign, Signs, SignsNext, Rest, FrameFields
    <3>2. CASE r.phase = "outputs"
      BY <3>2 DEF Answers, GoesOn, Ends, FirstOfRun, Rest, FrameFields
    <3>3. CASE r.phase = "stamps"
      BY <3>3 DEF Answers, AnswersStamp, Rest, FrameFields
    <3> QED
      BY <1>2, <3>1, <3>2, <3>3
  <2> QED
    BY <2>1, NothingClaimed DEF BeforeAction, AfterAction
<1> QED
  BY <1>1, <1>2

LEMMA NodeStepIsWatched ==
    ASSUME TypeOK, NEW n \in Graph, WatchedBy(n), NodeStep(n)
    PROVE  WatchedBy(n)'
<1> DEFINE Asking == {"sign", "outputs", "stamps", "mkdir"}
<1>1. Watching(n) /\ (run[n].phase # "act" => read'[n] = read[n])
  BY NodeWatches
<1>2. CASE run[n].phase = "validate"
  BY <1>2, ComparingIsWatched
<1>3. CASE run[n].phase \in Asking
  <2>1. \/ \E t : Answers(n, run[n], run'[n], t)
        \/ Rest(run[n], run'[n], {"step", "known", "seen"})
    <3>1. StatCacheStat(n) \/ StatTheFile(n) \/ StoreStat(n)
      <4>1. ~MarkSourceDirty(n)
        BY <1>3, MarkSourceDirtyOutcome
      <4> QED
        BY <1>3, <4>1 DEF NodeStep, GetDigest, HashContent, RememberDigest, CheckInputSignature, CheckClock,
           WaitUntilInThePast, RemoveOutput, MarkRemoved, MakeDirectory, MarkMade, TakePreTimestamp,
           BeginAction, EndAction, CheckWritten, MarkDigestDirty, MarkStatDirty
    <3>2. CASE StatCacheStat(n)
      BY <3>2, StatCacheStatOutcome DEF Looks, Rest
    <3>3. CASE StatTheFile(n)
      BY <3>3, StatTheFileOutcome DEF Rest
    <3>4. CASE StoreStat(n)
      BY <3>4, StoreStatOutcome
    <3> QED
      BY <3>1, <3>2, <3>3, <3>4
  <2> QED
    BY <1>1, <1>3, <2>1, AnswersAreWatched
<1>4. CASE run[n].phase \notin Asking \cup {"validate"}
  <2>1. CASE GetDigest(n) \/ HashContent(n) \/ RememberDigest(n)
    <3> DEFINE c == disk[Inputs(n)[run[n].i]].content
    <3>1. HashContent(n) => Signs(n, run[n], run'[n], c) \/ Hashes(n, run[n], run'[n], c)
      BY HashContentOutcome
    <3> HIDE DEF c
    <3>2. run'[n].phase \in {"hash", "remember", "sign", "compare"}
      BY <2>1, <3>1, GetDigestOutcome, RememberDigestOutcome DEF Hashes, Signs, SignsNext
    <3> QED
      BY <3>2, NothingClaimed DEF BeforeAction, AfterAction
  <2>2. CASE CheckInputSignature(n)
    BY <2>2, CheckInputSignatureOutcome, NothingClaimed DEF GoesOn, BeforeAction, AfterAction
  <2>3. CASE CheckClock(n) \/ WaitUntilInThePast(n)
    BY <2>3, ClockIsWatched
  <2>4. CASE RemoveOutput(n)
    <3>1. run[n].phase = "remove"
      BY <2>4 DEF RemoveOutput
    <3>2. PICK p \in {"mkdir", "removed"} : GoesOn(run[n], run'[n], p)
      BY <2>4, RemoveOutputOutcome
    <3>3. /\ run'[n].phase = p /\ run'[n].future = run[n].future
          /\ Rest(run[n], run'[n], Notes \cup {"phase", "step", "i"})
      BY <3>2 DEF GoesOn, Rest, Notes, FrameFields
    <3> QED
      BY <1>1, <3>1, <3>3, StillWatched DEF BeforeAction, AfterAction
  <2>5. CASE MarkRemoved(n)
    BY <1>1, <2>5, MarkRemovedOutcome, StillWatched
       DEF MarkRemoved, GoesOn, Rest, Notes, FrameFields, BeforeAction, AfterAction
  <2>6. CASE MakeDirectory(n)
    BY <1>1, <2>6, MakeDirectoryOutcome, StillWatched
       DEF MakeDirectory, GoesOn, Rest, Notes, FrameFields, BeforeAction, AfterAction
  <2>7. CASE MarkMade(n)
    BY <1>1, <2>7, MarkMadeOutcome, StillWatched
       DEF MarkMade, GoesOn, Rest, Notes, FrameFields, BeforeAction, AfterAction
  <2>8. CASE TakePreTimestamp(n)
    BY <1>1, <2>8, TakePreTimestampOutcome, StillWatched
       DEF TakePreTimestamp, Rest, Notes, FrameFields, BeforeAction, AfterAction
  <2>9. CASE BeginAction(n)
    BY <2>9, BeginIsWatched
  <2>10. CASE EndAction(n)
    BY <1>1, <2>10, EndActionOutcome, StillWatched
       DEF EndAction, Rest, Notes, FrameFields, BeforeAction, AfterAction
  <2>11. CASE CheckWritten(n)
    <3>1. run[n].phase = "post" /\ run'[n].phase = "mark" /\ Rest(run[n], run'[n], {"phase", "step", "i", "result"})
      BY <2>11, CheckWrittenOutcome DEF CheckWritten
    <3> QED
      BY <1>1, <3>1, StillWatched DEF Rest, Notes, FrameFields, BeforeAction, AfterAction
  <2>12. CASE MarkDigestDirty(n)
    BY <1>1, <2>12, MarkDigestDirtyOutcome, StillWatched
       DEF MarkDigestDirty, GoesOn, Rest, Notes, FrameFields, BeforeAction, AfterAction
  <2>13. CASE MarkStatDirty(n)
    BY <2>13, MarkedIsWatched
  <2>14. CASE StatCacheStat(n) \/ StatTheFile(n) \/ StoreStat(n) \/ MarkSourceDirty(n)
    BY <1>4, <2>14, MarkSourceDirtyOutcome DEF StatCacheStat, StatTheFile, StoreStat, InStat
  <2> QED
    BY <2>1, <2>2, <2>3, <2>4, <2>5, <2>6, <2>7, <2>8, <2>9, <2>10, <2>11, <2>12, <2>13, <2>14 DEF NodeStep
<1> QED
  BY <1>2, <1>3, <1>4

---------------------------------------------------------------------------
(* One thread alone enters a file once *)

Asked == {"sign", "stamps", "validate"}

LEMMA AnswersAreSettled ==
    ASSUME NEW n, NEW r, NEW s, NEW t, Answers(n, r, s, t),
           r.phase \in {"sign", "outputs", "stamps", "mkdir", "validate"}
    PROVE  s.step \in {"look", "dirty"} \/ s.phase \notin Asked
<1>1. CASE r.phase = "sign"
  BY <1>1 DEF Answers, AnswersSign, Signs, SignsNext, Asked
<1>2. CASE r.phase = "outputs"
  BY <1>2 DEF Answers, GoesOn, Ends, Asked
<1>3. CASE r.phase = "stamps"
  BY <1>3 DEF Answers, AnswersStamp, Asked
<1>4. CASE r.phase = "mkdir"
  BY <1>4 DEF Answers, GoesOn, Asked
<1>5. CASE r.phase = "validate"
  BY <1>5 DEF Answers, AnswersValidate, Asked
<1> QED
  BY <1>1, <1>2, <1>3, <1>4, <1>5

\* Who is at a file knows whether it has an entry.
Knowing(n) ==
    \/ run'[n].step \in {"look", "dirty"}
    \/ run'[n].phase \notin Asked
    \/ /\ statCache' = statCache /\ StatFile(n)' = StatFile(n)
       /\ \/ run'[n].known = (statCache[StatFile(n)] # <<>>)
          \/ /\ run[n].phase = run'[n].phase /\ run[n].known = run'[n].known
             /\ run[n].step \in {"info", "store"}

LEMMA NodeStepKnows ==
    ASSUME TypeOK, NEW n \in Graph, NodeStep(n)
    PROVE  Knowing(n)
<1>0. scenario' = scenario
  BY NodeStepIsInBuild DEF Surroundings
<1>1. CASE StatCacheStat(n)
  <2>1. Looks(n, run[n], run'[n]) /\ statCache' = statCache
        /\ run[n].phase \in {"sign", "outputs", "stamps", "mkdir", "validate"}
    BY <1>1, StatCacheStatOutcome DEF StatCacheStat, InStat, caches
  <2>2. CASE \E t : Answers(n, run[n], run'[n], t)
    BY <2>1, <2>2, AnswersAreSettled DEF Knowing
  <2>3. CASE run'[n].known = (statCache[StatFile(n)] # <<>>) /\ Rest(run[n], run'[n], {"step", "known"})
    <3>1. run'[n].phase = run[n].phase /\ run'[n].i = run[n].i
      BY <2>3 DEF Rest, FrameFields
    <3>2. StatFile(n)' = StatFile(n)
      BY <1>0, <3>1, SameGraph DEF StatFile
    <3> QED
      BY <2>1, <2>3, <3>2 DEF Knowing
  <2> QED
    BY <2>1, <2>2, <2>3 DEF Looks
<1>2. CASE StatTheFile(n)
  <2>1. /\ statCache' = statCache /\ run'[n].phase = run[n].phase /\ run'[n].i = run[n].i
        /\ run'[n].known = run[n].known /\ run[n].step = "info"
    BY <1>2, StatTheFileOutcome DEF StatTheFile, InStat, caches, Rest, FrameFields
  <2>2. StatFile(n)' = StatFile(n)
    BY <1>0, <2>1, SameGraph DEF StatFile
  <2> QED
    BY <2>1, <2>2 DEF Knowing
<1>3. CASE StoreStat(n)
  BY <1>3, StoreStatOutcome, AnswersAreSettled DEF StoreStat, InStat, Knowing
<1>4. CASE GetDigest(n)
  BY <1>4, GetDigestOutcome DEF Signs, SignsNext, Knowing, Asked
<1>5. CASE HashContent(n)
  <2> DEFINE c == disk[Inputs(n)[run[n].i]].content
  <2>1. Signs(n, run[n], run'[n], c) \/ Hashes(n, run[n], run'[n], c)
    BY <1>5, HashContentOutcome
  <2> HIDE DEF c
  <2> QED
    BY <2>1 DEF Hashes, Signs, SignsNext, Knowing, Asked
<1>6. CASE RememberDigest(n)
  BY <1>6, RememberDigestOutcome DEF SignsNext, Knowing
<1>7. CASE MarkStatDirty(n)
  BY <1>7, MarkStatDirtyOutcome DEF AfterMarking, Knowing, Asked
<1>8. CASE MarkSourceDirty(n)
  BY <1>8, MarkSourceDirtyOutcome DEF Knowing
<1>9. CASE CheckInputSignature(n) \/ CheckClock(n) \/ WaitUntilInThePast(n)
  BY <1>9, CheckInputSignatureOutcome, CheckClockOutcome, WaitUntilInThePastOutcome
     DEF GoesOn, ChecksClock, Knowing
<1>10. CASE RemoveOutput(n) \/ MarkRemoved(n) \/ MakeDirectory(n) \/ MarkMade(n) \/ MarkDigestDirty(n)
  BY <1>10, RemoveOutputOutcome, MarkRemovedOutcome, MakeDirectoryOutcome, MarkMadeOutcome,
     MarkDigestDirtyOutcome DEF GoesOn, Knowing
<1>11. CASE TakePreTimestamp(n) \/ BeginAction(n) \/ EndAction(n) \/ CheckWritten(n)
  <2>1. run'[n].phase \in {"act", "acting", "post", "mark"}
    BY <1>11, TakePreTimestampOutcome, BeginActionOutcome, EndActionOutcome, CheckWrittenOutcome
  <2> QED
    BY <2>1 DEF Knowing, Asked
<1> QED
  BY <1>1, <1>2, <1>3, <1>4, <1>5, <1>6, <1>7, <1>8, <1>9, <1>10, <1>11 DEF NodeStep

LEMMA NodeStepEntersOnce ==
    ASSUME TypeOK, NEW n \in Graph, EnteredOnce(n), NodeStep(n)
    PROVE  EnteredOnce(n)'
<1>1. /\ scenario' = scenario /\ Sources(n)' = Sources(n) /\ Knowing(n) /\ StatStep(n)
      /\ \A f : Readers(f)' = Readers(f)
  BY NodeStepIsInBuild, SameGraph, NodeStepKnows, NodeEffects DEF Surroundings, NodeEffect
<1> SUFFICES ASSUME NEW f \in ToSet(Sources(n)), Readers(f) = {n}
             PROVE  /\ Len(statCache'[f]) <= 1
                    /\ run'[n].step \in {"info", "store"} /\ run'[n].phase \in Asked /\ StatFile(n)' = f =>
                           run'[n].known = (statCache'[f] # <<>>)
  BY <1>1 DEF EnteredOnce, Asked
<1>2. /\ Len(statCache[f]) <= 1
      /\ run[n].step \in {"info", "store"} /\ run[n].phase \in Asked /\ StatFile(n) = f =>
             run[n].known = (statCache[f] # <<>>)
  BY DEF EnteredOnce, Asked
<1>3. f \in Files /\ f # Output(n) /\ f # Dir
  <2>1. PICK k \in DOMAIN Sources(n) : f = Sources(n)[k]
    BY DEF ToSet
  <2> QED
    BY <2>1, SourceFacts, GraphFacts DEF TypeOK
<1>4. Len(statCache'[f]) <= 1
  <2>1. CASE statCache' = statCache
    BY <1>2, <2>1
  <2>2. CASE InStat(n, "store") /\ Stored(StatFile(n), run[n].seen, run[n].known)
    <3>1. CASE f = StatFile(n)
      <4>1. run[n].phase \in Asked
        BY <1>3, <2>2, <3>1, StatFileIsAFile DEF InStat, Asked
      <4>2. run[n].known = (statCache[f] # <<>>)
        BY <1>2, <2>2, <3>1, <4>1 DEF InStat
      <4> QED
        <5>1. Stored(f, run[n].seen, run[n].known)
          BY <2>2, <3>1
        <5>2. Len(statCache'[f]) = 1
          BY <1>2, <4>2, <5>1, Zenon DEF Stored
        <5> QED
          BY <5>2
    <3>2. CASE f # StatFile(n)
      BY <1>2, <1>3, <2>2, <3>2 DEF Stored, Kept
    <3> QED
      BY <3>1, <3>2
  <2>3. CASE Marked(Output(n)) \/ Marked(Dir)
    BY <1>2, <1>3, <2>3 DEF Marked
  <2>4. CASE Marked(StatFile(n))
    BY <1>2, <1>3, <2>4 DEF Marked
  <2> QED
    BY <1>1, <2>1, <2>2, <2>3, <2>4 DEF StatStep
<1>5. run'[n].step \in {"info", "store"} /\ run'[n].phase \in Asked /\ StatFile(n)' = f =>
          run'[n].known = (statCache'[f] # <<>>)
  BY <1>1, <1>2 DEF Knowing
<1> QED
  BY <1>4, <1>5

LEMMA EnteredOnceElsewhere ==
    ASSUME TypeOK, NEW m \in Graph, EnteredOnce(m), scenario' = scenario, run'[m] = run[m],
           \A f \in ToSet(Sources(m)) : Readers(f) = {m} => statCache'[f] = statCache[f]
    PROVE  EnteredOnce(m)'
<1>1. /\ Sources(m)' = Sources(m) /\ \A f : Readers(f)' = Readers(f)
      /\ StatFile(m)' = StatFile(m)
  BY SameGraph DEF StatFile
<1> QED
  BY <1>1 DEF EnteredOnce

---------------------------------------------------------------------------
LEMMA NextIsWatched == TypeOK /\ WatchedInv /\ [Next]_vars => WatchedInv'
<1> SUFFICES ASSUME TypeOK, WatchedInv, [Next]_vars, mode' = "building", NEW m \in Graph'
             PROVE  WatchedBy(m)' /\ EnteredOnce(m)'
  BY DEF WatchedInv
<1>0. /\ scenario' = scenario /\ m \in Graph /\ m \in Nodes
      /\ clock \in Nat /\ Sources(m)' = Sources(m)
      /\ \A k \in DOMAIN Sources(m) : Sources(m)[k] \in Files /\ Sources(m)[k] \in ToSet(Sources(m))
  <2>1. scenario' = scenario
    BY NodeStepIsInBuild DEF Next, Build, User, StartNode, SaveAllBuiltNodes, SaveDigestCache, StartBuild, Kill,
       Tick, UserEdits, UserDeletes, vars, scenarioVars, Surroundings
  <2>2. m \in Graph /\ m \in Nodes /\ Sources(m)' = Sources(m)
    BY <2>1, SameGraph, GraphFacts DEF TypeOK
  <2> QED
    BY <2>1, <2>2, SourceFacts DEF TypeOK, TimesOK, ToSet
<1>1. ASSUME mode = "building", UNCHANGED <<statCache, run, read>>, clock' \in Nat, clock' >= clock,
             \A k \in DOMAIN Sources(m) : \/ disk'[Sources(m)[k]] = disk[Sources(m)[k]]
                                          \/ disk'[Sources(m)[k]].mtime >= clock,
             \A k \in DOMAIN Sources(m) : disk'[Sources(m)[k]].mtime \in Nat
      PROVE  WatchedBy(m)' /\ EnteredOnce(m)'
  BY <1>0, <1>1, WatchedElsewhere, EnteredOnceElsewhere DEF WatchedInv
<1>2. \A k \in DOMAIN Sources(m) : disk[Sources(m)[k]].mtime \in Nat
  BY <1>0 DEF TypeOK, DiskOK
<1>3. CASE UNCHANGED vars
  BY <1>0, <1>1, <1>2, <1>3 DEF vars, caches, history
<1>4. ASSUME NEW n \in Graph, mode = "building", NodeStep(n) PROVE WatchedBy(m)' /\ EnteredOnce(m)'
  <2>1. CASE m = n
    BY <1>0, <1>4, <2>1, NodeStepIsWatched, NodeStepEntersOnce DEF WatchedInv
  <2>2. CASE m # n
    <3>1. /\ run'[m] = run[m] /\ DiskStep(n) /\ StatStep(n) /\ ReadStep(n) /\ clock' = clock
      BY <1>0, <1>4, <2>2, NodeFrames, NodeEffects DEF NodeEffect, Surroundings
    <3>2. read'[m] = read[m]
      BY <1>0, <2>2, <3>1 DEF ReadStep
    <3>3. \A k \in DOMAIN Sources(m) : disk'[Sources(m)[k]] = disk[Sources(m)[k]]
      BY <1>0, <3>1, SourcesStay
    <3>4. \A f \in ToSet(Sources(m)) : Readers(f) = {m} => statCache'[f] = statCache[f]
      BY <1>0, <1>4, <2>2, <3>1, LoneSourcesStay DEF WatchedInv, EnteredOnce
    <3>5. \A k \in DOMAIN Sources(m) : Alone(m, k) =>
              statCache'[Sources(m)[k]] = statCache[Sources(m)[k]]
      BY <1>0, <3>4 DEF Alone
    <3>6. WatchedBy(m) /\ EnteredOnce(m)
      BY <1>0, <1>4 DEF WatchedInv
    <3> QED
      BY <1>0, <1>2, <3>1, <3>2, <3>3, <3>4, <3>5, <3>6, WatchedElsewhere, EnteredOnceElsewhere
  <2> QED
    BY <2>1, <2>2
<1>5. ASSUME NEW n \in Graph, StartNode(n) PROVE WatchedBy(m)' /\ EnteredOnce(m)'
  <2>0. mode = "building" /\ UNCHANGED <<disk, statCache, clock, read>> /\ run[n].phase = "idle"
    BY <1>5 DEF StartNode, caches, history
  <2>1. CASE m = n
    <3>1. \/ run'[n].phase \in {"compare", "sign"} /\ run'[n].step = "look"
          \/ run'[n].phase = "finished" /\ run'[n].result # "kRanSuccesfully"
      BY <1>5, StartNodeOutcome DEF GoesOn, Ends, FirstOfNode
    <3>2. WatchedBy(m)'
      BY <2>1, <3>1, NothingClaimed DEF BeforeAction, AfterAction
    <3>3. \A f : Readers(f)' = Readers(f)
      BY <1>0, SameGraph
    <3>4. EnteredOnce(m)'
      BY <1>0, <2>0, <2>1, <3>1, <3>3 DEF WatchedInv, EnteredOnce
    <3> QED
      BY <3>2, <3>4
  <2>2. CASE m # n
    <3>1. run'[m] = run[m]
      BY <1>0, <1>5, <2>2, StartNodeOutcome
    <3> QED
      BY <1>0, <1>2, <2>0, <3>1, WatchedElsewhere, EnteredOnceElsewhere DEF WatchedInv
  <2> QED
    BY <2>1, <2>2
<1>6. CASE SaveAllBuiltNodes \/ SaveDigestCache \/ Kill
  BY <1>6 DEF SaveAllBuiltNodes, SaveDigestCache, Kill
<1>7. CASE StartBuild
  <2>1. run'[m] = Frame /\ \A f \in Files : statCache'[f] = <<>>
    BY <1>0, <1>7 DEF StartBuild
  <2>2. WatchedBy(m)'
    BY <2>1, NothingClaimed DEF Frame, BeforeAction, AfterAction
  <2>3. \A f \in ToSet(Sources(m)) : Len(statCache'[f]) = 0
    BY <1>0, <2>1, EmptyIsASequence DEF ToSet
  <2>4. EnteredOnce(m)'
    BY <1>0, <2>1, <2>3 DEF EnteredOnce, Frame
  <2> QED
    BY <2>2, <2>4
<1>8. CASE Tick
  BY <1>0, <1>1, <1>2, <1>8 DEF Tick, caches, history
<1>9. ASSUME NEW f \in Files, UserEdits(f) PROVE WatchedBy(m)' /\ EnteredOnce(m)'
  <2>1. \E k, t : t \in clock .. clock + sc.future /\ disk' = [disk EXCEPT ![f] = [content |-> <<k>>, mtime |-> t]]
    BY <1>9 DEF UserEdits
  <2>2. PICK k, t : t \in clock .. clock + sc.future /\ disk' = [disk EXCEPT ![f] = [content |-> <<k>>, mtime |-> t]]
    BY <2>1
  <2>3. t \in Nat /\ t >= clock /\ DiskOK
    BY <1>0, <2>2, GraphFacts DEF TypeOK
  <2>4. disk'[f].mtime = t /\ DiskOK' /\ \A g \in Files \ {f} : disk'[g] = disk[g]
    BY <2>2, <2>3, Writing
  <2>5. \A j \in DOMAIN Sources(m) :
            /\ disk'[Sources(m)[j]] = disk[Sources(m)[j]] \/ disk'[Sources(m)[j]].mtime >= clock
            /\ disk'[Sources(m)[j]].mtime \in Nat
    BY <1>0, <1>2, <2>3, <2>4
  <2>6. mode' = mode /\ clock' = clock /\ UNCHANGED <<statCache, run, read>>
    BY <1>9 DEF UserEdits, caches
  <2> QED
    BY <1>0, <1>1, <2>5, <2>6
<1>10. CASE UserDeletes
  BY <1>10 DEF UserDeletes
<1> QED
  BY <1>3, <1>4, <1>5, <1>6, <1>7, <1>8, <1>9, <1>10 DEF Next, Build, User

\* What a finished node claims holds in every state of a build: the sources it
\* alone reads are dated as they were when its action read them.
THEOREM ChangesAreNoticed == Spec => [](TypeOK /\ WatchedInv)
<1>1. Init => WatchedInv
  BY DEF Init, WatchedInv
<1> QED
  BY <1>1, InitIsTypeOK, NextIsTypeOK, NextIsWatched, PTL DEF Spec

\* GuaranteedMeansUnchanged, for all graphs, workers and users: an edit while the
\* signature was computed or the action ran puts the node in doubt.
THEOREM GuaranteedIsUnchanged == Spec => []GuaranteedMeansUnchanged
<1>1. WatchedInv => GuaranteedMeansUnchanged
  BY DEF WatchedInv, WatchedBy, GuaranteedMeansUnchanged, Alone, SameAsRead
<1> QED
  BY <1>1, ChangesAreNoticed, PTL

---------------------------------------------------------------------------
(* What a node knows of a generated file is what is in it *)

LEMMA NodeStepOfActive ==
    ASSUME TypeOK, NEW n \in Graph, NodeStep(n)
    PROVE  run[n].phase \notin {"idle", "finished"}
BY MarkSourceDirtyOutcome DEF NodeStep, StatCacheStat, StatTheFile, StoreStat, InStat, GetDigest, HashContent,
   RememberDigest, CheckInputSignature, CheckClock, WaitUntilInThePast, RemoveOutput, MarkRemoved,
   MakeDirectory, MarkMade, TakePreTimestamp, BeginAction, EndAction, CheckWritten,
   MarkDigestDirty, MarkStatDirty

\* No node reads what it makes while it is at work: it would wait for itself.
LEMMA NotItsOwnInput ==
    ASSUME TypeOK, NEW n \in Graph, ProducersFirst(n), run[n].phase \notin {"idle", "finished"}
    PROVE  Output(n) \notin ToSet(Inputs(n))
BY DEF ProducersFirst, Producers

\* What is generated for a node that was started is there to stay.
LEMMA InputsStay ==
    ASSUME TypeOK, NEW n \in Graph, ProducersFirst(n), run[n].phase # "idle", NEW q \in Graph, NodeStep(q),
           NEW f \in ToSet(Inputs(n)), f \in Outputs
    PROVE  disk'[f] = disk[f]
<1>1. PICK p \in Graph : f = Output(p)
  BY DEF Outputs
<1>2. run[p].phase = "finished"
  BY <1>1 DEF ProducersFirst, Producers
<1>3. p # q
  BY <1>2, NodeStepOfActive
<1> QED
  BY <1>1, <1>3, NodeEffects, OutputsOfOthers DEF NodeEffect

LEMMA ProducersStayFirst ==
    ASSUME TypeOK, NEW n \in Graph, ProducersFirst(n), NEW q \in Graph, NodeStep(q)
    PROVE  ProducersFirst(n)'
<1>1. /\ run[q].phase \notin {"idle", "finished"} /\ \A m \in Nodes \ {q} : run'[m] = run[m]
      /\ scenario' = scenario /\ Graph \subseteq Nodes
  BY NodeStepOfActive, NodeFrames, NodeStepIsInBuild, GraphFacts DEF Surroundings, TypeOK
<1>2. Producers(n)' = Producers(n) /\ Producers(n) \subseteq Graph
  BY <1>1, SameGraph DEF Producers
<1> SUFFICES ASSUME run'[n].phase # "idle", NEW p \in Producers(n) PROVE run'[p].phase = "finished"
  BY <1>2 DEF ProducersFirst
<1>3. run[n].phase # "idle"
  BY <1>1
<1>4. run[p].phase = "finished"
  BY <1>3 DEF ProducersFirst
<1> QED
  BY <1>1, <1>2, <1>4

\* Which file it is that a node looks up.
LEMMA LookedUpOutput ==
    ASSUME TypeOK, NEW n \in Graph, run[n].phase \in {"sign", "outputs", "stamps", "mkdir", "validate"},
           ProducersFirst(n), NEW p \in Graph, StatFile(n) = Output(p)
    PROVE  \/ n = p /\ run[n].phase = "outputs"
           \/ n # p /\ run[n].phase = "sign" /\ run[p].phase = "finished"
<1>1. /\ Output(p) \in Outputs /\ Output(p) # Dir /\ (Output(n) = Output(p) => n = p)
      /\ Output(n) \in Files
  BY GraphFacts DEF TypeOK
<1>2. IsNode(n) /\ Sound(n, run[n]) /\ run[n].i \in Nat \ {0}
  BY NodeIsSound DEF FrameOK
<1>3. CASE run[n].phase = "sign"
  <2>1. StatFile(n) = Inputs(n)[run[n].i] /\ run[n].i \in DOMAIN Inputs(n)
    BY <1>2, <1>3, StatFileIsAFile, InputFacts DEF Sound, IndexOK, Signing, IsNode
  <2>2. Output(p) \in ToSet(Inputs(n))
    BY <2>1 DEF ToSet
  <2>3. run[p].phase = "finished"
    BY <1>3, <2>2 DEF ProducersFirst, Producers
  <2> QED
    BY <1>3, <2>3
<1>4. CASE run[n].phase = "outputs"
  BY <1>1, <1>4, StatFileIsAFile
<1>5. CASE run[n].phase \in {"stamps", "validate"}
  <2>1. StatFile(n) = Sources(n)[run[n].i] /\ run[n].i \in DOMAIN Sources(n)
    BY <1>2, <1>5, StatFileIsAFile, InputFacts DEF Sound, IndexOK, IsNode
  <2>2. StatFile(n) \notin Outputs
    BY <1>2, <2>1, SourceFacts DEF IsNode
  <2> QED
    BY <1>1, <2>2
<1>6. CASE run[n].phase = "mkdir"
  BY <1>1, <1>6, StatFileIsAFile
<1> QED
  BY <1>3, <1>4, <1>5, <1>6

LEMMA SameIsKept ==
    ASSUME NEW f, statCache'[f] = statCache[f]
    PROVE  Kept(f)
<1>1. ASSUME NEW k \in DOMAIN statCache'[f] PROVE OldEntry(f, statCache'[f][k])
  BY DEF OldEntry
<1> QED
  BY <1>1 DEF Kept

\* What is in the cache of an output when a node that does not look at it steps.
LEMMA OutputEntriesStay ==
    ASSUME TypeOK, NEW n \in Graph, NodeStep(n), NEW p \in Graph,
           InStat(n, "store") => StatFile(n) # Output(p)
    PROVE  \/ Kept(Output(p))
           \/ n = p /\ run[n].phase \in {"removed", "marked"} /\ Marked(Output(p))
<1> DEFINE f == Output(p)
<1>1. f \in Files /\ f # Dir /\ f \in Outputs /\ (Output(n) = f => n = p)
  BY GraphFacts DEF TypeOK
<1>2. StatStep(n)
  BY NodeEffects DEF NodeEffect
<1>3. CASE statCache' = statCache
  BY <1>3, SameIsKept
<1>4. CASE InStat(n, "store") /\ Stored(StatFile(n), run[n].seen, run[n].known)
  <2>1. f # StatFile(n)
    BY <1>4
  <2>2. \A g \in Files \ {StatFile(n)} : Kept(g)
    BY <1>4 DEF Stored
  <2> QED
    BY <1>1, <2>1, <2>2
<1>5. CASE run[n].phase \in {"removed", "marked"} /\ Marked(Output(n))
  <2>1. CASE n = p
    BY <1>5, <2>1
  <2>2. CASE n # p
    <3>1. statCache'[f] = statCache[f]
      BY <1>1, <1>5, <2>2 DEF Marked
    <3> QED
      BY <3>1, SameIsKept
  <2> QED
    BY <2>1, <2>2
<1>6. CASE Marked(Dir)
  <2>1. statCache'[f] = statCache[f]
    BY <1>1, <1>6 DEF Marked
  <2> QED
    BY <2>1, SameIsKept
<1>7. CASE run[n].phase = "validate" /\ run[n].step = "dirty" /\ Marked(StatFile(n))
  <2>1. StatFile(n) # f
    <3>1. IsNode(n) /\ Sound(n, run[n]) /\ run[n].i \in Nat \ {0}
      BY NodeIsSound DEF FrameOK
    <3>2. StatFile(n) = Sources(n)[run[n].i] /\ run[n].i \in DOMAIN Sources(n)
      BY <1>7, <3>1, StatFileIsAFile, InputFacts DEF Sound, IndexOK, IsNode
    <3> QED
      BY <1>1, <3>1, <3>2, SourceFacts DEF IsNode
  <2>2. statCache'[f] = statCache[f]
    BY <1>1, <1>7, <2>1 DEF Marked
  <2> QED
    BY <2>2, SameIsKept
<1> QED
  BY <1>2, <1>3, <1>4, <1>5, <1>6, <1>7 DEF StatStep

---------------------------------------------------------------------------
(* The entries of an output *)

LEMMA OutputEnteredElsewhere ==
    ASSUME TypeOK, NEW n \in Graph, NodeStep(n), NEW p \in Graph \ {n}, OutputEntered(p),
           ProducersFirst(n), SignsFresh(n)
    PROVE  OutputEntered(p)'
<1> DEFINE f == Output(p)
<1>1. /\ run'[p] = run[p] /\ Output(p)' = f /\ disk'[f] = disk[f]
  BY NodeFrames, NodeEffects, NodeStepIsInBuild, SameGraph, OutputsOfOthers, GraphFacts
     DEF NodeEffect, Surroundings, TypeOK
<1>2. CASE InStat(n, "store") /\ StatFile(n) = f
  <2>1. run[n].phase = "sign" /\ run[n].step = "store" /\ run[p].phase = "finished"
    BY <1>2, LookedUpOutput DEF InStat
  <2>2. Fresh(f, run[n].seen)
    <3>1. f = Inputs(n)[run[n].i] /\ f \in Outputs
      BY <1>2, <2>1, StatFileIsAFile, GraphFacts DEF TypeOK
    <3> QED
      BY <2>1, <3>1 DEF SignsFresh
  <2>3. StoreStat(n)
    BY <1>2, <2>1 DEF NodeStep, StatCacheStat, StatTheFile, InStat, GetDigest, HashContent,
       RememberDigest, CheckInputSignature, CheckClock, WaitUntilInThePast, RemoveOutput, MarkRemoved,
       MakeDirectory, MarkMade, TakePreTimestamp, BeginAction, EndAction, CheckWritten,
       MarkDigestDirty, MarkStatDirty, MarkSourceDirty
  <2>4. Stored(f, run[n].seen, run[n].known)
    <3>1. StatStep(n)
      BY NodeEffects DEF NodeEffect
    <3>2. f \in Files /\ run[n].seen \in Nat /\ run[n].known \in BOOLEAN
      BY NodeIsSound DEF FrameOK
    <3>3. IF run[n].known THEN StatCacheUpdate(f, run[n].seen) ELSE StatCacheInsert(f, run[n].seen)
      BY <1>2, <2>3 DEF StoreStat
    <3>4. CASE run[n].known = TRUE
      BY <3>2, <3>3, <3>4, Updating DEF TypeOK
    <3>5. CASE run[n].known = FALSE
      BY <3>2, <3>3, <3>5, Inserting DEF TypeOK
    <3> QED
      BY <3>2, <3>4, <3>5
  <2>5. \A k \in DOMAIN statCache'[f] : ~statCache'[f][k].dirty => statCache'[f][k].mtime = disk[f].mtime
    <3> SUFFICES ASSUME NEW k \in DOMAIN statCache'[f], ~statCache'[f][k].dirty
                 PROVE  statCache'[f][k].mtime = disk[f].mtime
      OBVIOUS
    <3>1. CASE statCache'[f][k] = Clean(run[n].seen)
      BY <2>2, <3>1 DEF Clean, Fresh, GetFileInfo
    <3>2. CASE OldEntry(f, statCache'[f][k])
      BY <2>1, <3>2 DEF OldEntry, OutputEntered, Fresh, GetFileInfo
    <3> QED
      BY <2>4, <3>1, <3>2 DEF Stored
  <2> QED
    BY <1>1, <2>1, <2>5 DEF OutputEntered, NotLooked, Signing, Fresh, GetFileInfo
<1>3. CASE ~(InStat(n, "store") /\ StatFile(n) = f)
  <2>1. Kept(f)
    BY <1>3, OutputEntriesStay
  <2>2. statCache[f] \in Seq(EntryType) /\ statCache'[f] \in Seq(EntryType)
    BY NodeEffects, NodeIsSound DEF NodeEffect, TypeOK, StatOK
  <2>3. statCache[f] = <<>> => statCache'[f] = <<>>
    BY <2>1, <2>2 DEF Kept
  <2>4. run[p].phase \in {"validate", "finished"} =>
           \A k \in DOMAIN statCache'[f] : ~statCache'[f][k].dirty => statCache'[f][k].mtime = disk[f].mtime
    BY <2>1 DEF Kept, OldEntry, OutputEntered, Fresh, GetFileInfo
  <2>5. Len(statCache'[f]) = Len(statCache[f])
    BY <2>1 DEF Kept
  <2> QED
    BY <1>1, <2>3, <2>4, <2>5 DEF OutputEntered, Fresh, GetFileInfo
<1> QED
  BY <1>2, <1>3

\* The order in which a node goes through its phases, as far as its output.
Middle == (Stamped \ {"validate", "marked"}) \cup {"stamps"}
Follows(n) ==
    LET r == run[n]
        s == run'[n]
    IN
    /\ r.phase \in Signing => s.phase \in Signing \cup {"compare"}
    /\ r.phase = "compare" => s.phase \in {"outputs", "stamps", "clock"} /\ s.step = "look"
    /\ r.phase \in Middle => s.phase \in Middle \cup {"marked"}
    /\ r.phase \in {"marked", "validate"} => s.phase \in {"validate", "finished"}

LEMMA AnswersFollow ==
    ASSUME NEW n, \E t : Answers(n, run[n], run'[n], t),
           run[n].phase \in {"sign", "outputs", "stamps", "mkdir", "validate"}
    PROVE  Follows(n)
<1> DEFINE r == run[n]
           s == run'[n]
<1>1. CASE r.phase = "sign"
  <2>1. s.phase \in {"sign", "digest", "compare"}
    BY <1>1 DEF Answers, AnswersSign, Signs, SignsNext
  <2> QED
    BY <1>1, <2>1 DEF Follows, Signing, Middle, Stamped
<1>2. CASE r.phase = "outputs"
  BY <1>2 DEF Follows, Signing, Middle, Stamped
<1>3. CASE r.phase = "stamps"
  <2>1. s.phase \in {"stamps", "clock"}
    BY <1>3 DEF Answers, AnswersStamp
  <2> QED
    BY <1>3, <2>1 DEF Follows, Signing, Middle, Stamped
<1>4. CASE r.phase = "mkdir"
  <2>1. s.phase \in {"make", "pre"}
    BY <1>4 DEF Answers, GoesOn
  <2> QED
    BY <1>4, <2>1 DEF Follows, Signing, Middle, Stamped
<1>5. CASE r.phase = "validate"
  <2>1. s.phase \in {"validate", "finished"}
    BY <1>5 DEF Answers, AnswersValidate, Rest, FrameFields
  <2> QED
    BY <1>5, <2>1 DEF Follows, Signing, Middle, Stamped
<1> QED
  BY <1>1, <1>2, <1>3, <1>4, <1>5

LEMMA NodeFollows ==
    ASSUME TypeOK, NEW n \in Graph, NodeStep(n)
    PROVE  Follows(n)
<1> DEFINE r == run[n]
           s == run'[n]
<1>0. ASSUME s.phase = r.phase, r.phase \notin {"compare", "marked"} PROVE Follows(n)
  BY <1>0 DEF Follows, Middle
<1>1. CASE StatCacheStat(n)
  <2>1. Looks(n, r, s) /\ r.phase \in {"sign", "outputs", "stamps", "mkdir", "validate"}
    BY <1>1, StatCacheStatOutcome DEF StatCacheStat, InStat
  <2>2. CASE \E t : Answers(n, r, s, t)
    BY <2>1, <2>2, AnswersFollow
  <2>3. CASE Rest(r, s, {"step", "known"})
    BY <1>0, <2>1, <2>3 DEF Rest, FrameFields
  <2> QED
    BY <2>1, <2>2, <2>3 DEF Looks
<1>2. CASE StatTheFile(n)
  <2>1. Rest(r, s, {"step", "seen"}) /\ r.phase \notin {"compare", "marked"}
    BY <1>2, StatTheFileOutcome DEF StatTheFile, InStat
  <2> QED
    BY <1>0, <2>1 DEF Rest, FrameFields
<1>3. CASE StoreStat(n)
  BY <1>3, StoreStatOutcome, AnswersFollow DEF StoreStat, InStat
<1>4. CASE MarkSourceDirty(n)
  <2>1. Rest(r, s, {"step"}) /\ r.phase = "validate"
    BY <1>4, MarkSourceDirtyOutcome
  <2> QED
    BY <1>0, <2>1 DEF Rest, FrameFields
<1>5. CASE GetDigest(n) \/ HashContent(n) \/ RememberDigest(n)
  <2> DEFINE c == disk[Inputs(n)[r.i]].content
  <2>1. HashContent(n) => Signs(n, r, s, c) \/ Hashes(n, r, s, c)
    BY HashContentOutcome
  <2> HIDE DEF c
  <2>2. r.phase \in Signing /\ s.phase \in Signing \cup {"compare"}
    BY <1>5, <2>1, GetDigestOutcome, RememberDigestOutcome
       DEF Hashes, Signs, SignsNext, Signing, GetDigest, HashContent, RememberDigest
  <2> QED
    BY <2>2 DEF Follows, Middle, Stamped, Signing
<1>6. CASE CheckInputSignature(n)
  BY <1>6, CheckInputSignatureOutcome DEF CheckInputSignature, GoesOn, Follows, Middle, Stamped, Signing
<1>7. CASE MarkStatDirty(n)
  BY <1>7, MarkStatDirtyOutcome DEF MarkStatDirty, AfterMarking, Follows, Middle, Stamped, Signing
<1>8. CASE CheckClock(n) \/ WaitUntilInThePast(n)
  <2>1. s.phase \in {"wait", "remove"} /\ r.phase \in {"clock", "wait"}
    BY <1>8, CheckClockOutcome, WaitUntilInThePastOutcome DEF CheckClock, WaitUntilInThePast, ChecksClock, GoesOn
  <2> QED
    BY <2>1 DEF Follows, Middle, Stamped, Signing
<1>9. CASE RemoveOutput(n) \/ MarkRemoved(n) \/ MakeDirectory(n) \/ MarkMade(n) \/ MarkDigestDirty(n)
  <2>1. r.phase \in {"remove", "removed", "make", "made", "mark"}
        /\ s.phase \in {"mkdir", "removed", "made", "pre", "marked"}
    BY <1>9, RemoveOutputOutcome, MarkRemovedOutcome, MakeDirectoryOutcome, MarkMadeOutcome,
       MarkDigestDirtyOutcome
       DEF RemoveOutput, MarkRemoved, MakeDirectory, MarkMade, MarkDigestDirty, GoesOn
  <2> QED
    BY <2>1 DEF Follows, Middle, Stamped, Signing
<1>10. CASE TakePreTimestamp(n) \/ BeginAction(n) \/ EndAction(n) \/ CheckWritten(n)
  <2>1. r.phase \in {"pre", "act", "acting", "post"} /\ s.phase \in {"act", "acting", "post", "mark"}
    BY <1>10, TakePreTimestampOutcome, BeginActionOutcome, EndActionOutcome, CheckWrittenOutcome
       DEF TakePreTimestamp, BeginAction, EndAction, CheckWritten
  <2> QED
    BY <2>1 DEF Follows, Middle, Stamped, Signing
<1> QED
  BY <1>1, <1>2, <1>3, <1>4, <1>5, <1>6, <1>7, <1>8, <1>9, <1>10 DEF NodeStep

\* What a node that asks does is one of the three steps of asking.
LEMMA AsksInSteps ==
    ASSUME TypeOK, NEW n \in Graph, NodeStep(n), run[n].phase \in {"sign", "outputs", "stamps", "mkdir"}
    PROVE  /\ StatCacheStat(n) \/ StatTheFile(n) \/ StoreStat(n)
           /\ run[n].step = "look" => StatCacheStat(n)
           /\ run[n].step = "info" => StatTheFile(n)
           /\ run[n].step = "store" => StoreStat(n)
           /\ disk' = disk
<1>1. ~MarkSourceDirty(n)
  BY MarkSourceDirtyOutcome
<1>2. StatCacheStat(n) \/ StatTheFile(n) \/ StoreStat(n)
  BY <1>1 DEF NodeStep, GetDigest, HashContent, RememberDigest, CheckInputSignature, CheckClock,
     WaitUntilInThePast, RemoveOutput, MarkRemoved, MakeDirectory, MarkMade, TakePreTimestamp,
     BeginAction, EndAction, CheckWritten, MarkDigestDirty, MarkStatDirty
<1>3. /\ StatCacheStat(n) => run[n].step = "look" /\ disk' = disk
      /\ StatTheFile(n) => run[n].step = "info" /\ disk' = disk
      /\ StoreStat(n) => run[n].step = "store" /\ disk' = disk
  BY DEF StatCacheStat, StatTheFile, StoreStat, InStat
<1> QED
  BY <1>2, <1>3

\* The node that makes a file is the first to enter it.
LEMMA OutputsAreEntered ==
    ASSUME TypeOK, NEW n \in Graph, NodeStep(n), OutputEntered(n), run[n].phase = "outputs"
    PROVE  OutputEntered(n)'
<1> DEFINE f == Output(n)
           r == run[n]
           s == run'[n]
<1>1. /\ Output(n)' = f /\ f \in Files /\ StatFile(n) = f
      /\ statCache[f] = <<>> /\ disk' = disk
  <2>1. Output(n)' = f
    BY NodeStepIsInBuild, SameGraph DEF Surroundings
  <2>2. statCache[f] = <<>>
    BY DEF OutputEntered, NotLooked
  <2> QED
    BY <2>1, <2>2, NodeIsSound, StatFileIsAFile, AsksInSteps
<1>2. CASE StatCacheStat(n)
  <2>1. Looks(n, r, s) /\ statCache' = statCache
    BY <1>2, StatCacheStatOutcome DEF StatCacheStat, caches
  <2>2. ~StatCacheIsClean(StatFile(n))
    BY <1>1 DEF StatCacheIsClean, StatCacheKnows
  <2>3. s.step = "info" /\ s.known = FALSE /\ s.phase = "outputs"
    BY <1>1, <2>1, <2>2 DEF Looks, Rest, FrameFields
  <2> QED
    BY <1>1, <2>1, <2>3, EmptyIsASequence DEF OutputEntered
<1>3. CASE StatTheFile(n)
  <2>1. /\ s.step = "store" /\ s.seen = GetFileInfo(f) /\ s.phase = "outputs" /\ s.known = r.known
        /\ statCache' = statCache /\ r.step = "info"
    BY <1>1, <1>3, StatTheFileOutcome DEF StatTheFile, InStat, caches, Rest, FrameFields
  <2>2. ~s.known
    BY <2>1 DEF OutputEntered
  <2> QED
    BY <1>1, <2>1, <2>2, EmptyIsASequence DEF OutputEntered, Fresh, GetFileInfo
<1>4. CASE StoreStat(n)
  <2>1. Answers(n, r, s, r.seen) /\ r.step = "store"
    BY <1>4, StoreStatOutcome DEF StoreStat, InStat
  <2>2. r.known = FALSE /\ r.seen = disk[f].mtime
    BY <2>1, NodeIsSound DEF OutputEntered, Fresh, GetFileInfo, FrameOK
  <2>3. r.seen \in Nat /\ StatCacheInsert(f, r.seen)
    BY <1>1, <1>4, <2>2, NodeIsSound DEF StoreStat, FrameOK
  <2>4. Stored(f, r.seen, FALSE) /\ StatOK'
    BY <1>1, <2>3, Inserting DEF TypeOK
  <2>5. Len(statCache'[f]) = 1 /\ statCache'[f][1] = Clean(r.seen)
    <3>1. FALSE = (statCache[f] # <<>>) /\ Len(statCache[f]) <= 1
      BY <1>1, EmptyIsASequence
    <3> QED
      BY <2>4, <3>1 DEF Stored
  <2>6. statCache'[f] \in Seq(EntryType)
    BY <1>1, <2>4 DEF StatOK
  <2>7. \A k \in DOMAIN statCache'[f] : statCache'[f][k].mtime = disk[f].mtime
    BY <2>2, <2>5, <2>6 DEF Clean
  <2>8. s.phase \in {"stamps", "clock", "finished"}
    BY <2>1 DEF Answers, GoesOn, Ends, FirstOfRun
  <2> QED
    BY <1>1, <2>5, <2>7, <2>8 DEF OutputEntered, NotLooked, Signing, Fresh, GetFileInfo
<1> QED
  BY <1>2, <1>3, <1>4, AsksInSteps

LEMMA OwnOutputEntered ==
    ASSUME TypeOK, NEW n \in Graph, NodeStep(n), OutputEntered(n), ProducersFirst(n)
    PROVE  OutputEntered(n)'
<1> DEFINE f == Output(n)
           r == run[n]
           s == run'[n]
<1>0. CASE r.phase = "outputs"
  BY <1>0, OutputsAreEntered
<1> SUFFICES ASSUME r.phase # "outputs" PROVE OutputEntered(n)'
  BY <1>0
<1>1. /\ Output(n)' = f /\ f \in Files /\ Follows(n) /\ r.phase \notin {"idle", "finished"}
      /\ statCache[f] \in Seq(EntryType) /\ statCache'[f] \in Seq(EntryType)
  <2>1. Output(n)' = f
    BY NodeStepIsInBuild, SameGraph DEF Surroundings
  <2>2. f \in Files
    BY NodeIsSound
  <2> QED
    BY <2>1, <2>2, NodeFollows, NodeEffects, NodeStepOfActive DEF NodeEffect, TypeOK, StatOK
<1>2. \/ Kept(f)
      \/ r.phase \in {"removed", "marked"} /\ Marked(f)
  <2>1. InStat(n, "store") => StatFile(n) # f
    BY LookedUpOutput DEF InStat
  <2> QED
    BY <2>1, OutputEntriesStay
<1>3. Len(statCache'[f]) = Len(statCache[f]) /\ Len(statCache[f]) <= 1
  BY <1>1, <1>2 DEF Kept, Marked, OutputEntered
<1>4. CASE r.phase \in Signing \cup {"compare"}
  <2>1. statCache'[f] = <<>> /\ Len(statCache'[f]) = 0
    BY <1>1, <1>3, <1>4 DEF OutputEntered, NotLooked, Signing
  <2>2. \/ s.phase \in Signing \cup {"compare", "stamps", "clock"}
        \/ s.phase = "outputs" /\ s.step = "look"
    BY <1>1, <1>4 DEF Follows
  <2> QED
    BY <1>1, <2>1, <2>2 DEF OutputEntered, Signing
<1>5. CASE r.phase \in Middle
  <2>1. s.phase \in Middle \cup {"marked"}
    BY <1>1, <1>5 DEF Follows
  <2> QED
    BY <1>1, <1>3, <2>1 DEF OutputEntered, NotLooked, Signing, Middle, Stamped
<1>6. CASE r.phase = "marked"
  <2>1. s.phase \in {"validate", "finished"}
    BY <1>1, <1>6 DEF Follows
  <2>2. Marked(f)
    <3>1. MarkStatDirty(n)
      BY <1>6 DEF NodeStep, StatCacheStat, StatTheFile, StoreStat, InStat, GetDigest, HashContent,
         RememberDigest, CheckInputSignature, CheckClock, WaitUntilInThePast, RemoveOutput, MarkRemoved,
         MakeDirectory, MarkMade, TakePreTimestamp, BeginAction, EndAction, CheckWritten,
         MarkDigestDirty, MarkSourceDirty
    <3> QED
      BY <1>1, <3>1, Marking DEF MarkStatDirty, TypeOK
  <2>3. \A k \in DOMAIN statCache'[f] : statCache'[f][k].dirty
    BY <1>1, <1>3, <2>2 DEF Marked
  <2> QED
    BY <1>1, <1>3, <2>1, <2>3 DEF OutputEntered, NotLooked, Signing
<1>7. CASE r.phase = "validate"
  <2>1. s.phase \in {"validate", "finished"}
    BY <1>1, <1>7 DEF Follows
  <2>2. Kept(f) /\ disk'[f] = disk[f]
    <3>1. DiskStep(n)
      BY NodeEffects DEF NodeEffect
    <3>2. disk'[f] = disk[f]
      BY <1>7, <3>1 DEF DiskStep
    <3> QED
      BY <1>2, <1>7, <3>2
  <2>3. \A k \in DOMAIN statCache'[f] : ~statCache'[f][k].dirty => statCache'[f][k].mtime = disk[f].mtime
    BY <1>7, <2>2 DEF Kept, OldEntry, OutputEntered, Fresh, GetFileInfo
  <2> QED
    BY <1>1, <1>3, <2>1, <2>2, <2>3 DEF OutputEntered, NotLooked, Signing, Fresh, GetFileInfo
<1>8. r.phase \in Signing \cup {"compare"} \cup Middle \cup {"marked", "validate"}
  <2>1. r.phase \in Phases
    BY NodeIsSound DEF FrameOK
  <2> QED
    BY <1>1, <2>1 DEF Phases, Signing, Middle, Stamped
<1> QED
  BY <1>4, <1>5, <1>6, <1>7, <1>8

---------------------------------------------------------------------------
(* The signature of what is generated *)

SignatureStays(n) ==
    /\ scenario' = scenario /\ Inputs(n)' = Inputs(n) /\ Outputs' = Outputs /\ sc' = sc
    /\ \A f \in ToSet(Inputs(n)) : f \in Outputs => disk'[f] = disk[f] /\ SignatureOf(f)' = SignatureOf(f)

LEMMA NodeSignsTheSame ==
    ASSUME TypeOK, NEW n \in Graph, ProducersFirst(n), run[n].phase # "idle", NEW q \in Graph, NodeStep(q)
    PROVE  SignatureStays(n)
<1>1. /\ scenario' = scenario /\ Inputs(n)' = Inputs(n) /\ Outputs' = Outputs /\ sc' = sc
  BY NodeStepIsInBuild, SameGraph DEF Surroundings
<1>2. ASSUME NEW f \in ToSet(Inputs(n)), f \in Outputs
      PROVE  disk'[f] = disk[f] /\ SignatureOf(f)' = SignatureOf(f)
  BY <1>1, <1>2, InputsStay DEF SignatureOf
<1> QED
  BY <1>1, <1>2 DEF SignatureStays

\* Every entry is that of an input.
LEMMA SignedInputs ==
    ASSUME TypeOK, NEW n \in Graph, run[n].phase \in Signing \cup HasSigned
    PROVE  /\ DOMAIN run[n].sig = 1 .. Len(run[n].sig) /\ Len(run[n].sig) \in Nat
           /\ Len(run[n].sig) <= Len(Inputs(n))
           /\ \A k \in 1 .. Len(Inputs(n)) : Inputs(n)[k] \in ToSet(Inputs(n))
           /\ run[n].phase \in Signing => run[n].i \in 1 .. Len(Inputs(n))
<1>1. IsNode(n) /\ Sound(n, run[n]) /\ IsSequence(run[n].sig) /\ run[n].i \in Nat \ {0}
  BY NodeIsSound DEF FrameOK
<1>2. DOMAIN run[n].sig = 1 .. Len(run[n].sig) /\ Len(run[n].sig) \in Nat
  BY <1>1, AppendToSequence
<1>3. Len(Inputs(n)) \in Nat /\ DOMAIN Inputs(n) = 1 .. Len(Inputs(n))
  BY <1>1, InputFacts DEF IsNode
<1>4. Len(run[n].sig) <= Len(Inputs(n)) /\ (run[n].phase \in Signing => run[n].i \in 1 .. Len(Inputs(n)))
  BY <1>1, <1>2, <1>3 DEF Sound, IndexOK, Signing, HasSigned
<1> QED
  BY <1>2, <1>3, <1>4 DEF ToSet

\* A signature that nobody adds to.
LEMMA SameSignature ==
    ASSUME TypeOK, NEW n \in Graph, SignatureStays(n), SignsFresh(n),
           run[n].phase \in Signing \cup HasSigned, run'[n].sig = run[n].sig
    PROVE  \A k \in DOMAIN run'[n].sig :
               (Inputs(n)[k] \in Outputs)' => run'[n].sig[k] = SignatureOf(Inputs(n)[k])'
<1> SUFFICES ASSUME NEW k \in DOMAIN run[n].sig, Inputs(n)[k] \in Outputs
             PROVE  run[n].sig[k] = SignatureOf(Inputs(n)[k])'
  BY DEF SignatureStays
<1>1. Inputs(n)[k] \in ToSet(Inputs(n))
  BY SignedInputs
<1>2. run[n].sig[k] = SignatureOf(Inputs(n)[k])
  BY DEF SignsFresh
<1>3. SignatureOf(Inputs(n)[k])' = SignatureOf(Inputs(n)[k])
  BY <1>1 DEF SignatureStays, SignatureOf
<1> QED
  BY <1>2, <1>3

\* A signature that got one entry more.
LEMMA OneSignedMore ==
    ASSUME TypeOK, NEW n \in Graph, SignatureStays(n), SignsFresh(n), run[n].phase \in Signing,
           NEW e, Len(run'[n].sig) = run[n].i, run'[n].sig[run[n].i] = e,
           \A k \in 1 .. run[n].i - 1 : run'[n].sig[k] = run[n].sig[k],
           DOMAIN run'[n].sig = 1 .. run[n].i, Len(run[n].sig) = run[n].i - 1,
           Inputs(n)[run[n].i] \in Outputs => e = SignatureOf(Inputs(n)[run[n].i])
    PROVE  \A k \in DOMAIN run'[n].sig :
               (Inputs(n)[k] \in Outputs)' => run'[n].sig[k] = SignatureOf(Inputs(n)[k])'
<1> SUFFICES ASSUME NEW k \in 1 .. run[n].i, Inputs(n)[k] \in Outputs
             PROVE  run'[n].sig[k] = SignatureOf(Inputs(n)[k])'
  BY DEF SignatureStays
<1>0. run[n].i \in 1 .. Len(Inputs(n)) /\ DOMAIN run[n].sig = 1 .. run[n].i - 1 /\ run[n].i \in Nat
      /\ Len(Inputs(n)) \in Nat
  <2>1. IsNode(n) /\ FrameOK(run[n])
    BY NodeIsSound
  <2>2. Len(Inputs(n)) \in Nat /\ run[n].i \in Nat
    BY <2>1, InputFacts DEF IsNode, FrameOK
  <2> QED
    BY <2>2, SignedInputs
<1>1. Inputs(n)[k] \in ToSet(Inputs(n))
  BY <1>0, SignedInputs
<1>2. SignatureOf(Inputs(n)[k])' = SignatureOf(Inputs(n)[k])
  BY <1>1 DEF SignatureStays, SignatureOf
<1>3. CASE k = run[n].i
  BY <1>2, <1>3
<1>4. CASE k # run[n].i
  <2>1. k \in 1 .. run[n].i - 1
    BY <1>0, <1>4
  <2>2. run[n].sig[k] = SignatureOf(Inputs(n)[k])
    BY <1>0, <2>1 DEF SignsFresh
  <2> QED
    BY <1>2, <2>1, <2>2
<1> QED
  BY <1>3, <1>4

\* A frame that is at a new input or is done with them.
LEMMA SignedIsFresh ==
    ASSUME TypeOK, NEW n \in Graph, SignatureStays(n), SignsFresh(n), FramesOK',
           run[n].phase \in {"sign", "digest", "hash"},
           NEW e, Signs(n, run[n], run'[n], e),
           Inputs(n)[run[n].i] \in Outputs => e = SignatureOf(Inputs(n)[run[n].i])
    PROVE  SignsFresh(n)'
<1> DEFINE r == run[n]
           s == run'[n]
<1>1. /\ Len(s.sig) = r.i /\ s.sig[r.i] = e /\ \A k \in 1 .. r.i - 1 : s.sig[k] = r.sig[k]
      /\ s.step = "look" /\ s.phase \in {"sign", "compare"}
  BY DEF Signs, SignsNext
<1>2. Len(r.sig) = r.i - 1
  BY NodeIsSound DEF Sound, IndexOK
<1>3. DOMAIN s.sig = 1 .. r.i
  <2>1. Graph' = Graph
    BY SameGraph DEF SignatureStays
  <2>2. Sound(n, run[n])'
    BY <2>1 DEF FramesOK
  <2>3. IsSequence(s.sig)
    BY <2>2 DEF Sound, FrameOK, IsSequence
  <2> QED
    BY <1>1, <2>3, AppendToSequence
<1>4. \A k \in DOMAIN s.sig : (Inputs(n)[k] \in Outputs)' => s.sig[k] = SignatureOf(Inputs(n)[k])'
  BY <1>1, <1>2, <1>3, OneSignedMore DEF Signing
<1> QED
  BY <1>1, <1>4 DEF SignsFresh

\* An answer of the stat cache that is fresh.
LEMMA AnsweredIsFresh ==
    ASSUME TypeOK, NEW n \in Graph, SignatureStays(n), SignsFresh(n), FramesOK', AbsentIsEmpty,
           run[n].phase = "sign", NEW t, AnswersSign(n, run[n], run'[n], t),
           Inputs(n)[run[n].i] \in Outputs => Fresh(Inputs(n)[run[n].i], t)
    PROVE  SignsFresh(n)'
<1> DEFINE r == run[n]
           s == run'[n]
           f == Inputs(n)[r.i]
<1>0. f \in ToSet(Inputs(n))
  BY SignedInputs DEF Signing
<1>1. CASE f \in sc.digests /\ t # 0
  <2>1. /\ s.phase = "digest" /\ s.seen = t /\ s.i = r.i /\ s.sig = r.sig
    BY <1>1 DEF AnswersSign, Rest, FrameFields
  <2>2. \A k \in DOMAIN s.sig : (Inputs(n)[k] \in Outputs)' => s.sig[k] = SignatureOf(Inputs(n)[k])'
    BY <2>1, SameSignature DEF Signing
  <2>3. /\ (Inputs(n)[run[n].i])' = f /\ sc' = sc /\ Outputs' = Outputs
        /\ f \in Outputs => disk'[f] = disk[f]
    BY <1>0, <2>1 DEF SignatureStays
  <2>4. (Inputs(n)[run[n].i] \in sc.digests)' /\ s.seen # 0
    BY <1>1, <2>1, <2>3
  <2>5. (Inputs(n)[run[n].i] \in Outputs)' => Fresh(Inputs(n)[run[n].i], run[n].seen)'
    BY <2>1, <2>3 DEF Fresh, GetFileInfo
  <2> QED
    BY <2>1, <2>2, <2>4, <2>5 DEF SignsFresh
<1>2. CASE ~(f \in sc.digests /\ t # 0)
  <2> DEFINE e == IF f \in sc.digests THEN NoContent ELSE <<t>>
  <2>1. Signs(n, r, s, e)
    BY <1>2 DEF AnswersSign
  <2>2. f \in Outputs => e = SignatureOf(f)
    BY <1>2 DEF SignatureOf, AbsentIsEmpty, Fresh, GetFileInfo
  <2> HIDE DEF e
  <2> QED
    BY <2>1, <2>2, SignedIsFresh
<1> QED
  BY <1>1, <1>2

Acted == {"acting", "post", "mark", "marked", "validate"}

LEMMA KeepsSignature ==
    ASSUME TypeOK, NEW n \in Graph, NodeStep(n), run[n].phase \notin Signing
    PROVE  /\ run'[n].sig = run[n].sig /\ run'[n].phase \notin Signing
           /\ run[n].phase \in Acted => run'[n].phase \in Acted \cup {"finished"}
<1> DEFINE r == run[n]
           s == run'[n]
           Goal == /\ s.sig = r.sig /\ s.phase \notin Signing
                   /\ r.phase \in Acted => s.phase \in Acted \cup {"finished"}
<1>0. ASSUME s.sig = r.sig, s.phase = r.phase PROVE Goal
  BY <1>0
<1>1. ASSUME NEW t, Answers(n, r, s, t), r.phase \in {"outputs", "stamps", "mkdir", "validate"} PROVE Goal
  <2>1. CASE r.phase = "outputs"
    BY <1>1, <2>1 DEF Answers, GoesOn, Ends, FirstOfRun, Rest, FrameFields, Signing, Acted
  <2>2. CASE r.phase = "stamps"
    BY <1>1, <2>2 DEF Answers, AnswersStamp, Rest, FrameFields, Signing, Acted
  <2>3. CASE r.phase = "mkdir"
    BY <1>1, <2>3 DEF Answers, GoesOn, Rest, FrameFields, Signing, Acted
  <2>4. CASE r.phase = "validate"
    BY <1>1, <2>4 DEF Answers, AnswersValidate, Rest, FrameFields, Signing, Acted
  <2> QED
    BY <1>1, <2>1, <2>2, <2>3, <2>4
<1>2. CASE StatCacheStat(n)
  <2>1. Looks(n, r, s) /\ r.phase \in {"outputs", "stamps", "mkdir", "validate"}
    BY <1>2, StatCacheStatOutcome DEF StatCacheStat, InStat, Signing
  <2>2. CASE Rest(r, s, {"step", "known"})
    BY <1>0, <2>2 DEF Rest, FrameFields
  <2> QED
    BY <1>1, <2>1, <2>2 DEF Looks
<1>3. CASE StatTheFile(n)
  BY <1>0, <1>3, StatTheFileOutcome DEF Rest, FrameFields
<1>4. CASE StoreStat(n)
  BY <1>1, <1>4, StoreStatOutcome DEF StoreStat, InStat, Signing
<1>5. CASE MarkSourceDirty(n)
  BY <1>0, <1>5, MarkSourceDirtyOutcome DEF Rest, FrameFields
<1>6. CASE CheckInputSignature(n)
  BY <1>6, CheckInputSignatureOutcome DEF CheckInputSignature, GoesOn, Rest, FrameFields, Signing, Acted
<1>7. CASE CheckClock(n) \/ WaitUntilInThePast(n)
  BY <1>7, CheckClockOutcome, WaitUntilInThePastOutcome
     DEF CheckClock, WaitUntilInThePast, ChecksClock, GoesOn, Rest, FrameFields, Signing, Acted
<1>8. CASE RemoveOutput(n)
  BY <1>8, RemoveOutputOutcome DEF RemoveOutput, GoesOn, Rest, FrameFields, Signing, Acted
<1>9. CASE MarkRemoved(n)
  BY <1>9, MarkRemovedOutcome DEF MarkRemoved, GoesOn, Rest, FrameFields, Signing, Acted
<1>10. CASE MakeDirectory(n)
  BY <1>10, MakeDirectoryOutcome DEF MakeDirectory, GoesOn, Rest, FrameFields, Signing, Acted
<1>11. CASE MarkMade(n)
  BY <1>11, MarkMadeOutcome DEF MarkMade, GoesOn, Rest, FrameFields, Signing, Acted
<1>12. CASE TakePreTimestamp(n)
  BY <1>12, TakePreTimestampOutcome DEF TakePreTimestamp, Rest, FrameFields, Signing, Acted
<1>13. CASE BeginAction(n)
  BY <1>13, BeginActionOutcome DEF BeginAction, Rest, FrameFields, Signing, Acted
<1>14. CASE EndAction(n)
  BY <1>14, EndActionOutcome DEF EndAction, Rest, FrameFields, Signing, Acted
<1>15. CASE CheckWritten(n)
  <2>1. s.phase = "mark" /\ Rest(r, s, {"phase", "step", "i", "result"})
    BY <1>15, CheckWrittenOutcome
  <2> QED
    BY <2>1 DEF Rest, FrameFields, Signing, Acted
<1>16. CASE MarkDigestDirty(n)
  BY <1>16, MarkDigestDirtyOutcome DEF MarkDigestDirty, GoesOn, Rest, FrameFields, Signing, Acted
<1>17. CASE MarkStatDirty(n)
  <2>1. r.phase = "marked" /\ AfterMarking(n, r, s)
    BY <1>17, MarkStatDirtyOutcome DEF MarkStatDirty
  <2>2. s.phase \in {"finished", "validate"} /\ s.acted = r.acted /\ s.sig = r.sig /\ s.result = r.result /\ s.made = r.made
    BY <2>1 DEF AfterMarking, Rest, FrameFields
  <2> QED
    BY <2>1, <2>2 DEF Signing, Acted
<1>18. CASE GetDigest(n) \/ HashContent(n) \/ RememberDigest(n)
  BY <1>18 DEF GetDigest, HashContent, RememberDigest, Signing
<1> QED
  BY <1>2, <1>3, <1>4, <1>5, <1>6, <1>7, <1>8, <1>9, <1>10, <1>11, <1>12, <1>13, <1>14, <1>15, <1>16,
     <1>17, <1>18 DEF NodeStep

\* A generated input has a producer that is finished.
LEMMA ProducerOf ==
    ASSUME NEW n \in Graph, ProducersFirst(n), run[n].phase # "idle", NEW f \in ToSet(Inputs(n)), f \in Outputs
    PROVE  \E p \in Graph : f = Output(p) /\ run[p].phase = "finished"
BY DEF Outputs, ProducersFirst, Producers

LEMMA AskingIsFresh ==
    ASSUME TypeOK, NEW n \in Graph, NodeStep(n), ProducersFirst(n), SignsFresh(n), AbsentIsEmpty,
           run[n].phase = "sign", \A p \in Graph : OutputEntered(p)
    PROVE  SignsFresh(n)'
<1> DEFINE r == run[n]
           s == run'[n]
           f == Inputs(n)[r.i]
<1>1. /\ SignatureStays(n) /\ FramesOK' /\ f \in ToSet(Inputs(n)) /\ StatFile(n) = f /\ disk' = disk
      /\ f \in Files /\ statCache[f] \in Seq(EntryType)
  <2>1. SignatureStays(n) /\ FramesOK'
    BY NodeSignsTheSame, NodeFrames
  <2>2. f \in ToSet(Inputs(n))
    BY SignedInputs DEF Signing
  <2>3. StatFile(n) = f /\ f \in Files
    BY StatFileIsAFile
  <2> QED
    BY <2>1, <2>2, <2>3, AsksInSteps DEF TypeOK, StatOK
<1>2. CASE StatCacheStat(n)
  <2>1. Looks(n, r, s)
    BY <1>2, StatCacheStatOutcome
  <2>2. CASE /\ statCache[f] # <<>> /\ ~statCache[f][1].dirty
             /\ Answers(n, r, s, statCache[f][1].mtime)
    <3>1. f \in Outputs => Fresh(f, statCache[f][1].mtime)
      <4> SUFFICES ASSUME f \in Outputs PROVE Fresh(f, statCache[f][1].mtime)
        OBVIOUS
      <4>1. PICK p \in Graph : f = Output(p) /\ run[p].phase = "finished"
        BY <1>1, ProducerOf
      <4>2. 1 \in DOMAIN statCache[f]
        BY <1>1, <2>2
      <4> QED
        BY <2>2, <4>1, <4>2 DEF OutputEntered
    <3> QED
      BY <1>1, <2>2, <3>1, AnsweredIsFresh DEF Answers
  <2>3. CASE s.step = "info" /\ Rest(r, s, {"step", "known"})
    <3>1. s.phase = "sign" /\ s.sig = r.sig
      BY <2>3 DEF Rest, FrameFields
    <3>2. \A k \in DOMAIN s.sig : (Inputs(n)[k] \in Outputs)' => s.sig[k] = SignatureOf(Inputs(n)[k])'
      BY <1>1, <3>1, SameSignature DEF Signing
    <3> QED
      BY <2>3, <3>1, <3>2 DEF SignsFresh
  <2> QED
    BY <1>1, <2>1, <2>2, <2>3 DEF Looks
<1>3. CASE StatTheFile(n)
  <2>1. s.step = "store" /\ s.seen = GetFileInfo(f) /\ s.phase = "sign" /\ s.sig = r.sig /\ s.i = r.i
    BY <1>1, <1>3, StatTheFileOutcome DEF Rest, FrameFields
  <2>2. \A k \in DOMAIN s.sig : (Inputs(n)[k] \in Outputs)' => s.sig[k] = SignatureOf(Inputs(n)[k])'
    BY <1>1, <2>1, SameSignature DEF Signing
  <2>3. (Inputs(n)[run[n].i])' = f
    BY <1>1, <2>1 DEF SignatureStays
  <2>4. Fresh(Inputs(n)[run[n].i], run[n].seen)'
    BY <1>1, <2>1, <2>3 DEF Fresh, GetFileInfo
  <2> QED
    BY <2>1, <2>2, <2>4 DEF SignsFresh
<1>4. CASE StoreStat(n)
  <2>1. Answers(n, r, s, r.seen) /\ r.step = "store"
    BY <1>4, StoreStatOutcome DEF StoreStat, InStat
  <2>2. f \in Outputs => Fresh(f, r.seen)
    BY <2>1 DEF SignsFresh
  <2> QED
    BY <1>1, <2>1, <2>2, AnsweredIsFresh DEF Answers
<1> QED
  BY <1>2, <1>3, <1>4, AsksInSteps

LEMMA HashingIsFresh ==
    ASSUME TypeOK, NEW n \in Graph, NodeStep(n), ProducersFirst(n), SignsFresh(n), mode = "building",
           run[n].phase \in {"digest", "hash", "remember"}, \A p \in Graph : DigestsOfOutput(p)
    PROVE  SignsFresh(n)'
<1> DEFINE r == run[n]
           s == run'[n]
           f == Inputs(n)[r.i]
<1>1. /\ SignatureStays(n) /\ FramesOK' /\ f \in ToSet(Inputs(n))
      /\ f \in sc.digests /\ r.seen # 0
      /\ f \in Outputs => Fresh(f, r.seen)
  <2>1. SignatureStays(n) /\ FramesOK'
    BY NodeSignsTheSame, NodeFrames
  <2>2. f \in ToSet(Inputs(n))
    BY SignedInputs DEF Signing
  <2> QED
    BY <2>1, <2>2 DEF SignsFresh
<1>2. f \in Outputs => SignatureOf(f) = disk[f].content /\ Fresh(f, r.seen)
  BY <1>1 DEF SignatureOf
\* The frame stays at its input.
<1>3. ASSUME s.phase \in {"digest", "hash", "remember"}, s.i = r.i, s.seen = r.seen,
             \A k \in DOMAIN s.sig : (Inputs(n)[k] \in Outputs)' => s.sig[k] = SignatureOf(Inputs(n)[k])'
      PROVE  SignsFresh(n)'
  <2>1. /\ (Inputs(n)[run[n].i])' = f /\ sc' = sc /\ Outputs' = Outputs
        /\ f \in Outputs => disk'[f] = disk[f]
    BY <1>1, <1>3 DEF SignatureStays
  <2>2. (Inputs(n)[run[n].i] \in sc.digests)' /\ s.seen # 0
    BY <1>1, <1>3, <2>1
  <2>3. (Inputs(n)[run[n].i] \in Outputs)' => Fresh(Inputs(n)[run[n].i], run[n].seen)'
    BY <1>2, <1>3, <2>1 DEF Fresh, GetFileInfo
  <2> QED
    BY <1>3, <2>2, <2>3 DEF SignsFresh
<1>4. CASE GetDigest(n)
  <2>1. CASE DigestCacheHas(f, r.seen) /\ Signs(n, r, s, digestCache[f].content)
    <3>1. f \in Outputs => digestCache[f].content = SignatureOf(f)
      <4> SUFFICES ASSUME f \in Outputs PROVE digestCache[f].content = disk[f].content
        BY <1>2
      <4>1. PICK p \in Graph : f = Output(p) /\ run[p].phase = "finished"
        BY <1>1, ProducerOf
      <4>2. Believable(digestCache[f], f)
        BY <1>1, <4>1 DEF DigestsOfOutput
      <4> QED
        BY <1>1, <1>2, <2>1, <4>2 DEF Believable, DigestCacheHas, Fresh, GetFileInfo
    <3>2. r.phase = "digest"
      BY <1>4 DEF GetDigest
    <3> QED
      BY <1>1, <2>1, <3>1, <3>2, SignedIsFresh
  <2>2. CASE s.phase = "hash" /\ Rest(r, s, {"phase"})
    <3>1. s.sig = r.sig /\ s.i = r.i /\ s.seen = r.seen
      BY <2>2 DEF Rest, FrameFields
    <3> QED
      BY <1>1, <1>3, <2>2, <3>1, SameSignature DEF Signing
  <2> QED
    BY <1>4, <2>1, <2>2, GetDigestOutcome
<1>5. CASE HashContent(n)
  <2> DEFINE c == disk[f].content
  <2>1. \/ Signs(n, r, s, c)
        \/ Hashes(n, r, s, c)
    BY <1>5, HashContentOutcome
  <2>2. f \in Outputs => c = SignatureOf(f)
    BY <1>2
  <2>3. r.phase = "hash"
    BY <1>5 DEF HashContent
  <2> HIDE DEF c
  <2>4. CASE Signs(n, r, s, c)
    BY <1>1, <2>2, <2>3, <2>4, SignedIsFresh
  <2>5. CASE Hashes(n, r, s, c)
    <3>1. /\ s.phase = "remember" /\ Len(s.sig) = r.i /\ s.sig[r.i] = c /\ s.i = r.i /\ s.seen = r.seen
          /\ \A k \in 1 .. r.i - 1 : s.sig[k] = r.sig[k]
      BY <2>5 DEF Hashes, Rest, FrameFields
    <3>2. Len(r.sig) = r.i - 1
      BY <2>3, NodeIsSound DEF Sound, IndexOK
    <3>3. DOMAIN s.sig = 1 .. r.i
      <4>1. Graph' = Graph
        BY <1>1, SameGraph DEF SignatureStays
      <4>2. Sound(n, run[n])'
        BY <1>1, <4>1 DEF FramesOK
      <4>3. IsSequence(s.sig)
        BY <4>2 DEF Sound, FrameOK, IsSequence
      <4> QED
        BY <3>1, <4>3, AppendToSequence
    <3>4. \A k \in DOMAIN s.sig : (Inputs(n)[k] \in Outputs)' => s.sig[k] = SignatureOf(Inputs(n)[k])'
      BY <1>1, <2>2, <2>3, <3>1, <3>2, <3>3, OneSignedMore DEF Signing
    <3> QED
      BY <1>3, <3>1, <3>4
  <2> QED
    BY <2>1, <2>4, <2>5
<1>6. CASE RememberDigest(n)
  <2>1. /\ s.sig = r.sig /\ s.phase \in {"sign", "compare"} /\ s.step = "look"
    BY <1>6, RememberDigestOutcome DEF SignsNext, Rest, FrameFields
  <2>2. \A k \in DOMAIN s.sig : (Inputs(n)[k] \in Outputs)' => s.sig[k] = SignatureOf(Inputs(n)[k])'
    BY <1>1, <2>1, SameSignature DEF Signing
  <2> QED
    BY <2>1, <2>2 DEF SignsFresh
<1>7. GetDigest(n) \/ HashContent(n) \/ RememberDigest(n)
  BY MarkSourceDirtyOutcome DEF NodeStep, StatCacheStat, StatTheFile, StoreStat, InStat, CheckInputSignature,
     CheckClock, WaitUntilInThePast, RemoveOutput, MarkRemoved, MakeDirectory, MarkMade, TakePreTimestamp,
     BeginAction, EndAction, CheckWritten, MarkDigestDirty, MarkStatDirty
<1> QED
  BY <1>4, <1>5, <1>6, <1>7

LEMMA NodeSignsFresh ==
    ASSUME TypeOK, FreshInv, mode = "building", NEW n \in Graph, NEW q \in Graph, NodeStep(q)
    PROVE  SignsFresh(n)'
<1>0. ProducersFirst(n) /\ SignsFresh(n) /\ n \in Nodes
  BY NodeIsSound DEF FreshInv
<1>1. CASE n # q
  <2>1. run'[n] = run[n]
    BY <1>0, <1>1, NodeFrames
  <2>2. CASE run[n].phase = "idle"
    BY <2>1, <2>2 DEF SignsFresh, Signing, HasSigned
  <2>3. CASE run[n].phase # "idle"
    <3>1. SignatureStays(n)
      BY <1>0, <2>3, NodeSignsTheSame
    <3>2. run[n].phase \in Signing \cup HasSigned =>
            \A k \in DOMAIN run'[n].sig :
               (Inputs(n)[k] \in Outputs)' => run'[n].sig[k] = SignatureOf(Inputs(n)[k])'
      BY <1>0, <2>1, <3>1, SameSignature
    <3> DEFINE f == Inputs(n)[run[n].i]
    <3>3. run[n].phase \in Signing => f \in ToSet(Inputs(n))
      BY SignedInputs
    <3>4. (Inputs(n)[run[n].i])' = f /\ sc' = sc /\ Outputs' = Outputs
      BY <2>1, <3>1 DEF SignatureStays
    <3>5. run[n].phase \in Signing /\ f \in Outputs => Fresh(f, run[n].seen)' = Fresh(f, run[n].seen)
      BY <2>1, <3>1, <3>3, <3>4 DEF SignatureStays, Fresh, GetFileInfo
    <3> HIDE DEF f
    <3>6. /\ run'[n].phase = "sign" /\ run'[n].step = "store" /\ (Inputs(n)[run[n].i] \in Outputs)' =>
                Fresh(Inputs(n)[run[n].i], run[n].seen)'
          /\ run'[n].phase \in {"digest", "hash", "remember"} =>
                (Inputs(n)[run[n].i] \in sc.digests)' /\ run'[n].seen # 0
          /\ run'[n].phase \in {"digest", "hash", "remember"} /\ (Inputs(n)[run[n].i] \in Outputs)' =>
                Fresh(Inputs(n)[run[n].i], run[n].seen)'
      BY <1>0, <2>1, <3>4, <3>5 DEF SignsFresh, Signing, Fresh, GetFileInfo, f
    <3> QED
      BY <2>1, <3>2, <3>6 DEF SignsFresh
  <2> QED
    BY <2>2, <2>3
<1>2. CASE n = q
  <2>0. run[n].phase \notin {"idle", "finished"} /\ run[n].phase \in Phases
    BY <1>2, NodeStepOfActive, NodeIsSound DEF FrameOK
  <2>1. CASE run[n].phase = "sign"
    BY <1>0, <1>2, <2>1, AskingIsFresh DEF FreshInv
  <2>2. CASE run[n].phase \in {"digest", "hash", "remember"}
    BY <1>0, <1>2, <2>2, HashingIsFresh DEF FreshInv
  <2>3. CASE run[n].phase \in HasSigned
    <3>1. run'[n].sig = run[n].sig /\ run'[n].phase \notin Signing
      BY <1>2, <2>3, KeepsSignature DEF Signing, HasSigned
    <3>2. SignatureStays(n)
      BY <1>0, <1>2, <2>0, NodeSignsTheSame
    <3>3. \A k \in DOMAIN run'[n].sig : (Inputs(n)[k] \in Outputs)' => run'[n].sig[k] = SignatureOf(Inputs(n)[k])'
      BY <1>0, <2>3, <3>1, <3>2, SameSignature
    <3> QED
      BY <3>1, <3>3 DEF SignsFresh, Signing
  <2>4. CASE run[n].phase \in Acted
    <3>1. run'[n].phase \in Acted \cup {"finished"}
      BY <1>2, <2>4, KeepsSignature DEF Acted, Signing
    <3> QED
      BY <3>1 DEF SignsFresh, Acted, Signing, HasSigned
  <2> QED
    BY <2>0, <2>1, <2>2, <2>3, <2>4 DEF Phases, HasSigned, Acted
<1> QED
  BY <1>1, <1>2

---------------------------------------------------------------------------
(* The digests of outputs *)

\* The digest under which an output is remembered is that of its content.
LEMMA RememberedIsBelievable ==
    ASSUME TypeOK, FreshInv, mode = "building", NEW n \in Graph, run[n].phase = "remember", NodeStep(n),
           NEW p \in Graph, Inputs(n)[run[n].i] = Output(p),
           digestCache'[Output(p)] = [content |-> Last(run[n].sig), mtime |-> run[n].seen, dirty |-> FALSE]
    PROVE  Believable(digestCache'[Output(p)], Output(p)) /\ run[p].phase = "finished"
           /\ disk'[Output(p)] = disk[Output(p)]
<1> DEFINE r == run[n]
           f == Output(p)
<1>1. ProducersFirst(n) /\ SignsFresh(n) /\ f \in Outputs
  BY GraphFacts DEF FreshInv, TypeOK
<1>2. f \in ToSet(Inputs(n)) /\ r.i \in 1 .. Len(Inputs(n)) /\ DOMAIN r.sig = 1 .. Len(r.sig)
  BY SignedInputs DEF Signing
<1>3. Len(r.sig) = r.i /\ IsSequence(r.sig)
  BY NodeIsSound DEF Sound, IndexOK, FrameOK
<1>4. Last(r.sig) = r.sig[r.i] /\ r.i \in DOMAIN r.sig
  <2>1. r.i \in Nat \ {0}
    BY NodeIsSound DEF FrameOK
  <2> QED
    BY <1>2, <1>3, <2>1 DEF Last
<1>5. f \in sc.digests /\ Last(r.sig) = disk[f].content /\ r.seen = disk[f].mtime
  BY <1>1, <1>4 DEF SignsFresh, SignatureOf, Fresh, GetFileInfo, Signing
<1>6. run[p].phase = "finished" /\ disk'[f] = disk[f]
  <2>1. \E o \in Graph : f = Output(o) /\ run[o].phase = "finished"
    BY <1>1, <1>2, ProducerOf
  <2>2. run[p].phase = "finished"
    BY <2>1, GraphFacts DEF TypeOK
  <2> QED
    BY <1>1, <1>2, <2>2, InputsStay
<1> QED
  BY <1>5, <1>6 DEF Believable

LEMMA NodeStepIsBelievable ==
    ASSUME TypeOK, FreshInv, mode = "building", NEW n \in Graph, NodeStep(n), NEW p \in Graph
    PROVE  DigestsOfOutput(p)'
<1> DEFINE f == Output(p)
           AtWork == {"acting", "post", "mark"}
<1>1. /\ DiskStep(n) /\ DigestStep(n) /\ mode' = "building"
      /\ sc' = sc /\ Output(p)' = f /\ f \in Files /\ f # Dir
      /\ DigestsOfOutput(p) /\ (Output(n) = f => n = p)
  <2>1. Surroundings /\ DiskStep(n) /\ DigestStep(n)
    BY NodeEffects DEF NodeEffect
  <2>2. f \in Files /\ f # Dir /\ (Output(n) = f => n = p)
    BY GraphFacts DEF TypeOK
  <2> QED
    BY <2>1, <2>2, SameGraph DEF Surroundings, FreshInv
<1>2. ASSUME Believable(digestCache[f], f), digestCache'[f] = digestCache[f],
             disk'[f] = disk[f] \/ disk'[f] = Absent
      PROVE  Believable(digestCache[Output(p)], Output(p))'
  <2>1. CASE disk'[f] = disk[f]
    BY <1>1, <1>2, <2>1 DEF Believable
  <2>2. CASE disk'[f] = Absent
    BY <1>1, <2>2 DEF Believable, Absent
  <2> QED
    BY <1>2, <2>1, <2>2
<1> SUFFICES ASSUME f \in sc.digests, run'[p].phase \notin AtWork
             PROVE  Believable(digestCache[Output(p)], Output(p))'
  BY <1>1 DEF DigestsOfOutput
<1>3. CASE n # p
  <2>1. run'[p] = run[p] /\ disk'[f] = disk[f]
    BY <1>1, <1>3, NodeFrames, NodeIsSound, OutputsOfOthers
  <2>2. Believable(digestCache[f], f)
    BY <1>1, <2>1 DEF DigestsOfOutput
  <2>3. CASE digestCache'[f] = digestCache[f]
    BY <1>1, <1>2, <2>1, <2>2, <2>3 DEF Believable
  <2>4. CASE digestCache'[f] # digestCache[f]
    <3>1. /\ run[n].phase = "remember" /\ Inputs(n)[run[n].i] = f
          /\ digestCache'[f] = [content |-> Last(run[n].sig), mtime |-> run[n].seen, dirty |-> FALSE]
      BY <1>1, <1>3, <2>4 DEF DigestStep
    <3>2. Believable(digestCache'[f], f)
      BY <3>1, RememberedIsBelievable
    <3> QED
      BY <1>1, <2>1, <3>2 DEF Believable
  <2> QED
    BY <2>3, <2>4
<1>4. CASE n = p
  <2>0. run[n].phase \notin {"idle", "finished"}
    BY NodeStepOfActive
  <2>1. CASE run[p].phase \in AtWork
    <3>1. MarkDigestDirty(p)
      <4>1. EndAction(p) \/ CheckWritten(p) \/ MarkDigestDirty(p)
        BY <1>4, <2>1, MarkSourceDirtyOutcome DEF NodeStep, StatCacheStat, StatTheFile, StoreStat, InStat,
           GetDigest, HashContent, RememberDigest, CheckInputSignature, CheckClock, WaitUntilInThePast,
           RemoveOutput, MarkRemoved, MakeDirectory, MarkMade, TakePreTimestamp, BeginAction, MarkStatDirty
      <4> QED
        BY <4>1, EndActionOutcome, CheckWrittenOutcome
    <3>2. digestCache' = [digestCache EXCEPT ![f].dirty = TRUE]
      BY <3>1 DEF MarkDigestDirty, DigestCacheMarkDirty
    <3>3. digestCache'[f].dirty
      <4> DEFINE d == digestCache[f]
                 e == [d EXCEPT !.dirty = TRUE]
      <4>1. digestCache'[f] = e
        BY <1>1, <3>2 DEF TypeOK, DigestOK
      <4>2. d = [content |-> d.content, mtime |-> d.mtime, dirty |-> d.dirty]
        BY <1>1 DEF TypeOK, DigestOK, RecordOK
      <4> HIDE DEF d
      <4>3. e.dirty
        BY <4>2
      <4> QED
        BY <4>1, <4>3
    <3> QED
      BY <1>1, <3>3 DEF Believable
  <2>2. CASE run[p].phase \notin AtWork
    <3>1. Believable(digestCache[f], f)
      BY <1>1, <2>2 DEF DigestsOfOutput
    <3>2. digestCache'[f] = digestCache[f]
      <4> SUFFICES ASSUME digestCache'[f] # digestCache[f] PROVE FALSE
        OBVIOUS
      <4>1. /\ run[n].phase = "remember" /\ Inputs(n)[run[n].i] = f
            /\ digestCache'[f] = [content |-> Last(run[n].sig), mtime |-> run[n].seen, dirty |-> FALSE]
        BY <1>1, <1>4, <2>2 DEF DigestStep
      <4>2. run[p].phase = "finished"
        BY <4>1, RememberedIsBelievable
      <4> QED
        BY <1>4, <2>0, <4>2
    <3>3. disk'[f] = disk[f] \/ disk'[f] = Absent
      <4>1. run[p].phase # "act"
        <5> SUFFICES ASSUME run[p].phase = "act" PROVE FALSE
          OBVIOUS
        <5>1. BeginAction(p)
          BY <1>4, MarkSourceDirtyOutcome DEF NodeStep, StatCacheStat, StatTheFile, StoreStat, InStat,
             GetDigest, HashContent, RememberDigest, CheckInputSignature, CheckClock, WaitUntilInThePast,
             RemoveOutput, MarkRemoved, MakeDirectory, MarkMade, TakePreTimestamp, EndAction, CheckWritten,
             MarkDigestDirty, MarkStatDirty
        <5> QED
          BY <5>1, BeginActionOutcome
      <4> QED
        BY <1>1, <1>4, <2>2, <4>1 DEF DiskStep
    <3> QED
      BY <1>1, <1>2, <3>1, <3>2, <3>3 DEF Believable
  <2> QED
    BY <2>1, <2>2
<1> QED
  BY <1>3, <1>4

LEMMA AbsentStaysEmpty ==
    ASSUME TypeOK, AbsentIsEmpty, NEW n \in Graph, NodeStep(n)
    PROVE  AbsentIsEmpty'
<1>1. DiskStep(n) /\ Outputs' = Outputs
  BY NodeEffects, SameGraph DEF NodeEffect, Surroundings
<1> SUFFICES ASSUME NEW p \in Graph, disk'[Output(p)].mtime = 0 PROVE disk'[Output(p)].content = NoContent
  BY <1>1 DEF AbsentIsEmpty, Outputs
<1>2. Output(p) \in Files \ {Dir} /\ Output(p) \in Outputs
  BY GraphFacts DEF TypeOK
<1> QED
  BY <1>1, <1>2 DEF DiskStep, AbsentIsEmpty

\* Where builds are killed, outputs are not known by their digests: a build that is
\* killed does not save its dirty marks, and the record of an output that was deleted
\* and written again within one tick is then believed for what it no longer holds.
KillsLoseNoDigest == sc.kills = 0 \/ sc.digests \cap Outputs = {}

\* What a step outside the nodes leaves alone.
LEMMA FreshElsewhere ==
    ASSUME FreshInv, mode = "building", scenario' = scenario, UNCHANGED <<run, statCache, digestCache, mode>>,
           \A f \in Outputs : disk'[f] = disk[f]
    PROVE  FreshInv'
<1>1. /\ sc' = sc /\ Graph' = Graph /\ Outputs' = Outputs
      /\ \A n : Inputs(n)' = Inputs(n) /\ Output(n)' = Output(n)
      /\ \A n : Producers(n)' = Producers(n)
  BY SameGraph
<1>2. \A n \in Graph : Output(n) \in Outputs
  BY DEF Outputs
<1>3. AbsentIsEmpty'
  BY <1>1 DEF FreshInv, AbsentIsEmpty
<1>4. ASSUME NEW n \in Graph PROVE OutputEntered(n)' /\ ProducersFirst(n)' /\ SignsFresh(n)' /\ DigestsOfOutput(n)'
  <2>1. OutputEntered(n)'
    BY <1>1, <1>2 DEF FreshInv, OutputEntered, Fresh, GetFileInfo
  <2>2. ProducersFirst(n)'
    BY <1>1 DEF FreshInv, ProducersFirst
  <2>3. SignsFresh(n)'
    <3>1. \A f \in Outputs : SignatureOf(f)' = SignatureOf(f) /\ GetFileInfo(f)' = GetFileInfo(f)
      BY <1>1 DEF SignatureOf, GetFileInfo
    <3> QED
      BY <1>1, <3>1 DEF FreshInv, SignsFresh, Fresh
  <2>4. DigestsOfOutput(n)'
    BY <1>1, <1>2 DEF FreshInv, DigestsOfOutput, Believable
  <2> QED
    BY <2>1, <2>2, <2>3, <2>4
<1> QED
  BY <1>1, <1>3, <1>4 DEF FreshInv

LEMMA NodeStepIsFresh ==
    ASSUME TypeOK, FreshInv, mode = "building", NEW q \in Graph, NodeStep(q)
    PROVE  FreshInv'
<1>1. Graph' = Graph
  BY NodeStepIsInBuild, SameGraph DEF Surroundings
<1>2. AbsentIsEmpty'
  BY AbsentStaysEmpty DEF FreshInv
<1>3. ASSUME NEW n \in Graph PROVE OutputEntered(n)' /\ ProducersFirst(n)' /\ SignsFresh(n)' /\ DigestsOfOutput(n)'
  <2>1. OutputEntered(n) /\ ProducersFirst(n) /\ ProducersFirst(q) /\ SignsFresh(q)
    BY DEF FreshInv
  <2>2. OutputEntered(n)'
    <3>1. CASE n = q
      BY <2>1, <3>1, OwnOutputEntered
    <3>2. CASE n # q
      BY <2>1, <3>2, OutputEnteredElsewhere
    <3> QED
      BY <3>1, <3>2
  <2> QED
    BY <2>1, <2>2, ProducersStayFirst, NodeSignsFresh, NodeStepIsBelievable
<1> QED
  BY <1>1, <1>2, <1>3 DEF FreshInv

LEMMA StartedIsFresh ==
    ASSUME TypeOK, FreshInv, NEW q \in Graph, StartNode(q)
    PROVE  FreshInv'
<1>1. /\ mode = "building" /\ UNCHANGED <<disk, statCache, digestCache, mode, scenario>>
      /\ run[q].phase = "idle" /\ \A p \in Producers(q) : run[p].phase = "finished"
  BY DEF StartNode, caches, scenarioVars
<1>2. /\ sc' = sc /\ Graph' = Graph /\ Outputs' = Outputs
      /\ \A n : Inputs(n)' = Inputs(n) /\ Output(n)' = Output(n)
      /\ \A n : Producers(n)' = Producers(n)
  BY <1>1, SameGraph
<1>3. /\ \A m \in Graph \ {q} : run'[m] = run[m]
      /\ \/ run'[q].phase \in {"sign", "compare"} /\ run'[q].step = "look"
         \/ run'[q].phase = "finished"
      /\ run'[q].sig = <<>>
  <2>1. \A m \in Graph \ {q} : run'[m] = run[m]
    BY StartNodeOutcome, GraphFacts DEF TypeOK
  <2>2. run[q].sig = <<>>
    BY <1>1, NodeIsSound DEF Sound, IndexOK
  <2>3. GoesOn(run[q], run'[q], FirstOfNode(q)) \/ Ends(run[q], run'[q], "kDidNotRun")
    BY StartNodeOutcome
  <2> QED
    BY <2>1, <2>2, <2>3 DEF GoesOn, Ends, Rest, FrameFields, FirstOfNode
<1>4. AbsentIsEmpty'
  BY <1>1, <1>2 DEF FreshInv, AbsentIsEmpty
<1>5. ASSUME NEW n \in Graph PROVE OutputEntered(n)' /\ ProducersFirst(n)' /\ SignsFresh(n)' /\ DigestsOfOutput(n)'
  <2>0. OutputEntered(n) /\ ProducersFirst(n) /\ SignsFresh(n) /\ DigestsOfOutput(n)
    BY <1>1 DEF FreshInv
  <2>1. OutputEntered(n)'
    <3>1. CASE n = q
      <4>1. statCache[Output(n)] = <<>>
        BY <1>1, <2>0, <3>1 DEF OutputEntered, NotLooked
      <4>2. statCache'[Output(n)] = <<>> /\ Len(statCache'[Output(n)]) = 0 /\ DOMAIN statCache'[Output(n)] = {}
        BY <1>1, <4>1, EmptyIsASequence
      <4> QED
        BY <1>2, <1>3, <3>1, <4>2 DEF OutputEntered
    <3>2. CASE n # q
      BY <1>1, <1>2, <1>3, <2>0, <3>2 DEF OutputEntered, Fresh, GetFileInfo
    <3> QED
      BY <3>1, <3>2
  <2>2. ProducersFirst(n)'
    <3> SUFFICES ASSUME run'[n].phase # "idle", NEW p \in Producers(n) PROVE run'[p].phase = "finished"
      BY <1>2 DEF ProducersFirst
    <3>1. p \in Graph /\ run[p].phase = "finished"
      BY <1>1, <1>3, <2>0 DEF ProducersFirst, Producers
    <3> QED
      BY <1>1, <1>3, <3>1
  <2>3. SignsFresh(n)'
    <3>1. CASE n = q
      <4>1. DOMAIN run'[n].sig = {}
        BY <1>3, <3>1
      <4> QED
        BY <1>3, <3>1, <4>1 DEF SignsFresh
    <3>2. CASE n # q
      <4>1. \A f : SignatureOf(f)' = SignatureOf(f) /\ GetFileInfo(f)' = GetFileInfo(f)
        BY <1>1, <1>2 DEF SignatureOf, GetFileInfo
      <4> QED
        BY <1>2, <1>3, <2>0, <3>2, <4>1 DEF SignsFresh, Fresh
    <3> QED
      BY <3>1, <3>2
  <2>4. DigestsOfOutput(n)'
    <3>1. run'[n].phase \notin {"acting", "post", "mark"} => run[n].phase \notin {"acting", "post", "mark"}
      BY <1>1, <1>3
    <3> QED
      BY <1>1, <1>2, <2>0, <3>1 DEF DigestsOfOutput, Believable
  <2> QED
    BY <2>1, <2>2, <2>3, <2>4
<1> QED
  BY <1>1, <1>2, <1>4, <1>5 DEF FreshInv

LEMMA StartBuildIsFresh == TypeOK /\ FreshInv /\ StartBuild => FreshInv'
<1> SUFFICES ASSUME TypeOK, FreshInv, StartBuild PROVE FreshInv'
  OBVIOUS
<1>1. /\ mode = "between" /\ mode' = "building" /\ disk' = disk /\ digestCache' = savedDigests
      /\ scenario' = scenario
  BY DEF StartBuild
<1>2. /\ sc' = sc /\ Graph' = Graph /\ Outputs' = Outputs
      /\ \A n : Inputs(n)' = Inputs(n) /\ Output(n)' = Output(n)
  BY <1>1, SameGraph
<1>3. AbsentIsEmpty'
  BY <1>1, <1>2 DEF FreshInv, AbsentIsEmpty
<1>4. ASSUME NEW n \in Graph PROVE OutputEntered(n)' /\ ProducersFirst(n)' /\ SignsFresh(n)' /\ DigestsOfOutput(n)'
  <2>1. run'[n] = Frame /\ statCache'[Output(n)] = <<>>
    BY GraphFacts DEF StartBuild, TypeOK
  <2>2. run'[n].phase = "idle" /\ Len(statCache'[Output(n)]) = 0
    BY <2>1, EmptyIsASequence DEF Frame
  <2>3. DigestsOfOutput(n)'
    BY <1>1, <1>2 DEF FreshInv, DigestsOfOutput, Believable
  <2>4. OutputEntered(n)'
    BY <1>2, <2>1, <2>2 DEF OutputEntered
  <2>5. ProducersFirst(n)' /\ SignsFresh(n)'
    BY <2>2 DEF ProducersFirst, SignsFresh, Signing, HasSigned
  <2> QED
    BY <2>3, <2>4, <2>5
<1> QED
  BY <1>2, <1>3, <1>4 DEF FreshInv

\* Outside a build only the digests on disk matter.
LEMMA BetweenIsFresh ==
    ASSUME FreshInv, scenario' = scenario, mode' # "building",
           \A f \in Outputs : disk'[f] = disk[f] \/ disk'[f] = Absent,
           \A p \in Graph : Output(p) \in sc.digests =>
               /\ mode' = "saved" => run'[p].phase = "finished" /\ Believable(digestCache[Output(p)], Output(p))'
               /\ mode' = "between" => Believable(savedDigests[Output(p)], Output(p))'
    PROVE  FreshInv'
<1>1. /\ sc' = sc /\ Graph' = Graph /\ Outputs' = Outputs
      /\ \A n : Output(n)' = Output(n)
  BY SameGraph
<1>2. AbsentIsEmpty'
  BY <1>1 DEF FreshInv, AbsentIsEmpty, Absent
<1>3. \A p \in Graph : DigestsOfOutput(p)'
  BY <1>1 DEF DigestsOfOutput
<1> QED
  BY <1>1, <1>2, <1>3 DEF FreshInv

LEMMA NextIsFresh == KillsLoseNoDigest /\ TypeOK /\ FreshInv /\ [Next]_vars => FreshInv'
<1> SUFFICES ASSUME KillsLoseNoDigest, TypeOK, FreshInv, [Next]_vars PROVE FreshInv'
  OBVIOUS
<1>0. \A p \in Graph : Output(p) \in Outputs /\ Output(p) \in Files
  BY GraphFacts DEF TypeOK
<1>1. CASE UNCHANGED vars
  <2>1. CASE mode = "building"
    BY <1>1, <2>1, FreshElsewhere DEF vars, caches
  <2>2. CASE mode # "building"
    <3>1. UNCHANGED <<disk, digestCache, savedDigests, run, scenario, mode>>
      BY <1>1 DEF vars, caches, persistent
    <3>2. \A p \in Graph : Output(p)' = Output(p)
      BY <3>1, SameGraph
    <3>3. \A p \in Graph : Output(p) \in sc.digests =>
              /\ mode = "saved" => run[p].phase = "finished" /\ Believable(digestCache[Output(p)], Output(p))
              /\ mode = "between" => Believable(savedDigests[Output(p)], Output(p))
      BY DEF FreshInv, DigestsOfOutput
    <3>4. \A p \in Graph : Output(p) \in sc.digests =>
              /\ mode' = "saved" => run'[p].phase = "finished" /\ Believable(digestCache[Output(p)], Output(p))'
              /\ mode' = "between" => Believable(savedDigests[Output(p)], Output(p))'
      BY <3>1, <3>2, <3>3 DEF Believable
    <3> QED
      BY <2>2, <3>1, <3>4, BetweenIsFresh
  <2> QED
    BY <2>1, <2>2
<1>2. ASSUME NEW n \in Graph, mode = "building" /\ NodeStep(n) PROVE FreshInv'
  BY <1>2, NodeStepIsFresh
<1>3. ASSUME NEW n \in Graph, StartNode(n) PROVE FreshInv'
  BY <1>3, StartedIsFresh
<1>4. CASE SaveAllBuiltNodes
  <2>1. /\ mode = "building" /\ mode' = "saved" /\ UNCHANGED <<disk, digestCache, run, scenario>>
        /\ \A n \in Graph : run[n].phase = "finished"
    BY <1>4 DEF SaveAllBuiltNodes, caches, scenarioVars
  <2>2. \A p \in Graph : Output(p)' = Output(p)
    BY <2>1, SameGraph
  <2>3. \A p \in Graph : Output(p) \in sc.digests => Believable(digestCache[Output(p)], Output(p))
    BY <2>1 DEF FreshInv, DigestsOfOutput
  <2>4. \A p \in Graph : Output(p) \in sc.digests => Believable(digestCache[Output(p)], Output(p))'
    BY <2>1, <2>2, <2>3 DEF Believable
  <2> QED
    BY <2>1, <2>4, BetweenIsFresh
<1>5. CASE SaveDigestCache
  <2>1. /\ mode = "saved" /\ mode' = "between" /\ disk' = disk /\ scenario' = scenario
        /\ savedDigests' = DigestCacheSaved
    BY <1>5 DEF SaveDigestCache, scenarioVars
  <2>2. ASSUME NEW p \in Graph, Output(p) \in sc.digests PROVE Believable(savedDigests[Output(p)], Output(p))'
    <3> DEFINE f == Output(p)
    <3>1. Believable(digestCache[f], f)
      BY <2>1, <2>2 DEF FreshInv, DigestsOfOutput
    <3>2. savedDigests'[f] = IF digestCache[f].dirty THEN NoDigest ELSE digestCache[f]
      BY <1>0, <2>1 DEF DigestCacheSaved, TypeOK, DigestOK
    <3>3. Output(p)' = f
      BY <2>1, SameGraph
    <3> QED
      BY <2>1, <3>1, <3>2, <3>3 DEF Believable, NoDigest
  <2> QED
    BY <2>1, <2>2, BetweenIsFresh
<1>6. CASE StartBuild
  BY <1>6, StartBuildIsFresh
<1>7. CASE Kill
  <2>1. scenario' = scenario /\ mode' = "between" /\ disk' = disk /\ kills < sc.kills /\ kills \in Nat
    BY <1>7 DEF Kill, TypeOK, TimesOK
  <2>2. sc.digests \cap Outputs = {}
    BY <2>1 DEF KillsLoseNoDigest, TypeOK
  <2> QED
    BY <1>0, <2>1, <2>2, BetweenIsFresh
<1>8. ASSUME UNCHANGED <<statCache, digestCache, savedDigests, run, mode, scenario>>,
             \A f \in Outputs : disk'[f] = disk[f]
      PROVE  FreshInv'
  <2>1. CASE mode = "building"
    BY <1>8, <2>1, FreshElsewhere
  <2>2. CASE mode # "building"
    <3>1. \A p \in Graph : Output(p)' = Output(p)
      BY <1>8, SameGraph
    <3> QED
      BY <1>0, <1>8, <2>2, <3>1, BetweenIsFresh DEF FreshInv, DigestsOfOutput, Believable, TypeOK
  <2> QED
    BY <2>1, <2>2
<1>9. CASE Tick
  BY <1>8, <1>9 DEF Tick, caches, persistent, scenarioVars
<1>10. ASSUME NEW f \in Files, UserEdits(f) PROVE FreshInv'
  <2>1. UNCHANGED <<statCache, digestCache, savedDigests, run, mode, scenario>> /\ f \notin Outputs
    BY <1>10 DEF UserEdits, caches, persistent
  <2>2. PICK d : disk' = [disk EXCEPT ![f] = d]
    BY <1>10 DEF UserEdits
  <2>3. \A g \in Outputs : g \in Files
    BY <1>0 DEF Outputs
  <2>4. \A g \in Outputs : disk'[g] = disk[g]
    BY <2>1, <2>2, <2>3 DEF TypeOK, DiskOK
  <2> QED
    BY <1>8, <2>1, <2>4
<1>11. CASE UserDeletes
  <2>1. mode = "between" /\ UNCHANGED <<savedDigests, run, mode, scenario>>
    BY <1>11 DEF UserDeletes, persistent
  <2>2. PICK gone : disk' = [f \in Files |-> IF f \in gone THEN Absent ELSE disk[f]]
    BY <1>11 DEF UserDeletes
  <2>3. \A f \in Outputs : disk'[f] = disk[f] \/ disk'[f] = Absent
    BY <1>0, <2>2 DEF Outputs
  <2>4. ASSUME NEW p \in Graph, Output(p) \in sc.digests PROVE Believable(savedDigests[Output(p)], Output(p))'
    <3> DEFINE f == Output(p)
    <3>1. Believable(savedDigests[f], f)
      BY <2>1, <2>4 DEF FreshInv, DigestsOfOutput
    <3>2. Output(p)' = f /\ savedDigests' = savedDigests
      BY <2>1, SameGraph
    <3>3. disk'[f] = disk[f] \/ disk'[f].mtime = 0
      BY <1>0, <2>3 DEF Absent
    <3> QED
      BY <3>1, <3>2, <3>3 DEF Believable
  <2> QED
    BY <2>1, <2>3, <2>4, BetweenIsFresh
<1> QED
  BY <1>1, <1>2, <1>3, <1>4, <1>5, <1>6, <1>7, <1>9, <1>10, <1>11 DEF Next, Build, User

LEMMA InitIsFresh == Init => FreshInv
<1> SUFFICES ASSUME Init PROVE FreshInv
  OBVIOUS
<1>1. AbsentIsEmpty
  <2> SUFFICES ASSUME NEW f \in Outputs PROVE disk[f] = Absent
    BY DEF AbsentIsEmpty, Absent
  <2>1. f \in Files
    BY GraphFacts DEF Init, Outputs
  <2> QED
    BY <2>1 DEF Init
<1>2. \A p \in Graph : DigestsOfOutput(p)
  BY GraphFacts DEF Init, DigestsOfOutput, Believable, NoDigest
<1> QED
  BY <1>1, <1>2 DEF Init, FreshInv

LEMMA ScenarioStays ==
    ASSUME [Next]_vars
    PROVE  scenario' = scenario
BY NodeStepIsInBuild DEF Next, Build, User, StartNode, SaveAllBuiltNodes, SaveDigestCache, StartBuild, Kill,
   Tick, UserEdits, UserDeletes, vars, scenarioVars, Surroundings

\* No cache of a build outlives the writing of a file: what a node has signed of
\* a generated file is what is in it, and the record of its digest is believed
\* only for that content.  Where digests of outputs are taken, no build is killed:
\* a kill between the action and DigestCacheMarkDirty loses the mark.
THEOREM CachesAreFresh ==
    Spec => [](TypeOK /\ (KillsLoseNoDigest => FreshInv))
<1>1. [Next]_vars => (KillsLoseNoDigest' => KillsLoseNoDigest)
  BY ScenarioStays, SameGraph DEF KillsLoseNoDigest
<1>2. TypeOK /\ KillsLoseNoDigest /\ FreshInv /\ [Next]_vars => FreshInv'
  BY NextIsFresh
<1> QED
  BY <1>1, <1>2, InitIsTypeOK, NextIsTypeOK, InitIsFresh, PTL DEF Spec

\* GeneratedInputsAreFresh, for all graphs, workers and users.
THEOREM SignedInputsAreFresh ==
    Spec => [](KillsLoseNoDigest => GeneratedInputsAreFresh)
<1>1. TypeOK /\ FreshInv => GeneratedInputsAreFresh
  <2> SUFFICES ASSUME TypeOK, FreshInv, NEW n \in Graph, mode = "building", run[n].phase = "act",
                      NEW k \in DOMAIN Inputs(n), Inputs(n)[k] \in Outputs
               PROVE  run[n].sig[k] = SignatureOf(Inputs(n)[k])
    BY DEF GeneratedInputsAreFresh, SignatureOf
  <2>1. IsNode(n) /\ Len(run[n].sig) = Len(Inputs(n)) /\ IsSequence(run[n].sig)
    BY NodeIsSound DEF Sound, IndexOK, FrameOK, HasSigned
  <2>2. k \in DOMAIN run[n].sig
    <3>1. DOMAIN Inputs(n) = 1 .. Len(Inputs(n))
      BY InputFacts DEF TypeOK
    <3>2. DOMAIN run[n].sig = 1 .. Len(run[n].sig)
      BY SignedInputs DEF HasSigned
    <3> QED
      BY <2>1, <3>1, <3>2
  <2>3. SignsFresh(n)
    BY DEF FreshInv
  <2> QED
    BY <2>2, <2>3 DEF SignsFresh, HasSigned
<1> QED
  BY <1>1, CachesAreFresh, PTL


---------------------------------------------------------------------------
(* Whether a build that was started from an old state leaves what a build  *)
(* from nothing leaves                                                     *)

IsSource(f) == f \in Files \ (Outputs \cup {Dir})
Now(f) == <<disk[f].mtime>>
Contents(n) == [k \in DOMAIN Inputs(n) |-> disk[Inputs(n)[k]].content]
Exists(n) == disk[Output(n)].mtime # 0
Good(n) == built[n].result = "guaranteed"
Running == mode \in {"building", "saved"}

\* An entry of a signature that is a time.
Dated(e) == e = <<e[1]>> /\ e[1] \in Nat

\* As long as the inputs are dated as signed, content is what they make.
SameTimes(n, sig) == \A k \in DOMAIN Inputs(n) : sig[k] = Now(Inputs(n)[k])
Tells(n, sig, content) == SameTimes(n, sig) => content = Made(Contents(n))

\* A record that is good has times in the past: those of the sources are before
\* now, those of the producers' outputs no later than the output made of them.
RecordDated(n) == Good(n) =>
    LET sig == built[n].sig IN
    /\ Len(sig) = Len(Inputs(n))
    /\ \A k \in DOMAIN Inputs(n) :
        /\ Dated(sig[k])
        /\ Inputs(n)[k] \notin Outputs => sig[k][1] < clock
        /\ Inputs(n)[k] \in Outputs =>
            /\ sig[k][1] \in 1 .. clock
            /\ Exists(n) => sig[k][1] <= disk[Output(n)].mtime
            /\ mode = "building" /\ run[n].phase = "idle" /\ Exists(n) => sig[k][1] < clock

\* There is half an output, which the running build knows of.
Spoiled(n) ==
    Running /\ (run[n].acted = "fails" \/ (run[n].phase = "acting" /\ run[n].acted # "silent"))
RecordTrue(n) ==
    /\ Good(n) /\ Exists(n) /\ n \notin torn /\ ~Spoiled(n) => Tells(n, built[n].sig, disk[Output(n)].content)
    /\ mode = "saved" /\ run[n].acted = "fails" => ~Good(n)

\* A source was edited in this build and is dated later than any good record says.
Renewed(f) ==
    /\ edited
    /\ mode = "building" => \A n \in Readers(f) : Good(n) =>
           \A k \in DOMAIN Inputs(n) : Inputs(n)[k] = f => built[n].sig[k] # Now(f)
TrueOrRenewed(f, t) == t = disk[f].mtime \/ Renewed(f)
SourceEntered(f) ==
    /\ Len(statCache[f]) <= 1
    /\ \A j \in DOMAIN statCache[f] : ~statCache[f][j].dirty => TrueOrRenewed(f, statCache[f][j].mtime)

\* What was signed is what is on the disk, or was until the user came.
Honest(n) ==
    LET r == run[n] IN
    /\ Running => /\ Len(r.sig) <= Len(Inputs(n))
                  /\ \A k \in DOMAIN r.sig : LET f == Inputs(n)[k] IN
                         IF f \in Outputs THEN r.sig[k] = Now(f) /\ disk[f].mtime # 0
                         ELSE Dated(r.sig[k]) /\ TrueOrRenewed(f, r.sig[k][1])
    /\ mode = "building" /\ r.step = "store" /\ r.phase \in {"sign", "stamps", "validate"} /\ IsSource(StatFile(n))
       => TrueOrRenewed(StatFile(n), r.seen)

\* What was signed of a source is what its timestamp is taken from.
Remembered(n) ==
    LET r == run[n] IN
    /\ r.phase \in Signing \cup {"compare", "outputs", "stamps"} =>
        \A k \in DOMAIN r.sig : LET f == Inputs(n)[k] IN
            f \notin Outputs => StatCacheIsClean(f) /\ r.sig[k] = <<HashTableLookup(f).mtime>>
    /\ r.phase = "stamps" => r.step = "look"
    /\ r.phase \in {"sign", "validate"} /\ r.step \in {"info", "store"} /\ IsSource(StatFile(n)) =>
        r.known = StatCacheKnows(StatFile(n)) /\ ~StatCacheIsClean(StatFile(n))
    /\ \A j \in DOMAIN r.stamps, k \in DOMAIN Inputs(n) :
           Inputs(n)[k] = Sources(n)[j] => r.sig[k] = <<r.stamps[j]>>

\* How far an execution has come and what it found.
Course(n) ==
    LET r == run[n] IN
    /\ r.phase \in AfterAction => r.acted \in {"succeeds", "fails", "silent"}
    /\ r.acted # "no" =>
        /\ r.phase \in AfterAction \cup {"finished"} /\ Len(r.sig) = Len(Inputs(n))
        /\ r.phase \in {"mark", "marked", "validate", "finished"} => r.result \in {"kRanSuccesfully", "kRanFailed"}
    /\ r.phase = "outputs" => Good(n) /\ r.sig = built[n].sig
    /\ r.result = "kUpToDate" => r.phase = "finished" /\ Good(n) /\ r.sig = built[n].sig /\ Exists(n)
    /\ r.phase = "finished" /\ r.future /\ r.result = "kRanSuccesfully" => r.doubtful
    /\ r.phase # "idle" /\ ~(r.phase = "finished" /\ r.result = "kDidNotRun") =>
        \A p \in Producers(n) : run[p].phase = "finished" /\ Successful(p)
    /\ mode = "saved" => r.phase = "finished"

\* What the action made is of the inputs as they were signed.
RunTrue(n) ==
    LET r == run[n]
        content == IF r.phase = "acting" THEN r.made ELSE disk[Output(n)].content IN
    /\ r.acted # "no" /\ ~r.future =>
        \A k \in DOMAIN Inputs(n) : Inputs(n)[k] \notin Outputs => r.sig[k][1] < clock
    /\ r.acted = "succeeds" \/ r.phase = "acting" =>
        /\ ~r.future => Tells(n, r.sig, content)
        /\ mode = "building" /\ r.phase = "acting" /\ Good(n) => Tells(n, built[n].sig, content)
        /\ ~edited => content = Made(Contents(n))
    /\ r.acted = "succeeds" /\ r.phase # "acting" =>
        Exists(n) /\ \A p \in Producers(n) : disk[Output(p)].mtime <= disk[Output(n)].mtime

OneAtATime == mode = "building" /\ sc.workers = 1 => \A m, n \in Graph : Active(m) /\ Active(n) => m = n
BuiltOK == \A n \in Graph :
    /\ built[n] = [result |-> built[n].result, sig |-> built[n].sig]
    /\ built[n].result \in {"none", "failed", "doubtful", "guaranteed"} /\ IsSequence(built[n].sig)
OutputTimes == \A f \in Outputs : disk[f].mtime <= clock

CleanInv ==
    /\ edited \in BOOLEAN /\ BuiltOK /\ OutputTimes /\ OneAtATime
    /\ \A n \in Graph : RecordDated(n) /\ RecordTrue(n) /\ Honest(n)
    /\ Running => \A n \in Graph : Course(n) /\ RunTrue(n)
    /\ mode = "building" => /\ \A n \in Graph : Remembered(n)
                            /\ \A f \in Files : IsSource(f) => SourceEntered(f)

\* The surroundings in which the times of files tell that they changed: files are
\* signed by their times, a build starts when the outputs of the last one are in
\* the past, and a source is looked up by one node at a time.
InOrder(m, n) ==
    \/ sc.workers = 1
    \/ Output(m) \in ToSet(Inputs(n)) \/ Output(n) \in ToSet(Inputs(m))
    \/ ToSet(Sources(m)) \cap ToSet(Sources(n)) = {}
TimesTell ==
    /\ sc.digests = {} /\ ~sc.quick
    /\ \A m, n \in Graph : m # n => InOrder(m, n)

---------------------------------------------------------------------------
(* Times in signatures *)

LEMMA TimeIsDated ==
    ASSUME NEW t \in Nat
    PROVE  Dated(<<t>>) /\ <<t>>[1] = t
BY DEF Dated

LEMMA DatedByItsTime ==
    ASSUME NEW e, Dated(e), NEW t
    PROVE  e[1] \in Nat /\ (e = <<t>> <=> e[1] = t)
<1>1. e = <<e[1]>> /\ e[1] \in Nat
  BY DEF Dated
<1>2. <<t>>[1] = t
  OBVIOUS
<1> QED
  BY <1>1, <1>2

LEMMA InputIsSourceOrMade ==
    ASSUME TypeOK, NEW n \in Graph, NEW k \in DOMAIN Inputs(n)
    PROVE  LET f == Inputs(n)[k] IN
           /\ f \in Files \ {Dir} /\ f \in ToSet(Inputs(n)) /\ n \in Readers(f) /\ disk[f].mtime \in Nat
           /\ f \notin Outputs => IsSource(f) /\ \E j \in DOMAIN Sources(n) : Sources(n)[j] = f
           /\ f \in Outputs => \E p \in Producers(n) : Output(p) = f
<1> DEFINE f == Inputs(n)[k]
<1>0. scenario \in DOMAIN Scenarios
  BY DEF TypeOK
<1>1. f \in Files \ {Dir} /\ n \in Readers(f) /\ DOMAIN Inputs(n) = 1 .. Len(Inputs(n))
  BY <1>0, InputFacts
<1>2. f \in ToSet(Inputs(n))
  BY DEF ToSet
<1>3. disk[f].mtime \in Nat
  BY <1>1 DEF TypeOK, DiskOK
<1>4. ASSUME f \notin Outputs PROVE \E j \in DOMAIN Sources(n) : Sources(n)[j] = f
  <2>1. f \in ToSet(Sources(n))
    BY <1>0, <1>2, <1>4, GraphFacts
  <2> QED
    BY <2>1 DEF ToSet
<1>5. ASSUME f \in Outputs PROVE \E p \in Producers(n) : Output(p) = f
  BY <1>2, <1>5 DEF Outputs, Producers
<1> QED
  BY <1>1, <1>2, <1>3, <1>4, <1>5 DEF IsSource

LEMMA OutputOfProducer ==
    ASSUME TypeOK, NEW n \in Graph, NEW p \in Producers(n)
    PROVE  p \in Graph /\ Output(p) \in Outputs /\ \E k \in DOMAIN Inputs(n) : Inputs(n)[k] = Output(p)
BY DEF Producers, Outputs, ToSet

\* What is told of a content stays told when inputs that change get other times.
LEMMA ToldStays ==
    ASSUME NEW n, NEW sig, NEW content, Tells(n, sig, content), Inputs(n)' = Inputs(n),
           \A k \in DOMAIN Inputs(n) :
               disk'[Inputs(n)[k]] = disk[Inputs(n)[k]] \/ sig[k] # <<disk'[Inputs(n)[k]].mtime>>
    PROVE  SameTimes(n, sig)' => content = Made(Contents(n)')
<1> SUFFICES ASSUME SameTimes(n, sig)' PROVE content = Made(Contents(n)')
  OBVIOUS
<1>1. \A k \in DOMAIN Inputs(n) : sig[k] = <<disk'[Inputs(n)[k]].mtime>>
  BY DEF SameTimes, Now
<1>2. \A k \in DOMAIN Inputs(n) : disk'[Inputs(n)[k]] = disk[Inputs(n)[k]]
  BY <1>1
<1>3. SameTimes(n, sig)
  BY <1>1, <1>2 DEF SameTimes, Now
<1>4. Contents(n)' = Contents(n)
  BY <1>2 DEF Contents
<1> QED
  BY <1>3, <1>4 DEF Tells

---------------------------------------------------------------------------
(* What others do, and the user *)

\* Sources change only when the user edits them, and are dated then or later.
Passes ==
    /\ scenario' = scenario /\ mode' = mode /\ built' = built
    /\ clock' \in Nat /\ clock' >= clock
    /\ edited' \in BOOLEAN /\ (edited => edited')
    /\ \A f \in Files : IsSource(f) =>
           \/ disk'[f] = disk[f]
           \/ edited' /\ disk'[f].mtime \in Nat /\ disk'[f].mtime >= clock

\* A producer at work, while n waits for it, writes its output now or removes it.
Elsewhere(n) ==
    /\ Passes
    /\ run'[n] = run[n] /\ disk'[Output(n)] = disk[Output(n)]
    /\ n \in torn => n \in torn'
    /\ \A p \in Graph : run[p].phase = "finished" => run'[p] = run[p]
    /\ \A f \in ToSet(Inputs(n)) \cap Outputs :
           \/ disk'[f] = disk[f]
           \/ mode = "building" /\ run[n].phase = "idle" /\ disk'[f].mtime \in {0, clock}

LEMMA SameNode ==
    ASSUME scenario' = scenario, NEW n
    PROVE  /\ Graph' = Graph /\ Outputs' = Outputs /\ Inputs(n)' = Inputs(n) /\ Sources(n)' = Sources(n)
           /\ Output(n)' = Output(n) /\ Producers(n)' = Producers(n) /\ sc' = sc
           /\ \A f : Readers(f)' = Readers(f) /\ IsSource(f)' = IsSource(f)
<1>1. Outputs' = Outputs
  BY SameGraph
<1>2. \A f : IsSource(f)' = IsSource(f)
  BY <1>1 DEF IsSource
<1> QED
  BY <1>1, <1>2, SameGraph

\* A record of a source that changes is no longer the time it has.
LEMMA ChangedSinceRecorded ==
    ASSUME TypeOK, Passes, NEW n \in Graph, RecordDated(n), Good(n), NEW k \in DOMAIN Inputs(n),
           Inputs(n)[k] \notin Outputs, disk'[Inputs(n)[k]] # disk[Inputs(n)[k]]
    PROVE  built[n].sig[k] # <<disk'[Inputs(n)[k]].mtime>>
<1> DEFINE f == Inputs(n)[k]
           e == built[n].sig[k]
<1>1. IsSource(f) /\ f \in Files
  BY InputIsSourceOrMade
<1>2. disk'[f].mtime \in Nat /\ disk'[f].mtime >= clock
  BY <1>1 DEF Passes
<1>3. Dated(e) /\ e[1] < clock
  BY DEF RecordDated
<1>4. e[1] \in Nat /\ (e = <<disk'[f].mtime>> <=> e[1] = disk'[f].mtime)
  BY <1>3, DatedByItsTime
<1>5. clock \in Nat
  BY DEF TypeOK, TimesOK
<1> QED
  BY <1>2, <1>3, <1>4, <1>5

LEMMA TrueOrRenewedStays ==
    ASSUME TypeOK, Passes, \A n \in Graph : RecordDated(n), NEW f \in Files, IsSource(f), NEW t,
           TrueOrRenewed(f, t)
    PROVE  TrueOrRenewed(f, t)'
<1>1. CASE disk'[f] = disk[f] /\ t = disk[f].mtime
  BY <1>1 DEF TrueOrRenewed
<1>2. CASE disk'[f] = disk[f] /\ Renewed(f)
  <2>1. edited' /\ built' = built /\ mode' = mode /\ scenario' = scenario
    BY <1>2 DEF Renewed, Passes
  <2>2. \A n : Good(n)' = Good(n) /\ Inputs(n)' = Inputs(n)
    BY <2>1, SameGraph DEF Good
  <2>3. Now(f)' = Now(f) /\ Readers(f)' = Readers(f)
    BY <1>2, <2>1, SameGraph DEF Now
  <2> QED
    BY <1>2, <2>1, <2>2, <2>3 DEF TrueOrRenewed, Renewed
<1>3. CASE disk'[f] # disk[f]
  <2>1. edited' /\ built' = built /\ mode' = mode /\ scenario' = scenario
    BY <1>3 DEF Passes
  <2>2. \A n : Good(n)' = Good(n) /\ Inputs(n)' = Inputs(n)
    BY <2>1, SameGraph DEF Good
  <2>3. Now(f)' = <<disk'[f].mtime>> /\ Readers(f)' = Readers(f)
    BY <2>1, SameGraph DEF Now
  <2>4. \A n \in Readers(f) : Good(n) =>
           \A k \in DOMAIN Inputs(n) : Inputs(n)[k] = f => built[n].sig[k] # <<disk'[f].mtime>>
    <3>1. f \notin Outputs
      BY DEF IsSource
    <3> QED
      BY <1>3, <3>1, ChangedSinceRecorded DEF Readers
  <2> QED
    BY <2>1, <2>2, <2>3, <2>4 DEF TrueOrRenewed, Renewed
<1> QED
  BY <1>1, <1>2, <1>3 DEF TrueOrRenewed

LEMMA RecordDatedElsewhere ==
    ASSUME TypeOK, NEW n \in Graph, RecordDated(n), Elsewhere(n)
    PROVE  RecordDated(n)'
<1>1. /\ Inputs(n)' = Inputs(n) /\ Outputs' = Outputs /\ Good(n)' = Good(n) /\ built' = built
      /\ Exists(n)' = Exists(n) /\ Output(n)' = Output(n) /\ disk'[Output(n)] = disk[Output(n)]
      /\ mode' = mode /\ run'[n] = run[n] /\ clock' \in Nat /\ clock' >= clock
  BY SameGraph DEF Elsewhere, Passes, Good, Exists
<1>2. SUFFICES ASSUME Good(n), NEW k \in DOMAIN Inputs(n)
               PROVE  LET sig == built[n].sig IN
                      /\ Len(sig) = Len(Inputs(n))
                      /\ Dated(sig[k])
                      /\ Inputs(n)[k] \notin Outputs => sig[k][1] < clock'
                      /\ Inputs(n)[k] \in Outputs =>
                        /\ sig[k][1] \in 1 .. clock'
                        /\ Exists(n) => sig[k][1] <= disk[Output(n)].mtime
                        /\ mode = "building" /\ run[n].phase = "idle" /\ Exists(n) => sig[k][1] < clock'
  <2>1. Good(n) => Len(built[n].sig) = Len(Inputs(n))
    BY DEF RecordDated
  <2> QED
    BY <1>1, <2>1 DEF RecordDated, Dated
<1>3. clock \in Nat /\ built[n].sig[k][1] \in Nat
  BY <1>2 DEF TypeOK, TimesOK, RecordDated, Dated
<1> QED
  BY <1>1, <1>2, <1>3 DEF RecordDated

LEMMA RecordTrueElsewhere ==
    ASSUME TypeOK, NEW n \in Graph, RecordDated(n), RecordTrue(n), Elsewhere(n)
    PROVE  RecordTrue(n)'
<1>1. /\ Inputs(n)' = Inputs(n) /\ Good(n)' = Good(n) /\ built' = built /\ Spoiled(n)' = Spoiled(n)
      /\ Exists(n)' = Exists(n) /\ Output(n)' = Output(n) /\ disk'[Output(n)] = disk[Output(n)]
      /\ mode' = mode /\ run'[n] = run[n] /\ (n \in torn => n \in torn')
  BY SameGraph DEF Elsewhere, Passes, Good, Exists, Spoiled, Running
<1>2. ASSUME Good(n), Exists(n), n \notin torn, ~Spoiled(n), SameTimes(n, built[n].sig)'
      PROVE  disk[Output(n)].content = Made(Contents(n)')
  <2>1. Tells(n, built[n].sig, disk[Output(n)].content)
    BY <1>2 DEF RecordTrue
  <2>2. ASSUME NEW k \in DOMAIN Inputs(n), disk'[Inputs(n)[k]] # disk[Inputs(n)[k]]
        PROVE  built[n].sig[k] # <<disk'[Inputs(n)[k]].mtime>>
    <3>1. CASE Inputs(n)[k] \notin Outputs
      BY <1>2, <2>2, <3>1, ChangedSinceRecorded DEF Elsewhere
    <3>2. CASE Inputs(n)[k] \in Outputs
      <4>1. Inputs(n)[k] \in ToSet(Inputs(n)) \cap Outputs
        BY <3>2, InputIsSourceOrMade
      <4>2. mode = "building" /\ run[n].phase = "idle" /\ disk'[Inputs(n)[k]].mtime \in {0, clock}
        BY <2>2, <4>1 DEF Elsewhere
      <4>3. Dated(built[n].sig[k]) /\ built[n].sig[k][1] \in 1 .. clock /\ built[n].sig[k][1] < clock
        BY <1>2, <3>2, <4>2 DEF RecordDated
      <4>4. built[n].sig[k][1] # disk'[Inputs(n)[k]].mtime
        BY <4>2, <4>3 DEF TypeOK, TimesOK
      <4> QED
        BY <4>3, <4>4, DatedByItsTime
    <3> QED
      BY <3>1, <3>2
  <2> QED
    BY <1>1, <1>2, <2>1, <2>2, ToldStays
<1>3. Tells(n, built[n].sig, disk[Output(n)].content)' =
          (SameTimes(n, built[n].sig)' => disk[Output(n)].content = Made(Contents(n)'))
  <2>1. Made(Contents(n))' = Made(Contents(n)')
    BY DEF Made
  <2>2. SameTimes(n, built[n].sig)' = SameTimes(n, built[n].sig)'
    OBVIOUS
  <2> QED
    BY <1>1, <2>1 DEF Tells
<1> QED
  BY <1>1, <1>2, <1>3 DEF RecordTrue

\* Once a node has begun, what it signed of outputs does not change.
LEMMA BegunInputsStay ==
    ASSUME TypeOK, NEW n \in Graph, Elsewhere(n), run[n].phase # "idle" \/ mode # "building"
    PROVE  /\ \A k \in DOMAIN Inputs(n) : Inputs(n)[k] \in Outputs => disk'[Inputs(n)[k]] = disk[Inputs(n)[k]]
           /\ \A p \in Producers(n) : disk'[Output(p)] = disk[Output(p)]
<1>1. \A f \in ToSet(Inputs(n)) \cap Outputs : disk'[f] = disk[f]
  BY DEF Elsewhere
<1>2. \A p \in Producers(n) : Output(p) \in ToSet(Inputs(n)) \cap Outputs
  BY DEF Producers, Outputs
<1> QED
  BY <1>1, <1>2, InputIsSourceOrMade

LEMMA HonestElsewhere ==
    ASSUME TypeOK, \A m \in Graph : RecordDated(m), NEW n \in Graph, Honest(n), Elsewhere(n),
           run[n].phase = "idle" /\ mode = "building" => run[n].sig = <<>>
    PROVE  Honest(n)'
<1>0. scenario' = scenario /\ mode' = mode /\ run'[n] = run[n] /\ Passes
  BY DEF Elsewhere, Passes
<1>1. /\ Inputs(n)' = Inputs(n) /\ Outputs' = Outputs /\ Running' = Running
      /\ \A f : IsSource(f)' = IsSource(f)
  BY <1>0, SameNode DEF Running
<1>2. ASSUME Running
      PROVE  /\ Len(run[n].sig) <= Len(Inputs(n))
             /\ \A k \in DOMAIN run[n].sig : LET f == Inputs(n)[k] IN
                    IF f \in Outputs THEN run[n].sig[k] = Now(f)' /\ disk'[f].mtime # 0
                    ELSE Dated(run[n].sig[k]) /\ TrueOrRenewed(f, run[n].sig[k][1])'
  <2>1. Len(run[n].sig) <= Len(Inputs(n))
    BY <1>2 DEF Honest
  <2>2. SUFFICES ASSUME NEW k \in DOMAIN run[n].sig
                 PROVE  LET f == Inputs(n)[k] IN
                        IF f \in Outputs THEN run[n].sig[k] = Now(f)' /\ disk'[f].mtime # 0
                        ELSE Dated(run[n].sig[k]) /\ TrueOrRenewed(f, run[n].sig[k][1])'
    BY <2>1
  <2>3. k \in DOMAIN Inputs(n)
    <3>1. DOMAIN run[n].sig = 1 .. Len(run[n].sig) /\ Len(run[n].sig) \in Nat
      BY NodeIsSound DEF FrameOK, IsSequence
    <3>2. DOMAIN Inputs(n) = 1 .. Len(Inputs(n)) /\ Len(Inputs(n)) \in Nat
      BY InputFacts DEF TypeOK
    <3> QED
      BY <2>1, <3>1, <3>2
  <2>4. LET f == Inputs(n)[k] IN
        IF f \in Outputs THEN run[n].sig[k] = Now(f) /\ disk[f].mtime # 0
        ELSE Dated(run[n].sig[k]) /\ TrueOrRenewed(f, run[n].sig[k][1])
    BY <1>2 DEF Honest
  <2>5. CASE Inputs(n)[k] \in Outputs
    <3>1. run[n].phase # "idle" \/ mode # "building"
      BY DEF Running
    <3>2. disk'[Inputs(n)[k]] = disk[Inputs(n)[k]]
      BY <2>3, <2>5, <3>1, BegunInputsStay
    <3> QED
      BY <1>1, <2>4, <2>5, <3>2 DEF Now
  <2>6. CASE Inputs(n)[k] \notin Outputs
    <3>1. IsSource(Inputs(n)[k]) /\ Inputs(n)[k] \in Files
      BY <2>3, <2>6, InputIsSourceOrMade
    <3>2. \A f \in Files : \A t : IsSource(f) /\ TrueOrRenewed(f, t) => TrueOrRenewed(f, t)'
      BY <1>0, TrueOrRenewedStays
    <3> QED
      BY <1>0, <1>1, <2>4, <2>6, <3>1, <3>2
  <2> QED
    BY <2>5, <2>6
<1>3. ASSUME mode = "building", run[n].step = "store", run[n].phase \in {"sign", "stamps", "validate"},
             IsSource(StatFile(n))
      PROVE  TrueOrRenewed(StatFile(n), run[n].seen)'
  <2>1. TrueOrRenewed(StatFile(n), run[n].seen)
    BY <1>3 DEF Honest
  <2>2. StatFile(n)' = StatFile(n) /\ StatFile(n) \in Files
    <3>1. StatFile(n)' = StatFile(n)
      BY <1>0, SameNode DEF StatFile
    <3> QED
      BY <1>3, <3>1 DEF IsSource
  <2> QED
    BY <1>0, <1>3, <2>1, <2>2, TrueOrRenewedStays
<1>4. run[n].phase \in {"sign", "stamps", "validate"} => StatFile(n)' = StatFile(n)
  BY <1>0, SameNode DEF StatFile
<1>5. \A k : (Dated(run[n].sig[k]) /\ TrueOrRenewed(Inputs(n)[k], run[n].sig[k][1]))' =
             (Dated(run[n].sig[k]) /\ TrueOrRenewed(Inputs(n)[k], run[n].sig[k][1])')
  BY <1>0, <1>1 DEF Dated
<1> QED
  BY <1>0, <1>1, <1>2, <1>3, <1>4 DEF Honest

LEMMA CourseElsewhere ==
    ASSUME TypeOK, NEW n \in Graph, Course(n), Elsewhere(n)
    PROVE  Course(n)'
<1>1. /\ Inputs(n)' = Inputs(n) /\ Good(n)' = Good(n) /\ built' = built /\ Producers(n)' = Producers(n)
      /\ Exists(n)' = Exists(n) /\ mode' = mode /\ run'[n] = run[n]
  BY SameGraph DEF Elsewhere, Passes, Good, Exists
<1>2. ASSUME NEW p \in Producers(n), run[p].phase = "finished", Successful(p)
      PROVE  run'[p].phase = "finished" /\ Successful(p)'
  <2>1. p \in Graph
    BY DEF Producers
  <2> QED
    BY <1>2, <2>1 DEF Elsewhere, Successful
<1>3. ASSUME run[n].phase # "idle", ~(run[n].phase = "finished" /\ run[n].result = "kDidNotRun")
      PROVE  \A p \in Producers(n) : run'[p].phase = "finished" /\ Successful(p)'
  BY <1>2, <1>3 DEF Course
<1> QED
  BY <1>1, <1>3 DEF Course

LEMMA RunTrueElsewhere ==
    ASSUME TypeOK, NEW n \in Graph, RecordDated(n), Honest(n), Course(n), RunTrue(n), Running, Elsewhere(n)
    PROVE  RunTrue(n)'
<1> DEFINE r == run[n]
           content == IF r.phase = "acting" THEN r.made ELSE disk[Output(n)].content
<1>0. scenario' = scenario /\ mode' = mode /\ run'[n] = r /\ Passes /\ disk'[Output(n)] = disk[Output(n)]
      /\ Running' /\ clock' >= clock /\ clock' \in Nat /\ clock \in Nat
  BY DEF Elsewhere, Passes, Running, TypeOK, TimesOK
<1>1. /\ Inputs(n)' = Inputs(n) /\ Outputs' = Outputs /\ Good(n)' = Good(n) /\ built' = built
      /\ Producers(n)' = Producers(n) /\ Exists(n)' = Exists(n) /\ Output(n)' = Output(n)
      /\ \A p : Output(p)' = Output(p)
  BY <1>0, SameGraph DEF Elsewhere, Passes, Good, Exists
<1>2. ASSUME r.acted # "no" \/ r.phase = "acting"
      PROVE  /\ r.acted # "no" /\ r.phase # "idle"
             /\ \A k \in DOMAIN Inputs(n) : Inputs(n)[k] \in Outputs => disk'[Inputs(n)[k]] = disk[Inputs(n)[k]]
             /\ \A p \in Producers(n) : disk'[Output(p)] = disk[Output(p)]
             /\ \A k \in DOMAIN Inputs(n) : Inputs(n)[k] \notin Outputs => Dated(r.sig[k]) /\ r.sig[k][1] \in Nat
  <2>1. r.acted # "no" /\ r.phase # "idle" /\ Len(r.sig) = Len(Inputs(n))
    BY <1>2 DEF Course, AfterAction
  <2>2. /\ \A k \in DOMAIN Inputs(n) : Inputs(n)[k] \in Outputs => disk'[Inputs(n)[k]] = disk[Inputs(n)[k]]
        /\ \A p \in Producers(n) : disk'[Output(p)] = disk[Output(p)]
    BY <2>1, BegunInputsStay
  <2>3. DOMAIN r.sig = DOMAIN Inputs(n)
    <3>1. DOMAIN r.sig = 1 .. Len(r.sig)
      BY NodeIsSound DEF FrameOK, IsSequence
    <3> QED
      BY <2>1, <3>1, InputFacts DEF TypeOK
  <2>4. \A k \in DOMAIN Inputs(n) : Inputs(n)[k] \notin Outputs => Dated(r.sig[k]) /\ r.sig[k][1] \in Nat
    BY <2>3 DEF Honest, Dated
  <2> QED
    BY <2>1, <2>2, <2>4
<1>3. ASSUME r.acted # "no", ~r.future, NEW k \in DOMAIN Inputs(n), Inputs(n)[k] \notin Outputs
      PROVE  r.sig[k][1] < clock'
  <2>1. r.sig[k][1] < clock
    BY <1>3 DEF RunTrue
  <2> QED
    BY <1>0, <1>2, <1>3, <2>1
<1>4. ASSUME r.acted # "no" \/ r.phase = "acting", NEW sig, Tells(n, sig, content),
             \A k \in DOMAIN Inputs(n) : Inputs(n)[k] \notin Outputs => Dated(sig[k]) /\ sig[k][1] < clock
      PROVE  Tells(n, sig, content)'
  <2>1. ASSUME NEW k \in DOMAIN Inputs(n), disk'[Inputs(n)[k]] # disk[Inputs(n)[k]]
        PROVE  sig[k] # <<disk'[Inputs(n)[k]].mtime>>
    <3>1. Inputs(n)[k] \notin Outputs
      BY <1>2, <1>4, <2>1
    <3>2. IsSource(Inputs(n)[k]) /\ Inputs(n)[k] \in Files
      BY <3>1, InputIsSourceOrMade
    <3>3. disk'[Inputs(n)[k]].mtime \in Nat /\ disk'[Inputs(n)[k]].mtime >= clock
      BY <1>0, <2>1, <3>2 DEF Passes
    <3>4. Dated(sig[k]) /\ sig[k][1] < clock /\ sig[k][1] \in Nat
      BY <1>4, <3>1 DEF Dated
    <3>5. sig[k][1] # disk'[Inputs(n)[k]].mtime
      BY <1>0, <3>3, <3>4
    <3> QED
      BY <3>4, <3>5, DatedByItsTime
  <2>2. SameTimes(n, sig)' => content = Made(Contents(n)')
    BY <1>1, <1>4, <2>1, ToldStays
  <2>3. content' = content
    BY <1>0, <1>1
  <2>4. Made(Contents(n))' = Made(Contents(n)')
    BY DEF Made
  <2> HIDE DEF content
  <2> QED
    BY <2>2, <2>3, <2>4 DEF Tells
<1>5. ASSUME r.acted = "succeeds" \/ r.phase = "acting", ~r.future
      PROVE  Tells(n, r.sig, content)'
  <2>1. Tells(n, r.sig, content)
    BY <1>5 DEF RunTrue
  <2>2. \A k \in DOMAIN Inputs(n) : Inputs(n)[k] \notin Outputs => r.sig[k][1] < clock
    BY <1>2, <1>5 DEF RunTrue
  <2>3. Tells(n, r.sig, content) /\ \A k \in DOMAIN Inputs(n) : Inputs(n)[k] \notin Outputs =>
          Dated(r.sig[k]) /\ r.sig[k][1] < clock
    BY <1>2, <1>5, <2>1, <2>2
  <2> HIDE DEF content
  <2>4. \A sig : Tells(n, sig, content) /\ (\A k \in DOMAIN Inputs(n) : Inputs(n)[k] \notin Outputs =>
          Dated(sig[k]) /\ sig[k][1] < clock) => Tells(n, sig, content)'
    BY <1>4, <1>5
  <2> QED
    BY <1>0, <2>3, <2>4
<1>6. ASSUME mode = "building", r.phase = "acting", Good(n)
      PROVE  Tells(n, built[n].sig, content)'
  <2>1. Tells(n, built[n].sig, content)
    BY <1>6 DEF RunTrue
  <2>2. \A k \in DOMAIN Inputs(n) : Inputs(n)[k] \notin Outputs =>
            Dated(built[n].sig[k]) /\ built[n].sig[k][1] < clock
    BY <1>6 DEF RecordDated
  <2> HIDE DEF content
  <2>4. \A sig : Tells(n, sig, content) /\ (\A k \in DOMAIN Inputs(n) : Inputs(n)[k] \notin Outputs =>
          Dated(sig[k]) /\ sig[k][1] < clock) => Tells(n, sig, content)'
    BY <1>4, <1>6
  <2> QED
    BY <1>1, <2>1, <2>2, <2>4
<1>7. ASSUME r.acted = "succeeds" \/ r.phase = "acting", ~edited'
      PROVE  content = Made(Contents(n)')
  <2>1. ~edited
    BY <1>0, <1>7 DEF Passes
  <2>2. \A k \in DOMAIN Inputs(n) : disk'[Inputs(n)[k]] = disk[Inputs(n)[k]]
    BY <1>0, <1>2, <1>7, InputIsSourceOrMade DEF Passes
  <2>3. Contents(n)' = Contents(n)
    BY <1>1, <2>2 DEF Contents
  <2>4. content = Made(Contents(n))
    BY <1>7, <2>1 DEF RunTrue
  <2> QED
    BY <2>3, <2>4
<1>8. ASSUME r.acted = "succeeds", r.phase # "acting"
      PROVE  Exists(n) /\ \A p \in Producers(n) : disk'[Output(p)].mtime <= disk'[Output(n)].mtime
  BY <1>0, <1>2, <1>8 DEF RunTrue
<1>9. Made(Contents(n))' = Made(Contents(n)') /\ content' = content /\ run'[n] = r
  BY <1>0, <1>1 DEF Made
<1> HIDE DEF content
<1>10. ASSUME r.acted = "succeeds" \/ r.phase = "acting"
       PROVE  /\ ~r.future => Tells(n, run[n].sig, content)'
              /\ mode' = "building" /\ r.phase = "acting" /\ Good(n)' => Tells(n, built[n].sig, content)'
              /\ ~edited' => content' = Made(Contents(n))'
  BY <1>0, <1>1, <1>5, <1>6, <1>7, <1>9, <1>10
<1>11. ASSUME r.acted = "succeeds", r.phase # "acting"
       PROVE  Exists(n)' /\ \A p \in Producers(n)' : disk'[Output(p)'].mtime <= disk'[Output(n)'].mtime
  BY <1>1, <1>8, <1>11
<1> USE DEF content
<1> QED
  BY <1>0, <1>1, <1>3, <1>9, <1>10, <1>11 DEF RunTrue

---------------------------------------------------------------------------
(* The entries of sources *)

LEMMA AskedSource ==
    ASSUME TypeOK, NEW n \in Graph, run[n].phase \in {"sign", "outputs", "stamps", "mkdir", "validate"},
           IsSource(StatFile(n))
    PROVE  run[n].phase \in {"sign", "stamps", "validate"} /\ StatFile(n) \in ToSet(Sources(n))
<1>0. scenario \in DOMAIN Scenarios /\ IndexOK(n, run[n]) /\ run[n].i \in Nat \ {0}
  BY NodeIsSound DEF TypeOK, Sound, FrameOK
<1>1. run[n].phase \in {"sign", "stamps", "validate"}
  <2>1. Output(n) \in Outputs
    BY <1>0, GraphFacts
  <2> QED
    BY <2>1, StatFileIsAFile DEF IsSource
<1>2. CASE run[n].phase = "sign"
  <2>1. StatFile(n) = Inputs(n)[run[n].i] /\ run[n].i \in DOMAIN Inputs(n)
    BY <1>0, <1>2, StatFileIsAFile, InputFacts DEF IndexOK, Signing
  <2>2. StatFile(n) \in ToSet(Inputs(n)) \ Outputs
    BY <2>1 DEF IsSource, ToSet
  <2> QED
    BY <1>0, <1>1, <2>2, GraphFacts
<1>3. CASE run[n].phase \in {"stamps", "validate"}
  <2>1. StatFile(n) = Sources(n)[run[n].i] /\ run[n].i \in DOMAIN Sources(n)
    BY <1>0, <1>3, StatFileIsAFile, InputFacts DEF IndexOK
  <2> QED
    BY <1>1, <2>1 DEF ToSet
<1> QED
  BY <1>1, <1>2, <1>3

LEMMA SourceOfNode ==
    ASSUME TypeOK, NEW n \in Graph, NEW f \in ToSet(Sources(n))
    PROVE  IsSource(f) /\ f \in Files
<1>1. f \in ToSet(Inputs(n)) /\ f \notin Outputs
  BY GraphFacts DEF TypeOK
<1>2. PICK k \in DOMAIN Inputs(n) : f = Inputs(n)[k]
  BY <1>1 DEF ToSet
<1> QED
  BY <1>1, <1>2, InputIsSourceOrMade

\* A thread leaves the entries of sources that it does not read alone.
LEMMA OtherSourcesStay ==
    ASSUME TypeOK, NEW q \in Graph, NodeStep(q), NEW f \in Files, IsSource(f), f \notin ToSet(Sources(q)),
           Len(statCache[f]) <= 1
    PROVE  statCache'[f] = statCache[f]
<1>1. f # Output(q) /\ f # Dir
  BY GraphFacts DEF IsSource, TypeOK
<1>2. StatStep(q)
  BY NodeEffects DEF NodeEffect
<1>3. ASSUME run[q].phase \in {"sign", "outputs", "stamps", "mkdir", "validate"}
      PROVE  f # StatFile(q)
  BY <1>3, AskedSource
<1>4. CASE statCache' = statCache
  BY <1>4
<1>5. CASE InStat(q, "store") /\ Stored(StatFile(q), run[q].seen, run[q].known)
  BY <1>3, <1>5 DEF InStat, Stored, Kept
<1>6. CASE \E g \in {Output(q), Dir} : Marked(g)
  BY <1>1, <1>6 DEF Marked
<1>7. CASE run[q].phase = "validate" /\ Marked(StatFile(q))
  BY <1>3, <1>7 DEF Marked
<1> QED
  BY <1>2, <1>4, <1>5, <1>6, <1>7 DEF StatStep

LEMMA SourceIsEntered ==
    ASSUME TypeOK, Passes, \A m \in Graph : RecordDated(m), mode = "building",
           NEW q \in Graph, Remembered(q), Honest(q), NodeStep(q),
           NEW f \in Files, IsSource(f), SourceEntered(f)
    PROVE  SourceEntered(f)'
<1>0. \A t : TrueOrRenewed(f, t) => TrueOrRenewed(f, t)'
  BY TrueOrRenewedStays
<1>1. SUFFICES /\ Len(statCache'[f]) <= 1
               /\ \A j \in DOMAIN statCache'[f] : ~statCache'[f][j].dirty => TrueOrRenewed(f, statCache'[f][j].mtime)
  BY <1>0 DEF SourceEntered, TrueOrRenewed
<1>2. f # Output(q) /\ f # Dir
  BY GraphFacts DEF IsSource, TypeOK
<1>3. StatStep(q)
  BY NodeEffects DEF NodeEffect
<1>4. CASE statCache' = statCache
  BY <1>4 DEF SourceEntered
<1>5. CASE InStat(q, "store") /\ Stored(StatFile(q), run[q].seen, run[q].known)
  <2>1. CASE f # StatFile(q)
    BY <1>5, <2>1 DEF Stored, Kept, SourceEntered
  <2>2. CASE f = StatFile(q)
    <3>1. run[q].step = "store" /\ run[q].phase \in {"sign", "stamps", "validate"}
      BY <1>5, <2>2, AskedSource DEF InStat
    <3>2. run[q].phase # "stamps"
      BY <3>1 DEF Remembered
    <3>3. run[q].known = (statCache[f] # <<>>) /\ TrueOrRenewed(f, run[q].seen)
      BY <2>2, <3>1, <3>2 DEF Remembered, Honest, StatCacheKnows
    <3>4. Len(statCache'[f]) = 1 /\ statCache'[f][1] = Clean(run[q].seen)
      BY <1>5, <2>2, <3>3 DEF Stored, SourceEntered
    <3>5. DOMAIN statCache'[f] = {1}
      <4>1. statCache'[f] \in Seq(EntryType)
        BY NodeEffects DEF NodeEffect, StatOK
      <4> QED
        BY <3>4, <4>1
    <3> QED
      BY <3>3, <3>4, <3>5 DEF Clean
  <2> QED
    BY <2>1, <2>2
<1>6. CASE \E g \in {Output(q), Dir} : Marked(g)
  BY <1>2, <1>6 DEF Marked, SourceEntered
<1>7. CASE run[q].phase = "validate" /\ Marked(StatFile(q))
  <2>1. CASE f # StatFile(q)
    BY <1>7, <2>1 DEF Marked, SourceEntered
  <2>2. CASE f = StatFile(q)
    BY <1>7, <2>2 DEF Marked, OldEntry, SourceEntered
  <2> QED
    BY <2>1, <2>2
<1> QED
  BY <1>3, <1>4, <1>5, <1>6, <1>7 DEF StatStep

LEMMA RememberedElsewhere ==
    ASSUME TypeOK, NEW n \in Graph, Remembered(n), scenario' = scenario, run'[n] = run[n],
           Active(n) => \A f \in ToSet(Sources(n)) : statCache'[f] = statCache[f]
    PROVE  Remembered(n)'
<1> DEFINE r == run[n]
<1>0. scenario \in DOMAIN Scenarios
  BY DEF TypeOK
<1>1. /\ Inputs(n)' = Inputs(n) /\ Outputs' = Outputs /\ Sources(n)' = Sources(n)
      /\ \A f : IsSource(f)' = IsSource(f)
  BY SameNode
<1>2. \A f : statCache'[f] = statCache[f] =>
          /\ StatCacheIsClean(f)' = StatCacheIsClean(f) /\ HashTableLookup(f)' = HashTableLookup(f)
          /\ StatCacheKnows(f)' = StatCacheKnows(f)
  BY DEF StatCacheIsClean, HashTableLookup, StatCacheKnows
<1>3. ASSUME r.phase \in Signing \cup {"compare", "outputs", "stamps"}, NEW k \in DOMAIN r.sig,
             Inputs(n)[k] \notin Outputs
      PROVE  StatCacheIsClean(Inputs(n)[k])' /\ r.sig[k] = <<(HashTableLookup(Inputs(n)[k])').mtime>>
  <2>1. StatCacheIsClean(Inputs(n)[k]) /\ r.sig[k] = <<HashTableLookup(Inputs(n)[k]).mtime>>
    BY <1>3 DEF Remembered
  <2>2. k \in DOMAIN Inputs(n)
    <3>1. DOMAIN r.sig = 1 .. Len(r.sig) /\ Len(r.sig) \in Nat /\ Len(r.sig) <= Len(Inputs(n))
      BY <1>3, SignedInputs DEF HasSigned
    <3> QED
      BY <1>0, <3>1, InputFacts
  <2>3. Inputs(n)[k] \in ToSet(Sources(n))
    BY <1>0, <1>3, <2>2, GraphFacts, InputIsSourceOrMade
  <2>4. Active(n)
    BY <1>3 DEF Active, Signing
  <2>5. statCache'[Inputs(n)[k]] = statCache[Inputs(n)[k]]
    BY <2>3, <2>4
  <2>6. \A f : f = Inputs(n)[k] => StatCacheIsClean(f)' /\ HashTableLookup(f)' = HashTableLookup(f)
    BY <1>2, <2>1, <2>5
  <2> QED
    BY <1>1, <2>1, <2>6
<1>4. ASSUME r.phase \in {"sign", "validate"}, r.step \in {"info", "store"}, IsSource(StatFile(n))'
      PROVE  (r.known = StatCacheKnows(StatFile(n)) /\ ~StatCacheIsClean(StatFile(n)))'
  <2>1. StatFile(n)' = StatFile(n)
    BY <1>1, <1>4 DEF StatFile
  <2>2. IsSource(StatFile(n))
    BY <1>1, <1>4, <2>1
  <2>3. StatFile(n) \in ToSet(Sources(n)) /\ Active(n)
    BY <1>4, <2>2, AskedSource DEF Active
  <2>4. statCache'[StatFile(n)] = statCache[StatFile(n)]
    BY <2>3
  <2>5. r.known = StatCacheKnows(StatFile(n)) /\ ~StatCacheIsClean(StatFile(n))
    BY <1>4, <2>2 DEF Remembered
  <2> QED
    BY <1>2, <2>1, <2>4, <2>5
<1>5. \A j \in DOMAIN r.stamps, k \in DOMAIN Inputs(n) :
           Inputs(n)[k] = Sources(n)[j] => r.sig[k] = <<r.stamps[j]>>
  BY DEF Remembered
<1>6. r.phase = "stamps" => r.step = "look"
  BY DEF Remembered
<1>7. run'[n] = r /\ StatFile(n)' = StatFile(n)'
  OBVIOUS
<1> QED
  BY <1>1, <1>3, <1>4, <1>5, <1>6, <1>7 DEF Remembered

---------------------------------------------------------------------------
(* What a thread notes of its own node *)

Proceeds(n) ==
    LET r == run[n]
        s == run'[n]
    IN
    /\ r.phase # "act" => s.acted = r.acted
    /\ r.phase # "clock" => s.future = r.future
    /\ r.phase \notin {"outputs", "post"} => s.result = r.result
    /\ s.phase = "acting" => r.phase = "act"
    /\ s.phase \in AfterAction => r.phase \in AfterAction \cup {"act"}
    /\ s.phase \in {"mark", "marked", "validate"} => r.phase \in {"post", "mark", "marked", "validate"}
    /\ s.phase = "finished" => r.phase \in {"outputs", "marked", "validate"}
    /\ s.phase = "outputs" => r.phase \in {"compare", "outputs"}
    /\ s.phase = "compare" => r.phase \in Signing
    /\ s.phase = "stamps" => r.phase \in {"compare", "outputs", "stamps"}
    /\ r.phase # "stamps" => s.stamps = r.stamps
    /\ s.phase # "idle"

LEMMA AnswersProceed ==
    ASSUME NEW n, NEW t, Answers(n, run[n], run'[n], t),
           run[n].phase \in {"sign", "outputs", "stamps", "mkdir", "validate"}
    PROVE  Proceeds(n)
<1> DEFINE r == run[n]
           s == run'[n]
<1>1. CASE r.phase = "sign"
  <2>1. s.phase \in {"sign", "digest", "compare"} /\ r.phase \in Signing
    BY <1>1 DEF Answers, AnswersSign, Signs, SignsNext, Signing
  <2>2. s.acted = r.acted /\ s.future = r.future /\ s.result = r.result /\ s.stamps = r.stamps
    BY <1>1 DEF Answers, AnswersSign, Signs, Rest, FrameFields
  <2> QED
    BY <1>1, <2>1, <2>2 DEF Proceeds, AfterAction
<1>2. CASE r.phase = "outputs"
  BY <1>2 DEF Answers, GoesOn, Ends, FirstOfRun, Rest, FrameFields, Proceeds, AfterAction
<1>3. CASE r.phase = "stamps"
  BY <1>3 DEF Answers, AnswersStamp, Rest, FrameFields, Proceeds, AfterAction
<1>4. CASE r.phase = "mkdir"
  BY <1>4 DEF Answers, GoesOn, Rest, FrameFields, Proceeds, AfterAction
<1>5. CASE r.phase = "validate"
  BY <1>5 DEF Answers, AnswersValidate, Rest, FrameFields, Proceeds, AfterAction
<1> QED
  BY <1>1, <1>2, <1>3, <1>4, <1>5

LEMMA NodeProceeds ==
    ASSUME TypeOK, NEW n \in Graph, NodeStep(n)
    PROVE  Proceeds(n)
<1> DEFINE r == run[n]
           s == run'[n]
<1>0. ASSUME Rest(r, s, {"step", "known", "seen"}), r.phase \in {"sign", "outputs", "stamps", "mkdir", "validate"}
      PROVE  Proceeds(n)
  BY <1>0 DEF Rest, FrameFields, Proceeds, AfterAction, Signing
<1>00. ASSUME NEW p, GoesOn(r, s, p)
       PROVE  s.phase = p /\ s.acted = r.acted /\ s.future = r.future /\ s.result = r.result /\ s.stamps = r.stamps
  BY <1>00 DEF GoesOn, Rest, FrameFields
<1>1. CASE StatCacheStat(n)
  <2>1. Looks(n, r, s) /\ r.phase \in {"sign", "outputs", "stamps", "mkdir", "validate"}
    BY <1>1, StatCacheStatOutcome DEF StatCacheStat, InStat
  <2>2. ASSUME NEW t, Answers(n, r, s, t) PROVE Proceeds(n)
    BY <2>1, <2>2, AnswersProceed
  <2>3. CASE Rest(r, s, {"step", "known"})
    BY <1>0, <2>1, <2>3 DEF Rest, FrameFields
  <2> QED
    BY <2>1, <2>2, <2>3 DEF Looks
<1>2. CASE StatTheFile(n)
  BY <1>0, <1>2, StatTheFileOutcome DEF Rest, FrameFields, StatTheFile, InStat
<1>3. CASE StoreStat(n)
  BY <1>3, StoreStatOutcome, AnswersProceed DEF StoreStat, InStat
<1>4. CASE MarkSourceDirty(n)
  BY <1>0, <1>4, MarkSourceDirtyOutcome DEF Rest, FrameFields
<1>5. CASE CheckInputSignature(n)
  <2>1. r.phase = "compare"
    BY <1>5 DEF CheckInputSignature
  <2>2. PICK p \in {"outputs", "clock", "stamps"} : GoesOn(r, s, p)
    BY <1>5, CheckInputSignatureOutcome
  <2>3. s.phase = p /\ s.acted = r.acted /\ s.future = r.future /\ s.result = r.result /\ s.stamps = r.stamps
    BY <1>00, <2>2
  <2> QED
    BY <2>1, <2>3 DEF Proceeds, AfterAction
<1>6. CASE CheckClock(n)
  <2>1. Rest(r, s, {"phase", "step", "i", "future"}) /\ s.phase \in {"wait", "remove"} /\ r.phase = "clock"
    BY <1>6, CheckClockOutcome DEF CheckClock, ChecksClock, GoesOn, Rest
  <2>2. s.acted = r.acted /\ s.result = r.result /\ s.stamps = r.stamps
    BY <2>1 DEF Rest, FrameFields
  <2> QED
    BY <2>1, <2>2 DEF Proceeds, AfterAction
<1>7. CASE WaitUntilInThePast(n)
  <2>1. GoesOn(r, s, "remove")
    BY <1>7, WaitUntilInThePastOutcome
  <2>2. s.phase = "remove" /\ s.acted = r.acted /\ s.future = r.future /\ s.result = r.result /\ s.stamps = r.stamps
    BY <1>00, <2>1
  <2> QED
    BY <2>1, <2>2 DEF Proceeds, AfterAction
<1>8. CASE RemoveOutput(n)
  <2>1. r.phase = "remove"
    BY <1>8 DEF RemoveOutput
  <2>2. PICK p \in {"mkdir", "removed"} : GoesOn(r, s, p)
    BY <1>8, RemoveOutputOutcome
  <2>3. s.phase = p /\ s.acted = r.acted /\ s.future = r.future /\ s.result = r.result /\ s.stamps = r.stamps
    BY <1>00, <2>2
  <2> QED
    BY <2>1, <2>3 DEF Proceeds, AfterAction
<1>9. CASE MarkRemoved(n)
  <2>1. GoesOn(r, s, "mkdir")
    BY <1>9, MarkRemovedOutcome
  <2>2. s.phase = "mkdir" /\ s.acted = r.acted /\ s.future = r.future /\ s.result = r.result /\ s.stamps = r.stamps
    BY <1>00, <2>1
  <2> QED
    BY <2>1, <2>2 DEF Proceeds, AfterAction
<1>10. CASE MakeDirectory(n)
  <2>1. GoesOn(r, s, "made")
    BY <1>10, MakeDirectoryOutcome
  <2>2. s.phase = "made" /\ s.acted = r.acted /\ s.future = r.future /\ s.result = r.result /\ s.stamps = r.stamps
    BY <1>00, <2>1
  <2> QED
    BY <2>1, <2>2 DEF Proceeds, AfterAction
<1>11. CASE MarkMade(n)
  <2>1. GoesOn(r, s, "pre")
    BY <1>11, MarkMadeOutcome
  <2>2. s.phase = "pre" /\ s.acted = r.acted /\ s.future = r.future /\ s.result = r.result /\ s.stamps = r.stamps
    BY <1>00, <2>1
  <2> QED
    BY <2>1, <2>2 DEF Proceeds, AfterAction
<1>12. CASE TakePreTimestamp(n)
  BY <1>12, TakePreTimestampOutcome DEF TakePreTimestamp, Rest, FrameFields, Proceeds, AfterAction
<1>13. CASE BeginAction(n)
  BY <1>13, BeginActionOutcome DEF BeginAction, Rest, FrameFields, Proceeds, AfterAction
<1>14. CASE EndAction(n)
  BY <1>14, EndActionOutcome DEF EndAction, Rest, FrameFields, Proceeds, AfterAction
<1>15. CASE CheckWritten(n)
  <2>1. s.phase = "mark" /\ Rest(r, s, {"phase", "step", "i", "result"}) /\ r.phase = "post"
    BY <1>15, CheckWrittenOutcome DEF CheckWritten
  <2> QED
    BY <2>1 DEF Rest, FrameFields, Proceeds, AfterAction
<1>16. CASE MarkDigestDirty(n)
  <2>1. GoesOn(r, s, "marked") /\ r.phase = "mark"
    BY <1>16, MarkDigestDirtyOutcome DEF MarkDigestDirty
  <2>2. s.phase = "marked" /\ s.acted = r.acted /\ s.future = r.future /\ s.result = r.result /\ s.stamps = r.stamps
    BY <1>00, <2>1
  <2> QED
    BY <2>1, <2>2 DEF Proceeds, AfterAction
<1>17. CASE MarkStatDirty(n)
  <2>1. AfterMarking(n, r, s) /\ r.phase = "marked"
    BY <1>17, MarkStatDirtyOutcome DEF MarkStatDirty
  <2>2. /\ s.acted = r.acted /\ s.future = r.future /\ s.result = r.result /\ s.stamps = r.stamps
        /\ s.phase \in {"finished", "validate"}
    BY <2>1 DEF AfterMarking, Rest, FrameFields
  <2> QED
    BY <2>1, <2>2 DEF Proceeds, AfterAction
<1>18. ASSUME r.phase \in Signing, NEW e,
                                  \/ Signs(n, r, s, e) \/ Hashes(n, r, s, e)
                                  \/ s.phase = "hash" /\ Rest(r, s, {"phase"})
                                  \/ SignsNext(n, r, s) /\ Rest(r, s, {"phase", "step", "i"})
       PROVE  Proceeds(n)
  <2>1. /\ s.phase \in Signing \cup {"compare"}
        /\ s.acted = r.acted /\ s.future = r.future /\ s.result = r.result /\ s.stamps = r.stamps
    BY <1>18 DEF Hashes, Signs, SignsNext, Signing, Rest, FrameFields
  <2> QED
    BY <1>18, <2>1 DEF Proceeds, AfterAction, Signing
<1>19. CASE GetDigest(n)
  <2> DEFINE c == digestCache[Inputs(n)[r.i]].content
  <2>1. Signs(n, r, s, c) \/ (s.phase = "hash" /\ Rest(r, s, {"phase"}))
    BY <1>19, GetDigestOutcome
  <2>2. r.phase \in Signing
    BY <1>19 DEF GetDigest, Signing
  <2> HIDE DEF c
  <2> QED
    BY <1>18, <2>1, <2>2
<1>20. CASE HashContent(n)
  <2> DEFINE c == disk[Inputs(n)[r.i]].content
  <2>1. Signs(n, r, s, c) \/ Hashes(n, r, s, c)
    BY <1>20, HashContentOutcome
  <2>2. r.phase \in Signing
    BY <1>20 DEF HashContent, Signing
  <2> HIDE DEF c
  <2> QED
    BY <1>18, <2>1, <2>2
<1>21. CASE RememberDigest(n)
  BY <1>18, <1>21, RememberDigestOutcome DEF RememberDigest, Signing
<1> QED
  BY <1>1, <1>2, <1>3, <1>4, <1>5, <1>6, <1>7, <1>8, <1>9, <1>10, <1>11, <1>12, <1>13, <1>14, <1>15, <1>16,
     <1>17, <1>19, <1>20, <1>21 DEF NodeStep

\* What the action makes, and where it leaves it.
LEMMA ActionMakes ==
    ASSUME TypeOK, NEW n \in Graph, NodeStep(n), run[n].phase = "act"
    PROVE  LET s == run'[n] IN
           /\ s.phase = "acting" /\ s.acted \in {"succeeds", "fails", "silent"} /\ s.made = Made(Contents(n))
           /\ s.future = run[n].future /\ s.result = run[n].result /\ s.sig = run[n].sig
           /\ s.acted = "silent" => disk' = disk
           /\ s.acted # "silent" => disk'[Output(n)].mtime = clock
<1>1. BeginAction(n)
  BY DEF NodeStep, StatCacheStat, StatTheFile, StoreStat, InStat, GetDigest, HashContent, RememberDigest,
     CheckInputSignature, CheckClock, WaitUntilInThePast, RemoveOutput, MarkRemoved, MakeDirectory, MarkMade,
     TakePreTimestamp, EndAction, CheckWritten, MarkDigestDirty, MarkStatDirty, MarkSourceDirty
<1>2. PICK outcome \in sc.outcomes :
          /\ run' = [run EXCEPT ![n] = [Goto(@, "acting") EXCEPT !.acted = outcome,
                         !.made = Made([k \in DOMAIN Inputs(n) |-> disk[Inputs(n)[k]].content])]]
          /\ IF outcome = "silent" THEN UNCHANGED disk ELSE Writes(Output(n), Torn)
  BY <1>1 DEF BeginAction
<1>3. run'[n] = [Goto(run[n], "acting") EXCEPT !.acted = outcome,
                         !.made = Made([k \in DOMAIN Inputs(n) |-> disk[Inputs(n)[k]].content])]
  BY <1>2, NodeIsSound DEF TypeOK, FramesOK
<1>4. FrameOK(run[n])
  BY NodeIsSound
<1>5. /\ run'[n].acted = outcome /\ run'[n].made = Made(Contents(n))
  BY <1>3, <1>4 DEF Goto, FrameOK, FrameFields, Contents
<1>6. outcome # "silent" => disk'[Output(n)].mtime = clock
  BY <1>2, NodeIsSound DEF Writes, TypeOK, DiskOK
<1>7. /\ run'[n].phase = "acting" /\ run'[n].future = run[n].future
      /\ run'[n].result = run[n].result /\ run'[n].sig = run[n].sig
  BY <1>3, <1>4 DEF Goto, FrameOK, FrameFields
<1>8. outcome \in {"succeeds", "fails", "silent"}
  BY <1>1, <1>2, <1>5, BeginActionOutcome
<1> QED
  BY <1>2, <1>5, <1>6, <1>7, <1>8

LEMMA ActionLeaves ==
    ASSUME TypeOK, NEW n \in Graph, NodeStep(n), run[n].phase = "acting"
    PROVE  /\ run'[n].phase = "post"
           /\ run[n].acted = "succeeds" =>
               disk'[Output(n)].content = run[n].made /\ disk'[Output(n)].mtime = clock
           /\ run[n].acted # "succeeds" => disk' = disk
<1>1. EndAction(n)
  BY DEF NodeStep, StatCacheStat, StatTheFile, StoreStat, InStat, GetDigest, HashContent, RememberDigest,
     CheckInputSignature, CheckClock, WaitUntilInThePast, RemoveOutput, MarkRemoved, MakeDirectory, MarkMade,
     TakePreTimestamp, BeginAction, CheckWritten, MarkDigestDirty, MarkStatDirty, MarkSourceDirty
<1>2. run'[n].phase = "post"
  BY <1>1, EndActionOutcome
<1>3. run[n].acted = "succeeds" => disk' = [disk EXCEPT ![Output(n)] = [content |-> run[n].made, mtime |-> clock]]
  BY <1>1 DEF EndAction, Writes
<1>4. run[n].acted # "succeeds" => disk' = disk
  BY <1>1 DEF EndAction
<1> QED
  BY <1>2, <1>3, <1>4, NodeIsSound DEF TypeOK, DiskOK

\* A thread that is not at the action leaves its output, or removes it.
LEMMA OutputOtherwise ==
    ASSUME TypeOK, NEW n \in Graph, NodeStep(n), run[n].phase \notin {"act", "acting"}
    PROVE  \/ disk'[Output(n)] = disk[Output(n)]
           \/ run[n].phase = "remove" /\ disk'[Output(n)] = Absent
<1>1. DiskStep(n) /\ Output(n) \in Files \ {Dir}
  BY NodeEffects, NodeIsSound DEF NodeEffect
<1> QED
  BY <1>1 DEF DiskStep

LEMMA NodeStepHistory ==
    ASSUME NEW n, NodeStep(n)
    PROVE  /\ edited' = edited
           /\ \/ torn' = torn
              \/ run[n].phase = "acting" /\ run[n].acted = "succeeds" /\ torn' = torn \ {n}
BY DEF NodeStep, StatCacheStat, StatTheFile, StoreStat, GetDigest, HashContent, RememberDigest,
     CheckInputSignature, CheckClock, WaitUntilInThePast, RemoveOutput, MarkRemoved, MakeDirectory, MarkMade,
     TakePreTimestamp, BeginAction, EndAction, CheckWritten, MarkDigestDirty, MarkStatDirty, MarkSourceDirty, history

---------------------------------------------------------------------------
(* A step of the thread that executes n, for n *)

LEMMA NodePasses ==
    ASSUME TypeOK, edited \in BOOLEAN, NEW q \in Graph, NodeStep(q)
    PROVE  Passes /\ clock' = clock /\ edited' = edited
<1>1. /\ scenario' = scenario /\ mode' = mode /\ clock' = clock /\ built' = built /\ clock \in Nat
  BY NodeStepIsInBuild DEF Surroundings, TypeOK, TimesOK
<1>2. edited' = edited
  BY NodeStepHistory
<1>3. ASSUME NEW f \in Files, IsSource(f) PROVE disk'[f] = disk[f]
  <2>1. f # Output(q) /\ f # Dir
    BY <1>3, GraphFacts DEF IsSource, TypeOK
  <2>2. DiskStep(q)
    BY NodeEffects DEF NodeEffect
  <2> QED
    BY <1>3, <2>1, <2>2 DEF DiskStep
<1> QED
  BY <1>1, <1>2, <1>3 DEF Passes

Own(n) ==
    /\ scenario' = scenario /\ mode' = mode /\ built' = built /\ clock' = clock /\ edited' = edited
    /\ Inputs(n)' = Inputs(n) /\ Outputs' = Outputs /\ Output(n)' = Output(n) /\ Producers(n)' = Producers(n)
    /\ Good(n)' = Good(n) /\ Contents(n)' = Contents(n)
    /\ \A k \in DOMAIN Inputs(n) : disk'[Inputs(n)[k]] = disk[Inputs(n)[k]]
    /\ \A p \in Producers(n) : disk'[Output(p)] = disk[Output(p)] /\ run'[p] = run[p] /\ Output(p)' = Output(p)

LEMMA OwnStep ==
    ASSUME TypeOK, edited \in BOOLEAN, NEW n \in Graph, ProducersFirst(n), NodeStep(n)
    PROVE  Own(n)
<1>0. Passes /\ clock' = clock /\ edited' = edited /\ run[n].phase \notin {"idle", "finished"}
  BY NodePasses, NodeStepOfActive
<1>1. /\ scenario' = scenario /\ mode' = mode /\ built' = built
      /\ Inputs(n)' = Inputs(n) /\ Outputs' = Outputs /\ Output(n)' = Output(n) /\ Producers(n)' = Producers(n)
      /\ \A p : Output(p)' = Output(p)
  BY <1>0, SameGraph DEF Passes
<1>2. ASSUME NEW k \in DOMAIN Inputs(n) PROVE disk'[Inputs(n)[k]] = disk[Inputs(n)[k]]
  <2>1. Inputs(n)[k] \in ToSet(Inputs(n))
    BY InputIsSourceOrMade
  <2>2. CASE Inputs(n)[k] \in Outputs
    BY <1>0, <2>1, <2>2, InputsStay
  <2>3. CASE Inputs(n)[k] \notin Outputs
    <3>1. PICK j \in DOMAIN Sources(n) : Sources(n)[j] = Inputs(n)[k]
      BY <2>3, InputIsSourceOrMade
    <3>2. DiskStep(n)
      BY NodeEffects DEF NodeEffect
    <3> QED
      BY <3>1, <3>2, SourcesStay
  <2> QED
    BY <2>2, <2>3
<1>3. ASSUME NEW p \in Producers(n) PROVE disk'[Output(p)] = disk[Output(p)] /\ run'[p] = run[p]
  <2>1. p \in Graph /\ run[p].phase = "finished" /\ \E k \in DOMAIN Inputs(n) : Inputs(n)[k] = Output(p)
    BY <1>0, OutputOfProducer DEF ProducersFirst
  <2>2. p \in Nodes \ {n}
    BY <1>0, <2>1, GraphFacts DEF TypeOK
  <2> QED
    BY <1>2, <2>1, <2>2, NodeFrames
<1>4. Contents(n)' = Contents(n)
  BY <1>1, <1>2 DEF Contents
<1>5. Good(n)' = Good(n)
  BY <1>1 DEF Good
<1> QED
  BY <1>0, <1>1, <1>2, <1>3, <1>4, <1>5 DEF Own

LEMMA OwnToldStays ==
    ASSUME NEW n, Own(n), NEW sig, NEW content
    PROVE  /\ Tells(n, sig, content)' <=> Tells(n, sig, content)
           /\ Made(Contents(n))' = Made(Contents(n))
<1>1. SameTimes(n, sig)' <=> SameTimes(n, sig)
  BY DEF Own, SameTimes, Now
<1>2. Made(Contents(n))' = Made(Contents(n))
  BY DEF Own, Made
<1> QED
  BY <1>1, <1>2 DEF Tells

LEMMA OwnRecordDated ==
    ASSUME TypeOK, NEW n \in Graph, RecordDated(n), Own(n), NodeStep(n)
    PROVE  RecordDated(n)'
<1>1. run'[n].phase # "idle" /\ clock \in Nat
  BY NodeProceeds DEF Proceeds, TypeOK, TimesOK
<1>2. \/ disk'[Output(n)] = disk[Output(n)]
      \/ disk'[Output(n)].mtime = 0
      \/ disk'[Output(n)].mtime = clock
  <2>1. CASE run[n].phase = "act"
    BY <2>1, ActionMakes
  <2>2. CASE run[n].phase = "acting"
    BY <2>2, ActionLeaves
  <2>3. CASE run[n].phase \notin {"act", "acting"}
    BY <2>3, OutputOtherwise DEF Absent
  <2> QED
    BY <2>1, <2>2, <2>3
<1>3. ASSUME Good(n), NEW k \in DOMAIN Inputs(n)
      PROVE  LET sig == built[n].sig IN
             /\ Len(sig) = Len(Inputs(n))
             /\ Dated(sig[k])
             /\ Inputs(n)[k] \notin Outputs => sig[k][1] < clock
             /\ Inputs(n)[k] \in Outputs =>
                  sig[k][1] \in 1 .. clock /\ (disk'[Output(n)].mtime # 0 => sig[k][1] <= disk'[Output(n)].mtime)
  BY <1>1, <1>2, <1>3 DEF RecordDated, Exists
<1>4. Good(n) => Len(built[n].sig) = Len(Inputs(n))
  BY DEF RecordDated
<1>5. \A k : Dated(built[n].sig[k])' = Dated(built[n].sig[k])
  BY DEF Dated, Own
<1> QED
  BY <1>1, <1>3, <1>4, <1>5 DEF RecordDated, Own, Exists

LEMMA OwnRecordTrue ==
    ASSUME TypeOK, NEW n \in Graph, RecordTrue(n), Course(n), RunTrue(n), mode = "building", Own(n), NodeStep(n)
    PROVE  RecordTrue(n)'
<1> DEFINE r == run[n]
           s == run'[n]
<1>0. mode' = "building" /\ Running /\ Running'
  BY DEF Own, Running
<1>1. SUFFICES ASSUME Good(n), Exists(n)', n \notin torn', ~Spoiled(n)'
               PROVE  Tells(n, built[n].sig, disk'[Output(n)].content)
  <2>1. Tells(n, built[n].sig, disk[Output(n)].content)' <=> Tells(n, built[n].sig, disk'[Output(n)].content)
    <3> DEFINE sig == built[n].sig
               content == disk'[Output(n)].content
    <3>1. \A g, c : Tells(n, g, c)' <=> Tells(n, g, c)
      BY OwnToldStays
    <3>2. built' = built /\ Output(n)' = Output(n)
      BY DEF Own
    <3> QED
      BY <3>1, <3>2
  <2>2. Good(n)' = Good(n)
    BY DEF Own
  <2> QED
    BY <1>0, <2>1, <2>2 DEF RecordTrue
<1>2. s.acted # "fails" /\ ~(s.phase = "acting" /\ s.acted # "silent")
  BY <1>0, <1>1 DEF Spoiled
<1>3. CASE r.phase = "acting"
  <2>1. s.phase = "post" /\ s.acted = r.acted
    BY <1>3, ActionLeaves, NodeProceeds DEF Proceeds
  <2>2. CASE r.acted = "succeeds"
    <3>1. disk'[Output(n)].content = r.made
      BY <1>3, <2>2, ActionLeaves
    <3>2. Tells(n, built[n].sig, r.made)
      BY <1>1, <1>3 DEF RunTrue
    <3> QED
      BY <3>1, <3>2
  <2>3. CASE r.acted # "succeeds"
    <3>1. disk' = disk /\ torn' = torn
      BY <1>3, <2>3, ActionLeaves, NodeStepHistory
    <3>2. r.acted = "silent"
      BY <1>2, <1>3, <2>1, <2>3 DEF Course, AfterAction
    <3>3. ~Spoiled(n) /\ Exists(n) /\ n \notin torn
      BY <1>1, <3>1, <3>2 DEF Spoiled, Exists, Own
    <3> QED
      BY <1>1, <3>1, <3>3 DEF RecordTrue
  <2> QED
    BY <2>2, <2>3
<1>4. CASE r.phase # "acting"
  <2>1. torn' = torn
    BY <1>4, NodeStepHistory
  <2>2. r.acted # "fails"
    <3>1. CASE r.phase = "act"
      BY <3>1 DEF Course, AfterAction
    <3>2. CASE r.phase # "act"
      BY <1>2, <3>2, NodeProceeds DEF Proceeds
    <3> QED
      BY <3>1, <3>2
  <2>3. ~Spoiled(n) /\ n \notin torn
    BY <1>1, <1>4, <2>1, <2>2 DEF Spoiled
  <2>4. disk'[Output(n)] = disk[Output(n)]
    <3>1. CASE r.phase = "act"
      BY <1>2, <3>1, ActionMakes
    <3>2. CASE r.phase # "act"
      BY <1>1, <1>4, <3>2, OutputOtherwise DEF Exists, Absent, Own
    <3> QED
      BY <3>1, <3>2
  <2>5. Exists(n)
    BY <1>1, <2>4 DEF Exists, Own
  <2> QED
    BY <1>1, <2>3, <2>4, <2>5 DEF RecordTrue
<1> QED
  BY <1>3, <1>4

\* Left alone is a node whose record is good and of the signature just computed.
LEMMA ComparedEqual ==
    ASSUME TypeOK, BuiltOK, NEW n \in Graph, NodeStep(n), run[n].phase = "compare", run'[n].phase = "outputs"
    PROVE  Good(n) /\ run[n].sig = built[n].sig /\ run'[n].sig = run[n].sig
<1>1. CheckInputSignature(n)
  BY DEF NodeStep, StatCacheStat, StatTheFile, StoreStat, InStat, GetDigest, HashContent, RememberDigest,
     CheckClock, WaitUntilInThePast, RemoveOutput, MarkRemoved, MakeDirectory, MarkMade,
     TakePreTimestamp, BeginAction, EndAction, CheckWritten, MarkDigestDirty, MarkStatDirty, MarkSourceDirty
<1>2. run'[n] = Goto(run[n], IF ~NeedsRun(n) THEN "outputs" ELSE FirstOfRun(n))
  BY <1>1, NodeIsSound DEF CheckInputSignature, TypeOK, FramesOK
<1>3. FirstOfRun(n) \in {"clock", "stamps"}
  BY DEF FirstOfRun
<1>4. \A p \in Phases : Goto(run[n], p).phase = p
  BY NodeIsSound, Going
<1>5. ~NeedsRun(n)
  BY <1>2, <1>3, <1>4 DEF Phases
<1> QED
  BY <1>5, KeepsSignature DEF NeedsRun, Good, BuiltOK, Signing

\* What the look at an existing output answers.
LEMMA LookedAtOutput ==
    ASSUME TypeOK, NEW n \in Graph, OutputEntered(n), NodeStep(n), run[n].phase = "outputs"
    PROVE  /\ disk' = disk
           /\ \/ Rest(run[n], run'[n], {"step", "known", "seen"})
              \/ Exists(n) /\ Ends(run[n], run'[n], "kUpToDate")
              \/ ~Exists(n) /\ GoesOn(run[n], run'[n], FirstOfRun(n))
<1> DEFINE r == run[n]
           s == run'[n]
<1>1. disk' = disk /\ (StatCacheStat(n) \/ StatTheFile(n) \/ StoreStat(n)) /\ StatFile(n) = Output(n)
  BY AsksInSteps DEF StatFile
<1>2. ASSUME Answers(n, r, s, disk[Output(n)].mtime)
      PROVE  \/ Exists(n) /\ Ends(r, s, "kUpToDate")
             \/ ~Exists(n) /\ GoesOn(r, s, FirstOfRun(n))
  BY <1>2 DEF Answers, Exists
<1>3. CASE StatCacheStat(n)
  <2>1. statCache[Output(n)] = <<>>
    BY DEF OutputEntered, NotLooked
  <2>2. Rest(r, s, {"step", "known"})
    BY <1>1, <1>3, <2>1, StatCacheStatOutcome DEF Looks
  <2> QED
    BY <1>1, <2>2 DEF Rest, FrameFields
<1>4. CASE StatTheFile(n)
  BY <1>1, <1>4, StatTheFileOutcome DEF Rest, FrameFields
<1>5. CASE StoreStat(n)
  <2>1. r.seen = disk[Output(n)].mtime
    BY <1>5 DEF OutputEntered, Fresh, GetFileInfo, StoreStat, InStat
  <2> QED
    BY <1>1, <1>2, <1>5, <2>1, StoreStatOutcome
<1> QED
  BY <1>1, <1>3, <1>4, <1>5

\* How a node that ran is finished.
LEMMA FinishedAfterAction ==
    ASSUME TypeOK, NEW n \in Graph, WatchedBy(n), NodeStep(n), run[n].phase \in {"marked", "validate"},
           run'[n].phase = "finished"
    PROVE  run'[n].future => run'[n].doubtful
<1>1. CASE run[n].phase = "marked"
  <2>1. MarkStatDirty(n)
    BY <1>1 DEF NodeStep, StatCacheStat, StatTheFile, StoreStat, InStat, GetDigest, HashContent, RememberDigest,
       CheckInputSignature, CheckClock, WaitUntilInThePast, RemoveOutput, MarkRemoved, MakeDirectory, MarkMade,
       TakePreTimestamp, BeginAction, EndAction, CheckWritten, MarkDigestDirty, MarkSourceDirty
  <2> QED
    BY <2>1, MarkStatDirtyOutcome DEF AfterMarking, Rest, FrameFields
<1>2. CASE run[n].phase = "validate"
  <2>1. ~run[n].future
    BY <1>2 DEF WatchedBy
  <2> QED
    BY <1>2, <2>1, NodeProceeds DEF Proceeds
<1> QED
  BY <1>1, <1>2

LEMMA Judged ==
    ASSUME TypeOK, NEW n \in Graph, NodeStep(n), run[n].phase = "post"
    PROVE  run'[n].phase = "mark" /\ run'[n].result \in {"kRanSuccesfully", "kRanFailed"}
<1>1. CheckWritten(n)
  BY DEF NodeStep, StatCacheStat, StatTheFile, StoreStat, InStat, GetDigest, HashContent, RememberDigest,
     CheckInputSignature, CheckClock, WaitUntilInThePast, RemoveOutput, MarkRemoved, MakeDirectory, MarkMade,
     TakePreTimestamp, BeginAction, EndAction, MarkDigestDirty, MarkStatDirty, MarkSourceDirty
<1> QED
  BY <1>1, CheckWrittenOutcome

LEMMA OwnCourse ==
    ASSUME TypeOK, BuiltOK, NEW n \in Graph, Course(n), WatchedBy(n), OutputEntered(n), mode = "building",
           Own(n), NodeStep(n)
    PROVE  Course(n)'
<1> DEFINE r == run[n]
           s == run'[n]
<1>0. r.phase \notin {"idle", "finished"} /\ Proceeds(n) /\ mode' = "building" /\ built' = built
  BY NodeStepOfActive, NodeProceeds DEF Own
<1>1. ASSUME s.phase \in AfterAction PROVE s.acted \in {"succeeds", "fails", "silent"}
  <2>1. CASE r.phase = "act"
    BY <2>1, ActionMakes
  <2>2. CASE r.phase # "act"
    BY <1>0, <1>1, <2>2 DEF Proceeds, Course
  <2> QED
    BY <2>1, <2>2
<1>2. ASSUME s.acted # "no"
      PROVE  /\ s.phase \in AfterAction \cup {"finished"} /\ Len(s.sig) = Len(Inputs(n))
             /\ s.phase \in {"mark", "marked", "validate", "finished"} => s.result \in {"kRanSuccesfully", "kRanFailed"}
  <2>1. CASE r.phase = "act"
    <3>1. s.phase = "acting" /\ s.sig = r.sig
      BY <2>1, ActionMakes
    <3>2. Len(r.sig) = Len(Inputs(n))
      BY <2>1, NodeIsSound DEF Sound, IndexOK, Stamped
    <3> QED
      BY <3>1, <3>2 DEF AfterAction
  <2>2. CASE r.phase # "act"
    <3>1. r.acted # "no"
      BY <1>0, <1>2, <2>2 DEF Proceeds
    <3>2. r.phase \in AfterAction /\ Len(r.sig) = Len(Inputs(n))
      BY <1>0, <3>1 DEF Course
    <3>3. s.sig = r.sig /\ s.phase \in AfterAction \cup {"finished"}
      BY <3>2, KeepsSignature DEF Signing, Acted, AfterAction
    <3>4. ASSUME s.phase \in {"mark", "marked", "validate", "finished"}
          PROVE  s.result \in {"kRanSuccesfully", "kRanFailed"}
      <4>1. r.phase \in {"post", "mark", "marked", "validate"}
        BY <1>0, <3>2, <3>4 DEF Proceeds, AfterAction
      <4>2. CASE r.phase = "post"
        BY <4>2, Judged
      <4>3. CASE r.phase # "post"
        <5>1. s.result = r.result
          BY <1>0, <4>1, <4>3 DEF Proceeds
        <5> QED
          BY <3>1, <4>1, <4>3, <5>1 DEF Course
      <4> QED
        BY <4>2, <4>3
    <3> QED
      BY <3>2, <3>3, <3>4
  <2> QED
    BY <2>1, <2>2
<1>3. ASSUME s.phase = "outputs" PROVE Good(n) /\ s.sig = built[n].sig
  <2>1. CASE r.phase = "compare"
    BY <1>3, <2>1, ComparedEqual
  <2>2. CASE r.phase = "outputs"
    BY <2>2, KeepsSignature DEF Course, Signing
  <2> QED
    BY <1>0, <1>3, <2>1, <2>2 DEF Proceeds
<1>4. ASSUME s.result = "kUpToDate"
      PROVE  s.phase = "finished" /\ Good(n) /\ s.sig = built[n].sig /\ Exists(n)'
  <2>1. r.result # "kUpToDate"
    BY <1>0 DEF Course
  <2>2. r.phase # "post"
    BY <1>4, Judged
  <2>3. r.phase = "outputs"
    BY <1>0, <1>4, <2>1, <2>2 DEF Proceeds
  <2>4. ~Rest(r, s, {"step", "known", "seen"}) /\ ~GoesOn(r, s, FirstOfRun(n))
    BY <1>4, <2>1 DEF Rest, FrameFields, GoesOn
  <2>5. disk' = disk /\ Exists(n) /\ Ends(r, s, "kUpToDate")
    BY <2>3, <2>4, LookedAtOutput
  <2>6. Good(n) /\ r.sig = built[n].sig
    BY <2>3 DEF Course
  <2> QED
    BY <2>5, <2>6 DEF Ends, Rest, FrameFields, Exists, Own
<1>5. ASSUME s.phase = "finished", s.future, s.result = "kRanSuccesfully" PROVE s.doubtful
  <2>1. CASE r.phase = "outputs"
    <3>1. ~Rest(r, s, {"step", "known", "seen"}) /\ ~GoesOn(r, s, FirstOfRun(n))
      BY <1>5, <2>1 DEF Rest, FrameFields, GoesOn, FirstOfRun
    <3> QED
      BY <1>5, <2>1, <3>1, LookedAtOutput DEF Ends
  <2>2. CASE r.phase \in {"marked", "validate"}
    BY <1>5, <2>2, FinishedAfterAction
  <2> QED
    BY <1>0, <1>5, <2>1, <2>2 DEF Proceeds
<1>6. \A p \in Producers(n) : run'[p].phase = "finished" /\ Successful(p)'
  <2>1. \A p \in Producers(n) : run[p].phase = "finished" /\ Successful(p)
    BY <1>0 DEF Course
  <2> QED
    BY <2>1 DEF Own, Successful
<1>7. Len(Inputs(n))' = Len(Inputs(n)) /\ Producers(n)' = Producers(n) /\ Good(n)' = Good(n)
  BY DEF Own
<1>8. built[n].sig' = built[n].sig
  BY <1>0
<1> QED
  BY <1>0, <1>1, <1>2, <1>3, <1>4, <1>5, <1>6, <1>7, <1>8 DEF Course

LEMMA SignedTimesPast ==
    ASSUME TypeOK, NEW n \in Graph, WatchedBy(n), Remembered(n), run[n].phase = "act", ~run[n].future,
           NEW k \in DOMAIN Inputs(n), Inputs(n)[k] \notin Outputs
    PROVE  run[n].sig[k][1] < clock
<1>1. PICK j \in DOMAIN Sources(n) : Sources(n)[j] = Inputs(n)[k]
  BY InputIsSourceOrMade
<1>2. run[n].stamps[j] < clock
  BY DEF WatchedBy, BeforeAction
<1>3. j \in DOMAIN run[n].stamps /\ run[n].stamps[j] \in Nat
  BY StampsAreTimes DEF Stamped
<1>4. run[n].sig[k] = <<run[n].stamps[j]>>
  BY <1>1, <1>3 DEF Remembered
<1> QED
  BY <1>2, <1>3, <1>4, TimeIsDated

LEMMA OwnRunTrue ==
    ASSUME TypeOK, OutputTimes, NEW n \in Graph, Course(n), RunTrue(n), WatchedBy(n), Remembered(n),
           mode = "building", Own(n), NodeStep(n)
    PROVE  RunTrue(n)'
<1> DEFINE r == run[n]
           s == run'[n]
           content == IF r.phase = "acting" THEN r.made ELSE disk[Output(n)].content
           after == IF s.phase = "acting" THEN s.made ELSE disk'[Output(n)].content
<1>0. /\ r.phase \notin {"idle", "finished"} /\ Proceeds(n) /\ mode' = "building" /\ built' = built
      /\ clock \in Nat \ {0} /\ clock' = clock
      /\ Inputs(n)' = Inputs(n) /\ Outputs' = Outputs /\ Producers(n)' = Producers(n)
      /\ Good(n)' = Good(n) /\ edited' = edited /\ Output(n)' = Output(n)
      /\ \A p \in Producers(n) : Output(p)' = Output(p)
  BY NodeStepOfActive, NodeProceeds DEF Own, TypeOK, TimesOK
<1>1. /\ \A g, c : Tells(n, g, c)' <=> Tells(n, g, c)
      /\ Made(Contents(n))' = Made(Contents(n))
  BY OwnToldStays
<1>2. CASE r.phase = "act"
  <2>1. /\ s.phase = "acting" /\ s.made = Made(Contents(n))
        /\ s.future = r.future /\ s.sig = r.sig
    BY <1>2, ActionMakes
  <2>2. ~r.future => \A k \in DOMAIN Inputs(n) : Inputs(n)[k] \notin Outputs => r.sig[k][1] < clock
    BY <1>2, SignedTimesPast
  <2>3. \A g : Tells(n, g, Made(Contents(n)))
    BY DEF Tells
  <2>4. \A g, c : c = Made(Contents(n)) => Tells(n, g, c)'
    BY <1>1, <2>3
  <2>5. Tells(n, run[n].sig, run[n].made)' /\ Tells(n, built[n].sig, run[n].made)'
    BY <2>1, <2>4
  <2> HIDE DEF content
  <2> QED
    BY <1>0, <1>1, <2>1, <2>2, <2>5 DEF RunTrue
<1>3. CASE r.phase # "act"
  <2>1. s.acted = r.acted /\ s.phase # "acting"
    BY <1>0, <1>3 DEF Proceeds
  <2>2. ASSUME r.acted # "no"
        PROVE  r.phase \in AfterAction /\ s.sig = r.sig /\ s.future = r.future
    <3>1. r.phase \in AfterAction
      BY <1>0, <2>2 DEF Course
    <3> QED
      BY <1>0, <3>1, KeepsSignature DEF Proceeds, AfterAction, Signing
  <2>3. ASSUME r.acted = "succeeds"
        PROVE  /\ disk'[Output(n)].content = content
               /\ disk'[Output(n)].mtime # 0
               /\ \A p \in Producers(n) : disk'[Output(p)].mtime <= disk'[Output(n)].mtime
    <3>1. CASE r.phase = "acting"
      <4>1. disk'[Output(n)].content = r.made /\ disk'[Output(n)].mtime = clock
        BY <2>3, <3>1, ActionLeaves
      <4>2. \A p \in Producers(n) : disk'[Output(p)].mtime <= clock
        BY OutputOfProducer DEF OutputTimes, Own
      <4> QED
        BY <1>0, <3>1, <4>1, <4>2
    <3>2. CASE r.phase # "acting"
      <4>1. r.phase # "remove"
        BY <2>2, <2>3 DEF AfterAction
      <4>2. disk'[Output(n)] = disk[Output(n)]
        BY <1>3, <3>2, <4>1, OutputOtherwise
      <4> QED
        BY <2>3, <3>2, <4>2 DEF RunTrue, Exists, Own
    <3> QED
      BY <3>1, <3>2
  <2>4. ASSUME r.acted = "succeeds", ~r.future PROVE Tells(n, r.sig, content)
    BY <2>4 DEF RunTrue
  <2>5. ASSUME r.acted = "succeeds", ~edited PROVE content = Made(Contents(n))
    BY <2>5 DEF RunTrue
  <2>6. ASSUME r.acted # "no", ~r.future, NEW k \in DOMAIN Inputs(n), Inputs(n)[k] \notin Outputs
        PROVE  r.sig[k][1] < clock
    BY <2>6 DEF RunTrue
  <2> HIDE DEF content
  <2>7. ASSUME r.acted = "succeeds", ~r.future PROVE Tells(n, run[n].sig, disk[Output(n)].content)'
    <3>1. \A g, c : g = s.sig /\ c = disk'[Output(n)].content => Tells(n, g, c)'
      BY <1>1, <2>2, <2>3, <2>4, <2>7
    <3> QED
      BY <1>0, <3>1
  <2>8. s.acted = "succeeds" => Exists(n)'
    BY <1>0, <2>1, <2>3 DEF Exists
  <2> QED
    BY <1>0, <1>1, <2>1, <2>2, <2>3, <2>5, <2>6, <2>7, <2>8 DEF RunTrue
<1> QED
  BY <1>2, <1>3

---------------------------------------------------------------------------
(* Signing the times of files *)

\* Before a node has an answer it has looked in the cache, or at the disk.
AsksOn(n) ==
    LET r == run[n]
        s == run'[n]
    IN
    \/ s.step \in {"look", "dirty"}
    \/ s.phase \notin Asked
    \/ /\ s.step = "info" /\ s.known = (statCache[StatFile(n)] # <<>>) /\ ~StatCacheIsClean(StatFile(n))
       /\ statCache' = statCache /\ Rest(r, s, {"step", "known"})
    \/ /\ r.step = "info" /\ s.step = "store" /\ s.seen = GetFileInfo(StatFile(n))
       /\ disk' = disk /\ statCache' = statCache /\ Rest(r, s, {"step", "seen"})

LEMMA NodeAsksOn ==
    ASSUME TypeOK, NEW n \in Graph, NodeStep(n)
    PROVE  AsksOn(n)
<1>1. CASE StatCacheStat(n)
  <2>1. Looks(n, run[n], run'[n]) /\ statCache' = statCache
        /\ run[n].phase \in {"sign", "outputs", "stamps", "mkdir", "validate"}
    BY <1>1, StatCacheStatOutcome DEF StatCacheStat, InStat, caches
  <2>2. CASE \E t : Answers(n, run[n], run'[n], t)
    BY <2>1, <2>2, AnswersAreSettled DEF AsksOn
  <2> QED
    BY <2>1, <2>2 DEF Looks, AsksOn
<1>2. CASE StatTheFile(n)
  BY <1>2, StatTheFileOutcome DEF StatTheFile, InStat, caches, AsksOn
<1>3. CASE StoreStat(n)
  BY <1>3, StoreStatOutcome, AnswersAreSettled DEF StoreStat, InStat, AsksOn
<1>4. CASE GetDigest(n)
  BY <1>4, GetDigestOutcome DEF Signs, SignsNext, AsksOn, Asked
<1>5. CASE HashContent(n)
  <2> DEFINE c == disk[Inputs(n)[run[n].i]].content
  <2>1. Signs(n, run[n], run'[n], c) \/ Hashes(n, run[n], run'[n], c)
    BY <1>5, HashContentOutcome
  <2> HIDE DEF c
  <2> QED
    BY <2>1 DEF Hashes, Signs, SignsNext, AsksOn, Asked
<1>6. CASE RememberDigest(n)
  BY <1>6, RememberDigestOutcome DEF SignsNext, AsksOn
<1>7. CASE MarkStatDirty(n)
  BY <1>7, MarkStatDirtyOutcome DEF AfterMarking, AsksOn, Asked
<1>8. CASE MarkSourceDirty(n)
  BY <1>8, MarkSourceDirtyOutcome DEF AsksOn
<1>9. CASE CheckInputSignature(n) \/ CheckClock(n) \/ WaitUntilInThePast(n)
  BY <1>9, CheckInputSignatureOutcome, CheckClockOutcome, WaitUntilInThePastOutcome
     DEF GoesOn, ChecksClock, AsksOn
<1>10. CASE RemoveOutput(n) \/ MarkRemoved(n) \/ MakeDirectory(n) \/ MarkMade(n) \/ MarkDigestDirty(n)
  BY <1>10, RemoveOutputOutcome, MarkRemovedOutcome, MakeDirectoryOutcome, MarkMadeOutcome,
     MarkDigestDirtyOutcome DEF GoesOn, AsksOn
<1>11. CASE TakePreTimestamp(n) \/ BeginAction(n) \/ EndAction(n) \/ CheckWritten(n)
  <2>1. run'[n].phase \in {"act", "acting", "post", "mark"}
    BY <1>11, TakePreTimestampOutcome, BeginActionOutcome, EndActionOutcome, CheckWrittenOutcome
  <2> QED
    BY <2>1 DEF AsksOn, Asked
<1> QED
  BY <1>1, <1>2, <1>3, <1>4, <1>5, <1>6, <1>7, <1>8, <1>9, <1>10, <1>11 DEF NodeStep

LEMMA SignStep ==
    ASSUME TypeOK, sc.digests = {}, NEW n \in Graph, NodeStep(n), run[n].phase = "sign"
    PROVE  LET r == run[n]
               s == run'[n]
               f == Inputs(n)[r.i] IN
           \/ Rest(r, s, {"step", "known", "seen"}) /\ statCache' = statCache
           \/ /\ StatCacheIsClean(f) /\ statCache' = statCache /\ HashTableLookup(f).mtime \in Nat
              /\ statCache[f] # <<>> /\ HashTableLookup(f) = statCache[f][1] /\ ~statCache[f][1].dirty
              /\ Signs(n, r, s, <<HashTableLookup(f).mtime>>)
           \/ r.step = "store" /\ Stored(f, r.seen, r.known) /\ Signs(n, r, s, <<r.seen>>)
<1> DEFINE r == run[n]
           s == run'[n]
           f == Inputs(n)[r.i]
<1>1. StatFile(n) = f /\ f \in Files
  BY StatFileIsAFile
<1>2. \A t : Answers(n, r, s, t) => Signs(n, r, s, <<t>>)
  BY DEF Answers, AnswersSign
<1>3. CASE StatCacheStat(n)
  <2>1. Looks(n, r, s) /\ statCache' = statCache
    BY <1>3, StatCacheStatOutcome DEF StatCacheStat, caches
  <2>2. CASE Rest(r, s, {"step", "known"})
    BY <2>1, <2>2 DEF Rest, FrameFields
  <2>3. CASE ~Rest(r, s, {"step", "known"})
    <3>1. /\ StatCacheIsClean(f) /\ statCache[f] # <<>> /\ statCache[f][1].mtime \in Nat /\ ~statCache[f][1].dirty
          /\ Answers(n, r, s, statCache[f][1].mtime)
      BY <1>1, <2>1, <2>3 DEF Looks
    <3>2. HashTableLookup(f) = statCache[f][1]
      BY <1>1, <3>1, FirstEntry
    <3> QED
      BY <1>2, <2>1, <3>1, <3>2
  <2> QED
    BY <2>2, <2>3
<1>4. CASE StatTheFile(n)
  BY <1>4, StatTheFileOutcome DEF StatTheFile, caches, Rest, FrameFields
<1>5. CASE StoreStat(n)
  <2>1. r.step = "store" /\ Signs(n, r, s, <<r.seen>>)
    BY <1>2, <1>5, StoreStatOutcome DEF StoreStat, InStat
  <2>2. StatOK /\ r.seen \in Nat /\ r.known \in BOOLEAN
    BY NodeIsSound DEF TypeOK, FrameOK
  <2>3. Stored(f, r.seen, r.known)
    <3>1. CASE r.known
      BY <1>1, <1>5, <2>2, <3>1, Updating DEF StoreStat
    <3>2. CASE ~r.known
      BY <1>1, <1>5, <2>2, <3>2, Inserting DEF StoreStat
    <3> QED
      BY <2>2, <3>1, <3>2
  <2> QED
    BY <2>1, <2>3
<1> QED
  BY <1>3, <1>4, <1>5, AsksInSteps

LEMMA SuccessfulExists ==
    ASSUME NEW p, Course(p), EarnedBy(p), RunTrue(p), Successful(p)
    PROVE  Exists(p)
<1>1. CASE run[p].result = "kUpToDate"
  BY <1>1 DEF Course
<1>2. CASE run[p].result = "kRanSuccesfully"
  BY <1>2 DEF EarnedBy, RunTrue
<1> QED
  BY <1>1, <1>2 DEF Successful

\* An output that n has signed is signed as dated, and is there.
LEMMA OwnOutputsHonest ==
    ASSUME TypeOK, TypeOK', sc.digests = {}, NEW n \in Graph, SignsFresh(n)', Own(n), NodeStep(n),
           run[n].phase \in Signing, \A p \in Producers(n) : Exists(p),
           NEW k \in DOMAIN run'[n].sig, k \in DOMAIN Inputs(n), Inputs(n)[k] \in Outputs
    PROVE  run'[n].sig[k] = <<disk'[Inputs(n)[k]].mtime>> /\ disk'[Inputs(n)[k]].mtime # 0
<1>0. /\ Inputs(n)' = Inputs(n) /\ Outputs' = Outputs /\ sc' = sc
  BY SameGraph DEF Own
<1>1. run'[n].phase \in Signing \cup HasSigned
  <2>1. run'[n].phase \in Signing \cup {"compare"}
    BY NodeFollows DEF Follows
  <2> QED
    BY <2>1 DEF HasSigned
<1>2. run'[n].sig[k] = SignatureOf(Inputs(n)[k])'
  BY <1>0, <1>1 DEF SignsFresh
<1>3. SignatureOf(Inputs(n)[k])' = <<disk'[Inputs(n)[k]].mtime>>
  BY <1>0 DEF SignatureOf
<1>4. PICK p \in Producers(n) : Output(p) = Inputs(n)[k]
  BY InputIsSourceOrMade
<1>5. disk'[Inputs(n)[k]].mtime # 0
  BY <1>4 DEF Exists, Own
<1> QED
  BY <1>2, <1>3, <1>5

\* The time n signs of a source is that on the disk, or the user has renewed it.
LEMMA SignedSourceHonest ==
    ASSUME TypeOK, sc.digests = {}, mode = "building", NEW n \in Graph, Honest(n), NodeStep(n),
           \A f \in Files : IsSource(f) => SourceEntered(f),
           run[n].phase = "sign", ~Rest(run[n], run'[n], {"step", "known", "seen"}),
           Inputs(n)[run[n].i] \notin Outputs
    PROVE  \E t \in Nat : Signs(n, run[n], run'[n], <<t>>) /\ TrueOrRenewed(Inputs(n)[run[n].i], t)
<1> DEFINE r == run[n]
           s == run'[n]
           f == Inputs(n)[r.i]
<1>1. StatFile(n) = f /\ r.i \in DOMAIN Inputs(n) /\ r.seen \in Nat
  <2>1. r.i \in DOMAIN Inputs(n)
    BY SignedInputs, InputFacts DEF Signing, TypeOK
  <2> QED
    BY <2>1, StatFileIsAFile, NodeIsSound DEF FrameOK
<1>2. IsSource(f) /\ f \in Files
  BY <1>1, InputIsSourceOrMade
<1>3. SourceEntered(f)
  BY <1>2
<1>4. CASE /\ HashTableLookup(f).mtime \in Nat
           /\ statCache[f] # <<>> /\ HashTableLookup(f) = statCache[f][1] /\ ~statCache[f][1].dirty
           /\ Signs(n, r, s, <<HashTableLookup(f).mtime>>)
  <2>1. 1 \in DOMAIN statCache[f]
    BY <1>2, <1>4, FirstEntry
  <2>2. TrueOrRenewed(f, HashTableLookup(f).mtime)
    BY <1>3, <1>4, <2>1 DEF SourceEntered
  <2> QED
    BY <1>4, <2>2
<1>5. CASE r.step = "store" /\ Signs(n, r, s, <<r.seen>>)
  <2>1. TrueOrRenewed(f, r.seen)
    BY <1>1, <1>2, <1>5 DEF Honest
  <2> QED
    BY <1>1, <1>5, <2>1
<1> QED
  BY <1>4, <1>5, SignStep

LEMMA OwnHonest ==
    ASSUME TypeOK, TypeOK', sc.digests = {}, mode = "building", NEW n \in Graph,
           SignsFresh(n), SignsFresh(n)', Honest(n), Own(n), Passes, NodeStep(n),
           \A m \in Graph : RecordDated(m), \A p \in Producers(n) : Exists(p),
           \A f \in Files : IsSource(f) => SourceEntered(f)
    PROVE  Honest(n)'
<1> DEFINE r == run[n]
           s == run'[n]
<1>0. /\ Inputs(n)' = Inputs(n) /\ Outputs' = Outputs /\ mode' = mode /\ scenario \in DOMAIN Scenarios
      /\ \A f : IsSource(f)' = IsSource(f)
  BY SameNode DEF Own, TypeOK
<1>1. \A f \in Files : \A t : IsSource(f) /\ TrueOrRenewed(f, t) => TrueOrRenewed(f, t)'
  BY TrueOrRenewedStays
<1>2. /\ Len(r.sig) <= Len(Inputs(n)) /\ DOMAIN r.sig = 1 .. Len(r.sig) /\ Len(r.sig) \in Nat
      /\ DOMAIN s.sig = 1 .. Len(s.sig) /\ Len(s.sig) \in Nat
      /\ DOMAIN Inputs(n) = 1 .. Len(Inputs(n)) /\ Len(Inputs(n)) \in Nat
  <2>1. IsSequence(r.sig) /\ IsSequence(s.sig)
    BY <1>0, NodeIsSound, SameGraph DEF FrameOK, TypeOK, FramesOK, Sound, Own
  <2> QED
    BY <2>1, InputFacts DEF Honest, Running, IsSequence, TypeOK
<1>3. ASSUME NEW k \in DOMAIN r.sig
      PROVE  LET f == Inputs(n)[k] IN
             IF f \in Outputs THEN r.sig[k] = <<disk'[f].mtime>> /\ disk'[f].mtime # 0
             ELSE Dated(r.sig[k]) /\ \A g, t : g = f /\ t = r.sig[k][1] => TrueOrRenewed(g, t)'
  <2>1. k \in DOMAIN Inputs(n)
    BY <1>2
  <2>2. disk'[Inputs(n)[k]] = disk[Inputs(n)[k]]
    BY <2>1 DEF Own
  <2>3. CASE Inputs(n)[k] \in Outputs
    BY <2>2, <2>3 DEF Honest, Running, Now
  <2>4. CASE Inputs(n)[k] \notin Outputs
    <3>1. IsSource(Inputs(n)[k]) /\ Inputs(n)[k] \in Files
      BY <2>1, <2>4, InputIsSourceOrMade
    <3>2. Dated(r.sig[k]) /\ TrueOrRenewed(Inputs(n)[k], r.sig[k][1])
      BY <2>4 DEF Honest, Running
    <3> QED
      BY <1>1, <2>4, <3>1, <3>2
  <2> QED
    BY <2>3, <2>4
<1>4. SUFFICES /\ Len(s.sig) <= Len(Inputs(n))
               /\ \A k \in DOMAIN s.sig : LET f == Inputs(n)[k] IN
                      IF f \in Outputs THEN s.sig[k] = <<disk'[f].mtime>> /\ disk'[f].mtime # 0
                      ELSE Dated(s.sig[k]) /\ \A g, t : g = f /\ t = s.sig[k][1] => TrueOrRenewed(g, t)'
               /\ s.step = "store" /\ s.phase \in {"sign", "stamps", "validate"} =>
                      \A g, t : g = StatFile(n)' /\ IsSource(g) /\ t = s.seen => TrueOrRenewed(g, t)'
  BY <1>0 DEF Honest, Now, Dated
<1>5. ASSUME s.step = "store", s.phase \in {"sign", "stamps", "validate"},
             NEW g, NEW t, g = StatFile(n)', IsSource(g), t = s.seen
      PROVE  TrueOrRenewed(g, t)'
  <2>1. s.seen = GetFileInfo(StatFile(n)) /\ Rest(r, s, {"step", "seen"})
    BY <1>5, NodeAsksOn DEF AsksOn, Asked
  <2>2. StatFile(n)' = StatFile(n)
    BY <1>0, <1>5, <2>1, SameNode DEF StatFile, Rest, FrameFields, Own
  <2>3. g \in Files /\ TrueOrRenewed(g, t)
    BY <1>5, <2>1, <2>2 DEF TrueOrRenewed, GetFileInfo, IsSource
  <2> QED
    BY <1>1, <1>5, <2>3
<1>6. CASE s.sig = r.sig
  BY <1>2, <1>3, <1>5, <1>6
<1>7. CASE s.sig # r.sig
  <2>1. r.phase = "sign"
    <3>1. r.phase \in Signing
      BY <1>7, KeepsSignature
    <3>2. r.phase \notin {"digest", "hash", "remember"}
      BY DEF SignsFresh
    <3> QED
      BY <3>1, <3>2 DEF Signing
  <2>2. ~Rest(r, s, {"step", "known", "seen"})
    BY <1>7 DEF Rest, FrameFields
  <2>3. PICK e : Signs(n, r, s, e)
    BY <2>1, <2>2, SignStep
  <2>4. /\ Len(s.sig) = r.i /\ r.i \in DOMAIN Inputs(n)
        /\ \A k \in 1 .. r.i - 1 : s.sig[k] = r.sig[k]
        /\ Len(r.sig) = r.i - 1 /\ r.i \in Nat
    BY <1>2, <2>1, <2>3, SignedInputs, NodeIsSound DEF Signs, Signing, Sound, IndexOK, FrameOK
  <2>5. ASSUME NEW k \in DOMAIN s.sig
        PROVE  LET f == Inputs(n)[k] IN
               IF f \in Outputs THEN s.sig[k] = <<disk'[f].mtime>> /\ disk'[f].mtime # 0
               ELSE Dated(s.sig[k]) /\ \A g, t : g = f /\ t = s.sig[k][1] => TrueOrRenewed(g, t)'
    <3>1. k \in DOMAIN Inputs(n)
      BY <1>2, <2>4
    <3>2. CASE Inputs(n)[k] \in Outputs
      BY <2>1, <3>1, <3>2, OwnOutputsHonest DEF Signing
    <3>3. CASE Inputs(n)[k] \notin Outputs
      <4>1. CASE k = r.i
        <5>1. PICK t \in Nat : Signs(n, r, s, <<t>>) /\ TrueOrRenewed(Inputs(n)[k], t)
          BY <2>1, <2>2, <3>3, <4>1, SignedSourceHonest
        <5>2. s.sig[k] = <<t>>
          BY <4>1, <5>1 DEF Signs
        <5>3. Dated(s.sig[k]) /\ s.sig[k][1] = t
          BY <5>2, TimeIsDated
        <5>4. IsSource(Inputs(n)[k]) /\ Inputs(n)[k] \in Files
          BY <3>1, <3>3, InputIsSourceOrMade
        <5> QED
          BY <1>1, <3>3, <5>1, <5>3, <5>4
      <4>2. CASE k # r.i
        <5>1. k \in 1 .. r.i - 1 /\ k \in DOMAIN r.sig
          BY <1>2, <2>4, <4>2
        <5>2. s.sig[k] = r.sig[k]
          BY <2>4, <5>1
        <5> QED
          BY <1>3, <3>3, <5>1, <5>2
      <4> QED
        BY <4>1, <4>2
    <3> QED
      BY <3>2, <3>3
  <2> QED
    BY <1>2, <1>5, <2>4, <2>5
<1> QED
  BY <1>6, <1>7

---------------------------------------------------------------------------
(* What a node signs of sources stays in the cache until its action *)

LEMMA OneCleanEntry ==
    ASSUME TypeOK, TypeOK', NEW f \in Files, NEW t,
           Len(statCache'[f]) = 1, statCache'[f][1] = Clean(t)
    PROVE  StatCacheIsClean(f)' /\ \A g : g = f => (HashTableLookup(g).mtime = t)'
<1>1. statCache'[f] \in Seq(EntryType) /\ Len(statCache'[f]) = 1 /\ statCache'[f][1] = Clean(t)
  BY DEF TypeOK, StatOK
<1>2. Head(statCache'[f]) = Clean(t) /\ statCache'[f] # <<>>
  BY <1>1
<1> QED
  BY <1>2 DEF StatCacheIsClean, StatCacheKnows, HashTableLookup, Clean

LEMMA AskedStaysKnown ==
    ASSUME TypeOK, NEW n \in Graph, NodeStep(n), Remembered(n), scenario' = scenario,
           run'[n].phase \in {"sign", "validate"}, run'[n].step \in {"info", "store"}, IsSource(StatFile(n))'
    PROVE  (run[n].known = StatCacheKnows(StatFile(n)) /\ ~StatCacheIsClean(StatFile(n)))'
<1> DEFINE r == run[n]
           s == run'[n]
<1>1. \/ /\ s.step = "info" /\ s.known = (statCache[StatFile(n)] # <<>>) /\ ~StatCacheIsClean(StatFile(n))
         /\ statCache' = statCache /\ Rest(r, s, {"step", "known"})
      \/ /\ r.step = "info" /\ s.step = "store"
         /\ statCache' = statCache /\ Rest(r, s, {"step", "seen"})
  BY NodeAsksOn DEF AsksOn, Asked
<1>2. s.phase = r.phase /\ s.i = r.i /\ statCache' = statCache
  BY <1>1 DEF Rest, FrameFields
<1>3. StatFile(n)' = StatFile(n)
  BY <1>2, SameNode DEF StatFile
<1>4. IsSource(StatFile(n))
  BY <1>3, SameNode
<1>5. s.known = (statCache[StatFile(n)] # <<>>) /\ ~StatCacheIsClean(StatFile(n))
  BY <1>1, <1>2, <1>4 DEF Remembered, Rest, FrameFields, StatCacheKnows
<1>6. \A g : StatCacheIsClean(g)' = StatCacheIsClean(g)
  BY <1>2 DEF StatCacheIsClean, StatCacheKnows, HashTableLookup
<1> QED
  BY <1>2, <1>3, <1>5, <1>6 DEF StatCacheKnows

\* What was signed of a source is in the cache, as Remembered says of the signature sig.
InCache(n, sig) == \A k \in DOMAIN sig : LET f == Inputs(n)[k] IN
    f \notin Outputs => StatCacheIsClean(f) /\ sig[k] = <<HashTableLookup(f).mtime>>

LEMMA CacheKeeps ==
    ASSUME TypeOK, NEW n \in Graph, scenario' = scenario, NEW sig, DOMAIN sig \subseteq DOMAIN Inputs(n),
           InCache(n, sig),
           \A f \in ToSet(Sources(n)) : StatCacheIsClean(f) => statCache'[f] = statCache[f]
    PROVE  InCache(n, sig)'
<1>1. Inputs(n)' = Inputs(n) /\ Outputs' = Outputs
  BY SameNode
<1>2. SUFFICES ASSUME NEW k \in DOMAIN sig, Inputs(n)[k] \notin Outputs
               PROVE  \A f : f = Inputs(n)[k] =>
                        (StatCacheIsClean(f) /\ sig[k] = <<HashTableLookup(f).mtime>>)'
  BY <1>1 DEF InCache
<1>3. Inputs(n)[k] \in ToSet(Sources(n))
  BY <1>2, InputIsSourceOrMade DEF ToSet
<1>4. StatCacheIsClean(Inputs(n)[k]) /\ sig[k] = <<HashTableLookup(Inputs(n)[k]).mtime>>
  BY <1>2 DEF InCache
<1>5. statCache'[Inputs(n)[k]] = statCache[Inputs(n)[k]]
  BY <1>3, <1>4
<1> QED
  BY <1>4, <1>5 DEF StatCacheIsClean, StatCacheKnows, HashTableLookup

LEMMA SigningRemembers ==
    ASSUME TypeOK, TypeOK', sc.digests = {}, NEW n \in Graph, NodeStep(n), Remembered(n), scenario' = scenario,
           run[n].phase = "sign", \A f \in Files : IsSource(f) => SourceEntered(f),
           NEW old, old = run[n].sig, NEW new, new = run'[n].sig, NEW seen, seen = run[n].seen,
           NEW f, f = Inputs(n)[run[n].i]
    PROVE  InCache(n, new)'
<1> DEFINE r == run[n]
           s == run'[n]
<1>1. /\ Inputs(n)' = Inputs(n) /\ Outputs' = Outputs
      /\ r.i \in DOMAIN Inputs(n) /\ r.i \in Nat \ {0} /\ DOMAIN Inputs(n) = 1 .. Len(Inputs(n)) /\ Len(Inputs(n)) \in Nat
      /\ DOMAIN old = 1 .. r.i - 1 /\ StatFile(n) = f /\ f \in Files
  <2>1. Inputs(n)' = Inputs(n) /\ Outputs' = Outputs
    BY SameNode
  <2>2. r.i \in Nat \ {0} /\ Sound(n, r)
    BY NodeIsSound DEF FrameOK
  <2>4. DOMAIN Inputs(n) = 1 .. Len(Inputs(n)) /\ Len(Inputs(n)) \in Nat
    BY InputFacts DEF TypeOK
  <2>3. r.i \in DOMAIN Inputs(n)
    BY <2>4, SignedInputs DEF Signing
  <2>5. DOMAIN old = 1 .. r.i - 1
    <3>1. DOMAIN old = 1 .. Len(old)
      BY SignedInputs DEF Signing
    <3>2. Len(old) = r.i - 1
      BY <2>2 DEF Sound, IndexOK, Signing
    <3> QED
      BY <3>1, <3>2
  <2>6. StatFile(n) = f /\ f \in Files
    BY StatFileIsAFile DEF Signing
  <2> QED
    BY <2>1, <2>2, <2>3, <2>4, <2>5, <2>6
<1>2. InCache(n, old)
  BY DEF Remembered, InCache, Signing
<1>3. \A h \in ToSet(Sources(n)) : IsSource(h) /\ h \in Files
  BY SourceOfNode
<1>4. CASE Rest(r, s, {"step", "known", "seen"}) /\ statCache' = statCache
  <2>1. new = old
    BY <1>4 DEF Rest, FrameFields
  <2>2. InCache(n, old)'
    BY <1>1, <1>2, <1>4, CacheKeeps
  <2> QED
    BY <2>1, <2>2 DEF InCache
<1>5. ASSUME NEW t \in Nat, Signs(n, r, s, <<t>>), InCache(n, old)',
             f \notin Outputs => StatCacheIsClean(f)' /\ \A g : g = f => (HashTableLookup(g).mtime = t)'
      PROVE  InCache(n, new)'
  <2>1. Len(new) = r.i /\ new[r.i] = <<t>> /\ \A k \in 1 .. r.i - 1 : new[k] = old[k]
    BY <1>5 DEF Signs
  <2>2. DOMAIN new = 1 .. r.i
    <3>1. IsSequence(new)
      BY NodeIsSound, SameGraph DEF FrameOK, TypeOK, FramesOK, Sound
    <3> QED
      BY <2>1, <3>1 DEF IsSequence
  <2>3. SUFFICES ASSUME NEW k \in 1 .. r.i, Inputs(n)[k] \notin Outputs
                 PROVE  \A g : g = Inputs(n)[k] =>
                        StatCacheIsClean(g)' /\ (new[k] = <<HashTableLookup(g).mtime>>)'
    BY <1>1, <2>2 DEF InCache
  <2>4. CASE k = r.i
    BY <1>5, <2>1, <2>3, <2>4
  <2>5. CASE k # r.i
    <3>1. k \in DOMAIN old /\ new[k] = old[k]
      BY <1>1, <2>1, <2>3, <2>5
    <3> QED
      BY <1>1, <1>5, <2>3, <3>1 DEF InCache
  <2> QED
    BY <2>4, <2>5
<1>6. CASE /\ StatCacheIsClean(f) /\ statCache' = statCache /\ HashTableLookup(f).mtime \in Nat
           /\ Signs(n, r, s, <<HashTableLookup(f).mtime>>)
  <2>1. InCache(n, old)'
    BY <1>1, <1>2, <1>6, CacheKeeps
  <2>2. PICK t : t = HashTableLookup(f).mtime
    OBVIOUS
  <2>3. StatCacheIsClean(f)' /\ \A g : g = f => (HashTableLookup(g).mtime = t)'
    BY <1>6, <2>2 DEF StatCacheIsClean, StatCacheKnows, HashTableLookup
  <2> QED
    BY <1>5, <1>6, <2>1, <2>2, <2>3
<1>7. CASE r.step = "store" /\ Stored(f, seen, r.known) /\ Signs(n, r, s, <<seen>>)
  <2>0. seen \in Nat
    BY NodeIsSound DEF FrameOK
  <2>1. ASSUME f \notin Outputs
        PROVE  /\ r.known = (statCache[f] # <<>>) /\ ~StatCacheIsClean(f)
               /\ StatCacheIsClean(f)' /\ \A g : g = f => (HashTableLookup(g).mtime = seen)'
    <3>1. IsSource(f)
      BY <1>1, <2>1, InputIsSourceOrMade
    <3>2. r.known = (statCache[f] # <<>>) /\ ~StatCacheIsClean(f) /\ Len(statCache[f]) <= 1
      BY <1>1, <1>7, <3>1 DEF Remembered, StatCacheKnows, SourceEntered
    <3>3. Len(statCache'[f]) = 1 /\ statCache'[f][1] = Clean(seen)
      BY <1>7, <3>2 DEF Stored
    <3>4. StatCacheIsClean(f)' /\ \A g : g = f => (HashTableLookup(g).mtime = seen)'
      BY <1>1, <3>2, <3>3, OneCleanEntry
    <3> QED
      BY <3>2, <3>4
  <2>2. InCache(n, old)'
    <3>1. ASSUME NEW h \in ToSet(Sources(n)), StatCacheIsClean(h) PROVE statCache'[h] = statCache[h]
      <4>1. h # f
        <5>1. h \notin Outputs
          BY <1>3 DEF IsSource
        <5> QED
          BY <2>1, <3>1, <5>1
      <4>2. Len(statCache[h]) <= 1 /\ h \in Files
        BY <1>3 DEF SourceEntered
      <4> QED
        BY <1>7, <4>1, <4>2 DEF Stored, Kept
    <3> QED
      BY <1>1, <1>2, <3>1, CacheKeeps
  <2> QED
    BY <1>5, <1>7, <2>0, <2>1, <2>2
<1> QED
  BY <1>4, <1>6, <1>7, SignStep

\* The timestamp that is stored of a source is the one it was signed with.
LEMMA StampsAreSigned ==
    ASSUME TypeOK, NEW n \in Graph, NodeStep(n), Remembered(n), run[n].phase = "stamps"
    PROVE  LET s == run'[n] IN
           /\ statCache' = statCache /\ s.sig = run[n].sig
           /\ s.phase \in {"stamps", "clock"} /\ s.step = "look"
           /\ \A j \in DOMAIN s.stamps, k \in DOMAIN Inputs(n) :
                  Inputs(n)[k] = Sources(n)[j] => s.sig[k] = <<s.stamps[j]>>
<1> DEFINE r == run[n]
           s == run'[n]
           f == Sources(n)[r.i]
<1>1. /\ r.step = "look" /\ StatCacheStat(n) /\ StatFile(n) = f /\ f \in Files /\ FrameOK(r)
      /\ Looks(n, r, s) /\ statCache' = statCache
  BY AsksInSteps, StatFileIsAFile, StatCacheStatOutcome, NodeIsSound DEF Remembered, StatCacheStat, caches
<1>2. /\ r.i \in DOMAIN Sources(n) /\ r.i \in Nat \ {0} /\ Len(r.stamps) = r.i - 1 /\ r.stamps \in Seq(Nat)
      /\ DOMAIN r.sig = DOMAIN Inputs(n) /\ f \notin Outputs /\ f \in ToSet(Inputs(n))
  <2>1. r.i \in DOMAIN Sources(n) /\ r.i \in Nat \ {0} /\ Len(r.stamps) = r.i - 1 /\ r.stamps \in Seq(Nat)
    <3>1. IsNode(n) /\ IndexOK(n, r) /\ FrameOK(r)
      BY NodeIsSound DEF Sound
    <3>2. DOMAIN Sources(n) = 1 .. Len(Sources(n)) /\ Len(Sources(n)) \in Nat
      BY <3>1, InputFacts DEF IsNode
    <3> QED
      BY <3>1, <3>2 DEF IndexOK, FrameOK
  <2>2. DOMAIN r.sig = DOMAIN Inputs(n)
    <3>1. Len(r.sig) = Len(Inputs(n))
      BY NodeIsSound DEF Sound, IndexOK, HasSigned
    <3> QED
      BY <3>1, SignedInputs, InputFacts DEF HasSigned, TypeOK
  <2> QED
    BY <2>1, <2>2, SourceFacts DEF TypeOK
<1>3. PICK k \in DOMAIN Inputs(n) : f = Inputs(n)[k]
  BY <1>2 DEF ToSet
<1>4. StatCacheIsClean(f) /\ r.sig[k] = <<HashTableLookup(f).mtime>>
  BY <1>2, <1>3 DEF Remembered
<1>5. HashTableLookup(f) = statCache[f][1] /\ AnswersStamp(n, r, s, statCache[f][1].mtime)
  <2>1. statCache[f] # <<>> /\ Answers(n, r, s, statCache[f][1].mtime)
    BY <1>1, <1>4 DEF Looks
  <2>2. HashTableLookup(f) = statCache[f][1]
    BY <1>1, <2>1, FirstEntry
  <2> QED
    BY <2>1, <2>2 DEF Answers
<1>6. /\ s.stamps = Append(r.stamps, HashTableLookup(f).mtime) /\ s.step = "look"
      /\ s.phase \in {"stamps", "clock"} /\ s.sig = r.sig
  BY <1>5 DEF AnswersStamp, Rest, FrameFields
<1>7. ASSUME NEW j \in DOMAIN s.stamps, NEW h \in DOMAIN Inputs(n), Inputs(n)[h] = Sources(n)[j]
      PROVE  s.sig[h] = <<s.stamps[j]>>
  <2>1. DOMAIN s.stamps = 1 .. r.i /\ s.stamps[r.i] = HashTableLookup(f).mtime
        /\ \A l \in 1 .. r.i - 1 : l \in DOMAIN r.stamps /\ s.stamps[l] = r.stamps[l]
    BY <1>2, <1>6
  <2>2. CASE j = r.i
    BY <1>2, <1>6, <1>7, <2>1, <2>2 DEF Remembered
  <2>3. CASE j # r.i
    <3>1. j \in 1 .. r.i - 1
      BY <1>2, <2>1, <2>3
    <3> QED
      BY <1>6, <1>7, <2>1, <3>1 DEF Remembered
  <2> QED
    BY <2>2, <2>3
<1> QED
  BY <1>1, <1>6, <1>7

LEMMA OwnRemembered ==
    ASSUME TypeOK, TypeOK', sc.digests = {}, mode = "building", NEW n \in Graph, NodeStep(n), Own(n),
           Remembered(n), SignsFresh(n), OutputEntered(n), \A f \in Files : IsSource(f) => SourceEntered(f)
    PROVE  Remembered(n)'
<1> DEFINE r == run[n]
           s == run'[n]
<1>0. /\ scenario' = scenario /\ Inputs(n)' = Inputs(n) /\ Sources(n)' = Sources(n) /\ Outputs' = Outputs
  BY SameNode DEF Own
<1>1. PICK new : new = s.sig
  OBVIOUS
<1>2. Proceeds(n) /\ Follows(n)
  BY NodeProceeds, NodeFollows
<1>3. SUFFICES /\ s.phase \in Signing \cup {"compare", "outputs", "stamps"} => InCache(n, new)'
               /\ s.phase = "stamps" => s.step = "look"
               /\ \A j \in DOMAIN s.stamps, k \in DOMAIN Inputs(n) :
                      Inputs(n)[k] = Sources(n)[j] => s.sig[k] = <<s.stamps[j]>>
  <2>1. ASSUME s.phase \in {"sign", "validate"}, s.step \in {"info", "store"}, IsSource(StatFile(n))'
        PROVE  (run[n].known = StatCacheKnows(StatFile(n)) /\ ~StatCacheIsClean(StatFile(n)))'
    BY <1>0, <2>1, AskedStaysKnown
  <2>2. ASSUME InCache(n, new)', NEW k \in DOMAIN s.sig
        PROVE  (LET f == Inputs(n)[k] IN
                f \notin Outputs => StatCacheIsClean(f) /\ run[n].sig[k] = <<HashTableLookup(f).mtime>>)'
    BY <1>0, <1>1, <2>2 DEF InCache
  <2> QED
    BY <1>0, <1>1, <1>3, <2>1, <2>2 DEF Remembered
<1>4. r.phase \notin {"digest", "hash", "remember"}
  BY DEF SignsFresh
<1>5. CASE r.phase = "sign"
  <2>1. InCache(n, new)'
    BY <1>0, <1>1, <1>5, SigningRemembers
  <2>2. s.phase \in Signing \cup {"compare"} /\ s.stamps = r.stamps /\ r.stamps = <<>>
    BY <1>2, <1>5, NodeIsSound DEF Proceeds, Follows, Signing, Sound, IndexOK
  <2> QED
    BY <2>1, <2>2 DEF Signing
<1>6. CASE r.phase = "stamps"
  <2>1. /\ statCache' = statCache /\ s.sig = r.sig /\ s.step = "look"
        /\ \A j \in DOMAIN s.stamps, k \in DOMAIN Inputs(n) :
                  Inputs(n)[k] = Sources(n)[j] => s.sig[k] = <<s.stamps[j]>>
    BY <1>6, StampsAreSigned
  <2>2. InCache(n, new)
    BY <1>1, <1>6, <2>1 DEF Remembered, InCache
  <2>3. DOMAIN new \subseteq DOMAIN Inputs(n)
    BY <1>1, <1>6, <2>1, SignedInputs, InputFacts DEF HasSigned, TypeOK
  <2>4. InCache(n, new)'
    BY <1>0, <2>1, <2>2, <2>3, CacheKeeps
  <2> QED
    BY <2>1, <2>4
<1>7. CASE r.phase \notin Signing \cup {"stamps"}
  <2>1. s.sig = r.sig /\ s.phase \notin Signing /\ s.stamps = r.stamps
    BY <1>2, <1>7, KeepsSignature DEF Proceeds
  <2>2. \A j \in DOMAIN s.stamps, k \in DOMAIN Inputs(n) :
            Inputs(n)[k] = Sources(n)[j] => s.sig[k] = <<s.stamps[j]>>
    BY <2>1 DEF Remembered
  <2>3. CASE s.phase \in {"compare", "outputs", "stamps"}
    <3>1. r.phase \in {"compare", "outputs"}
      BY <1>2, <1>7, <2>3 DEF Proceeds
    <3>2. InCache(n, new) /\ DOMAIN new \subseteq DOMAIN Inputs(n)
      BY <1>1, <2>1, <3>1, SignedInputs, InputFacts DEF Remembered, InCache, HasSigned, TypeOK
    <3>3. \A f \in ToSet(Sources(n)) : StatCacheIsClean(f) => statCache'[f] = statCache[f]
      <4>1. SUFFICES ASSUME NEW f \in ToSet(Sources(n)) PROVE statCache'[f] = statCache[f]
        OBVIOUS
      <4>2. IsSource(f) /\ f \in Files /\ Len(statCache[f]) <= 1
        BY SourceOfNode DEF SourceEntered
      <4>3. f # Output(n) /\ f # Dir
        BY <4>2, GraphFacts DEF IsSource, TypeOK
      <4>4. StatStep(n)
        BY NodeEffects DEF NodeEffect
      <4>5. InStat(n, "store") => StatFile(n) = Output(n)
        BY <3>1, StatFileIsAFile DEF InStat
      <4> QED
        BY <3>1, <4>2, <4>3, <4>4, <4>5 DEF StatStep, Stored, Kept
    <3>4. InCache(n, new)'
      BY <1>0, <3>2, <3>3, CacheKeeps
    <3>5. s.phase = "stamps" => s.step = "look"
      <4>1. CASE r.phase = "compare"
        BY <1>2, <4>1 DEF Follows
      <4>2. CASE r.phase = "outputs"
        BY <2>3, <4>2, LookedAtOutput DEF GoesOn, Ends, Rest, FrameFields
      <4> QED
        BY <3>1, <4>1, <4>2
    <3> QED
      BY <2>1, <2>2, <3>4, <3>5
  <2> QED
    BY <2>1, <2>2, <2>3
<1> QED
  BY <1>4, <1>5, <1>6, <1>7 DEF Signing

---------------------------------------------------------------------------
(* Two nodes at work have no source in common *)

LEMMA StillOneAtATime ==
    ASSUME OneAtATime, sc' = sc, Graph' = Graph,
           mode' = "building" => mode = "building" /\ \A m \in Graph : Active(m)' => Active(m)
    PROVE  OneAtATime'
BY DEF OneAtATime

LEMMA StartedOneAtATime ==
    ASSUME TypeOK, NEW q \in Graph, StartNode(q)
    PROVE  OneAtATime'
<1>1. /\ Graph' = Graph /\ sc' = sc /\ \A m \in Nodes \ {q} : run'[m] = run[m]
  BY StartNodeOutcome, SameGraph DEF StartNode, scenarioVars
<1>2. SUFFICES ASSUME sc.workers = 1 PROVE \A m \in Graph : ~Active(m)
  <2>1. (\A m \in Graph : ~Active(m)) => \A m \in Graph : Active(m)' => m = q
    BY <1>1, GraphFacts DEF Active, TypeOK
  <2> QED
    BY <1>1, <2>1 DEF OneAtATime
<1>3. IsFiniteSet({m \in Graph : Active(m)})
  BY ScenarioAssumption, GraphFacts, FS_Subset DEF TypeOK
<1>4. Cardinality({m \in Graph : Active(m)}) \in Nat /\ Cardinality({m \in Graph : Active(m)}) < 1
  BY <1>2, <1>3, FS_CardinalityType DEF StartNode
<1>5. {m \in Graph : Active(m)} = {}
  BY <1>3, <1>4, FS_EmptySet
<1> QED
  BY <1>5

LEMMA Apart ==
    ASSUME TimesTell, TypeOK, OneAtATime, mode = "building", \A n \in Graph : ProducersFirst(n),
           NEW m \in Graph, NEW n \in Graph, m # n, Active(m), Active(n)
    PROVE  ToSet(Sources(m)) \cap ToSet(Sources(n)) = {}
<1>1. InOrder(m, n)
  BY DEF TimesTell
<1>2. sc.workers # 1
  BY DEF OneAtATime
<1>3. Output(m) \notin ToSet(Inputs(n)) /\ Output(n) \notin ToSet(Inputs(m))
  BY DEF ProducersFirst, Producers, Active
<1> QED
  BY <1>1, <1>2, <1>3 DEF InOrder

---------------------------------------------------------------------------
(* A step of the thread that executes q *)

LEMMA OwnOutputAfter ==
    ASSUME TypeOK, NEW q \in Graph, NodeStep(q)
    PROVE  disk'[Output(q)] = disk[Output(q)] \/ disk'[Output(q)].mtime \in {0, clock}
<1>1. CASE run[q].phase = "act"
  BY <1>1, ActionMakes
<1>2. CASE run[q].phase = "acting"
  BY <1>2, ActionLeaves
<1>3. CASE run[q].phase \notin {"act", "acting"}
  BY <1>3, OutputOtherwise DEF Absent
<1> QED
  BY <1>1, <1>2, <1>3

LEMMA NodeStepIsElsewhere ==
    ASSUME TypeOK, edited \in BOOLEAN, \A m \in Graph : ProducersFirst(m), mode = "building",
           NEW q \in Graph, NodeStep(q), NEW n \in Graph, n # q
    PROVE  Elsewhere(n)
<1>1. Passes /\ run[q].phase \notin {"idle", "finished"} /\ DiskStep(q)
  BY NodePasses, NodeStepOfActive, NodeEffects DEF NodeEffect
<1>2. \A p \in Graph \ {q} : run'[p] = run[p] /\ disk'[Output(p)] = disk[Output(p)]
  BY <1>1, NodeFrames, GraphFacts, OutputsOfOthers DEF TypeOK
<1>3. n \in torn => n \in torn'
  BY NodeStepHistory
<1>4. ASSUME NEW f \in ToSet(Inputs(n)) \cap Outputs
      PROVE  \/ disk'[f] = disk[f]
             \/ mode = "building" /\ run[n].phase = "idle" /\ disk'[f].mtime \in {0, clock}
  <2>1. PICK p \in Graph : Output(p) = f
    BY DEF Outputs
  <2>2. CASE p = q
    BY <1>1, <2>1, <2>2, OwnOutputAfter DEF ProducersFirst, Producers
  <2> QED
    BY <1>2, <2>1, <2>2
<1> QED
  BY <1>1, <1>2, <1>3, <1>4 DEF Elsewhere

LEMMA OutputTimesStay ==
    ASSUME TypeOK, OutputTimes, NEW q \in Graph, NodeStep(q)
    PROVE  OutputTimes'
<1>1. Outputs' = Outputs /\ clock' = clock /\ clock \in Nat /\ DiskStep(q)
  BY NodeEffects, SameGraph DEF NodeEffect, Surroundings, TypeOK, TimesOK
<1>2. SUFFICES ASSUME NEW p \in Graph PROVE disk'[Output(p)].mtime <= clock
  BY <1>1 DEF OutputTimes, Outputs
<1>3. CASE p = q
  BY <1>1, <1>3, OwnOutputAfter, GraphFacts DEF OutputTimes, TypeOK
<1>4. CASE p # q
  BY <1>1, <1>4, OutputsOfOthers, GraphFacts DEF OutputTimes, TypeOK
<1> QED
  BY <1>3, <1>4

LEMMA BuiltStays ==
    ASSUME BuiltOK, built' = built, Graph' = Graph
    PROVE  BuiltOK'
BY DEF BuiltOK, IsSequence

LEMMA NodeStepIsClean ==
    ASSUME TimesTell, TypeOK, TypeOK', EarnedInv, WatchedInv, FreshInv, FreshInv', CleanInv,
           mode = "building", NEW q \in Graph, NodeStep(q)
    PROVE  CleanInv'
<1>0. /\ sc.digests = {} /\ edited \in BOOLEAN
      /\ \A n \in Graph : OutputEntered(n) /\ ProducersFirst(n) /\ SignsFresh(n) /\ WatchedBy(n) /\ EarnedBy(n)
      /\ \A n \in Graph : /\ RecordDated(n) /\ RecordTrue(n) /\ Honest(n)
                          /\ Course(n) /\ RunTrue(n) /\ Remembered(n)
      /\ \A f \in Files : IsSource(f) => SourceEntered(f)
      /\ BuiltOK /\ OutputTimes /\ OneAtATime
  BY DEF TimesTell, CleanInv, FreshInv, WatchedInv, EarnedInv, Running
<1>1. /\ Passes /\ clock' = clock /\ edited' = edited /\ Active(q) /\ mode' = "building"
      /\ scenario' = scenario /\ built' = built
  BY <1>0, NodePasses, NodeStepOfActive DEF Active, Passes
<1>2. /\ Graph' = Graph /\ sc' = sc /\ \A f : IsSource(f)' = IsSource(f)
  BY <1>1, SameGraph, SameNode
<1>3. SignsFresh(q)'
  BY <1>1, <1>2 DEF FreshInv
<1>4. BuiltOK'
  BY <1>0, <1>1, <1>2, BuiltStays
<1>5. OutputTimes'
  BY <1>0, OutputTimesStay
<1>6. OneAtATime'
  <2>1. \A m \in Graph : Active(m)' => Active(m)
    BY <1>1, NodeFrames, GraphFacts DEF Active, TypeOK
  <2> QED
    BY <1>0, <1>1, <1>2, <2>1, StillOneAtATime
<1>7. \A f \in Files : IsSource(f) => SourceEntered(f)'
  BY <1>0, <1>1, SourceIsEntered
<1>8. /\ RecordDated(q)' /\ RecordTrue(q)' /\ Honest(q)'
      /\ Course(q)' /\ RunTrue(q)' /\ Remembered(q)'
  <2>1. Own(q)
    BY <1>0, OwnStep
  <2>2. \A p \in Producers(q) : Exists(p)
    <3>1. \A p \in Producers(q) : Successful(p) /\ p \in Graph
      BY <1>0, <1>1 DEF Course, Active, Producers
    <3> QED
      BY <1>0, <3>1, SuccessfulExists
  <2>3. RecordDated(q)' /\ RecordTrue(q)'
    BY <1>0, <2>1, OwnRecordDated, OwnRecordTrue
  <2>4. Honest(q)'
    BY <1>0, <1>1, <1>3, <2>1, <2>2, OwnHonest
  <2>5. Course(q)' /\ RunTrue(q)'
    BY <1>0, <2>1, OwnCourse, OwnRunTrue
  <2>6. Remembered(q)'
    BY <1>0, <2>1, OwnRemembered
  <2> QED
    BY <2>3, <2>4, <2>5, <2>6
<1>9. ASSUME NEW n \in Graph, n # q
      PROVE  /\ RecordDated(n)' /\ RecordTrue(n)' /\ Honest(n)'
             /\ Course(n)' /\ RunTrue(n)' /\ Remembered(n)'
  <2>1. Elsewhere(n) /\ Running
    BY <1>0, <1>9, NodeStepIsElsewhere DEF Running
  <2>2. RecordDated(n)' /\ RecordTrue(n)' /\ Course(n)' /\ RunTrue(n)'
    BY <1>0, <2>1, RecordDatedElsewhere, RecordTrueElsewhere, CourseElsewhere, RunTrueElsewhere
  <2>3. Honest(n)'
    <3>1. run[n].phase = "idle" => run[n].sig = <<>>
      BY NodeIsSound DEF Sound, IndexOK
    <3> QED
      BY <1>0, <2>1, <3>1, HonestElsewhere
  <2>4. Remembered(n)'
    <3>1. ASSUME Active(n), NEW f \in ToSet(Sources(n)) PROVE statCache'[f] = statCache[f]
      <4>1. f \notin ToSet(Sources(q))
        BY <1>0, <1>1, <1>9, <3>1, Apart
      <4>2. IsSource(f) /\ f \in Files /\ Len(statCache[f]) <= 1
        BY <1>0, SourceOfNode DEF SourceEntered
      <4> QED
        BY <4>1, <4>2, OtherSourcesStay
    <3>2. run'[n] = run[n]
      BY <2>1 DEF Elsewhere
    <3> QED
      BY <1>0, <1>1, <3>1, <3>2, RememberedElsewhere
  <2> QED
    BY <2>2, <2>3, <2>4
<1>10. \A n \in Graph : /\ RecordDated(n)' /\ RecordTrue(n)' /\ Honest(n)'
                        /\ Course(n)' /\ RunTrue(n)' /\ Remembered(n)'
  BY <1>8, <1>9
<1> HIDE DEF TimesTell
<1> QED
  BY <1>0, <1>1, <1>2, <1>4, <1>5, <1>6, <1>7, <1>10 DEF CleanInv, Running

---------------------------------------------------------------------------
(* The steps around the nodes *)

LEMMA QuietIsClean ==
    ASSUME TypeOK, CleanInv, Passes, run' = run, statCache' = statCache, torn' = torn,
           \A f \in Outputs : disk'[f] = disk[f]
    PROVE  CleanInv'
<1>0. /\ edited \in BOOLEAN /\ BuiltOK /\ OutputTimes /\ OneAtATime
      /\ \A n \in Graph : RecordDated(n) /\ RecordTrue(n) /\ Honest(n)
      /\ Running => \A n \in Graph : Course(n) /\ RunTrue(n)
      /\ mode = "building" => /\ \A n \in Graph : Remembered(n)
                              /\ \A f \in Files : IsSource(f) => SourceEntered(f)
  BY DEF CleanInv
<1>1. /\ scenario' = scenario /\ mode' = mode /\ built' = built /\ clock' \in Nat /\ clock' >= clock
      /\ edited' \in BOOLEAN
  BY DEF Passes
<1>2. /\ Graph' = Graph /\ sc' = sc /\ Outputs' = Outputs /\ \A f : IsSource(f)' = IsSource(f)
  BY <1>1, SameGraph, SameNode
<1>3. \A n \in Graph : Output(n) \in Outputs
  BY DEF Outputs
<1>4. \A n \in Graph : Elsewhere(n)
  BY <1>3 DEF Elsewhere
<1>5. \A n \in Graph : RecordDated(n)' /\ RecordTrue(n)'
  BY <1>0, <1>4, RecordDatedElsewhere, RecordTrueElsewhere
<1>6. \A n \in Graph : Honest(n)'
  <2>1. \A n \in Graph : run[n].phase = "idle" => run[n].sig = <<>>
    BY NodeIsSound DEF Sound, IndexOK
  <2> QED
    BY <1>0, <1>4, <2>1, HonestElsewhere
<1>7. Running => \A n \in Graph : Course(n)' /\ RunTrue(n)'
  BY <1>0, <1>4, CourseElsewhere, RunTrueElsewhere
<1>8. ASSUME mode = "building" PROVE \A n \in Graph : Remembered(n)'
  BY <1>0, <1>1, <1>8, RememberedElsewhere
<1>9. ASSUME mode = "building", NEW f \in Files, IsSource(f) PROVE SourceEntered(f)'
  <2>1. \A t : TrueOrRenewed(f, t) => TrueOrRenewed(f, t)'
    BY <1>0, <1>9, TrueOrRenewedStays
  <2>2. /\ Len(statCache[f]) <= 1
        /\ \A j \in DOMAIN statCache[f] : ~statCache[f][j].dirty =>
               \A t : t = statCache[f][j].mtime => TrueOrRenewed(f, t)'
    BY <1>0, <1>9, <2>1 DEF SourceEntered
  <2> QED
    BY <2>2 DEF SourceEntered
<1>10. BuiltOK'
  BY <1>0, <1>1, <1>2, BuiltStays
<1>11. OutputTimes'
  <2>1. \A f \in Outputs : disk'[f].mtime <= clock /\ disk[f].mtime \in Nat
    BY <1>0, GraphFacts DEF OutputTimes, TypeOK, DiskOK, Outputs
  <2>2. clock \in Nat
    BY DEF TypeOK, TimesOK
  <2>3. \A f \in Outputs : disk'[f].mtime \in Nat
    BY <2>1
  <2>4. \A f \in Outputs : disk'[f].mtime <= clock'
    BY <1>1, <2>1, <2>2, <2>3
  <2> QED
    BY <1>2, <2>4 DEF OutputTimes
<1>12. OneAtATime'
  <2>1. \A m : Active(m)' => Active(m)
    BY DEF Active
  <2> QED
    BY <1>0, <1>1, <1>2, <2>1, StillOneAtATime
<1> QED
  BY <1>1, <1>2, <1>5, <1>6, <1>7, <1>8, <1>9, <1>10, <1>11, <1>12 DEF CleanInv, Running

LEMMA TickIsClean == TypeOK /\ CleanInv /\ Tick => CleanInv'
<1> SUFFICES ASSUME TypeOK, CleanInv, Tick PROVE CleanInv'
  OBVIOUS
<1>1. /\ UNCHANGED <<disk, run, statCache, torn, scenario, mode, built, edited>>
      /\ clock \in Nat /\ clock' = clock + 1 /\ edited \in BOOLEAN
  BY DEF Tick, caches, persistent, scenarioVars, history, TypeOK, TimesOK, CleanInv
<1>2. Passes
  BY <1>1 DEF Passes
<1> QED
  BY <1>1, <1>2, QuietIsClean

LEMMA StutterIsClean == TypeOK /\ CleanInv /\ UNCHANGED vars => CleanInv'
<1> SUFFICES ASSUME TypeOK, CleanInv, UNCHANGED vars PROVE CleanInv'
  OBVIOUS
<1>1. /\ UNCHANGED <<disk, run, statCache, torn, scenario, mode, built, edited, clock>>
      /\ clock \in Nat /\ edited \in BOOLEAN
  BY DEF vars, caches, persistent, history, TypeOK, TimesOK, CleanInv
<1>2. Passes
  BY <1>1 DEF Passes
<1> QED
  BY <1>1, <1>2, QuietIsClean

LEMMA UserEditIsClean ==
    ASSUME TypeOK, CleanInv, NEW f \in Files, UserEdits(f)
    PROVE  CleanInv'
<1>1. /\ UNCHANGED <<clock, run, statCache, torn, scenario, mode, built>>
      /\ clock \in Nat /\ edited' = TRUE /\ f \notin Outputs
  BY DEF UserEdits, caches, persistent, TypeOK, TimesOK
<1>2. PICK k, t : t \in clock .. clock + sc.future /\ disk' = [disk EXCEPT ![f] = [content |-> <<k>>, mtime |-> t]]
  BY DEF UserEdits
<1>3. t \in Nat /\ t >= clock
  BY <1>1, <1>2, GraphFacts DEF TypeOK
<1>4. disk'[f].mtime = t /\ \A g \in Files \ {f} : disk'[g] = disk[g]
  <2>1. DiskOK
    BY DEF TypeOK
  <2>2. disk = [g \in Files |-> disk[g]]
    BY <2>1 DEF DiskOK
  <2> QED
    BY <1>2, <2>2
<1>5. Passes
  BY <1>1, <1>3, <1>4 DEF Passes
<1>6. \A g \in Outputs : disk'[g] = disk[g]
  BY <1>1, <1>4, GraphFacts DEF Outputs, TypeOK
<1> QED
  BY <1>1, <1>5, <1>6, QuietIsClean

\* What the user deletes has no time that a record could name.
LEMMA UserDeletesIsClean == TypeOK /\ CleanInv /\ UserDeletes => CleanInv'
<1> SUFFICES ASSUME TypeOK, CleanInv, UserDeletes PROVE CleanInv'
  OBVIOUS
<1>1. /\ UNCHANGED <<clock, run, torn, scenario, mode, built>>
      /\ mode = "between" /\ clock \in Nat /\ edited' = TRUE
  BY DEF UserDeletes, persistent, TypeOK, TimesOK
<1>2. /\ Graph' = Graph /\ Outputs' = Outputs
      /\ \A n : Inputs(n)' = Inputs(n) /\ Output(n)' = Output(n)
  BY <1>1, SameGraph
<1>3. PICK gone : gone \in {Outputs \cup {Dir}} \cup {{f} : f \in Outputs}
                  /\ disk' = [f \in Files |-> IF f \in gone THEN Absent ELSE disk[f]]
  BY DEF UserDeletes
<1>4. gone \subseteq Outputs \cup {Dir}
  BY <1>3
<1>5. \A f \in Files : disk'[f] = disk[f] \/ (f \in Outputs \cup {Dir} /\ disk'[f].mtime = 0)
  BY <1>3, <1>4 DEF Absent
<1>6. \A f \in Outputs : f \in Files
  BY GraphFacts DEF Outputs, TypeOK
<1>7. OutputTimes'
  <2>1. \A f \in Outputs : disk'[f].mtime <= clock
    BY <1>1, <1>5, <1>6 DEF CleanInv, OutputTimes
  <2> QED
    BY <1>1, <1>2, <2>1 DEF OutputTimes
<1>8. BuiltOK' /\ OneAtATime'
  BY <1>1, <1>2, BuiltStays DEF CleanInv, OneAtATime
<1>9. ASSUME NEW n \in Graph PROVE RecordDated(n)' /\ RecordTrue(n)' /\ Honest(n)'
  <2>0. RecordDated(n) /\ RecordTrue(n)
    BY DEF CleanInv
  <2>1. Output(n) \in Files /\ (Good(n)' <=> Good(n))
    BY <1>1, GraphFacts DEF TypeOK, Good
  <2>2. ASSUME Exists(n)' PROVE Exists(n) /\ disk'[Output(n)] = disk[Output(n)]
    BY <1>2, <1>5, <2>1, <2>2 DEF Exists
  <2>3. RecordDated(n)'
    BY <1>1, <1>2, <2>0, <2>1, <2>2 DEF RecordDated, Dated
  <2>4. ASSUME Good(n), NEW k \in DOMAIN Inputs(n), disk'[Inputs(n)[k]] # disk[Inputs(n)[k]]
        PROVE  built[n].sig[k] # <<disk'[Inputs(n)[k]].mtime>>
    <3>1. Inputs(n)[k] \in Files \ {Dir}
      BY InputIsSourceOrMade
    <3>2. Inputs(n)[k] \in Outputs /\ disk'[Inputs(n)[k]].mtime = 0
      BY <1>5, <2>4, <3>1
    <3>3. Dated(built[n].sig[k]) /\ built[n].sig[k][1] \in 1 .. clock
      BY <2>0, <2>4, <3>2 DEF RecordDated
    <3> QED
      BY <3>2, <3>3, DatedByItsTime
  <2>5. ASSUME Good(n), Exists(n)', n \notin torn, SameTimes(n, built[n].sig)'
        PROVE  disk[Output(n)].content = Made(Contents(n)')
    <3>1. Tells(n, built[n].sig, disk[Output(n)].content)
      BY <1>1, <2>0, <2>2, <2>5 DEF RecordTrue, Spoiled, Running
    <3> QED
      BY <1>1, <1>2, <2>4, <2>5, <3>1, ToldStays
  <2>6. Made(Contents(n))' = Made(Contents(n)')
    BY DEF Made
  <2>7. RecordTrue(n)'
    BY <1>1, <1>2, <2>1, <2>2, <2>5, <2>6 DEF RecordTrue, Tells
  <2>8. Honest(n)'
    BY <1>1 DEF Honest, Running
  <2> QED
    BY <2>3, <2>7, <2>8
<1> QED
  BY <1>1, <1>2, <1>7, <1>8, <1>9 DEF CleanInv, Running

LEMMA StartNodeAnswer ==
    ASSUME TypeOK, NEW q \in Graph, StartNode(q), run'[q].phase # "finished"
    PROVE  \A p \in Producers(q) : run[p].phase = "finished" /\ Successful(p)
<1>1. run'[q] = IF \A p \in Producers(q) : Successful(p) THEN Goto(run[q], FirstOfNode(q))
                                                         ELSE Finish(run[q], "kDidNotRun")
  BY NodeIsSound DEF StartNode, TypeOK, FramesOK
<1>2. Finish(run[q], "kDidNotRun").phase = "finished"
  BY NodeIsSound, Finishing
<1> QED
  BY <1>1, <1>2 DEF StartNode

LEMMA StartNodeIsClean ==
    ASSUME TypeOK, CleanInv, \A n \in Graph : ProducersFirst(n), NEW q \in Graph, StartNode(q)
    PROVE  CleanInv'
<1>0. /\ edited \in BOOLEAN /\ BuiltOK /\ OutputTimes /\ OneAtATime /\ mode = "building" /\ Running
      /\ \A n \in Graph : /\ RecordDated(n) /\ RecordTrue(n) /\ Honest(n)
                          /\ Course(n) /\ RunTrue(n) /\ Remembered(n)
      /\ \A f \in Files : IsSource(f) => SourceEntered(f)
  BY DEF CleanInv, Running, StartNode
<1>1. /\ UNCHANGED <<disk, statCache, clock, mode, built, scenario, edited, torn>>
      /\ clock \in Nat /\ run[q].phase = "idle" /\ \A n \in Nodes \ {q} : run'[n] = run[n]
  BY StartNodeOutcome DEF StartNode, caches, persistent, scenarioVars, history, TypeOK, TimesOK
<1>2. /\ Graph' = Graph /\ sc' = sc /\ Outputs' = Outputs /\ Graph \subseteq Nodes
      /\ \A f : IsSource(f)' = IsSource(f)
      /\ \A n : /\ Inputs(n)' = Inputs(n) /\ Output(n)' = Output(n) /\ Sources(n)' = Sources(n)
                /\ Producers(n)' = Producers(n)
  BY <1>1, SameGraph, SameNode, GraphFacts DEF TypeOK
<1>3. Passes
  BY <1>0, <1>1 DEF Passes
<1>4. BuiltOK' /\ OneAtATime' /\ OutputTimes'
  BY <1>0, <1>1, <1>2, BuiltStays, StartedOneAtATime DEF OutputTimes
<1>5. ASSUME NEW f \in Files, IsSource(f) PROVE SourceEntered(f)'
  <2>1. \A t : TrueOrRenewed(f, t) => TrueOrRenewed(f, t)'
    BY <1>0, <1>3, <1>5, TrueOrRenewedStays
  <2>2. /\ Len(statCache[f]) <= 1
        /\ \A j \in DOMAIN statCache[f] : ~statCache[f][j].dirty =>
               \A t : t = statCache[f][j].mtime => TrueOrRenewed(f, t)'
    BY <1>0, <1>5, <2>1 DEF SourceEntered
  <2> QED
    BY <1>1, <2>2 DEF SourceEntered
<1>6. ASSUME NEW n \in Graph, n # q
      PROVE  /\ RecordDated(n)' /\ RecordTrue(n)' /\ Honest(n)'
             /\ Course(n)' /\ RunTrue(n)' /\ Remembered(n)'
  <2>1. Elsewhere(n)
    BY <1>1, <1>2, <1>3, <1>6 DEF Elsewhere
  <2>2. RecordDated(n)' /\ RecordTrue(n)' /\ Course(n)' /\ RunTrue(n)'
    BY <1>0, <2>1, RecordDatedElsewhere, RecordTrueElsewhere, CourseElsewhere, RunTrueElsewhere
  <2>3. Honest(n)'
    <3>1. run[n].phase = "idle" => run[n].sig = <<>>
      BY NodeIsSound DEF Sound, IndexOK
    <3> QED
      BY <1>0, <2>1, <3>1, HonestElsewhere
  <2>4. Remembered(n)'
    BY <1>0, <1>1, <1>2, <1>6, RememberedElsewhere
  <2> QED
    BY <2>2, <2>3, <2>4
<1>7. /\ RecordDated(q)' /\ RecordTrue(q)' /\ Honest(q)'
      /\ Course(q)' /\ RunTrue(q)' /\ Remembered(q)'
  <2> DEFINE r == run[q]
             s == run'[q]
  <2>1. r.sig = <<>> /\ r.stamps = <<>>
    BY <1>1, NodeIsSound DEF Sound, IndexOK
  <2>2. r.acted = "no" /\ r.result # "kUpToDate"
    BY <1>0, <1>1 DEF Course, AfterAction
  <2>3. /\ s.sig = <<>> /\ s.stamps = <<>> /\ s.acted = "no" /\ s.result # "kUpToDate"
        /\ \/ s.phase \in {"sign", "compare"} /\ s.step = "look"
           \/ s.phase = "finished" /\ s.result = "kDidNotRun"
    BY <2>1, <2>2, StartNodeOutcome DEF GoesOn, Ends, Rest, FrameFields, FirstOfNode
  <2>4. RecordDated(q)'
    BY <1>0, <1>1, <1>2, <2>3 DEF RecordDated, Dated, Good, Exists
  <2>5. RecordTrue(q)'
    <3>1. ~Spoiled(q) /\ ~Spoiled(q)'
      BY <1>1, <2>2, <2>3 DEF Spoiled
    <3>2. Tells(q, built[q].sig, disk[Output(q)].content)' = Tells(q, built[q].sig, disk[Output(q)].content)
      BY <1>1, <1>2 DEF Tells, SameTimes, Now, Made, Contents
    <3> QED
      BY <1>0, <1>1, <1>2, <2>3, <3>1, <3>2 DEF RecordTrue, Good, Exists
  <2>6. Honest(q)'
    <3>1. DOMAIN s.sig = {} /\ Len(s.sig) = 0
      BY <2>3
    <3>2. Len(Inputs(q)) \in Nat
      BY InputFacts DEF TypeOK
    <3>3. ~(s.step = "store" /\ s.phase \in {"sign", "stamps", "validate"})
      BY <2>3
    <3> QED
      BY <1>2, <3>1, <3>2, <3>3 DEF Honest
  <2>7. Course(q)'
    <3>1. \A p \in Producers(q) : p \in Graph /\ p # q /\ run[p].phase = "finished"
      BY <1>1 DEF StartNode, Producers
    <3>2. ASSUME s.phase # "finished"
          PROVE  \A p \in Producers(q) : run'[p].phase = "finished" /\ Successful(p)'
      <4>1. \A p \in Producers(q) : run'[p] = run[p]
        BY <1>1, <1>2, <3>1
      <4> QED
        BY <3>2, <4>1, StartNodeAnswer DEF Successful
    <3> QED
      BY <1>0, <1>1, <1>2, <2>3, <3>2 DEF Course, AfterAction
  <2>8. RunTrue(q)'
    BY <2>3 DEF RunTrue
  <2>9. Remembered(q)'
    <3>1. DOMAIN s.sig = {} /\ DOMAIN s.stamps = {}
      BY <2>3
    <3> QED
      BY <2>3, <3>1 DEF Remembered
  <2> QED
    BY <2>4, <2>5, <2>6, <2>7, <2>8, <2>9
<1>8. \A n \in Graph : /\ RecordDated(n)' /\ RecordTrue(n)' /\ Honest(n)'
                       /\ Course(n)' /\ RunTrue(n)' /\ Remembered(n)'
  BY <1>6, <1>7
<1> QED
  BY <1>0, <1>1, <1>2, <1>4, <1>5, <1>8 DEF CleanInv, Running

LEMMA StartBuildIsClean ==
    ASSUME TimesTell, TypeOK, CleanInv, StartBuild
    PROVE  CleanInv'
<1>0. /\ BuiltOK /\ OutputTimes /\ mode = "between"
      /\ \A n \in Graph : RecordDated(n) /\ RecordTrue(n)
  BY DEF CleanInv, StartBuild
<1>1. /\ UNCHANGED <<disk, clock, built, scenario, torn>> /\ mode' = "building" /\ edited' = FALSE
      /\ \A n \in Nodes : run'[n] = Frame
      /\ \A f \in Files : statCache'[f] = <<>>
      /\ \A f \in Outputs : disk[f].mtime < clock
  BY DEF StartBuild, persistent, TimesTell
<1>2. /\ Graph' = Graph /\ Outputs' = Outputs /\ Graph \subseteq Nodes
      /\ \A n : Inputs(n)' = Inputs(n) /\ Output(n)' = Output(n)
  BY <1>1, SameGraph, GraphFacts DEF TypeOK
<1>3. /\ Frame.phase = "idle" /\ Frame.sig = <<>> /\ Frame.stamps = <<>> /\ Frame.acted = "no"
      /\ Frame.step = "look" /\ Frame.result = "kDidNotRun"
      /\ DOMAIN Frame.sig = {} /\ DOMAIN Frame.stamps = {} /\ Len(Frame.sig) = 0
  BY DEF Frame
<1>4. BuiltOK' /\ OutputTimes' /\ OneAtATime'
  BY <1>0, <1>1, <1>2, <1>3, BuiltStays DEF OutputTimes, OneAtATime, Active
<1>5. \A f \in Files : SourceEntered(f)'
  <2>1. ASSUME NEW f \in Files PROVE Len(statCache'[f]) <= 1 /\ DOMAIN statCache'[f] = {}
    <3>1. statCache'[f] = <<>>
      BY <1>1
    <3> QED
      BY <3>1
  <2> QED
    BY <2>1 DEF SourceEntered
<1>6. ASSUME NEW n \in Graph
      PROVE  /\ RecordDated(n)' /\ RecordTrue(n)' /\ Honest(n)'
             /\ Course(n)' /\ RunTrue(n)' /\ Remembered(n)'
  <2>0. run'[n] = Frame /\ Output(n) \in Outputs
    BY <1>1, <1>2 DEF Outputs
  <2>1. RecordDated(n)'
    <3>1. ASSUME Good(n), NEW k \in DOMAIN Inputs(n), Inputs(n)[k] \in Outputs, Exists(n)
          PROVE  built[n].sig[k][1] < clock
      <4>1. built[n].sig[k][1] \in Nat /\ built[n].sig[k][1] <= disk[Output(n)].mtime
        BY <1>0, <3>1 DEF RecordDated, Dated
      <4>2. disk[Output(n)].mtime \in Nat /\ disk[Output(n)].mtime < clock /\ clock \in Nat
        BY <1>1, <2>0, GraphFacts DEF TypeOK, DiskOK, TimesOK
      <4> QED
        BY <4>1, <4>2
    <3> QED
      BY <1>0, <1>1, <1>2, <3>1 DEF RecordDated, Dated, Good, Exists
  <2>2. RecordTrue(n)'
    <3>1. ~Spoiled(n) /\ ~Spoiled(n)'
      BY <1>0, <1>3, <2>0 DEF Spoiled, Running
    <3>2. Tells(n, built[n].sig, disk[Output(n)].content)' = Tells(n, built[n].sig, disk[Output(n)].content)
      BY <1>1, <1>2 DEF Tells, SameTimes, Now, Made, Contents
    <3> QED
      BY <1>0, <1>1, <1>2, <3>1, <3>2 DEF RecordTrue, Good, Exists
  <2>3. Honest(n)'
    <3>1. Len(Inputs(n)) \in Nat
      BY InputFacts DEF TypeOK
    <3> QED
      BY <1>2, <1>3, <2>0, <3>1 DEF Honest
  <2>4. Course(n)' /\ RunTrue(n)' /\ Remembered(n)'
    BY <1>1, <1>3, <2>0 DEF Course, RunTrue, Remembered, AfterAction, Signing
  <2> QED
    BY <2>1, <2>2, <2>3, <2>4
<1> QED
  BY <1>1, <1>2, <1>4, <1>5, <1>6 DEF CleanInv, Running

LEMMA SavedRecord ==
    ASSUME TypeOK, SaveAllBuiltNodes, NEW n \in Graph
    PROVE  \/ run[n].result \in {"kDidNotRun", "kUpToDate"} /\ built'[n] = built[n]
           \/ /\ run[n].result \notin {"kDidNotRun", "kUpToDate"}
              /\ built'[n] = [result |-> BuiltNodeResultFor(n), sig |-> run[n].sig]
              /\ built'[n].result = BuiltNodeResultFor(n) /\ built'[n].sig = run[n].sig
BY GraphFacts DEF SaveAllBuiltNodes, TypeOK

\* A record that is made good is of a run that succeeded with sources in the past.
LEMMA GoodIsEarned ==
    ASSUME TypeOK, SaveAllBuiltNodes, NEW n \in Graph, EarnedBy(n), Course(n),
           built'[n].result = "guaranteed", run[n].result \notin {"kDidNotRun", "kUpToDate"}
    PROVE  /\ run[n].acted = "succeeds" /\ ~run[n].future /\ run[n].phase = "finished"
           /\ built'[n].sig = run[n].sig /\ Len(run[n].sig) = Len(Inputs(n))
<1>1. BuiltNodeResultFor(n) = "guaranteed" /\ built'[n].sig = run[n].sig
  BY SavedRecord
<1>2. run[n].result = "kRanSuccesfully" /\ ~run[n].doubtful
  BY <1>1 DEF BuiltNodeResultFor, Successful
<1>3. run[n].acted = "succeeds" /\ run[n].phase = "finished"
  BY <1>2 DEF EarnedBy, SaveAllBuiltNodes
<1> QED
  BY <1>1, <1>2, <1>3, NodeIsSound DEF Course, FrameOK

LEMMA SavedIsDated ==
    ASSUME TypeOK, SaveAllBuiltNodes, OutputTimes, NEW n \in Graph, EarnedBy(n), Course(n), RunTrue(n),
           Honest(n), RecordDated(n)
    PROVE  RecordDated(n)'
<1> DEFINE r == run[n]
<1>1. /\ UNCHANGED <<disk, clock, scenario, run>> /\ mode = "building" /\ mode' = "saved" /\ clock \in Nat
  BY DEF SaveAllBuiltNodes, scenarioVars, TypeOK, TimesOK
<1>2. Inputs(n)' = Inputs(n) /\ Outputs' = Outputs /\ Output(n)' = Output(n)
  BY <1>1, SameGraph
<1>3. CASE built'[n] = built[n]
  BY <1>1, <1>2, <1>3 DEF RecordDated, Dated, Good, Exists
<1>4. CASE run[n].result \notin {"kDidNotRun", "kUpToDate"} /\ built'[n].result = "guaranteed"
  <2>1. r.acted = "succeeds" /\ ~r.future /\ r.phase = "finished" /\ built'[n].sig = r.sig
        /\ Len(r.sig) = Len(Inputs(n))
    BY <1>4, GoodIsEarned
  <2>2. DOMAIN r.sig = DOMAIN Inputs(n)
    BY <2>1, NodeIsSound, AppendToSequence, InputFacts DEF FrameOK, TypeOK
  <2>3. ASSUME NEW k \in DOMAIN Inputs(n)
        PROVE  /\ Dated(r.sig[k])
               /\ Inputs(n)[k] \notin Outputs => r.sig[k][1] < clock
               /\ Inputs(n)[k] \in Outputs =>
                    /\ r.sig[k][1] \in 1 .. clock
                    /\ Exists(n) => r.sig[k][1] <= disk[Output(n)].mtime
    <3>1. CASE Inputs(n)[k] \notin Outputs
      BY <1>1, <2>1, <2>2, <3>1 DEF Honest, Running, RunTrue
    <3>2. CASE Inputs(n)[k] \in Outputs
      <4>1. PICK p \in Producers(n) : Output(p) = Inputs(n)[k]
        BY <3>2, InputIsSourceOrMade
      <4>2. disk[Inputs(n)[k]].mtime \in Nat /\ disk[Inputs(n)[k]].mtime <= clock
            /\ disk[Inputs(n)[k]].mtime <= disk[Output(n)].mtime
        BY <2>1, <3>2, <4>1, InputIsSourceOrMade DEF OutputTimes, RunTrue
      <4>3. r.sig[k] = <<disk[Inputs(n)[k]].mtime>> /\ disk[Inputs(n)[k]].mtime # 0
        BY <1>1, <2>2, <3>2 DEF Honest, Running, Now
      <4>4. Dated(r.sig[k]) /\ r.sig[k][1] = disk[Inputs(n)[k]].mtime
        BY <4>2, <4>3, TimeIsDated
      <4> QED
        BY <1>1, <3>2, <4>2, <4>3, <4>4
    <3> QED
      BY <3>1, <3>2
  <2> QED
    BY <1>1, <1>2, <2>1, <2>3 DEF RecordDated, Dated, Good, Exists
<1> QED
  BY <1>3, <1>4, SavedRecord DEF RecordDated, Good

LEMMA SavedIsTrue ==
    ASSUME TypeOK, SaveAllBuiltNodes, NEW n \in Graph, EarnedBy(n), Course(n), RunTrue(n), RecordTrue(n)
    PROVE  RecordTrue(n)'
<1> DEFINE r == run[n]
<1>1. /\ UNCHANGED <<disk, scenario, run, torn>> /\ mode = "building" /\ mode' = "saved"
      /\ r.phase = "finished"
  BY DEF SaveAllBuiltNodes, scenarioVars, history
<1>2. Inputs(n)' = Inputs(n) /\ Output(n)' = Output(n)
  BY <1>1, SameGraph
<1>3. Spoiled(n) = (r.acted = "fails") /\ Spoiled(n)' = (r.acted = "fails")
  BY <1>1 DEF Spoiled, Running
<1>4. \A sig : Tells(n, sig, disk[Output(n)].content)' = Tells(n, sig, disk[Output(n)].content)
  BY <1>1, <1>2 DEF Tells, SameTimes, Now, Made, Contents
<1>5. r.acted = "fails" => built'[n].result # "guaranteed"
  <2>1. ASSUME r.acted = "fails" PROVE r.result = "kRanFailed"
    BY <1>1, <2>1 DEF Course, EarnedBy
  <2>2. ASSUME r.acted = "fails" PROVE BuiltNodeResultFor(n) = "failed"
    BY <2>1, <2>2 DEF BuiltNodeResultFor, Successful
  <2> QED
    BY <2>1, <2>2, SavedRecord
<1>6. ASSUME built'[n].result = "guaranteed", Exists(n), n \notin torn, r.acted # "fails", NEW sig, sig = built'[n].sig
      PROVE  Tells(n, sig, disk[Output(n)].content)
  <2>1. CASE built'[n] = built[n]
    BY <1>3, <1>6, <2>1 DEF RecordTrue, Good
  <2>2. CASE run[n].result \notin {"kDidNotRun", "kUpToDate"}
    <3>1. r.acted = "succeeds" /\ ~r.future /\ sig = r.sig
      BY <1>6, <2>2, GoodIsEarned
    <3> QED
      BY <1>1, <3>1 DEF RunTrue
  <2> QED
    BY <2>1, <2>2, SavedRecord
<1>7. ASSUME built'[n].result = "guaranteed", Exists(n), n \notin torn, r.acted # "fails"
      PROVE  Tells(n, built[n].sig, disk[Output(n)].content)'
  <2>1. PICK sig : sig = built'[n].sig
    OBVIOUS
  <2>2. Tells(n, sig, disk[Output(n)].content)'
    BY <1>4, <1>6, <1>7, <2>1
  <2> QED
    BY <2>1, <2>2 DEF Tells
<1> QED
  BY <1>1, <1>2, <1>3, <1>5, <1>7 DEF RecordTrue, Good, Exists

LEMMA SaveIsClean == TypeOK /\ EarnedInv /\ CleanInv /\ SaveAllBuiltNodes => CleanInv'
<1> SUFFICES ASSUME TypeOK, EarnedInv, CleanInv, SaveAllBuiltNodes PROVE CleanInv'
  OBVIOUS
<1>0. /\ edited \in BOOLEAN /\ BuiltOK /\ OutputTimes
      /\ \A n \in Graph : /\ RecordDated(n) /\ RecordTrue(n) /\ Honest(n)
                          /\ Course(n) /\ RunTrue(n) /\ EarnedBy(n)
  BY DEF CleanInv, Running, SaveAllBuiltNodes, EarnedInv
<1>1. /\ UNCHANGED <<disk, clock, scenario, run, edited, torn>> /\ mode = "building" /\ mode' = "saved"
      /\ \A n \in Graph : run[n].phase = "finished"
  BY DEF SaveAllBuiltNodes, scenarioVars, history
<1>2. /\ Graph' = Graph /\ Outputs' = Outputs
      /\ \A n : Inputs(n)' = Inputs(n) /\ Output(n)' = Output(n) /\ Producers(n)' = Producers(n)
  BY <1>1, SameGraph
<1>3. BuiltOK'
  <2>1. \A n \in Graph : IsSequence(run[n].sig)
    BY NodeIsSound DEF FrameOK
  <2>2. \A n \in Graph : BuiltNodeResultFor(n) \in {"failed", "doubtful", "guaranteed"}
    BY DEF BuiltNodeResultFor
  <2>3. ASSUME NEW n \in Graph
        PROVE  /\ built'[n] = [result |-> built'[n].result, sig |-> built'[n].sig]
               /\ built'[n].result \in {"none", "failed", "doubtful", "guaranteed"} /\ IsSequence(built'[n].sig)
    BY <1>0, <2>1, <2>2, SavedRecord DEF BuiltOK
  <2> QED
    BY <1>2, <2>3 DEF BuiltOK, IsSequence
<1>4. OutputTimes' /\ OneAtATime'
  BY <1>0, <1>1, <1>2 DEF OutputTimes, OneAtATime
<1>5. ASSUME NEW n \in Graph
      PROVE  RecordDated(n)' /\ RecordTrue(n)' /\ Honest(n)' /\ Course(n)' /\ RunTrue(n)'
  <2>1. RecordDated(n)' /\ RecordTrue(n)'
    BY <1>0, <1>5, SavedIsDated, SavedIsTrue
  <2>2. Honest(n)'
    <3>1. \A f, t : TrueOrRenewed(f, t) => TrueOrRenewed(f, t)'
      BY <1>1 DEF TrueOrRenewed, Renewed
    <3>2. ASSUME NEW k \in DOMAIN run[n].sig
          PROVE  LET f == Inputs(n)[k] IN
                 IF f \in Outputs THEN run[n].sig[k] = <<disk[f].mtime>> /\ disk[f].mtime # 0
                 ELSE Dated(run[n].sig[k]) /\ \A g, t : g = f /\ t = run[n].sig[k][1] => TrueOrRenewed(g, t)'
      BY <1>0, <1>1, <3>1, <3>2 DEF Honest, Running, Now
    <3> QED
      BY <1>0, <1>1, <1>2, <3>2 DEF Honest, Running, Now, Dated
  <2>3. Course(n)'
    <3>1. run[n].result = "kUpToDate" => built'[n] = built[n]
      BY SavedRecord
    <3>2. \A p \in Producers(n) : Successful(p)' = Successful(p)
      BY <1>1 DEF Successful
    <3> QED
      BY <1>0, <1>1, <1>2, <3>1, <3>2 DEF Course, Good, Exists
  <2>4. RunTrue(n)'
    <3>1. \A sig, c : Tells(n, sig, c)' = Tells(n, sig, c)
      BY <1>1, <1>2 DEF Tells, SameTimes, Now, Made, Contents
    <3>2. Made(Contents(n))' = Made(Contents(n))
      BY <1>1, <1>2 DEF Made, Contents
    <3>3. \A sig, c : sig = run[n].sig /\ c = disk[Output(n)].content =>
             Tells(n, run[n].sig, disk[Output(n)].content)' = Tells(n, sig, c)
      BY <1>1, <1>2, <3>1 DEF Tells, SameTimes, Now, Made, Contents
    <3> QED
      BY <1>0, <1>1, <1>2, <3>2, <3>3 DEF RunTrue, Exists, AfterAction
  <2> QED
    BY <2>1, <2>2, <2>3, <2>4
<1> QED
  BY <1>0, <1>1, <1>2, <1>3, <1>4, <1>5 DEF CleanInv, Running

LEMMA SaveDigestIsClean == TypeOK /\ CleanInv /\ SaveDigestCache => CleanInv'
<1> SUFFICES ASSUME TypeOK, CleanInv, SaveDigestCache PROVE CleanInv'
  OBVIOUS
<1>1. /\ UNCHANGED <<disk, clock, scenario, run, edited, torn, built>> /\ mode = "saved" /\ mode' = "between"
  BY DEF SaveDigestCache, scenarioVars, history
<1>2. /\ Graph' = Graph /\ Outputs' = Outputs
      /\ \A n : Inputs(n)' = Inputs(n) /\ Output(n)' = Output(n)
  BY <1>1, SameGraph
<1>3. BuiltOK' /\ OutputTimes' /\ OneAtATime' /\ edited' \in BOOLEAN
  BY <1>1, <1>2, BuiltStays DEF CleanInv, OutputTimes, OneAtATime
<1>4. ASSUME NEW n \in Graph PROVE RecordDated(n)' /\ RecordTrue(n)' /\ Honest(n)'
  <2>0. RecordDated(n) /\ RecordTrue(n) /\ Course(n)
    BY <1>1 DEF CleanInv, Running
  <2>1. RecordDated(n)'
    BY <1>1, <1>2, <2>0 DEF RecordDated, Dated, Good, Exists
  <2>2. Good(n) => ~Spoiled(n)
    BY <1>1, <2>0 DEF RecordTrue, Course, Spoiled
  <2>3. Tells(n, built[n].sig, disk[Output(n)].content)' = Tells(n, built[n].sig, disk[Output(n)].content)
    BY <1>1, <1>2 DEF Tells, SameTimes, Now, Made, Contents
  <2>4. RecordTrue(n)'
    BY <1>1, <1>2, <2>0, <2>2, <2>3 DEF RecordTrue, Good, Exists
  <2>5. Honest(n)'
    BY <1>1 DEF Honest, Running
  <2> QED
    BY <2>1, <2>4, <2>5
<1> QED
  BY <1>1, <1>2, <1>3, <1>4 DEF CleanInv, Running

LEMMA SequencesDiffer ==
    ASSUME NEW s, IsSequence(s), NEW t, IsSequence(t), Len(s) = Len(t), s # t
    PROVE  \E k \in 1 .. Len(s) : s[k] # t[k]
<1>1. s = [k \in 1 .. Len(s) |-> s[k]] /\ t = [k \in 1 .. Len(t) |-> t[k]]
  BY DEF IsSequence
<1> QED
  BY <1>1

\* A half-written output that a good record is of either is known to be torn, or
\* the record names times that the files no longer have.
LEMMA KilledTellsNothing ==
    ASSUME TypeOK, BuiltOK, mode = "building", NEW n \in Graph, Honest(n), Course(n), Good(n), Spoiled(n),
           run[n].sig # built[n].sig, RecordDated(n)
    PROVE  ~SameTimes(n, built[n].sig)
<1> DEFINE r == run[n]
           sig == built[n].sig
<1>1. Len(r.sig) = Len(Inputs(n)) /\ Len(sig) = Len(Inputs(n))
  <2>1. r.acted # "no"
    BY DEF Spoiled, Course, AfterAction
  <2> QED
    BY <2>1 DEF Course, RecordDated
<1>2. IsSequence(r.sig) /\ IsSequence(sig) /\ DOMAIN Inputs(n) = 1 .. Len(Inputs(n))
  BY NodeIsSound, InputFacts DEF FrameOK, BuiltOK, TypeOK
<1>3. PICK k \in DOMAIN Inputs(n) : r.sig[k] # sig[k]
  BY <1>1, <1>2, SequencesDiffer
<1>4. k \in DOMAIN r.sig
  BY <1>1, <1>2, AppendToSequence
<1>5. SUFFICES ASSUME sig[k] = Now(Inputs(n)[k]) PROVE FALSE
  BY DEF SameTimes
<1>6. CASE Inputs(n)[k] \in Outputs
  BY <1>3, <1>4, <1>5, <1>6 DEF Honest, Running
<1>7. CASE Inputs(n)[k] \notin Outputs
  <2>1. Dated(r.sig[k]) /\ TrueOrRenewed(Inputs(n)[k], r.sig[k][1])
    BY <1>4, <1>7 DEF Honest, Running
  <2>2. r.sig[k] # <<disk[Inputs(n)[k]].mtime>>
    BY <1>3, <1>5 DEF Now
  <2>3. Renewed(Inputs(n)[k])
    BY <2>1, <2>2, DatedByItsTime DEF TrueOrRenewed
  <2>4. n \in Readers(Inputs(n)[k])
    BY InputIsSourceOrMade
  <2> QED
    BY <1>5, <2>3, <2>4 DEF Renewed
<1> QED
  BY <1>6, <1>7

LEMMA KillIsClean == TypeOK /\ CleanInv /\ Kill => CleanInv'
<1> SUFFICES ASSUME TypeOK, CleanInv, Kill PROVE CleanInv'
  OBVIOUS
<1>1. /\ UNCHANGED <<disk, clock, scenario, run, edited, built>> /\ mode \in {"building", "saved"} /\ mode' = "between"
      /\ torn' = torn \cup {n \in Graph : HalfWritten(n)
                               /\ built[n] = [result |-> "guaranteed", sig |-> run[n].sig]}
  BY DEF Kill, persistent, TypeOK
<1>2. /\ Graph' = Graph /\ Outputs' = Outputs
      /\ \A n : Inputs(n)' = Inputs(n) /\ Output(n)' = Output(n)
  BY <1>1, SameGraph
<1>3. BuiltOK' /\ OutputTimes' /\ OneAtATime' /\ edited' \in BOOLEAN
  BY <1>1, <1>2, BuiltStays DEF CleanInv, OutputTimes, OneAtATime
<1>4. ASSUME NEW n \in Graph PROVE RecordDated(n)' /\ RecordTrue(n)' /\ Honest(n)'
  <2>0. RecordDated(n) /\ RecordTrue(n) /\ Course(n) /\ Honest(n) /\ BuiltOK
    BY <1>1 DEF CleanInv, Running
  <2>1. RecordDated(n)'
    BY <1>1, <1>2, <2>0 DEF RecordDated, Dated, Good, Exists
  <2>2. ASSUME Good(n), Exists(n), n \notin torn' PROVE Tells(n, built[n].sig, disk[Output(n)].content)
    <3>1. n \notin torn
      BY <1>1, <2>2
    <3>2. CASE ~Spoiled(n)
      BY <2>0, <2>2, <3>1, <3>2 DEF RecordTrue
    <3>3. CASE Spoiled(n)
      <4>1. mode = "building"
        BY <1>1, <2>0, <2>2, <3>3 DEF RecordTrue, Spoiled, Course
      <4>2. HalfWritten(n)
        BY <3>3 DEF Spoiled, HalfWritten
      <4>3. run[n].sig # built[n].sig
        BY <1>1, <2>0, <2>2, <4>2 DEF Good, BuiltOK
      <4> QED
        BY <2>0, <2>2, <3>3, <4>1, <4>3, KilledTellsNothing DEF Tells
    <3> QED
      BY <3>2, <3>3
  <2>3. Tells(n, built[n].sig, disk[Output(n)].content)' = Tells(n, built[n].sig, disk[Output(n)].content)
    BY <1>1, <1>2 DEF Tells, SameTimes, Now, Made, Contents
  <2>4. RecordTrue(n)'
    BY <1>1, <1>2, <2>2, <2>3 DEF RecordTrue, Good, Exists
  <2>5. Honest(n)'
    BY <1>1 DEF Honest, Running
  <2> QED
    BY <2>1, <2>4, <2>5
<1> QED
  BY <1>1, <1>2, <1>3, <1>4 DEF CleanInv, Running

LEMMA InitIsClean == Init => CleanInv
<1> SUFFICES ASSUME Init PROVE CleanInv
  OBVIOUS
<1>1. /\ scenario \in DOMAIN Scenarios /\ mode = "between" /\ edited = FALSE /\ clock = 1
      /\ \A n \in Nodes : built[n] = NotBuilt
      /\ disk = [f \in Files |-> IF f \in Present \ Outputs THEN [content |-> <<1>>, mtime |-> 1] ELSE Absent]
  BY DEF Init
<1>2. Graph \subseteq Nodes /\ Outputs \subseteq Files
  BY <1>1, GraphFacts DEF Outputs
<1>3. \A n \in Graph : built[n] = NotBuilt
  BY <1>1, <1>2
<1>4. BuiltOK
  BY <1>3, EmptyIsASequence DEF BuiltOK, NotBuilt
<1>5. \A f \in Outputs : disk[f].mtime = 0
  <2> SUFFICES ASSUME NEW f \in Outputs PROVE disk[f].mtime = 0
    OBVIOUS
  <2>1. f \in Files /\ f \notin Present \ Outputs
    BY <1>2
  <2>2. disk[f] = Absent
    BY <1>1, <2>1
  <2> QED
    BY <2>2 DEF Absent
<1>6. OutputTimes /\ OneAtATime
  BY <1>1, <1>5 DEF OutputTimes, OneAtATime
<1>7. \A n \in Graph : RecordDated(n) /\ RecordTrue(n) /\ Honest(n)
  BY <1>1, <1>3 DEF RecordDated, RecordTrue, Honest, Good, NotBuilt, Running
<1> QED
  BY <1>1, <1>4, <1>6, <1>7 DEF CleanInv, Running

LEMMA NextIsClean ==
    ASSUME TimesTell, TypeOK, TypeOK', EarnedInv, WatchedInv, FreshInv, FreshInv', CleanInv, [Next]_vars
    PROVE  CleanInv'
<1>1. CASE UNCHANGED vars
  BY <1>1, StutterIsClean
<1>2. CASE SaveAllBuiltNodes \/ SaveDigestCache \/ Kill \/ Tick \/ UserDeletes \/ StartBuild
  BY <1>2, SaveIsClean, SaveDigestIsClean, KillIsClean, TickIsClean, UserDeletesIsClean, StartBuildIsClean
<1>3. ASSUME NEW f \in Files, UserEdits(f) PROVE CleanInv'
  BY <1>3, UserEditIsClean
<1>4. ASSUME NEW n \in Graph, StartNode(n) PROVE CleanInv'
  <2>1. \A m \in Graph : ProducersFirst(m)
    BY <1>4 DEF StartNode, FreshInv
  <2> QED
    BY <1>4, <2>1, StartNodeIsClean
<1>5. ASSUME NEW n \in Graph, mode = "building", NodeStep(n) PROVE CleanInv'
  BY <1>5, NodeStepIsClean
<1> QED
  BY <1>1, <1>2, <1>3, <1>4, <1>5 DEF Next, Build, User

---------------------------------------------------------------------------
(* A build from nothing, and why there is only one *)

LEMMA TimesTellLosesNoDigest == TimesTell => KillsLoseNoDigest
BY DEF TimesTell, KillsLoseNoDigest

LEMMA TimesTellStays ==
    ASSUME scenario' = scenario
    PROVE  TimesTell' <=> TimesTell
<1>1. /\ sc' = sc /\ Graph' = Graph
      /\ \A n : Inputs(n)' = Inputs(n) /\ Sources(n)' = Sources(n) /\ Output(n)' = Output(n)
  BY SameGraph
<1>2. \A m, n : InOrder(m, n)' <=> InOrder(m, n)
  BY <1>1 DEF InOrder
<1> QED
  BY <1>1, <1>2 DEF TimesTell

\* Whether a build was interrupted, edited into or started from an old state, what the
\* records say of the outputs is so, where the times of files tell that they changed.
THEOREM RecordsAreTrue ==
    Spec => [](TypeOK /\ (TimesTell => CleanInv))
<1>1. [Next]_vars => (TimesTell' => TimesTell)
  BY ScenarioStays, TimesTellStays
<1>2. TimesTell /\ TypeOK /\ TypeOK' /\ EarnedInv /\ WatchedInv /\ FreshInv /\ FreshInv' /\ CleanInv /\ [Next]_vars
      => CleanInv'
  BY NextIsClean
<1> QED
  BY <1>1, <1>2, InitIsClean, FramesAreEarned, ChangesAreNoticed, CachesAreFresh, TimesTellLosesNoDigest,
     PTL DEF Spec

\* A node of a build that nobody disturbed has the output its action makes of its inputs.
LocallyClean(n) == disk[Output(n)].content = Made(Contents(n))

LEMMA UndisturbedIsLocallyClean ==
    ASSUME TypeOK, CleanInv, EarnedInv, mode = "saved", ~edited, torn = {}, NEW n \in Graph, Successful(n)
    PROVE  LocallyClean(n)
<1> DEFINE r == run[n]
<1>1. RecordTrue(n) /\ Honest(n) /\ Course(n) /\ RunTrue(n) /\ EarnedBy(n)
  BY DEF CleanInv, EarnedInv, Running
<1>2. CASE r.result = "kRanSuccesfully"
  BY <1>1, <1>2 DEF EarnedBy, Course, RunTrue, LocallyClean
<1>3. CASE r.result = "kUpToDate"
  <2>1. r.phase = "finished" /\ Good(n) /\ r.sig = built[n].sig /\ Exists(n)
    BY <1>1, <1>3 DEF Course
  <2>2. ~Spoiled(n)
    BY <1>1, <2>1 DEF Spoiled, RecordTrue
  <2>3. Tells(n, built[n].sig, disk[Output(n)].content)
    BY <1>1, <2>1, <2>2 DEF RecordTrue
  <2>4. SameTimes(n, r.sig)
    <3>1. SUFFICES ASSUME NEW k \in DOMAIN Inputs(n) PROVE r.sig[k] = Now(Inputs(n)[k])
      BY DEF SameTimes
    <3>2. k \in DOMAIN r.sig
      <4>1. Len(r.sig) = Len(Inputs(n))
        BY <2>1 DEF CleanInv, RecordDated
      <4> QED
        BY <4>1, NodeIsSound, AppendToSequence, InputFacts DEF FrameOK, TypeOK
    <3>3. CASE Inputs(n)[k] \in Outputs
      BY <1>1, <3>2, <3>3 DEF Honest, Running
    <3>4. CASE Inputs(n)[k] \notin Outputs
      <4>1. Dated(r.sig[k]) /\ r.sig[k][1] = disk[Inputs(n)[k]].mtime
        BY <1>1, <3>2, <3>4 DEF Honest, Running, TrueOrRenewed, Renewed
      <4> QED
        BY <4>1, DatedByItsTime DEF Now
    <3> QED
      BY <3>3, <3>4
  <2> QED
    BY <2>1, <2>3, <2>4 DEF Tells, LocallyClean
<1> QED
  BY <1>2, <1>3 DEF Successful

\* One round of CleanContent: sources as they are, outputs as made of what c says.
Round(c) ==
    [f \in Files |-> IF f \notin Outputs THEN disk[f].content
                     ELSE LET n == CHOOSE m \in Graph : Output(m) = f
                          IN  Made([k \in DOMAIN Inputs(n) |-> c[Inputs(n)[k]]])]

LEMMA RoundOf ==
    ASSUME TypeOK, NEW c
    PROVE  /\ \A f \in Files \ Outputs : Round(c)[f] = disk[f].content
           /\ \A n \in Graph : Round(c)[Output(n)] = Made([k \in DOMAIN Inputs(n) |-> c[Inputs(n)[k]]])
<1>1. \A f \in Files \ Outputs : Round(c)[f] = disk[f].content
  BY DEF Round
<1>2. ASSUME NEW n \in Graph
      PROVE  Round(c)[Output(n)] = Made([k \in DOMAIN Inputs(n) |-> c[Inputs(n)[k]]])
  <2>1. Output(n) \in Files /\ Output(n) \in Outputs /\ \A m \in Graph : Output(m) = Output(n) => m = n
    BY GraphFacts DEF TypeOK
  <2>2. (CHOOSE m \in Graph : Output(m) = Output(n)) = n
    BY <2>1
  <2> QED
    BY <2>1, <2>2 DEF Round
<1> QED
  BY <1>1, <1>2

LEMMA CleanContentIsRound ==
    ASSUME NEW c, c = Round(c)
    PROVE  CleanContent = Round(CleanContent)
<1> DEFINE P(d) == d = Round(d)
<1>1. P(c)
  OBVIOUS
<1> HIDE DEF P
<1>2. P(CHOOSE d : P(d))
  BY <1>1
<1>3. CleanContent = CHOOSE d : P(d)
  BY DEF CleanContent, Round, P
<1> QED
  BY <1>2, <1>3 DEF P

\* Whatever is made of its inputs throughout is what a build from nothing makes:
\* of the nodes that differ one would only have inputs that do not.
LEMMA LocallyCleanIsClean ==
    ASSUME TypeOK, \A n \in Graph : LocallyClean(n)
    PROVE  \A n \in Graph : disk[Output(n)].content = CleanContent[Output(n)]
<1> DEFINE now == [f \in Files |-> disk[f].content]
           c == CleanContent
           differ == {n \in Graph : disk[Output(n)].content # c[Output(n)]}
<1>1. \A n \in Graph : \A k \in DOMAIN Inputs(n) : Inputs(n)[k] \in Files
  BY InputIsSourceOrMade
<1>2. now = Round(now)
  <2>1. ASSUME NEW f \in Files PROVE Round(now)[f] = disk[f].content
    <3>1. CASE f \notin Outputs
      BY <3>1, RoundOf
    <3>2. CASE f \in Outputs
      <4>1. PICK n \in Graph : f = Output(n)
        BY <3>2 DEF Outputs
      <4>2. [k \in DOMAIN Inputs(n) |-> now[Inputs(n)[k]]] = Contents(n)
        BY <1>1 DEF Contents
      <4>3. \A m \in Graph : Round(now)[Output(m)] = Made([k \in DOMAIN Inputs(m) |-> now[Inputs(m)[k]]])
        BY RoundOf
      <4>4. Round(now)[f] = Made(Contents(n))
        BY <4>1, <4>2, <4>3
      <4> QED
        BY <4>1, <4>4 DEF LocallyClean
    <3> QED
      BY <3>1, <3>2
  <2> HIDE DEF now
  <2>2. Round(now) = [f \in Files |-> Round(now)[f]]
    BY DEF Round
  <2>3. now = [f \in Files |-> disk[f].content]
    BY DEF now
  <2> QED
    BY <2>1, <2>2, <2>3
<1>3. c = Round(c)
  BY <1>2, CleanContentIsRound
<1> HIDE DEF c, now
<1>4. SUFFICES ASSUME differ # {} PROVE FALSE
  BY DEF c
<1>5. PICK n \in differ : \A p \in differ : Output(p) \notin ToSet(Inputs(n))
  <2>1. differ \in SUBSET Graph
    OBVIOUS
  <2> HIDE DEF differ
  <2> QED
    BY <1>4, <2>1, ScenarioAssumption DEF TypeOK, Graph, sc, Inputs, Output
<1>6. ASSUME NEW k \in DOMAIN Inputs(n) PROVE c[Inputs(n)[k]] = disk[Inputs(n)[k]].content
  <2>1. CASE Inputs(n)[k] \in Outputs
    <3>1. PICK p \in Graph : Output(p) = Inputs(n)[k]
      BY <2>1 DEF Outputs
    <3>2. Inputs(n)[k] \in ToSet(Inputs(n))
      BY DEF ToSet
    <3> QED
      BY <1>5, <3>1, <3>2
  <2>2. CASE Inputs(n)[k] \notin Outputs
    BY <1>1, <1>3, <2>2, RoundOf
  <2> QED
    BY <2>1, <2>2
<1>7. [k \in DOMAIN Inputs(n) |-> c[Inputs(n)[k]]] = Contents(n)
  BY <1>6 DEF Contents
<1>8. c[Output(n)] = Made(Contents(n))
  BY <1>3, <1>7, RoundOf
<1> QED
  BY <1>8 DEF LocallyClean

\* IncrementalEqualsClean, for all graphs, workers, edits, failures and kills, where the
\* times of files tell that they changed: the state file never makes the build
\* take an old output for the one a build from nothing makes.
THEOREM RebuiltIsClean ==
    Spec => [](TimesTell => IncrementalEqualsClean)
<1>1. TypeOK /\ CleanInv /\ EarnedInv => IncrementalEqualsClean
  BY UndisturbedIsLocallyClean, LocallyCleanIsClean DEF IncrementalEqualsClean
<1> QED
  BY <1>1, RecordsAreTrue, FramesAreEarned, PTL
=============================================================================
