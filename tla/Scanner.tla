------------------------------ MODULE Scanner ------------------------------
(***************************************************************************)
(* ScanImplicitDeps on several threads that share one scan cache, over     *)
(* several builds: the files a source includes, directly or not.  A leaf   *)
(* scan runs before generated files exist and skips them; a normal scan    *)
(* runs once the generators of its node are done.  Between builds files    *)
(* are edited and days pass; at the end of a build the cache is saved.     *)
(* Somebody may edit a file while it is scanned, too.  Files go by their   *)
(* paths, as texts.                                                        *)
(***************************************************************************)
EXTENDS Integers, ScanCache, IncludeScanner, PathUtil

CONSTANTS
    Texts,        \* Texts[c]: the lines of a content; of none if the file is empty
    Versions,     \* Versions[f]: the contents file f may have, the first at first
    Generated,    \* the files that are written during a build, after edits
    Scanners,     \* Scanners[s]: [type, includePaths, config]
    Requests,     \* [node, file, scanner, safe]: the scans of a build
    Workers,
    MaxBuilds,
    MaxAccidents, \* edits, between builds or during one, and reads that fail
    Days          \* the days that may pass between builds

\* What is scanned: the files, who makes them and who asks are there before
\* anything runs, and a leaf scan begins at a file that is not generated.
Files == DOMAIN Versions
ASSUME ScanAssumption ==
    /\ \A f \in Files : Versions[f] \in Seq(DOMAIN Texts) /\ Versions[f] # <<>>
    /\ \A c \in DOMAIN Texts : /\ Texts[c] \in Seq(ToSet(Texts[c]))
                               /\ \A line \in ToSet(Texts[c]) : line \in Seq(ToSet(line))
    /\ Generated \subseteq Files /\ <<>> \notin Files
    /\ \A s \in DOMAIN Scanners : Scanners[s].includePaths \in Seq(ToSet(Scanners[s].includePaths))
    /\ \A r \in Requests : /\ r = [node |-> r.node, file |-> r.file, scanner |-> r.scanner, safe |-> r.safe]
                           /\ r.file \in Files /\ r.scanner \in DOMAIN Scanners /\ r.safe \in BOOLEAN
                           /\ r.safe => r.file \notin Generated
    /\ \A f \in Files, s \in DOMAIN Scanners, safe \in BOOLEAN : <<f, s, safe>> \in DOMAIN KeyRank
    /\ Days \subseteq Nat

VARIABLES
    phase, disk, tick, day, build, accidents,
    statCache,    \* statCache[f]: the mtime remembered in this build, 0 of no file
    todo,         \* scans not begun in this build
    worker,       \* worker[w]: the scan thread w is in
    disturbed,    \* whether a file was edited during this build
    damaged       \* whether a read that failed has been taken for an empty text

files == <<disk, tick>>
builds == <<phase, day, build, todo, statCache>>
history == <<disturbed, damaged>>
vars == <<cacheVars, files, builds, accidents, history, worker>>

NoRequest == [node |-> 0, file |-> <<>>, scanner |-> 0, safe |-> FALSE]
Idle == [pc |-> "idle", request |-> NoRequest, stack |-> <<>>, found |-> {},
         file |-> <<>>, stamp |-> 0, includes |-> <<>>]

Unknown == -1
GetFileInfo(f) == IF f \in DOMAIN disk THEN disk[f].mtime ELSE 0
Exists(f) == GetFileInfo(f) # 0
StatCacheStat(f) ==
    IF f \in DOMAIN disk /\ statCache[f] # Unknown THEN statCache[f] ELSE GetFileInfo(f)
KeyOf(w) == ScanCacheKey(worker[w].file, worker[w].request.scanner, worker[w].request.safe)

Init ==
    /\ phase = "building"
    /\ disk = [f \in DOMAIN Versions |->
                 [content |-> Head(Versions[f]), mtime |-> IF f \in Generated THEN 0 ELSE 1]]
    /\ tick = 1 /\ day = 1 /\ build = 1
    /\ accidents = 0
    /\ statCache = [f \in DOMAIN Versions |-> Unknown]
    /\ todo = Requests
    /\ worker = [w \in Workers |-> Idle]
    /\ disturbed = FALSE /\ damaged = FALSE
    /\ frozen = <<>> /\ frozenAccess = {} /\ table = <<>>

Accident == accidents < MaxAccidents /\ accidents' = accidents + 1

---------------------------------------------------------------------------
(* Resolving *)

\* Found: what every scanner finds in every text.
Found == [s \in DOMAIN Scanners |-> [c \in DOMAIN Texts |->
            IF Scanners[s].type = "cpp" THEN ScanIncludesCpp(Texts[c])
            ELSE ScanIncludesGeneric(Texts[c], Scanners[s].config)]]
AllIncludes == UNION {ToSet(Found[s][c]) : s \in DOMAIN Scanners, c \in DOMAIN Texts}

\* Candidates: where a scanner looks for a file that is included by f, in order.
Candidates == [f \in Files |-> [include \in AllIncludes |-> [s \in DOMAIN Scanners |->
    LET name == PathInit(include.name)
        In(directory) == PathFormat(PathConcat(directory, name))
        includePaths == Scanners[s].includePaths
    IN  (IF include.isSystem THEN <<>> ELSE <<In(PathStripLast(PathInit(f)))>>)
          \o [k \in DOMAIN includePaths |-> In(PathInit(includePaths[k]))]]]]

\* stat[f]: the time known of a file, 0 if there is none.
FindFile(f, include, scanner, stat) ==
    LET candidates == Candidates[f][include][scanner]
        existing == {k \in DOMAIN candidates :
                        candidates[k] \in DOMAIN stat /\ stat[candidates[k]] # 0}
    IN  IF existing = {} THEN <<>>
        ELSE <<candidates[CHOOSE k \in existing : \A l \in existing : k <= l]>>

ScanIncludes(f, scanner) == Found[scanner][disk[f].content]

ScanFile(f, scanner, stat) ==
    LET includes == ScanIncludes(f, scanner)
    IN  FlattenSeq([k \in DOMAIN includes |-> FindFile(f, includes[k], scanner, stat)])

\* The files FindFile asks for, each until one is there.
LookedAt(f, scanner) ==
    LET Tried(c) == {c[k] : k \in {k \in DOMAIN c : \A l \in 1 .. k - 1 : StatCacheStat(c[l]) = 0}}
    IN  UNION {Tried(Candidates[f][i][scanner]) : i \in ToSet(ScanIncludes(f, scanner))}

\* What FilterOutGeneratedIncludedFiles lets a leaf scan see.
Seen(request, f) == request.safe => f \notin Generated

---------------------------------------------------------------------------
(* ScanImplicitDeps *)

BeginScan(w, r) ==
    /\ phase = "building" /\ worker[w].pc = "idle" /\ r \in todo
    /\ ~r.safe => /\ \A g \in Generated : Exists(g)
                  /\ \A q \in todo \cup {worker[v].request : v \in Workers} :
                        q.safe => q.node # r.node
    /\ todo' = todo \ {r}
    /\ worker' = [worker EXCEPT ![w] =
           [Idle EXCEPT !.pc = "pop", !.request = r, !.stack = <<r.file>>]]
    /\ UNCHANGED <<cacheVars, files, phase, day, build, statCache, accidents, history>>

\* New names go onto the stack in order, each once in a scan.
\* Mutant: only names that still wait are left out.
Noticed_Again(s, f) ==
    IF f \in ToSet(s.stack) \/ ~Seen(s.request, f) THEN s
    ELSE [s EXCEPT !.found = @ \cup {f}, !.stack = Append(@, f)]
Noticed(s, f) ==
    IF f \in s.found \/ ~Seen(s.request, f) THEN s
    ELSE [s EXCEPT !.found = @ \cup {f}, !.stack = Append(@, f)]
WithIncludes(s, includes) ==
    LET with[n \in 0 .. Len(includes)] ==
            IF n = 0 THEN [s EXCEPT !.pc = "pop"] ELSE Noticed(with[n - 1], includes[n])
    IN  with[Len(includes)]

\* A file that is not known yet is looked at; others may do so as well.
Pop(w) ==
    /\ worker[w].pc = "pop" /\ worker[w].stack # <<>>
    /\ LET f == Last(worker[w].stack)
       IN  worker' = [worker EXCEPT ![w].stack = Front(@), ![w].file = f,
               ![w].stamp = StatCacheStat(f),
               ![w].pc = IF statCache[f] = Unknown THEN "stat"
                         ELSE IF statCache[f] = 0 THEN "pop" ELSE "lookup"]
    /\ UNCHANGED <<cacheVars, files, builds, accidents, history>>

StatCacheInsert(w) ==
    /\ worker[w].pc = "stat"
    /\ statCache' = [statCache EXCEPT ![worker[w].file] =
                        IF @ = Unknown THEN worker[w].stamp ELSE @]
    /\ worker' = [worker EXCEPT ![w].pc = IF worker[w].stamp = 0 THEN "pop" ELSE "lookup"]
    /\ UNCHANGED <<cacheVars, files, phase, day, build, todo, accidents, history>>

Serve(w) ==
    \E includes \in Answers(KeyOf(w), worker[w].stamp) :
        /\ worker' = [worker EXCEPT ![w] = WithIncludes(worker[w], includes)]
        /\ ScanCacheLookup(KeyOf(w), worker[w].stamp)

LookupHit(w) ==
    /\ worker[w].pc \in {"lookup", "again"}
    /\ Serve(w)
    /\ UNCHANGED <<files, builds, accidents, history>>

LookupMiss(w) ==
    /\ worker[w].pc = "lookup"
    /\ Answers(KeyOf(w), worker[w].stamp) = {}
    /\ worker' = [worker EXCEPT ![w].pc = "read"]
    /\ UNCHANGED <<cacheVars, files, builds, accidents, history>>

\* The file cannot be opened, or is empty: nothing is cached of it.
SkipFile(w) ==
    /\ worker[w].pc = "read"
    /\ \/ Texts[disk[worker[w].file].content] = <<>> /\ UNCHANGED <<accidents, damaged>>
       \/ /\ Texts[disk[worker[w].file].content] # <<>>
          /\ Accident /\ damaged' = TRUE
    /\ worker' = [worker EXCEPT ![w].pc = "pop"]
    /\ UNCHANGED <<cacheVars, files, builds, disturbed>>

ReadFile(w) ==
    /\ worker[w].pc = "read"
    /\ Texts[disk[worker[w].file].content] # <<>>
    /\ worker' = [worker EXCEPT ![w].pc = "insert",
                    ![w].includes = ScanFile(worker[w].file, worker[w].request.scanner,
                                             [f \in DOMAIN disk |-> StatCacheStat(f)])]
    /\ statCache' = [f \in DOMAIN statCache |->
           IF f \in LookedAt(worker[w].file, worker[w].request.scanner)
           THEN StatCacheStat(f) ELSE statCache[f]]
    /\ UNCHANGED <<cacheVars, files, phase, day, build, todo, accidents, history>>

\* fread fails after the file was opened: what is inserted is empty.
ReadFails(w) ==
    /\ worker[w].pc = "read"
    /\ Accident /\ damaged' = TRUE
    /\ worker' = [worker EXCEPT ![w].pc = "insert", ![w].includes = <<>>]
    /\ UNCHANGED <<cacheVars, files, builds, disturbed>>

Insert(w) ==
    /\ worker[w].pc = "insert"
    /\ ScanCacheInsert(KeyOf(w), worker[w].stamp, worker[w].includes)
    /\ worker' = [worker EXCEPT ![w].pc = "again", ![w].includes = <<>>]
    /\ UNCHANGED <<files, builds, accidents, history>>

Croak(w) ==
    /\ worker[w].pc = "again"
    /\ Answers(KeyOf(w), worker[w].stamp) = {}
    /\ phase' = "croaked"
    /\ worker' = [v \in Workers |-> Idle]
    /\ UNCHANGED <<cacheVars, files, day, build, todo, statCache, accidents, history>>

\* The caller takes the result.
EndScan(w) ==
    /\ worker[w].pc = "pop" /\ worker[w].stack = <<>>
    /\ worker' = [worker EXCEPT ![w] = Idle]
    /\ UNCHANGED <<cacheVars, files, builds, accidents, history>>

---------------------------------------------------------------------------
(* Builds *)

\* External to the scanner: a node that generates a file is executed, and
\* what is remembered of the file is marked dirty.
Generate(f) ==
    /\ phase = "building" /\ ~Exists(f)
    /\ tick' = tick + 1
    /\ disk' = [disk EXCEPT ![f].mtime = tick']
    /\ statCache' = [statCache EXCEPT ![f] = Unknown]
    /\ UNCHANGED <<cacheVars, phase, day, build, todo, accidents, history, worker>>

\* DriverSaveScanCache, and the end of the process.
SaveScanCache(saved) ==
    /\ phase = "building" /\ todo = {} /\ \A w \in Workers : worker[w].pc = "idle"
    /\ ScanCacheLoad(IF ScanCacheDirty /\ saved THEN ScanCacheSave(day) ELSE frozen)
    /\ phase' = "between"
    /\ statCache' = [f \in DOMAIN statCache |-> Unknown]
    /\ UNCHANGED <<files, day, build, todo, accidents, history, worker>>

\* External: somebody edits a file.
Edited(f, c) ==
    /\ c # disk[f].content
    /\ tick' = tick + 1
    /\ disk' = [disk EXCEPT ![f] = [content |-> c, mtime |-> tick']]
Edit(f, c) ==
    /\ phase = "between" /\ Accident
    /\ Edited(f, c)
    /\ UNCHANGED <<cacheVars, builds, history, worker>>
EditDuringBuild(f, c) ==
    /\ phase = "building" /\ Accident
    /\ disturbed' = TRUE
    /\ Edited(f, c)
    /\ UNCHANGED <<cacheVars, builds, damaged, worker>>

NextBuild(days) ==
    /\ phase = "between" /\ build < MaxBuilds
    /\ build' = build + 1 /\ day' = day + days
    /\ phase' = "building" /\ todo' = Requests
    /\ disturbed' = FALSE
    /\ UNCHANGED <<cacheVars, files, statCache, accidents, damaged, worker>>

ScanStep(w) == \/ Pop(w) \/ StatCacheInsert(w) \/ LookupHit(w) \/ LookupMiss(w) \/ SkipFile(w) \/ ReadFile(w)
               \/ ReadFails(w) \/ Insert(w) \/ Croak(w) \/ EndScan(w)

Next ==
    \/ \E w \in Workers : ScanStep(w) \/ \E r \in Requests : BeginScan(w, r)
    \/ \E f \in Generated : Generate(f)
    \/ \E saved \in BOOLEAN : SaveScanCache(saved)
    \/ \E f \in DOMAIN Versions \ Generated : \E c \in ToSet(Versions[f]) :
           Edit(f, c) \/ EditDuringBuild(f, c)
    \/ \E days \in Days : NextBuild(days)

Spec == Init /\ [][Next]_vars

\* Some thread in a scan goes on; nobody has to begin one.
FairSpec == Spec /\ WF_vars(\E w \in Workers : ScanStep(w))

---------------------------------------------------------------------------
(* Properties *)

Keys == DOMAIN KeyRank

\* What is on the disk and may be seen by a scan.
IncludedBy(f, r) ==
    IF Exists(f) THEN {g \in ToSet(ScanFile(f, r.scanner, [h \in DOMAIN disk |-> GetFileInfo(h)])) : Seen(r, g)} ELSE {}
Reachable(r) ==
    LET included == [f \in DOMAIN disk |-> IncludedBy(f, r)]
        Closed(S) == included[r.file] \subseteq S /\ \A f \in S : included[f] \subseteq S
    IN  {g \in DOMAIN disk : \A S \in SUBSET DOMAIN disk : Closed(S) => g \in S}

\* A scan finds what an uncached one would: no entry of an earlier build, of
\* another thread, of the other kind of scan or made while a file was edited
\* in an earlier build changes the result.  (A read that failed does, and so
\* may an edit during this build.)
ScanIsExact ==
    \A w \in Workers :
        worker[w].pc = "pop" /\ worker[w].stack = <<>> /\ ~damaged /\ ~disturbed
        => worker[w].found = Reachable(worker[w].request)

\* No file that is generated hides one that is there before.
NothingShadowed ==
    \A f \in Files, s \in DOMAIN Scanners : \A c \in ToSet(Versions[f]) :
        \A i \in ToSet(Found[s][c]) : LET places == Candidates[f][i][s] IN
            \A k, l \in DOMAIN places : k < l /\ places[k] \in Generated => places[l] \notin Files \ Generated

\* An include statement is recognized by its shape alone: spaces aside, # and
\* the word in front of the first separator, with a space after the word.
Openings(line) == {k \in DOMAIN line : line[k] \in {"<", "'"}}
IsStatement(line, k, l) ==
    /\ \A o \in Openings(line) : k <= o
    /\ \E hash, word \in 1 .. k - 1 :
           /\ hash < word /\ line[hash] = "#" /\ line[word] = "include"
           /\ \A m \in 1 .. k - 1 : m \in {hash, word} \/ line[m] = Space
    /\ line[k - 1] = Space
    /\ l > k /\ line[l] = (IF line[k] = "<" THEN ">" ELSE "'")
    /\ \A m \in k + 1 .. l - 1 : line[m] # line[l]
CppStatementsAreFound ==
    \A w \in {v \in Workers : worker[v].pc = "read"} :
      \A n \in DOMAIN Texts[disk[worker[w].file].content] :
        LET line == Texts[disk[worker[w].file].content][n]
        IN  ScanCppLine(line) =
              IF \E k \in Openings(line), l \in DOMAIN line : IsStatement(line, k, l)
              THEN LET k == CHOOSE k \in Openings(line) : \E l \in DOMAIN line : IsStatement(line, k, l)
                       l == CHOOSE l \in DOMAIN line : IsStatement(line, k, l)
                   IN  Include(SubSeq(line, k + 1, l - 1), line[k] = "<")
              ELSE NoInclude

\* What has just been inserted is found again, whatever other threads insert,
\* unless somebody edits the file meanwhile.
InsertedIsFound == phase = "croaked" => disturbed

\* An included file goes by the one path that the kernel, entering and leaving
\* directories from the left, would reach it by: a file known under two paths
\* would be scanned twice, and taken for a source when it is generated.
Follow(directory, text) ==
    LET Step(place, piece) ==
            IF piece \in {"", "."} \/ (piece = ".." /\ place = <<"">>) THEN place
            ELSE IF piece = ".." /\ place # <<>> /\ Last(place) # ".." THEN Front(place)
            ELSE Append(place, piece)
    IN  FoldLeft(Step, IF Head(text) = "" THEN <<"">> ELSE directory, text)
IncludesGoByOnePath ==
    \A f \in DOMAIN Versions, i \in AllIncludes, s \in DOMAIN Scanners :
        LET directories == [k \in DOMAIN Scanners[s].includePaths |->
                               Follow(<<>>, Scanners[s].includePaths[k])]
            from == (IF i.isSystem THEN <<>> ELSE <<Front(f)>>) \o directories
        IN  Candidates[f][i][s] = [k \in DOMAIN from |-> Follow(from[k], i.name)]

\* A scan loses no file: not a line of the file it reads, not the place an
\* include leads to, not what a thread has just inserted, and nothing on the way
\* through the caches.
IncludesAreFound ==
    CppStatementsAreFound /\ IncludesGoByOnePath /\ InsertedIsFound /\ ScanIsExact

\* Saving leaves the cache sorted and with every key once, as the binary search
\* of the next run needs, and drops no entry that was used in this run, nor one
\* that was saved as used within the last week.
SavingIsSound ==
    [][phase = "building" /\ phase' = "between" =>
        /\ \A k, l \in DOMAIN frozen' :
               k < l => KeyRank[frozen'[k].key] < KeyRank[frozen'[l].key]
        /\ \A k \in DOMAIN frozen :
               k \in frozenAccess \/ frozen[k].accessed + KeepFor > day =>
                   \E l \in DOMAIN frozen' : frozen'[l].key = frozen[k].key]_vars

\* Every scan ends, also of files that include each other or themselves: there
\* are finitely many, so that at last every thread is done.
ScansEnd == <>[](\A w \in Workers : worker[w].pc = "idle")
===========================================================================
