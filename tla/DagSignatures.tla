-------------------------- MODULE DagSignatures ---------------------------
(***************************************************************************)
(* What a frontend looked at is written into the graph as signatures, and  *)
(* every run that loads the graph compares them with what it sees.  A      *)
(* world maps the paths and variables of interest to what is there.        *)
(***************************************************************************)
EXTENDS Integers, Sequences, SequencesExt, DagGenerator

CONSTANTS
    NameRank  \* the order of strcmp on file names

Names == DOMAIN NameRank

\* A path of a world; a variable is a text or Unset.
Infos ==
    {info \in [kind : {"file", "dir", "none"}, mtime : Int, dirs : SUBSET Names,
               files : SUBSET Names] :
        /\ IsFiniteSet(info.dirs) /\ IsFiniteSet(info.files)
        /\ info.kind # "dir" => info.dirs = {} /\ info.files = {}}
Unset == "(not set)"
GetFileInfo(world, path) == world.paths[path]
GetEnv(world, variable) == world.variables[variable]

GetStatSignatureStatusFor(info) ==
    CASE info.kind = "file" -> "File"
      [] info.kind = "dir" -> "Directory"
      [] OTHER -> "DoesNotExist"

Separator == "\n"

\* No name is empty, so none is like a separator on a line of its own.
ASSUME NameAssumption ==
    /\ Separator \notin Names
    /\ \A a \in Names : NameRank[a] \in Int

SortedNames(names) == Sorted(SetToSeq(names), NameRank)
HashedNames(names) ==
    LET s == SortedNames(names)
    IN  [k \in 1 .. 2 * Len(s) |-> IF k % 2 = 1 THEN s[(k + 1) \div 2] ELSE Separator]

Flag(is) == IF is THEN 1 ELSE 0

\* dirs and files are those the filter lets through, of every depth if the
\* signature says so.
\* Mutant: nothing between the directories and the files.
CalculateGlobSignatureFor_NoExtraSeparator(info) ==
    <<Flag(info.kind # "none"), Flag(info.kind = "dir"), Separator>>
      \o CASE info.kind = "dir" -> HashedNames(info.dirs) \o HashedNames(info.files)
           [] info.kind = "file" -> <<info.mtime>>
           [] OTHER -> <<>>
CalculateGlobSignatureFor(info) ==
    <<Flag(info.kind # "none"), Flag(info.kind = "dir"), Separator>>
      \o CASE info.kind = "dir" ->
                  HashedNames(info.dirs) \o <<Separator>> \o HashedNames(info.files)
           [] info.kind = "file" -> <<info.mtime>>
           [] OTHER -> <<>>

\* values[p]: what is known of each path or variable the graph may name.
EmitSignatures(paths, values) ==
    [k \in DOMAIN paths |-> [path |-> paths[k], value |-> values[paths[k]]]]

Signatures(json, world) ==
    LET infos == [p \in DOMAIN world.paths |-> GetFileInfo(world, p)]
    IN  [files |-> EmitSignatures(FindArray(json, "FileSignatures"),
                       [p \in DOMAIN infos |-> infos[p].mtime]),
         stats |-> EmitSignatures(FindArray(json, "StatSignatures"),
                       [p \in DOMAIN infos |-> GetStatSignatureStatusFor(infos[p])]),
         globs |-> EmitSignatures(FindArray(json, "GlobSignatures"),
                       [p \in DOMAIN infos |-> CalculateGlobSignatureFor(infos[p])]),
         variables |-> EmitSignatures(FindArray(json, "EnvironmentVariableSignatures"),
                       [v \in DOMAIN world.variables |-> GetEnv(world, v)])]

\* Checked in this order; the first difference ends it.
FilesMatch(sigs, world) ==
    /\ \A s \in ToSet(sigs.files) : GetFileInfo(world, s.path).mtime = s.value
    /\ \A s \in ToSet(sigs.stats) :
           GetStatSignatureStatusFor(GetFileInfo(world, s.path)) = s.value
    /\ \A s \in ToSet(sigs.globs) :
           CalculateGlobSignatureFor(GetFileInfo(world, s.path)) = s.value

\* strcmp is handed a null pointer for a variable that is or was not set.
ComparesUnset(sigs, world) ==
    \E k \in DOMAIN sigs.variables :
        /\ Unset \in {sigs.variables[k].value, GetEnv(world, sigs.variables[k].path)}
        /\ \A j \in 1 .. k - 1 :
               sigs.variables[j].value = GetEnv(world, sigs.variables[j].path)

VariablesMatch(sigs, world) ==
    \A s \in ToSet(sigs.variables) : GetEnv(world, s.path) = s.value
===========================================================================
