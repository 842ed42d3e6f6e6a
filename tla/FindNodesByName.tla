-------------------------- MODULE FindNodesByName --------------------------
(***************************************************************************)
(* From the names on the command line to nodes of the graph.  A name is a  *)
(* sequence of letters.                                                    *)
(***************************************************************************)
EXTENDS Naturals, Sequences, FiniteSets, FiniteSetsExt, SequencesExt, Sorting

CONSTANTS
    Lower,        \* Lower[c]: tolower
    CleanedPath   \* CleanedPath[name]: the file a name stands for as a path

\* d[<<x, y>>] of the table: the first x letters of s against the first y of t.
LevenshteinDistanceNoCase(s, t) ==
    LET d[p \in (0 .. Len(s)) \X (0 .. Len(t))] ==
            LET x == p[1]
                y == p[2]
            IN  IF x = 0 THEN y
                ELSE IF y = 0 THEN x
                ELSE IF Lower[s[x]] = Lower[t[y]] THEN d[<<x - 1, y - 1>>]
                ELSE 1 + Min({d[<<x - 1, y>>], d[<<x, y - 1>>], d[<<x - 1, y - 1>>]})
    IN  d[<<Len(s), Len(t)>>]

Lowered(s) == [k \in DOMAIN s |-> Lower[s[k]]]
HasPrefix(s, name) == IsPrefix(Lowered(name), Lowered(s))

\* What is offered when a name means nothing.
FuzzyMatchLimit(name) == IF Len(name) <= 2 THEN 0 ELSE Min({Len(name) - 2, 4})
FuzzyMatches(dag, name) ==
    {k \in DOMAIN dag.named :
        \/ LevenshteinDistanceNoCase(dag.named[k].name, name) <= FuzzyMatchLimit(name)
        \/ HasPrefix(dag.named[k].name, name)}

Exact(dag, name) ==
    {k \in DOMAIN dag.named : LevenshteinDistanceNoCase(dag.named[k].name, name) = 0}
Prefixed(dag, name) == {k \in DOMAIN dag.named : HasPrefix(dag.named[k].name, name)}
Producing(dag, name) ==
    {n \in DOMAIN dag.nodes : CleanedPath[name] \in ToSet(dag.nodes[n].outputs)}

\* The nodes of a name; none if it cannot be mapped.
NodesByName(dag, name) ==
    IF Exact(dag, name) # {} THEN {dag.named[Min(Exact(dag, name))].node}
    ELSE IF Cardinality(Prefixed(dag, name)) = 1
         THEN {dag.named[k].node : k \in Prefixed(dag, name)}
    ELSE Producing(dag, name)

CanSelect(dag, names) == \A name \in names : NodesByName(dag, name) # {}

\* Sorted, every node once.
SelectedNodes(dag, names) ==
    LET selected == IF names = {} THEN ToSet(dag.defaults)
                    ELSE UNION {NodesByName(dag, name) : name \in names}
    IN  Sorted(SetToSeq(selected), [n \in DOMAIN dag.nodes |-> n])
===========================================================================
