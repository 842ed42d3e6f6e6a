------------------------------ MODULE Sorting ------------------------------
(***************************************************************************)
(* std::sort, as the compiler of graphs and the driver use it: elements    *)
(* that compare equal may come in either order.                            *)
(***************************************************************************)
EXTENDS Naturals, Sequences, SequencesExt

\* rank[e]: the place of e in the order the elements are compared by.
Sorted(s, rank) ==
    LET p == CHOOSE p \in SetToSeqs(DOMAIN s) :
            \A k, l \in DOMAIN s : k < l => rank[s[p[k]]] <= rank[s[p[l]]]
    IN  [k \in DOMAIN s |-> s[p[k]]]
===========================================================================
