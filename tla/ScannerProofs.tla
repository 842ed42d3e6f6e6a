--------------------------- MODULE ScannerProofs ---------------------------
(***************************************************************************)
(* Proofs about the include scanner and its cache, for any files, scanners *)
(* and requests, any number of threads and any hash: saving keeps what is  *)
(* used, and a scan finds what one without caches would.                   *)
(*                                                                         *)
(* Lists are merged and includes taken up step by step. What holds after   *)
(* all steps follows from each of them (LoopKeeps): there is no least step *)
(* it does not hold after.                                                 *)
(*                                                                         *)
(* The truth of the cache is told by what an entry depends on: it holds    *)
(* of every file that has the time the entry is cached under, and the time *)
(* of a file that changes is a new one. A file that is generated while a   *)
(* scan is under way must not change what others lead to, and does not     *)
(* unless it comes before another one on an include path: this is the      *)
(* hypothesis NothingShadowed.                                             *)
(***************************************************************************)
EXTENDS Scanner, FiniteSetTheorems, WellFoundedInduction, SequenceTheorems, TLAPS

---------------------------------------------------------------------------
(* Loops: what is defined step by step, and what holds of each step *)

\* Every set of natural numbers that is not empty has a least one.
LEMMA LeastNumber ==
    ASSUME NEW S \in SUBSET Nat, S # {}
    PROVE  \E m \in S : \A k \in S : m <= k
<1>1. PICK m \in S : \A k \in S : ~(<<k, m>> \in OpToRel(<, Nat))
  BY NatLessThanWellFounded, WFMin
<1>2. \A k \in S : ~(k < m)
  BY <1>1, Zenon DEF OpToRel
<1> QED
  BY <1>2

\* A loop of n rounds over values V: the first is given, F makes the next.
Rounds(n, V, first, F) ==
    {g \in [0 .. n -> V] : g[0] = first /\ \A k \in 1 .. n : g[k] = F[<<k, g[k - 1]>>]}

\* A function that is defined step by step has the value of every step.
LEMMA LoopIsDefined ==
    ASSUME NEW n \in Nat, NEW V, NEW first \in V, NEW F,
           \A k \in 1 .. n : \A v \in V : F[<<k, v>>] \in V
    PROVE  Rounds(n, V, first, F) # {}
<1> DEFINE missed == {m \in 0 .. n : Rounds(m, V, first, F) = {}}
<1>1. SUFFICES ASSUME missed # {} PROVE FALSE
  <2>1. n \in 0 .. n
    OBVIOUS
  <2> QED
    BY <2>1
<1>2. PICK m \in missed : \A k \in missed : m <= k
  <2>1. missed \in SUBSET Nat
    OBVIOUS
  <2> HIDE DEF missed
  <2> QED
    BY <1>1, <2>1, LeastNumber
<1>3. ASSUME m = 0 PROVE FALSE
  <2> DEFINE g == [k \in 0 .. 0 |-> first]
  <2>1. g \in [0 .. 0 -> V] /\ g[0] = first /\ (1 .. 0) = {}
    OBVIOUS
  <2>2. g \in Rounds(0, V, first, F)
    BY <2>1 DEF Rounds
  <2> QED
    BY <1>2, <1>3, <2>2
<1>4. m - 1 \in 0 .. n /\ m \in 1 .. n /\ Rounds(m - 1, V, first, F) # {}
  <2>1. m \in 1 .. n
    BY <1>2, <1>3
  <2>2. m - 1 \in 0 .. n /\ ~(m <= m - 1)
    BY <2>1
  <2>3. m - 1 \notin missed
    BY <1>2, <2>2
  <2> QED
    BY <2>1, <2>2, <2>3
<1>5. PICK g \in [0 .. m - 1 -> V] : g[0] = first /\ \A k \in 1 .. m - 1 : g[k] = F[<<k, g[k - 1]>>]
  BY <1>4 DEF Rounds
<1>6. g[m - 1] \in V /\ F[<<m, g[m - 1]>>] \in V
  BY <1>4
<1> DEFINE h == [k \in 0 .. m |-> IF k = m THEN F[<<m, g[m - 1]>>] ELSE g[k]]
<1>7. h \in [0 .. m -> V] /\ h[0] = first
  BY <1>4, <1>5, <1>6
<1>8. h[m] = F[<<m, g[m - 1]>>] /\ \A k \in 0 .. m - 1 : h[k] = g[k]
  BY <1>4
<1> HIDE DEF h
<1>9. ASSUME NEW k \in 1 .. m PROVE h[k] = F[<<k, h[k - 1]>>]
  <2>1. k - 1 \in 0 .. m - 1 /\ h[k - 1] = g[k - 1]
    BY <1>4, <1>8
  <2>2. CASE k = m
    BY <1>8, <2>1, <2>2
  <2>3. CASE k # m
    <3>1. k \in 1 .. m - 1 /\ k \in 0 .. m - 1
      BY <1>4, <2>3
    <3> QED
      BY <1>5, <1>8, <2>1, <3>1
  <2> QED
    BY <2>2, <2>3
<1>10. h \in Rounds(m, V, first, F)
  BY <1>7, <1>9 DEF Rounds
<1> QED
  BY <1>2, <1>10

\* What holds before the rounds and is kept by each holds after them.
LEMMA LoopKeeps ==
    ASSUME NEW n \in Nat, NEW Good \in SUBSET (0 .. n), 0 \in Good,
           \A k \in 1 .. n : k - 1 \in Good => k \in Good
    PROVE  Good = 0 .. n
<1>1. SUFFICES ASSUME (0 .. n) \ Good # {} PROVE FALSE
  OBVIOUS
<1>2. PICK m \in (0 .. n) \ Good : \A k \in (0 .. n) \ Good : m <= k
  <2>1. (0 .. n) \ Good \in SUBSET Nat
    OBVIOUS
  <2> QED
    BY <1>1, <2>1, LeastNumber
<1>3. m \in 1 .. n /\ m - 1 \in 0 .. n /\ ~(m <= m - 1)
  BY <1>2
<1> QED
  BY <1>2, <1>3

LEMMA LastAndFront ==
    ASSUME NEW S, NEW s \in Seq(S), s # <<>>
    PROVE  /\ Last(s) \in S /\ Front(s) \in Seq(S)
           /\ ToSet(s) = ToSet(Front(s)) \cup {Last(s)}
<1>1. Len(s) \in Nat \ {0} /\ DOMAIN s = 1 .. Len(s) /\ \A k \in 1 .. Len(s) : s[k] \in S
  BY EmptySeq
<1>2. Last(s) = s[Len(s)] /\ Front(s) = SubSeq(s, 1, Len(s) - 1)
  BY DEF Last, Front
<1> DEFINE t == SubSeq(s, 1, Len(s) - 1)
<1>3. t \in Seq(S) /\ DOMAIN t = 1 .. Len(s) - 1 /\ \A k \in 1 .. Len(s) - 1 : t[k] = s[k]
  BY <1>1
<1> HIDE DEF t
<1>4. ToSet(s) = ToSet(t) \cup {s[Len(s)]}
  BY <1>1, <1>3 DEF ToSet
<1> QED
  BY <1>1, <1>2, <1>3, <1>4 DEF t

---------------------------------------------------------------------------
(* Scans *)

Places == {"idle", "pop", "stat", "lookup", "read", "insert", "again"}
Scans ==
    [pc : Places, request : Requests \cup {NoRequest}, stack : Seq(Files), found : SUBSET Files,
     file : Files \cup {<<>>}, stamp : Nat, includes : Seq(Files)]

\* What is appended is all that is new in a sequence.
LEMMA AppendedElements ==
    ASSUME NEW S, NEW s \in Seq(S), NEW e \in S
    PROVE  Append(s, e) \in Seq(S) /\ ToSet(Append(s, e)) = ToSet(s) \cup {e}
<1>1. Append(s, e) \in Seq(S) /\ Len(Append(s, e)) = Len(s) + 1
      /\ Append(s, e)[Len(s) + 1] = e /\ \A k \in 1 .. Len(s) : Append(s, e)[k] = s[k]
  BY AppendProperties
<1>2. DOMAIN s = 1 .. Len(s) /\ DOMAIN Append(s, e) = 1 .. Len(s) + 1 /\ Len(s) \in Nat
  BY <1>1
<1> QED
  BY <1>1, <1>2 DEF ToSet

\* A file that is noticed is pushed once, if the request may see it.
LEMMA NoticedOutcome ==
    ASSUME NEW s \in Scans, NEW f \in Files
    PROVE  LET r == Noticed(s, f) IN
           /\ r \in Scans
           /\ r.pc = s.pc /\ r.request = s.request /\ r.file = s.file /\ r.stamp = s.stamp
           /\ r.found = s.found \cup {g \in {f} : Seen(s.request, g)}
           /\ ToSet(r.stack) = ToSet(s.stack) \cup (r.found \ s.found)
<1>1. CASE f \in s.found \/ ~Seen(s.request, f)
  BY <1>1 DEF Noticed, Scans
<1>2. CASE f \notin s.found /\ Seen(s.request, f)
  <2> DEFINE r == [s EXCEPT !.found = s.found \cup {f}, !.stack = Append(s.stack, f)]
  <2>1. Noticed(s, f) = r
    BY <1>2 DEF Noticed, Scans
  <2>2. Append(s.stack, f) \in Seq(Files) /\ ToSet(Append(s.stack, f)) = ToSet(s.stack) \cup {f}
    BY AppendedElements DEF Scans
  <2>3. /\ r \in Scans /\ r.pc = s.pc /\ r.request = s.request /\ r.file = s.file /\ r.stamp = s.stamp
        /\ r.found = s.found \cup {f} /\ r.stack = Append(s.stack, f)
    BY <2>2 DEF Scans
  <2> HIDE DEF r
  <2> QED
    BY <1>2, <2>1, <2>2, <2>3
<1> QED
  BY <1>1, <1>2

\* All files that are included and may be seen are found then, and those that
\* were not before are looked into next.
LEMMA WithIncludesOutcome ==
    ASSUME NEW s \in Scans, NEW includes \in Seq(Files)
    PROVE  LET r == WithIncludes(s, includes) IN
           /\ r \in Scans
           /\ r.pc = "pop" /\ r.request = s.request /\ r.file = s.file /\ r.stamp = s.stamp
           /\ r.found = s.found \cup {f \in ToSet(includes) : Seen(s.request, f)}
           /\ ToSet(r.stack) = ToSet(s.stack) \cup (r.found \ s.found)
<1> DEFINE n == Len(includes)
           first == [s EXCEPT !.pc = "pop"]
           F == [x \in (1 .. n) \X Scans |-> Noticed(x[2], includes[x[1]])]
           P(w) == w = [k \in 0 .. n |-> IF k = 0 THEN first ELSE Noticed(w[k - 1], includes[k])]
           with == CHOOSE w : P(w)
<1>1. n \in Nat /\ \A k \in 1 .. n : includes[k] \in Files
  OBVIOUS
<1>2. /\ first \in Scans /\ first.pc = "pop" /\ first.request = s.request /\ first.file = s.file
      /\ first.stamp = s.stamp /\ first.found = s.found /\ first.stack = s.stack
  BY DEF Scans, Places
<1>3. \A k \in 1 .. n : \A v \in Scans : F[<<k, v>>] = Noticed(v, includes[k]) /\ F[<<k, v>>] \in Scans
  BY <1>1, NoticedOutcome
<1> HIDE DEF first, F, n
<1>4. PICK g \in [0 .. n -> Scans] : g[0] = first /\ \A k \in 1 .. n : g[k] = F[<<k, g[k - 1]>>]
  <2>1. Rounds(n, Scans, first, F) # {}
    BY <1>1, <1>2, <1>3, LoopIsDefined
  <2> QED
    BY <2>1 DEF Rounds
<1>5. P(g)
  <2>1. ASSUME NEW k \in 1 .. n PROVE g[k] = Noticed(g[k - 1], includes[k])
    <3>1. k - 1 \in 0 .. n /\ g[k - 1] \in Scans
      BY <1>1, <1>4
    <3> QED
      BY <1>3, <1>4, <3>1
  <2>2. g[0] = first /\ g \in [0 .. n -> Scans]
    BY <1>4
  <2> HIDE DEF with
  <2> QED
    BY <1>1, <2>1, <2>2
<1>6. P(with)
  <2> HIDE DEF P
  <2> QED
    BY <1>5
<1>7. WithIncludes(s, includes) = with[n]
  BY DEF WithIncludes, n, first
<1> HIDE DEF with
<1>8. with[0] = first /\ \A k \in 1 .. n : with[k] = Noticed(with[k - 1], includes[k])
  BY <1>1, <1>6
<1> DEFINE Good(k) ==
        /\ with[k] \in Scans
        /\ with[k].pc = "pop" /\ with[k].request = s.request /\ with[k].file = s.file /\ with[k].stamp = s.stamp
        /\ with[k].found = s.found \cup {f \in {includes[l] : l \in 1 .. k} : Seen(s.request, f)}
        /\ ToSet(with[k].stack) = ToSet(s.stack) \cup (with[k].found \ s.found)
           good == {k \in 0 .. n : Good(k)}
<1>9. Good(0)
  BY <1>2, <1>8
<1>10. ASSUME NEW k \in 1 .. n, Good(k - 1) PROVE Good(k)
  <2>0. with[k - 1] \in Scans /\ includes[k] \in Files /\ with[k] = Noticed(with[k - 1], includes[k])
    BY <1>1, <1>8, <1>10
  <2>5. /\ with[k] \in Scans /\ with[k].pc = with[k - 1].pc /\ with[k].request = with[k - 1].request
        /\ with[k].file = with[k - 1].file /\ with[k].stamp = with[k - 1].stamp
        /\ with[k].found = with[k - 1].found \cup {f \in {includes[k]} : Seen(with[k - 1].request, f)}
        /\ ToSet(with[k].stack) = ToSet(with[k - 1].stack) \cup (with[k].found \ with[k - 1].found)
    <3> DEFINE v == with[k - 1]
               f == includes[k]
    <3>1. v \in Scans /\ f \in Files /\ with[k] = Noticed(v, f)
      BY <2>0
    <3> HIDE DEF v, f
    <3>2. LET r == Noticed(v, f) IN
          /\ r \in Scans
          /\ r.pc = v.pc /\ r.request = v.request /\ r.file = v.file /\ r.stamp = v.stamp
          /\ r.found = v.found \cup {h \in {f} : Seen(v.request, h)}
          /\ ToSet(r.stack) = ToSet(v.stack) \cup (r.found \ v.found)
      BY <3>1, NoticedOutcome
    <3> QED
      BY <3>1, <3>2 DEF v, f
  <2>1. /\ with[k] \in Scans /\ with[k].pc = "pop" /\ with[k].request = s.request
        /\ with[k].file = s.file /\ with[k].stamp = s.stamp
        /\ with[k].found = with[k - 1].found \cup {f \in {includes[k]} : Seen(s.request, f)}
        /\ ToSet(with[k].stack) = ToSet(with[k - 1].stack) \cup (with[k].found \ with[k - 1].found)
    BY <1>10, <2>5
  <2>2. {includes[l] : l \in 1 .. k} = {includes[l] : l \in 1 .. k - 1} \cup {includes[k]}
    BY <1>1
  <2>3. with[k].found = s.found \cup {f \in {includes[l] : l \in 1 .. k} : Seen(s.request, f)}
    BY <1>10, <2>1, <2>2
  <2>4. ToSet(with[k].stack) = ToSet(s.stack) \cup (with[k].found \ s.found)
    BY <1>10, <2>1
  <2> QED
    BY <2>1, <2>3, <2>4
<1>11. Good(n)
  <2>1. good \in SUBSET (0 .. n) /\ 0 \in good /\ \A k \in 1 .. n : k - 1 \in good => k \in good
    <3>1. \A k \in 1 .. n : k \in 0 .. n
      OBVIOUS
    <3> HIDE DEF Good
    <3> QED
      BY <1>1, <1>9, <1>10, <3>1
  <2> HIDE DEF good
  <2>2. good = 0 .. n
    BY <1>1, <2>1, LoopKeeps
  <2>3. n \in good
    BY <1>1, <2>2
  <2> QED
    BY <2>3 DEF good
<1>12. {includes[l] : l \in 1 .. n} = ToSet(includes)
  BY DEF ToSet, n
<1> QED
  BY <1>7, <1>11, <1>12

---------------------------------------------------------------------------
(* Saving *)

Entries == [key : Keys, stamp : Nat, includes : Seq(Files), accessed : Nat]
Fresh == [key : Keys, stamp : Nat, includes : Seq(Files)]
Rank(e) == KeyRank[e.key]
Ascending(s) == \A k, l \in DOMAIN s : k < l => Rank(s[k]) < Rank(s[l])
\* Every key is there once.
Distinct(rs) == \A r, q \in rs : r.key = q.key => r = q

\* Of records with different keys one comes first.
LEMMA LowestRecord ==
    ASSUME NEW rs \in SUBSET Fresh, rs # {}, Distinct(rs)
    PROVE  \E r \in rs : \A q \in rs \ {r} : Rank(r) < Rank(q)
<1> DEFINE ranks == {Rank(r) : r \in rs}
<1>1. ranks \in SUBSET Nat /\ ranks # {}
  BY KeyAssumption DEF Fresh, Keys, Rank
<1>2. PICK m \in ranks : \A k \in ranks : m <= k
  <2> HIDE DEF ranks
  <2> QED
    BY <1>1, LeastNumber
<1>3. PICK r \in rs : m = Rank(r)
  BY <1>2
<1>4. ASSUME NEW q \in rs \ {r} PROVE Rank(r) < Rank(q)
  <2>1. Rank(r) <= Rank(q) /\ Rank(r) \in Nat /\ Rank(q) \in Nat
    BY <1>1, <1>2, <1>3
  <2>2. q.key # r.key /\ q.key \in Keys /\ r.key \in Keys
    BY DEF Distinct, Fresh
  <2>3. Rank(r) # Rank(q)
    BY <2>2, KeyAssumption DEF Rank, Keys
  <2> QED
    BY <2>1, <2>3
<1> QED
  BY <1>4

\* So finitely many of them can be sorted: a least set that cannot would not be
\* empty, and could be sorted without its first record.
LEMMA RecordsCanBeSorted ==
    ASSUME NEW rs \in SUBSET Fresh, IsFiniteSet(rs), Distinct(rs)
    PROVE  \E s \in [1 .. Cardinality(rs) -> rs] : Ascending(s)
<1> DEFINE Sortable(qs) == \E s \in [1 .. Cardinality(qs) -> qs] : Ascending(s)
           hard == {qs \in SUBSET rs : ~Sortable(qs)}
<1>1. SUFFICES ASSUME hard # {} PROVE FALSE
  BY DEF Ascending
<1>2. PICK qs \in hard : \A ps \in hard : ~(<<ps, qs>> \in StrictSubsetOrdering(rs))
  <2>1. IsWellFoundedOn(StrictSubsetOrdering(rs), FiniteSubsetsOf(rs))
    BY FS_StrictSubsetOrderingWellFounded
  <2>2. FiniteSubsetsOf(rs) = SUBSET rs
    BY FS_FiniteSubsetsOfFinite
  <2>3. hard \subseteq SUBSET rs
    OBVIOUS
  <2> HIDE DEF hard
  <2> QED
    BY <1>1, <2>1, <2>2, <2>3, WFMin
<1>3. qs \in SUBSET rs /\ IsFiniteSet(qs) /\ Distinct(qs) /\ ~Sortable(qs)
  BY FS_Subset DEF Distinct
<1>4. qs # {}
  <2>1. [k \in 1 .. 0 |-> k] \in [1 .. 0 -> {}] /\ Ascending([k \in 1 .. 0 |-> k])
    BY DEF Ascending
  <2>2. Cardinality({}) = 0
    BY FS_EmptySet
  <2> QED
    BY <1>3, <2>1, <2>2
<1>5. PICK r \in qs : \A q \in qs \ {r} : Rank(r) < Rank(q)
  BY <1>3, <1>4, LowestRecord
<1> DEFINE ps == qs \ {r}
           n == Cardinality(ps)
<1>6. n \in Nat /\ Cardinality(qs) = n + 1 /\ IsFiniteSet(ps)
  <2>1. IsFiniteSet(ps) /\ Cardinality(ps) = Cardinality(qs) - 1
    BY <1>3, FS_RemoveElement
  <2>2. Cardinality(ps) \in Nat /\ Cardinality(qs) \in Nat
    BY <1>3, <2>1, FS_CardinalityType
  <2> QED
    BY <2>1, <2>2
<1> HIDE DEF n
<1>7. ps \notin hard /\ ps \in SUBSET rs
  <2>1. <<ps, qs>> \in StrictSubsetOrdering(rs)
    BY <1>3 DEF StrictSubsetOrdering
  <2> QED
    BY <1>2, <2>1
<1>8. PICK s \in [1 .. n -> ps] : Ascending(s)
  BY <1>3, <1>7 DEF n
<1> DEFINE t == [k \in 1 .. n + 1 |-> IF k = 1 THEN r ELSE s[k - 1]]
<1>9. t \in [1 .. n + 1 -> qs] /\ t[1] = r
  <2>1. \A k \in 1 .. n + 1 : k # 1 => k - 1 \in 1 .. n
    BY <1>6
  <2> QED
    BY <1>6, <2>1
<1>10. Ascending(t)
  <2>1. \A k \in 1 .. n + 1 : k # 1 => k - 1 \in 1 .. n /\ t[k] = s[k - 1] /\ t[k] \in ps
    BY <1>6
  <2> HIDE DEF t
  <2>2. ASSUME NEW k \in 1 .. n + 1, NEW l \in 1 .. n + 1, k < l PROVE Rank(t[k]) < Rank(t[l])
    <3>1. l # 1 /\ t[l] = s[l - 1] /\ l - 1 \in 1 .. n /\ t[l] \in ps
      BY <1>6, <2>1, <2>2
    <3>2. CASE k = 1
      BY <1>5, <1>9, <3>1, <3>2
    <3>3. CASE k # 1
      <4>1. k - 1 \in 1 .. n /\ k - 1 < l - 1 /\ t[k] = s[k - 1]
        BY <1>6, <2>1, <2>2, <3>1, <3>3
      <4> QED
        BY <1>8, <3>1, <4>1 DEF Ascending
    <3> QED
      BY <3>2, <3>3
  <2> QED
    BY <1>9, <2>2 DEF Ascending
<1> QED
  BY <1>3, <1>6, <1>9, <1>10

\* What is sorted are the records, in the order of their keys.
LEMMA SortedRecords ==
    ASSUME NEW rs \in SUBSET Fresh, IsFiniteSet(rs), Distinct(rs)
    PROVE  /\ SortedByKey(rs) \in Seq(Fresh) /\ Ascending(SortedByKey(rs))
           /\ \A k \in DOMAIN SortedByKey(rs) : SortedByKey(rs)[k] \in rs
<1>1. \E s \in [1 .. Cardinality(rs) -> rs] : \A k, l \in DOMAIN s : k < l => KeyRank[s[k].key] < KeyRank[s[l].key]
  BY RecordsCanBeSorted DEF Ascending, Rank
<1>2. /\ SortedByKey(rs) \in [1 .. Cardinality(rs) -> rs]
      /\ \A k, l \in DOMAIN SortedByKey(rs) : k < l => KeyRank[SortedByKey(rs)[k].key] < KeyRank[SortedByKey(rs)[l].key]
  BY <1>1 DEF SortedByKey
<1>3. Cardinality(rs) \in Nat
  BY FS_CardinalityType
<1> QED
  BY <1>2, <1>3 DEF Ascending, Rank

\* What a step saves is put behind what is there.
LEMMA SavedGrows ==
    ASSUME NEW s \in Seq(Entries), Ascending(s), NEW e \in Entries, \A k \in DOMAIN s : Rank(s[k]) < Rank(e)
    PROVE  /\ s \o <<e>> \in Seq(Entries) /\ Ascending(s \o <<e>>)
           /\ ToSet(s \o <<e>>) = ToSet(s) \cup {e}
<1> DEFINE t == Append(s, e)
<1>1. s \o <<e>> = t
  BY AppendIsConcat
<1>2. t \in Seq(Entries) /\ ToSet(t) = ToSet(s) \cup {e}
  BY AppendedElements
<1>3. Len(t) = Len(s) + 1 /\ t[Len(s) + 1] = e /\ \A k \in 1 .. Len(s) : t[k] = s[k]
  BY AppendProperties
<1>4. DOMAIN t = 1 .. Len(s) + 1 /\ DOMAIN s = 1 .. Len(s) /\ Len(s) \in Nat
  BY <1>2, <1>3
<1> HIDE DEF t
<1>5. ASSUME NEW k \in DOMAIN t, NEW l \in DOMAIN t, k < l PROVE Rank(t[k]) < Rank(t[l])
  <2>1. k \in DOMAIN s /\ t[k] = s[k]
    BY <1>3, <1>4, <1>5
  <2>2. CASE l = Len(s) + 1
    BY <1>3, <2>1, <2>2
  <2>3. CASE l # Len(s) + 1
    <3>1. l \in DOMAIN s /\ t[l] = s[l]
      BY <1>3, <1>4, <2>3
    <3> QED
      BY <1>5, <2>1, <3>1 DEF Ascending
  <2> QED
    BY <2>2, <2>3
<1> QED
  BY <1>1, <1>2, <1>5 DEF Ascending

\* What may not be dropped.
Kept(k, now) == k \in frozenAccess \/ frozen[k].accessed + KeepFor > now
FrozenOK == frozen \in Seq(Entries) /\ Ascending(frozen)
Same(e, r) == e.key = r.key /\ e.stamp = r.stamp /\ e.includes = r.includes

\* Where the traversal is after some steps: what was saved comes before all that
\* is left, from one of the two, and no entry that was passed is missing.
Merging(at, records, now) ==
    /\ at = [dynamic |-> at.dynamic, frozen |-> at.frozen, saved |-> at.saved]
    /\ at.dynamic \in 1 .. Len(records) + 1 /\ at.frozen \in 1 .. Len(frozen) + 1
    /\ at.saved \in Seq(Entries) /\ Ascending(at.saved)
    /\ \A e \in ToSet(at.saved) :
        /\ \A k \in DOMAIN records : k >= at.dynamic => Rank(e) < Rank(records[k])
        /\ \A k \in DOMAIN frozen : k >= at.frozen => Rank(e) < Rank(frozen[k])
        /\ (\E k \in DOMAIN records : Same(e, records[k])) \/ (\E k \in DOMAIN frozen : Same(e, frozen[k]))
    /\ \A k \in DOMAIN frozen : k < at.frozen /\ Kept(k, now) => \E e \in ToSet(at.saved) : e.key = frozen[k].key

\* A step of the traversal keeps what is saved sorted and before what is to come,
\* and leaves out no record and no entry that is to be kept.
LEMMA AdvanceMerges ==
    ASSUME FrozenOK, NEW now \in Nat, NEW records \in Seq(Fresh), Ascending(records),
           NEW at, Merging(at, records, now)
    PROVE  LET next == Advance(at, records, now) IN
           /\ Merging(next, records, now)
           /\ \/ next.dynamic + next.frozen > at.dynamic + at.frozen
              \/ /\ next = at /\ at.dynamic = Len(records) + 1 /\ at.frozen = Len(frozen) + 1
<1> DEFINE next == Advance(at, records, now)
           i == at.dynamic
           j == at.frozen
           s == at.saved
<1>1. /\ i \in 1 .. Len(records) + 1 /\ j \in 1 .. Len(frozen) + 1 /\ Len(records) \in Nat /\ Len(frozen) \in Nat
      /\ s \in Seq(Entries) /\ Ascending(s) /\ frozen \in Seq(Entries) /\ Ascending(frozen)
      /\ DOMAIN records = 1 .. Len(records) /\ DOMAIN frozen = 1 .. Len(frozen)
      /\ \A k \in DOMAIN records : records[k] \in Fresh /\ Rank(records[k]) \in Nat
      /\ \A k \in DOMAIN frozen : frozen[k] \in Entries /\ Rank(frozen[k]) \in Nat
  <2>1. \A e \in Fresh \cup Entries : Rank(e) \in Nat
    BY KeyAssumption DEF Fresh, Entries, Rank, Keys
  <2> QED
    BY <2>1 DEF Merging, FrozenOK
<1>2. CASE /\ i \in DOMAIN records
           /\ j \in DOMAIN frozen => KeyRank[records[i].key] <= KeyRank[frozen[j].key]
  <2> DEFINE e == [key |-> records[i].key, stamp |-> records[i].stamp,
                   includes |-> records[i].includes, accessed |-> now]
             n == IF j <= Len(frozen) /\ records[i].key = frozen[j].key THEN j + 1 ELSE j
  <2>1. next = [dynamic |-> i + 1, frozen |-> n, saved |-> s \o <<e>>]
    BY <1>1, <1>2 DEF Advance, SaveDynamic, SaveRecord
  <2>2. e \in Entries /\ Rank(e) = Rank(records[i]) /\ Same(e, records[i])
    BY <1>1, <1>2 DEF Fresh, Entries, Rank, Same
  <2> HIDE DEF e
  <2>3. \A k \in DOMAIN s : s[k] \in ToSet(s)
    BY DEF ToSet
  <2>4. \A k \in DOMAIN s : Rank(s[k]) < Rank(e)
    BY <1>1, <1>2, <2>2, <2>3 DEF Merging
  <2>5. s \o <<e>> \in Seq(Entries) /\ Ascending(s \o <<e>>) /\ ToSet(s \o <<e>>) = ToSet(s) \cup {e}
    BY <1>1, <2>2, <2>4, SavedGrows
  <2>6. \A k \in DOMAIN records : k >= i + 1 => Rank(e) < Rank(records[k])
    BY <1>1, <1>2, <2>2 DEF Ascending
  <2>7. n \in {j, j + 1} /\ n \in 1 .. Len(frozen) + 1 /\ (n = j + 1 => j \in DOMAIN frozen /\ e.key = frozen[j].key)
    BY <1>1, <2>2 DEF Same
  <2>15. n = j /\ j \in DOMAIN frozen => records[i].key # frozen[j].key
    BY <1>1
  <2>8. ASSUME NEW k \in DOMAIN frozen, k >= n PROVE Rank(e) < Rank(frozen[k])
    <3>1. j \in DOMAIN frozen /\ Rank(e) <= Rank(frozen[j])
      BY <1>1, <1>2, <2>2, <2>7, <2>8 DEF Rank
    <3>2. CASE n = j
      <4>1. records[i].key # frozen[j].key /\ records[i].key \in Keys /\ frozen[j].key \in Keys
        BY <1>1, <1>2, <2>15, <3>1, <3>2 DEF Fresh, Entries
      <4>2. Rank(e) < Rank(frozen[j])
        <5>1. KeyRank[records[i].key] # KeyRank[frozen[j].key]
          BY <4>1, KeyAssumption DEF Keys
        <5>2. Rank(e) = KeyRank[records[i].key] /\ Rank(frozen[j]) = KeyRank[frozen[j].key]
          BY <2>2 DEF Rank
        <5>3. Rank(e) \in Nat /\ Rank(frozen[j]) \in Nat
          BY <1>1, <1>2, <2>2, <3>1
        <5> QED
          BY <3>1, <5>1, <5>2, <5>3
      <4>3. k = j \/ Rank(frozen[j]) < Rank(frozen[k])
        BY <1>1, <2>8, <3>1, <3>2 DEF Ascending
      <4> QED
        BY <1>1, <1>2, <2>2, <3>1, <4>2, <4>3
    <3>3. CASE n = j + 1
      <4>1. Rank(frozen[j]) < Rank(frozen[k])
        BY <1>1, <2>8, <3>1, <3>3 DEF Ascending
      <4> QED
        BY <1>1, <1>2, <2>2, <3>1, <4>1
    <3> QED
      BY <2>7, <3>2, <3>3
  <2>9. ASSUME NEW k \in DOMAIN frozen, k < n, Kept(k, now)
        PROVE  \E d \in ToSet(s) \cup {e} : d.key = frozen[k].key
    <3>1. CASE k < j
      BY <2>9, <3>1 DEF Merging
    <3>2. CASE ~(k < j)
      <4>1. k = j /\ n = j + 1
        BY <1>1, <2>7, <2>9, <3>2
      <4> QED
        BY <2>7, <4>1
    <3> QED
      BY <3>1, <3>2
  <2> HIDE DEF n
  <2>10. next.dynamic = i + 1 /\ next.frozen = n /\ next.saved = s \o <<e>>
         /\ next = [dynamic |-> next.dynamic, frozen |-> next.frozen, saved |-> next.saved]
    BY <2>1
  <2> HIDE DEF next
  <2>11. ASSUME NEW d \in ToSet(s) \cup {e}
         PROVE  /\ \A k \in DOMAIN records : k >= i + 1 => Rank(d) < Rank(records[k])
                /\ \A k \in DOMAIN frozen : k >= n => Rank(d) < Rank(frozen[k])
                /\ (\E k \in DOMAIN records : Same(d, records[k])) \/ (\E k \in DOMAIN frozen : Same(d, frozen[k]))
    <3>1. CASE d = e
      BY <1>2, <2>2, <2>6, <2>8, <3>1
    <3>2. CASE d \in ToSet(s)
      <4>1. /\ \A k \in DOMAIN records : k >= i => Rank(d) < Rank(records[k])
            /\ \A k \in DOMAIN frozen : k >= j => Rank(d) < Rank(frozen[k])
            /\ (\E k \in DOMAIN records : Same(d, records[k])) \/ (\E k \in DOMAIN frozen : Same(d, frozen[k]))
        BY <3>2 DEF Merging
      <4>2. \A k \in Nat : (k >= i + 1 => k >= i) /\ (k >= n => k >= j)
        BY <1>1, <2>7
      <4>3. DOMAIN records \subseteq Nat /\ DOMAIN frozen \subseteq Nat
        BY <1>1
      <4>4. \A k \in DOMAIN records : k >= i + 1 => Rank(d) < Rank(records[k])
        BY <4>1, <4>2, <4>3
      <4>5. \A k \in DOMAIN frozen : k >= n => Rank(d) < Rank(frozen[k])
        BY <4>1, <4>2, <4>3
      <4> QED
        BY <4>1, <4>4, <4>5
    <3> QED
      BY <3>1, <3>2
  <2>12. i + 1 \in 1 .. Len(records) + 1
    BY <1>1, <1>2
  <2>13. Merging(next, records, now)
    BY <2>5, <2>7, <2>9, <2>10, <2>11, <2>12 DEF Merging
  <2>14. next.dynamic + next.frozen > i + j
    <3>1. i \in Int /\ j \in Int
      BY <1>1
    <3> QED
      BY <2>7, <2>10, <3>1
  <2> QED
    BY <2>13, <2>14 DEF next
<1>3. CASE /\ ~(i \in DOMAIN records /\ (j \in DOMAIN frozen => KeyRank[records[i].key] <= KeyRank[frozen[j].key]))
           /\ j \in DOMAIN frozen
  <2> DEFINE accessed == IF j \in frozenAccess THEN now ELSE frozen[j].accessed
             e == [key |-> frozen[j].key, stamp |-> frozen[j].stamp,
                   includes |-> frozen[j].includes, accessed |-> accessed]
             saved == IF accessed + KeepFor > now THEN <<e>> ELSE <<>>
  <2>1. next = [dynamic |-> i, frozen |-> j + 1, saved |-> s \o saved]
    BY <1>1, <1>3 DEF Advance, SaveFrozen, SaveRecord
  <2>2. e \in Entries /\ Rank(e) = Rank(frozen[j]) /\ Same(e, frozen[j]) /\ e.key = frozen[j].key
    BY <1>1, <1>3 DEF Entries, Rank, Same
  <2>3. Kept(j, now) => saved = <<e>>
    <3>1. j \in frozenAccess => accessed + KeepFor > now
      BY KeyAssumption
    <3> QED
      BY <3>1 DEF Kept
  <2>4. saved = <<e>> \/ saved = <<>>
    OBVIOUS
  <2> HIDE DEF e, saved
  <2>5. \A k \in DOMAIN s : s[k] \in ToSet(s)
    BY DEF ToSet
  <2>6. \A k \in DOMAIN s : Rank(s[k]) < Rank(e)
    BY <1>1, <1>3, <2>2, <2>5 DEF Merging
  <2>7. s \o <<e>> \in Seq(Entries) /\ Ascending(s \o <<e>>) /\ ToSet(s \o <<e>>) = ToSet(s) \cup {e}
    BY <1>1, <2>2, <2>6, SavedGrows
  <2> DEFINE more == IF saved = <<e>> THEN {e} ELSE {}
  <2>8. s \o saved \in Seq(Entries) /\ Ascending(s \o saved) /\ ToSet(s \o saved) = ToSet(s) \cup more
    <3>1. s \o <<>> = s
      BY <1>1, ConcatEmptySeq
    <3> QED
      BY <1>1, <2>4, <2>7, <3>1
  <2>9. \A k \in DOMAIN frozen : k >= j + 1 => Rank(e) < Rank(frozen[k])
    BY <1>1, <1>3, <2>2 DEF Ascending
  <2>10. ASSUME NEW k \in DOMAIN records, k >= i PROVE Rank(e) < Rank(records[k])
    <3>1. i \in DOMAIN records /\ Rank(frozen[j]) < Rank(records[i])
      <4>1. i \in DOMAIN records
        BY <1>1, <2>10
      <4>2. Rank(records[i]) \in Nat /\ Rank(frozen[j]) \in Nat /\ ~(Rank(records[i]) <= Rank(frozen[j]))
        BY <1>1, <1>3, <4>1 DEF Rank
      <4> QED
        BY <4>1, <4>2
    <3>2. k = i \/ Rank(records[i]) < Rank(records[k])
      BY <1>1, <2>10, <3>1 DEF Ascending
    <3> QED
      BY <1>1, <1>3, <2>2, <3>1, <3>2
  <2>11. next.dynamic = i /\ next.frozen = j + 1 /\ next.saved = s \o saved
         /\ next = [dynamic |-> next.dynamic, frozen |-> next.frozen, saved |-> next.saved]
    BY <2>1
  <2> HIDE DEF next
  <2>12. ASSUME NEW d \in ToSet(s) \cup more
         PROVE  /\ \A k \in DOMAIN records : k >= i => Rank(d) < Rank(records[k])
                /\ \A k \in DOMAIN frozen : k >= j + 1 => Rank(d) < Rank(frozen[k])
                /\ (\E k \in DOMAIN records : Same(d, records[k])) \/ (\E k \in DOMAIN frozen : Same(d, frozen[k]))
    <3>1. CASE d = e
      BY <1>3, <2>2, <2>9, <2>10, <3>1
    <3>2. CASE d \in ToSet(s)
      BY <1>1, <3>2 DEF Merging
    <3> QED
      BY <3>1, <3>2
  <2>13. ASSUME NEW k \in DOMAIN frozen, k < j + 1, Kept(k, now)
        PROVE  \E d \in ToSet(s) \cup more : d.key = frozen[k].key
    <3>1. CASE k < j
      BY <2>13, <3>1 DEF Merging
    <3>2. CASE k = j
      BY <2>2, <2>3, <2>13, <3>2
    <3> QED
      BY <1>1, <2>13, <3>1, <3>2
  <2>14. j + 1 \in 1 .. Len(frozen) + 1
    BY <1>1, <1>3
  <2> HIDE DEF more
  <2>15. Merging(next, records, now)
    BY <1>1, <2>8, <2>11, <2>12, <2>13, <2>14 DEF Merging
  <2> QED
    BY <1>1, <2>11, <2>15 DEF next
<1>4. CASE i \notin DOMAIN records /\ j \notin DOMAIN frozen
  <2>1. i = Len(records) + 1 /\ j = Len(frozen) + 1
    BY <1>1, <1>4
  <2>2. ~(i <= Len(records)) /\ ~(j <= Len(frozen))
    BY <1>1, <2>1
  <2>3. next = at
    BY <2>2 DEF Advance
  <2> HIDE DEF next
  <2>4. Merging(next, records, now)
    BY <2>3
  <2> QED
    BY <2>1, <2>3, <2>4 DEF next
<1> QED
  BY <1>2, <1>3, <1>4

\* After as many steps as there are entries both arrays have been passed: what
\* is saved is sorted, holds what must be kept, and nothing that is in neither.
LEMMA TraverseIsSound ==
    ASSUME FrozenOK, NEW now \in Nat, NEW records \in Seq(Fresh), Ascending(records)
    PROVE  LET saved == Traverse(records, now) IN
           /\ saved \in Seq(Entries) /\ Ascending(saved)
           /\ \A e \in ToSet(saved) : \/ \E k \in DOMAIN records : Same(e, records[k])
                                      \/ \E k \in DOMAIN frozen : Same(e, frozen[k])
           /\ \A k \in DOMAIN frozen : Kept(k, now) => \E e \in ToSet(saved) : e.key = frozen[k].key
<1> DEFINE steps == Len(records) + Len(frozen)
           first == [dynamic |-> 1, frozen |-> 1, saved |-> <<>>]
           V == {at \in [dynamic : Nat, frozen : Nat, saved : Seq(Entries)] : Merging(at, records, now)}
           F == [x \in (1 .. steps) \X V |-> Advance(x[2], records, now)]
           P(w) == w = [n \in 0 .. steps |-> IF n = 0 THEN first ELSE Advance(w[n - 1], records, now)]
           at == CHOOSE w : P(w)
<1>1. steps \in Nat /\ Len(records) \in Nat /\ Len(frozen) \in Nat
      /\ DOMAIN records = 1 .. Len(records) /\ DOMAIN frozen = 1 .. Len(frozen)
  BY DEF FrozenOK
<1>2. first \in V /\ first.dynamic = 1 /\ first.frozen = 1
  <2>1. ToSet(<<>>) = {} /\ <<>> \in Seq(Entries) /\ Ascending(<<>>)
    BY DEF ToSet, Ascending
  <2>2. /\ first.saved = <<>> /\ first.dynamic = 1 /\ first.frozen = 1
        /\ first = [dynamic |-> first.dynamic, frozen |-> first.frozen, saved |-> first.saved]
        /\ first \in [dynamic : Nat, frozen : Nat, saved : Seq(Entries)]
    BY <2>1
  <2> HIDE DEF first
  <2>3. 1 \in 1 .. Len(records) + 1 /\ 1 \in 1 .. Len(frozen) + 1 /\ \A k \in DOMAIN frozen : ~(k < 1)
    BY <1>1
  <2>4. Merging(first, records, now)
    BY <2>1, <2>2, <2>3 DEF Merging
  <2> QED
    BY <2>2, <2>4
<1>3. ASSUME NEW v \in V
      PROVE  /\ Advance(v, records, now) \in V
             /\ \/ Advance(v, records, now).dynamic + Advance(v, records, now).frozen > v.dynamic + v.frozen
                \/ /\ Advance(v, records, now) = v
                   /\ v.dynamic = Len(records) + 1 /\ v.frozen = Len(frozen) + 1
  <2>1. LET next == Advance(v, records, now) IN
        /\ Merging(next, records, now)
        /\ \/ next.dynamic + next.frozen > v.dynamic + v.frozen
           \/ /\ next = v /\ v.dynamic = Len(records) + 1 /\ v.frozen = Len(frozen) + 1
    BY AdvanceMerges
  <2> DEFINE next == Advance(v, records, now)
  <2> HIDE DEF next
  <2>2. /\ Merging(next, records, now)
        /\ \/ next.dynamic + next.frozen > v.dynamic + v.frozen
           \/ /\ next = v /\ v.dynamic = Len(records) + 1 /\ v.frozen = Len(frozen) + 1
    BY <2>1 DEF next
  <2>3. next \in V
    <3>1. next = [dynamic |-> next.dynamic, frozen |-> next.frozen, saved |-> next.saved]
          /\ next.dynamic \in Nat /\ next.frozen \in Nat /\ next.saved \in Seq(Entries)
      BY <1>1, <2>2 DEF Merging
    <3> QED
      BY <2>2, <3>1
  <2> QED
    BY <2>2, <2>3 DEF next
<1>4. \A n \in 1 .. steps : \A v \in V : F[<<n, v>>] = Advance(v, records, now) /\ F[<<n, v>>] \in V
  <2> HIDE DEF V
  <2> QED
    BY <1>3
<1>5. \A v \in V : Merging(v, records, now) /\ v.dynamic \in 1 .. Len(records) + 1 /\ v.frozen \in 1 .. Len(frozen) + 1
  BY DEF Merging
<1> HIDE DEF first, F, steps, V
<1>6. PICK g \in [0 .. steps -> V] : g[0] = first /\ \A n \in 1 .. steps : g[n] = F[<<n, g[n - 1]>>]
  <2>1. Rounds(steps, V, first, F) # {}
    BY <1>1, <1>2, <1>4, LoopIsDefined
  <2> QED
    BY <2>1 DEF Rounds
<1>7. P(g)
  <2>1. ASSUME NEW n \in 1 .. steps PROVE g[n] = Advance(g[n - 1], records, now)
    <3>1. n - 1 \in 0 .. steps /\ g[n - 1] \in V
      BY <1>1, <1>6
    <3> QED
      BY <1>4, <1>6, <3>1
  <2> QED
    BY <1>1, <1>6, <2>1
<1>8. P(at)
  <2> HIDE DEF P
  <2> QED
    BY <1>7
<1>9. Traverse(records, now) = at[steps].saved
  BY DEF Traverse, steps, first
<1> HIDE DEF at
<1>10. at[0] = first /\ \A n \in 1 .. steps : at[n] = Advance(at[n - 1], records, now)
  BY <1>1, <1>8
<1> DEFINE Good(n) == /\ at[n] \in V
                      /\ \/ at[n].dynamic + at[n].frozen >= n + 2
                         \/ at[n].dynamic = Len(records) + 1 /\ at[n].frozen = Len(frozen) + 1
           good == {n \in 0 .. steps : Good(n)}
<1>11. Good(0)
  BY <1>2, <1>10
<1>12. ASSUME NEW n \in 1 .. steps, Good(n - 1) PROVE Good(n)
  <2>1. at[n] = Advance(at[n - 1], records, now) /\ at[n - 1] \in V
    BY <1>10, <1>12
  <2>2. at[n] \in V /\ (at[n].dynamic + at[n].frozen > at[n - 1].dynamic + at[n - 1].frozen
        \/ (at[n].dynamic = Len(records) + 1 /\ at[n].frozen = Len(frozen) + 1))
    BY <1>3, <2>1
  <2>3. /\ at[n].dynamic \in 1 .. Len(records) + 1 /\ at[n].frozen \in 1 .. Len(frozen) + 1
        /\ at[n - 1].dynamic \in 1 .. Len(records) + 1 /\ at[n - 1].frozen \in 1 .. Len(frozen) + 1
    BY <1>5, <2>1, <2>2
  <2>4. CASE at[n].dynamic = Len(records) + 1 /\ at[n].frozen = Len(frozen) + 1
    BY <2>2, <2>4
  <2>5. CASE at[n].dynamic + at[n].frozen > at[n - 1].dynamic + at[n - 1].frozen
    <3>1. CASE at[n - 1].dynamic + at[n - 1].frozen >= (n - 1) + 2
      <4>1. \A a, b, c, d \in Int : a + b > c + d /\ c + d >= (n - 1) + 2 => a + b >= n + 2
        BY <1>1
      <4>2. /\ at[n].dynamic \in Int /\ at[n].frozen \in Int
            /\ at[n - 1].dynamic \in Int /\ at[n - 1].frozen \in Int
        BY <2>3
      <4>3. at[n].dynamic + at[n].frozen >= n + 2
        BY <2>5, <3>1, <4>1, <4>2
      <4> QED
        BY <2>2, <4>3
    <3>2. CASE at[n - 1].dynamic = Len(records) + 1 /\ at[n - 1].frozen = Len(frozen) + 1
      BY <1>1, <2>2, <2>3, <2>5, <3>2
    <3> QED
      BY <1>12, <3>1, <3>2
  <2> QED
    BY <2>2, <2>4, <2>5
<1>13. Good(steps)
  <2>1. good \in SUBSET (0 .. steps) /\ 0 \in good /\ \A n \in 1 .. steps : n - 1 \in good => n \in good
    <3>1. \A n \in 1 .. steps : n \in 0 .. steps
      OBVIOUS
    <3> HIDE DEF Good
    <3> QED
      BY <1>1, <1>11, <1>12, <3>1
  <2> HIDE DEF good
  <2>2. good = 0 .. steps
    BY <1>1, <2>1, LoopKeeps
  <2>3. steps \in good
    BY <1>1, <2>2
  <2> QED
    BY <2>3 DEF good
<1>14. /\ Merging(at[steps], records, now)
       /\ at[steps].dynamic = Len(records) + 1 /\ at[steps].frozen = Len(frozen) + 1
  <2>1. Merging(at[steps], records, now)
        /\ at[steps].dynamic \in 1 .. Len(records) + 1 /\ at[steps].frozen \in 1 .. Len(frozen) + 1
    BY <1>5, <1>13
  <2> QED
    BY <1>1, <1>13, <2>1 DEF steps
<1>15. Traverse(records, now) = at[steps].saved
  BY <1>9
<1> HIDE DEF at, steps
<1> QED
  BY <1>1, <1>14, <1>15 DEF Merging

---------------------------------------------------------------------------
(* What is read *)

\* Two lists put together have the elements of both.
LEMMA JoinedElements ==
    ASSUME NEW S, NEW s \in Seq(S), NEW t \in Seq(S)
    PROVE  s \o t \in Seq(S) /\ ToSet(s \o t) = ToSet(s) \cup ToSet(t)
<1>1. /\ s \o t \in Seq(S) /\ Len(s \o t) = Len(s) + Len(t)
      /\ \A k \in 1 .. Len(s) + Len(t) : (s \o t)[k] = IF k <= Len(s) THEN s[k] ELSE t[k - Len(s)]
  BY ConcatProperties
<1>2. Len(s) \in Nat /\ Len(t) \in Nat /\ DOMAIN s = 1 .. Len(s) /\ DOMAIN t = 1 .. Len(t)
      /\ DOMAIN (s \o t) = 1 .. Len(s) + Len(t)
  BY <1>1
<1> DEFINE u == s \o t
<1> HIDE DEF u
<1>3. \A k \in DOMAIN s : k \in DOMAIN u /\ u[k] = s[k]
  BY <1>1, <1>2 DEF u
<1>4. \A k \in DOMAIN t : k + Len(s) \in DOMAIN u /\ u[k + Len(s)] = t[k]
  BY <1>1, <1>2 DEF u
<1>5. \A k \in DOMAIN u : (k \in DOMAIN s /\ u[k] = s[k]) \/ (k - Len(s) \in DOMAIN t /\ u[k] = t[k - Len(s)])
  BY <1>1, <1>2 DEF u
<1>6. ToSet(u) = ToSet(s) \cup ToSet(t)
  BY <1>3, <1>4, <1>5 DEF ToSet
<1> QED
  BY <1>1, <1>6 DEF u

\* So have many, one after the other.
LEMMA FlattenedElements ==
    ASSUME NEW S, NEW seqs \in Seq(Seq(S))
    PROVE  /\ FlattenSeq(seqs) \in Seq(S)
           /\ ToSet(FlattenSeq(seqs)) = UNION {ToSet(seqs[k]) : k \in DOMAIN seqs}
<1> DEFINE n == Len(seqs)
           F == [x \in (1 .. n) \X Seq(S) |-> x[2] \o seqs[x[1]]]
           P(w) == w = [i \in 1 .. n |-> IF i = 1 THEN seqs[i] ELSE w[i - 1] \o seqs[i]]
           flat == CHOOSE w : P(w)
<1>1. n \in Nat /\ DOMAIN seqs = 1 .. n /\ \A k \in 1 .. n : seqs[k] \in Seq(S)
  OBVIOUS
<1>2. \A k \in 1 .. n : \A v \in Seq(S) : F[<<k, v>>] = v \o seqs[k] /\ F[<<k, v>>] \in Seq(S)
  BY <1>1, JoinedElements
<1> HIDE DEF F
<1>3. CASE n = 0
  <2>1. FlattenSeq(seqs) = <<>> /\ seqs = <<>>
    BY <1>3, EmptySeq DEF FlattenSeq
  <2>2. ToSet(<<>>) = {}
    BY DEF ToSet
  <2> QED
    BY <1>1, <1>3, <2>1, <2>2
<1>4. CASE n # 0
  <2>1. FlattenSeq(seqs) = flat[n]
    BY <1>4 DEF FlattenSeq
  <2> HIDE DEF n
  <2>2. PICK g \in [0 .. n -> Seq(S)] : g[0] = <<>> /\ \A k \in 1 .. n : g[k] = F[<<k, g[k - 1]>>]
    <3>1. <<>> \in Seq(S)
      OBVIOUS
    <3>2. Rounds(n, Seq(S), <<>>, F) # {}
      BY <1>1, <1>2, <3>1, LoopIsDefined
    <3> QED
      BY <3>2 DEF Rounds
  <2>3. \A k \in 1 .. n : g[k] = g[k - 1] \o seqs[k] /\ g[k] \in Seq(S) /\ g[k - 1] \in Seq(S)
    <3>1. \A k \in 1 .. n : k - 1 \in 0 .. n /\ k \in 0 .. n
      BY <1>1
    <3> QED
      BY <1>2, <2>2, <3>1
  <2>4. \E w : P(w)
    <3> DEFINE w == [i \in 1 .. n |-> g[i]]
    <3>1. ASSUME NEW i \in 1 .. n PROVE w[i] = IF i = 1 THEN seqs[i] ELSE w[i - 1] \o seqs[i]
      <4>1. CASE i = 1
        <5>1. 1 \in 1 .. n /\ 1 - 1 = 0 /\ seqs[1] \in Seq(S)
          BY <1>1, <4>1
        <5>2. <<>> \o seqs[1] = seqs[1]
          BY <5>1, ConcatEmptySeq
        <5>3. g[1] = g[0] \o seqs[1]
          BY <2>3, <5>1
        <5> QED
          BY <2>2, <4>1, <5>2, <5>3
      <4>2. CASE i # 1
        <5>1. i - 1 \in 1 .. n
          BY <1>1, <4>2
        <5> QED
          BY <2>3, <4>2, <5>1
      <4> QED
        BY <4>1, <4>2
    <3>2. P(w)
      <4> HIDE DEF w
      <4>1. w = [i \in 1 .. n |-> w[i]]
        BY DEF w
      <4> QED
        BY <3>1, <4>1
    <3> QED
      BY <3>2
  <2>5. P(flat)
    <3> HIDE DEF P
    <3> QED
      BY <2>4
  <2> HIDE DEF flat
  <2>6. \A k \in 1 .. n : flat[k] = IF k = 1 THEN seqs[k] ELSE flat[k - 1] \o seqs[k]
    BY <2>5
  <2> DEFINE Good(k) == k > 0 => /\ flat[k] \in Seq(S)
                                 /\ \A e : e \in ToSet(flat[k]) <=> \E l \in 1 .. k : e \in ToSet(seqs[l])
             good == {k \in 0 .. n : Good(k)}
  <2>7. Good(0)
    OBVIOUS
  <2>8. ASSUME NEW k \in 1 .. n, Good(k - 1) PROVE Good(k)
    <3>1. CASE k = 1
      <4>1. flat[k] = seqs[k] /\ seqs[k] \in Seq(S) /\ (1 .. k) = {k}
        <5> HIDE DEF P
        <5> QED
          BY <1>1, <2>6, <3>1
      <4> QED
        BY <4>1
    <3>2. CASE k # 1
      <4>0. k - 1 > 0
        BY <1>1, <3>2
      <4>1. flat[k] = flat[k - 1] \o seqs[k] /\ seqs[k] \in Seq(S)
        <5> HIDE DEF P
        <5> QED
          BY <1>1, <2>6, <3>2
      <4>2. flat[k] \in Seq(S) /\ ToSet(flat[k]) = ToSet(flat[k - 1]) \cup ToSet(seqs[k])
        BY <2>8, <4>0, <4>1, JoinedElements
      <4>3. (1 .. k) = (1 .. k - 1) \cup {k}
        BY <1>1
      <4>4. \A e : (\E l \in 1 .. k : e \in ToSet(seqs[l]))
                   <=> (\E l \in 1 .. k - 1 : e \in ToSet(seqs[l])) \/ e \in ToSet(seqs[k])
        BY <4>3
      <4> QED
        BY <2>8, <4>0, <4>2, <4>4
    <3> QED
      BY <3>1, <3>2
  <2>9. Good(n)
    <3>1. good \in SUBSET (0 .. n) /\ 0 \in good /\ \A k \in 1 .. n : k - 1 \in good => k \in good
      <4>1. \A k \in 1 .. n : k \in 0 .. n
        OBVIOUS
      <4> HIDE DEF Good
      <4> QED
        BY <1>1, <2>7, <2>8, <4>1
    <3> HIDE DEF good
    <3>2. good = 0 .. n
      BY <1>1, <3>1, LoopKeeps
    <3>3. n \in good
      BY <1>1, <3>2
    <3> QED
      BY <3>3 DEF good
  <2> QED
    BY <1>1, <1>4, <2>1, <2>9
<1> QED
  BY <1>3, <1>4

\* A sequence, of whatever.
IsList(s) == s \in Seq(ToSet(s))

LEMMA ListOutcome ==
    /\ IsList(<<>>) /\ \A e : IsList(<<e>>)
    /\ \A s, t : IsList(s) /\ IsList(t) => IsList(s \o t)
<1>1. IsList(<<>>)
  BY DEF IsList
<1>2. ASSUME NEW e PROVE IsList(<<e>>)
  <2>1. e \in ToSet(<<e>>)
    BY DEF ToSet
  <2> QED
    BY <2>1 DEF IsList
<1>3. ASSUME NEW s, NEW t, IsList(s), IsList(t) PROVE IsList(s \o t)
  <2> DEFINE S == ToSet(s) \cup ToSet(t)
  <2>1. s \in Seq(S) /\ t \in Seq(S)
    BY <1>3, SeqMonotonic DEF IsList
  <2> HIDE DEF S
  <2>2. s \o t \in Seq(S) /\ ToSet(s \o t) = ToSet(s) \cup ToSet(t)
    BY <2>1, JoinedElements
  <2> QED
    BY <2>2 DEF S, IsList
<1> QED
  BY <1>1, <1>2, <1>3

\* What a scanner finds in a text is a sequence.
LEMMA FoundOutcome ==
    ASSUME NEW s \in DOMAIN Scanners, NEW c \in DOMAIN Texts
    PROVE  /\ IsList(Found[s][c])
           /\ ToSet(Found[s][c]) \subseteq AllIncludes
<1> DEFINE SL(k) == IF Scanners[s].type = "cpp" THEN ScanCppLine(Texts[c][k])
                    ELSE ScanLineGeneric(Texts[c][k], Scanners[s].config)
           lines == [k \in DOMAIN Texts[c] |-> SL(k)]
           S == UNION {ToSet(lines[k]) : k \in DOMAIN Texts[c]}
<1>1. Found[s][c] = FlattenSeq(lines)
  BY DEF Found, ScanIncludesCpp, ScanIncludesGeneric
<1>2. ASSUME NEW k \in DOMAIN Texts[c] PROVE IsList(lines[k])
  <2>1. \A line, open, close, isSystem : IsList(Separated(line, open, close, isSystem))
    BY ListOutcome DEF Separated, Include, NoInclude
  <2>2. IsList(ScanCppLine(Texts[c][k]))
    BY <2>1, ListOutcome DEF ScanCppLine
  <2>3. IsList(ScanLineGeneric(Texts[c][k], Scanners[s].config))
    BY <2>1, ListOutcome DEF ScanLineGeneric, Include, NoInclude
  <2> QED
    BY <2>2, <2>3
<1>3. ASSUME NEW k \in DOMAIN Texts[c] PROVE lines[k] \in Seq(S)
  <2>1. ToSet(lines[k]) \subseteq S
    OBVIOUS
  <2> HIDE DEF lines, S
  <2> QED
    BY <1>2, <2>1, SeqMonotonic DEF IsList
<1>4. \E n \in Nat : DOMAIN Texts[c] = 1 .. n
  BY ScanAssumption
<1>5. lines \in Seq(Seq(S)) /\ DOMAIN lines = DOMAIN Texts[c]
  <2>1. lines \in [DOMAIN Texts[c] -> Seq(S)]
    <3> HIDE DEF S
    <3> QED
      BY <1>3
  <2> HIDE DEF lines, S
  <2> QED
    BY <1>4, <2>1
<1> HIDE DEF lines
<1>6. Found[s][c] \in Seq(S) /\ ToSet(Found[s][c]) = S
  <2> HIDE DEF S
  <2>1. FlattenSeq(lines) \in Seq(S) /\ ToSet(FlattenSeq(lines)) = UNION {ToSet(lines[k]) : k \in DOMAIN lines}
    BY <1>5, FlattenedElements
  <2> QED
    BY <1>1, <1>5, <2>1 DEF S
<1>7. ToSet(Found[s][c]) \subseteq AllIncludes
  BY DEF AllIncludes
<1> QED
  BY <1>6, <1>7 DEF IsList

\* What FindFile answers, of what is there.
LEMMA FindFileOutcome ==
    ASSUME NEW f \in Files, NEW include \in AllIncludes, NEW s \in DOMAIN Scanners,
           NEW stat \in [Files -> Nat]
    PROVE  /\ IsList(Candidates[f][include][s])
           /\ LET candidates == Candidates[f][include][s]
                  There(k) == candidates[k] \in Files /\ stat[candidates[k]] # 0
              IN  \/ /\ \A k \in DOMAIN candidates : ~There(k)
                     /\ FindFile(f, include, s, stat) = <<>>
                  \/ \E k \in DOMAIN candidates :
                        /\ There(k) /\ \A l \in DOMAIN candidates : l < k => ~There(l)
                        /\ FindFile(f, include, s, stat) = <<candidates[k]>>
<1> DEFINE c == Candidates[f][include][s]
           There(k) == c[k] \in Files /\ stat[c[k]] # 0
           existing == {k \in DOMAIN c : There(k)}
<1>1. IsList(c)
  <2> DEFINE name == PathInit(include.name)
             In(directory) == PathFormat(PathConcat(directory, name))
             paths == Scanners[s].includePaths
             near == IF include.isSystem THEN <<>> ELSE <<In(PathStripLast(PathInit(f)))>>
             far == [k \in DOMAIN paths |-> In(PathInit(paths[k]))]
  <2>1. c = near \o far
    BY DEF Candidates, Files
  <2>2. IsList(near)
    <3> HIDE DEF In
    <3> QED
      BY ListOutcome
  <2>3. IsList(far)
    <3> HIDE DEF In
    <3>1. \E n \in Nat : DOMAIN paths = 1 .. n
      BY ScanAssumption
    <3>2. far \in [DOMAIN paths -> ToSet(far)]
      BY DEF ToSet
    <3> HIDE DEF far
    <3> QED
      BY <3>1, <3>2 DEF IsList
  <2> HIDE DEF near, far
  <2> QED
    BY <2>1, <2>2, <2>3, ListOutcome
<1>2. FindFile(f, include, s, stat) = IF existing = {} THEN <<>> ELSE <<c[CHOOSE k \in existing : \A l \in existing : k <= l]>>
  BY DEF FindFile
<1> HIDE DEF c
<1>3. DOMAIN c \subseteq Nat
  BY <1>1 DEF IsList
<1>4. CASE existing = {}
  BY <1>1, <1>2, <1>4 DEF c
<1>5. CASE existing # {}
  <2>1. \E k \in existing : \A l \in existing : k <= l
    <3>1. existing \in SUBSET Nat
      BY <1>3
    <3> HIDE DEF existing
    <3> QED
      BY <1>5, <3>1, LeastNumber
  <2>2. PICK k \in existing : (\A l \in existing : k <= l) /\ FindFile(f, include, s, stat) = <<c[k]>>
    <3> HIDE DEF existing
    <3> QED
      BY <1>2, <1>5, <2>1
  <2>3. \A l \in DOMAIN c : l < k => ~There(l)
    BY <1>3, <2>2
  <2> QED
    BY <1>1, <2>2, <2>3 DEF c
<1> QED
  BY <1>4, <1>5

---------------------------------------------------------------------------
(* The table *)

TableOK(t) ==
    /\ t \in Seq(SUBSET Fresh)
    /\ \A b \in DOMAIN t : \A r \in t[b] : Bucket(r.key, Len(t)) = b
    /\ IsFiniteSet(Records(t)) /\ Distinct(Records(t))

LEMMA RecordsOutcome ==
    ASSUME NEW t, TableOK(t)
    PROVE  /\ Records(t) \subseteq Fresh
           /\ \A r : r \in Records(t) <=> \E b \in DOMAIN t : r \in t[b]
BY DEF TableOK, Records, ToSet

LEMMA BucketOutcome ==
    ASSUME NEW key \in Keys, NEW size \in Nat \ {0}
    PROVE  Bucket(key, size) \in 1 .. size
<1>1. KeyHash[key] \in Nat
  BY KeyAssumption DEF Keys
<1>2. \A n \in Nat : n % size \in 0 .. size - 1
  OBVIOUS
<1> QED
  BY <1>1, <1>2 DEF Bucket

LEMMA LookedUp ==
    ASSUME NEW t, TableOK(t), NEW key \in Keys
    PROVE  (IF t = <<>> THEN {} ELSE {r \in t[Bucket(key, Len(t))] : r.key = key})
           = {r \in Records(t) : r.key = key}
<1>1. \A r : r \in Records(t) <=> \E b \in DOMAIN t : r \in t[b]
  BY RecordsOutcome
<1>2. CASE t = <<>>
  BY <1>1, <1>2
<1>3. CASE t # <<>>
  <2>1. Len(t) \in Nat \ {0} /\ DOMAIN t = 1 .. Len(t)
    BY <1>3, EmptySeq DEF TableOK
  <2>2. Bucket(key, Len(t)) \in DOMAIN t
    BY <2>1, BucketOutcome
  <2>3. \A b \in DOMAIN t : \A r \in t[b] : r.key = key => b = Bucket(key, Len(t))
    BY DEF TableOK
  <2> QED
    BY <1>1, <1>3, <2>2, <2>3
<1> QED
  BY <1>2, <1>3

LEMMA RehashedOutcome ==
    ASSUME NEW t, TableOK(t), NEW size \in Nat \ {0}
    PROVE  /\ TableOK(Rehashed(t, size)) /\ Len(Rehashed(t, size)) = size
           /\ Records(Rehashed(t, size)) = Records(t)
<1> DEFINE u == Rehashed(t, size)
<1>1. Records(t) \subseteq Fresh
  BY RecordsOutcome
<1>2. /\ u \in Seq(SUBSET Fresh) /\ Len(u) = size /\ DOMAIN u = 1 .. size
      /\ \A b \in 1 .. size : u[b] = {r \in Records(t) : Bucket(r.key, size) = b}
  BY <1>1 DEF Rehashed
<1>3. Records(u) = Records(t)
  <2>1. \A r \in Records(t) : Bucket(r.key, size) \in 1 .. size
    BY <1>1, BucketOutcome DEF Fresh
  <2> HIDE DEF u
  <2>2. \A r : r \in Records(t) <=> \E b \in 1 .. size : r \in u[b]
    BY <1>2, <2>1
  <2>3. \A r : r \in Records(u) <=> \E b \in DOMAIN u : r \in u[b]
    BY DEF Records, ToSet
  <2> QED
    BY <1>2, <2>2, <2>3
<1> HIDE DEF u
<1>4. TableOK(u)
  BY <1>2, <1>3 DEF TableOK
<1> QED
  BY <1>2, <1>3, <1>4 DEF u

LEMMA PreparedOutcome ==
    ASSUME NEW t, TableOK(t)
    PROVE  LET u == ScanCachePrepareInsert(t) IN
           TableOK(u) /\ Len(u) \in Nat \ {0} /\ Records(u) = Records(t)
<1>1. Len(t) \in Nat /\ (t # <<>> => Len(t) # 0)
  BY EmptySeq DEF TableOK
<1>2. \A size \in Nat \ {0} : LET u == Rehashed(t, size) IN
        TableOK(u) /\ Len(u) \in Nat \ {0} /\ Records(u) = Records(t)
  BY RehashedOutcome
<1>3. FirstSize \in Nat \ {0} /\ (t # <<>> => 2 * Len(t) \in Nat \ {0})
  BY <1>1, KeyAssumption
<1> QED
  BY <1>1, <1>2, <1>3 DEF ScanCachePrepareInsert

\* An entry of the key gives way, unless it has that stamp.
LEMMA InsertOutcome ==
    ASSUME TableOK(table), NEW key \in Keys, NEW stamp \in Nat, NEW includes \in Seq(Files),
           ScanCacheInsert(key, stamp, includes)
    PROVE  /\ TableOK(table')
           /\ \/ \E r \in Records(table) : r.key = key /\ r.stamp = stamp /\ table' = table
              \/ Records(table') = {r \in Records(table) : r.key # key}
                                     \cup {[key |-> key, stamp |-> stamp, includes |-> includes]}
<1> DEFINE record == [key |-> key, stamp |-> stamp, includes |-> includes]
           grown == ScanCachePrepareInsert(table)
           known == LookupDynamic(key)
           b == Bucket(key, Len(grown))
<1>1. known = {r \in Records(table) : r.key = key}
  BY LookedUp DEF LookupDynamic
<1>2. CASE \E r \in known : r.stamp = stamp
  BY <1>1, <1>2 DEF ScanCacheInsert
<1>3. CASE ~\E r \in known : r.stamp = stamp
  <2>1. table' = [grown EXCEPT ![b] = (grown[b] \ known) \cup {record}]
    BY <1>3 DEF ScanCacheInsert
  <2>2. TableOK(grown) /\ Len(grown) \in Nat \ {0} /\ Records(grown) = Records(table)
    BY PreparedOutcome
  <2>3. record \in Fresh /\ record.key = key
    BY DEF Fresh
  <2> HIDE DEF grown, known, record
  <2>4. grown \in Seq(SUBSET Fresh) /\ DOMAIN grown = 1 .. Len(grown) /\ b \in 1 .. Len(grown)
    BY <2>2, BucketOutcome DEF TableOK
  <2> HIDE DEF b
  <2>5. /\ table' \in Seq(SUBSET Fresh) /\ DOMAIN table' = 1 .. Len(grown) /\ Len(table') = Len(grown)
        /\ table'[b] = (grown[b] \ known) \cup {record}
        /\ \A c \in 1 .. Len(grown) : c # b => table'[c] = grown[c]
    BY <2>1, <2>3, <2>4
  <2>6. \A c \in 1 .. Len(grown) : \A r \in grown[c] : Bucket(r.key, Len(grown)) = c
    BY <2>2, <2>4 DEF TableOK
  <2>7. \A r : r \in Records(table) <=> \E c \in 1 .. Len(grown) : r \in grown[c]
    BY <2>2, <2>4, RecordsOutcome
  <2>8. \A r : r \in Records(table') <=> \E c \in 1 .. Len(grown) : r \in table'[c]
    BY <2>5 DEF Records, ToSet
  <2>9. \A r \in Records(table) : r.key = key => r \in grown[b]
    BY <2>6, <2>7 DEF b
  <2>10. Records(table') = {r \in Records(table) : r.key # key} \cup {record}
    <3>1. ASSUME NEW r \in Records(table') PROVE r = record \/ (r \in Records(table) /\ r.key # key)
      <4>1. PICK c \in 1 .. Len(grown) : r \in table'[c]
        BY <2>8
      <4>2. CASE c = b
        BY <1>1, <2>4, <2>5, <2>7, <4>1, <4>2
      <4>3. CASE c # b
        <5>1. r \in grown[c] /\ r \in Records(table)
          BY <2>5, <2>7, <4>1, <4>3
        <5>2. r.key # key
          BY <2>6, <4>3, <5>1 DEF b
        <5> QED
          BY <5>1, <5>2
      <4> QED
        BY <4>2, <4>3
    <3>2. record \in Records(table')
      BY <2>4, <2>5, <2>8
    <3>3. ASSUME NEW r \in Records(table), r.key # key PROVE r \in Records(table')
      <4>1. PICK c \in 1 .. Len(grown) : r \in grown[c]
        BY <2>7
      <4>2. r \in table'[c]
        BY <1>1, <2>5, <3>3, <4>1
      <4> QED
        BY <2>8, <4>2
    <3> QED
      BY <3>1, <3>2, <3>3
  <2>11. \A c \in 1 .. Len(grown) : \A r \in table'[c] : Bucket(r.key, Len(grown)) = c
    BY <2>3, <2>4, <2>5, <2>6 DEF b
  <2>12. IsFiniteSet(Records(table')) /\ Distinct(Records(table'))
    <3>1. IsFiniteSet({r \in Records(table) : r.key # key})
      BY FS_Subset DEF TableOK
    <3>2. IsFiniteSet(Records(table'))
      <4> DEFINE others == {r \in Records(table) : r.key # key}
      <4> HIDE DEF others
      <4>1. IsFiniteSet(others \cup {record})
        BY <3>1, FS_AddElement DEF others
      <4> QED
        BY <2>10, <4>1 DEF others
    <3>3. Distinct(Records(table'))
      BY <2>3, <2>10 DEF TableOK, Distinct
    <3> QED
      BY <3>2, <3>3
  <2>13. TableOK(table')
    BY <2>5, <2>11, <2>12 DEF TableOK
  <2> QED
    BY <2>10, <2>13 DEF record
<1> QED
  BY <1>2, <1>3

---------------------------------------------------------------------------
(* Types, and a cache in order *)

InProgress == {"stat", "lookup", "read", "insert", "again"}
ScanOK(s) == /\ s \in Scans
             /\ s.pc # "idle" => s.request \in Requests
             /\ s.pc \in InProgress => s.file \in Files
DiskOK == /\ disk \in [Files -> [content : DOMAIN Texts, mtime : Nat]]
          /\ tick \in Nat /\ day \in Nat
StatsOK == statCache \in [Files -> Nat \cup {Unknown}]
CacheOK == FrozenOK /\ TableOK(table)
WorkersOK == worker \in [Workers -> Scans] /\ \A w \in Workers : ScanOK(worker[w])
ScannerInv == /\ DiskOK /\ StatsOK /\ CacheOK /\ WorkersOK
              /\ todo \subseteq Requests

LEMMA RequestOutcome ==
    ASSUME NEW r \in Requests
    PROVE  /\ r = [node |-> r.node, file |-> r.file, scanner |-> r.scanner, safe |-> r.safe]
           /\ r.file \in Files /\ r.scanner \in DOMAIN Scanners /\ r.safe \in BOOLEAN
           /\ r.safe => r.file \notin Generated
BY ScanAssumption

\* The key a scan looks up tells file, scanner and kind of scan.
LEMMA KeyOutcome ==
    ASSUME ScannerInv, NEW w \in Workers, worker[w].pc \in InProgress
    PROVE  /\ worker[w].file \in Files /\ worker[w].request \in Requests /\ worker[w] \in Scans
           /\ KeyOf(w) = <<worker[w].file, worker[w].request.scanner, worker[w].request.safe>>
           /\ KeyOf(w) \in Keys
<1>1. ScanOK(worker[w])
  BY DEF ScannerInv, WorkersOK
<1>2. worker[w].file \in Files /\ worker[w].request \in Requests /\ worker[w] \in Scans
  BY <1>1 DEF ScanOK, InProgress
<1>3. worker[w].request.scanner \in DOMAIN Scanners /\ worker[w].request.safe \in BOOLEAN
  BY <1>2, RequestOutcome
<1>4. \A f \in Files, s \in DOMAIN Scanners, safe \in BOOLEAN : <<f, s, safe>> \in Keys
  BY ScanAssumption DEF Keys
<1> QED
  BY <1>2, <1>3, <1>4 DEF KeyOf, ScanCacheKey

\* An answer is a list of files.
LEMMA AnswersOutcome ==
    ASSUME CacheOK, NEW key \in Keys, NEW stamp, NEW includes \in Answers(key, stamp)
    PROVE  /\ includes \in Seq(Files)
           /\ \/ \E k \in DOMAIN frozen : frozen[k].key = key /\ frozen[k].stamp = stamp
                                          /\ frozen[k].includes = includes
              \/ \E r \in Records(table) : r.key = key /\ r.stamp = stamp /\ r.includes = includes
<1>1. CASE FrozenHits(key, stamp) # {}
  <2>1. PICK k \in FrozenHits(key, stamp) : includes = frozen[k].includes
    BY <1>1 DEF Answers
  <2>2. k \in DOMAIN frozen /\ frozen[k].key = key /\ frozen[k].stamp = stamp
    BY <2>1 DEF FrozenHits, FrozenIndex
  <2>3. frozen[k] \in Entries
    BY <2>2 DEF CacheOK, FrozenOK
  <2> QED
    BY <2>1, <2>2, <2>3 DEF Entries
<1>2. CASE FrozenHits(key, stamp) = {}
  <2>1. LookupDynamic(key) = {r \in Records(table) : r.key = key}
    BY LookedUp DEF LookupDynamic, CacheOK
  <2>2. PICK r \in LookupDynamic(key) : r.stamp = stamp /\ includes = r.includes
    BY <1>2 DEF Answers
  <2>3. r \in Records(table) /\ r \in Fresh /\ r.key = key
    BY <2>1, <2>2, RecordsOutcome DEF CacheOK
  <2> QED
    BY <2>2, <2>3 DEF Fresh
<1> QED
  BY <1>1, <1>2

LEMMA StatOutcome ==
    ASSUME ScannerInv, NEW f \in Files
    PROVE  StatCacheStat(f) \in Nat /\ GetFileInfo(f) = disk[f].mtime /\ disk[f].mtime \in Nat
           /\ (statCache[f] # Unknown => StatCacheStat(f) = statCache[f])
           /\ (statCache[f] = Unknown => StatCacheStat(f) = disk[f].mtime)
BY DEF ScannerInv, DiskOK, StatsOK, StatCacheStat, GetFileInfo, Unknown

LEMMA WorkerMoves ==
    ASSUME WorkersOK, NEW w \in Workers, NEW s, ScanOK(s), worker' = [worker EXCEPT ![w] = s]
    PROVE  WorkersOK'
<1>1. worker' \in [Workers -> Scans]
  BY DEF WorkersOK, ScanOK
<1>2. ASSUME NEW v \in Workers PROVE ScanOK(worker'[v])
  <2>1. worker'[v] = IF v = w THEN s ELSE worker[v]
    BY DEF WorkersOK
  <2> QED
    BY <2>1 DEF WorkersOK
<1> QED
  BY <1>1, <1>2 DEF WorkersOK, ScanOK

LEMMA IdleOutcome == ScanOK(Idle)
BY DEF ScanOK, Idle, Scans, Places, NoRequest, InProgress

LEMMA ScanFileOutcome ==
    ASSUME DiskOK, NEW f \in Files, NEW s \in DOMAIN Scanners, NEW stat \in [Files -> Nat]
    PROVE  /\ ScanFile(f, s, stat) \in Seq(Files)
           /\ \A g : g \in ToSet(ScanFile(f, s, stat))
                <=> \E i \in ToSet(Found[s][disk[f].content]) : FindFile(f, i, s, stat) = <<g>>
<1> DEFINE includes == Found[s][disk[f].content]
           places == [k \in DOMAIN includes |-> FindFile(f, includes[k], s, stat)]
<1>1. disk[f].content \in DOMAIN Texts
  BY DEF DiskOK
<1>2. IsList(includes) /\ ToSet(includes) \subseteq AllIncludes
  BY <1>1, FoundOutcome
<1>3. ScanFile(f, s, stat) = FlattenSeq(places)
  BY DEF ScanFile, ScanIncludes
<1> HIDE DEF includes
<1>4. ASSUME NEW i \in AllIncludes
      PROVE  FindFile(f, i, s, stat) = <<>> \/ \E g \in Files : FindFile(f, i, s, stat) = <<g>>
  BY FindFileOutcome
<1>5. ASSUME NEW k \in DOMAIN includes PROVE includes[k] \in AllIncludes /\ includes[k] \in ToSet(includes)
  BY <1>2 DEF ToSet
<1>6. ASSUME NEW k \in DOMAIN includes PROVE places[k] \in Seq(Files)
  <2>1. \A g \in Files : <<g>> \in Seq(Files)
    OBVIOUS
  <2>2. <<>> \in Seq(Files)
    OBVIOUS
  <2>3. FindFile(f, includes[k], s, stat) \in Seq(Files)
    BY <1>4, <1>5, <2>1, <2>2
  <2> QED
    BY <2>3
<1>7. places \in Seq(Seq(Files)) /\ DOMAIN places = DOMAIN includes
  <2>1. DOMAIN places = DOMAIN includes /\ places \in [DOMAIN includes -> Seq(Files)]
    BY <1>6
  <2>2. \E n \in Nat : DOMAIN includes = 1 .. n
    BY <1>2 DEF IsList
  <2> HIDE DEF places
  <2> QED
    BY <2>1, <2>2
<1>8. /\ FlattenSeq(places) \in Seq(Files)
      /\ ToSet(FlattenSeq(places)) = UNION {ToSet(places[k]) : k \in DOMAIN places}
  <2> HIDE DEF places
  <2> QED
    BY <1>7, FlattenedElements
<1>9. \A g : ToSet(<<g>>) = {g}
  BY DEF ToSet
<1>10. ToSet(<<>>) = {}
  BY DEF ToSet
<1>11. ASSUME NEW k \in DOMAIN includes, NEW g PROVE g \in ToSet(places[k]) <=> FindFile(f, includes[k], s, stat) = <<g>>
  BY <1>4, <1>5, <1>9, <1>10
<1>12. \A i : i \in ToSet(includes) <=> \E k \in DOMAIN includes : i = includes[k]
  BY DEF ToSet
<1>13. ASSUME NEW g
       PROVE  g \in ToSet(FlattenSeq(places)) <=> \E i \in ToSet(includes) : FindFile(f, i, s, stat) = <<g>>
  <2>1. g \in ToSet(FlattenSeq(places)) <=> \E k \in DOMAIN includes : g \in ToSet(places[k])
    <3> HIDE DEF places
    <3> QED
      BY <1>7, <1>8
  <2> HIDE DEF places
  <2> QED
    BY <1>11, <1>12, <2>1
<1> QED
  BY <1>3, <1>8, <1>13 DEF includes

LEMMA InitScannerInv == Init => ScannerInv
<1> SUFFICES ASSUME Init PROVE ScannerInv
  OBVIOUS
<1>1. DiskOK
  <2>1. \A f \in Files : Head(Versions[f]) \in DOMAIN Texts
    BY ScanAssumption, EmptySeq, HeadTailProperties
  <2> QED
    BY <2>1 DEF Init, DiskOK, Files
<1>2. StatsOK
  BY DEF Init, StatsOK, Files
<1>3. CacheOK
  <2>1. ToSet(<<>>) = {} /\ <<>> \in Seq(Entries) /\ <<>> \in Seq(SUBSET Fresh) /\ DOMAIN <<>> = {}
    BY DEF ToSet
  <2>2. Records(<<>>) = {} /\ IsFiniteSet({})
    BY <2>1, FS_EmptySet DEF Records
  <2> QED
    BY <2>1, <2>2 DEF Init, CacheOK, FrozenOK, TableOK, Ascending, Distinct
<1>4. WorkersOK
  BY IdleOutcome DEF Init, WorkersOK, ScanOK
<1> QED
  BY <1>1, <1>2, <1>3, <1>4 DEF ScannerInv, Init

\* Loading what was saved: all that is sorted, from the records of this run.
LEMMA SavedOutcome ==
    ASSUME ScannerInv, NEW now \in Nat
    PROVE  /\ ScanCacheSave(now) \in Seq(Entries) /\ Ascending(ScanCacheSave(now))
           /\ \A e \in ToSet(ScanCacheSave(now)) : \/ \E r \in Records(table) : Same(e, r)
                                                   \/ \E k \in DOMAIN frozen : Same(e, frozen[k])
           /\ \A k \in DOMAIN frozen : Kept(k, now) => \E e \in ToSet(ScanCacheSave(now)) : e.key = frozen[k].key
<1> DEFINE records == SortedByKey(Records(table))
<1>1. Records(table) \in SUBSET Fresh /\ IsFiniteSet(Records(table)) /\ Distinct(Records(table)) /\ FrozenOK
  BY RecordsOutcome DEF ScannerInv, CacheOK, TableOK
<1>2. records \in Seq(Fresh) /\ Ascending(records) /\ \A k \in DOMAIN records : records[k] \in Records(table)
  BY <1>1, SortedRecords
<1>3. ScanCacheSave(now) = Traverse(records, now)
  BY DEF ScanCacheSave
<1> HIDE DEF records
<1> QED
  BY <1>1, <1>2, <1>3, TraverseIsSound

\* No step of a scan disturbs the order of the cache.
LEMMA ScanStepScannerInv ==
    ASSUME ScannerInv, NEW w \in Workers, ScanStep(w)
    PROVE  ScannerInv'
<1>1. worker[w] \in Scans /\ ScanOK(worker[w]) /\ WorkersOK
  BY DEF ScannerInv, WorkersOK
<1>2. DiskOK' /\ todo' \subseteq Requests
  <2>1. UNCHANGED <<disk, tick, day, todo>>
    BY DEF ScanStep, Pop, StatCacheInsert, LookupHit, LookupMiss, SkipFile, ReadFile, ReadFails, Insert, Croak,
           EndScan, files, builds
  <2> QED
    BY <2>1 DEF DiskOK, ScannerInv
<1>3. StatsOK'
  <2>1. CASE UNCHANGED statCache
    BY <2>1 DEF ScannerInv, StatsOK
  <2>2. CASE StatCacheInsert(w)
    BY <1>1, <2>2 DEF StatCacheInsert, ScannerInv, StatsOK, Scans
  <2>3. CASE ReadFile(w)
    <3>1. \A f \in Files : StatCacheStat(f) \in Nat
      BY StatOutcome
    <3> QED
      BY <2>3, <3>1 DEF ReadFile, ScannerInv, StatsOK
  <2>4. UNCHANGED statCache \/ StatCacheInsert(w) \/ ReadFile(w)
    BY DEF ScanStep, Pop, LookupHit, LookupMiss, SkipFile, ReadFails, Insert, Croak, EndScan, builds
  <2> QED
    BY <2>1, <2>2, <2>3, <2>4
<1>4. CacheOK'
  <2>1. CASE Insert(w)
    <3>1. worker[w].pc \in InProgress /\ worker[w].stamp \in Nat /\ worker[w].includes \in Seq(Files)
      BY <1>1, <2>1 DEF Insert, InProgress, Scans
    <3>2. KeyOf(w) \in Keys
      BY <3>1, KeyOutcome
    <3>3. ScanCacheInsert(KeyOf(w), worker[w].stamp, worker[w].includes)
      BY <2>1 DEF Insert
    <3>4. TableOK(table')
      BY <3>1, <3>2, <3>3, InsertOutcome DEF ScannerInv, CacheOK
    <3> QED
      BY <3>3, <3>4 DEF ScanCacheInsert, ScannerInv, CacheOK, FrozenOK
  <2>2. CASE UNCHANGED <<frozen, table>>
    BY <2>2 DEF ScannerInv, CacheOK, FrozenOK
  <2>3. Insert(w) \/ UNCHANGED <<frozen, table>>
    BY DEF ScanStep, Pop, StatCacheInsert, LookupHit, Serve, ScanCacheLookup, LookupMiss, SkipFile, ReadFile,
           ReadFails, Croak, EndScan, cacheVars
  <2> QED
    BY <2>1, <2>2, <2>3
<1>5. WorkersOK'
  <2> DEFINE s == worker[w]
  <2>1. CASE Pop(w)
    <3> DEFINE f == Last(s.stack)
               pc == IF statCache[f] = Unknown THEN "stat" ELSE IF statCache[f] = 0 THEN "pop" ELSE "lookup"
               t == [s EXCEPT !.stack = Front(s.stack), !.file = f, !.stamp = StatCacheStat(f), !.pc = pc]
    <3>1. worker' = [worker EXCEPT ![w] = t]
      BY <1>1, <2>1 DEF Pop, WorkersOK
    <3>2. s.stack \in Seq(Files) /\ s.stack # <<>> /\ s.pc = "pop"
      BY <1>1, <2>1 DEF Pop, Scans
    <3>3. f \in Files /\ Front(s.stack) \in Seq(Files)
      BY <3>2, LastAndFront
    <3>4. StatCacheStat(f) \in Nat
      BY <3>3, StatOutcome
    <3>5. ScanOK(t)
      <4> HIDE DEF f
      <4> QED
        BY <1>1, <3>2, <3>3, <3>4 DEF ScanOK, Scans, Places
    <3> HIDE DEF t
    <3> QED
      BY <1>1, <3>1, <3>5, WorkerMoves
  <2>2. CASE StatCacheInsert(w)
    <3> DEFINE t == [s EXCEPT !.pc = IF s.stamp = 0 THEN "pop" ELSE "lookup"]
    <3>1. worker' = [worker EXCEPT ![w] = t]
      BY <2>2 DEF StatCacheInsert
    <3>2. ScanOK(t)
      BY <1>1, <2>2 DEF StatCacheInsert, ScanOK, Scans, Places, InProgress
    <3> HIDE DEF t
    <3> QED
      BY <1>1, <3>1, <3>2, WorkerMoves
  <2>3. CASE LookupHit(w)
    <3>1. s.pc \in InProgress /\ Serve(w)
      BY <2>3 DEF LookupHit, InProgress
    <3>2. PICK includes \in Answers(KeyOf(w), s.stamp) : worker' = [worker EXCEPT ![w] = WithIncludes(s, includes)]
      BY <3>1 DEF Serve
    <3>3. KeyOf(w) \in Keys /\ s.request \in Requests
      BY <3>1, KeyOutcome
    <3>4. includes \in Seq(Files)
      BY <3>3, AnswersOutcome DEF ScannerInv
    <3> DEFINE t == WithIncludes(s, includes)
    <3>5. t \in Scans /\ t.pc = "pop" /\ t.request = s.request
      BY <1>1, <3>4, WithIncludesOutcome
    <3>6. worker' = [worker EXCEPT ![w] = t]
      BY <3>2
    <3> HIDE DEF t
    <3>7. ScanOK(t)
      BY <3>3, <3>5 DEF ScanOK, InProgress
    <3> QED
      BY <1>1, <3>6, <3>7, WorkerMoves
  <2>4. CASE LookupMiss(w)
    <3> DEFINE t == [s EXCEPT !.pc = "read"]
    <3>1. worker' = [worker EXCEPT ![w] = t]
      BY <2>4 DEF LookupMiss
    <3>2. ScanOK(t)
      BY <1>1, <2>4 DEF LookupMiss, ScanOK, Scans, Places, InProgress
    <3> HIDE DEF t
    <3> QED
      BY <1>1, <3>1, <3>2, WorkerMoves
  <2>5. CASE SkipFile(w)
    <3> DEFINE t == [s EXCEPT !.pc = "pop"]
    <3>1. worker' = [worker EXCEPT ![w] = t]
      BY <2>5 DEF SkipFile
    <3>2. ScanOK(t)
      BY <1>1, <2>5 DEF SkipFile, ScanOK, Scans, Places, InProgress
    <3> HIDE DEF t
    <3> QED
      BY <1>1, <3>1, <3>2, WorkerMoves
  <2>6. CASE ReadFile(w)
    <3> DEFINE stat == [f \in DOMAIN disk |-> StatCacheStat(f)]
               includes == ScanFile(s.file, s.request.scanner, stat)
               t == [s EXCEPT !.pc = "insert", !.includes = includes]
    <3>1. worker' = [worker EXCEPT ![w] = t]
      BY <1>1, <2>6 DEF ReadFile, WorkersOK
    <3>2. s.pc \in InProgress
      BY <2>6 DEF ReadFile, InProgress
    <3>3. s.file \in Files /\ s.request.scanner \in DOMAIN Scanners
      BY <3>2, KeyOutcome, RequestOutcome
    <3>4. stat \in [Files -> Nat]
      BY StatOutcome DEF ScannerInv, DiskOK
    <3>5. includes \in Seq(Files)
      <4> HIDE DEF stat
      <4> QED
        BY <3>3, <3>4, ScanFileOutcome DEF ScannerInv
    <3>6. ScanOK(t)
      <4> HIDE DEF includes
      <4> QED
        BY <1>1, <3>2, <3>5 DEF ScanOK, Scans, Places, InProgress
    <3> HIDE DEF t
    <3> QED
      BY <1>1, <3>1, <3>6, WorkerMoves
  <2>7. CASE ReadFails(w)
    <3> DEFINE t == [s EXCEPT !.pc = "insert", !.includes = <<>>]
    <3>1. worker' = [worker EXCEPT ![w] = t]
      BY <1>1, <2>7 DEF ReadFails, WorkersOK
    <3>2. ScanOK(t)
      <4>1. <<>> \in Seq(Files) /\ s.pc = "read"
        BY <2>7 DEF ReadFails
      <4>2. s.request \in Requests /\ s.file \in Files
        BY <1>1, <4>1 DEF ScanOK, InProgress
      <4> DEFINE none == <<>>
      <4>3. t = [s EXCEPT !.pc = t.pc, !.includes = none] /\ t.pc \in Places \ {"idle"} /\ none \in Seq(Files)
        BY <1>1, <4>1 DEF Scans, Places
      <4> HIDE DEF t, none
      <4>4. t \in Scans /\ t.request = s.request /\ t.file = s.file
        BY <1>1, <4>3 DEF Scans
      <4> QED
        BY <4>2, <4>4 DEF ScanOK
    <3> HIDE DEF t
    <3> QED
      BY <1>1, <3>1, <3>2, WorkerMoves
  <2>8. CASE Insert(w)
    <3> DEFINE t == [s EXCEPT !.pc = "again", !.includes = <<>>]
    <3>1. worker' = [worker EXCEPT ![w] = t]
      BY <1>1, <2>8 DEF Insert, WorkersOK
    <3>2. ScanOK(t)
      <4>1. <<>> \in Seq(Files) /\ s.pc = "insert"
        BY <2>8 DEF Insert
      <4>2. s.request \in Requests /\ s.file \in Files
        BY <1>1, <4>1 DEF ScanOK, InProgress
      <4> DEFINE none == <<>>
      <4>3. t = [s EXCEPT !.pc = t.pc, !.includes = none] /\ t.pc \in Places \ {"idle"} /\ none \in Seq(Files)
        BY <1>1, <4>1 DEF Scans, Places
      <4> HIDE DEF t, none
      <4>4. t \in Scans /\ t.request = s.request /\ t.file = s.file
        BY <1>1, <4>3 DEF Scans
      <4> QED
        BY <4>2, <4>4 DEF ScanOK
    <3> HIDE DEF t
    <3> QED
      BY <1>1, <3>1, <3>2, WorkerMoves
  <2>9. CASE Croak(w)
    BY <2>9, IdleOutcome DEF Croak, WorkersOK, ScanOK
  <2>10. CASE EndScan(w)
    BY <1>1, <2>10, IdleOutcome, WorkerMoves DEF EndScan
  <2> QED
    BY <2>1, <2>2, <2>3, <2>4, <2>5, <2>6, <2>7, <2>8, <2>9, <2>10 DEF ScanStep
<1> QED
  BY <1>2, <1>3, <1>4, <1>5 DEF ScannerInv

LEMMA NextScannerInv == ScannerInv /\ [Next]_vars => ScannerInv'
<1> SUFFICES ASSUME ScannerInv, [Next]_vars PROVE ScannerInv'
  OBVIOUS
<1> USE DEF ScannerInv
<1>1. ASSUME NEW w \in Workers, ScanStep(w) PROVE ScannerInv'
  BY <1>1, ScanStepScannerInv
<1>2. ASSUME NEW w \in Workers, NEW r \in Requests, BeginScan(w, r) PROVE ScannerInv'
  <2> DEFINE t == [Idle EXCEPT !.pc = "pop", !.request = r, !.stack = <<r.file>>]
  <2>1. worker' = [worker EXCEPT ![w] = t]
    BY <1>2 DEF BeginScan
  <2>2. <<r.file>> \in Seq(Files)
    BY RequestOutcome
  <2>3. /\ t = [Idle EXCEPT !.pc = t.pc, !.request = t.request, !.stack = t.stack]
        /\ t.pc = "pop" /\ t.request = r /\ t.stack \in Seq(Files)
    BY <2>2 DEF Idle
  <2> HIDE DEF t
  <2>4. ScanOK(t)
    BY <2>3, IdleOutcome DEF ScanOK, Scans, Places, Idle, InProgress
  <2>5. WorkersOK'
    BY <2>1, <2>4, WorkerMoves
  <2>6. UNCHANGED <<frozen, table, disk, tick, day, statCache>> /\ todo' \subseteq Requests
    BY <1>2 DEF BeginScan, cacheVars, files
  <2> QED
    BY <2>5, <2>6 DEF DiskOK, StatsOK, CacheOK, FrozenOK, TableOK
<1>3. ASSUME NEW f \in Generated, Generate(f) PROVE ScannerInv'
  <2>1. f \in Files
    BY ScanAssumption
  <2>2. DiskOK' /\ StatsOK'
    BY <1>3, <2>1 DEF Generate, DiskOK, StatsOK
  <2>3. UNCHANGED <<frozen, table, todo, worker>>
    BY <1>3 DEF Generate, cacheVars
  <2> QED
    BY <2>2, <2>3 DEF CacheOK, FrozenOK, TableOK, WorkersOK, ScanOK
<1>4. ASSUME NEW saved \in BOOLEAN, SaveScanCache(saved) PROVE ScannerInv'
  <2>1. ScanCacheSave(day) \in Seq(Entries) /\ Ascending(ScanCacheSave(day))
    BY SavedOutcome DEF DiskOK
  <2>2. FrozenOK'
    BY <1>4, <2>1 DEF SaveScanCache, ScanCacheLoad, CacheOK, FrozenOK, Ascending
  <2>3. TableOK(<<>>)
    <3>1. ToSet(<<>>) = {} /\ <<>> \in Seq(SUBSET Fresh) /\ DOMAIN <<>> = {}
      BY DEF ToSet
    <3>2. Records(<<>>) = {} /\ IsFiniteSet({})
      BY <3>1, FS_EmptySet DEF Records
    <3> QED
      BY <3>1, <3>2 DEF TableOK, Distinct
  <2>4. CacheOK'
    BY <1>4, <2>2, <2>3 DEF SaveScanCache, ScanCacheLoad, CacheOK
  <2>5. StatsOK'
    BY <1>4 DEF SaveScanCache, StatsOK
  <2>6. UNCHANGED <<disk, tick, day, todo, worker>>
    BY <1>4 DEF SaveScanCache, files
  <2> QED
    BY <2>4, <2>5, <2>6 DEF DiskOK, WorkersOK, ScanOK
<1>5. ASSUME NEW f \in Files, NEW c \in ToSet(Versions[f]), Edit(f, c) \/ EditDuringBuild(f, c) PROVE ScannerInv'
  <2>1. c \in DOMAIN Texts
    BY ScanAssumption DEF ToSet
  <2>2. Edited(f, c)
    BY <1>5 DEF Edit, EditDuringBuild
  <2>3. UNCHANGED <<frozen, table, todo, worker, day, statCache>>
    BY <1>5 DEF Edit, EditDuringBuild, cacheVars, builds
  <2>4. DiskOK'
    BY <2>1, <2>2, <2>3 DEF Edited, DiskOK
  <2> QED
    BY <2>3, <2>4 DEF StatsOK, CacheOK, FrozenOK, TableOK, WorkersOK, ScanOK
<1>6. ASSUME NEW days \in Days, NextBuild(days) PROVE ScannerInv'
  <2>1. days \in Nat
    BY ScanAssumption
  <2>2. UNCHANGED <<frozen, table, disk, tick, worker, statCache>> /\ day' = day + days /\ todo' = Requests
    BY <1>6 DEF NextBuild, cacheVars, files
  <2> QED
    BY <2>1, <2>2 DEF DiskOK, StatsOK, CacheOK, FrozenOK, TableOK, WorkersOK, ScanOK
<1>7. CASE UNCHANGED vars
  BY <1>7 DEF vars, cacheVars, files, builds, DiskOK, StatsOK, CacheOK, FrozenOK, TableOK, WorkersOK, ScanOK
<1> QED
  BY <1>1, <1>2, <1>3, <1>4, <1>5, <1>6, <1>7 DEF Next, Files

\* Whatever threads insert, the cache stays in order: every key is in its chain
\* and there once, and what was saved is sorted.
THEOREM CacheStaysInOrder == Spec => []ScannerInv
<1> QED
  BY InitScannerInv, NextScannerInv, PTL DEF Spec

\* What was said of the traversal, of the step that saves.
LEMMA SaveIsSound ==
    ScannerInv /\ [Next]_vars =>
      [phase = "building" /\ phase' = "between" =>
        /\ \A k, l \in DOMAIN frozen' :
               k < l => KeyRank[frozen'[k].key] < KeyRank[frozen'[l].key]
        /\ \A k \in DOMAIN frozen :
               k \in frozenAccess \/ frozen[k].accessed + KeepFor > day =>
                   \E l \in DOMAIN frozen' : frozen'[l].key = frozen[k].key]_vars
<1> SUFFICES ASSUME ScannerInv, Next, phase = "building", phase' = "between"
             PROVE  /\ \A k, l \in DOMAIN frozen' : k < l => KeyRank[frozen'[k].key] < KeyRank[frozen'[l].key]
                    /\ \A k \in DOMAIN frozen :
                        k \in frozenAccess \/ frozen[k].accessed + KeepFor > day =>
                          \E l \in DOMAIN frozen' : frozen'[l].key = frozen[k].key
  OBVIOUS
<1>1. PICK saved \in BOOLEAN : SaveScanCache(saved)
  BY DEF Next, ScanStep, Pop, StatCacheInsert, LookupHit, LookupMiss, SkipFile, ReadFile, ReadFails, Insert, Croak,
         EndScan, BeginScan, Generate, Edit, EditDuringBuild, NextBuild, builds
<1>2. frozen' = IF ScanCacheDirty /\ saved THEN ScanCacheSave(day) ELSE frozen
  BY <1>1 DEF SaveScanCache, ScanCacheLoad
<1>3. FrozenOK
  BY DEF ScannerInv, CacheOK
<1>4. CASE ScanCacheDirty /\ saved
  <2> DEFINE s == ScanCacheSave(day)
  <2>1. /\ s \in Seq(Entries) /\ Ascending(s)
        /\ \A k \in DOMAIN frozen : Kept(k, day) => \E e \in ToSet(s) : e.key = frozen[k].key
    BY SavedOutcome DEF ScannerInv, DiskOK
  <2>2. frozen' = s
    BY <1>2, <1>4
  <2> HIDE DEF s
  <2> QED
    BY <2>1, <2>2 DEF Ascending, Rank, Kept, ToSet
<1>5. CASE ~(ScanCacheDirty /\ saved)
  BY <1>2, <1>3, <1>5 DEF FrozenOK, Ascending, Rank
<1> QED
  BY <1>4, <1>5

\* Saving leaves the cache sorted and with every key once, and drops nothing that
\* was used in this run or saved as used within the last week.
THEOREM SavingKeepsWhatIsUsed == Spec => SavingIsSound
<1> QED
  BY CacheStaysInOrder, SaveIsSound, PTL DEF Spec, SavingIsSound

---------------------------------------------------------------------------
(* What a scan finds *)

\* Where the includes of a content lead to once all files are there.
Leads(f, c, s) ==
    {g \in Files : \E i \in ToSet(Found[s][c]) : LET places == Candidates[f][i][s] IN
        \E k \in DOMAIN places : places[k] = g /\ \A l \in DOMAIN places : l < k => places[l] \notin Files}
Shown(safe, S) == {g \in S : safe => g \notin Generated}

\* A scan of a file that may see what is there finds what the file leads to: what
\* is not there yet comes first nowhere that something else would be found.
LEMMA ScanLeads ==
    ASSUME NothingShadowed, DiskOK, NEW f \in Files, NEW s \in DOMAIN Scanners, NEW safe \in BOOLEAN,
           NEW stat \in [Files -> Nat],
           disk[f].content \in ToSet(Versions[f]),
           \A g \in Files : g \notin Generated \/ ~safe => stat[g] # 0
    PROVE  Shown(safe, ToSet(ScanFile(f, s, stat))) = Shown(safe, Leads(f, disk[f].content, s))
<1> DEFINE c == disk[f].content
<1>1. c \in DOMAIN Texts /\ ToSet(Found[s][c]) \subseteq AllIncludes
  BY FoundOutcome DEF DiskOK
<1>2. \A g : g \in ToSet(ScanFile(f, s, stat)) <=> \E i \in ToSet(Found[s][c]) : FindFile(f, i, s, stat) = <<g>>
  BY ScanFileOutcome
<1>3. ASSUME NEW i \in ToSet(Found[s][c]), NEW g, safe => g \notin Generated, FindFile(f, i, s, stat) = <<g>>
      PROVE  g \in Files /\ \E k \in DOMAIN Candidates[f][i][s] :
                /\ Candidates[f][i][s][k] = g
                /\ \A l \in DOMAIN Candidates[f][i][s] : l < k => Candidates[f][i][s][l] \notin Files
  <2> DEFINE places == Candidates[f][i][s]
             There(k) == places[k] \in Files /\ stat[places[k]] # 0
  <2>1. i \in AllIncludes /\ <<g>> # <<>>
    BY <1>1
  <2>2. PICK k \in DOMAIN places : There(k) /\ (\A l \in DOMAIN places : l < k => ~There(l)) /\ g = places[k]
    <3>1. FindFile(f, i, s, stat) # <<>>
      BY <1>3, <2>1
    <3>2. PICK k \in DOMAIN places : /\ There(k) /\ \A l \in DOMAIN places : l < k => ~There(l)
                                     /\ FindFile(f, i, s, stat) = <<places[k]>>
      BY <2>1, <3>1, FindFileOutcome
    <3>3. <<g>>[1] = <<places[k]>>[1]
      BY <1>3, <3>2
    <3> QED
      BY <3>2, <3>3
  <2>3. ASSUME NEW l \in DOMAIN places, l < k, places[l] \in Files PROVE FALSE
    <3>1. places[l] \in Generated /\ safe
      BY <2>2, <2>3
    <3>2. places[k] \in Files \ Generated
      BY <1>3, <2>2, <3>1
    <3> QED
      BY <2>3, <3>1, <3>2 DEF NothingShadowed
  <2> QED
    BY <2>2, <2>3
<1>4. ASSUME NEW i \in ToSet(Found[s][c]), NEW g \in Files, safe => g \notin Generated,
             NEW k \in DOMAIN Candidates[f][i][s], Candidates[f][i][s][k] = g,
             \A l \in DOMAIN Candidates[f][i][s] : l < k => Candidates[f][i][s][l] \notin Files
      PROVE  FindFile(f, i, s, stat) = <<g>>
  <2> DEFINE places == Candidates[f][i][s]
             There(m) == places[m] \in Files /\ stat[places[m]] # 0
  <2>1. i \in AllIncludes
    BY <1>1
  <2>2. There(k)
    BY <1>4
  <2>3. DOMAIN places \subseteq Nat
    BY <2>1, FindFileOutcome DEF IsList
  <2>4. PICK m \in DOMAIN places : /\ There(m) /\ \A l \in DOMAIN places : l < m => ~There(l)
                                   /\ FindFile(f, i, s, stat) = <<places[m]>>
    BY <2>1, <2>2, FindFileOutcome
  <2>5. ~(m < k) /\ ~(k < m)
    BY <1>4, <2>2, <2>4
  <2>6. m = k
    BY <2>3, <2>4, <2>5
  <2> QED
    BY <1>4, <2>4, <2>6
<1>5. ASSUME NEW g, safe => g \notin Generated PROVE g \in ToSet(ScanFile(f, s, stat)) <=> g \in Leads(f, c, s)
  <2>1. ASSUME g \in ToSet(ScanFile(f, s, stat)) PROVE g \in Leads(f, c, s)
    BY <1>2, <1>3, <1>5, <2>1 DEF Leads
  <2>2. ASSUME g \in Leads(f, c, s) PROVE g \in ToSet(ScanFile(f, s, stat))
    BY <1>2, <1>4, <1>5, <2>2 DEF Leads
  <2> QED
    BY <2>1, <2>2
<1> QED
  BY <1>5 DEF Shown

LEMMA NothingInEmptyText ==
    ASSUME NEW f, NEW s \in DOMAIN Scanners, NEW c \in DOMAIN Texts, Texts[c] = <<>>
    PROVE  Leads(f, c, s) = {}
<1>1. ToSet(Found[s][c]) = {}
  <2>1. \A line : [k \in {} |-> line[k]] = <<>>
    OBVIOUS
  <2>2. DOMAIN Texts[c] = {} /\ Len(<<>>) = 0
    OBVIOUS
  <2>3. Found[s][c] = FlattenSeq(<<>>)
    <3>1. \A F : [k \in {} |-> F[k]] = <<>>
      OBVIOUS
    <3>2. [k \in DOMAIN Texts[c] |-> ScanCppLine(Texts[c][k])] = <<>>
          /\ [k \in DOMAIN Texts[c] |-> ScanLineGeneric(Texts[c][k], Scanners[s].config)] = <<>>
      BY <2>2
    <3> QED
      BY <3>2 DEF Found, ScanIncludesCpp, ScanIncludesGeneric
  <2>4. FlattenSeq(<<>>) = <<>> /\ ToSet(<<>>) = {}
    BY <2>2 DEF FlattenSeq, ToSet
  <2> QED
    BY <2>3, <2>4
<1> QED
  BY <1>1 DEF Leads

---------------------------------------------------------------------------
(* What is known is true: of the state, by what it depends on *)

\* What request r is led to from f, of the disk d.
Led(f, r, d) == Shown(r.safe, Leads(f, d[f].content, r.scanner))

\* What is cached of a file is true as long as the file has the time it is cached
\* under.  n is the last time given, damage whether a read has failed.
EntryTrue(e, d, n, damage) ==
    /\ e.stamp <= n
    /\ ~damage => \A f \in Files, s \in DOMAIN Scanners, safe \in BOOLEAN :
           e.key = <<f, s, safe>> /\ e.stamp = d[f].mtime
           => Shown(safe, ToSet(e.includes)) = Shown(safe, Leads(f, d[f].content, s))
Cached == Records(table)
          \cup {[key |-> frozen[k].key, stamp |-> frozen[k].stamp, includes |-> frozen[k].includes] : k \in DOMAIN frozen}
KeyIn(s) == <<s.file, s.request.scanner, s.request.safe>>

\* A scan sees no file it may not see, and none that is not there.
SeesOnly(s, d) ==
    /\ ~s.request.safe => \A g \in Generated : d[g].mtime # 0
    /\ \A f \in s.found \cup ToSet(s.stack) \cup {s.request.file} : Seen(s.request, f)
    /\ s.pc \in InProgress => Seen(s.request, s.file)
\* Its time of a file is that of the file, or an earlier one if somebody edits.
StampTrue(s, d, n, edits) ==
    s.pc \in InProgress => s.stamp # 0 /\ s.stamp <= n /\ (~edits => s.stamp = d[s.file].mtime)
\* What it has read and what it has inserted.
HoldsTrue(s, d, records, edits, damage) ==
    /\ s.pc = "insert" /\ ~damage /\ s.stamp = d[s.file].mtime
       => Shown(s.request.safe, ToSet(s.includes)) = Led(s.file, s.request, d)
    /\ s.pc = "again" /\ ~edits => \E e \in records : e.key = KeyIn(s) /\ e.stamp = s.stamp
\* All it has found is led to, and where that leads has been found, or waits.
FindsTrue(s, d, edits, damage) ==
    ~damage /\ ~edits =>
      /\ \A S \in SUBSET Files :
            Led(s.request.file, s.request, d) \subseteq S /\ (\A f \in S : Seen(s.request, f) => Led(f, s.request, d) \subseteq S)
            => s.found \subseteq S
      /\ ToSet(s.stack) \subseteq s.found \cup {s.request.file}
      /\ s.pc \in InProgress => s.file \in s.found \cup {s.request.file}
      /\ \A f \in s.found \cup {s.request.file} :
            \/ f \in ToSet(s.stack) \/ (s.pc \in InProgress /\ f = s.file)
            \/ Led(f, s.request, d) \subseteq s.found
ScanTrue(s, d, n, records, edits, damage) ==
    s.pc # "idle" => /\ SeesOnly(s, d) /\ StampTrue(s, d, n, edits)
                     /\ HoldsTrue(s, d, records, edits, damage) /\ FindsTrue(s, d, edits, damage)

\* What is cached is not to be trusted.
Doubt == damaged \/ ~NothingShadowed

DiskTrue == \A f \in Files : /\ disk[f].content \in ToSet(Versions[f]) /\ disk[f].mtime <= tick
                             /\ f \notin Generated => disk[f].mtime # 0
StatsTrue == \A f \in Files : /\ statCache[f] <= tick
                              /\ statCache[f] = 0 => disk[f].mtime = 0
                              /\ ~disturbed /\ statCache[f] # Unknown => statCache[f] = disk[f].mtime
EntriesTrue == \A e \in Cached : EntryTrue(e, disk, tick, Doubt)
ScansTrue == \A w \in Workers : ScanTrue(worker[w], disk, tick, Records(table), disturbed, Doubt)
PhaseTrue == /\ phase = "between" => /\ \A w \in Workers : worker[w].pc = "idle"
                                     /\ \A f \in Files : statCache[f] = Unknown
             /\ phase = "croaked" => disturbed
Flags == disturbed \in BOOLEAN
TruthInv == ScannerInv /\ Flags /\ DiskTrue /\ StatsTrue /\ EntriesTrue /\ ScansTrue /\ PhaseTrue

\* Disks: files are edited and generated, each time at a later time.
Disks == [Files -> [content : DOMAIN Texts, mtime : Nat]]
Later(d, n, e) ==
    /\ \A f \in Files : e[f] = d[f] \/ e[f].mtime > n
    /\ \A f \in Files : d[f].mtime # 0 => e[f].mtime # 0
\* Only files that were not there have changed.
Undisturbed(d, e) ==
    \A f \in Files : e[f].content = d[f].content /\ (d[f].mtime # 0 => e[f] = d[f])

\* What is cached stays true while files change, for they change their times.
LEMMA EntryStays ==
    ASSUME NEW x \in Fresh, NEW d \in Disks, NEW e \in Disks, NEW n \in Nat, NEW m \in Nat, n <= m,
           Later(d, n, e), NEW damage \in BOOLEAN, NEW more \in BOOLEAN, damage => more,
           EntryTrue(x, d, n, damage)
    PROVE  EntryTrue(x, e, m, more)
<1>1. x.stamp \in Nat /\ x.stamp <= n /\ x.stamp <= m
  BY DEF Fresh, EntryTrue
<1>2. ASSUME ~more, NEW f \in Files, NEW s \in DOMAIN Scanners, NEW safe \in BOOLEAN,
             x.key = <<f, s, safe>>, x.stamp = e[f].mtime
      PROVE  Shown(safe, ToSet(x.includes)) = Shown(safe, Leads(f, e[f].content, s))
  <2>1. e[f] = d[f]
    BY <1>1, <1>2 DEF Later
  <2> QED
    BY <1>2, <2>1 DEF EntryTrue
<1> QED
  BY <1>1, <1>2 DEF EntryTrue

\* So does what a scan knows, when nobody edits.
LEMMA ScanStays ==
    ASSUME NEW s, ScanOK(s), NEW d \in Disks, NEW e \in Disks, NEW n \in Nat, NEW m \in Nat, n <= m,
           Later(d, n, e),
           NEW damage \in BOOLEAN, NEW more \in BOOLEAN, damage => more,
           NEW edits \in BOOLEAN, NEW moreEdits \in BOOLEAN, edits => moreEdits,
           ~moreEdits => Undisturbed(d, e),
           NEW old, NEW new,
           ~moreEdits /\ s.pc = "again" /\ (\E x \in old : x.key = KeyIn(s) /\ x.stamp = s.stamp)
             => \E x \in new : x.key = KeyIn(s) /\ x.stamp = s.stamp,
           ScanTrue(s, d, n, old, edits, damage)
    PROVE  ScanTrue(s, e, m, new, moreEdits, more)
<1> SUFFICES ASSUME s.pc # "idle"
             PROVE  /\ SeesOnly(s, e) /\ StampTrue(s, e, m, moreEdits)
                    /\ HoldsTrue(s, e, new, moreEdits, more) /\ FindsTrue(s, e, moreEdits, more)
  BY DEF ScanTrue
<1>1. /\ SeesOnly(s, d) /\ StampTrue(s, d, n, edits)
      /\ HoldsTrue(s, d, old, edits, damage) /\ FindsTrue(s, d, edits, damage)
  BY DEF ScanTrue
<1>2. /\ s \in Scans /\ s.request \in Requests /\ s.stamp \in Nat /\ s.found \subseteq Files /\ s.request.file \in Files
      /\ s.pc \in InProgress => s.file \in Files
  BY RequestOutcome DEF ScanOK, Scans
<1>3. Generated \subseteq Files
  BY ScanAssumption
<1>4. SeesOnly(s, e)
  BY <1>1, <1>3 DEF SeesOnly, Later
<1>5. StampTrue(s, e, m, moreEdits)
  BY <1>1, <1>2 DEF StampTrue, Undisturbed
<1>6. HoldsTrue(s, e, new, moreEdits, more)
  <2>1. ASSUME s.pc = "insert", ~more, s.stamp = e[s.file].mtime
        PROVE  Shown(s.request.safe, ToSet(s.includes)) = Led(s.file, s.request, e)
    <3>1. s.pc \in InProgress /\ s.file \in Files
      BY <1>2, <2>1 DEF InProgress
    <3>2. s.stamp <= n
      BY <1>1, <3>1 DEF StampTrue
    <3>3. e[s.file] = d[s.file]
      BY <1>2, <2>1, <3>1, <3>2 DEF Later
    <3>4. Led(s.file, s.request, e) = Led(s.file, s.request, d)
      BY <3>3 DEF Led
    <3> QED
      BY <1>1, <2>1, <3>3, <3>4 DEF HoldsTrue
  <2>2. ASSUME s.pc = "again", ~moreEdits PROVE \E x \in new : x.key = KeyIn(s) /\ x.stamp = s.stamp
    BY <1>1, <2>2 DEF HoldsTrue
  <2> QED
    BY <2>1, <2>2 DEF HoldsTrue
<1>7. FindsTrue(s, e, moreEdits, more)
  <2> SUFFICES ASSUME ~more, ~moreEdits PROVE FindsTrue(s, e, moreEdits, more)
    BY DEF FindsTrue
  <2>1. \A f \in Files : Led(f, s.request, e) = Led(f, s.request, d)
    BY DEF Led, Undisturbed
  <2> QED
    BY <1>1, <1>2, <2>1 DEF FindsTrue
<1> QED
  BY <1>4, <1>5, <1>6, <1>7

LEMMA FileThere ==
    ASSUME TruthInv, NEW w \in Workers, worker[w].pc # "idle", NEW f \in Files, Seen(worker[w].request, f)
    PROVE  disk[f].mtime # 0 /\ statCache[f] # 0 /\ StatCacheStat(f) # 0 /\ StatCacheStat(f) <= tick
           /\ (~disturbed => StatCacheStat(f) = disk[f].mtime)
<1>1. SeesOnly(worker[w], disk)
  BY DEF TruthInv, ScansTrue, ScanTrue
<1>2. worker[w].request.safe \in BOOLEAN
  BY RequestOutcome DEF TruthInv, ScannerInv, WorkersOK, ScanOK
<1>3. disk[f].mtime # 0
  BY <1>1, <1>2 DEF TruthInv, DiskTrue, SeesOnly, Seen
<1>4. /\ StatCacheStat(f) \in Nat
      /\ statCache[f] # Unknown => StatCacheStat(f) = statCache[f]
      /\ statCache[f] = Unknown => StatCacheStat(f) = disk[f].mtime
  BY StatOutcome DEF TruthInv
<1> QED
  BY <1>3, <1>4 DEF TruthInv, DiskTrue, StatsTrue

LEMMA CachedOutcome == ASSUME CacheOK PROVE Cached \in SUBSET Fresh
<1>1. Records(table) \subseteq Fresh
  BY RecordsOutcome DEF CacheOK
<1>2. \A k \in DOMAIN frozen : frozen[k] \in Entries
  BY DEF CacheOK, FrozenOK
<1> QED
  BY <1>1, <1>2 DEF Cached, Entries, Fresh

\* An answer of the cache is true.
LEMMA AnswersAreCached ==
    ASSUME CacheOK, NEW key \in Keys, NEW stamp, NEW includes \in Answers(key, stamp)
    PROVE  \E e \in Cached : e.key = key /\ e.stamp = stamp /\ e.includes = includes
<1>1. CASE \E k \in DOMAIN frozen : frozen[k].key = key /\ frozen[k].stamp = stamp /\ frozen[k].includes = includes
  <2>1. PICK k \in DOMAIN frozen : frozen[k].key = key /\ frozen[k].stamp = stamp /\ frozen[k].includes = includes
    BY <1>1
  <2> DEFINE e == [key |-> frozen[k].key, stamp |-> frozen[k].stamp, includes |-> frozen[k].includes]
  <2>2. e \in Cached
    BY DEF Cached
  <2> QED
    BY <2>1, <2>2
<1>2. CASE \E r \in Records(table) : r.key = key /\ r.stamp = stamp /\ r.includes = includes
  BY <1>2 DEF Cached
<1> QED
  BY <1>1, <1>2, AnswersOutcome

\* A scan that goes on with the same file.
LEMMA SameScan ==
    ASSUME NEW s, NEW t, t.request = s.request, t.found = s.found, t.stack = s.stack, t.file = s.file,
           t.stamp = s.stamp, s.pc \in InProgress, t.pc \in InProgress,
           NEW d, NEW n, NEW old, NEW new, NEW edits \in BOOLEAN, NEW damage \in BOOLEAN, NEW more \in BOOLEAN,
           damage => more, ScanTrue(s, d, n, old, edits, damage), HoldsTrue(t, d, new, edits, more)
    PROVE  ScanTrue(t, d, n, new, edits, more)
<1>1. s.pc # "idle" /\ SeesOnly(s, d) /\ StampTrue(s, d, n, edits) /\ FindsTrue(s, d, edits, damage)
  BY DEF ScanTrue, InProgress
<1>2. SeesOnly(t, d)
  BY <1>1 DEF SeesOnly
<1>3. StampTrue(t, d, n, edits)
  BY <1>1 DEF StampTrue
<1>4. FindsTrue(t, d, edits, more)
  BY <1>1 DEF FindsTrue
<1> QED
  BY <1>2, <1>3, <1>4 DEF ScanTrue

LEMMA PopTruth ==
    ASSUME TruthInv, NEW w \in Workers, Pop(w)
    PROVE  \E t : worker' = [worker EXCEPT ![w] = t]
                  /\ ScanTrue(t, disk, tick, Records(table), disturbed, Doubt)
<1> DEFINE s == worker[w]
           f == Last(s.stack)
           pc == IF statCache[f] = Unknown THEN "stat" ELSE IF statCache[f] = 0 THEN "pop" ELSE "lookup"
           t == [s EXCEPT !.stack = Front(s.stack), !.file = f, !.stamp = StatCacheStat(f), !.pc = pc]
<1>0. ScanTrue(s, disk, tick, Records(table), disturbed, Doubt) /\ ScanOK(s) /\ WorkersOK
  BY DEF TruthInv, ScansTrue, ScannerInv, WorkersOK
<1>1. s \in Scans /\ s.pc = "pop" /\ s.stack \in Seq(Files) /\ s.stack # <<>>
  BY <1>0 DEF ScanOK, Scans, Pop
<1>2. SeesOnly(s, disk) /\ FindsTrue(s, disk, disturbed, Doubt)
  BY <1>0, <1>1 DEF ScanTrue
<1>3. f \in Files /\ Front(s.stack) \in Seq(Files) /\ ToSet(s.stack) = ToSet(Front(s.stack)) \cup {f}
  BY <1>1, LastAndFront
<1>4. Seen(s.request, f)
  BY <1>2, <1>3 DEF SeesOnly
<1>5. StatCacheStat(f) # 0 /\ StatCacheStat(f) <= tick /\ (~disturbed => StatCacheStat(f) = disk[f].mtime)
      /\ statCache[f] # 0
  BY <1>1, <1>3, <1>4, FileThere
<1>6. worker' = [worker EXCEPT ![w] = t]
  BY <1>0 DEF Pop, WorkersOK
<1>7. /\ t.request = s.request /\ t.found = s.found /\ t.stack = Front(s.stack) /\ t.file = f
      /\ t.stamp = StatCacheStat(f) /\ t.pc \in {"stat", "lookup"}
  <2> HIDE DEF f
  <2> QED
    BY <1>1, <1>5 DEF Scans
<1> HIDE DEF t, f
<1>8. SeesOnly(t, disk)
  BY <1>2, <1>3, <1>4, <1>7 DEF SeesOnly
<1>9. StampTrue(t, disk, tick, disturbed)
  BY <1>5, <1>7 DEF StampTrue
<1>10. HoldsTrue(t, disk, Records(table), disturbed, Doubt)
  BY <1>7 DEF HoldsTrue
<1>11. FindsTrue(t, disk, disturbed, Doubt)
  <2> SUFFICES ASSUME ~Doubt, ~disturbed PROVE FindsTrue(t, disk, disturbed, Doubt)
    BY DEF FindsTrue
  <2>1. t.pc \in InProgress /\ s.pc \notin InProgress
    BY <1>1, <1>7 DEF InProgress
  <2> QED
    BY <1>2, <1>3, <1>7, <2>1 DEF FindsTrue
<1> QED
  BY <1>6, <1>8, <1>9, <1>10, <1>11 DEF ScanTrue

LEMMA LookupHitTruth ==
    ASSUME TruthInv, NEW w \in Workers, LookupHit(w)
    PROVE  \E t : worker' = [worker EXCEPT ![w] = t]
                  /\ ScanTrue(t, disk, tick, Records(table), disturbed, Doubt)
<1> DEFINE s == worker[w]
           d == disk
<1>0. ScanTrue(s, disk, tick, Records(table), disturbed, Doubt) /\ ScanOK(s) /\ CacheOK
  BY DEF TruthInv, ScansTrue, ScannerInv, WorkersOK
<1>1. s \in Scans /\ s.pc \in InProgress /\ s.pc # "idle"
  BY <1>0 DEF ScanOK, LookupHit, InProgress
<1>2. SeesOnly(s, d) /\ StampTrue(s, d, tick, disturbed) /\ FindsTrue(s, d, disturbed, Doubt)
  BY <1>0, <1>1 DEF ScanTrue
<1>3. PICK includes \in Answers(KeyOf(w), s.stamp) : worker' = [worker EXCEPT ![w] = WithIncludes(s, includes)]
  BY DEF LookupHit, Serve
<1>4. KeyOf(w) \in Keys /\ KeyOf(w) = KeyIn(s) /\ s.file \in Files /\ s.request \in Requests
  BY <1>1, KeyOutcome DEF TruthInv, KeyIn
<1>5. includes \in Seq(Files)
  BY <1>0, <1>4, AnswersOutcome
<1>6. PICK e \in Cached : e.key = KeyOf(w) /\ e.stamp = s.stamp /\ e.includes = includes
  BY <1>0, <1>4, AnswersAreCached
<1>7. s.request.scanner \in DOMAIN Scanners /\ s.request.safe \in BOOLEAN /\ s.request.file \in Files
  BY <1>4, RequestOutcome
<1> DEFINE t == WithIncludes(s, includes)
           shown == {f \in ToSet(includes) : Seen(s.request, f)}
<1>8. /\ t \in Scans
      /\ t.pc = "pop" /\ t.request = s.request /\ t.found = s.found \cup shown
      /\ ToSet(t.stack) = ToSet(s.stack) \cup (t.found \ s.found)
  BY <1>1, <1>5, WithIncludesOutcome
<1>9. worker' = [worker EXCEPT ![w] = t]
  BY <1>3
<1> HIDE DEF t
<1>10. SeesOnly(t, d)
  <2>1. "pop" \notin InProgress
    BY DEF InProgress
  <2> QED
    BY <1>2, <1>8, <2>1 DEF SeesOnly
<1>11. StampTrue(t, d, tick, disturbed) /\ HoldsTrue(t, d, Records(table), disturbed, Doubt)
  BY <1>8 DEF StampTrue, HoldsTrue, InProgress
<1>12. FindsTrue(t, d, disturbed, Doubt)
  <2> SUFFICES ASSUME ~Doubt, ~disturbed PROVE FindsTrue(t, d, disturbed, Doubt)
    BY DEF FindsTrue
  <2>1. EntryTrue(e, d, tick, Doubt) /\ s.stamp = d[s.file].mtime
    BY <1>1, <1>2 DEF TruthInv, EntriesTrue, StampTrue
  <2>2. Shown(s.request.safe, ToSet(includes)) = Led(s.file, s.request, d)
    BY <1>4, <1>6, <1>7, <2>1 DEF EntryTrue, Led, KeyIn
  <2>3. shown = Led(s.file, s.request, d)
    BY <2>2 DEF Shown, Seen
  <2> HIDE DEF shown
  <2>4. t.pc \notin InProgress
    BY <1>8 DEF InProgress
  <2>5. s.file \in s.found \cup {s.request.file} /\ Seen(s.request, s.file)
    BY <1>1, <1>2 DEF FindsTrue, SeesOnly
  <2>6. ASSUME NEW S \in SUBSET Files,
               Led(s.request.file, s.request, d) \subseteq S,
               \A f \in S : Seen(s.request, f) => Led(f, s.request, d) \subseteq S
        PROVE  t.found \subseteq S
    <3>1. s.found \subseteq S
      BY <1>2, <2>6 DEF FindsTrue
    <3>2. Led(s.file, s.request, d) \subseteq S
      BY <2>5, <2>6, <3>1
    <3> QED
      BY <1>8, <2>3, <3>1, <3>2
  <2>7. ToSet(t.stack) \subseteq t.found \cup {t.request.file}
    BY <1>2, <1>8 DEF FindsTrue
  <2>8. ASSUME NEW f \in t.found \cup {t.request.file} PROVE f \in ToSet(t.stack) \/ Led(f, t.request, d) \subseteq t.found
    <3>1. CASE f \in s.found \cup {s.request.file}
      <4>1. f \in ToSet(s.stack) \/ f = s.file \/ Led(f, s.request, d) \subseteq s.found
        BY <1>2, <3>1 DEF FindsTrue
      <4> QED
        BY <1>8, <2>3, <4>1
    <3>2. CASE f \notin s.found \cup {s.request.file}
      BY <1>8, <2>8, <3>2
    <3> QED
      BY <3>1, <3>2
  <2> QED
    BY <1>8, <2>4, <2>6, <2>7, <2>8 DEF FindsTrue
<1> QED
  BY <1>9, <1>10, <1>11, <1>12 DEF ScanTrue

LEMMA SkipFileTruth ==
    ASSUME TruthInv, NEW w \in Workers, SkipFile(w), Doubt' \in BOOLEAN
    PROVE  \E t : worker' = [worker EXCEPT ![w] = t]
                  /\ ScanTrue(t, disk, tick, Records(table), disturbed, Doubt')
<1> DEFINE s == worker[w]
           d == disk
           t == [s EXCEPT !.pc = "pop"]
<1>0. ScanTrue(s, disk, tick, Records(table), disturbed, Doubt) /\ ScanOK(s)
  BY DEF TruthInv, ScansTrue, ScannerInv, WorkersOK
<1>1. s \in Scans /\ s.pc = "read" /\ s.pc \in InProgress /\ s.file \in Files /\ s.request \in Requests
  BY <1>0 DEF ScanOK, SkipFile, InProgress
<1>2. SeesOnly(s, d) /\ FindsTrue(s, d, disturbed, Doubt)
  BY <1>0, <1>1 DEF ScanTrue, InProgress
<1>3. worker' = [worker EXCEPT ![w] = t]
  BY DEF SkipFile
<1>4. /\ t.pc = "pop" /\ t.request = s.request /\ t.found = s.found /\ t.stack = s.stack
      /\ t.pc \notin InProgress
  BY <1>1 DEF Scans, InProgress
<1> HIDE DEF t
<1>5. SeesOnly(t, d)
  BY <1>2, <1>4 DEF SeesOnly
<1>6. StampTrue(t, d, tick, disturbed) /\ HoldsTrue(t, d, Records(table), disturbed, Doubt')
  BY <1>4 DEF StampTrue, HoldsTrue
<1>7. FindsTrue(t, d, disturbed, Doubt')
  <2> SUFFICES ASSUME ~Doubt', ~disturbed PROVE FindsTrue(t, d, disturbed, Doubt')
    BY DEF FindsTrue
  <2>1. Texts[d[s.file].content] = <<>> /\ ~Doubt
    BY DEF SkipFile, Doubt
  <2>2. Led(s.file, s.request, d) = {}
    <3>1. d[s.file].content \in DOMAIN Texts /\ s.request.scanner \in DOMAIN Scanners
      BY <1>1, RequestOutcome DEF TruthInv, ScannerInv, DiskOK
    <3>2. Leads(s.file, d[s.file].content, s.request.scanner) = {}
      BY <2>1, <3>1, NothingInEmptyText
    <3> QED
      BY <3>2 DEF Led, Shown
  <2> QED
    BY <1>2, <1>4, <2>1, <2>2 DEF FindsTrue
<1> QED
  BY <1>3, <1>5, <1>6, <1>7 DEF ScanTrue

LEMMA ReadFileTruth ==
    ASSUME TruthInv, NEW w \in Workers, ReadFile(w)
    PROVE  \E t : worker' = [worker EXCEPT ![w] = t]
                  /\ ScanTrue(t, disk, tick, Records(table), disturbed, Doubt)
<1> DEFINE s == worker[w]
           d == disk
           stat == [f \in DOMAIN disk |-> StatCacheStat(f)]
           includes == ScanFile(s.file, s.request.scanner, stat)
           t == [s EXCEPT !.pc = "insert", !.includes = includes]
<1>0. ScanTrue(s, disk, tick, Records(table), disturbed, Doubt) /\ ScanOK(s) /\ WorkersOK /\ DiskOK
  BY DEF TruthInv, ScansTrue, ScannerInv, WorkersOK
<1>1. s \in Scans /\ s.pc = "read" /\ s.pc \in InProgress /\ s.file \in Files /\ s.request \in Requests
  BY <1>0 DEF ScanOK, ReadFile, InProgress
<1>2. worker' = [worker EXCEPT ![w] = t]
  BY <1>0 DEF ReadFile, WorkersOK
<1>3. s.request.scanner \in DOMAIN Scanners /\ s.request.safe \in BOOLEAN
  BY <1>1, RequestOutcome
<1>4. stat \in [Files -> Nat] /\ \A g \in Files : stat[g] = StatCacheStat(g)
  BY <1>0, StatOutcome DEF DiskOK, TruthInv
<1>5. ASSUME NEW g \in Files, g \notin Generated \/ ~s.request.safe PROVE stat[g] # 0
  <2>1. Seen(s.request, g)
    BY <1>3, <1>5 DEF Seen
  <2> QED
    BY <1>1, <1>4, <2>1, FileThere DEF InProgress
<1>6. d[s.file].content \in ToSet(Versions[s.file])
  BY <1>1 DEF TruthInv, DiskTrue
<1>7. ASSUME ~Doubt PROVE Shown(s.request.safe, ToSet(includes)) = Led(s.file, s.request, d)
  <2>1. NothingShadowed
    BY <1>7 DEF Doubt
  <2> HIDE DEF stat
  <2> QED
    BY <1>0, <1>1, <1>3, <1>4, <1>5, <1>6, <2>1, ScanLeads DEF Led
<1> HIDE DEF includes
<1>8. /\ t.pc = "insert" /\ t.request = s.request /\ t.found = s.found /\ t.stack = s.stack
      /\ t.file = s.file /\ t.stamp = s.stamp /\ t.includes = includes
  BY <1>1 DEF Scans
<1> HIDE DEF t
<1>9. HoldsTrue(t, d, Records(table), disturbed, Doubt)
  BY <1>7, <1>8 DEF HoldsTrue
<1>10. ScanTrue(t, d, tick, Records(table), disturbed, Doubt)
  <2>1. disturbed \in BOOLEAN /\ Doubt \in BOOLEAN /\ t.pc \in InProgress
    BY <1>8 DEF TruthInv, Flags, Doubt, InProgress
  <2> QED
    BY <1>0, <1>1, <1>8, <1>9, <2>1, SameScan
<1> QED
  BY <1>2, <1>10

\* The steps that only go on, and the failed read.
LEMMA GoOnTruth ==
    ASSUME TruthInv, NEW w \in Workers, StatCacheInsert(w) \/ LookupMiss(w) \/ ReadFails(w), Doubt' \in BOOLEAN
    PROVE  \E t : worker' = [worker EXCEPT ![w] = t]
                  /\ ScanTrue(t, disk, tick, Records(table), disturbed, Doubt')
<1> DEFINE s == worker[w]
           d == disk
<1>0. ScanTrue(s, disk, tick, Records(table), disturbed, Doubt) /\ ScanOK(s) /\ WorkersOK
  BY DEF TruthInv, ScansTrue, ScannerInv, WorkersOK
<1>1. s \in Scans /\ s.pc \in InProgress
  BY <1>0 DEF ScanOK, StatCacheInsert, LookupMiss, ReadFails, InProgress
<1>2. s.stamp # 0
  BY <1>0, <1>1 DEF ScanTrue, StampTrue, InProgress
<1>3. \E t : /\ worker' = [worker EXCEPT ![w] = t]
             /\ t.request = s.request /\ t.found = s.found /\ t.stack = s.stack /\ t.file = s.file
             /\ t.stamp = s.stamp
             /\ t.pc \in {"lookup", "read"} \/ (t.pc = "insert" /\ Doubt')
             /\ Doubt => Doubt'
  <2>1. CASE StatCacheInsert(w)
    <3> DEFINE t == [s EXCEPT !.pc = "lookup"]
    <3>1. worker' = [worker EXCEPT ![w] = t] /\ Doubt' = Doubt
      BY <1>2, <2>1 DEF StatCacheInsert, history, Doubt
    <3>2. /\ t.request = s.request /\ t.found = s.found /\ t.stack = s.stack /\ t.file = s.file
          /\ t.stamp = s.stamp /\ t.pc = "lookup"
      BY <1>1 DEF Scans
    <3> QED
      BY <3>1, <3>2
  <2>2. CASE LookupMiss(w)
    <3> DEFINE t == [s EXCEPT !.pc = "read"]
    <3>1. worker' = [worker EXCEPT ![w] = t] /\ Doubt' = Doubt
      BY <2>2 DEF LookupMiss, history, Doubt
    <3>2. /\ t.request = s.request /\ t.found = s.found /\ t.stack = s.stack /\ t.file = s.file
          /\ t.stamp = s.stamp /\ t.pc = "read"
      BY <1>1 DEF Scans
    <3> QED
      BY <3>1, <3>2
  <2>3. CASE ReadFails(w)
    <3> DEFINE t == [s EXCEPT !.pc = "insert", !.includes = <<>>]
    <3>1. worker' = [worker EXCEPT ![w] = t] /\ Doubt' = TRUE
      BY <1>0, <2>3 DEF ReadFails, WorkersOK, Doubt
    <3>2. /\ t.request = s.request /\ t.found = s.found /\ t.stack = s.stack /\ t.file = s.file
          /\ t.stamp = s.stamp /\ t.pc = "insert"
      BY <1>1 DEF Scans
    <3> QED
      BY <3>1, <3>2
  <2> QED
    BY <2>1, <2>2, <2>3
<1>4. PICK t : /\ worker' = [worker EXCEPT ![w] = t]
               /\ t.request = s.request /\ t.found = s.found /\ t.stack = s.stack /\ t.file = s.file
               /\ t.stamp = s.stamp
               /\ t.pc \in {"lookup", "read"} \/ (t.pc = "insert" /\ Doubt')
               /\ Doubt => Doubt'
  BY <1>3
<1>5. HoldsTrue(t, d, Records(table), disturbed, Doubt') /\ t.pc \in InProgress
  BY <1>4 DEF HoldsTrue, InProgress
<1>6. ScanTrue(t, d, tick, Records(table), disturbed, Doubt')
  <2>1. disturbed \in BOOLEAN /\ Doubt \in BOOLEAN
    BY DEF TruthInv, Flags, Doubt
  <2> QED
    BY <1>0, <1>1, <1>4, <1>5, <2>1, SameScan
<1> QED
  BY <1>4, <1>6

LEMMA InsertTruth ==
    ASSUME TruthInv, NEW w \in Workers, Insert(w)
    PROVE  /\ \E t : worker' = [worker EXCEPT ![w] = t]
                     /\ ScanTrue(t, disk, tick, Records(table'), disturbed, Doubt)
           /\ \A e \in Cached' : EntryTrue(e, disk, tick, Doubt)
           /\ \A v \in Workers :
                worker[v].pc = "again" /\ ~disturbed
                /\ (\E x \in Records(table) : x.key = KeyIn(worker[v]) /\ x.stamp = worker[v].stamp)
                => \E x \in Records(table') : x.key = KeyIn(worker[v]) /\ x.stamp = worker[v].stamp
<1> DEFINE s == worker[w]
           d == disk
           t == [s EXCEPT !.pc = "again", !.includes = <<>>]
           key == KeyIn(s)
           record == [key |-> key, stamp |-> s.stamp, includes |-> s.includes]
<1>0. ScanTrue(s, disk, tick, Records(table), disturbed, Doubt) /\ ScanOK(s) /\ WorkersOK /\ CacheOK
      /\ \A e \in Cached : EntryTrue(e, d, tick, Doubt)
  BY DEF TruthInv, ScansTrue, ScannerInv, WorkersOK, EntriesTrue
<1>1. s \in Scans /\ s.pc = "insert" /\ s.pc \in InProgress /\ s.stamp \in Nat /\ s.includes \in Seq(Files)
  BY <1>0 DEF ScanOK, Insert, InProgress, Scans
<1>2. KeyOf(w) = key /\ key \in Keys /\ s.file \in Files
  BY <1>1, KeyOutcome DEF TruthInv, KeyIn
<1>3. HoldsTrue(s, d, Records(table), disturbed, Doubt) /\ StampTrue(s, d, tick, disturbed)
  BY <1>0, <1>1 DEF ScanTrue, InProgress
<1>4. \/ \E r \in Records(table) : r.key = key /\ r.stamp = s.stamp /\ table' = table
      \/ Records(table') = {r \in Records(table) : r.key # key} \cup {record}
  <2>1. ScanCacheInsert(key, s.stamp, s.includes)
    BY <1>2 DEF Insert
  <2> QED
    BY <1>0, <1>1, <1>2, <2>1, InsertOutcome DEF CacheOK
<1>5. worker' = [worker EXCEPT ![w] = t] /\ frozen' = frozen
  BY <1>0 DEF Insert, WorkersOK, ScanCacheInsert
<1> DEFINE none == <<>>
<1>6. /\ t.pc = "again" /\ t.request = s.request /\ t.found = s.found /\ t.stack = s.stack
      /\ t.file = s.file /\ t.stamp = s.stamp
  <2>1. t = [s EXCEPT !.pc = "again", !.includes = none]
    OBVIOUS
  <2> HIDE DEF none, t
  <2> QED
    BY <1>1, <2>1 DEF Scans
<1> HIDE DEF t
<1>7. record.key = key /\ record.stamp = s.stamp
  OBVIOUS
<1>8. HoldsTrue(t, d, Records(table'), disturbed, Doubt)
  <2>1. KeyIn(t) = key
    BY <1>6 DEF KeyIn
  <2>2. \E x \in Records(table') : x.key = key /\ x.stamp = s.stamp
    BY <1>4, <1>7
  <2> QED
    BY <1>6, <2>1, <2>2 DEF HoldsTrue
<1>9. ScanTrue(t, d, tick, Records(table'), disturbed, Doubt)
  <2>1. disturbed \in BOOLEAN /\ Doubt \in BOOLEAN /\ t.pc \in InProgress
    BY <1>6 DEF TruthInv, Flags, Doubt, InProgress
  <2> QED
    BY <1>0, <1>1, <1>6, <1>8, <2>1, SameScan
<1>10. EntryTrue(record, d, tick, Doubt)
  <2>1. s.stamp <= tick
    BY <1>1, <1>3 DEF StampTrue
  <2>2. ASSUME ~Doubt, NEW f \in Files, NEW sc \in DOMAIN Scanners, NEW safe \in BOOLEAN,
               key = <<f, sc, safe>>, s.stamp = d[f].mtime
        PROVE  Shown(safe, ToSet(s.includes)) = Shown(safe, Leads(f, d[f].content, sc))
    <3>1. s.file = f /\ s.request.scanner = sc /\ s.request.safe = safe
      BY <2>2 DEF KeyIn
    <3> QED
      BY <1>1, <1>3, <2>2, <3>1 DEF HoldsTrue, Led
  <2> HIDE DEF key
  <2> QED
    BY <2>1, <2>2 DEF EntryTrue
<1>11. \A e \in Cached' : e \in Cached \/ e = record
  <2> HIDE DEF record
  <2> QED
    BY <1>4, <1>5 DEF Cached
<1>12. \A e \in Cached' : EntryTrue(e, disk, tick, Doubt)
  <2> HIDE DEF record
  <2> QED
    BY <1>0, <1>10, <1>11
<1>13. ASSUME NEW v \in Workers, worker[v].pc = "again", ~disturbed,
              NEW x \in Records(table), x.key = KeyIn(worker[v]), x.stamp = worker[v].stamp
       PROVE  \E y \in Records(table') : y.key = KeyIn(worker[v]) /\ y.stamp = worker[v].stamp
  <2>1. CASE x.key # key \/ table' = table
    BY <1>4, <1>13, <2>1
  <2>2. CASE x.key = key
    <3>1. StampTrue(worker[v], d, tick, disturbed)
      BY <1>13 DEF TruthInv, ScansTrue, ScanTrue
    <3>2. worker[v].file = s.file
      BY <1>13, <2>2 DEF KeyIn
    <3>3. worker[v].stamp = s.stamp
      BY <1>1, <1>3, <1>13, <3>1, <3>2 DEF StampTrue, InProgress
    <3> QED
      BY <1>4, <1>7, <1>13, <2>2, <3>3
  <2> QED
    BY <2>1, <2>2
<1> QED
  BY <1>5, <1>9, <1>12, <1>13

LEMMA ScanStepTruth ==
    ASSUME TruthInv, NEW w \in Workers, ScanStep(w)
    PROVE  TruthInv'
<1>1. ScannerInv'
  BY ScanStepScannerInv DEF TruthInv
<1>2. UNCHANGED <<disk, tick, disturbed>> /\ Flags' /\ (Doubt => Doubt')
  BY DEF ScanStep, Pop, StatCacheInsert, LookupHit, LookupMiss, SkipFile, ReadFile, ReadFails, Insert, Croak,
         EndScan, files, history, Doubt, TruthInv, Flags
<1>3. DiskTrue'
  BY <1>2 DEF TruthInv, DiskTrue
<1>4. worker[w] \in Scans /\ worker[w].pc # "idle" /\ ScanTrue(worker[w], disk, tick, Records(table), disturbed, Doubt)
      /\ ScanOK(worker[w])
  BY DEF TruthInv, ScansTrue, ScannerInv, WorkersOK, ScanStep, Pop, StatCacheInsert, LookupHit, LookupMiss, SkipFile,
         ReadFile, ReadFails, Insert, Croak, EndScan
<1>5. StatsTrue'
  <2>1. CASE UNCHANGED statCache
    BY <1>2, <2>1 DEF TruthInv, StatsTrue
  <2>2. CASE StatCacheInsert(w)
    <3>1. worker[w].pc \in InProgress /\ worker[w].file \in Files
      BY <1>4, <2>2 DEF StatCacheInsert, InProgress, ScanOK
    <3>2. worker[w].stamp # 0 /\ worker[w].stamp <= tick
          /\ (~disturbed => worker[w].stamp = disk[worker[w].file].mtime)
      BY <1>4, <3>1 DEF ScanTrue, StampTrue
    <3>3. \A f \in Files : statCache'[f] = IF f = worker[w].file /\ statCache[f] = Unknown
                                           THEN worker[w].stamp ELSE statCache[f]
      BY <2>2, <3>1 DEF StatCacheInsert, TruthInv, ScannerInv, StatsOK
    <3> QED
      BY <1>2, <3>2, <3>3 DEF TruthInv, StatsTrue
  <2>3. CASE ReadFile(w)
    <3>1. \A f \in Files : statCache'[f] \in {statCache[f], StatCacheStat(f)}
      BY <2>3 DEF ReadFile, TruthInv, ScannerInv, StatsOK
    <3>2. ASSUME NEW f \in Files
          PROVE  /\ StatCacheStat(f) <= tick /\ (StatCacheStat(f) = 0 => disk[f].mtime = 0)
                 /\ (~disturbed => StatCacheStat(f) = disk[f].mtime)
      <4>1. /\ statCache[f] # Unknown => StatCacheStat(f) = statCache[f]
            /\ statCache[f] = Unknown => StatCacheStat(f) = disk[f].mtime
        BY StatOutcome DEF TruthInv
      <4> QED
        BY <4>1 DEF TruthInv, StatsTrue, DiskTrue
    <3> QED
      BY <1>2, <3>1, <3>2 DEF TruthInv, StatsTrue
  <2>4. UNCHANGED statCache \/ StatCacheInsert(w) \/ ReadFile(w)
    BY DEF ScanStep, Pop, LookupHit, LookupMiss, SkipFile, ReadFails, Insert, Croak, EndScan, builds
  <2> QED
    BY <2>1, <2>2, <2>3, <2>4
<1>6. Insert(w) \/ UNCHANGED <<frozen, table>>
  BY DEF ScanStep, Pop, StatCacheInsert, LookupHit, Serve, ScanCacheLookup, LookupMiss, SkipFile, ReadFile,
         ReadFails, Croak, EndScan, cacheVars
<1>7. EntriesTrue'
  <2>1. CASE Insert(w)
    <3>1. Doubt' = Doubt
      BY <2>1 DEF Insert, history, Doubt
    <3>2. \A e \in Cached' : EntryTrue(e, disk, tick, Doubt)
      BY <2>1, InsertTruth
    <3> QED
      BY <1>2, <3>1, <3>2 DEF EntriesTrue
  <2>2. CASE UNCHANGED <<frozen, table>>
    <3>1. Cached' = Cached
      BY <2>2 DEF Cached
    <3>2. \A e \in Cached : EntryTrue(e, disk, tick, Doubt')
      BY <1>2 DEF TruthInv, EntriesTrue, EntryTrue
    <3> QED
      BY <1>2, <3>1, <3>2 DEF EntriesTrue
  <2> QED
    BY <1>6, <2>1, <2>2
<1>8. CASE Croak(w)
  <2>1. worker' = [v \in Workers |-> Idle] /\ phase' = "croaked" /\ Idle.pc = "idle"
    BY <1>8 DEF Croak, Idle
  <2>2. ScansTrue'
    BY <2>1 DEF ScansTrue, ScanTrue
  <2>3. ASSUME ~disturbed PROVE FALSE
    <3>1. worker[w].pc = "again" /\ Answers(KeyOf(w), worker[w].stamp) = {}
      BY <1>8 DEF Croak
    <3>2. PICK r \in Records(table) : r.key = KeyIn(worker[w]) /\ r.stamp = worker[w].stamp
      BY <1>4, <2>3, <3>1 DEF ScanTrue, HoldsTrue
    <3>3. KeyOf(w) = KeyIn(worker[w]) /\ KeyOf(w) \in Keys
      BY <3>1, KeyOutcome DEF TruthInv, KeyIn, InProgress
    <3>4. r \in LookupDynamic(KeyOf(w))
      BY <3>2, <3>3, LookedUp DEF LookupDynamic, TruthInv, ScannerInv, CacheOK
    <3> QED
      BY <3>1, <3>2, <3>4 DEF Answers
  <2>4. PhaseTrue'
    BY <1>2, <2>1, <2>3 DEF PhaseTrue
  <2> QED
    BY <1>1, <1>2, <1>3, <1>5, <1>7, <2>2, <2>4 DEF TruthInv
<1>9. CASE ~Croak(w)
  <2>1. \E t : worker' = [worker EXCEPT ![w] = t]
               /\ ScanTrue(t, disk, tick, Records(table'), disturbed, Doubt')
    <3>1. CASE Insert(w)
      <4>1. Doubt' = Doubt
        BY <3>1 DEF Insert, history, Doubt
      <4> QED
        BY <3>1, <4>1, InsertTruth
    <3>2. CASE ~Insert(w)
      <4>1. table' = table
        BY <1>6, <3>2
      <4>2. CASE Pop(w)
        BY <4>1, <4>2, PopTruth DEF Pop, history, Doubt
      <4>3. CASE LookupHit(w)
        BY <4>1, <4>3, LookupHitTruth DEF LookupHit, history, Doubt
      <4>4. CASE SkipFile(w)
        BY <1>2, <4>1, <4>4, SkipFileTruth DEF Flags, Doubt
      <4>5. CASE ReadFile(w)
        BY <4>1, <4>5, ReadFileTruth DEF ReadFile, history, Doubt
      <4>6. CASE StatCacheInsert(w) \/ LookupMiss(w) \/ ReadFails(w)
        BY <1>2, <4>1, <4>6, GoOnTruth DEF Flags, Doubt
      <4>7. CASE EndScan(w)
        <5>1. worker' = [worker EXCEPT ![w] = Idle]
          BY <4>7 DEF EndScan
        <5>2. Idle.pc = "idle"
          BY DEF Idle
        <5>3. ScanTrue(Idle, disk, tick, Records(table'), disturbed, Doubt')
          BY <5>2 DEF ScanTrue
        <5> QED
          BY <5>1, <5>3
      <4> QED
        BY <1>9, <3>2, <4>2, <4>3, <4>4, <4>5, <4>6, <4>7 DEF ScanStep
    <3> QED
      BY <3>1, <3>2
  <2>2. PICK t : worker' = [worker EXCEPT ![w] = t]
                 /\ ScanTrue(t, disk, tick, Records(table'), disturbed, Doubt')
    BY <2>1
  <2>3. \A v \in Workers : worker'[v] = IF v = w THEN t ELSE worker[v]
    BY <2>2 DEF TruthInv, ScannerInv, WorkersOK
  <2>4. ASSUME NEW v \in Workers, v # w
        PROVE  ScanTrue(worker[v], disk, tick, Records(table'), disturbed, Doubt')
    <3>1. worker[v].pc = "again" /\ ~disturbed
          /\ (\E x \in Records(table) : x.key = KeyIn(worker[v]) /\ x.stamp = worker[v].stamp)
          => \E x \in Records(table') : x.key = KeyIn(worker[v]) /\ x.stamp = worker[v].stamp
      BY <1>6, InsertTruth
    <3>2. ScanOK(worker[v]) /\ ScanTrue(worker[v], disk, tick, Records(table), disturbed, Doubt)
      BY DEF TruthInv, ScansTrue, ScannerInv, WorkersOK
    <3>3. disk \in Disks /\ tick \in Nat /\ Later(disk, tick, disk) /\ Undisturbed(disk, disk)
      BY DEF TruthInv, ScannerInv, DiskOK, Disks, Later, Undisturbed
    <3>4. disturbed \in BOOLEAN /\ Doubt \in BOOLEAN /\ Doubt' \in BOOLEAN
      BY <1>2 DEF TruthInv, Flags, Doubt
    <3>5. tick <= tick
      BY <3>3
    <3> QED
      BY <1>2, <3>1, <3>2, <3>3, <3>4, <3>5, ScanStays
  <2>5. ScansTrue'
    BY <1>2, <2>2, <2>3, <2>4 DEF ScansTrue
  <2>6. PhaseTrue'
    <3>1. phase' = phase
      BY <1>9 DEF ScanStep, Pop, StatCacheInsert, LookupHit, LookupMiss, SkipFile, ReadFile, ReadFails, Insert,
                  EndScan, builds
    <3> QED
      BY <1>2, <1>4, <3>1 DEF TruthInv, PhaseTrue
  <2> QED
    BY <1>1, <1>2, <1>3, <1>5, <1>7, <2>5, <2>6 DEF TruthInv
<1> QED
  BY <1>8, <1>9

LEMMA InitTruth == Init => TruthInv
<1> SUFFICES ASSUME Init PROVE TruthInv
  OBVIOUS
<1>1. ScannerInv
  BY InitScannerInv
<1>2. \A f \in Files : Head(Versions[f]) \in ToSet(Versions[f])
  <2>1. \A f \in Files : Versions[f] \in Seq(DOMAIN Texts) /\ Versions[f] # <<>>
    BY ScanAssumption
  <2>2. \A f \in Files : Len(Versions[f]) \in Nat \ {0} /\ DOMAIN Versions[f] = 1 .. Len(Versions[f])
    BY <2>1, EmptySeq
  <2>3. \A f \in Files : Head(Versions[f]) = Versions[f][1] /\ 1 \in DOMAIN Versions[f]
    BY <2>1, <2>2
  <2> QED
    BY <2>3 DEF ToSet
<1>3. DiskTrue
  BY <1>2 DEF Init, DiskTrue, Files
<1>4. StatsTrue /\ Flags /\ PhaseTrue
  <2>1. tick = 1 /\ \A f \in Files : statCache[f] = Unknown
    BY DEF Init, Files
  <2>2. Unknown <= 1 /\ Unknown # 0
    BY DEF Unknown
  <2>3. StatsTrue
    <3>1. \A f \in Files : statCache[f] <= tick /\ statCache[f] # 0 /\ statCache[f] = Unknown
      BY <2>1, <2>2
    <3> QED
      BY <3>1 DEF StatsTrue
  <2>4. Flags /\ PhaseTrue
    BY DEF Init, Flags, PhaseTrue
  <2> QED
    BY <2>3, <2>4
<1>5. Cached = {}
  <2>1. ToSet(<<>>) = {} /\ DOMAIN <<>> = {}
    BY DEF ToSet
  <2> QED
    BY <2>1 DEF Init, Cached, Records
<1>6. EntriesTrue
  BY <1>5 DEF EntriesTrue
<1>7. ScansTrue
  BY DEF Init, ScansTrue, ScanTrue, Idle
<1> QED
  BY <1>1, <1>3, <1>4, <1>6, <1>7 DEF TruthInv

\* What every scan and every entry is worth after files have changed.
LEMMA ScansStay ==
    ASSUME TruthInv, ScannerInv', Flags', tick <= tick', Later(disk, tick, disk'), Doubt => Doubt',
           disturbed => disturbed', ~disturbed' => Undisturbed(disk, disk'), UNCHANGED <<frozen, table>>
    PROVE  /\ EntriesTrue'
           /\ \A w \in Workers : ScanTrue(worker[w], disk', tick', Records(table'), disturbed', Doubt')
<1>1. /\ disk \in Disks /\ disk' \in Disks /\ tick \in Nat /\ tick' \in Nat
      /\ disturbed \in BOOLEAN /\ Doubt \in BOOLEAN /\ disturbed' \in BOOLEAN /\ Doubt' \in BOOLEAN
  BY DEF TruthInv, ScannerInv, DiskOK, Disks, Flags, Doubt
<1>2. Cached \in SUBSET Fresh /\ Cached' = Cached
  BY CachedOutcome DEF TruthInv, ScannerInv, Cached
<1>3. \A e \in Cached : EntryTrue(e, disk', tick', Doubt')
  BY <1>1, <1>2, EntryStays DEF TruthInv, EntriesTrue
<1>4. ASSUME NEW w \in Workers PROVE ScanTrue(worker[w], disk', tick', Records(table'), disturbed', Doubt')
  <2>1. ScanOK(worker[w]) /\ ScanTrue(worker[w], disk, tick, Records(table), disturbed, Doubt)
    BY DEF TruthInv, ScansTrue, ScannerInv, WorkersOK
  <2>2. Records(table') = Records(table)
    OBVIOUS
  <2> QED
    BY <1>1, <2>1, <2>2, ScanStays
<1> QED
  BY <1>2, <1>3, <1>4 DEF EntriesTrue

\* What is known stays true.
LEMMA NextTruth == TruthInv /\ [Next]_vars => TruthInv'
<1> SUFFICES ASSUME TruthInv, [Next]_vars PROVE TruthInv'
  OBVIOUS
<1>0. ScannerInv'
  BY NextScannerInv DEF TruthInv
<1>1. ASSUME NEW w \in Workers, ScanStep(w) PROVE TruthInv'
  BY <1>1, ScanStepTruth
<1>2. ASSUME NEW w \in Workers, NEW r \in Requests, BeginScan(w, r) PROVE TruthInv'
  <2> DEFINE t == [Idle EXCEPT !.pc = "pop", !.request = r, !.stack = <<r.file>>]
  <2>1. worker' = [worker EXCEPT ![w] = t] /\ phase = "building"
    BY <1>2 DEF BeginScan
  <2>2. /\ t.pc = "pop" /\ t.request = r /\ t.stack = <<r.file>> /\ t.found = {} /\ t.pc \notin InProgress
    BY DEF Idle, InProgress
  <2> HIDE DEF t
  <2>3. UNCHANGED <<frozen, table, disk, tick, statCache, disturbed, Doubt, phase>>
    BY <1>2 DEF BeginScan, cacheVars, files, history, Doubt
  <2>4. ToSet(t.stack) = {r.file}
    BY <2>2 DEF ToSet
  <2>5. SeesOnly(t, disk)
    <3>1. Seen(r, r.file)
      BY RequestOutcome DEF Seen
    <3>2. ASSUME ~r.safe, NEW g \in Generated PROVE disk[g].mtime # 0
      <4>1. g \in Files /\ Exists(g)
        BY <1>2, <3>2, ScanAssumption DEF BeginScan
      <4> QED
        BY <4>1, StatOutcome DEF Exists, TruthInv
    <3> QED
      BY <2>2, <2>4, <3>1, <3>2 DEF SeesOnly
  <2>6. StampTrue(t, disk, tick, disturbed) /\ HoldsTrue(t, disk, Records(table), disturbed, Doubt)
    BY <2>2 DEF StampTrue, HoldsTrue
  <2>7. FindsTrue(t, disk, disturbed, Doubt)
    BY <2>2, <2>4 DEF FindsTrue
  <2>8. ScanTrue(t, disk, tick, Records(table), disturbed, Doubt)
    BY <2>5, <2>6, <2>7 DEF ScanTrue
  <2>9. \A v \in Workers : worker'[v] = IF v = w THEN t ELSE worker[v]
    BY <2>1 DEF TruthInv, ScannerInv, WorkersOK
  <2>10. ScansTrue'
    BY <2>3, <2>8, <2>9 DEF TruthInv, ScansTrue
  <2>11. EntriesTrue'
    BY <2>3 DEF TruthInv, EntriesTrue, Cached
  <2> QED
    BY <1>0, <2>1, <2>3, <2>10, <2>11 DEF TruthInv, DiskTrue, StatsTrue, PhaseTrue, Flags, Doubt
<1>3. ASSUME NEW f \in Generated, Generate(f) PROVE TruthInv'
  <2>1. f \in Files /\ disk[f].mtime = 0
    <3>1. f \in Files
      BY ScanAssumption
    <3> QED
      BY <1>3, <3>1, StatOutcome DEF Generate, Exists, TruthInv
  <2>2. /\ tick' = tick + 1 /\ UNCHANGED <<frozen, table, disturbed, Doubt, phase, worker>> /\ phase = "building"
        /\ \A g \in Files : disk'[g] = IF g = f THEN [disk[f] EXCEPT !.mtime = tick + 1] ELSE disk[g]
        /\ \A g \in Files : statCache'[g] = IF g = f THEN Unknown ELSE statCache[g]
    BY <1>3, <2>1 DEF Generate, cacheVars, history, Doubt, TruthInv, ScannerInv, DiskOK, StatsOK
  <2>3. /\ tick \in Nat /\ \A g \in Files : disk[g] \in [content : DOMAIN Texts, mtime : Nat]
    BY DEF TruthInv, ScannerInv, DiskOK
  <2>4. disk'[f].content = disk[f].content /\ disk'[f].mtime = tick + 1
    BY <2>1, <2>2, <2>3
  <2>5. Later(disk, tick, disk') /\ Undisturbed(disk, disk') /\ tick <= tick'
    BY <2>1, <2>2, <2>3, <2>4 DEF Later, Undisturbed
  <2>6. DiskTrue'
    <3>1. ASSUME NEW g \in Files
          PROVE  /\ disk'[g].content \in ToSet(Versions[g]) /\ disk'[g].mtime <= tick'
                 /\ g \notin Generated => disk'[g].mtime # 0
      <4>1. disk[g].content \in ToSet(Versions[g]) /\ disk[g].mtime <= tick /\ disk[g].mtime \in Nat
            /\ (g \notin Generated => disk[g].mtime # 0)
        BY <2>3 DEF TruthInv, DiskTrue
      <4> QED
        BY <2>2, <2>3, <2>4, <4>1
    <3> QED
      BY <3>1 DEF DiskTrue
  <2>7. StatsTrue'
    <3>1. ASSUME NEW g \in Files
          PROVE  /\ statCache'[g] <= tick' /\ (statCache'[g] = 0 => disk'[g].mtime = 0)
                 /\ (~disturbed /\ statCache'[g] # Unknown => statCache'[g] = disk'[g].mtime)
      <4>1. CASE g = f
        BY <2>2, <2>3, <4>1 DEF Unknown
      <4>2. CASE g # f
        <5>1. statCache[g] <= tick /\ (statCache[g] = 0 => disk[g].mtime = 0)
              /\ (~disturbed /\ statCache[g] # Unknown => statCache[g] = disk[g].mtime)
          BY DEF TruthInv, StatsTrue
        <5>2. statCache[g] \in Int
          BY DEF TruthInv, ScannerInv, StatsOK, Unknown
        <5> QED
          BY <2>2, <2>3, <4>2, <5>1, <5>2
      <4> QED
        BY <4>1, <4>2
    <3> QED
      BY <2>2, <3>1 DEF StatsTrue
  <2>8. Flags' /\ PhaseTrue'
    BY <2>2 DEF TruthInv, Flags, Doubt, PhaseTrue
  <2>9. EntriesTrue' /\ ScansTrue'
    BY <1>0, <2>2, <2>5, <2>8, ScansStay DEF ScansTrue
  <2> QED
    BY <1>0, <2>6, <2>7, <2>8, <2>9 DEF TruthInv
<1>4. ASSUME NEW saved \in BOOLEAN, SaveScanCache(saved) PROVE TruthInv'
  <2>1. /\ \A w \in Workers : worker[w].pc = "idle"
        /\ UNCHANGED <<disk, tick, disturbed, Doubt, worker>> /\ phase' = "between"
        /\ table' = <<>> /\ frozen' = IF ScanCacheDirty /\ saved THEN ScanCacheSave(day) ELSE frozen
        /\ \A f \in Files : statCache'[f] = Unknown
    BY <1>4 DEF SaveScanCache, ScanCacheLoad, files, history, Doubt, TruthInv, ScannerInv, StatsOK
  <2>2. Records(<<>>) = {}
    <3>1. ToSet(<<>>) = {}
      BY DEF ToSet
    <3> QED
      BY <3>1 DEF Records
  <2>3. ASSUME NEW k \in DOMAIN frozen'
        PROVE  \E e \in Cached : Same(e, frozen'[k])
    <3>1. ASSUME NEW l \in DOMAIN frozen, Same(frozen'[k], frozen[l]) PROVE \E e \in Cached : Same(e, frozen'[k])
      <4> DEFINE e == [key |-> frozen[l].key, stamp |-> frozen[l].stamp, includes |-> frozen[l].includes]
      <4>1. e \in Cached
        BY DEF Cached
      <4>2. Same(e, frozen'[k])
        BY <3>1 DEF Same
      <4> QED
        BY <4>1, <4>2
    <3>2. ASSUME NEW r \in Records(table), Same(frozen'[k], r) PROVE \E e \in Cached : Same(e, frozen'[k])
      BY <3>2 DEF Cached, Same
    <3>3. CASE ScanCacheDirty /\ saved
      <4> DEFINE s == ScanCacheSave(day)
      <4>1. \A e \in ToSet(s) : \/ \E r \in Records(table) : Same(e, r)
                                \/ \E l \in DOMAIN frozen : Same(e, frozen[l])
        BY SavedOutcome DEF TruthInv, ScannerInv, DiskOK
      <4>2. frozen' = s
        BY <2>1, <3>3
      <4> HIDE DEF s
      <4>3. frozen'[k] \in ToSet(s)
        BY <4>2 DEF ToSet
      <4> QED
        BY <3>1, <3>2, <4>1, <4>3
    <3>4. CASE ~(ScanCacheDirty /\ saved)
      BY <2>1, <3>1, <3>4 DEF Same
    <3> QED
      BY <3>3, <3>4
  <2>4. EntriesTrue'
    <3>1. ASSUME NEW x \in Cached' PROVE \E e \in Cached : Same(e, x)
      <4>1. PICK k \in DOMAIN frozen' :
              x = [key |-> frozen'[k].key, stamp |-> frozen'[k].stamp, includes |-> frozen'[k].includes]
        BY <2>1, <2>2 DEF Cached
      <4>2. PICK e \in Cached : Same(e, frozen'[k])
        BY <2>3
      <4> QED
        BY <4>1, <4>2 DEF Same
    <3>2. \A e \in Cached : EntryTrue(e, disk, tick, Doubt)
      BY DEF TruthInv, EntriesTrue
    <3>3. ASSUME NEW x \in Cached' PROVE EntryTrue(x, disk, tick, Doubt)
      <4>1. PICK e \in Cached : Same(e, x)
        BY <3>1
      <4> QED
        BY <3>2, <4>1 DEF EntryTrue, Same
    <3> QED
      BY <2>1, <3>3 DEF EntriesTrue
  <2>5. DiskTrue' /\ Flags'
    BY <2>1 DEF TruthInv, DiskTrue, Flags, Doubt
  <2>6. StatsTrue'
    BY <2>1 DEF StatsTrue, TruthInv, ScannerInv, DiskOK, Unknown
  <2>7. ScansTrue' /\ PhaseTrue'
    BY <2>1 DEF ScansTrue, ScanTrue, PhaseTrue
  <2> QED
    BY <1>0, <2>4, <2>5, <2>6, <2>7 DEF TruthInv
<1>5. ASSUME NEW f \in Files \ Generated, NEW c \in ToSet(Versions[f]), Edit(f, c) \/ EditDuringBuild(f, c) PROVE TruthInv'
  <2>1. /\ tick' = tick + 1 /\ UNCHANGED <<frozen, table, phase, worker, statCache, Doubt>>
        /\ \A g \in Files : disk'[g] = IF g = f THEN [content |-> c, mtime |-> tick + 1] ELSE disk[g]
        /\ phase \in {"between", "building"}
        /\ \/ phase = "between" /\ disturbed' = disturbed
           \/ phase = "building" /\ disturbed'
        /\ Flags'
    <3>1. CASE Edit(f, c)
      <4>1. Edited(f, c) /\ UNCHANGED <<frozen, table, phase, worker, statCache, disturbed, damaged>> /\ phase = "between"
        BY <3>1 DEF Edit, cacheVars, builds, history
      <4>2. Doubt' = Doubt /\ Flags'
        BY <4>1 DEF Doubt, Flags, TruthInv
      <4> QED
        BY <4>1, <4>2 DEF Edited, TruthInv, ScannerInv, DiskOK
    <3>2. CASE EditDuringBuild(f, c)
      <4>1. Edited(f, c) /\ UNCHANGED <<frozen, table, phase, worker, statCache, damaged>> /\ phase = "building"
            /\ disturbed' = TRUE
        BY <3>2 DEF EditDuringBuild, cacheVars, builds
      <4>2. Doubt' = Doubt /\ Flags'
        BY <4>1 DEF Doubt, Flags
      <4> QED
        BY <4>1, <4>2 DEF Edited, TruthInv, ScannerInv, DiskOK
    <3> QED
      BY <1>5, <3>1, <3>2
  <2>2. /\ tick \in Nat /\ \A g \in Files : disk[g].mtime \in Nat
    BY DEF TruthInv, ScannerInv, DiskOK
  <2>3. disk'[f].content = c /\ disk'[f].mtime = tick + 1
    BY <2>1
  <2>4. Later(disk, tick, disk') /\ tick <= tick'
    BY <2>1, <2>2, <2>3 DEF Later
  <2>5. DiskTrue'
    <3>1. ASSUME NEW g \in Files
          PROVE  /\ disk'[g].content \in ToSet(Versions[g]) /\ disk'[g].mtime <= tick'
                 /\ g \notin Generated => disk'[g].mtime # 0
      <4>1. disk[g].content \in ToSet(Versions[g]) /\ disk[g].mtime <= tick /\ disk[g].mtime \in Nat
            /\ (g \notin Generated => disk[g].mtime # 0)
        BY <2>2 DEF TruthInv, DiskTrue
      <4> QED
        BY <2>1, <2>2, <2>3, <4>1
    <3> QED
      BY <3>1 DEF DiskTrue
  <2>6. StatsTrue'
    <3>1. ASSUME NEW g \in Files
          PROVE  /\ statCache[g] <= tick' /\ (statCache[g] = 0 => disk'[g].mtime = 0)
                 /\ (~disturbed' /\ statCache[g] # Unknown => statCache[g] = disk'[g].mtime)
      <4>1. statCache[g] <= tick /\ (statCache[g] = 0 => disk[g].mtime = 0) /\ statCache[g] \in Int
        BY DEF TruthInv, StatsTrue, ScannerInv, StatsOK, Unknown
      <4>2. statCache[g] <= tick'
        BY <2>1, <2>2, <4>1
      <4>3. statCache[g] = 0 => g # f
        BY <4>1 DEF TruthInv, DiskTrue
      <4>4. ~disturbed' => statCache[g] = Unknown
        BY <2>1 DEF TruthInv, PhaseTrue
      <4> QED
        BY <2>1, <4>1, <4>2, <4>3, <4>4
    <3> QED
      BY <2>1, <3>1 DEF StatsTrue
  <2>7. PhaseTrue'
    BY <2>1 DEF TruthInv, PhaseTrue
  <2>8. CASE phase = "building"
    <3>1. EntriesTrue' /\ ScansTrue'
      BY <1>0, <2>1, <2>4, <2>8, ScansStay DEF ScansTrue
    <3> QED
      BY <1>0, <2>1, <2>5, <2>6, <2>7, <3>1 DEF TruthInv
  <2>9. CASE phase = "between"
    <3>1. \A w \in Workers : worker'[w].pc = "idle"
      BY <2>1, <2>9 DEF TruthInv, PhaseTrue
    <3>2. ScansTrue'
      BY <3>1 DEF ScansTrue, ScanTrue
    <3>3. EntriesTrue'
      <4>1. disk \in Disks /\ disk' \in Disks /\ tick' \in Nat /\ Doubt \in BOOLEAN
        BY <1>0 DEF TruthInv, ScannerInv, DiskOK, Disks, Flags, Doubt
      <4>2. Cached \in SUBSET Fresh /\ Cached' = Cached
        BY <2>1, CachedOutcome DEF TruthInv, ScannerInv, Cached
      <4>3. \A e \in Cached : EntryTrue(e, disk', tick', Doubt)
        BY <2>2, <2>4, <4>1, <4>2, EntryStays DEF TruthInv, EntriesTrue
      <4> QED
        BY <2>1, <4>2, <4>3 DEF EntriesTrue
    <3> QED
      BY <1>0, <2>1, <2>5, <2>6, <2>7, <3>2, <3>3 DEF TruthInv
  <2> QED
    BY <2>1, <2>8, <2>9
<1>6. ASSUME NEW days \in Days, NextBuild(days) PROVE TruthInv'
  <2>1. UNCHANGED <<frozen, table, disk, tick, worker, statCache, Doubt>> /\ disturbed' = FALSE
        /\ phase = "between" /\ phase' = "building"
    BY <1>6 DEF NextBuild, cacheVars, files, Doubt
  <2>2. (\A w \in Workers : worker'[w].pc = "idle") /\ (\A f \in Files : statCache'[f] = Unknown)
    BY <2>1 DEF TruthInv, PhaseTrue
  <2>3. ScansTrue' /\ PhaseTrue'
    BY <2>1, <2>2 DEF ScansTrue, ScanTrue, PhaseTrue
  <2>4. EntriesTrue' /\ DiskTrue' /\ Flags'
    BY <2>1 DEF TruthInv, EntriesTrue, Cached, DiskTrue, Flags, Doubt
  <2>5. StatsTrue'
    BY <2>1, <2>2 DEF TruthInv, StatsTrue
  <2> QED
    BY <1>0, <2>3, <2>4, <2>5 DEF TruthInv
<1>7. CASE UNCHANGED vars
  BY <1>0, <1>7 DEF vars, cacheVars, files, builds, history, Doubt, TruthInv, Flags, DiskTrue, StatsTrue, EntriesTrue, Cached,
     ScansTrue, PhaseTrue
<1> QED
  BY <1>1, <1>2, <1>3, <1>4, <1>5, <1>6, <1>7 DEF Next, Files

\* What is known stays true.
LEMMA TruthStays == Spec => []TruthInv
<1> QED
  BY InitTruth, NextTruth, PTL DEF Spec

\* A scan that has ended has found all that can be reached: it is closed, and in
\* every set that is.
LEMMA TruthIsExact == NothingShadowed /\ TruthInv => ScanIsExact
<1> SUFFICES ASSUME NothingShadowed, TruthInv, NEW w \in Workers, worker[w].pc = "pop", worker[w].stack = <<>>, ~damaged, ~disturbed
             PROVE  worker[w].found = Reachable(worker[w].request)
  BY DEF ScanIsExact
<1> DEFINE s == worker[w]
           r == s.request
           stat == [h \in DOMAIN disk |-> GetFileInfo(h)]
           included == [f \in DOMAIN disk |-> IncludedBy(f, r)]
           Closed(S) == included[r.file] \subseteq S /\ \A f \in S : included[f] \subseteq S
<1>0. ~Doubt
  BY DEF Doubt
<1>1. ScanTrue(s, disk, tick, Records(table), disturbed, Doubt) /\ ScanOK(s) /\ DOMAIN disk = Files
  BY DEF TruthInv, ScansTrue, ScannerInv, WorkersOK, DiskOK
<1>2. s \in Scans /\ r \in Requests /\ s.found \subseteq Files
  BY <1>1 DEF ScanOK, Scans
<1>3. r.file \in Files /\ r.scanner \in DOMAIN Scanners /\ r.safe \in BOOLEAN
  BY <1>2, RequestOutcome
<1>4. SeesOnly(s, disk) /\ FindsTrue(s, disk, disturbed, Doubt)
  BY <1>1 DEF ScanTrue
<1>5. \A f \in s.found \cup {r.file} : f \in Files /\ Seen(r, f)
  BY <1>2, <1>3, <1>4 DEF SeesOnly
<1>6. ToSet(s.stack) = {} /\ s.pc \notin InProgress
  BY DEF ToSet, InProgress
<1>7. \A f \in s.found \cup {r.file} : Led(f, r, disk) \subseteq s.found
  BY <1>0, <1>4, <1>6 DEF FindsTrue
<1>8. \A S \in SUBSET Files :
         Led(r.file, r, disk) \subseteq S /\ (\A f \in S : Seen(r, f) => Led(f, r, disk) \subseteq S) => s.found \subseteq S
  BY <1>0, <1>4 DEF FindsTrue
<1>9. ASSUME NEW f \in Files, Seen(r, f) PROVE included[f] = Led(f, r, disk)
  <2>1. Exists(f)
    BY <1>9, FileThere, StatOutcome DEF Exists, TruthInv
  <2>2. stat \in [Files -> Nat] /\ \A g \in Files : stat[g] = disk[g].mtime
    BY <1>1, StatOutcome DEF TruthInv
  <2>3. ASSUME NEW g \in Files, g \notin Generated \/ ~r.safe PROVE stat[g] # 0
    <3>1. Seen(r, g)
      BY <1>3, <2>3 DEF Seen
    <3> QED
      BY <2>2, <3>1, FileThere
  <2>4. disk[f].content \in ToSet(Versions[f]) /\ DiskOK
    BY DEF TruthInv, DiskTrue, ScannerInv
  <2> HIDE DEF stat
  <2>5. Shown(r.safe, ToSet(ScanFile(f, r.scanner, stat))) = Led(f, r, disk)
    <3>1. Shown(r.safe, ToSet(ScanFile(f, r.scanner, stat))) = Shown(r.safe, Leads(f, disk[f].content, r.scanner))
      BY <1>3, <2>2, <2>3, <2>4, ScanLeads
    <3> QED
      BY <3>1 DEF Led
  <2>6. included[f] = {g \in ToSet(ScanFile(f, r.scanner, stat)) : Seen(r, g)}
    BY <1>1, <2>1 DEF IncludedBy, stat
  <2> QED
    BY <2>5, <2>6 DEF Shown, Seen
<1>10. Reachable(r) = {g \in Files : \A S \in SUBSET Files : Closed(S) => g \in S}
  BY <1>1 DEF Reachable
<1> HIDE DEF included
<1>11. Closed(s.found)
  BY <1>5, <1>7, <1>9
<1>12. ASSUME NEW S \in SUBSET Files, Closed(S) PROVE s.found \subseteq S
  <2> DEFINE T == {f \in S : Seen(r, f)}
  <2>1. \A f \in Files : \A g \in Led(f, r, disk) : Seen(r, g)
    BY DEF Led, Shown, Seen
  <2>2. Led(r.file, r, disk) \subseteq T
    BY <1>5, <1>9, <1>12, <2>1
  <2>3. \A f \in T : Seen(r, f) => Led(f, r, disk) \subseteq T
    BY <1>9, <1>12, <2>1
  <2>4. T \in SUBSET Files
    OBVIOUS
  <2>5. s.found \subseteq T
    <3> HIDE DEF T
    <3> QED
      BY <1>8, <2>2, <2>3, <2>4
  <2> QED
    BY <2>5
<1> HIDE DEF Closed
<1> QED
  BY <1>2, <1>10, <1>11, <1>12

LEMMA TruthIsFound == TruthInv => InsertedIsFound
BY DEF TruthInv, PhaseTrue, InsertedIsFound

\* Where no generated file hides one that is there, the caches change nothing: a
\* scan finds what one without caches would.
THEOREM CachesChangeNothing ==
    ASSUME NothingShadowed
    PROVE  Spec => []ScanIsExact
<1>1. TruthInv => ScanIsExact
  BY TruthIsExact
<1> QED
  BY <1>1, TruthStays, PTL

\* What a thread has inserted stays, whatever the others insert.
THEOREM InsertedStaysInTable == Spec => []InsertedIsFound
<1> QED
  BY TruthStays, TruthIsFound, PTL

---------------------------------------------------------------------------
(* Reading a line *)

\* What is left of a line from some place on.
From(line, p) == SubSeq(line, p, Len(line))

LEMMA FromOutcome ==
    ASSUME NEW T, NEW line \in Seq(T), NEW p \in 1 .. Len(line) + 1
    PROVE  /\ From(line, p) \in Seq(T) /\ Len(From(line, p)) = Len(line) + 1 - p
           /\ \A m \in 1 .. Len(line) + 1 - p : From(line, p)[m] = line[p + m - 1]
           /\ From(line, p) = <<>> <=> p = Len(line) + 1
           /\ p <= Len(line) => Head(From(line, p)) = line[p] /\ Tail(From(line, p)) = From(line, p + 1)
<1>1. Len(line) \in Nat
  OBVIOUS
<1>2. /\ From(line, p) \in Seq(T) /\ Len(From(line, p)) = Len(line) + 1 - p
      /\ \A m \in 1 .. Len(line) + 1 - p : From(line, p)[m] = line[p + m - 1]
  BY <1>1 DEF From
<1>3. From(line, p) = <<>> <=> p = Len(line) + 1
  BY <1>1, <1>2, EmptySeq
<1>4. ASSUME p <= Len(line) PROVE Head(From(line, p)) = line[p] /\ Tail(From(line, p)) = From(line, p + 1)
  <2> DEFINE s == From(line, p)
             t == From(line, p + 1)
  <2>1. s \in Seq(T) /\ s # <<>> /\ Len(s) = Len(line) + 1 - p /\ \A m \in 1 .. Len(line) + 1 - p : s[m] = line[p + m - 1]
    BY <1>1, <1>2, <1>3, <1>4
  <2>2. t \in Seq(T) /\ Len(t) = Len(line) - p /\ \A m \in 1 .. Len(line) - p : t[m] = line[p + m]
    BY <1>1, <1>4 DEF From
  <2> HIDE DEF s, t
  <2>3. Head(s) = s[1] /\ Tail(s) \in Seq(T) /\ Len(Tail(s)) = Len(s) - 1 /\ \A m \in 1 .. Len(s) - 1 : Tail(s)[m] = s[m + 1]
    BY <2>1, HeadTailProperties
  <2>4. 1 \in 1 .. Len(line) + 1 - p /\ p + 1 - 1 = p
    BY <1>1, <1>4
  <2>5. Head(s) = line[p]
    BY <2>1, <2>3, <2>4
  <2>6. Len(Tail(s)) = Len(t)
    <3>1. (Len(line) + 1 - p) - 1 = Len(line) - p
      BY <1>1
    <3> QED
      BY <2>1, <2>2, <2>3, <3>1
  <2>7. ASSUME NEW m \in 1 .. Len(t) PROVE Tail(s)[m] = t[m]
    <3>1. m \in 1 .. Len(s) - 1 /\ m + 1 \in 1 .. Len(line) + 1 - p /\ p + (m + 1) - 1 = p + m
      BY <1>1, <1>4, <2>1, <2>2, <2>7
    <3> QED
      BY <2>1, <2>2, <2>3, <2>7, <3>1
  <2>8. Tail(s) = t
    BY <2>2, <2>3, <2>6, <2>7, SeqEqual
  <2> QED
    BY <2>5, <2>8 DEF s, t
<1> QED
  BY <1>2, <1>3, <1>4

LEMMA SkipSpaceOutcome ==
    ASSUME NEW T, NEW line \in Seq(T), NEW p \in 1 .. Len(line) + 1
    PROVE  \E q \in p .. Len(line) + 1 :
              /\ SkipSpace(From(line, p)) = From(line, q)
              /\ \A m \in p .. q - 1 : line[m] = Space
              /\ q <= Len(line) => line[q] # Space
<1> DEFINE s == From(line, p)
           rest == {k \in DOMAIN s : s[k] # Space}
           n == Len(line)
<1>1. n \in Nat /\ s \in Seq(T) /\ Len(s) = n + 1 - p /\ DOMAIN s = 1 .. n + 1 - p
      /\ \A m \in 1 .. n + 1 - p : s[m] = line[p + m - 1]
  BY FromOutcome
<1>2. SkipSpace(s) = IF rest = {} THEN <<>> ELSE SubSeq(s, CHOOSE k \in rest : \A l \in rest : k <= l, Len(s))
  BY DEF SkipSpace
<1> HIDE DEF s
<1>3. CASE rest = {}
  <2>1. SkipSpace(s) = From(line, n + 1)
    <3>1. n + 1 \in 1 .. n + 1
      BY <1>1
    <3>2. From(line, n + 1) = <<>>
      BY <3>1, FromOutcome
    <3> QED
      BY <1>2, <1>3, <3>2
  <2>2. ASSUME NEW m \in p .. (n + 1) - 1 PROVE line[m] = Space
    <3>1. m - p + 1 \in 1 .. n + 1 - p /\ p + (m - p + 1) - 1 = m
      BY <1>1, <2>2
    <3>2. s[m - p + 1] = Space
      BY <1>1, <1>3, <3>1
    <3> QED
      BY <1>1, <3>1, <3>2
  <2>3. n + 1 \in p .. n + 1 /\ ~(n + 1 <= n)
    BY <1>1
  <2> QED
    BY <2>1, <2>2, <2>3 DEF s
<1>4. CASE rest # {}
  <2>1. \E k \in rest : \A l \in rest : k <= l
    <3>1. rest \in SUBSET Nat
      BY <1>1
    <3> HIDE DEF rest
    <3> QED
      BY <1>4, <3>1, LeastNumber
  <2>2. PICK k \in rest : (\A l \in rest : k <= l) /\ SkipSpace(s) = SubSeq(s, k, Len(s))
    <3> HIDE DEF rest
    <3> QED
      BY <1>2, <1>4, <2>1
  <2> DEFINE q == p + k - 1
  <2>3. k \in 1 .. n + 1 - p /\ s[k] # Space /\ q \in p .. n /\ q \in 1 .. n + 1
    BY <1>1, <2>2
  <2>4. SubSeq(s, k, Len(s)) = From(line, q)
    <3> DEFINE u == SubSeq(s, k, Len(s))
               v == From(line, q)
    <3>1. u \in Seq(T) /\ Len(u) = n + 1 - q /\ \A m \in 1 .. n + 1 - q : u[m] = s[k + m - 1]
      <4>1. \A m \in k .. Len(s) : s[m] \in T
        BY <1>1, <2>3
      <4>2. k \in Int /\ Len(s) \in Int /\ k <= Len(s) /\ Len(s) - k + 1 = n + 1 - q
        BY <1>1, <2>3
      <4> QED
        BY <4>1, <4>2, SubSeqProperties
    <3>2. v \in Seq(T) /\ Len(v) = n + 1 - q /\ \A m \in 1 .. n + 1 - q : v[m] = line[q + m - 1]
      BY <2>3, FromOutcome, ZenonT(30)
    <3> HIDE DEF u, v
    <3>3. ASSUME NEW m \in 1 .. n + 1 - q PROVE u[m] = v[m]
      <4>1. k + m - 1 \in 1 .. n + 1 - p /\ p + (k + m - 1) - 1 = q + m - 1
        BY <1>1, <2>3, <3>3, SMTT(30)
      <4> QED
        BY <1>1, <3>1, <3>2, <3>3, <4>1
    <3>4. u = v
      BY <3>1, <3>2, <3>3, SeqEqual
    <3> QED
      BY <3>4 DEF u, v
  <2>5. ASSUME NEW m \in p .. q - 1 PROVE line[m] = Space
    <3>1. m - p + 1 \in 1 .. n + 1 - p /\ p + (m - p + 1) - 1 = m /\ ~(k <= m - p + 1)
      BY <1>1, <2>3, <2>5
    <3>2. m - p + 1 \notin rest
      BY <2>2, <3>1
    <3> QED
      BY <1>1, <3>1, <3>2
  <2>6. line[q] # Space
    BY <1>1, <2>3
  <2>7. q \in p .. n + 1
    BY <1>1, <2>3
  <2> HIDE DEF q
  <2> QED
    BY <2>2, <2>4, <2>5, <2>6, <2>7 DEF s
<1> QED
  BY <1>3, <1>4

\* Where a name may begin: after #, the word, and at least one space.
Opened(line, hash, word, k) ==
    /\ hash \in 1 .. Len(line) /\ word \in hash + 1 .. Len(line) /\ k \in word + 2 .. Len(line)
    /\ line[hash] = "#" /\ line[word] = "include" /\ line[k] # Space
    /\ \A m \in 1 .. k - 1 : m \in {hash, word} \/ line[m] = Space
NameIn(line) ==
    LET hash == SkipSpace(line)
        word == IF StartsWith(hash, "#") THEN SkipSpace(Tail(hash)) ELSE <<>>
        after == IF StartsWith(word, "include") THEN Tail(word) ELSE <<>>
    IN  IF StartsWith(after, Space) THEN SkipSpace(after) ELSE <<>>

LEMMA StartOutcome ==
    ASSUME NEW T, NEW line \in Seq(T), NEW p \in 1 .. Len(line) + 1, NEW token
    PROVE  StartsWith(From(line, p), token) <=> p <= Len(line) /\ line[p] = token
<1>1. Len(line) \in Nat
  OBVIOUS
<1>2. CASE p = Len(line) + 1
  BY <1>1, <1>2, FromOutcome DEF StartsWith
<1>3. CASE p # Len(line) + 1
  <2>1. p <= Len(line)
    BY <1>1, <1>3
  <2> QED
    BY <1>3, <2>1, FromOutcome DEF StartsWith
<1> QED
  BY <1>2, <1>3

\* The name begins at the one place where it may, if there is one.
LEMMA NameOutcome ==
    ASSUME NEW T, NEW line \in Seq(T)
    PROVE  /\ \/ NameIn(line) = <<>>
              \/ \E a, b, k \in 1 .. Len(line) : Opened(line, a, b, k) /\ NameIn(line) = From(line, k)
           /\ \A a, b, k \in 1 .. Len(line) : Opened(line, a, b, k) => NameIn(line) = From(line, k)
<1> DEFINE n == Len(line)
           hash == SkipSpace(line)
           word == IF StartsWith(hash, "#") THEN SkipSpace(Tail(hash)) ELSE <<>>
           after == IF StartsWith(word, "include") THEN Tail(word) ELSE <<>>
           name == IF StartsWith(after, Space) THEN SkipSpace(after) ELSE <<>>
<1>0. NameIn(line) = name
  BY DEF NameIn
<1>1. n \in Nat /\ \A token : ~StartsWith(<<>>, token)
  BY DEF StartsWith
<1>2. line = From(line, 1)
  <2>1. 1 \in 1 .. n + 1 /\ n + 1 - 1 = n
    BY <1>1
  <2>2. From(line, 1) \in Seq(T) /\ Len(From(line, 1)) = n + 1 - 1 /\ \A m \in 1 .. n + 1 - 1 : From(line, 1)[m] = line[1 + m - 1]
    BY <2>1, FromOutcome, ZenonT(30)
  <2>3. Len(From(line, 1)) = n /\ \A m \in 1 .. n : From(line, 1)[m] = line[m]
    BY <1>1, <2>1, <2>2
  <2> QED
    BY <2>2, <2>3, SeqEqual
<1>3. PICK h \in 1 .. n + 1 : /\ hash = From(line, h) /\ \A m \in 1 .. h - 1 : line[m] = Space
                              /\ h <= n => line[h] # Space
  <2>1. 1 \in 1 .. n + 1
    BY <1>1
  <2> QED
    BY <1>2, <2>1, SkipSpaceOutcome
<1>4. StartsWith(hash, "#") <=> h <= n /\ line[h] = "#"
  BY <1>3, StartOutcome
<1>5. ASSUME NEW a, NEW b, NEW k, Opened(line, a, b, k) PROVE h = a /\ StartsWith(hash, "#")
  <2>1. a \in 1 .. n /\ b \in a + 1 .. n /\ k \in b + 2 .. n /\ line[a] = "#" /\ "#" # Space
        /\ \A m \in 1 .. k - 1 : m \in {a, b} \/ line[m] = Space
    BY <1>5 DEF Opened, Space
  <2>2. ~(a < h)
    BY <1>1, <1>3, <2>1
  <2>3. ~(h < a)
    BY <1>1, <1>3, <2>1
  <2> QED
    BY <1>1, <1>4, <2>1, <2>2, <2>3
<1>6. CASE ~StartsWith(hash, "#")
  <2>1. name = <<>>
    BY <1>1, <1>6
  <2> QED
    BY <1>0, <1>5, <1>6, <2>1
<1>7. CASE StartsWith(hash, "#")
  <2>1. h \in 1 .. n /\ line[h] = "#" /\ Tail(hash) = From(line, h + 1) /\ h + 1 \in 1 .. n + 1
    BY <1>1, <1>3, <1>4, <1>7, FromOutcome
  <2>2. PICK w \in h + 1 .. n + 1 : /\ word = From(line, w) /\ \A m \in h + 1 .. w - 1 : line[m] = Space
                                    /\ w <= n => line[w] # Space
    BY <1>7, <2>1, SkipSpaceOutcome
  <2>3. w \in 1 .. n + 1
    BY <1>1, <2>1, <2>2
  <2>4. StartsWith(word, "include") <=> w <= n /\ line[w] = "include"
    BY <2>2, <2>3, StartOutcome
  <2>5. ASSUME NEW a, NEW b, NEW k, Opened(line, a, b, k) PROVE w = b /\ StartsWith(word, "include")
    <3>1. a \in 1 .. n /\ b \in a + 1 .. n /\ k \in b + 2 .. n /\ line[b] = "include" /\ "include" # Space /\ h = a
          /\ \A m \in 1 .. k - 1 : m \in {a, b} \/ line[m] = Space
      BY <1>5, <2>5 DEF Opened, Space
    <3>2. ~(b < w)
      BY <1>1, <2>2, <3>1
    <3>3. ~(w < b)
      BY <1>1, <2>2, <2>3, <3>1
    <3> QED
      BY <1>1, <2>3, <2>4, <3>1, <3>2, <3>3
  <2> HIDE DEF word, hash
  <2>6. CASE ~StartsWith(word, "include")
    <3>1. name = <<>>
      BY <1>1, <2>6
    <3> QED
      BY <1>0, <2>5, <2>6, <3>1
  <2>7. CASE StartsWith(word, "include")
    <3>1. w \in 1 .. n /\ line[w] = "include" /\ Tail(word) = From(line, w + 1) /\ w + 1 \in 1 .. n + 1
      BY <1>1, <2>2, <2>3, <2>4, <2>7, FromOutcome
    <3>2. after = From(line, w + 1)
      BY <2>7, <3>1
    <3>3. StartsWith(after, Space) <=> w + 1 <= n /\ line[w + 1] = Space
      BY <3>1, <3>2, StartOutcome
    <3>4. ASSUME NEW a, NEW b, NEW k, Opened(line, a, b, k) PROVE StartsWith(after, Space)
      <4>1. a \in 1 .. n /\ b \in a + 1 .. n /\ k \in b + 2 .. n /\ w = b
            /\ \A m \in 1 .. k - 1 : m \in {a, b} \/ line[m] = Space
        BY <2>5, <3>4 DEF Opened
      <4>2. b + 1 \in 1 .. k - 1 /\ b + 1 \notin {a, b} /\ b + 1 <= n
        BY <1>1, <4>1
      <4> QED
        BY <3>3, <4>1, <4>2
    <3> HIDE DEF after
    <3>5. CASE ~StartsWith(after, Space)
      BY <1>0, <3>4, <3>5
    <3>6. CASE StartsWith(after, Space)
      <4>1. PICK q \in w + 1 .. n + 1 : /\ name = From(line, q) /\ \A m \in w + 1 .. q - 1 : line[m] = Space
                                        /\ q <= n => line[q] # Space
        BY <3>1, <3>2, <3>6, SkipSpaceOutcome
      <4>2. q \in w + 2 .. n + 1 /\ q \in 1 .. n + 1
        BY <1>1, <3>1, <3>3, <3>6, <4>1
      <4>3. CASE q = n + 1
        <5>1. name = <<>>
          BY <4>1, <4>2, <4>3, FromOutcome
        <5>2. ASSUME NEW a, NEW b, NEW k, Opened(line, a, b, k) PROVE FALSE
          <6>1. k \in w + 2 .. n /\ line[k] # Space
            BY <2>5, <5>2 DEF Opened
          <6> QED
            BY <1>1, <3>1, <4>1, <4>3, <6>1
        <5> QED
          BY <1>0, <5>1, <5>2
      <4>4. CASE q # n + 1
        <5>1. q \in w + 2 .. n /\ q \in 1 .. n /\ line[q] # Space
          BY <1>1, <4>1, <4>2, <4>4
        <5>2. \A m \in 1 .. q - 1 : m \in {h, w} \/ line[m] = Space
          BY <1>1, <1>3, <2>1, <2>2, <3>1, <4>1, <5>1
        <5>3. Opened(line, h, w, q)
          <6>1. w \in h + 1 .. n
            BY <1>1, <2>1, <2>2, <3>1
          <6> QED
            BY <2>1, <3>1, <5>1, <5>2, <6>1 DEF Opened
        <5>4. ASSUME NEW a, NEW b, NEW k, Opened(line, a, b, k) PROVE q = k
          <6>1. k \in w + 2 .. n /\ line[k] # Space /\ w = b /\ h = a /\ \A m \in 1 .. k - 1 : m \in {a, b} \/ line[m] = Space
            BY <1>5, <2>5, <5>4 DEF Opened
          <6>2. ~(k < q)
            BY <1>1, <3>1, <4>1, <6>1
          <6>3. ~(q < k)
            BY <1>1, <2>1, <2>2, <3>1, <5>1, <6>1
          <6> QED
            BY <1>1, <3>1, <5>1, <6>1, <6>2, <6>3
        <5> QED
          BY <1>0, <2>1, <3>1, <4>1, <5>1, <5>3, <5>4
      <4> QED
        BY <4>3, <4>4
    <3> QED
      BY <3>5, <3>6
  <2> QED
    BY <2>6, <2>7
<1> QED
  BY <1>6, <1>7

\* What is between separators goes from the first to the first that closes it.
LEMMA SeparatedOutcome ==
    ASSUME NEW T, NEW line \in Seq(T), NEW k \in 1 .. Len(line), NEW open, NEW close, NEW isSystem
    PROVE  /\ line[k] # open \/ (\A l \in k + 1 .. Len(line) : line[l] # close)
              => Separated(From(line, k), open, close, isSystem) = NoInclude
           /\ \A l \in k + 1 .. Len(line) :
                 line[k] = open /\ line[l] = close /\ (\A m \in k + 1 .. l - 1 : line[m] # close)
                 => Separated(From(line, k), open, close, isSystem) = Include(SubSeq(line, k + 1, l - 1), isSystem)
<1> DEFINE n == Len(line)
           s == From(line, k + 1)
<1>1. n \in Nat /\ k \in 1 .. n + 1 /\ k + 1 \in 1 .. n + 1 /\ k <= n
  OBVIOUS
<1>2. Tail(From(line, k)) = s
  BY <1>1, FromOutcome
<1>3. StartsWith(From(line, k), open) <=> line[k] = open
  BY <1>1, StartOutcome
<1>4. s \in Seq(T) /\ Len(s) = n - k /\ DOMAIN s = 1 .. n - k /\ \A m \in 1 .. n - k : s[m] = line[k + m]
  <2>1. n + 1 - (k + 1) = n - k
    BY <1>1
  <2>2. /\ s \in Seq(T) /\ Len(s) = n + 1 - (k + 1)
        /\ \A m \in 1 .. n + 1 - (k + 1) : s[m] = line[(k + 1) + m - 1]
    BY <1>1, FromOutcome
  <2>3. \A m \in 1 .. n - k : (k + 1) + m - 1 = k + m
    BY <1>1
  <2> QED
    <3> HIDE DEF s
    <3>1. s \in Seq(T) /\ Len(s) = n - k /\ \A m \in 1 .. n - k : s[m] = line[(k + 1) + m - 1]
      BY <2>1, <2>2
    <3>2. \A m \in 1 .. n - k : s[m] = line[k + m]
      BY <2>3, <3>1
    <3> QED
      BY <1>1, <3>1, <3>2
<1> HIDE DEF s
<1>0. Contains(s, close) <=> \E l \in k + 1 .. n : line[l] = close
  <2>1. ASSUME NEW l \in k + 1 .. n, line[l] = close PROVE \E i \in 1 .. Len(s) : s[i] = close
    <3>1. l - k \in 1 .. n - k /\ k + (l - k) = l
      BY <1>1, <2>1
    <3> QED
      BY <1>4, <2>1, <3>1
  <2>2. ASSUME NEW i \in 1 .. Len(s), s[i] = close PROVE \E l \in k + 1 .. n : line[l] = close
    <3>1. k + i \in k + 1 .. n /\ i \in 1 .. n - k
      BY <1>1, <1>4, <2>2
    <3> QED
      BY <1>4, <2>2, <3>1
  <2> QED
    BY <2>1, <2>2 DEF Contains
<1>6. Separated(From(line, k), open, close, isSystem) =
        IF line[k] = open /\ Contains(s, close) THEN Include(UpTo(s, close), isSystem) ELSE NoInclude
  BY <1>2, <1>3 DEF Separated
<1>7. ASSUME NEW l \in k + 1 .. n, line[l] = close, \A m \in k + 1 .. l - 1 : line[m] # close
      PROVE  UpTo(s, close) = SubSeq(line, k + 1, l - 1)
  <2> DEFINE First(c) == s[c] = close /\ \A m \in 1 .. c - 1 : s[m] # close
             c0 == CHOOSE c \in DOMAIN s : First(c)
  <2>1. l - k \in DOMAIN s /\ First(l - k)
    <3>1. l - k \in 1 .. n - k /\ k + (l - k) = l
      BY <1>1, <1>7
    <3>2. ASSUME NEW m \in 1 .. (l - k) - 1 PROVE s[m] # close
      <4>1. m \in 1 .. n - k /\ k + m \in k + 1 .. l - 1
        BY <1>1, <1>7, <3>2
      <4> QED
        BY <1>4, <1>7, <4>1
    <3> QED
      BY <1>4, <1>7, <3>1, <3>2
  <2>2. c0 \in DOMAIN s /\ First(c0)
    BY <2>1
  <2>3. c0 = l - k
    <3> HIDE DEF c0
    <3>1. ~(c0 < l - k)
      <4>1. c0 < l - k => c0 \in 1 .. (l - k) - 1
        BY <1>1, <1>4, <1>7, <2>2
      <4> QED
        BY <2>1, <2>2, <4>1
    <3>2. ~(l - k < c0)
      <4>1. l - k < c0 => l - k \in 1 .. c0 - 1
        BY <1>1, <1>4, <1>7, <2>1, <2>2
      <4> QED
        BY <2>1, <2>2, <4>1
    <3> QED
      <4>1. c0 \in Int /\ l - k \in Int
        BY <1>1, <1>4, <1>7, <2>2
      <4> QED
        BY <3>1, <3>2, <4>1
  <2>4. UpTo(s, close) = SubSeq(s, 1, (l - k) - 1)
    BY <2>3 DEF UpTo
  <2> DEFINE u == SubSeq(s, 1, (l - k) - 1)
             v == SubSeq(line, k + 1, l - 1)
  <2>5. u \in Seq(T) /\ Len(u) = (l - k) - 1 /\ \A m \in 1 .. (l - k) - 1 : u[m] = s[m]
    <3>1. (l - k) - 1 \in Nat /\ (l - k) - 1 <= Len(s)
      BY <1>1, <1>4, <1>7
    <3> QED
      BY <1>4, <3>1
  <2>6. v \in Seq(T) /\ Len(v) = (l - k) - 1 /\ \A m \in 1 .. (l - k) - 1 : v[m] = line[k + m]
    BY <1>1, <1>7
  <2> HIDE DEF u, v
  <2>7. ASSUME NEW m \in 1 .. (l - k) - 1 PROVE u[m] = v[m]
    <3>1. m \in 1 .. n - k
      BY <1>1, <1>7, <2>7
    <3> QED
      BY <1>4, <2>5, <2>6, <2>7, <3>1
  <2>8. u = v
    BY <2>5, <2>6, <2>7, SeqEqual
  <2> QED
    BY <2>4, <2>8 DEF u, v
<1> QED
  BY <1>0, <1>6, <1>7

\* Its shape says where a statement begins: what is in front has no separator.
LEMMA StatementOpens ==
    ASSUME NEW T, NEW line \in Seq(T), NEW k \in Openings(line), NEW l \in DOMAIN line
    PROVE  IsStatement(line, k, l) <=>
              /\ \E a, b \in 1 .. Len(line) : Opened(line, a, b, k)
              /\ l > k /\ line[l] = (IF line[k] = "<" THEN ">" ELSE "'")
              /\ \A m \in k + 1 .. l - 1 : line[m] # line[l]
<1> DEFINE n == Len(line)
<1>1. n \in Nat /\ DOMAIN line = 1 .. n /\ k \in 1 .. n /\ line[k] \in {"<", "'"} /\ line[k] # Space
  <2>1. n \in Nat /\ DOMAIN line = 1 .. n
    OBVIOUS
  <2>2. k \in DOMAIN line /\ line[k] \in {"<", "'"}
    BY DEF Openings
  <2>3. line[k] # Space
    BY <2>2 DEF Space
  <2> QED
    BY <2>1, <2>2, <2>3
<1>2. ASSUME NEW a \in 1 .. k - 1, NEW b \in 1 .. k - 1, a < b, line[a] = "#", line[b] = "include",
             \A m \in 1 .. k - 1 : m \in {a, b} \/ line[m] = Space, line[k - 1] = Space
      PROVE  a \in 1 .. n /\ b \in 1 .. n /\ Opened(line, a, b, k)
  <2>1. "include" # Space
    BY DEF Space
  <2>2. b # k - 1
    BY <1>2, <2>1
  <2> QED
    BY <1>1, <1>2, <2>2 DEF Opened
<1>3. ASSUME NEW a \in 1 .. n, NEW b \in 1 .. n, Opened(line, a, b, k)
      PROVE  /\ \A o \in Openings(line) : k <= o
             /\ a \in 1 .. k - 1 /\ b \in 1 .. k - 1 /\ a < b /\ line[a] = "#" /\ line[b] = "include"
             /\ \A m \in 1 .. k - 1 : m \in {a, b} \/ line[m] = Space
             /\ line[k - 1] = Space
  <2>1. /\ a \in 1 .. k - 1 /\ b \in 1 .. k - 1 /\ a < b /\ line[a] = "#" /\ line[b] = "include"
        /\ \A m \in 1 .. k - 1 : m \in {a, b} \/ line[m] = Space
        /\ b < k - 1
    BY <1>1, <1>3 DEF Opened
  <2>2. line[k - 1] = Space
    <3>1. k - 1 \in 1 .. k - 1 /\ k - 1 \notin {a, b}
      BY <1>1, <2>1
    <3> QED
      BY <2>1, <3>1
  <2>3. ASSUME NEW o \in Openings(line) PROVE k <= o
    <3>1. o \in 1 .. n /\ line[o] \in {"<", "'"}
      BY <1>1, <2>3 DEF Openings
    <3>2. line[o] # Space /\ line[o] # "#" /\ line[o] # "include"
      BY <3>1 DEF Space
    <3> QED
      BY <1>1, <2>1, <3>1, <3>2
  <2> QED
    BY <2>1, <2>2, <2>3
<1> QED
  BY <1>2, <1>3 DEF IsStatement

\* A statement is what begins where a name may, and ends where it closes.
LEMMA LineIsRead ==
    ASSUME NEW T, NEW line \in Seq(T)
    PROVE  ScanCppLine(line) =
             IF \E k \in Openings(line), l \in DOMAIN line : IsStatement(line, k, l)
             THEN LET k == CHOOSE k \in Openings(line) : \E l \in DOMAIN line : IsStatement(line, k, l)
                      l == CHOOSE l \in DOMAIN line : IsStatement(line, k, l)
                  IN  Include(SubSeq(line, k + 1, l - 1), line[k] = "<")
             ELSE NoInclude
<1> DEFINE n == Len(line)
           name == NameIn(line)
           S(k) == \E l \in DOMAIN line : IsStatement(line, k, l)
           k0 == CHOOSE k \in Openings(line) : S(k)
           l0 == CHOOSE l \in DOMAIN line : IsStatement(line, k0, l)
           yes == TRUE
           no == FALSE
           system == Separated(name, "<", ">", yes)
           local == Separated(name, "'", "'", no)
<1>1. ScanCppLine(line) = system \o local
  BY DEF ScanCppLine, NameIn
<1>0. \A b \in BOOLEAN : (b <=> b = yes) /\ (~b <=> b = no)
  OBVIOUS
<1> HIDE DEF yes, no
<1>2. n \in Nat /\ DOMAIN line = 1 .. n /\ \A k \in Openings(line) : k \in 1 .. n /\ line[k] \in {"<", "'"}
  BY DEF Openings
<1>3. CASE \E k \in Openings(line) : S(k)
  <2>1. k0 \in Openings(line) /\ S(k0)
    <3> HIDE DEF S
    <3> QED
      BY <1>3
  <2>2. l0 \in DOMAIN line /\ IsStatement(line, k0, l0)
    BY <2>1
  <2> HIDE DEF k0, l0
  <2>3. k0 \in 1 .. n /\ line[k0] \in {"<", "'"} /\ l0 \in k0 + 1 .. n
        /\ line[l0] = (IF line[k0] = "<" THEN ">" ELSE "'")
        /\ \A m \in k0 + 1 .. l0 - 1 : line[m] # line[l0]
    BY <1>2, <2>1, <2>2, StatementOpens
  <2>4. name = From(line, k0)
    BY <2>1, <2>2, <2>3, StatementOpens, NameOutcome
  <2> DEFINE included == Include(SubSeq(line, k0 + 1, l0 - 1), line[k0] = "<")
  <2>5. system \o local = included
    <3>1. <<>> \o included = included /\ included \o <<>> = included
      <4>1. included \in Seq({[name |-> SubSeq(line, k0 + 1, l0 - 1), isSystem |-> line[k0] = "<"]})
        BY DEF Include
      <4> HIDE DEF included
      <4> QED
        BY <4>1, ConcatEmptySeq
    <3>2. CASE line[k0] = "<"
      <4>1. system = Include(SubSeq(line, k0 + 1, l0 - 1), yes)
        <5>1. line[l0] = ">" /\ \A m \in k0 + 1 .. l0 - 1 : line[m] # ">"
          BY <2>3, <3>2
        <5>2. Separated(From(line, k0), "<", ">", yes) = Include(SubSeq(line, k0 + 1, l0 - 1), yes)
          <6>1. \A l \in k0 + 1 .. n :
                   line[k0] = "<" /\ line[l] = ">" /\ (\A m \in k0 + 1 .. l - 1 : line[m] # ">")
                   => Separated(From(line, k0), "<", ">", yes) = Include(SubSeq(line, k0 + 1, l - 1), yes)
            BY <2>3, SeparatedOutcome
          <6> QED
            BY <2>3, <3>2, <5>1, <6>1
        <5> QED
          BY <2>4, <5>2
      <4>2. local = NoInclude
        <5>1. line[k0] # "'"
          BY <3>2
        <5>2. Separated(From(line, k0), "'", "'", no) = NoInclude
          BY <2>3, <5>1, SeparatedOutcome
        <5> QED
          BY <2>4, <5>2
      <4>3. (line[k0] = "<") = yes
        <5>1. (line[k0] = "<") \in BOOLEAN
          OBVIOUS
        <5> QED
          BY <1>0, <3>2, <5>1
      <4> QED
        BY <3>1, <4>1, <4>2, <4>3 DEF NoInclude
    <3>3. CASE line[k0] # "<"
      <4>1. line[k0] = "'"
        BY <2>3, <3>3
      <4>2. system = NoInclude
        <5>1. Separated(From(line, k0), "<", ">", yes) = NoInclude
          BY <2>3, <3>3, SeparatedOutcome
        <5> QED
          BY <2>4, <5>1
      <4>3. local = Include(SubSeq(line, k0 + 1, l0 - 1), no)
        <5>1. line[l0] = "'" /\ \A m \in k0 + 1 .. l0 - 1 : line[m] # "'"
          BY <2>3, <4>1
        <5>2. Separated(From(line, k0), "'", "'", no) = Include(SubSeq(line, k0 + 1, l0 - 1), no)
          <6>1. \A l \in k0 + 1 .. n :
                   line[k0] = "'" /\ line[l] = "'" /\ (\A m \in k0 + 1 .. l - 1 : line[m] # "'")
                   => Separated(From(line, k0), "'", "'", no) = Include(SubSeq(line, k0 + 1, l - 1), no)
            BY <2>3, SeparatedOutcome
          <6> QED
            BY <2>3, <4>1, <5>1, <6>1
        <5> QED
          BY <2>4, <5>2
      <4>4. (line[k0] = "<") = no
        <5>1. (line[k0] = "<") \in BOOLEAN
          OBVIOUS
        <5> QED
          BY <1>0, <3>3, <5>1
      <4> QED
        BY <3>1, <4>2, <4>3, <4>4 DEF NoInclude
    <3> QED
      BY <3>2, <3>3
  <2> QED
    BY <1>1, <1>3, <2>5 DEF k0, l0
<1>4. CASE ~\E k \in Openings(line) : S(k)
  <2>1. system = NoInclude /\ local = NoInclude
    <3>1. CASE name = <<>>
      BY <3>1 DEF Separated, StartsWith
    <3>2. CASE name # <<>>
      <4>1. PICK a \in 1 .. n, b \in 1 .. n, k \in 1 .. n : Opened(line, a, b, k) /\ name = From(line, k)
        BY <3>2, NameOutcome
      <4>2. ASSUME NEW open \in {"<", "'"}, NEW close, NEW isSystem, close = IF open = "<" THEN ">" ELSE "'"
            PROVE  Separated(name, open, close, isSystem) = NoInclude
        <5>1. CASE line[k] # open
          BY <4>1, <5>1, SeparatedOutcome
        <5>2. CASE \A l \in k + 1 .. n : line[l] # close
          BY <4>1, <5>2, SeparatedOutcome
        <5>3. ASSUME line[k] = open, NEW l1 \in k + 1 .. n, line[l1] = close PROVE FALSE
          <6> DEFINE closes == {l \in k + 1 .. n : line[l] = close}
          <6>1. closes \in SUBSET Nat /\ closes # {}
            BY <1>2, <5>3
          <6>2. PICK l \in closes : \A m \in closes : l <= m
            <7> HIDE DEF closes
            <7> QED
              BY <6>1, LeastNumber
          <6>3. l \in DOMAIN line /\ l > k /\ line[l] = close /\ \A m \in k + 1 .. l - 1 : line[m] # close
            BY <1>2, <6>2
          <6>4. k \in Openings(line) /\ close = (IF line[k] = "<" THEN ">" ELSE "'")
            BY <1>2, <4>2, <5>3 DEF Openings
          <6>5. IsStatement(line, k, l)
            BY <4>1, <6>3, <6>4, StatementOpens
          <6> QED
            BY <1>4, <6>3, <6>4, <6>5
        <5> QED
          BY <5>1, <5>2, <5>3
      <4> HIDE DEF name
      <4>3. system = NoInclude
        BY <4>2
      <4>4. local = NoInclude
        BY <4>2
      <4> QED
        BY <4>3, <4>4
    <3> QED
      BY <3>1, <3>2
  <2>2. system \o local = NoInclude
    <3>1. <<>> \o <<>> = <<>>
      OBVIOUS
    <3> QED
      BY <2>1, <3>1 DEF NoInclude
  <2> QED
    BY <1>1, <1>4, <2>2
<1> QED
  BY <1>3, <1>4

\* Every include statement of a file that is read is found, and nothing else is
\* taken for one: what the scan of a line returns is its shape.
THEOREM LinesAreRead == Spec => []CppStatementsAreFound
<1>1. ScannerInv => CppStatementsAreFound
  <2> SUFFICES ASSUME ScannerInv, NEW w \in Workers, worker[w].pc = "read",
                      NEW n \in DOMAIN Texts[disk[worker[w].file].content]
               PROVE  LET line == Texts[disk[worker[w].file].content][n]
                      IN  ScanCppLine(line) =
                            IF \E k \in Openings(line), l \in DOMAIN line : IsStatement(line, k, l)
                            THEN LET k == CHOOSE k \in Openings(line) : \E l \in DOMAIN line : IsStatement(line, k, l)
                                     l == CHOOSE l \in DOMAIN line : IsStatement(line, k, l)
                                 IN  Include(SubSeq(line, k + 1, l - 1), line[k] = "<")
                            ELSE NoInclude
    BY DEF CppStatementsAreFound
  <2> DEFINE text == Texts[disk[worker[w].file].content]
             line == text[n]
  <2>1. worker[w].file \in Files
    BY KeyOutcome DEF InProgress
  <2>2. disk[worker[w].file].content \in DOMAIN Texts
    BY <2>1 DEF ScannerInv, DiskOK
  <2>3. line \in ToSet(text)
    BY DEF ToSet
  <2>4. line \in Seq(ToSet(line))
    BY <2>2, <2>3, ScanAssumption
  <2> HIDE DEF line
  <2> QED
    BY <2>4, LineIsRead DEF line
<1> QED
  BY <1>1, CacheStaysInOrder, PTL

\* A scan loses nothing: not a line, not what a thread has just inserted, not a
\* file on the way through the caches.  Where an include leads to is a matter of
\* the paths alone, and a hypothesis here.
THEOREM ScansLoseNothing ==
    ASSUME NothingShadowed, IncludesGoByOnePath
    PROVE  Spec => []IncludesAreFound
<1>1. CppStatementsAreFound /\ InsertedIsFound /\ ScanIsExact => IncludesAreFound
  BY DEF IncludesAreFound
<1> QED
  BY <1>1, LinesAreRead, InsertedStaysInTable, CachesChangeNothing, PTL
=============================================================================
