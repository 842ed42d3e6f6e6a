----------------------- MODULE GraphCompilationProofs -----------------------
(***************************************************************************)
(* Proofs about GraphCompilation, for any graphs, digests, names and       *)
(* worlds: a graph that is built from means what was written, it is        *)
(* current, and a cached node is looked up by all it depends on.           *)
(*                                                                         *)
(* What a phase computes does not change later (CompiledInv), so each      *)
(* property is one of the operators that compute it.  Their loops are      *)
(* functions of the number of rounds: such a function exists by way of a   *)
(* least round that has none (LoopIsDefined), and what every round keeps   *)
(* holds after the last (LoopKeeps).  A loop that adds nodes has ended     *)
(* after as many rounds as there are nodes, for it adds none twice.        *)
(*                                                                         *)
(* Three hypotheses are about the graphs: NoCycles, GeneratorsEnd and      *)
(* AnnotationsDiffer.  Each theorem says which of them it needs.           *)
(***************************************************************************)
EXTENDS GraphCompilation, FiniteSetTheorems, WellFoundedInduction, SequenceTheorems, TLAPS

---------------------------------------------------------------------------
(* Sorting *)

\* As many different numbers as there are reach all of them.
LEMMA ReachesAll ==
    ASSUME NEW n \in Nat, NEW f \in [1 .. n -> 1 .. n],
           \A a, b \in 1 .. n : f[a] = f[b] => a = b
    PROVE  \A t \in 1 .. n : \E s \in 1 .. n : f[s] = t
<1>1. f \in Injection(1 .. n, 1 .. n)
  BY DEF Injection, IsInjective
<1>2. IsFiniteSet(1 .. n)
  BY FS_Interval
<1>3. f \in Surjection(1 .. n, 1 .. n)
  BY <1>1, <1>2, FS_Injection
<1> QED
  BY <1>3 DEF Surjection

\* The place of an element in the order is the number of those up to it, the
\* first of equal ones before the others.
LEMMA SomeOrderSorts ==
    ASSUME NEW n \in Nat, NEW key \in [1 .. n -> Int]
    PROVE  \E p \in SetToSeqs(1 .. n) :
               \A k, l \in 1 .. n : k < l => key[p[k]] <= key[p[l]]
<1> DEFINE Before(j, i) == key[j] < key[i] \/ (key[j] = key[i] /\ j <= i)
           upTo(i) == {j \in 1 .. n : Before(j, i)}
           place == [i \in 1 .. n |-> Cardinality(upTo(i))]
           p == [k \in 1 .. n |-> CHOOSE i \in 1 .. n : place[i] = k]
<1>1. IsFiniteSet(1 .. n) /\ Cardinality(1 .. n) = n
  BY FS_Interval
<1>2. ASSUME NEW i \in 1 .. n
      PROVE  IsFiniteSet(upTo(i)) /\ place[i] \in 1 .. n /\ i \in upTo(i)
  <2>1. upTo(i) \in SUBSET (1 .. n) /\ i \in upTo(i)
    OBVIOUS
  <2> HIDE DEF upTo
  <2>2. /\ IsFiniteSet(upTo(i)) /\ Cardinality(upTo(i)) <= n /\ Cardinality(upTo(i)) \in Nat
        /\ Cardinality(upTo(i)) # 0
    BY <1>1, <2>1, FS_Subset, FS_CardinalityType, FS_EmptySet
  <2>3. place[i] = Cardinality(upTo(i))
    OBVIOUS
  <2> QED
    BY <2>1, <2>2, <2>3
<1>3. ASSUME NEW i \in 1 .. n, NEW j \in 1 .. n, i # j, Before(j, i)
      PROVE  place[j] < place[i]
  <2>1. upTo(j) \in SUBSET upTo(i) /\ i \notin upTo(j) /\ i \in upTo(i)
    BY <1>3
  <2>2. IsFiniteSet(upTo(i)) /\ place[i] \in 1 .. n /\ place[j] \in 1 .. n
    BY <1>2
  <2>3. place[i] = Cardinality(upTo(i)) /\ place[j] = Cardinality(upTo(j))
    OBVIOUS
  <2> HIDE DEF upTo, place
  <2>4. Cardinality(upTo(j)) <= Cardinality(upTo(i))
        /\ (Cardinality(upTo(i)) = Cardinality(upTo(j)) => upTo(i) = upTo(j))
    BY <2>1, <2>2, FS_Subset
  <2> QED
    BY <2>1, <2>2, <2>3, <2>4
<1>4. \A i, j \in 1 .. n : i # j => Before(i, j) \/ Before(j, i)
  OBVIOUS
<1>5. place \in [1 .. n -> 1 .. n] /\ \A i \in 1 .. n : place[i] \in Int
  <2>1. \A i \in 1 .. n : Cardinality(upTo(i)) \in 1 .. n
    BY <1>2
  <2> HIDE DEF upTo
  <2> QED
    BY <2>1
<1> HIDE DEF place, upTo, Before
<1>6. \A i, j \in 1 .. n : place[i] = place[j] => i = j
  <2> SUFFICES ASSUME NEW i \in 1 .. n, NEW j \in 1 .. n, place[i] = place[j], i # j PROVE FALSE
    OBVIOUS
  <2>1. place[i] \in Int /\ place[j] \in Int
    BY <1>5
  <2>2. Before(i, j) \/ Before(j, i)
    BY <1>4
  <2>3. CASE Before(i, j)
    BY <1>3, <2>1, <2>3
  <2>4. CASE Before(j, i)
    BY <1>3, <2>1, <2>4
  <2> QED
    BY <2>2, <2>3, <2>4
<1>7. \A k \in 1 .. n : \E i \in 1 .. n : place[i] = k
  BY <1>5, <1>6, ReachesAll
<1>8. \A k \in 1 .. n : p[k] \in 1 .. n /\ place[p[k]] = k
  BY <1>7
<1>9. p \in [1 .. n -> 1 .. n]
  BY <1>8
<1> HIDE DEF p
<1>10. p \in SetToSeqs(1 .. n)
  <2>1. \A i, j \in 1 .. n : i # j => p[i] # p[j]
    BY <1>8
  <2> QED
    BY <1>1, <1>9, <2>1 DEF SetToSeqs
<1>11. ASSUME NEW k \in 1 .. n, NEW l \in 1 .. n, k < l
       PROVE  key[p[k]] <= key[p[l]]
  <2>1. CASE key[p[l]] < key[p[k]]
    <3>1. Before(p[l], p[k]) /\ p[l] # p[k] /\ p[l] \in 1 .. n /\ p[k] \in 1 .. n
      BY <1>8, <1>11, <2>1 DEF Before
    <3>2. place[p[l]] < place[p[k]]
      BY <1>3, <3>1
    <3> QED
      BY <1>8, <1>11, <3>2
  <2> QED
    BY <1>8, <2>1
<1> QED
  BY <1>10, <1>11

LEMMA OrdersAreComplete ==
    ASSUME NEW n \in Nat, NEW p \in SetToSeqs(1 .. n)
    PROVE  /\ p \in [1 .. n -> 1 .. n]
           /\ \A i, j \in 1 .. n : p[i] = p[j] => i = j
           /\ \A t \in 1 .. n : \E s \in 1 .. n : p[s] = t
<1>1. p \in [1 .. n -> 1 .. n] /\ \A i, j \in 1 .. n : p[i] = p[j] => i = j
  <2>1. Cardinality(1 .. n) = n
    BY FS_Interval
  <2> QED
    BY <2>1 DEF SetToSeqs
<1> QED
  BY <1>1, ReachesAll

\* A sorted sequence is the same one in another order.
LEMMA SortedOutcome ==
    ASSUME NEW S, NEW s \in Seq(S), NEW rank, \A e \in S : rank[e] \in Int
    PROVE  \E p \in SetToSeqs(DOMAIN s) :
               /\ Sorted(s, rank) = [k \in DOMAIN s |-> s[p[k]]]
               /\ \A k, l \in DOMAIN s : k < l => rank[s[p[k]]] <= rank[s[p[l]]]
<1> DEFINE n == Len(s)
           key == [k \in 1 .. n |-> rank[s[k]]]
           P(p) == \A k, l \in DOMAIN s : k < l => rank[s[p[k]]] <= rank[s[p[l]]]
<1>1. n \in Nat /\ DOMAIN s = 1 .. n /\ key \in [1 .. n -> Int]
  OBVIOUS
<1>2. PICK p \in SetToSeqs(1 .. n) : \A k, l \in 1 .. n : k < l => key[p[k]] <= key[p[l]]
  <2> HIDE DEF key, n
  <2> QED
    BY <1>1, SomeOrderSorts
<1>3. \A k \in 1 .. n : p[k] \in 1 .. n
  BY <1>1, OrdersAreComplete
<1>4. P(p)
  BY <1>1, <1>2, <1>3
<1>5. (CHOOSE q \in SetToSeqs(DOMAIN s) : P(q)) \in SetToSeqs(DOMAIN s)
      /\ P(CHOOSE q \in SetToSeqs(DOMAIN s) : P(q))
  <2> HIDE DEF P
  <2> QED
    BY <1>1, <1>2, <1>4
<1> QED
  BY <1>5 DEF Sorted

\* Sorting changes neither the elements nor how often they are there.
LEMMA SortedElements ==
    ASSUME NEW S, NEW s \in Seq(S), NEW rank, \A e \in S : rank[e] \in Int
    PROVE  LET t == Sorted(s, rank) IN
           /\ t \in Seq(S) /\ Len(t) = Len(s) /\ DOMAIN t = DOMAIN s /\ ToSet(t) = ToSet(s)
           /\ \A k, l \in DOMAIN t : k < l => rank[t[k]] <= rank[t[l]]
           /\ (\A i, j \in DOMAIN s : s[i] = s[j] => i = j) =>
                  \A i, j \in DOMAIN t : t[i] = t[j] => i = j
<1> DEFINE n == Len(s)
           t == Sorted(s, rank)
<1>1. n \in Nat /\ DOMAIN s = 1 .. n /\ \A k \in 1 .. n : s[k] \in S
  OBVIOUS
<1>2. PICK p \in SetToSeqs(1 .. n) :
          /\ t = [k \in 1 .. n |-> s[p[k]]]
          /\ \A k, l \in 1 .. n : k < l => rank[s[p[k]]] <= rank[s[p[l]]]
  BY <1>1, SortedOutcome
<1> HIDE DEF n, t
<1>3. /\ p \in [1 .. n -> 1 .. n]
      /\ \A i, j \in 1 .. n : p[i] = p[j] => i = j
      /\ \A e \in 1 .. n : \E d \in 1 .. n : p[d] = e
  BY <1>1, OrdersAreComplete
<1>4. t \in [1 .. n -> S] /\ \A k \in 1 .. n : t[k] = s[p[k]]
  BY <1>1, <1>2, <1>3
<1>5. t \in Seq(S) /\ Len(t) = n /\ DOMAIN t = 1 .. n
  BY <1>1, <1>4
<1>6. ToSet(t) = ToSet(s)
  <2>1. ToSet(t) = {t[k] : k \in 1 .. n} /\ ToSet(s) = {s[k] : k \in 1 .. n}
    BY <1>1, <1>5 DEF ToSet
  <2>2. \A k \in 1 .. n : t[k] = s[p[k]] /\ p[k] \in 1 .. n
    BY <1>3, <1>4
  <2>3. ASSUME NEW e \in 1 .. n PROVE \E d \in 1 .. n : s[e] = t[d]
    <3>1. PICK d \in 1 .. n : p[d] = e
      BY <1>3
    <3>2. t[d] = s[p[d]]
      BY <2>2
    <3> QED
      BY <3>1, <3>2
  <2>4. ToSet(t) \subseteq ToSet(s)
    BY <2>1, <2>2
  <2>5. ToSet(s) \subseteq ToSet(t)
    BY <2>1, <2>3
  <2> QED
    BY <2>4, <2>5
<1>7. \A k, l \in 1 .. n : k < l => rank[t[k]] <= rank[t[l]]
  BY <1>2, <1>4
<1>8. ASSUME \A i, j \in DOMAIN s : s[i] = s[j] => i = j
      PROVE  \A i, j \in DOMAIN t : t[i] = t[j] => i = j
  <2> SUFFICES ASSUME NEW i \in 1 .. n, NEW j \in 1 .. n, t[i] = t[j] PROVE i = j
    BY <1>5
  <2>1. p[i] \in DOMAIN s /\ p[j] \in DOMAIN s
    BY <1>1, <1>3
  <2>2. s[p[i]] = s[p[j]]
    BY <1>4
  <2>3. p[i] = p[j]
    BY <1>8, <2>1, <2>2
  <2> QED
    BY <1>3, <2>3
<1> QED
  BY <1>1, <1>5, <1>6, <1>7, <1>8 DEF n, t

\* A finite set as a sequence has every element once.
LEMMA ListedElements ==
    ASSUME NEW S, IsFiniteSet(S)
    PROVE  /\ SetToSeq(S) \in Seq(S) /\ ToSet(SetToSeq(S)) = S
           /\ Len(SetToSeq(S)) = Cardinality(S)
           /\ \A i, j \in DOMAIN SetToSeq(S) : SetToSeq(S)[i] = SetToSeq(S)[j] => i = j
<1> DEFINE n == Cardinality(S)
           P(f) == IsInjective(f)
<1>1. n \in Nat /\ ExistsBijection(1 .. n, S)
  BY FS_CardinalityType
<1>2. PICK f \in [1 .. n -> S] : P(f)
  BY <1>1 DEF ExistsBijection, Bijection, Injection
<1>3. SetToSeq(S) \in [1 .. n -> S] /\ P(SetToSeq(S))
  <2> HIDE DEF P
  <2>1. (CHOOSE g \in [1 .. n -> S] : P(g)) \in [1 .. n -> S] /\ P(CHOOSE g \in [1 .. n -> S] : P(g))
    BY <1>2
  <2> QED
    BY <2>1 DEF SetToSeq, P
<1> DEFINE s == SetToSeq(S)
<1> HIDE DEF n, s
<1>4. s \in [1 .. n -> S] /\ IsInjective(s) /\ DOMAIN s = 1 .. n
  BY <1>3 DEF s
<1>5. s \in Injection(1 .. n, S) /\ IsFiniteSet(1 .. n) /\ Cardinality(1 .. n) = n
  BY <1>1, <1>4, FS_Interval DEF Injection
<1>6. s \in Surjection(1 .. n, S)
  BY <1>1, <1>5, FS_Injection DEF n
<1>7. s \in Seq(S) /\ Len(s) = n
  BY <1>1, <1>4
<1>8. ToSet(s) = S
  <2>1. ToSet(s) = {s[k] : k \in 1 .. n}
    BY <1>4 DEF ToSet
  <2> QED
    BY <1>4, <1>6, <2>1 DEF Surjection
<1> QED
  BY <1>4, <1>7, <1>8 DEF n, s, IsInjective

---------------------------------------------------------------------------
(* Signatures of directories *)

\* A list of names is hashed as the names with separators between.
LEMMA NamesOutcome ==
    ASSUME NEW names \in SUBSET Names, IsFiniteSet(names)
    PROVE  LET s == SortedNames(names)
               h == HashedNames(names)
           IN  /\ s \in Seq(Names) /\ ToSet(s) = names
               /\ h \in Seq(Names \cup {Separator}) /\ Len(h) = 2 * Len(s)
               /\ \A i \in 1 .. Len(s) : h[2 * i - 1] = s[i]
<1> DEFINE s == SortedNames(names)
           h == HashedNames(names)
           n == Len(s)
<1>1. s \in Seq(Names) /\ ToSet(s) = names
  <2>1. SetToSeq(names) \in Seq(Names) /\ ToSet(SetToSeq(names)) = names
    BY ListedElements
  <2> QED
    BY <2>1, NameAssumption, SortedElements DEF SortedNames
<1> HIDE DEF s
<1>2. n \in Nat /\ \A i \in 1 .. n : s[i] \in Names
  BY <1>1
<1>3. h = [k \in 1 .. 2 * n |-> IF k % 2 = 1 THEN s[(k + 1) \div 2] ELSE Separator]
  BY DEF HashedNames, s
<1> HIDE DEF h, n
<1>4. ASSUME NEW k \in 1 .. 2 * n, k % 2 = 1 PROVE (k + 1) \div 2 \in 1 .. n
  BY <1>2, <1>4
<1>5. h \in [1 .. 2 * n -> Names \cup {Separator}]
  BY <1>2, <1>3, <1>4
<1>6. h \in Seq(Names \cup {Separator}) /\ Len(h) = 2 * n
  BY <1>2, <1>5
<1>7. ASSUME NEW i \in 1 .. n PROVE h[2 * i - 1] = s[i]
  <2>1. 2 * i - 1 \in 1 .. 2 * n /\ (2 * i - 1) % 2 = 1 /\ ((2 * i - 1) + 1) \div 2 = i
    BY <1>2
  <2> QED
    BY <1>3, <2>1
<1> QED
  BY <1>1, <1>6, <1>7 DEF n, s, h

\* What is at which place of two sequences one behind the other.
LEMMA JoinedTwo ==
    ASSUME NEW T, NEW s \in Seq(T), NEW t \in Seq(T), NEW a, a = s \o t
    PROVE  /\ a \in Seq(T) /\ Len(a) = Len(s) + Len(t)
           /\ \A k \in 1 .. Len(s) : a[k] = s[k]
           /\ \A k \in 1 .. Len(t) : a[Len(s) + k] = t[k]
<1>1. s \o t \in Seq(T) /\ Len(s \o t) = Len(s) + Len(t)
  OBVIOUS
<1>2. \A k \in 1 .. Len(s) : (s \o t)[k] = s[k]
  OBVIOUS
<1>3. \A k \in 1 .. Len(t) : (s \o t)[Len(s) + k] = t[k]
  OBVIOUS
<1> QED
  BY <1>1, <1>2, <1>3

\* What is at which place of three sequences one behind the other.
LEMMA JoinedThree ==
    ASSUME NEW T, NEW s \in Seq(T), NEW e \in T, NEW t \in Seq(T),
           NEW a, a = s \o <<e>> \o t
    PROVE  /\ a \in Seq(T) /\ Len(a) = Len(s) + 1 + Len(t)
           /\ \A k \in 1 .. Len(s) : a[k] = s[k]
           /\ a[Len(s) + 1] = e
           /\ \A k \in 1 .. Len(t) : a[Len(s) + 1 + k] = t[k]
<1> DEFINE b == s \o <<e>>
<1>1. <<e>> \in Seq(T) /\ Len(<<e>>) = 1 /\ <<e>>[1] = e /\ Len(s) \in Nat /\ Len(t) \in Nat
  OBVIOUS
<1>2. b \in Seq(T) /\ Len(b) = Len(s) + 1 /\ b[Len(s) + 1] = e
      /\ \A k \in 1 .. Len(s) : b[k] = s[k]
  BY <1>1
<1>3. a = b \o t
  OBVIOUS
<1> HIDE DEF b
<1>4. /\ a \in Seq(T) /\ Len(a) = Len(b) + Len(t)
      /\ \A k \in 1 .. Len(b) : a[k] = b[k]
      /\ \A k \in 1 .. Len(t) : a[Len(b) + k] = t[k]
  BY <1>2, <1>3, JoinedTwo
<1> QED
  BY <1>1, <1>2, <1>4

\* The extra separator stands where the next directory would: directories and
\* files can be told apart.
LEMMA ListsAreTold ==
    ASSUME NEW d1 \in SUBSET Names, NEW f1 \in SUBSET Names, IsFiniteSet(d1), IsFiniteSet(f1),
           NEW d2 \in SUBSET Names, NEW f2 \in SUBSET Names, IsFiniteSet(d2), IsFiniteSet(f2),
           Len(SortedNames(d1)) <= Len(SortedNames(d2)),
           HashedNames(d1) \o <<Separator>> \o HashedNames(f1)
             = HashedNames(d2) \o <<Separator>> \o HashedNames(f2)
    PROVE  d1 = d2 /\ f1 = f2
<1> DEFINE T == Names \cup {Separator}
           s1 == SortedNames(d1)   h1 == HashedNames(d1)   g1 == HashedNames(f1)   t1 == SortedNames(f1)
           s2 == SortedNames(d2)   h2 == HashedNames(d2)   g2 == HashedNames(f2)   t2 == SortedNames(f2)
           a1 == h1 \o <<Separator>> \o g1
           a2 == h2 \o <<Separator>> \o g2
<1>1. /\ s1 \in Seq(Names) /\ ToSet(s1) = d1 /\ h1 \in Seq(T) /\ Len(h1) = 2 * Len(s1)
      /\ \A i \in 1 .. Len(s1) : h1[2 * i - 1] = s1[i]
  BY NamesOutcome
<1>2. /\ s2 \in Seq(Names) /\ ToSet(s2) = d2 /\ h2 \in Seq(T) /\ Len(h2) = 2 * Len(s2)
      /\ \A i \in 1 .. Len(s2) : h2[2 * i - 1] = s2[i]
  BY NamesOutcome
<1>3. /\ t1 \in Seq(Names) /\ ToSet(t1) = f1 /\ g1 \in Seq(T) /\ Len(g1) = 2 * Len(t1)
      /\ \A i \in 1 .. Len(t1) : g1[2 * i - 1] = t1[i]
  BY NamesOutcome
<1>4. /\ t2 \in Seq(Names) /\ ToSet(t2) = f2 /\ g2 \in Seq(T) /\ Len(g2) = 2 * Len(t2)
      /\ \A i \in 1 .. Len(t2) : g2[2 * i - 1] = t2[i]
  BY NamesOutcome
<1>5. a1 = a2 /\ Len(s1) <= Len(s2)
      /\ a1 = h1 \o <<Separator>> \o g1 /\ a2 = h2 \o <<Separator>> \o g2
  OBVIOUS
<1>0. Separator \in T
  OBVIOUS
<1> HIDE DEF s1, h1, g1, t1, s2, h2, g2, t2, T, a1, a2
<1>6. /\ Len(a1) = Len(h1) + 1 + Len(g1)
      /\ \A k \in 1 .. Len(h1) : a1[k] = h1[k]
      /\ a1[Len(h1) + 1] = Separator
      /\ \A k \in 1 .. Len(g1) : a1[Len(h1) + 1 + k] = g1[k]
  <2>1. h1 \in Seq(T) /\ g1 \in Seq(T) /\ a1 = h1 \o <<Separator>> \o g1
    BY <1>1, <1>3, <1>5
  <2> HIDE DEF T
  <2> DEFINE z == h1 \o <<Separator>> \o g1
  <2>2. /\ Len(z) = Len(h1) + 1 + Len(g1)
        /\ \A k \in 1 .. Len(h1) : z[k] = h1[k]
        /\ z[Len(h1) + 1] = Separator
        /\ \A k \in 1 .. Len(g1) : z[Len(h1) + 1 + k] = g1[k]
    BY <1>0, <2>1, JoinedThree
  <2> HIDE DEF z
  <2>3. a1 = z
    BY <2>1 DEF z
  <2> QED
    BY <2>2, <2>3
<1>7. /\ Len(a2) = Len(h2) + 1 + Len(g2)
      /\ \A k \in 1 .. Len(h2) : a2[k] = h2[k]
      /\ a2[Len(h2) + 1] = Separator
      /\ \A k \in 1 .. Len(g2) : a2[Len(h2) + 1 + k] = g2[k]
  <2>1. h2 \in Seq(T) /\ g2 \in Seq(T) /\ a2 = h2 \o <<Separator>> \o g2
    BY <1>2, <1>4, <1>5
  <2> HIDE DEF T
  <2> DEFINE z == h2 \o <<Separator>> \o g2
  <2>2. /\ Len(z) = Len(h2) + 1 + Len(g2)
        /\ \A k \in 1 .. Len(h2) : z[k] = h2[k]
        /\ z[Len(h2) + 1] = Separator
        /\ \A k \in 1 .. Len(g2) : z[Len(h2) + 1 + k] = g2[k]
    BY <1>0, <2>1, JoinedThree
  <2> HIDE DEF z
  <2>3. a2 = z
    BY <2>1 DEF z
  <2> QED
    BY <2>2, <2>3
<1>8. Len(s1) \in Nat /\ Len(s2) \in Nat /\ Len(t1) \in Nat /\ Len(t2) \in Nat
  <2>1. Len(s1) \in Nat
    BY <1>1
  <2>2. Len(s2) \in Nat
    BY <1>2
  <2>3. Len(t1) \in Nat
    BY <1>3
  <2>4. Len(t2) \in Nat
    BY <1>4
  <2> QED
    BY <2>1, <2>2, <2>3, <2>4
<1>9. Len(s1) = Len(s2)
  <2> SUFFICES ASSUME Len(s1) < Len(s2) PROVE FALSE
    BY <1>5, <1>8
  <2> DEFINE i == Len(s1) + 1
  <2>1. i \in 1 .. Len(s2) /\ 2 * i - 1 = Len(h1) + 1 /\ 2 * i - 1 \in 1 .. Len(h2)
    BY <1>1, <1>2, <1>8
  <2> HIDE DEF i
  <2>2. a2[2 * i - 1] = s2[i]
    BY <1>2, <1>7, <2>1
  <2>4. s2[i] \in Names
    BY <1>2, <2>1
  <2>3. a1[2 * i - 1] = Separator
    BY <1>6, <2>1
  <2> QED
    BY <1>5, <2>2, <2>3, <2>4, NameAssumption
<1>10. Len(t1) = Len(t2)
  BY <1>1, <1>2, <1>3, <1>4, <1>5, <1>6, <1>7, <1>8, <1>9
<1>11. ASSUME NEW i \in 1 .. Len(s1) PROVE s1[i] = s2[i]
  <2>1. 2 * i - 1 \in 1 .. Len(h1) /\ 2 * i - 1 \in 1 .. Len(h2) /\ i \in 1 .. Len(s2)
    BY <1>1, <1>2, <1>8, <1>9
  <2>2. a1[2 * i - 1] = s1[i]
    BY <1>1, <1>6, <2>1
  <2>3. a2[2 * i - 1] = s2[i]
    BY <1>2, <1>7, <2>1
  <2> QED
    BY <1>5, <2>2, <2>3
<1>12. ASSUME NEW i \in 1 .. Len(t1) PROVE t1[i] = t2[i]
  <2>1. 2 * i - 1 \in 1 .. Len(g1) /\ 2 * i - 1 \in 1 .. Len(g2) /\ i \in 1 .. Len(t2)
    BY <1>3, <1>4, <1>8, <1>10
  <2>2. a1[Len(h1) + 1 + (2 * i - 1)] = t1[i]
    BY <1>3, <1>6, <2>1
  <2>3. a2[Len(h2) + 1 + (2 * i - 1)] = t2[i]
    BY <1>4, <1>7, <2>1
  <2>4. Len(h1) = Len(h2)
    BY <1>1, <1>2, <1>9
  <2> QED
    BY <1>5, <2>2, <2>3, <2>4
<1>13. s1 = s2 /\ t1 = t2
  <2>1. DOMAIN s1 = 1 .. Len(s1) /\ DOMAIN s2 = 1 .. Len(s1) /\ DOMAIN t1 = 1 .. Len(t1)
        /\ DOMAIN t2 = 1 .. Len(t1)
    BY <1>1, <1>2, <1>3, <1>4, <1>9, <1>10
  <2>2. s1 = [i \in DOMAIN s1 |-> s1[i]] /\ s2 = [i \in DOMAIN s2 |-> s2[i]]
    BY <1>1, <1>2
  <2>3. s1 = s2
    BY <1>11, <2>1, <2>2
  <2>4. t1 = [i \in DOMAIN t1 |-> t1[i]] /\ t2 = [i \in DOMAIN t2 |-> t2[i]]
    BY <1>3, <1>4
  <2>5. t1 = t2
    BY <1>12, <2>1, <2>4
  <2> QED
    BY <2>3, <2>5
<1> QED
  BY <1>1, <1>2, <1>3, <1>4, <1>13

\* A glob signature tells kinds apart, and what is in a directory.
LEMMA GlobsAreTold ==
    ASSUME NEW a \in Infos, NEW b \in Infos,
           CalculateGlobSignatureFor(a) = CalculateGlobSignatureFor(b)
    PROVE  a.kind = b.kind /\ a.dirs = b.dirs /\ a.files = b.files
<1> DEFINE T == Names \cup {Separator} \cup Int
           lists(i) == HashedNames(i.dirs) \o <<Separator>> \o HashedNames(i.files)
           rest(i) == CASE i.kind = "dir" -> lists(i)
                        [] i.kind = "file" -> <<i.mtime>>
                        [] OTHER -> <<>>
           head(i) == <<Flag(i.kind # "none"), Flag(i.kind = "dir"), Separator>>
<1>1. ASSUME NEW i \in Infos
      PROVE  /\ i.dirs \in SUBSET Names /\ i.files \in SUBSET Names
             /\ IsFiniteSet(i.dirs) /\ IsFiniteSet(i.files)
             /\ i.kind \in {"dir", "file", "none"} /\ i.mtime \in Int
             /\ i.kind # "dir" => i.dirs = {} /\ i.files = {}
  BY DEF Infos
<1>2. ASSUME NEW i \in Infos PROVE CalculateGlobSignatureFor(i) = head(i) \o rest(i)
  BY DEF CalculateGlobSignatureFor
<1>3. ASSUME NEW i \in Infos PROVE lists(i) \in Seq(T)
  <2>1. HashedNames(i.dirs) \in Seq(Names \cup {Separator})
        /\ HashedNames(i.files) \in Seq(Names \cup {Separator})
    BY <1>1, NamesOutcome
  <2>2. Separator \in Names \cup {Separator}
    OBVIOUS
  <2>3. lists(i) \in Seq(Names \cup {Separator})
    BY <2>1, <2>2, JoinedThree
  <2> HIDE DEF lists
  <2> QED
    BY <2>3
<1> HIDE DEF lists
<1>4. ASSUME NEW i \in Infos PROVE rest(i) \in Seq(T)
  <2>1. CASE i.kind = "dir"
    BY <1>3, <2>1
  <2>2. CASE i.kind = "file"
    <3>1. rest(i) = <<i.mtime>> /\ i.mtime \in T
      BY <1>1, <2>2
    <3> HIDE DEF rest, T
    <3> QED
      BY <3>1
  <2>3. CASE i.kind = "none"
    <3>1. rest(i) = <<>>
      BY <2>3
    <3> HIDE DEF rest
    <3> QED
      BY <3>1
  <2> QED
    BY <1>1, <2>1, <2>2, <2>3
<1>5. ASSUME NEW i \in Infos
      PROVE  /\ head(i) \in Seq(T) /\ Len(head(i)) = 3
             /\ head(i)[1] = Flag(i.kind # "none") /\ head(i)[2] = Flag(i.kind = "dir")
  <2>1. Flag(i.kind # "none") \in T /\ Flag(i.kind = "dir") \in T /\ Separator \in T
    BY DEF Flag
  <2> HIDE DEF T
  <2> QED
    BY <2>1
<1> HIDE DEF T, head, rest
<1>6. ASSUME NEW i \in Infos
      PROVE  LET c == CalculateGlobSignatureFor(i) IN
             /\ c[1] = Flag(i.kind # "none") /\ c[2] = Flag(i.kind = "dir")
             /\ Len(c) = 3 + Len(rest(i)) /\ \A k \in 1 .. Len(rest(i)) : c[3 + k] = rest(i)[k]
  <2>1. rest(i) \in Seq(T) /\ head(i) \in Seq(T) /\ Len(head(i)) = 3
        /\ CalculateGlobSignatureFor(i) = head(i) \o rest(i)
    BY <1>2, <1>4, <1>5
  <2>2. head(i)[1] = Flag(i.kind # "none") /\ head(i)[2] = Flag(i.kind = "dir")
    BY <1>5
  <2> DEFINE h == head(i)
             r == rest(i)
             c == CalculateGlobSignatureFor(i)
  <2> HIDE DEF h, r, c
  <2>3. h \in Seq(T) /\ r \in Seq(T) /\ c = h \o r
    BY <2>1 DEF h, r, c
  <2>4. /\ Len(c) = Len(h) + Len(r)
        /\ \A k \in 1 .. Len(h) : c[k] = h[k]
        /\ \A k \in 1 .. Len(r) : c[Len(h) + k] = r[k]
    BY <2>3, JoinedTwo
  <2>5. c[1] = h[1] /\ c[2] = h[2] /\ Len(c) = 3 + Len(r) /\ \A k \in 1 .. Len(r) : c[3 + k] = r[k]
    BY <2>1, <2>4 DEF h
  <2> QED
    BY <2>2, <2>5 DEF h, r, c
<1>7. a.kind = b.kind
  <2>1. Flag(a.kind # "none") = Flag(b.kind # "none") /\ Flag(a.kind = "dir") = Flag(b.kind = "dir")
    BY <1>6
  <2> QED
    BY <1>1, <2>1 DEF Flag
<1>8. rest(a) = rest(b)
  <2>1. rest(a) \in Seq(T) /\ rest(b) \in Seq(T)
    BY <1>4
  <2>2. Len(rest(a)) = Len(rest(b))
    <3>1. 3 + Len(rest(a)) = 3 + Len(rest(b))
      BY <1>6
    <3> QED
      BY <2>1, <3>1
  <2>3. ASSUME NEW k \in 1 .. Len(rest(a)) PROVE rest(a)[k] = rest(b)[k]
    BY <1>6, <2>2
  <2> QED
    BY <2>1, <2>2, <2>3
<1>9. CASE a.kind # "dir"
  BY <1>1, <1>7, <1>9
<1>10. CASE a.kind = "dir"
  <2>1. lists(a) = lists(b)
    BY <1>7, <1>8, <1>10 DEF rest
  <2>2. \/ Len(SortedNames(a.dirs)) <= Len(SortedNames(b.dirs))
        \/ Len(SortedNames(b.dirs)) <= Len(SortedNames(a.dirs))
    <3>1. SortedNames(a.dirs) \in Seq(Names) /\ SortedNames(b.dirs) \in Seq(Names)
      BY <1>1, NamesOutcome
    <3> QED
      BY <3>1
  <2>3. HashedNames(a.dirs) \o <<Separator>> \o HashedNames(a.files)
          = HashedNames(b.dirs) \o <<Separator>> \o HashedNames(b.files)
    BY <2>1 DEF lists
  <2> DEFINE d1 == a.dirs   f1 == a.files   d2 == b.dirs   f2 == b.files
  <2> HIDE DEF d1, f1, d2, f2
  <2>6. /\ d1 \in SUBSET Names /\ f1 \in SUBSET Names /\ IsFiniteSet(d1) /\ IsFiniteSet(f1)
        /\ d2 \in SUBSET Names /\ f2 \in SUBSET Names /\ IsFiniteSet(d2) /\ IsFiniteSet(f2)
        /\ HashedNames(d1) \o <<Separator>> \o HashedNames(f1)
             = HashedNames(d2) \o <<Separator>> \o HashedNames(f2)
    BY <1>1, <2>3 DEF d1, f1, d2, f2
  <2>4. CASE Len(SortedNames(a.dirs)) <= Len(SortedNames(b.dirs))
    <3>1. d1 = d2 /\ f1 = f2
      <4>1. Len(SortedNames(d1)) <= Len(SortedNames(d2))
        BY <2>4 DEF d1, d2
      <4> QED
        BY <2>6, <4>1, ListsAreTold
    <3> QED
      BY <1>7, <3>1 DEF d1, f1, d2, f2
  <2>5. CASE Len(SortedNames(b.dirs)) <= Len(SortedNames(a.dirs))
    <3>1. d2 = d1 /\ f2 = f1
      <4>1. Len(SortedNames(d2)) <= Len(SortedNames(d1))
        BY <2>5 DEF d1, d2
      <4> QED
        BY <2>6, <4>1, ListsAreTold
    <3> QED
      BY <1>7, <3>1 DEF d1, f1, d2, f2
  <2> QED
    BY <2>2, <2>4, <2>5
<1> QED
  BY <1>9, <1>10

\* Signatures that match were taken of the same.
LEMMA SignaturesAreTold ==
    ASSUME NEW g \in Graphs, NEW w \in Worlds(g), NEW v \in Worlds(g),
           FilesMatch(Signatures(g, v), w), VariablesMatch(Signatures(g, v), w)
    PROVE  /\ \A p \in ToSet(FindArray(g, "FileSignatures")) : w.paths[p].mtime = v.paths[p].mtime
           /\ \A p \in ToSet(FindArray(g, "StatSignatures")) : w.paths[p].kind = v.paths[p].kind
           /\ \A p \in ToSet(FindArray(g, "GlobSignatures")) :
                 /\ w.paths[p].kind = v.paths[p].kind
                 /\ w.paths[p].dirs = v.paths[p].dirs
                 /\ w.paths[p].files = v.paths[p].files
           /\ \A e \in ToSet(FindArray(g, "EnvironmentVariableSignatures")) :
                 w.variables[e] = v.variables[e]
<1> DEFINE infos == [p \in DOMAIN v.paths |-> v.paths[p]]
<1>1. ASSUME NEW paths, NEW values, NEW p \in ToSet(paths)
      PROVE  [path |-> p, value |-> values[p]] \in ToSet(EmitSignatures(paths, values))
  <2>1. PICK k \in DOMAIN paths : paths[k] = p
    BY <1>1 DEF ToSet
  <2>2. EmitSignatures(paths, values)[k] = [path |-> p, value |-> values[p]]
        /\ k \in DOMAIN EmitSignatures(paths, values)
    BY <2>1 DEF EmitSignatures
  <2> QED
    BY <2>2 DEF ToSet
<1>2. ASSUME NEW p \in ToSet(FindArray(g, "FileSignatures"))
      PROVE  w.paths[p].mtime = v.paths[p].mtime
  <2> DEFINE values == [q \in DOMAIN infos |-> infos[q].mtime]
  <2>1. p \in DOMAIN v.paths /\ values[p] = v.paths[p].mtime
    BY WorldAssumption
  <2>2. Signatures(g, v).files = EmitSignatures(FindArray(g, "FileSignatures"), values)
    BY DEF Signatures, GetFileInfo
  <2> HIDE DEF values
  <2>3. [path |-> p, value |-> values[p]] \in ToSet(Signatures(g, v).files)
    BY <1>1, <2>2
  <2> QED
    BY <2>1, <2>3 DEF FilesMatch, GetFileInfo
<1>3. ASSUME NEW p \in ToSet(FindArray(g, "StatSignatures"))
      PROVE  w.paths[p].kind = v.paths[p].kind
  <2> DEFINE values == [q \in DOMAIN infos |-> GetStatSignatureStatusFor(infos[q])]
  <2>1. p \in DOMAIN v.paths /\ values[p] = GetStatSignatureStatusFor(v.paths[p])
        /\ v.paths[p] \in Infos /\ w.paths[p] \in Infos
    BY WorldAssumption
  <2>2. Signatures(g, v).stats = EmitSignatures(FindArray(g, "StatSignatures"), values)
    BY DEF Signatures, GetFileInfo
  <2> HIDE DEF values
  <2>3. [path |-> p, value |-> values[p]] \in ToSet(Signatures(g, v).stats)
    BY <1>1, <2>2
  <2>4. GetStatSignatureStatusFor(w.paths[p]) = GetStatSignatureStatusFor(v.paths[p])
    BY <2>1, <2>3 DEF FilesMatch, GetFileInfo
  <2> QED
    BY <2>1, <2>4 DEF GetStatSignatureStatusFor, Infos
<1>4. ASSUME NEW p \in ToSet(FindArray(g, "GlobSignatures"))
      PROVE  /\ w.paths[p].kind = v.paths[p].kind
             /\ w.paths[p].dirs = v.paths[p].dirs
             /\ w.paths[p].files = v.paths[p].files
  <2> DEFINE values == [q \in DOMAIN infos |-> CalculateGlobSignatureFor(infos[q])]
  <2>1. p \in DOMAIN v.paths /\ values[p] = CalculateGlobSignatureFor(v.paths[p])
        /\ v.paths[p] \in Infos /\ w.paths[p] \in Infos
    BY WorldAssumption
  <2>2. Signatures(g, v).globs = EmitSignatures(FindArray(g, "GlobSignatures"), values)
    BY DEF Signatures, GetFileInfo
  <2> HIDE DEF values
  <2>3. [path |-> p, value |-> values[p]] \in ToSet(Signatures(g, v).globs)
    BY <1>1, <2>2
  <2>4. CalculateGlobSignatureFor(w.paths[p]) = CalculateGlobSignatureFor(v.paths[p])
    BY <2>1, <2>3 DEF FilesMatch, GetFileInfo
  <2> QED
    BY <2>1, <2>4, GlobsAreTold
<1>5. ASSUME NEW e \in ToSet(FindArray(g, "EnvironmentVariableSignatures"))
      PROVE  w.variables[e] = v.variables[e]
  <2> DEFINE values == [q \in DOMAIN v.variables |-> GetEnv(v, q)]
  <2>1. e \in DOMAIN v.variables /\ values[e] = v.variables[e]
    BY WorldAssumption DEF GetEnv
  <2>2. Signatures(g, v).variables
          = EmitSignatures(FindArray(g, "EnvironmentVariableSignatures"), values)
    BY DEF Signatures
  <2> HIDE DEF values
  <2>3. [path |-> e, value |-> values[e]] \in ToSet(Signatures(g, v).variables)
    BY <1>1, <2>2
  <2> QED
    BY <2>1, <2>3 DEF VariablesMatch, GetEnv
<1> QED
  BY <1>2, <1>3, <1>4, <1>5

---------------------------------------------------------------------------
(* Loops: what is defined step by step, and what holds of each step *)

\* Every set of natural numbers that is not empty has a least one.
LEMMA LeastNumber ==
    ASSUME NEW S \in SUBSET Nat, S # {}
    PROVE  \E m \in S : \A k \in S : m <= k
<1>1. PICK m \in S : \A k \in S : ~(<<k, m>> \in OpToRel(<, Nat))
  BY NatLessThanWellFounded, WFMin
<1>2. \A k \in S : ~(k < m)
  BY <1>1, Zenon DEF OpToRel
<1> QED
  BY <1>2

\* A loop of n rounds over values V: the first is given, F makes the next.
Rounds(n, V, first, F) ==
    {g \in [0 .. n -> V] : g[0] = first /\ \A k \in 1 .. n : g[k] = F[<<k, g[k - 1]>>]}

\* A function that is defined step by step has the value of every step.
LEMMA LoopIsDefined ==
    ASSUME NEW n \in Nat, NEW V, NEW first \in V, NEW F,
           \A k \in 1 .. n : \A v \in V : F[<<k, v>>] \in V
    PROVE  Rounds(n, V, first, F) # {}
<1> DEFINE missed == {m \in 0 .. n : Rounds(m, V, first, F) = {}}
<1>1. SUFFICES ASSUME missed # {} PROVE FALSE
  <2>1. n \in 0 .. n
    OBVIOUS
  <2> QED
    BY <2>1
<1>2. PICK m \in missed : \A k \in missed : m <= k
  <2>1. missed \in SUBSET Nat
    OBVIOUS
  <2> HIDE DEF missed
  <2> QED
    BY <1>1, <2>1, LeastNumber
<1>3. ASSUME m = 0 PROVE FALSE
  <2> DEFINE g == [k \in 0 .. 0 |-> first]
  <2>1. g \in [0 .. 0 -> V] /\ g[0] = first /\ (1 .. 0) = {}
    OBVIOUS
  <2>2. g \in Rounds(0, V, first, F)
    BY <2>1 DEF Rounds
  <2> QED
    BY <1>2, <1>3, <2>2
<1>4. m - 1 \in 0 .. n /\ m \in 1 .. n /\ Rounds(m - 1, V, first, F) # {}
  <2>1. m \in 1 .. n
    BY <1>2, <1>3
  <2>2. m - 1 \in 0 .. n /\ ~(m <= m - 1)
    BY <2>1
  <2>3. m - 1 \notin missed
    BY <1>2, <2>2
  <2> QED
    BY <2>1, <2>2, <2>3
<1>5. PICK g \in [0 .. m - 1 -> V] : g[0] = first /\ \A k \in 1 .. m - 1 : g[k] = F[<<k, g[k - 1]>>]
  BY <1>4 DEF Rounds
<1>6. g[m - 1] \in V /\ F[<<m, g[m - 1]>>] \in V
  BY <1>4
<1> DEFINE h == [k \in 0 .. m |-> IF k = m THEN F[<<m, g[m - 1]>>] ELSE g[k]]
<1>7. h \in [0 .. m -> V] /\ h[0] = first
  BY <1>4, <1>5, <1>6
<1>8. h[m] = F[<<m, g[m - 1]>>] /\ \A k \in 0 .. m - 1 : h[k] = g[k]
  BY <1>4
<1> HIDE DEF h
<1>9. ASSUME NEW k \in 1 .. m PROVE h[k] = F[<<k, h[k - 1]>>]
  <2>1. k - 1 \in 0 .. m - 1 /\ h[k - 1] = g[k - 1]
    BY <1>4, <1>8
  <2>2. CASE k = m
    BY <1>8, <2>1, <2>2
  <2>3. CASE k # m
    <3>1. k \in 1 .. m - 1 /\ k \in 0 .. m - 1
      BY <1>4, <2>3
    <3> QED
      BY <1>5, <1>8, <2>1, <3>1
  <2> QED
    BY <2>2, <2>3
<1>10. h \in Rounds(m, V, first, F)
  BY <1>7, <1>9 DEF Rounds
<1> QED
  BY <1>2, <1>10

\* What holds before the rounds and is kept by each holds after them.
LEMMA LoopKeeps ==
    ASSUME NEW n \in Nat, NEW Good \in SUBSET (0 .. n), 0 \in Good,
           \A k \in 1 .. n : k - 1 \in Good => k \in Good
    PROVE  Good = 0 .. n
<1>1. SUFFICES ASSUME (0 .. n) \ Good # {} PROVE FALSE
  OBVIOUS
<1>2. PICK m \in (0 .. n) \ Good : \A k \in (0 .. n) \ Good : m <= k
  <2>1. (0 .. n) \ Good \in SUBSET Nat
    OBVIOUS
  <2> QED
    BY <1>1, <2>1, LeastNumber
<1>3. m \in 1 .. n /\ m - 1 \in 0 .. n /\ ~(m <= m - 1)
  BY <1>2
<1> QED
  BY <1>2, <1>3

LEMMA LastAndFront ==
    ASSUME NEW S, NEW s \in Seq(S), s # <<>>
    PROVE  /\ Last(s) \in S /\ Front(s) \in Seq(S)
           /\ ToSet(s) = ToSet(Front(s)) \cup {Last(s)}
<1>1. Len(s) \in Nat \ {0} /\ DOMAIN s = 1 .. Len(s) /\ \A k \in 1 .. Len(s) : s[k] \in S
  BY EmptySeq
<1>2. Last(s) = s[Len(s)] /\ Front(s) = SubSeq(s, 1, Len(s) - 1)
  BY DEF Last, Front
<1> DEFINE t == SubSeq(s, 1, Len(s) - 1)
<1>3. t \in Seq(S) /\ DOMAIN t = 1 .. Len(s) - 1 /\ \A k \in 1 .. Len(s) - 1 : t[k] = s[k]
  BY <1>1
<1> HIDE DEF t
<1>4. ToSet(s) = ToSet(t) \cup {s[Len(s)]}
  BY <1>1, <1>3 DEF ToSet
<1> QED
  BY <1>1, <1>2, <1>3, <1>4 DEF t

\* What is appended is all that is new in a sequence.
LEMMA AppendedElements ==
    ASSUME NEW S, NEW s \in Seq(S), NEW e \in S
    PROVE  Append(s, e) \in Seq(S) /\ ToSet(Append(s, e)) = ToSet(s) \cup {e}
<1>1. Append(s, e) \in Seq(S) /\ Len(Append(s, e)) = Len(s) + 1
      /\ Append(s, e)[Len(s) + 1] = e /\ \A k \in 1 .. Len(s) : Append(s, e)[k] = s[k]
  BY AppendProperties
<1>2. DOMAIN s = 1 .. Len(s) /\ DOMAIN Append(s, e) = 1 .. Len(s) + 1 /\ Len(s) \in Nat
  BY <1>1
<1> QED
  BY <1>1, <1>2 DEF ToSet

---------------------------------------------------------------------------
(* The nodes a node is made of *)

\* A graph whose edges lead to nodes of it.
Wired(d) ==
    /\ Len(d.nodes) \in Nat /\ NodesOf(d) = 1 .. Len(d.nodes)
    /\ \A n \in NodesOf(d) :
          d.nodes[n].toBuild \in Seq(NodesOf(d)) /\ d.nodes[n].toUse \in Seq(NodesOf(d))
ChildrenIn(d, n) == ToSet(d.nodes[n].toBuild) \cup ToSet(d.nodes[n].toUse)

Once(s) == \A i, j \in DOMAIN s : s[i] = s[j] => i = j
Searches(d) ==
    {s \in [results : Seq(NodesOf(d)), stack : Seq(NodesOf(d)), cacheable : Seq(NodesOf(d))] :
        Once(s.results) /\ Once(s.stack) /\ ToSet(s.stack) \subseteq ToSet(s.results)}

\* t is what the search s has come to when it has visited the nodes C.
Visited(d, s, t, C) ==
    /\ ToSet(s.results) \subseteq ToSet(t.results)
    /\ ToSet(s.cacheable) \subseteq ToSet(t.cacheable)
    /\ ToSet(t.stack) = ToSet(s.stack) \cup (ToSet(t.results) \ ToSet(s.results))
    /\ Len(t.results) - Len(t.stack) = Len(s.results) - Len(s.stack)
    /\ \A c \in C : c \in ToSet(t.results) \/ (IsLeafInputCacheable(d, c) /\ c \in ToSet(t.cacheable))
    /\ \A r \in ToSet(t.results) :
          r \in ToSet(s.results) \/ (r \in C /\ ~IsLeafInputCacheable(d, r))

LEMMA AppendedOnce ==
    ASSUME NEW S, NEW s \in Seq(S), NEW e \in S, Once(s), e \notin ToSet(s)
    PROVE  Once(Append(s, e))
<1>1. Append(s, e) \in Seq(S) /\ Len(Append(s, e)) = Len(s) + 1
      /\ Append(s, e)[Len(s) + 1] = e /\ \A k \in 1 .. Len(s) : Append(s, e)[k] = s[k]
  BY AppendProperties
<1>2. DOMAIN s = 1 .. Len(s) /\ DOMAIN Append(s, e) = 1 .. Len(s) + 1 /\ Len(s) \in Nat
  BY <1>1
<1>3. \A k \in 1 .. Len(s) : s[k] # e
  BY <1>2 DEF ToSet
<1> QED
  BY <1>1, <1>2, <1>3 DEF Once

LEMMA VisitOutcome ==
    ASSUME NEW d, NEW s \in Searches(d), NEW n \in NodesOf(d)
    PROVE  Visit(d, s, n) \in Searches(d) /\ Visited(d, s, Visit(d, s, n), {n})
<1> DEFINE t == Visit(d, s, n)
           N == NodesOf(d)
<1>0. /\ s.results \in Seq(N) /\ s.stack \in Seq(N) /\ s.cacheable \in Seq(N)
      /\ Once(s.results) /\ Once(s.stack) /\ ToSet(s.stack) \subseteq ToSet(s.results)
      /\ s = [results |-> s.results, stack |-> s.stack, cacheable |-> s.cacheable]
  BY DEF Searches
<1>1. CASE n \in ToSet(s.results)
  <2>1. t = s
    BY <1>1 DEF Visit
  <2> QED
    BY <1>1, <2>1 DEF Visited
<1>2. CASE n \notin ToSet(s.results) /\ IsLeafInputCacheable(d, n)
  <2>1. Append(s.cacheable, n) \in Seq(N)
        /\ ToSet(Append(s.cacheable, n)) = ToSet(s.cacheable) \cup {n}
    BY <1>0, AppendedElements
  <2>2. t = [s EXCEPT !.cacheable = Append(s.cacheable, n)]
    BY <1>2 DEF Visit
  <2>3. t.results = s.results /\ t.stack = s.stack /\ t.cacheable = Append(s.cacheable, n)
    BY <1>0, <2>2
  <2>4. t \in Searches(d)
    BY <1>0, <2>1, <2>2 DEF Searches
  <2> HIDE DEF t
  <2> QED
    BY <1>2, <2>1, <2>3, <2>4 DEF Visited, t
<1>3. CASE n \notin ToSet(s.results) /\ ~IsLeafInputCacheable(d, n)
  <2>1. /\ Append(s.results, n) \in Seq(N)
        /\ ToSet(Append(s.results, n)) = ToSet(s.results) \cup {n}
        /\ Append(s.stack, n) \in Seq(N)
        /\ ToSet(Append(s.stack, n)) = ToSet(s.stack) \cup {n}
    BY <1>0, AppendedElements
  <2>2. t = [s EXCEPT !.results = Append(s.results, n), !.stack = Append(s.stack, n)]
    BY <1>3 DEF Visit
  <2>3. t.results = Append(s.results, n) /\ t.stack = Append(s.stack, n) /\ t.cacheable = s.cacheable
    BY <1>0, <2>2
  <2>4. Once(Append(s.results, n)) /\ Once(Append(s.stack, n))
    BY <1>0, <1>3, AppendedOnce
  <2>5. t \in Searches(d)
    <3>1. t \in [results : Seq(N), stack : Seq(N), cacheable : Seq(N)]
      BY <1>0, <2>1, <2>2
    <3> HIDE DEF t
    <3> QED
      BY <1>0, <2>1, <2>3, <2>4, <3>1 DEF Searches
  <2>6. Len(Append(s.results, n)) = Len(s.results) + 1 /\ Len(Append(s.stack, n)) = Len(s.stack) + 1
        /\ Len(s.results) \in Nat /\ Len(s.stack) \in Nat
    BY <1>0
  <2> HIDE DEF t
  <2> QED
    BY <1>3, <2>1, <2>3, <2>5, <2>6 DEF Visited, t
<1> QED
  BY <1>1, <1>2, <1>3

LEMMA VisitedNothing ==
    ASSUME NEW d, NEW s \in Searches(d)
    PROVE  Visited(d, s, s, {})
BY DEF Visited, Searches

LEMMA VisitedMore ==
    ASSUME NEW d, NEW s \in Searches(d), NEW t \in Searches(d), NEW u \in Searches(d),
           NEW C, NEW n, Visited(d, s, t, C), Visited(d, t, u, {n})
    PROVE  Visited(d, s, u, C \cup {n})
<1>1. /\ Len(s.results) \in Nat /\ Len(s.stack) \in Nat /\ Len(t.results) \in Nat
      /\ Len(t.stack) \in Nat /\ Len(u.results) \in Nat /\ Len(u.stack) \in Nat
  BY DEF Searches
<1>2. Len(u.results) - Len(u.stack) = Len(s.results) - Len(s.stack)
  BY <1>1 DEF Visited
<1>3. /\ ToSet(s.results) \subseteq ToSet(u.results)
      /\ ToSet(s.cacheable) \subseteq ToSet(u.cacheable)
      /\ ToSet(u.stack) = ToSet(s.stack) \cup (ToSet(u.results) \ ToSet(s.results))
  BY DEF Visited
<1>4. \A c \in C \cup {n} : c \in ToSet(u.results) \/ (IsLeafInputCacheable(d, c) /\ c \in ToSet(u.cacheable))
  BY DEF Visited
<1>5. \A r \in ToSet(u.results) :
          r \in ToSet(s.results) \/ (r \in C \cup {n} /\ ~IsLeafInputCacheable(d, r))
  BY DEF Visited
<1> QED
  BY <1>2, <1>3, <1>4, <1>5 DEF Visited

\* A node of the stack is popped and all that it depends on is visited.
LEMMA SearchOutcome ==
    ASSUME NEW d, Wired(d), NEW s \in Searches(d), s.stack # <<>>
    PROVE  LET first == [s EXCEPT !.stack = Front(@)]
               n == Last(s.stack)
               t == Search(d, s)
           IN  /\ n \in NodesOf(d) /\ first \in Searches(d) /\ t \in Searches(d)
               /\ first.results = s.results /\ first.cacheable = s.cacheable
               /\ first.stack = Front(s.stack) /\ Len(first.stack) = Len(s.stack) - 1
               /\ ToSet(s.stack) = ToSet(first.stack) \cup {n} /\ n \notin ToSet(first.stack)
               /\ Visited(d, first, t, ChildrenIn(d, n))
<1> DEFINE N == NodesOf(d)
           first == [s EXCEPT !.stack = Front(@)]
           n == Last(s.stack)
           next == d.nodes[n].toBuild \o d.nodes[n].toUse
           V == Searches(d)
           F == [x \in (1 .. Len(next)) \X V |-> Visit(d, x[2], next[x[1]])]
           P(v) == v = [k \in 0 .. Len(next) |-> IF k = 0 THEN first ELSE Visit(d, v[k - 1], next[k])]
           visited == CHOOSE v : P(v)
<1>1. /\ s.results \in Seq(N) /\ s.stack \in Seq(N) /\ s.cacheable \in Seq(N)
      /\ Once(s.results) /\ Once(s.stack) /\ ToSet(s.stack) \subseteq ToSet(s.results)
      /\ s = [results |-> s.results, stack |-> s.stack, cacheable |-> s.cacheable]
  BY DEF Searches
<1>2. /\ n \in N /\ Front(s.stack) \in Seq(N)
      /\ ToSet(s.stack) = ToSet(Front(s.stack)) \cup {n}
  BY <1>1, LastAndFront
<1>3. /\ Len(Front(s.stack)) = Len(s.stack) - 1 /\ Once(Front(s.stack)) /\ n \notin ToSet(Front(s.stack))
  <2> DEFINE z == s.stack
             f == SubSeq(z, 1, Len(z) - 1)
  <2>1. z \in Seq(N) /\ z # <<>> /\ Once(z)
    BY <1>1
  <2> HIDE DEF z
  <2>2. Len(z) \in Nat /\ Len(z) > 0 /\ DOMAIN z = 1 .. Len(z)
    BY <2>1, EmptySeq
  <2>3. DOMAIN f = 1 .. Len(z) - 1 /\ Len(f) = Len(z) - 1 /\ \A k \in 1 .. Len(z) - 1 : f[k] = z[k]
    BY <2>1, <2>2
  <2> HIDE DEF f
  <2>4. Once(f)
    BY <2>1, <2>2, <2>3 DEF Once
  <2>5. z[Len(z)] \notin ToSet(f)
    <3> SUFFICES ASSUME NEW k \in 1 .. Len(z) - 1, f[k] = z[Len(z)] PROVE FALSE
      BY <2>3 DEF ToSet
    <3>2. z[k] = z[Len(z)]
      BY <2>3
    <3> DEFINE m == Len(z)
    <3>3. m \in Nat /\ m > 0 /\ k \in 1 .. m - 1
      BY <2>2
    <3>1. k \in 1 .. m /\ m \in 1 .. m /\ k # m
      <4> HIDE DEF m
      <4> QED
        BY <3>3
    <3> QED
      BY <2>1, <2>2, <3>1, <3>2 DEF Once
  <2>6. Front(z) = f /\ Last(z) = z[Len(z)]
    BY DEF Front, Last, f
  <2> QED
    BY <2>3, <2>4, <2>5, <2>6 DEF z
<1>4. first.results = s.results /\ first.cacheable = s.cacheable /\ first.stack = Front(s.stack)
  BY <1>1
<1>5. first \in V
  <2>1. first \in [results : Seq(N), stack : Seq(N), cacheable : Seq(N)]
    BY <1>1, <1>2
  <2> HIDE DEF first, n
  <2> QED
    BY <1>1, <1>2, <1>3, <1>4, <2>1 DEF Searches
<1>6. next \in Seq(N) /\ Len(next) \in Nat /\ \A k \in 1 .. Len(next) : next[k] \in N
  <2>1. d.nodes[n].toBuild \in Seq(N) /\ d.nodes[n].toUse \in Seq(N)
    BY <1>2 DEF Wired
  <2>2. next = d.nodes[n].toBuild \o d.nodes[n].toUse
    OBVIOUS
  <2> HIDE DEF next, N
  <2>3. next \in Seq(N)
    BY <2>1, <2>2, ConcatProperties
  <2> QED
    BY <2>3
<1>7. {next[k] : k \in 1 .. Len(next)} = ChildrenIn(d, n)
  <2> DEFINE b == d.nodes[n].toBuild
             u == d.nodes[n].toUse
  <2>1. b \in Seq(N) /\ u \in Seq(N)
    BY <1>2 DEF Wired
  <2>2. next = b \o u /\ ChildrenIn(d, n) = ToSet(b) \cup ToSet(u)
    BY DEF ChildrenIn
  <2> HIDE DEF b, u, next
  <2>3. /\ Len(next) = Len(b) + Len(u)
        /\ \A k \in 1 .. Len(b) : next[k] = b[k]
        /\ \A k \in 1 .. Len(u) : next[Len(b) + k] = u[k]
    BY <2>1, <2>2, JoinedTwo
  <2>4. DOMAIN b = 1 .. Len(b) /\ DOMAIN u = 1 .. Len(u) /\ Len(b) \in Nat /\ Len(u) \in Nat
    BY <2>1
  <2>5. ASSUME NEW k \in 1 .. Len(next) PROVE next[k] \in ToSet(b) \cup ToSet(u)
    <3>1. CASE k <= Len(b)
      BY <2>3, <2>4, <3>1 DEF ToSet
    <3>2. CASE ~(k <= Len(b))
      <4>1. k - Len(b) \in 1 .. Len(u) /\ Len(b) + (k - Len(b)) = k
        BY <2>3, <2>4, <3>2
      <4>2. next[k] = u[k - Len(b)]
        BY <2>3, <4>1
      <4> QED
        BY <2>4, <4>1, <4>2 DEF ToSet
    <3> QED
      BY <3>1, <3>2
  <2>6. ASSUME NEW c \in ToSet(b) PROVE \E k \in 1 .. Len(next) : next[k] = c
    <3>1. PICK k \in 1 .. Len(b) : b[k] = c
      BY <2>4 DEF ToSet
    <3> QED
      BY <2>3, <2>4, <3>1
  <2>7. ASSUME NEW c \in ToSet(u) PROVE \E k \in 1 .. Len(next) : next[k] = c
    <3>1. PICK k \in 1 .. Len(u) : u[k] = c
      BY <2>4 DEF ToSet
    <3>2. Len(b) + k \in 1 .. Len(next)
      BY <2>3, <2>4
    <3> QED
      BY <2>3, <3>1, <3>2
  <2> QED
    BY <2>2, <2>5, <2>6, <2>7
<1>8. \A k \in 1 .. Len(next) : \A v \in V : F[<<k, v>>] = Visit(d, v, next[k]) /\ F[<<k, v>>] \in V
  <2> HIDE DEF next
  <2> QED
    BY <1>6, VisitOutcome
<1> HIDE DEF first, F, next, n
<1>9. PICK g \in [0 .. Len(next) -> V] :
          g[0] = first /\ \A k \in 1 .. Len(next) : g[k] = F[<<k, g[k - 1]>>]
  <2>1. Rounds(Len(next), V, first, F) # {}
    BY <1>5, <1>6, <1>8, LoopIsDefined
  <2> QED
    BY <2>1 DEF Rounds
<1>10. P(g)
  <2>1. ASSUME NEW k \in 1 .. Len(next) PROVE g[k] = Visit(d, g[k - 1], next[k])
    <3>1. k - 1 \in 0 .. Len(next) /\ g[k - 1] \in V
      BY <1>6, <1>9
    <3> QED
      BY <1>8, <1>9, <3>1
  <2>2. g[0] = first /\ g \in [0 .. Len(next) -> V]
    BY <1>9
  <2> HIDE DEF visited, V
  <2> QED
    BY <1>6, <2>1, <2>2
<1>11. P(visited)
  <2> HIDE DEF P
  <2> QED
    BY <1>10
<1>12. Search(d, s) = visited[Len(next)]
  BY DEF Search, n, next, first
<1> HIDE DEF visited
<1>13. visited[0] = first /\ \A k \in 1 .. Len(next) : visited[k] = Visit(d, visited[k - 1], next[k])
  BY <1>6, <1>11
<1> DEFINE Good(k) == visited[k] \in V /\ Visited(d, first, visited[k], {next[l] : l \in 1 .. k})
           good == {k \in 0 .. Len(next) : Good(k)}
<1>14. Good(0)
  <2>1. {next[l] : l \in 1 .. 0} = {}
    OBVIOUS
  <2> QED
    BY <1>5, <1>13, <2>1, VisitedNothing
<1>15. ASSUME NEW k \in 1 .. Len(next), Good(k - 1) PROVE Good(k)
  <2>1. visited[k] \in V /\ Visited(d, visited[k - 1], visited[k], {next[k]})
    BY <1>6, <1>13, <1>15, VisitOutcome
  <2>2. {next[l] : l \in 1 .. k} = {next[l] : l \in 1 .. k - 1} \cup {next[k]}
    BY <1>6
  <2> QED
    BY <1>5, <1>15, <2>1, <2>2, VisitedMore
<1>16. Good(Len(next))
  <2>1. good \in SUBSET (0 .. Len(next)) /\ 0 \in good
        /\ \A k \in 1 .. Len(next) : k - 1 \in good => k \in good
    <3>1. \A k \in 1 .. Len(next) : k \in 0 .. Len(next)
      OBVIOUS
    <3> HIDE DEF Good
    <3> QED
      BY <1>6, <1>14, <1>15, <3>1
  <2> HIDE DEF good
  <2>2. good = 0 .. Len(next)
    BY <1>6, <2>1, LoopKeeps
  <2>3. Len(next) \in good
    BY <1>6, <2>2
  <2> QED
    BY <2>3 DEF good
<1>17. Len(first.stack) = Len(s.stack) - 1 /\ ToSet(s.stack) = ToSet(first.stack) \cup {n}
       /\ n \notin ToSet(first.stack)
  BY <1>2, <1>3, <1>4 DEF n
<1>18. Visited(d, first, Search(d, s), ChildrenIn(d, n)) /\ Search(d, s) \in V
  BY <1>7, <1>12, <1>16
<1> QED
  BY <1>2, <1>4, <1>5, <1>17, <1>18 DEF first, n

\* No more different nodes are in a sequence than there are.
LEMMA OnceIsShort ==
    ASSUME NEW n \in Nat, NEW s \in Seq(1 .. n), Once(s)
    PROVE  Len(s) <= n
<1>1. s \in Injection(1 .. Len(s), 1 .. n) /\ Len(s) \in Nat
  BY DEF Once, Injection, IsInjective
<1>2. ASSUME NEW m \in Nat PROVE IsFiniteSet(1 .. m) /\ Cardinality(1 .. m) = m
  BY FS_Interval
<1>3. Cardinality(1 .. Len(s)) <= Cardinality(1 .. n)
  BY <1>1, <1>2, FS_Injection
<1> QED
  BY <1>1, <1>2, <1>3

\* What is closed under dependencies but for cacheable nodes.
OwnClosed(d, S) ==
    \A k \in S : \A c \in ChildrenIn(d, k) : c \in S \/ IsLeafInputCacheable(d, c)

\* The nodes found are the least set of nodes that holds the first and what its
\* nodes depend on, cacheable nodes left out, which are remembered.
LEMMA FindOutcome ==
    ASSUME NEW d, Wired(d), NEW root \in NodesOf(d)
    PROVE  LET f == FindDependentNodes(d, root) IN
           /\ f \in Searches(d) /\ root \in ToSet(f.results)
           /\ \A m \in ToSet(f.results) : \A c \in ChildrenIn(d, m) :
                  c \in ToSet(f.results) \/ (IsLeafInputCacheable(d, c) /\ c \in ToSet(f.cacheable))
           /\ \A S \in SUBSET NodesOf(d) :
                  root \in S /\ OwnClosed(d, S) => ToSet(f.results) \subseteq S
<1> DEFINE N == NodesOf(d)
           n == Len(d.nodes)
           V == Searches(d)
           first == [results |-> <<root>>, stack |-> <<root>>, cacheable |-> <<>>]
           F == [x \in (1 .. n) \X V |-> Search(d, x[2])]
           P(v) == v = [k \in 0 .. n |-> IF k = 0 THEN first ELSE Search(d, v[k - 1])]
           at == CHOOSE v : P(v)
<1>1. n \in Nat /\ N = 1 .. n
  BY DEF Wired
<1>2. first \in V /\ ToSet(first.results) = {root} /\ ToSet(first.stack) = {root}
      /\ Len(first.results) = 1 /\ Len(first.stack) = 1
  <2>1. <<root>> \in Seq(N) /\ <<>> \in Seq(N) /\ DOMAIN <<root>> = {1} /\ <<root>>[1] = root
        /\ Len(<<root>>) = 1
    OBVIOUS
  <2>2. Once(<<root>>) /\ ToSet(<<root>>) = {root}
    BY <2>1 DEF Once, ToSet
  <2> QED
    BY <2>1, <2>2 DEF Searches
<1> HIDE DEF first, n, V
<1>3. \A k \in 1 .. n : \A v \in V : F[<<k, v>>] = Search(d, v) /\ F[<<k, v>>] \in V
  <2>1. ASSUME NEW v \in V PROVE Search(d, v) \in V
    <3>1. CASE v.stack = <<>>
      BY <3>1 DEF Search
    <3>2. CASE v.stack # <<>>
      BY <3>2, SearchOutcome DEF V
    <3> QED
      BY <3>1, <3>2
  <2> QED
    BY <2>1
<1> HIDE DEF F
<1>4. PICK g \in [0 .. n -> V] : g[0] = first /\ \A k \in 1 .. n : g[k] = F[<<k, g[k - 1]>>]
  <2>1. Rounds(n, V, first, F) # {}
    BY <1>1, <1>2, <1>3, LoopIsDefined
  <2> QED
    BY <2>1 DEF Rounds
<1>5. P(g)
  <2>1. ASSUME NEW k \in 1 .. n PROVE g[k] = Search(d, g[k - 1])
    <3>1. k - 1 \in 0 .. n /\ g[k - 1] \in V
      BY <1>1, <1>4
    <3> QED
      BY <1>3, <1>4, <3>1
  <2>2. g[0] = first /\ g \in [0 .. n -> V]
    BY <1>4
  <2> HIDE DEF at
  <2> QED
    BY <1>1, <2>1, <2>2
<1>6. P(at)
  <2> HIDE DEF P
  <2> QED
    BY <1>5
<1>7. FindDependentNodes(d, root) = at[n]
  BY DEF FindDependentNodes, first, n
<1> HIDE DEF at
<1>8. at[0] = first /\ \A k \in 1 .. n : at[k] = Search(d, at[k - 1])
  BY <1>1, <1>6
<1> DEFINE Kept(s) ==
        \A m \in ToSet(s.results) \ ToSet(s.stack) : \A c \in ChildrenIn(d, m) :
            c \in ToSet(s.results) \/ (IsLeafInputCacheable(d, c) /\ c \in ToSet(s.cacheable))
           Least(s) == \A S \in SUBSET N : root \in S /\ OwnClosed(d, S) => ToSet(s.results) \subseteq S
           Good(k) == /\ at[k] \in V /\ root \in ToSet(at[k].results)
                      /\ Kept(at[k]) /\ Least(at[k])
                      /\ at[k].stack = <<>> \/ Len(at[k].results) = Len(at[k].stack) + k
           good == {k \in 0 .. n : Good(k)}
<1>9. Good(0)
  <2>1. Kept(first) /\ Least(first) /\ Len(first.results) = Len(first.stack) + 0
    BY <1>2
  <2> HIDE DEF Kept, Least
  <2> QED
    BY <1>2, <1>8, <2>1
<1>10. ASSUME NEW k \in 1 .. n, Good(k - 1) PROVE Good(k)
  <2> DEFINE s == at[k - 1]
             t == at[k]
  <2>0. t = Search(d, s) /\ s \in V /\ root \in ToSet(s.results) /\ Kept(s) /\ Least(s)
        /\ (s.stack = <<>> \/ Len(s.results) = Len(s.stack) + (k - 1))
    BY <1>8, <1>10
  <2> HIDE DEF s, t
  <2>1. CASE s.stack = <<>>
    <3>1. t = s
      BY <2>0, <2>1 DEF Search
    <3> HIDE DEF Kept, Least
    <3> QED
      BY <2>0, <2>1, <3>1 DEF s, t
  <2>2. CASE s.stack # <<>>
    <3> DEFINE begun == [s EXCEPT !.stack = Front(@)]
               m == Last(s.stack)
    <3>1. /\ m \in N /\ begun \in V /\ t \in V
          /\ begun.results = s.results /\ begun.cacheable = s.cacheable
          /\ Len(begun.stack) = Len(s.stack) - 1
          /\ ToSet(s.stack) = ToSet(begun.stack) \cup {m}
          /\ Visited(d, begun, t, ChildrenIn(d, m))
      BY <2>0, <2>2, SearchOutcome DEF V
    <3> HIDE DEF begun, m
    <3>2. ToSet(s.stack) \subseteq ToSet(s.results) /\ m \in ToSet(s.results)
      BY <2>0, <3>1 DEF V, Searches
    <3>3. /\ ToSet(s.results) \subseteq ToSet(t.results)
          /\ ToSet(s.cacheable) \subseteq ToSet(t.cacheable)
          /\ ToSet(t.stack) = ToSet(begun.stack) \cup (ToSet(t.results) \ ToSet(s.results))
          /\ Len(t.results) - Len(t.stack) = Len(s.results) - Len(begun.stack)
          /\ \A c \in ChildrenIn(d, m) :
                c \in ToSet(t.results) \/ (IsLeafInputCacheable(d, c) /\ c \in ToSet(t.cacheable))
          /\ \A r \in ToSet(t.results) :
                r \in ToSet(s.results) \/ (r \in ChildrenIn(d, m) /\ ~IsLeafInputCacheable(d, r))
      BY <3>1 DEF Visited
    <3>4. Kept(t)
      <4> SUFFICES ASSUME NEW r \in ToSet(t.results) \ ToSet(t.stack), NEW c \in ChildrenIn(d, r)
                   PROVE  c \in ToSet(t.results) \/ (IsLeafInputCacheable(d, c) /\ c \in ToSet(t.cacheable))
        OBVIOUS
      <4>1. r \in ToSet(s.results) /\ r \notin ToSet(begun.stack)
        BY <3>3
      <4>2. CASE r = m
        BY <3>3, <4>2
      <4>3. CASE r # m
        <5>1. r \in ToSet(s.results) \ ToSet(s.stack)
          BY <3>1, <4>1, <4>3
        <5>2. c \in ToSet(s.results) \/ (IsLeafInputCacheable(d, c) /\ c \in ToSet(s.cacheable))
          BY <2>0, <5>1
        <5> QED
          BY <3>3, <5>2
      <4> QED
        BY <4>2, <4>3
    <3>5. Least(t)
      <4> SUFFICES ASSUME NEW S \in SUBSET N, root \in S, OwnClosed(d, S), NEW r \in ToSet(t.results)
                   PROVE  r \in S
        OBVIOUS
      <4>1. ToSet(s.results) \subseteq S
        BY <2>0
      <4> QED
        BY <3>2, <3>3, <4>1 DEF OwnClosed
    <3>6. Len(t.results) = Len(t.stack) + k
      <4>1. /\ Len(s.results) \in Nat /\ Len(s.stack) \in Nat /\ Len(t.results) \in Nat
            /\ Len(t.stack) \in Nat
        BY <2>0, <3>1 DEF V, Searches
      <4>2. Len(s.results) = Len(s.stack) + (k - 1)
        BY <2>0, <2>2
      <4> QED
        BY <3>1, <3>3, <4>1, <4>2
    <3> HIDE DEF Kept, Least
    <3> QED
      BY <2>0, <3>1, <3>3, <3>4, <3>5, <3>6 DEF t
  <2> QED
    BY <2>1, <2>2
<1>11. Good(n)
  <2>1. good \in SUBSET (0 .. n) /\ 0 \in good /\ \A k \in 1 .. n : k - 1 \in good => k \in good
    <3>1. \A k \in 1 .. n : k \in 0 .. n
      OBVIOUS
    <3> HIDE DEF Good
    <3> QED
      BY <1>1, <1>9, <1>10, <3>1
  <2> HIDE DEF good
  <2>2. good = 0 .. n
    BY <1>1, <2>1, LoopKeeps
  <2>3. n \in good
    BY <1>1, <2>2
  <2> QED
    BY <2>3 DEF good
<1> DEFINE f == at[n]
<1>12. f \in V /\ root \in ToSet(f.results) /\ Kept(f) /\ Least(f)
       /\ (f.stack = <<>> \/ Len(f.results) = Len(f.stack) + n)
  BY <1>11
<1> HIDE DEF f
<1>13. f.results \in Seq(1 .. n) /\ Once(f.results) /\ f.stack \in Seq(N)
  BY <1>1, <1>12 DEF V, Searches
<1>14. f.stack = <<>>
  <2> SUFFICES ASSUME f.stack # <<>> PROVE FALSE
    OBVIOUS
  <2>1. Len(f.results) <= n
    BY <1>1, <1>13, OnceIsShort
  <2>2. Len(f.stack) \in Nat /\ Len(f.stack) > 0
    BY <1>13, EmptySeq
  <2> QED
    BY <1>1, <1>12, <2>1, <2>2
<1>15. ToSet(f.stack) = {}
  BY <1>14 DEF ToSet
<1> QED
  BY <1>7, <1>12, <1>15 DEF f, V

---------------------------------------------------------------------------
(* What each phase has computed *)

Compiled == {"dependencies", "points", "leaf", "derived", "selected", "building", "outdated",
             "crashed"}
Pointed == Compiled \ {"dependencies", "points"}

WrittenGraph(g, o, w) ==
    WriteGraph(g, [k \in DOMAIN o |-> WriteNode(g, o, k)], RemapTable(o), Signatures(g, w))

\* Nothing that is computed changes any more, and a build has compared the
\* signatures with the world that is there.
CompiledInv ==
    /\ json \in Graphs /\ digest \in Digests /\ world \in Worlds(json) /\ seen \in Worlds(json)
    /\ phase \in Compiled \cup {"nodes"} =>
          /\ order = SortedGuidTable(json, digest) /\ ~GuidsCollide(order)
          /\ \A i \in DOMAIN json.Nodes : ~HasNothingToHash(json.Nodes[i])
    /\ phase \in Compiled => dag = WrittenGraph(json, order, seen)
    /\ phase \in Compiled \ {"dependencies"} =>
          /\ deps = [n \in NodesOf(dag) |-> CombinedDependencies(dag, n)]
          /\ backlinks = Backlinks(deps)
    /\ phase \in Pointed => points = Points(backlinks)
    /\ phase \in Pointed \ {"leaf"} => leaf = [n \in NodesOf(dag) |-> LeafDataOf(dag, n)]
    /\ phase = "selected" => /\ requested \in Requests /\ CanSelect(dag, requested)
                             /\ selected = SelectedNodes(dag, requested)
    /\ phase = "building" =>
          FilesMatch(dag.signatures, world) /\ VariablesMatch(dag.signatures, world)

LEMMA InitCompiled == Init => CompiledInv
  BY DEF Init, CompiledInv, Compiled, Pointed

LEMMA NextCompiled == CompiledInv /\ [Next]_vars => CompiledInv'
<1> SUFFICES ASSUME CompiledInv, [Next]_vars PROVE CompiledInv'
  OBVIOUS
<1> USE DEF Compiled, Pointed
<1>1. CASE ComputeNodeGuids
  <2>1. /\ UNCHANGED <<json, digest, world, seen>>
        /\ \/ phase' = "failed"
           \/ /\ phase' = "nodes" /\ order' = SortedGuidTable(json, digest) /\ ~GuidsCollide(order')
              /\ \A i \in DOMAIN json.Nodes : ~HasNothingToHash(json.Nodes[i])
    BY <1>1 DEF ComputeNodeGuids, Fail, input, worlds
  <2> QED
    BY <2>1 DEF CompiledInv
<1>2. CASE InvalidGraph
  BY <1>2 DEF InvalidGraph, Fail, CompiledInv, input, worlds
<1>3. CASE CompileDag
  <2>1. /\ dag' = WrittenGraph(json, order, world) /\ seen' = world /\ phase' = "dependencies"
        /\ UNCHANGED <<json, digest, world, order>> /\ phase = "nodes"
    BY <1>3 DEF CompileDag, WrittenGraph, input
  <2> QED
    BY <2>1 DEF CompiledInv
<1>4. CASE WriteDependencies
  BY <1>4 DEF WriteDependencies, CompiledInv, input, worlds, frozenVars
<1>5. CASE WritePoints
  BY <1>5 DEF WritePoints, CompiledInv, input, worlds, frozenVars
<1>6. CASE WriteCacheableNodeData
  BY <1>6 DEF WriteCacheableNodeData, CompiledInv, input, worlds, frozenVars
<1>7. ASSUME NEW names \in Requests, DriverSelectNodes(names) PROVE CompiledInv'
  <2>1. /\ UNCHANGED <<json, digest, world, seen, order, dag, deps, backlinks, points, leaf>>
        /\ phase = "derived" /\ requested' = names
        /\ \/ phase' = "failed"
           \/ /\ phase' = "selected" /\ CanSelect(dag, names)
              /\ selected' = SelectedNodes(dag, names)
    BY <1>7 DEF DriverSelectNodes, Fail, input, worlds, frozenVars, derivedVars
  <2> QED
    BY <2>1 DEF CompiledInv
<1>8. ASSUME NEW w \in Worlds(json), Edit(w) PROVE CompiledInv'
  BY <1>8 DEF Edit, CompiledInv, input, frozenVars, derivedVars, selection
<1>9. CASE CheckDagSignatures
  <2>1. /\ phase = "selected" /\ phase' \in {"building", "outdated", "crashed"}
        /\ UNCHANGED <<json, digest, world, seen, order, dag, deps, backlinks, points, leaf>>
        /\ phase' = "building" =>
              FilesMatch(dag.signatures, world) /\ VariablesMatch(dag.signatures, world)
    BY <1>9 DEF CheckDagSignatures, input, worlds, frozenVars, derivedVars
  <2> QED
    BY <2>1 DEF CompiledInv
<1>10. CASE UNCHANGED vars
  BY <1>10 DEF vars, input, worlds, frozenVars, derivedVars, selection, CompiledInv
<1> QED
  BY <1>1, <1>2, <1>3, <1>4, <1>5, <1>6, <1>7, <1>8, <1>9, <1>10 DEF Next

\* What has been computed stays what it was computed as, from freezing to the
\* build (FreezeDagJson, CompileDagDerived, DriverSelectNodes).
THEOREM PhasesComputeOnce == Spec => []CompiledInv
  BY InitCompiled, NextCompiled, PTL DEF Spec

\* A build that goes on has a graph whose signatures are those of the files,
\* directories and variables that are there (CheckDagSignatures).
THEOREM BuildsUseCurrentGraphs == Spec => []UpToDateGraphIsCurrent
<1>1. CompiledInv => UpToDateGraphIsCurrent
  <2> SUFFICES ASSUME CompiledInv, phase = "building" PROVE UpToDateGraphIsCurrent
    BY DEF UpToDateGraphIsCurrent
  <2>1. /\ json \in Graphs /\ world \in Worlds(json) /\ seen \in Worlds(json)
        /\ FilesMatch(Signatures(json, seen), world) /\ VariablesMatch(Signatures(json, seen), world)
    BY DEF CompiledInv, Compiled, WrittenGraph, WriteGraph
  <2> QED
    BY <2>1, SignaturesAreTold DEF UpToDateGraphIsCurrent
<1> QED
  BY <1>1, PhasesComputeOnce, PTL

---------------------------------------------------------------------------
(* The frozen graph *)

\* The guids are those of the nodes in another order, which can be undone.
OrderedAs(o, g, d) ==
    LET n == Len(g.Nodes)
        remap == RemapTable(o)
    IN  /\ n \in Nat /\ DOMAIN g.Nodes = 1 .. n /\ DOMAIN o = 1 .. n /\ Len(o) = n
        /\ \A k \in 1 .. n : /\ o[k].node \in 1 .. n /\ o[k].digest \in Int
                             /\ o[k].digest = d[HashedText(g.Nodes[o[k].node])]
        /\ \A k, l \in 1 .. n : k < l => o[k].digest <= o[l].digest
        /\ \A i \in 1 .. n : remap[i] \in 1 .. n /\ o[remap[i]].node = i
        /\ DOMAIN remap = 1 .. n
        /\ \A k \in 1 .. n : remap[o[k].node] = k

LEMMA OrderOutcome ==
    ASSUME NEW g \in Graphs, NEW d \in Digests
    PROVE  OrderedAs(SortedGuidTable(g, d), g, d)
<1> DEFINE n == Len(g.Nodes)
           table == GuidTable(g, d)
           S == [digest : Int, node : 1 .. n]
           rank == [e \in ToSet(table) |-> e.digest]
           o == SortedGuidTable(g, d)
           remap == RemapTable(o)
<1>1. n \in Nat /\ DOMAIN g.Nodes = 1 .. n
  BY GraphAssumption
<1>2. \A i \in 1 .. n : table[i] = [digest |-> d[HashedText(g.Nodes[i])], node |-> i] /\ table[i] \in S
  BY <1>1, DigestAssumption DEF GuidTable
<1>3. table \in [1 .. n -> S]
  BY <1>1, <1>2 DEF GuidTable
<1> DEFINE T == ToSet(table)
<1> HIDE DEF table, n
<1>4. DOMAIN table = 1 .. n /\ \A k \in 1 .. n : table[k] \in T
  BY <1>3 DEF ToSet
<1>5. \A e \in T : rank[e] = e.digest /\ rank[e] \in Int
  <2>1. \A e \in T : \E k \in 1 .. n : e = table[k]
    BY <1>4 DEF ToSet
  <2>2. \A e \in T : e.digest \in Int
    BY <1>3, <2>1
  <2> QED
    BY <2>2
<1> HIDE DEF T
<1>15. table \in Seq(T)
  <2>1. table \in [1 .. n -> T]
    BY <1>3, <1>4
  <2> QED
    BY <1>1, <2>1
<1>6. o = Sorted(table, rank)
  BY DEF SortedGuidTable, table
<1> HIDE DEF o, rank
<1>7. PICK p \in SetToSeqs(1 .. n) :
          /\ o = [k \in 1 .. n |-> table[p[k]]]
          /\ \A k, l \in 1 .. n : k < l => rank[table[p[k]]] <= rank[table[p[l]]]
  <2>1. \A e \in T : rank[e] \in Int
    BY <1>5
  <2>2. \E q \in SetToSeqs(DOMAIN table) :
            /\ Sorted(table, rank) = [k \in DOMAIN table |-> table[q[k]]]
            /\ \A k, l \in DOMAIN table : k < l => rank[table[q[k]]] <= rank[table[q[l]]]
    BY <1>15, <2>1, SortedOutcome
  <2>3. DOMAIN table = 1 .. n
    BY <1>4
  <2> QED
    BY <1>6, <2>2, <2>3
<1>8. /\ p \in [1 .. n -> 1 .. n]
      /\ \A i, j \in 1 .. n : p[i] = p[j] => i = j
      /\ \A t \in 1 .. n : \E k \in 1 .. n : p[k] = t
  BY <1>1, <1>7, OrdersAreComplete
<1>9. DOMAIN o = 1 .. n /\ Len(o) = n
      /\ \A k \in 1 .. n : /\ p[k] \in 1 .. n /\ o[k] = table[p[k]] /\ o[k].node = p[k]
                           /\ o[k].digest = d[HashedText(g.Nodes[p[k]])] /\ o[k].digest \in Int
  <2>1. \A k \in 1 .. n : p[k] \in 1 .. n /\ o[k] = table[p[k]]
    BY <1>7, <1>8
  <2>2. ASSUME NEW i \in 1 .. n
        PROVE  /\ table[i].node = i /\ table[i].digest = d[HashedText(g.Nodes[i])]
               /\ table[i].digest \in Int
    <3> DEFINE text == d[HashedText(g.Nodes[i])]
    <3>1. table[i] = [digest |-> text, node |-> i]
      BY <1>2
    <3>2. table[i] \in S
      BY <1>2
    <3> HIDE DEF text
    <3>3. table[i].node = i /\ table[i].digest = text
      BY <3>1
    <3>4. table[i].digest \in Int
      BY <3>2
    <3> QED
      BY <3>3, <3>4 DEF text
  <2>3. DOMAIN o = 1 .. n /\ o \in [1 .. n -> S]
    BY <1>3, <1>7, <2>1
  <2>4. Len(o) = n
    BY <1>1, <2>3
  <2> QED
    BY <2>1, <2>2, <2>3, <2>4
<1>10. ASSUME NEW k \in 1 .. n, NEW l \in 1 .. n, k < l PROVE o[k].digest <= o[l].digest
  <2>1. p[k] \in 1 .. n /\ p[l] \in 1 .. n /\ o[k] = table[p[k]] /\ o[l] = table[p[l]]
    BY <1>9
  <2>2. table[p[k]] \in T /\ table[p[l]] \in T
    BY <1>4, <2>1
  <2>3. rank[table[p[k]]] = o[k].digest /\ rank[table[p[l]]] = o[l].digest
    BY <1>5, <2>1, <2>2
  <2>4. rank[table[p[k]]] <= rank[table[p[l]]]
    BY <1>7, <1>10
  <2> QED
    BY <2>3, <2>4
<1>11. remap = [i \in 1 .. n |-> CHOOSE k \in 1 .. n : o[k].node = i]
  <2>1. DOMAIN o = 1 .. n
    BY <1>9
  <2> QED
    BY <2>1 DEF RemapTable
<1> HIDE DEF remap
<1>12. ASSUME NEW i \in 1 .. n PROVE \E k \in 1 .. n : o[k].node = i
  <2>1. PICK k \in 1 .. n : p[k] = i
    BY <1>8
  <2>2. o[k].node = p[k]
    BY <1>9
  <2> QED
    BY <2>1, <2>2
<1>13. \A i \in 1 .. n : remap[i] \in 1 .. n /\ o[remap[i]].node = i
  BY <1>11, <1>12
<1>14. DOMAIN remap = 1 .. n /\ \A k \in 1 .. n : remap[o[k].node] = k
  <2>1. ASSUME NEW k \in 1 .. n PROVE remap[o[k].node] = k
    <3> DEFINE i == o[k].node
               l == remap[i]
    <3>1. i = p[k] /\ i \in 1 .. n
      BY <1>8, <1>9
    <3> HIDE DEF i
    <3>2. l \in 1 .. n /\ o[l].node = i
      BY <1>13, <3>1
    <3> HIDE DEF l
    <3>3. p[l] = p[k]
      BY <1>9, <3>1, <3>2
    <3>4. l = k
      BY <1>8, <3>2, <3>3
    <3> QED
      BY <3>4 DEF i, l
  <2>2. DOMAIN remap = 1 .. n
    BY <1>11
  <2> QED
    BY <2>1, <2>2
<1>16. \A k \in 1 .. n : /\ o[k].node \in 1 .. n /\ o[k].digest \in Int
                         /\ o[k].digest = d[HashedText(g.Nodes[o[k].node])]
  <2>1. ASSUME NEW k \in 1 .. n
        PROVE  /\ o[k].node \in 1 .. n /\ o[k].digest \in Int
               /\ o[k].digest = d[HashedText(g.Nodes[o[k].node])]
    <3>1. o[k].node = p[k] /\ p[k] \in 1 .. n
      BY <1>9
    <3> QED
      BY <1>9, <3>1
  <2> QED
    BY <2>1
<1>17. \A k, l \in 1 .. n : k < l => o[k].digest <= o[l].digest
  BY <1>10
<1>18. DOMAIN g.Nodes = 1 .. n /\ DOMAIN o = 1 .. n /\ Len(o) = n
  BY <1>1, <1>9
<1> QED
  BY <1>1, <1>13, <1>14, <1>16, <1>17, <1>18 DEF OrderedAs, n, o, remap

\* Indices that are remapped stay a list, and are those they stood for.
LEMMA RemappedOutcome ==
    ASSUME NEW n \in Nat, NEW indices \in Seq(1 .. n), NEW remap, NEW o,
           \A i \in 1 .. n : remap[i] \in 1 .. n /\ o[remap[i]].node = i
    PROVE  LET w == WriteIndices(indices, remap) IN
           /\ w \in Seq(1 .. n) /\ DOMAIN w = DOMAIN indices
           /\ \A k \in DOMAIN indices : w[k] = remap[indices[k]] /\ o[w[k]].node = indices[k]
<1> DEFINE w == WriteIndices(indices, remap)
<1> DEFINE N == 1 .. n
           m == Len(indices)
<1>1. DOMAIN indices = 1 .. m /\ m \in Nat /\ \A k \in 1 .. m : indices[k] \in N
  OBVIOUS
<1>2. w = [k \in 1 .. m |-> remap[indices[k]]]
  BY <1>1 DEF WriteIndices
<1>5. \A i \in N : remap[i] \in N /\ o[remap[i]].node = i
  OBVIOUS
<1> HIDE DEF w, N, m
<1>3. w \in [1 .. m -> N] /\ \A k \in 1 .. m : w[k] = remap[indices[k]] /\ o[w[k]].node = indices[k]
  BY <1>1, <1>2, <1>5
<1>4. w \in Seq(N) /\ DOMAIN w = 1 .. m
  BY <1>1, <1>3
<1> QED
  BY <1>1, <1>3, <1>4 DEF w, N

\* Every node is there with the fields it had, and its edges lead to the nodes
\* they led to.
FrozenAs(f, g, o) ==
    /\ NodesOf(f) = 1 .. Len(g.Nodes) /\ Wired(f)
    /\ f.defaults = WriteIndices(g.DefaultNodes, RemapTable(o))
    /\ f.named = WriteNamedNodes(g, RemapTable(o))
    /\ \A k \in 1 .. Len(g.Nodes) :
          /\ f.nodes[k] = WriteNode(g, o, k)
          /\ f.nodes[k].originalIndex = o[k].node /\ o[k].node \in 1 .. Len(g.Nodes)
          /\ f.nodes[k].guid = o[k].digest
          /\ f.nodes[k].outputs = FindArray(g.Nodes[o[k].node], "Outputs")
          /\ f.nodes[k].annotation = Find(g.Nodes[o[k].node], "Annotation", "")
          /\ f.nodes[k].toBuild
               = WriteIndices(ToBuildDependencies(g.Nodes[o[k].node]), RemapTable(o))
          /\ f.nodes[k].toUse
               = WriteIndices(FindArray(g.Nodes[o[k].node], "ToUseDependencies"), RemapTable(o))

LEMMA FrozenOutcome ==
    ASSUME NEW g \in Graphs, NEW d \in Digests, NEW w
    PROVE  LET o == SortedGuidTable(g, d) IN FrozenAs(WrittenGraph(g, o, w), g, o)
<1> DEFINE o == SortedGuidTable(g, d)
           n == Len(g.Nodes)
           f == WrittenGraph(g, o, w)
<1>1. /\ n \in Nat /\ DOMAIN g.Nodes = 1 .. n /\ DOMAIN o = 1 .. n
      /\ \A k \in 1 .. n : o[k].node \in 1 .. n
      /\ \A i \in 1 .. n : RemapTable(o)[i] \in 1 .. n /\ o[RemapTable(o)[i]].node = i
  BY OrderOutcome DEF OrderedAs
<1> HIDE DEF o, n
<1>2. /\ f.nodes = [k \in 1 .. n |-> WriteNode(g, o, k)]
      /\ f.defaults = WriteIndices(g.DefaultNodes, RemapTable(o))
      /\ f.named = WriteNamedNodes(g, RemapTable(o))
  BY <1>1 DEF WrittenGraph, WriteGraph
<1> HIDE DEF f
<1>3. ASSUME NEW k \in 1 .. n
      PROVE  LET node == g.Nodes[o[k].node] IN
             /\ f.nodes[k] = WriteNode(g, o, k)
             /\ f.nodes[k].originalIndex = o[k].node /\ o[k].node \in 1 .. n
             /\ f.nodes[k].guid = o[k].digest
             /\ f.nodes[k].outputs = FindArray(node, "Outputs")
             /\ f.nodes[k].annotation = Find(node, "Annotation", "")
             /\ f.nodes[k].toBuild = WriteIndices(ToBuildDependencies(node), RemapTable(o))
             /\ f.nodes[k].toUse = WriteIndices(FindArray(node, "ToUseDependencies"), RemapTable(o))
  <2> DEFINE r == WriteNode(g, o, k)
             node == g.Nodes[o[k].node]
  <2>1. f.nodes[k] = r
    BY <1>2
  <2>2. /\ r.originalIndex = o[k].node /\ r.guid = o[k].digest
        /\ r.outputs = FindArray(node, "Outputs") /\ r.annotation = Find(node, "Annotation", "")
        /\ r.toBuild = WriteIndices(ToBuildDependencies(node), RemapTable(o))
        /\ r.toUse = WriteIndices(FindArray(node, "ToUseDependencies"), RemapTable(o))
    BY DEF WriteNode
  <2>3. o[k].node \in 1 .. n
    BY <1>1
  <2> HIDE DEF r, node
  <2> QED
    BY <2>1, <2>2, <2>3 DEF r, node
<1>4. NodesOf(f) = 1 .. n /\ Len(f.nodes) = n
  BY <1>1, <1>2 DEF NodesOf
<1>5. Wired(f)
  <2> SUFFICES ASSUME NEW k \in 1 .. n
               PROVE  f.nodes[k].toBuild \in Seq(1 .. n) /\ f.nodes[k].toUse \in Seq(1 .. n)
    BY <1>1, <1>4 DEF Wired
  <2> DEFINE node == g.Nodes[o[k].node]
  <2>1. ToBuildDependencies(node) \in Seq(1 .. n) /\ FindArray(node, "ToUseDependencies") \in Seq(1 .. n)
    BY <1>1, GraphAssumption
  <2>2. f.nodes[k].toBuild = WriteIndices(ToBuildDependencies(node), RemapTable(o))
        /\ f.nodes[k].toUse = WriteIndices(FindArray(node, "ToUseDependencies"), RemapTable(o))
    BY <1>3
  <2> HIDE DEF node
  <2> DEFINE remap == RemapTable(o)
  <2>3. n \in Nat /\ \A i \in 1 .. n : remap[i] \in 1 .. n /\ o[remap[i]].node = i
    BY <1>1
  <2> HIDE DEF remap
  <2>4. WriteIndices(ToBuildDependencies(node), remap) \in Seq(1 .. n)
    BY <2>1, <2>3, RemappedOutcome
  <2>5. WriteIndices(FindArray(node, "ToUseDependencies"), remap) \in Seq(1 .. n)
    BY <2>1, <2>3, RemappedOutcome
  <2> QED
    BY <2>2, <2>4, <2>5 DEF remap
<1> QED
  BY <1>1, <1>2, <1>3, <1>4, <1>5 DEF FrozenAs, n, o, f

\* A graph that is being compiled is the frozen one of what the frontend wrote.
LEMMA CompiledGraph ==
    ASSUME CompiledInv, phase \in Compiled
    PROVE  /\ json \in Graphs /\ digest \in Digests
           /\ order = SortedGuidTable(json, digest)
           /\ dag = WrittenGraph(json, SortedGuidTable(json, digest), seen)
           /\ ~GuidsCollide(order)
           /\ \A i \in DOMAIN json.Nodes : ~HasNothingToHash(json.Nodes[i])
           /\ Wired(dag)
<1>1. /\ json \in Graphs /\ digest \in Digests
      /\ order = SortedGuidTable(json, digest)
      /\ dag = WrittenGraph(json, SortedGuidTable(json, digest), seen)
      /\ ~GuidsCollide(order)
      /\ \A i \in DOMAIN json.Nodes : ~HasNothingToHash(json.Nodes[i])
  BY DEF CompiledInv
<1> QED
  BY <1>1, FrozenOutcome DEF FrozenAs

\* Its nodes are those of the JSON, in another order.
LEMMA CompiledNodes ==
    ASSUME CompiledInv, phase \in Compiled
    PROVE  /\ Len(json.Nodes) \in Nat /\ Nodes = 1 .. Len(json.Nodes)
           /\ DOMAIN json.Nodes = Nodes /\ DOMAIN order = Nodes
           /\ dag.defaults = WriteIndices(json.DefaultNodes, RemapTable(order))
           /\ dag.named = WriteNamedNodes(json, RemapTable(order))
           /\ \A i \in Nodes : RemapTable(order)[i] \in Nodes /\ order[RemapTable(order)[i]].node = i
           /\ \A k, l \in Nodes : order[k].node = order[l].node => k = l
           /\ \A k, l \in Nodes : k < l => order[k].digest <= order[l].digest
           /\ \A k \in Nodes :
                 LET node == json.Nodes[order[k].node] IN
                 /\ order[k].digest \in Int /\ order[k].node \in Nodes
                 /\ order[k].digest = digest[HashedText(node)]
                 /\ dag.nodes[k] = WriteNode(json, order, k)
                 /\ dag.nodes[k].originalIndex = order[k].node
                 /\ dag.nodes[k].guid = order[k].digest
                 /\ dag.nodes[k].outputs = FindArray(node, "Outputs")
                 /\ dag.nodes[k].annotation = Find(node, "Annotation", "")
                 /\ dag.nodes[k].toBuild = WriteIndices(ToBuildDependencies(node), RemapTable(order))
                 /\ dag.nodes[k].toUse
                      = WriteIndices(FindArray(node, "ToUseDependencies"), RemapTable(order))
<1> DEFINE n == Len(json.Nodes)
<1>1. json \in Graphs /\ digest \in Digests /\ order = SortedGuidTable(json, digest)
      /\ dag = WrittenGraph(json, order, seen)
  BY CompiledGraph
<1>2. /\ n \in Nat /\ DOMAIN json.Nodes = 1 .. n /\ DOMAIN order = 1 .. n
      /\ \A k \in 1 .. n : /\ order[k].node \in 1 .. n /\ order[k].digest \in Int
                           /\ order[k].digest = digest[HashedText(json.Nodes[order[k].node])]
      /\ \A k, l \in 1 .. n : k < l => order[k].digest <= order[l].digest
      /\ \A i \in 1 .. n : RemapTable(order)[i] \in 1 .. n /\ order[RemapTable(order)[i]].node = i
      /\ \A k \in 1 .. n : RemapTable(order)[order[k].node] = k
  <2>1. OrderedAs(order, json, digest)
    BY <1>1, OrderOutcome
  <2> QED
    BY <2>1 DEF OrderedAs
<1>3. FrozenAs(dag, json, order)
  BY <1>1, FrozenOutcome
<1>4. Nodes = 1 .. n
  BY <1>3 DEF Nodes, FrozenAs
<1>5. \A k, l \in 1 .. n : order[k].node = order[l].node => k = l
  BY <1>2
<1>6. \A k \in 1 .. n :
          LET node == json.Nodes[order[k].node] IN
          /\ order[k].digest \in Int /\ order[k].node \in 1 .. n
          /\ order[k].digest = digest[HashedText(node)]
          /\ dag.nodes[k] = WriteNode(json, order, k)
          /\ dag.nodes[k].originalIndex = order[k].node
          /\ dag.nodes[k].guid = order[k].digest
          /\ dag.nodes[k].outputs = FindArray(node, "Outputs")
          /\ dag.nodes[k].annotation = Find(node, "Annotation", "")
          /\ dag.nodes[k].toBuild = WriteIndices(ToBuildDependencies(node), RemapTable(order))
          /\ dag.nodes[k].toUse
               = WriteIndices(FindArray(node, "ToUseDependencies"), RemapTable(order))
  BY <1>2, <1>3 DEF FrozenAs
<1>7. /\ dag.defaults = WriteIndices(json.DefaultNodes, RemapTable(order))
      /\ dag.named = WriteNamedNodes(json, RemapTable(order))
  BY <1>3 DEF FrozenAs
<1> HIDE DEF n
<1> QED
  BY <1>2, <1>4, <1>5, <1>6, <1>7 DEF n

---------------------------------------------------------------------------
(* What is hashed ahead *)

\* The nodes of its own are what a search finds.
LEMMA OwnIsFound ==
    ASSUME Wired(dag), NEW n \in Nodes
    PROVE  Own(n) = ToSet(FindDependentNodes(dag, n).results)
<1> DEFINE f == FindDependentNodes(dag, n)
<1>1. /\ f \in Searches(dag) /\ n \in ToSet(f.results)
      /\ \A m \in ToSet(f.results) : \A c \in ChildrenIn(dag, m) :
             c \in ToSet(f.results) \/ (IsLeafInputCacheable(dag, c) /\ c \in ToSet(f.cacheable))
      /\ \A S \in SUBSET Nodes : n \in S /\ OwnClosed(dag, S) => ToSet(f.results) \subseteq S
  BY FindOutcome DEF Nodes
<1>2. ToSet(f.results) \subseteq Nodes
  BY <1>1 DEF Searches, ToSet, Nodes
<1> DEFINE R == ToSet(f.results)
<1>3. n \in R /\ R \in SUBSET Nodes /\ OwnClosed(dag, R)
  BY <1>1, <1>2 DEF OwnClosed
<1> HIDE DEF f, R
<1>4. Own(n) = {m \in Nodes : \A S \in SUBSET Nodes : n \in S /\ OwnClosed(dag, S) => m \in S}
  BY DEF Own, OwnClosed, Children, ChildrenIn
<1>5. Own(n) \subseteq R
  BY <1>3, <1>4
<1>6. R \subseteq Own(n)
  BY <1>1, <1>3, <1>4 DEF R
<1> QED
  BY <1>5, <1>6 DEF R, f

\* A sequence of different elements lists the set of them.
LEMMA OnceLists ==
    ASSUME NEW S, NEW s \in Seq(S), Once(s), ToSet(s) = S
    PROVE  s \in SetToSeqs(S)
<1> DEFINE n == Len(s)
<1>1. n \in Nat /\ s \in [1 .. n -> S] /\ DOMAIN s = 1 .. n
  OBVIOUS
<1> HIDE DEF n
<1>2. \A i, j \in 1 .. n : i # j => s[i] # s[j]
  BY <1>1 DEF Once
<1>3. \A e \in S : \E k \in 1 .. n : s[k] = e
  BY <1>1 DEF ToSet
<1>4. s \in Bijection(1 .. n, S)
  BY <1>1, <1>2, <1>3 DEF Bijection, Injection, Surjection, IsInjective
<1>5. Cardinality(S) = n
  BY <1>1, <1>4, FS_CountingElements DEF ExistsBijection
<1> QED
  BY <1>1, <1>2, <1>5 DEF SetToSeqs

\* Where the guids put the nodes decides nothing about the text that is hashed
\* ahead (CalculateLeafInputHashOffline), if the annotations differ.
THEOREM OfflineHashesAreStable ==
    ASSUME AnnotationsDiffer
    PROVE  Spec => []OfflineHashIsStable
<1>1. CompiledInv => OfflineHashIsStable
  <2> SUFFICES ASSUME CompiledInv, Derived, NEW n \in Nodes, IsLeafInputCacheable(dag, n)
               PROVE  \E own \in SetToSeqs(Own(n)) :
                        /\ \A k, l \in DOMAIN own : k < l =>
                             AnnotationRank[json.Nodes[dag.nodes[own[k]].originalIndex].Annotation]
                               < AnnotationRank[json.Nodes[dag.nodes[own[l]].originalIndex].Annotation]
                        /\ leaf[n].offline = <<dag.nodes[n].annotation>>
                             \o FlattenSeq([k \in DOMAIN own |-> HashedNode(dag.nodes[own[k]])])
    BY DEF OfflineHashIsStable
  <2> DEFINE found == FindDependentNodes(dag, n).results
             R == ToSet(found)
             rank == [m \in R |-> AnnotationRank[dag.nodes[m].annotation]]
             sorted == Sorted(found, rank)
             Text(i) == AnnotationRank[json.Nodes[i].Annotation]
  <2>1. phase \in Compiled
    BY DEF Derived, Compiled
  <2>2. /\ json \in Graphs /\ digest \in Digests /\ Wired(dag)
        /\ order = SortedGuidTable(json, digest)
        /\ dag = WrittenGraph(json, SortedGuidTable(json, digest), seen)
        /\ \A i \in DOMAIN json.Nodes : ~HasNothingToHash(json.Nodes[i])
    BY <2>1, CompiledGraph
  <2>3. leaf[n] = LeafDataOf(dag, n)
    BY DEF CompiledInv, Derived, Pointed, Compiled, Nodes
  <2>4. leaf[n].offline = <<dag.nodes[n].annotation>>
          \o FlattenSeq([k \in DOMAIN sorted |-> HashedNode(dag.nodes[sorted[k]])])
    <3>1. leaf[n].offline = LeafInputHashOffline(dag, n)
      BY <2>3 DEF LeafDataOf
    <3> QED
      BY <3>1 DEF LeafInputHashOffline
  <2>5. found \in Seq(Nodes) /\ Once(found) /\ Own(n) = R
    BY <2>2, FindOutcome, OwnIsFound DEF Searches, Nodes
  <2>6. \A m \in Nodes : /\ dag.nodes[m].originalIndex = order[m].node
                         /\ order[m].node \in DOMAIN json.Nodes
                         /\ dag.nodes[m].annotation
                              = Find(json.Nodes[order[m].node], "Annotation", "")
    BY <2>1, CompiledNodes
  <2>7. \A k, l \in Nodes : order[k].node = order[l].node => k = l
    BY <2>1, CompiledNodes
  <2>8. \A i, j \in DOMAIN json.Nodes :
            /\ Has(json.Nodes[i], "Annotation") /\ Text(i) \in Int
            /\ Text(i) = Text(j) => i = j
    BY <2>2 DEF AnnotationsDiffer
  <2> HIDE DEF found, Text
  <2>9. \A m \in Nodes : AnnotationRank[dag.nodes[m].annotation] = Text(order[m].node)
    BY <2>6, <2>8 DEF Find, Has, Text
  <2>10. R \subseteq Nodes /\ \A m \in R : rank[m] = Text(order[m].node) /\ rank[m] \in Int
    <3>1. R \subseteq Nodes
      BY <2>5 DEF ToSet
    <3>2. ASSUME NEW m \in R PROVE rank[m] = Text(order[m].node) /\ rank[m] \in Int
      <4>1. m \in Nodes /\ rank[m] = AnnotationRank[dag.nodes[m].annotation]
        BY <3>1
      <4>2. rank[m] = Text(order[m].node) /\ order[m].node \in DOMAIN json.Nodes
        BY <2>6, <2>9, <4>1
      <4> QED
        BY <2>8, <4>2
    <3> QED
      BY <3>1, <3>2
  <2> HIDE DEF rank, sorted
  <2>11. found \in Seq(R)
    <3>1. \A k \in 1 .. Len(found) : found[k] \in R
      BY <2>5 DEF ToSet
    <3>2. found \in [1 .. Len(found) -> R] /\ Len(found) \in Nat
      BY <2>5, <3>1
    <3> QED
      BY <3>2
  <2> HIDE DEF R
  <2>12. /\ sorted \in Seq(R) /\ ToSet(sorted) = R
         /\ \A k, l \in DOMAIN sorted : k < l => rank[sorted[k]] <= rank[sorted[l]]
         /\ Once(sorted)
    <3>1. \A m \in R : rank[m] \in Int
      BY <2>10
    <3>2. ToSet(found) = R
      BY DEF R
    <3> QED
      BY <2>5, <2>11, <3>1, <3>2, SortedElements DEF Once, sorted
  <2>13. sorted \in SetToSeqs(Own(n))
    BY <2>5, <2>12, OnceLists
  <2>14. ASSUME NEW k \in DOMAIN sorted, NEW l \in DOMAIN sorted, k < l
         PROVE  Text(dag.nodes[sorted[k]].originalIndex) < Text(dag.nodes[sorted[l]].originalIndex)
    <3>1. sorted[k] \in R /\ sorted[l] \in R /\ sorted[k] # sorted[l]
          /\ DOMAIN sorted = 1 .. Len(sorted)
      BY <2>12, <2>14 DEF Once
    <3>2. /\ rank[sorted[k]] = Text(order[sorted[k]].node) /\ rank[sorted[k]] \in Int
          /\ rank[sorted[l]] = Text(order[sorted[l]].node) /\ rank[sorted[l]] \in Int
          /\ sorted[k] \in Nodes /\ sorted[l] \in Nodes
      BY <2>10, <3>1
    <3>3. order[sorted[k]].node # order[sorted[l]].node
      BY <2>7, <3>1, <3>2
    <3>4. rank[sorted[k]] # rank[sorted[l]]
      <4>1. order[sorted[k]].node \in DOMAIN json.Nodes /\ order[sorted[l]].node \in DOMAIN json.Nodes
        BY <2>6, <3>2
      <4>2. Text(order[sorted[k]].node) # Text(order[sorted[l]].node)
        BY <2>8, <3>3, <4>1
      <4> QED
        BY <3>2, <4>2
    <3>5. rank[sorted[k]] <= rank[sorted[l]]
      BY <2>12, <2>14
    <3>6. rank[sorted[k]] < rank[sorted[l]]
      BY <3>2, <3>4, <3>5
    <3>7. dag.nodes[sorted[k]].originalIndex = order[sorted[k]].node
          /\ dag.nodes[sorted[l]].originalIndex = order[sorted[l]].node
      BY <2>6, <3>2
    <3> QED
      BY <3>2, <3>6, <3>7
  <2> QED
    BY <2>4, <2>13, <2>14 DEF Text
<1> QED
  BY <1>1, PhasesComputeOnce, PTL

---------------------------------------------------------------------------
(* Who makes a file *)

\* The least of the nodes of a graph is one of them.
LEMMA LeastNode ==
    ASSUME Wired(dag), NEW S \in SUBSET Nodes, S # {}
    PROVE  Min(S) \in S
<1>1. S \in SUBSET Nat
  BY DEF Wired, Nodes
<1>2. \E m \in S : \A k \in S : m <= k
  BY <1>1, LeastNumber
<1> QED
  BY <1>2 DEF Min

LEMMA OwnerOutcome ==
    ASSUME Wired(dag), NEW d
    PROVE  /\ FirstOwner(dag, d) \in Nodes \cup {NotGenerated, UnknownNode}
           /\ FirstOwner(dag, d) \in Nodes => d \in ToSet(dag.nodes[FirstOwner(dag, d)].outputDirs)
           /\ FirstOwner(dag, d) = NotGenerated <=>
                /\ \A n \in Nodes : d \notin ToSet(dag.nodes[n].outputDirs)
                /\ d \notin ToSet(dag.implicitDirs)
<1> DEFINE owners == {n \in Nodes : d \in ToSet(dag.nodes[n].outputDirs)}
<1>1. FirstOwner(dag, d) = IF owners # {} THEN Min(owners)
                           ELSE IF d \in ToSet(dag.implicitDirs) THEN UnknownNode
                           ELSE NotGenerated
  BY DEF FirstOwner, Nodes
<1>2. owners # {} => Min(owners) \in owners
  BY LeastNode
<1>3. NotGenerated \notin Nodes /\ UnknownNode \notin Nodes /\ NotGenerated # UnknownNode
  BY DEF Wired, Nodes, NotGenerated, UnknownNode
<1> HIDE DEF owners
<1>4. \A n \in owners : n \in Nodes /\ d \in ToSet(dag.nodes[n].outputDirs)
  BY DEF owners
<1>5. owners = {} <=> \A n \in Nodes : d \notin ToSet(dag.nodes[n].outputDirs)
  BY DEF owners
<1>6. CASE owners # {}
  BY <1>1, <1>2, <1>3, <1>4, <1>5, <1>6
<1>7. CASE owners = {}
  BY <1>1, <1>3, <1>5, <1>7
<1> QED
  BY <1>6, <1>7

\* A file is made by a node that writes it or a directory around it; it is a
\* source if there is none.
LEMMA MakerOutcome ==
    ASSUME Wired(dag), Nodes # {}, NEW f \in DOMAIN Parents
    PROVE  LET g == FindDagNodeForFile(dag, f) IN
           /\ g \in Nodes \cup {NotGenerated, UnknownNode}
           /\ g = NotGenerated <=> IsSource(f)
           /\ g \in Nodes => \/ f \in ToSet(dag.nodes[g].outputs)
                             \/ ToSet(dag.nodes[g].outputDirs) \cap ToSet(Parents[f]) # {}
<1> DEFINE g == FindDagNodeForFile(dag, f)
           writing == {n \in Nodes : f \in ToSet(dag.nodes[n].outputs)}
           owned == {k \in DOMAIN Parents[f] : FirstOwner(dag, Parents[f][k]) # NotGenerated}
           d == Parents[f][Min(owned)]
<1>1. g = IF writing # {} THEN Min(writing)
          ELSE IF owned # {} THEN FirstOwner(dag, d) ELSE NotGenerated
  BY DEF FindDagNodeForFile, Nodes
<1>2. NotGenerated \notin Nodes /\ UnknownNode \notin Nodes /\ NotGenerated # UnknownNode
  BY DEF Wired, Nodes, NotGenerated, UnknownNode
<1>3. \A k \in DOMAIN Parents[f] : Parents[f][k] \in ToSet(Parents[f])
  BY DEF ToSet
<1>4. \A p \in ToSet(Parents[f]) : \E k \in DOMAIN Parents[f] : p = Parents[f][k]
  BY DEF ToSet
<1>5. CASE writing # {}
  <2>1. Min(writing) \in writing
    BY <1>5, LeastNode
  <2>2. g \in Nodes /\ f \in ToSet(dag.nodes[g].outputs)
    BY <1>1, <1>5, <2>1
  <2> HIDE DEF g, writing, owned
  <2> QED
    BY <1>2, <2>2 DEF IsSource, g
<1>6. CASE writing = {} /\ owned # {}
  <2>1. owned \in SUBSET Nat
    BY FileAssumption
  <2>2. \E m \in owned : \A k \in owned : m <= k
    BY <1>6, <2>1, LeastNumber
  <2>3. Min(owned) \in owned
    BY <2>2 DEF Min
  <2>4. FirstOwner(dag, d) # NotGenerated /\ d \in ToSet(Parents[f]) /\ g = FirstOwner(dag, d)
    BY <1>1, <1>3, <1>6, <2>3
  <2> HIDE DEF g, writing, owned, d
  <2>5. g \in Nodes \cup {UnknownNode} /\ g # NotGenerated
        /\ (g \in Nodes => d \in ToSet(dag.nodes[g].outputDirs))
    BY <2>4, OwnerOutcome
  <2>6. (\E n \in Nodes : d \in ToSet(dag.nodes[n].outputDirs)) \/ d \in ToSet(dag.implicitDirs)
    BY <2>4, OwnerOutcome
  <2>7. ~IsSource(f)
    BY <2>4, <2>6 DEF IsSource
  <2> QED
    BY <2>4, <2>5, <2>7 DEF g
<1>7. CASE writing = {} /\ owned = {}
  <2>1. g = NotGenerated
    BY <1>1, <1>7
  <2>2. \A n \in Nodes : f \notin ToSet(dag.nodes[n].outputs)
    BY <1>7
  <2>3. \A k \in DOMAIN Parents[f] : FirstOwner(dag, Parents[f][k]) = NotGenerated
    BY <1>7
  <2>4. \A p \in ToSet(Parents[f]) : FirstOwner(dag, p) = NotGenerated
    BY <1>4, <2>3
  <2>5. \A p \in ToSet(Parents[f]) : /\ \A n \in Nodes : p \notin ToSet(dag.nodes[n].outputDirs)
                                     /\ p \notin ToSet(dag.implicitDirs)
    BY <2>4, OwnerOutcome
  <2>6. IsSource(f)
    BY <2>2, <2>5 DEF IsSource
  <2> HIDE DEF g, writing, owned
  <2> QED
    BY <1>2, <2>1, <2>6 DEF g
<1> QED
  BY <1>5, <1>6, <1>7

---------------------------------------------------------------------------
(* What a cached node is looked up by *)

\* The files of the nodes are those of the JSON.
LEMMA CompiledFiles ==
    ASSUME CompiledInv, phase \in Compiled, NEW k \in Nodes
    PROVE  LET node == json.Nodes[order[k].node] IN
           /\ order[k].node \in DOMAIN json.Nodes
           /\ dag.nodes[k].inputs = FindArray(node, "Inputs")
           /\ dag.nodes[k].mightInclude = FindArray(node, "FilesThatMightBeIncluded")
           /\ dag.nodes[k].outputs = FindArray(node, "Outputs")
           /\ dag.nodes[k].outputDirs = FindArray(node, "TargetDirectories")
           /\ ToSet(dag.nodes[k].inputs) \subseteq DOMAIN Parents
           /\ ToSet(dag.nodes[k].mightInclude) \subseteq DOMAIN Parents
<1> DEFINE node == json.Nodes[order[k].node]
           r == WriteNode(json, order, k)
<1>1. dag.nodes[k] = r /\ order[k].node \in DOMAIN json.Nodes /\ json \in Graphs
  BY CompiledNodes, CompiledGraph
<1>2. /\ r.inputs = FindArray(node, "Inputs")
      /\ r.mightInclude = FindArray(node, "FilesThatMightBeIncluded")
      /\ r.outputs = FindArray(node, "Outputs")
      /\ r.outputDirs = FindArray(node, "TargetDirectories")
  BY DEF WriteNode
<1>3. /\ ToSet(FindArray(node, "Inputs")) \subseteq DOMAIN Parents
      /\ ToSet(FindArray(node, "FilesThatMightBeIncluded")) \subseteq DOMAIN Parents
  BY <1>1, FileAssumption
<1> HIDE DEF node, r
<1> QED
  BY <1>1, <1>2, <1>3 DEF node

\* Whatever source is below a cached node is a leaf input of it or of a cached
\* node its signature covers (CompileDagDerived, the leaf input lists).
THEOREM LeafInputsAreComplete == Spec => []LeafInputsCoverSources
<1>1. CompiledInv => LeafInputsCoverSources
  <2> SUFFICES ASSUME CompiledInv, Derived, NEW n \in Nodes, IsLeafInputCacheable(dag, n),
                      NEW m \in Below(n), NEW f \in FilesNamedBy(dag, m), IsSource(f)
               PROVE  \E c \in CoveredBy(n) : f \in leaf[c].leafInputs \cup ToSet(dag.nodes[c].ignored)
    BY DEF LeafInputsCoverSources
  <2> DEFINE found(c) == ToSet(FindDependentNodes(dag, c).results)
             C == {c \in CoveredBy(n) : IsLeafInputCacheable(dag, c)}
             All == UNION {found(c) : c \in C}
  <2>1. phase \in Compiled /\ Wired(dag)
    BY CompiledGraph DEF Derived, Compiled
  <2>2. \A c \in Nodes : IsLeafInputCacheable(dag, c) =>
            /\ leaf[c].cacheableBelow = FindDependentNodes(dag, c).cacheable
            /\ leaf[c].leafInputs = LeafInputs(dag, c)
    BY DEF CompiledInv, Derived, Pointed, Compiled, Nodes, LeafDataOf
  <2>3. ASSUME NEW c \in Nodes
        PROVE  /\ found(c) \subseteq Nodes /\ c \in found(c)
               /\ ToSet(FindDependentNodes(dag, c).cacheable) \subseteq Nodes
               /\ \A x \in found(c) : \A y \in Children(x) :
                      \/ y \in found(c)
                      \/ /\ IsLeafInputCacheable(dag, y)
                         /\ y \in ToSet(FindDependentNodes(dag, c).cacheable)
    <3> DEFINE s == FindDependentNodes(dag, c)
    <3>1. /\ s \in Searches(dag) /\ c \in ToSet(s.results)
          /\ \A x \in ToSet(s.results) : \A y \in ChildrenIn(dag, x) :
                y \in ToSet(s.results) \/ (IsLeafInputCacheable(dag, y) /\ y \in ToSet(s.cacheable))
      BY <2>1, FindOutcome DEF Nodes
    <3> HIDE DEF s
    <3>2. ToSet(s.results) \subseteq Nodes /\ ToSet(s.cacheable) \subseteq Nodes
      BY <3>1 DEF Searches, ToSet, Nodes
    <3> QED
      BY <3>1, <3>2 DEF s, Children, ChildrenIn
  <2>4. n \in CoveredBy(n) /\ CoveredBy(n) \subseteq Nodes
    BY DEF CoveredBy
  <2>5. ASSUME NEW c \in C, NEW y \in ToSet(FindDependentNodes(dag, c).cacheable)
        PROVE  y \in CoveredBy(n)
    <3>1. c \in Nodes /\ c \in CoveredBy(n) /\ ToSet(leaf[c].cacheableBelow)
              = ToSet(FindDependentNodes(dag, c).cacheable)
      BY <2>2, <2>4
    <3>2. y \in ToSet(leaf[c].cacheableBelow) /\ y \in Nodes
      BY <2>3, <2>5, <3>1
    <3>3. ASSUME NEW S \in SUBSET Nodes, n \in S,
                 \A k \in S : ToSet(leaf[k].cacheableBelow) \subseteq S
          PROVE  y \in S
      <4>1. c \in S
        BY <3>1, <3>3 DEF CoveredBy
      <4> QED
        BY <3>2, <3>3, <4>1
    <3> QED
      BY <3>2, <3>3 DEF CoveredBy
  <2> HIDE DEF found
  <2>6. C \subseteq Nodes /\ n \in C
    BY <2>4
  <2>7. All \subseteq Nodes /\ n \in All
    BY <2>3, <2>6
  <2>8. ASSUME NEW x \in All PROVE Children(x) \subseteq All
    <3> SUFFICES ASSUME NEW y \in Children(x) PROVE y \in All
      OBVIOUS
    <3>1. PICK c \in C : x \in found(c)
      OBVIOUS
    <3>2. y \in found(c) \/ (IsLeafInputCacheable(dag, y)
                             /\ y \in ToSet(FindDependentNodes(dag, c).cacheable))
      BY <2>3, <2>6, <3>1
    <3>3. CASE y \in found(c)
      BY <3>1, <3>3
    <3>4. CASE IsLeafInputCacheable(dag, y) /\ y \in ToSet(FindDependentNodes(dag, c).cacheable)
      <4>1. y \in C /\ y \in Nodes
        BY <2>4, <2>5, <3>4
      <4> QED
        BY <2>3, <4>1
    <3> QED
      BY <3>2, <3>3, <3>4
  <2>9. m \in All
    BY <2>7, <2>8 DEF Below
  <2>10. PICK c \in C : m \in found(c)
    BY <2>9
  <2>11. m \in Nodes /\ f \in DOMAIN Parents
    BY <2>1, <2>7, <2>9, CompiledFiles DEF FilesNamedBy
  <2>12. ~IsFileGenerated(dag, f)
    BY <2>1, <2>11, MakerOutcome DEF IsFileGenerated
  <2>13. f \in LeafInputs(dag, c) \/ f \in ToSet(dag.nodes[c].ignored)
    BY <2>10, <2>12 DEF LeafInputs, found
  <2> QED
    BY <2>2, <2>6, <2>13
<1> QED
  BY <1>1, PhasesComputeOnce, PTL

---------------------------------------------------------------------------
(* The files scanners look into *)

\* What a generator may include, when the generators are read as r.
IncludedAs(r, g) == UNION {ReadAs(dag, f, r) : f \in ToSet(dag.nodes[g].mightInclude)}

\* Generated files can be read as the files their generators may include: as the
\* least sets that hold what is said of them.
LEMMA ReadOutcome ==
    ASSUME Wired(dag), Nodes # {},
           \A g \in Nodes : ToSet(dag.nodes[g].mightInclude) \subseteq DOMAIN Parents
    PROVE  \E r : /\ \A g \in Nodes : r[g] = IncludedAs(r, g)
                  /\ \A files : NonGeneratedFiles(dag, files)
                                  = UNION {ReadAs(dag, f, r) : f \in ToSet(files)}
<1> DEFINE X == UNION {ToSet(dag.nodes[g].mightInclude) : g \in Nodes}
           V == [Nodes -> SUBSET X]
           Closed(T) == \A h \in Nodes : IncludedAs(T, h) \subseteq T[h]
           least == [g \in Nodes |-> {x \in X : \A T \in V : Closed(T) => x \in T[g]}]
<1>1. ASSUME NEW T \in V, NEW g \in Nodes, NEW f \in ToSet(dag.nodes[g].mightInclude)
      PROVE  /\ ReadAs(dag, f, T) \subseteq X
             /\ \A U \in V : (\A h \in Nodes : T[h] \subseteq U[h]) =>
                    ReadAs(dag, f, T) \subseteq ReadAs(dag, f, U)
  <2> DEFINE m == FindDagNodeForFile(dag, f)
  <2>1. m \in Nodes \cup {NotGenerated, UnknownNode} /\ f \in X
    BY MakerOutcome
  <2>2. \A U : ReadAs(dag, f, U)
                 = IF m = NotGenerated THEN {f} ELSE IF m = UnknownNode THEN {} ELSE U[m]
    BY DEF ReadAs
  <2> HIDE DEF m, X
  <2>3. CASE m \in {NotGenerated, UnknownNode}
    BY <2>1, <2>2, <2>3
  <2>4. CASE m \in Nodes /\ m \notin {NotGenerated, UnknownNode}
    BY <2>2, <2>4
  <2> QED
    BY <2>1, <2>3, <2>4
<1>2. ASSUME NEW T \in V, NEW g \in Nodes
      PROVE  /\ IncludedAs(T, g) \subseteq X
             /\ \A U \in V : (\A h \in Nodes : T[h] \subseteq U[h]) =>
                    IncludedAs(T, g) \subseteq IncludedAs(U, g)
  <2> HIDE DEF X
  <2> QED
    BY <1>1 DEF IncludedAs
<1> HIDE DEF X, Closed
<1>3. least \in V /\ \A g \in Nodes : \A T \in V : Closed(T) => least[g] \subseteq T[g]
  OBVIOUS
<1>4. ASSUME NEW g \in Nodes PROVE IncludedAs(least, g) \subseteq least[g]
  <2>1. ASSUME NEW T \in V, Closed(T) PROVE IncludedAs(least, g) \subseteq T[g]
    BY <1>2, <1>3, <2>1 DEF Closed
  <2>2. IncludedAs(least, g) \subseteq X
    BY <1>2, <1>3
  <2> QED
    BY <2>1, <2>2
<1>5. ASSUME NEW g \in Nodes PROVE least[g] \subseteq IncludedAs(least, g)
  <2> DEFINE T == [h \in Nodes |-> IncludedAs(least, h)]
  <2>1. T \in V
    BY <1>2, <1>3
  <2>2. \A h \in Nodes : T[h] = IncludedAs(least, h)
    OBVIOUS
  <2> HIDE DEF T, least
  <2>3. \A h \in Nodes : T[h] \subseteq least[h]
    BY <1>4, <2>2
  <2>4. \A h \in Nodes : IncludedAs(T, h) \subseteq IncludedAs(least, h)
    BY <1>2, <1>3, <2>1, <2>3
  <2>5. Closed(T)
    BY <2>2, <2>4 DEF Closed
  <2> QED
    BY <1>3, <2>1, <2>2, <2>5
<1> HIDE DEF least
<1> DEFINE P(r) == r = [g \in Nodes |-> IncludedAs(r, g)]
           read == CHOOSE r : P(r)
<1>6. P(least)
  <2>1. \A g \in Nodes : least[g] = IncludedAs(least, g)
    BY <1>4, <1>5
  <2>2. least = [g \in Nodes |-> least[g]]
    BY <1>3
  <2> QED
    BY <2>1, <2>2
<1>7. P(read)
  <2> HIDE DEF P
  <2> QED
    BY <1>6
<1>8. \A files : NonGeneratedFiles(dag, files) = UNION {ReadAs(dag, f, read) : f \in ToSet(files)}
  BY DEF NonGeneratedFiles, IncludedAs, Nodes
<1> HIDE DEF read
<1>9. \A g \in Nodes : read[g] = IncludedAs(read, g)
  BY <1>7
<1> QED
  BY <1>8, <1>9

\* A scanner looks into the sources among the inputs and, where an input is
\* generated, into what its generator may include
\* (CollectNonGeneratedFilesBeingOperatedOnByScanner).
THEOREM ScannersSeeSources ==
    ASSUME GeneratorsEnd
    PROVE  Spec => []ScannersFollowGeneratedFiles
<1>1. CompiledInv => ScannersFollowGeneratedFiles
  <2> SUFFICES ASSUME CompiledInv, Derived, NEW n \in Nodes, NEW s \in DOMAIN leaf[n].scannerFiles
               PROVE  LET Users == {m \in Own(n) : dag.nodes[m].scanner = s}
                          Makers(files) ==
                              {g \in Nodes : \E f \in files : FindDagNodeForFile(dag, f) = g}
                          Inputs == UNION {ToSet(dag.nodes[m].inputs) : m \in Users}
                          Included(G) == UNION {ToSet(dag.nodes[g].mightInclude) : g \in G}
                          Through == {g \in Nodes : \A G \in SUBSET Nodes :
                              (Makers(Inputs) \subseteq G /\ Makers(Included(G)) \subseteq G) => g \in G}
                      IN  leaf[n].scannerFiles[s] = {f \in Inputs \cup Included(Through) : IsSource(f)}
    BY DEF ScannersFollowGeneratedFiles
  <2> DEFINE Users == {m \in Own(n) : dag.nodes[m].scanner = s}
             Maker(f) == FindDagNodeForFile(dag, f)
             Makers(files) == {g \in Nodes : \E f \in files : Maker(f) = g}
             Inputs == UNION {ToSet(dag.nodes[m].inputs) : m \in Users}
             Included(G) == UNION {ToSet(dag.nodes[g].mightInclude) : g \in G}
             Through == {g \in Nodes : \A G \in SUBSET Nodes :
                 (Makers(Inputs) \subseteq G /\ Makers(Included(G)) \subseteq G) => g \in G}
             Files == leaf[n].scannerFiles[s]
  <2>1. phase \in Compiled /\ Wired(dag) /\ json \in Graphs
    BY CompiledGraph DEF Derived, Compiled
  <2>2. \A k \in Nodes :
            /\ ToSet(dag.nodes[k].inputs) \subseteq DOMAIN Parents
            /\ ToSet(dag.nodes[k].mightInclude) \subseteq DOMAIN Parents
    BY <2>1, CompiledFiles
  <2>3. PICK r : /\ \A g \in Nodes : r[g] = IncludedAs(r, g)
                 /\ \A files : NonGeneratedFiles(dag, files)
                                 = UNION {ReadAs(dag, f, r) : f \in ToSet(files)}
    BY <2>1, <2>2, ReadOutcome
  <2>4. Files = UNION {NonGeneratedFiles(dag, dag.nodes[m].inputs) : m \in Users}
    <3>1. leaf[n] = LeafDataOf(dag, n)
      BY DEF CompiledInv, Derived, Pointed, Compiled, Nodes
    <3>2. IsLeafInputCacheable(dag, n)
          /\ leaf[n].scannerFiles = [t \in DOMAIN dag.scanners |-> ScannerFiles(dag, n, t)]
      BY <3>1 DEF LeafDataOf
    <3>3. s # 0
      <4>1. dag.scanners = [t \in DOMAIN FindArray(json, "Scanners") |-> WriteScanner(json.Scanners[t])]
        BY <2>1, CompiledGraph DEF WrittenGraph, WriteGraph
      <4>2. s \in DOMAIN FindArray(json, "Scanners")
        BY <3>2, <4>1
      <4>3. FindArray(json, "Scanners") \in Seq(ToSet(FindArray(json, "Scanners")))
        BY <2>1, GraphAssumption
      <4> QED
        BY <4>2, <4>3
    <3>4. Files = ScannerFiles(dag, n, s)
      BY <3>2
    <3>5. {k \in NodesWithScanners(dag, n) : dag.nodes[k].scanner = s} = Users
      BY <2>1, <3>3, OwnIsFound DEF NodesWithScanners
    <3> QED
      BY <3>4, <3>5 DEF ScannerFiles
  <2>5. Users \subseteq Nodes
    BY DEF Own
  <2>6. \A f \in Inputs : f \in DOMAIN Parents
    BY <2>2, <2>5
  <2>7. Files = UNION {ReadAs(dag, f, r) : f \in Inputs}
    <3> HIDE DEF Users
    <3>1. \A m \in Users : NonGeneratedFiles(dag, dag.nodes[m].inputs)
                             = UNION {ReadAs(dag, f, r) : f \in ToSet(dag.nodes[m].inputs)}
      BY <2>3
    <3>2. Files = UNION {UNION {ReadAs(dag, f, r) : f \in ToSet(dag.nodes[m].inputs)} : m \in Users}
      BY <2>4, <3>1
    <3> HIDE DEF Files
    <3> QED
      BY <3>2
  <2>8. ASSUME NEW f \in DOMAIN Parents
        PROVE  /\ IsSource(f) => ReadAs(dag, f, r) = {f}
               /\ Maker(f) \in Nodes => ReadAs(dag, f, r) = r[Maker(f)] /\ ~IsSource(f)
               /\ \/ IsSource(f) \/ Maker(f) \in Nodes \/ ReadAs(dag, f, r) = {}
    <3> DEFINE m == Maker(f)
    <3>1. /\ m \in Nodes \cup {NotGenerated, UnknownNode}
          /\ m = NotGenerated <=> IsSource(f)
      BY <2>1, MakerOutcome
    <3>2. ReadAs(dag, f, r)
            = IF m = NotGenerated THEN {f} ELSE IF m = UnknownNode THEN {} ELSE r[m]
      BY DEF ReadAs
    <3>3. NotGenerated \notin Nodes /\ UnknownNode \notin Nodes
      BY <2>1 DEF Wired, Nodes, NotGenerated, UnknownNode
    <3> HIDE DEF m
    <3> QED
      BY <3>1, <3>2, <3>3 DEF m
  <2>9. Makers(Inputs) \subseteq Through /\ Makers(Included(Through)) \subseteq Through
        /\ Through \subseteq Nodes
    <3> HIDE DEF Inputs, Maker
    <3>1. \A G, H \in SUBSET Nodes : G \subseteq H => Makers(Included(G)) \subseteq Makers(Included(H))
      OBVIOUS
    <3> HIDE DEF Makers, Included
    <3>2. \A f : Makers(f) \subseteq Nodes
      BY DEF Makers
    <3> QED
      BY <3>1, <3>2
  <2>10. ASSUME NEW g \in Nodes
         PROVE  \A x \in r[g] : IsSource(x) /\ (g \in Through => x \in Included(Through))
    <3> DEFINE Good(k) == \A x \in r[k] : IsSource(x) /\ (k \in Through => x \in Included(Through))
               Bad == {k \in Nodes : ~Good(k)}
               S == {order[k].node : k \in Bad}
    <3> SUFFICES ASSUME Bad # {} PROVE FALSE
      OBVIOUS
    <3>1. S \in SUBSET DOMAIN json.Nodes /\ S # {}
      <4>1. \A k \in Nodes : order[k].node \in DOMAIN json.Nodes
        BY <2>1, CompiledFiles
      <4> HIDE DEF Good
      <4> QED
        BY <4>1
    <3>2. PICK i \in S : \A f \in ToSet(FindArray(json.Nodes[i], "FilesThatMightBeIncluded")) :
              \A j \in S : ~Makes(json.Nodes[j], f)
      BY <2>1, <3>1 DEF GeneratorsEnd
    <3>3. PICK k \in Bad : i = order[k].node
      OBVIOUS
    <3>4. k \in Nodes /\ ~Good(k)
      OBVIOUS
    <3>5. ASSUME NEW x \in r[k] PROVE IsSource(x) /\ (k \in Through => x \in Included(Through))
      <4>1. PICK f \in ToSet(dag.nodes[k].mightInclude) : x \in ReadAs(dag, f, r)
        BY <2>3, <3>4, <3>5 DEF IncludedAs
      <4>2. f \in DOMAIN Parents /\ (k \in Through => f \in Included(Through))
        BY <2>2, <3>4
      <4>3. CASE IsSource(f)
        <5>1. x = f
          BY <2>8, <4>1, <4>2, <4>3
        <5> QED
          BY <4>2, <4>3, <5>1
      <4>4. CASE Maker(f) \in Nodes
        <5> DEFINE m == Maker(f)
        <5>1. x \in r[m]
          BY <2>8, <4>1, <4>2, <4>4
        <5>2. Makes(json.Nodes[order[m].node], f)
          <6>1. \/ f \in ToSet(dag.nodes[m].outputs)
                \/ ToSet(dag.nodes[m].outputDirs) \cap ToSet(Parents[f]) # {}
            BY <2>1, <4>2, <4>4, MakerOutcome
          <6> QED
            BY <2>1, <4>4, <6>1, CompiledFiles DEF Makes
        <5>3. f \in ToSet(FindArray(json.Nodes[i], "FilesThatMightBeIncluded"))
          BY <2>1, <3>3, <3>4, CompiledFiles
        <5>4. m \notin Bad
          BY <3>2, <5>2, <5>3
        <5>5. Good(m)
          BY <4>4, <5>4
        <5>6. k \in Through => m \in Through
          <6>1. k \in Through => m \in Makers(Included(Through))
            BY <4>2, <4>4
          <6> QED
            BY <2>9, <6>1
        <5> QED
          BY <5>1, <5>5, <5>6
      <4> QED
        BY <2>8, <4>1, <4>2, <4>3, <4>4
    <3> QED
      BY <3>4, <3>5
  <2>11. ASSUME NEW x \in Files
         PROVE  x \in Inputs \cup Included(Through) /\ IsSource(x)
    <3>1. PICK f \in Inputs : x \in ReadAs(dag, f, r)
      BY <2>7
    <3>2. f \in DOMAIN Parents
      BY <2>6
    <3>3. CASE IsSource(f)
      BY <2>8, <3>1, <3>2, <3>3
    <3>4. CASE Maker(f) \in Nodes
      <4>1. x \in r[Maker(f)]
        BY <2>8, <3>1, <3>2, <3>4
      <4>2. Maker(f) \in Through
        BY <2>9, <3>1, <3>4
      <4> QED
        BY <2>10, <3>4, <4>1, <4>2
    <3> QED
      BY <2>8, <3>1, <3>2, <3>3, <3>4
  <2>12. ASSUME NEW x \in Inputs \cup Included(Through), IsSource(x)
         PROVE  x \in Files
    <3>1. CASE x \in Inputs
      BY <2>6, <2>7, <2>8, <2>12, <3>1
    <3>2. CASE x \in Included(Through)
      <4> DEFINE G == {g \in Nodes : r[g] \subseteq Files}
      <4>1. Makers(Inputs) \subseteq G
        <5> SUFFICES ASSUME NEW f \in Inputs, Maker(f) \in Nodes PROVE r[Maker(f)] \subseteq Files
          OBVIOUS
        <5>1. ReadAs(dag, f, r) = r[Maker(f)]
          BY <2>6, <2>8
        <5> QED
          BY <2>7, <5>1
      <4>2. Makers(Included(G)) \subseteq G
        <5> SUFFICES ASSUME NEW g \in G, NEW f \in ToSet(dag.nodes[g].mightInclude), Maker(f) \in Nodes
                     PROVE  r[Maker(f)] \subseteq Files
          OBVIOUS
        <5>1. ReadAs(dag, f, r) = r[Maker(f)]
          BY <2>2, <2>8
        <5>2. ReadAs(dag, f, r) \subseteq r[g]
          BY <2>3 DEF IncludedAs
        <5> QED
          BY <5>1, <5>2
      <4>3. Through \subseteq G
        <5>1. G \in SUBSET Nodes
          OBVIOUS
        <5> HIDE DEF G, Makers, Included, Inputs
        <5> QED
          BY <4>1, <4>2, <5>1
      <4>4. PICK g \in Through : x \in ToSet(dag.nodes[g].mightInclude)
        BY <3>2
      <4>5. g \in Nodes /\ r[g] \subseteq Files
        BY <4>3
      <4>6. x \in r[g]
        <5>1. ReadAs(dag, x, r) = {x}
          BY <2>2, <2>8, <2>12, <4>4, <4>5
        <5> QED
          BY <2>3, <4>4, <4>5, <5>1 DEF IncludedAs
      <4> QED
        BY <4>5, <4>6
    <3> QED
      BY <2>12, <3>1, <3>2
  <2>13. Files = {f \in Inputs \cup Included(Through) : IsSource(f)}
    BY <2>11, <2>12
  <2> QED
    BY <2>13
<1> QED
  BY <1>1, PhasesComputeOnce, PTL

\* A cached node is looked up by everything its result can depend on.
THEOREM CachedNodesAreCovered ==
    ASSUME GeneratorsEnd
    PROVE  Spec => []CachedNodesSeeTheirSources
<1>1. Spec => []LeafInputsCoverSources
  BY LeafInputsAreComplete
<1>2. Spec => []ScannersFollowGeneratedFiles
  BY ScannersSeeSources
<1>3. LeafInputsCoverSources /\ ScannersFollowGeneratedFiles => CachedNodesSeeTheirSources
  BY DEF CachedNodesSeeTheirSources
<1> QED
  BY <1>1, <1>2, <1>3, PTL

---------------------------------------------------------------------------
(* What the frontend meant *)

\* A remapped list leads to the nodes the indices of the list stood for.
LEMMA OriginalOutcome ==
    ASSUME CompiledInv, phase \in Compiled, NEW indices \in Seq(Nodes)
    PROVE  LET w == WriteIndices(indices, RemapTable(order)) IN
           /\ [p \in DOMAIN w |-> dag.nodes[w[p]].originalIndex] = indices
           /\ \A p \in DOMAIN w : w[p] \in Nodes
<1> DEFINE w == WriteIndices(indices, RemapTable(order))
           n == Len(json.Nodes)
<1>1. /\ n \in Nat /\ Nodes = 1 .. n
      /\ \A i \in Nodes : RemapTable(order)[i] \in Nodes /\ order[RemapTable(order)[i]].node = i
      /\ \A k \in Nodes : dag.nodes[k].originalIndex = order[k].node
  BY CompiledNodes
<1> HIDE DEF n
<1>2. /\ w \in Seq(1 .. n) /\ DOMAIN w = DOMAIN indices
      /\ \A k \in DOMAIN indices : order[w[k]].node = indices[k]
  BY <1>1, RemappedOutcome
<1> HIDE DEF w
<1>3. \A p \in DOMAIN w : w[p] \in Nodes
  BY <1>1, <1>2
<1>4. \A p \in DOMAIN indices : dag.nodes[w[p]].originalIndex = indices[p]
  BY <1>1, <1>2, <1>3
<1>5. indices = [p \in DOMAIN indices |-> indices[p]]
  OBVIOUS
<1> QED
  BY <1>2, <1>3, <1>4, <1>5 DEF w

\* Numbers in ascending order of which no neighbours are equal are all different.
LEMMA NeighboursDiffer ==
    ASSUME CompiledInv, phase \in Compiled
    PROVE  \A k, l \in Nodes : k < l => order[k].digest < order[l].digest
<1> SUFFICES ASSUME NEW k \in Nodes, NEW l \in Nodes, k < l
             PROVE  order[k].digest < order[l].digest
  OBVIOUS
<1> DEFINE n == Len(json.Nodes)
<1>1. /\ n \in Nat /\ Nodes = 1 .. n /\ DOMAIN order = Nodes
      /\ \A i, j \in Nodes : i < j => order[i].digest <= order[j].digest
      /\ \A i \in Nodes : order[i].digest \in Int
  BY CompiledNodes
<1>2. ~GuidsCollide(order) /\ Len(order) = n
  <2>1. json \in Graphs /\ digest \in Digests /\ order = SortedGuidTable(json, digest)
        /\ ~GuidsCollide(order)
    BY CompiledGraph
  <2>2. OrderedAs(order, json, digest)
    BY <2>1, OrderOutcome
  <2> QED
    BY <2>1, <2>2 DEF OrderedAs
<1> HIDE DEF n
<1>3. l \in 2 .. n /\ l - 1 \in Nodes /\ (k = l - 1 \/ k < l - 1)
  BY <1>1
<1>4. order[l - 1].digest # order[l].digest
  BY <1>2, <1>3 DEF GuidsCollide
<1>5. order[l - 1].digest <= order[l].digest
  BY <1>1, <1>3
<1>6. order[k].digest <= order[l - 1].digest
  BY <1>1, <1>3
<1> QED
  BY <1>1, <1>3, <1>4, <1>5, <1>6

\* Whatever the guids are, every index leads to the node it led to in the JSON,
\* and no two nodes write the same files (ComputeNodeGuids, WriteNodes).
THEOREM IdentitiesAreKept == Spec => []NodesKeepTheirIdentity
<1>1. CompiledInv => NodesKeepTheirIdentity
  <2> SUFFICES ASSUME CompiledInv, Frozen PROVE NodesKeepTheirIdentity
    BY DEF NodesKeepTheirIdentity
  <2> DEFINE Original(indices) == [p \in DOMAIN indices |-> dag.nodes[indices[p]].originalIndex]
             Named == FindArray(json, "NamedNodes")
  <2>1. phase \in Compiled /\ json \in Graphs
    BY CompiledGraph DEF Frozen, Compiled
  <2>2. /\ DOMAIN json.Nodes = Nodes
        /\ dag.defaults = WriteIndices(json.DefaultNodes, RemapTable(order))
        /\ dag.named = WriteNamedNodes(json, RemapTable(order))
        /\ \A i \in Nodes : RemapTable(order)[i] \in Nodes /\ order[RemapTable(order)[i]].node = i
    BY <2>1, CompiledNodes
  <2>3. ASSUME NEW k \in Nodes
        PROVE  LET node == json.Nodes[order[k].node] IN
               /\ order[k].digest \in Int /\ order[k].node \in Nodes
               /\ order[k].digest = digest[HashedText(node)]
               /\ dag.nodes[k].originalIndex = order[k].node
               /\ dag.nodes[k].guid = order[k].digest
               /\ dag.nodes[k].outputs = FindArray(node, "Outputs")
               /\ dag.nodes[k].toBuild = WriteIndices(ToBuildDependencies(node), RemapTable(order))
               /\ dag.nodes[k].toUse
                    = WriteIndices(FindArray(node, "ToUseDependencies"), RemapTable(order))
    BY <2>1, CompiledNodes
  <2>4. \A k, l \in Nodes : k < l => dag.nodes[k].guid < dag.nodes[l].guid
    BY <2>1, <2>3, NeighboursDiffer
  <2>5. ASSUME NEW k \in Nodes, NEW l \in Nodes, k # l, dag.nodes[k].outputs # <<>>
        PROVE  dag.nodes[k].outputs # dag.nodes[l].outputs
    <3> SUFFICES ASSUME dag.nodes[k].outputs = dag.nodes[l].outputs PROVE FALSE
      OBVIOUS
    <3> DEFINE a == json.Nodes[order[k].node]
               b == json.Nodes[order[l].node]
    <3>1. FindArray(a, "Outputs") = FindArray(b, "Outputs") /\ FindArray(a, "Outputs") # <<>>
      BY <2>3, <2>5
    <3>2. HashedText(a) = Append(FindArray(a, "Outputs"), "salt for outputs")
          /\ HashedText(b) = Append(FindArray(b, "Outputs"), "salt for outputs")
      BY <3>1 DEF HashedText, FindArray, Find, Has
    <3>3. HashedText(a) = HashedText(b)
      BY <3>1, <3>2
    <3> HIDE DEF a, b
    <3>4. order[k].digest = order[l].digest /\ order[k].digest \in Int
      <4>1. order[k].digest = digest[HashedText(a)] /\ order[k].digest \in Int
        BY <2>3 DEF a
      <4>2. order[l].digest = digest[HashedText(b)]
        BY <2>3 DEF b
      <4> QED
        BY <3>3, <4>1, <4>2
    <3>5. k < l \/ l < k
      <4>1. Nodes = 1 .. Len(json.Nodes) /\ Len(json.Nodes) \in Nat
        BY <2>1, CompiledNodes
      <4>2. k \in Int /\ l \in Int
        BY <4>1
      <4> QED
        BY <2>5, <4>2
    <3>6. order[k].digest < order[l].digest \/ order[l].digest < order[k].digest
      BY <2>1, <3>5, NeighboursDiffer
    <3> QED
      BY <3>4, <3>6
  <2>6. ASSUME NEW k \in Nodes
        PROVE  LET node == json.Nodes[dag.nodes[k].originalIndex] IN
               /\ dag.nodes[k].outputs = FindArray(node, "Outputs")
               /\ Original(dag.nodes[k].toBuild) = ToBuildDependencies(node)
               /\ Original(dag.nodes[k].toUse) = FindArray(node, "ToUseDependencies")
    <3> DEFINE node == json.Nodes[order[k].node]
    <3>1. ToBuildDependencies(node) \in Seq(Nodes) /\ FindArray(node, "ToUseDependencies") \in Seq(Nodes)
      BY <2>1, <2>2, <2>3, GraphAssumption
    <3> HIDE DEF node
    <3>2. Original(WriteIndices(ToBuildDependencies(node), RemapTable(order)))
            = ToBuildDependencies(node)
      BY <2>1, <3>1, OriginalOutcome
    <3>3. Original(WriteIndices(FindArray(node, "ToUseDependencies"), RemapTable(order)))
            = FindArray(node, "ToUseDependencies")
      BY <2>1, <3>1, OriginalOutcome
    <3> HIDE DEF Original
    <3> QED
      BY <2>3, <3>2, <3>3 DEF node
  <2>7. Original(dag.defaults) = json.DefaultNodes
    <3>1. json.DefaultNodes \in Seq(Nodes)
      BY <2>1, <2>2, GraphAssumption
    <3> QED
      BY <2>1, <2>2, <3>1, OriginalOutcome
  <2>8. ASSUME NEW k \in DOMAIN dag.named
        PROVE  dag.nodes[dag.named[k].node].originalIndex = json.NamedNodes[k].node
    <3>1. k \in DOMAIN Named /\ Named = json.NamedNodes
          /\ dag.named[k] = [json.NamedNodes[k] EXCEPT !.node = RemapTable(order)[@]]
      <4>1. dag.named = [i \in DOMAIN Named |->
                            [json.NamedNodes[i] EXCEPT !.node = RemapTable(order)[@]]]
        BY <2>2 DEF WriteNamedNodes
      <4>2. k \in DOMAIN Named
        BY <2>8, <4>1
      <4>3. Named # <<>>
        BY <4>2
      <4>4. Named = json.NamedNodes
        BY <4>3 DEF FindArray, Find, Has
      <4> QED
        BY <4>1, <4>2, <4>4
    <3>2. Named[k].node \in Nodes /\ DOMAIN Named[k] = {"name", "node"}
      BY <2>1, <2>2, <3>1, GraphAssumption
    <3>3. dag.named[k].node = RemapTable(order)[json.NamedNodes[k].node]
      BY <3>1, <3>2
    <3> QED
      BY <2>2, <2>3, <3>1, <3>2, <3>3
  <2> HIDE DEF Original
  <2> QED
    BY <2>4, <2>5, <2>6, <2>7, <2>8 DEF NodesKeepTheirIdentity, Original
<1> QED
  BY <1>1, PhasesComputeOnce, PTL

---------------------------------------------------------------------------
(* Flattened dependencies *)

\* As many different nodes as there are, are all of them.
LEMMA OnceCovers ==
    ASSUME NEW n \in Nat, NEW s \in Seq(1 .. n), Once(s), Len(s) >= n
    PROVE  ToSet(s) = 1 .. n
<1>1. Len(s) \in Nat /\ Len(s) = n /\ DOMAIN s = 1 .. n
  <2>1. Len(s) \in Nat /\ DOMAIN s = 1 .. Len(s)
    OBVIOUS
  <2>2. Len(s) <= n
    BY OnceIsShort
  <2> DEFINE l == Len(s)
  <2>3. l \in Nat /\ l <= n /\ l >= n /\ DOMAIN s = 1 .. l
    BY <2>1, <2>2
  <2> HIDE DEF l
  <2>4. l = n
    BY <2>3
  <2> QED
    BY <2>3, <2>4 DEF l
<1>2. s \in Injection(1 .. n, 1 .. n)
  <2>1. s \in [1 .. n -> 1 .. n]
    BY <1>1
  <2> QED
    BY <1>1, <2>1 DEF Once, Injection, IsInjective
<1>3. s \in Surjection(1 .. n, 1 .. n)
  <2>1. IsFiniteSet(1 .. n)
    BY FS_Interval
  <2> QED
    BY <1>2, <2>1, FS_Injection
<1>4. ToSet(s) = {s[k] : k \in 1 .. n}
  BY <1>1 DEF ToSet
<1>5. \A e \in 1 .. n : \E k \in 1 .. n : s[k] = e
  BY <1>3 DEF Surjection
<1>6. \A k \in 1 .. n : s[k] \in 1 .. n
  BY <1>1
<1> QED
  BY <1>4, <1>5, <1>6

Flattenings(d) ==
    {v \in [deps : Seq(NodesOf(d)), todo : Seq(NodesOf(d))] : Once(v.deps)}

\* A step takes from todo what is a dependency already, and the first node that
\* is not becomes one; if there is none nothing changes any more.
LEMMA AddOutcome ==
    ASSUME NEW d, Wired(d), NEW v \in Flattenings(d)
    PROVE  LET t == AddToUseDependencies(d, v) IN
           \/ t = v /\ ToSet(v.todo) \subseteq ToSet(v.deps)
           \/ \E e \in ToSet(v.todo) \ ToSet(v.deps) :
                 /\ t \in Flattenings(d) /\ Len(t.deps) = Len(v.deps) + 1
                 /\ ToSet(t.deps) = ToSet(v.deps) \cup {e}
                 /\ ToSet(t.todo) \subseteq ToSet(d.nodes[e].toUse) \cup ToSet(v.todo)
                 /\ ToSet(d.nodes[e].toUse) \subseteq ToSet(t.todo)
                 /\ ToSet(v.todo) \subseteq ToSet(t.deps) \cup ToSet(t.todo)
<1> DEFINE N == NodesOf(d)
           new == {k \in DOMAIN v.todo : v.todo[k] \notin ToSet(v.deps)}
           i == Min(new)
           e == v.todo[i]
           rest == SubSeq(v.todo, i + 1, Len(v.todo))
           t == AddToUseDependencies(d, v)
           l == Len(v.todo)
<1>1. /\ v.deps \in Seq(N) /\ v.todo \in Seq(N) /\ Once(v.deps)
      /\ DOMAIN v.todo = 1 .. l /\ l \in Nat
      /\ \A k \in 1 .. l : v.todo[k] \in N
  BY DEF Flattenings
<1>2. ToSet(v.todo) = {v.todo[k] : k \in 1 .. l}
  BY <1>1 DEF ToSet
<1>3. CASE new = {}
  <2>1. t = v
    BY <1>3 DEF AddToUseDependencies
  <2>2. ToSet(v.todo) \subseteq ToSet(v.deps)
    BY <1>1, <1>2, <1>3
  <2> QED
    BY <2>1, <2>2
<1>4. CASE new # {}
  <2>1. t = [deps |-> Append(v.deps, e), todo |-> d.nodes[e].toUse \o rest]
    BY <1>4 DEF AddToUseDependencies
  <2>2. new \in SUBSET Nat
    BY <1>1
  <2>3. i \in new /\ \A k \in new : i <= k
    <3>1. \E m \in new : \A k \in new : m <= k
      BY <1>4, <2>2, LeastNumber
    <3> QED
      BY <3>1 DEF Min
  <2>4. i \in 1 .. l /\ e \in N /\ e \in ToSet(v.todo) \ ToSet(v.deps)
    BY <1>1, <1>2, <2>3
  <2>5. rest \in Seq(N) /\ Len(rest) = l - i
        /\ \A k \in 1 .. l - i : rest[k] = v.todo[i + k]
    <3> HIDE DEF i, N, l
    <3>1. v.todo \in Seq(N) /\ i + 1 \in 1 .. l + 1 /\ l \in Nat /\ i \in 1 .. l /\ l = Len(v.todo)
      BY <1>1, <2>4 DEF l
    <3>2. rest \in Seq(N) /\ Len(rest) = l - (i + 1) + 1
          /\ \A k \in 1 .. l - (i + 1) + 1 : rest[k] = v.todo[(i + 1) + k - 1]
      BY <3>1
    <3>3. l - (i + 1) + 1 = l - i /\ \A k \in 1 .. l - i : (i + 1) + k - 1 = i + k
      BY <3>1
    <3> QED
      BY <3>2, <3>3
  <2>6. \A k \in 1 .. l : \/ v.todo[k] \in ToSet(v.deps)
                          \/ k = i
                          \/ k - i \in 1 .. l - i /\ v.todo[k] = rest[k - i]
    <3> SUFFICES ASSUME NEW k \in 1 .. l, v.todo[k] \notin ToSet(v.deps), k # i
                 PROVE  k - i \in 1 .. l - i /\ v.todo[k] = rest[k - i]
      OBVIOUS
    <3>1. k \in new
      BY <1>1
    <3>2. i <= k
      BY <2>3, <3>1
    <3>3. k - i \in 1 .. l - i /\ i + (k - i) = k
      BY <1>1, <2>4, <3>2
    <3> QED
      BY <2>5, <3>3
  <2> DEFINE u == d.nodes[e].toUse
             todo == u \o rest
  <2>7. u \in Seq(N)
    <3>1. e \in NodesOf(d)
      BY <2>4
    <3> HIDE DEF e
    <3> QED
      BY <3>1 DEF Wired
  <2> HIDE DEF u, new, i, e, rest, t, l
  <2>8. /\ todo \in Seq(N) /\ Len(todo) = Len(u) + Len(rest)
        /\ \A k \in 1 .. Len(u) : todo[k] = u[k]
        /\ \A k \in 1 .. Len(rest) : todo[Len(u) + k] = rest[k]
    <3>1. todo = u \o rest
      OBVIOUS
    <3>2. u \in Seq(N) /\ rest \in Seq(N)
      BY <2>5, <2>7
    <3> HIDE DEF todo, N
    <3> QED
      BY <3>1, <3>2, JoinedTwo
  <2> HIDE DEF todo
  <2>9. DOMAIN todo = 1 .. Len(todo) /\ DOMAIN u = 1 .. Len(u) /\ DOMAIN rest = 1 .. Len(rest)
        /\ Len(u) \in Nat /\ Len(rest) \in Nat
    BY <2>5, <2>7, <2>8
  <2>10. ToSet(u) \subseteq ToSet(todo)
    <3>1. \A k \in 1 .. Len(u) : k \in 1 .. Len(todo)
      BY <2>8, <2>9
    <3> QED
      BY <2>8, <2>9, <3>1 DEF ToSet
  <2>11. ToSet(rest) \subseteq ToSet(todo)
    <3>1. \A k \in 1 .. Len(rest) : Len(u) + k \in 1 .. Len(todo)
      BY <2>8, <2>9
    <3> QED
      BY <2>8, <2>9, <3>1 DEF ToSet
  <2>12. ToSet(todo) \subseteq ToSet(u) \cup ToSet(rest)
    <3> SUFFICES ASSUME NEW k \in 1 .. Len(todo) PROVE todo[k] \in ToSet(u) \cup ToSet(rest)
      BY <2>9 DEF ToSet
    <3>1. CASE k <= Len(u)
      <4>1. k \in 1 .. Len(u)
        BY <2>9, <3>1
      <4> QED
        BY <2>8, <2>9, <4>1 DEF ToSet
    <3>2. CASE ~(k <= Len(u))
      <4>1. k - Len(u) \in 1 .. Len(rest) /\ Len(u) + (k - Len(u)) = k
        BY <2>8, <2>9, <3>2
      <4> QED
        BY <2>8, <2>9, <4>1 DEF ToSet
    <3> QED
      BY <3>1, <3>2
  <2>13. ToSet(rest) \subseteq ToSet(v.todo)
    <3>1. \A k \in 1 .. l - i : i + k \in 1 .. l
      BY <1>1, <2>4
    <3> QED
      BY <1>2, <2>5, <2>9, <3>1 DEF ToSet
  <2>14. Append(v.deps, e) \in Seq(N) /\ ToSet(Append(v.deps, e)) = ToSet(v.deps) \cup {e}
         /\ Once(Append(v.deps, e)) /\ Len(Append(v.deps, e)) = Len(v.deps) + 1
    <3>1. e \in N /\ e \notin ToSet(v.deps)
      BY <2>4
    <3> QED
      BY <1>1, <3>1, AppendedElements, AppendedOnce, AppendProperties
  <2>15. t.deps = Append(v.deps, e) /\ t.todo = todo /\ t \in Flattenings(d)
    <3>1. t = [deps |-> Append(v.deps, e), todo |-> todo]
      BY <2>1 DEF todo, u
    <3> QED
      BY <2>8, <2>14, <3>1 DEF Flattenings
  <2>16. ToSet(v.todo) \subseteq ToSet(t.deps) \cup ToSet(t.todo)
    <3> SUFFICES ASSUME NEW k \in 1 .. l PROVE v.todo[k] \in ToSet(v.deps) \cup {e} \cup ToSet(rest)
      BY <1>2, <2>11, <2>14, <2>15
    <3>1. \A j \in 1 .. l - i : rest[j] \in ToSet(rest)
      BY <2>5, <2>9 DEF ToSet
    <3> QED
      BY <2>6, <3>1 DEF e
  <2>17. ToSet(t.todo) \subseteq ToSet(u) \cup ToSet(v.todo)
    BY <2>12, <2>13, <2>15
  <2>18. e \in ToSet(v.todo) \ ToSet(v.deps)
    BY <2>4
  <2> QED
    BY <2>10, <2>14, <2>15, <2>16, <2>17, <2>18 DEF u, t
<1> QED
  BY <1>3, <1>4

\* What is closed under to-use lists.
UseClosed(d, S) == \A m \in S : ToSet(d.nodes[m].toUse) \subseteq S

\* The flattened dependencies are the least set that holds what is depended on to
\* build and what its members hand on.
LEMMA FlattenOutcome ==
    ASSUME NEW d, Wired(d), NEW node \in NodesOf(d)
    PROVE  LET deps0 == ToSet(CombinedDependencies(d, node)) IN
           /\ CombinedDependencies(d, node) \in Seq(NodesOf(d))
           /\ ToSet(d.nodes[node].toBuild) \subseteq deps0 /\ UseClosed(d, deps0)
           /\ \A S \in SUBSET NodesOf(d) :
                 ToSet(d.nodes[node].toBuild) \subseteq S /\ UseClosed(d, S) => deps0 \subseteq S
<1> DEFINE N == NodesOf(d)
           n == Len(d.nodes)
           V == Flattenings(d)
           build == ToSet(d.nodes[node].toBuild)
           first == [deps |-> <<>>, todo |-> d.nodes[node].toBuild]
           F == [x \in (1 .. n) \X V |-> AddToUseDependencies(d, x[2])]
           P(v) == v = [k \in 0 .. n |-> IF k = 0 THEN first ELSE AddToUseDependencies(d, v[k - 1])]
           at == CHOOSE v : P(v)
<1>1. n \in Nat /\ N = 1 .. n
  BY DEF Wired
<1>2. first \in V /\ ToSet(first.deps) = {} /\ ToSet(first.todo) = build /\ Len(first.deps) = 0
  <2>1. d.nodes[node].toBuild \in Seq(N)
    BY DEF Wired
  <2>2. <<>> \in Seq(N) /\ Once(<<>>) /\ ToSet(<<>>) = {} /\ Len(<<>>) = 0
    BY DEF Once, ToSet
  <2> QED
    BY <2>1, <2>2 DEF Flattenings
<1> HIDE DEF first, n, V
<1>3. \A k \in 1 .. n : \A v \in V : F[<<k, v>>] = AddToUseDependencies(d, v) /\ F[<<k, v>>] \in V
  <2>1. ASSUME NEW v \in V PROVE AddToUseDependencies(d, v) \in V
    BY AddOutcome DEF V
  <2> QED
    BY <2>1
<1> HIDE DEF F
<1>4. PICK g \in [0 .. n -> V] : g[0] = first /\ \A k \in 1 .. n : g[k] = F[<<k, g[k - 1]>>]
  <2>1. Rounds(n, V, first, F) # {}
    BY <1>1, <1>2, <1>3, LoopIsDefined
  <2> QED
    BY <2>1 DEF Rounds
<1>5. P(g)
  <2>1. ASSUME NEW k \in 1 .. n PROVE g[k] = AddToUseDependencies(d, g[k - 1])
    <3>1. k - 1 \in 0 .. n /\ g[k - 1] \in V
      BY <1>1, <1>4
    <3> QED
      BY <1>3, <1>4, <3>1
  <2>2. g[0] = first /\ g \in [0 .. n -> V]
    BY <1>4
  <2> HIDE DEF at
  <2> QED
    BY <1>1, <2>1, <2>2
<1>6. P(at)
  <2> HIDE DEF P
  <2> QED
    BY <1>5
<1>7. CombinedDependencies(d, node) = at[n].deps
  BY DEF CombinedDependencies, first, n
<1> HIDE DEF at
<1>8. at[0] = first /\ \A k \in 1 .. n : at[k] = AddToUseDependencies(d, at[k - 1])
  BY <1>1, <1>6
<1> DEFINE Kept(v) == build \subseteq ToSet(v.deps) \cup ToSet(v.todo)
                      /\ \A m \in ToSet(v.deps) :
                             ToSet(d.nodes[m].toUse) \subseteq ToSet(v.deps) \cup ToSet(v.todo)
           Least(v) == \A S \in SUBSET N : build \subseteq S /\ UseClosed(d, S) =>
                           ToSet(v.deps) \cup ToSet(v.todo) \subseteq S
           Good(k) == /\ at[k] \in V /\ Kept(at[k]) /\ Least(at[k])
                      /\ ToSet(at[k].todo) \subseteq ToSet(at[k].deps) \/ Len(at[k].deps) = k
           good == {k \in 0 .. n : Good(k)}
<1>9. Good(0)
  <2>1. Kept(first) /\ Least(first) /\ Len(first.deps) = 0
    BY <1>2
  <2> HIDE DEF Kept, Least
  <2> QED
    BY <1>2, <1>8, <2>1
<1>10. ASSUME NEW k \in 1 .. n, Good(k - 1) PROVE Good(k)
  <2> DEFINE v == at[k - 1]
             t == at[k]
  <2>0. t = AddToUseDependencies(d, v) /\ v \in V /\ Kept(v) /\ Least(v)
        /\ (ToSet(v.todo) \subseteq ToSet(v.deps) \/ Len(v.deps) = k - 1)
    BY <1>8, <1>10
  <2> HIDE DEF v, t
  <2>1. CASE t = v /\ ToSet(v.todo) \subseteq ToSet(v.deps)
    <3> HIDE DEF Kept, Least
    <3> QED
      BY <2>0, <2>1 DEF t
  <2>2. ASSUME NEW e \in ToSet(v.todo) \ ToSet(v.deps),
               t \in V, Len(t.deps) = Len(v.deps) + 1,
               ToSet(t.deps) = ToSet(v.deps) \cup {e},
               ToSet(t.todo) \subseteq ToSet(d.nodes[e].toUse) \cup ToSet(v.todo),
               ToSet(d.nodes[e].toUse) \subseteq ToSet(t.todo),
               ToSet(v.todo) \subseteq ToSet(t.deps) \cup ToSet(t.todo)
        PROVE  Good(k)
    <3>1. Kept(t)
      BY <2>0, <2>2
    <3>2. Least(t)
      <4> SUFFICES ASSUME NEW S \in SUBSET N, build \subseteq S, UseClosed(d, S)
                   PROVE  ToSet(t.deps) \cup ToSet(t.todo) \subseteq S
        OBVIOUS
      <4>1. ToSet(v.deps) \cup ToSet(v.todo) \subseteq S
        BY <2>0
      <4>2. e \in S /\ ToSet(d.nodes[e].toUse) \subseteq S
        BY <4>1 DEF UseClosed
      <4> QED
        BY <2>2, <4>1, <4>2
    <3>3. Len(t.deps) = k
      <4>1. Len(v.deps) = k - 1
        BY <2>0
      <4> QED
        BY <2>2, <4>1
    <3> HIDE DEF Kept, Least
    <3> QED
      BY <2>2, <3>1, <3>2, <3>3 DEF t
  <2>3. \/ t = v /\ ToSet(v.todo) \subseteq ToSet(v.deps)
        \/ \E e \in ToSet(v.todo) \ ToSet(v.deps) :
              /\ t \in V /\ Len(t.deps) = Len(v.deps) + 1
              /\ ToSet(t.deps) = ToSet(v.deps) \cup {e}
              /\ ToSet(t.todo) \subseteq ToSet(d.nodes[e].toUse) \cup ToSet(v.todo)
              /\ ToSet(d.nodes[e].toUse) \subseteq ToSet(t.todo)
              /\ ToSet(v.todo) \subseteq ToSet(t.deps) \cup ToSet(t.todo)
    BY <2>0, AddOutcome DEF V
  <2> HIDE DEF Good
  <2> QED
    BY <2>1, <2>2, <2>3
<1>11. Good(n)
  <2>1. good \in SUBSET (0 .. n) /\ 0 \in good /\ \A k \in 1 .. n : k - 1 \in good => k \in good
    <3>1. \A k \in 1 .. n : k \in 0 .. n
      OBVIOUS
    <3> HIDE DEF Good
    <3> QED
      BY <1>1, <1>9, <1>10, <3>1
  <2> HIDE DEF good
  <2>2. good = 0 .. n
    BY <1>1, <2>1, LoopKeeps
  <2>3. n \in good
    BY <1>1, <2>2
  <2> QED
    BY <2>3 DEF good
<1> DEFINE f == at[n]
<1>12. f \in V /\ Kept(f) /\ Least(f)
       /\ (ToSet(f.todo) \subseteq ToSet(f.deps) \/ Len(f.deps) = n)
  BY <1>11
<1> HIDE DEF f
<1>13. f.deps \in Seq(N) /\ f.todo \in Seq(N) /\ Once(f.deps)
  BY <1>12 DEF V, Flattenings
<1>14. ToSet(f.todo) \subseteq ToSet(f.deps)
  <2> SUFFICES ASSUME Len(f.deps) = n PROVE ToSet(f.todo) \subseteq ToSet(f.deps)
    BY <1>12
  <2>1. ToSet(f.deps) = 1 .. n
    BY <1>1, <1>13, OnceCovers
  <2>2. ToSet(f.todo) \subseteq N
    BY <1>13 DEF ToSet
  <2> QED
    BY <1>1, <2>1, <2>2
<1>15. build \subseteq ToSet(f.deps) /\ UseClosed(d, ToSet(f.deps))
  BY <1>12, <1>14 DEF UseClosed
<1>16. \A S \in SUBSET N : build \subseteq S /\ UseClosed(d, S) => ToSet(f.deps) \subseteq S
  BY <1>12
<1>17. CombinedDependencies(d, node) = f.deps
  BY <1>7 DEF f
<1> HIDE DEF build
<1> QED
  BY <1>13, <1>15, <1>16, <1>17 DEF build

\* The scheduler waits for what a node needs to build and for all that this hands
\* on, at any distance, and for nothing else (CompileDagDerived,
\* AddToUseDependenciesOfDagNodeRecursive).
THEOREM DependenciesAreComplete == Spec => []DependenciesAreFlattened
<1>1. CompiledInv => DependenciesAreFlattened
  <2> SUFFICES ASSUME CompiledInv, phase = "points", NEW n \in Nodes, NEW d \in Nodes
               PROVE  d \in ToSet(deps[n]) <=>
                        \A S \in SUBSET Nodes :
                            /\ ToSet(dag.nodes[n].toBuild) \subseteq S
                            /\ \A m \in S : ToSet(dag.nodes[m].toUse) \subseteq S
                            => d \in S
    BY DEF DependenciesAreFlattened
  <2>1. Wired(dag)
    BY CompiledGraph DEF Compiled
  <2>2. deps[n] = CombinedDependencies(dag, n)
    BY DEF CompiledInv, Compiled, Nodes
  <2> DEFINE D == ToSet(deps[n])
             build == ToSet(dag.nodes[n].toBuild)
  <2>3. /\ deps[n] \in Seq(Nodes)
        /\ build \subseteq D /\ UseClosed(dag, D)
        /\ \A S \in SUBSET Nodes : build \subseteq S /\ UseClosed(dag, S) => D \subseteq S
    BY <2>1, <2>2, FlattenOutcome DEF Nodes
  <2>4. D \in SUBSET Nodes
    BY <2>3 DEF ToSet
  <2> HIDE DEF D, build
  <2>5. d \in D <=> \A S \in SUBSET Nodes : build \subseteq S /\ UseClosed(dag, S) => d \in S
    BY <2>3, <2>4
  <2> QED
    BY <2>5 DEF D, build, UseClosed
<1> QED
  BY <1>1, PhasesComputeOnce, PTL

---------------------------------------------------------------------------
(* Points *)

\* A finite set of natural numbers has a greatest one.
LEMMA GreatestNumber ==
    ASSUME NEW T \in SUBSET Nat, IsFiniteSet(T), T # {}
    PROVE  Max(T) \in T /\ \A y \in T : y <= Max(T)
<1> DEFINE c == Cardinality(T)
<1>1. c \in Nat /\ ExistsBijection(1 .. c, T)
  BY FS_CardinalityType
<1>2. PICK f \in [1 .. c -> T] : \A y \in T : \E k \in 1 .. c : f[k] = y
  BY <1>1 DEF ExistsBijection, Bijection, Surjection
<1> HIDE DEF c
<1> DEFINE good == {k \in 0 .. c : \E u \in Nat : \A j \in 1 .. k : f[j] <= u}
<1>3. good \in SUBSET (0 .. c) /\ 0 \in good
  <2>1. 0 \in 0 .. c /\ 0 \in Nat /\ \A j \in 1 .. 0 : f[j] <= 0
    BY <1>1
  <2> QED
    BY <2>1
<1>4. ASSUME NEW k \in 1 .. c, k - 1 \in good PROVE k \in good
  <2>1. PICK u \in Nat : \A j \in 1 .. k - 1 : f[j] <= u
    BY <1>4
  <2>2. f[k] \in Nat
    OBVIOUS
  <2>3. \A j \in 1 .. k : j \in 1 .. k - 1 \/ j = k
    BY <1>1
  <2>4. \A j \in 1 .. k : f[j] <= u + f[k]
    <3> SUFFICES ASSUME NEW j \in 1 .. k PROVE f[j] <= u + f[k]
      OBVIOUS
    <3>1. j \in 1 .. c
      BY <1>1
    <3>2. f[j] \in Nat
      BY <3>1
    <3>3. f[j] <= u \/ j = k
      BY <2>1, <2>3
    <3> QED
      BY <2>2, <3>2, <3>3
  <2>5. u + f[k] \in Nat /\ k \in 0 .. c
    BY <2>2
  <2> QED
    BY <2>4, <2>5
<1>5. PICK u \in Nat : \A y \in T : y <= u
  <2> HIDE DEF good
  <2>1. good = 0 .. c
    BY <1>1, <1>3, <1>4, LoopKeeps
  <2>2. c \in good
    BY <1>1, <2>1
  <2> QED
    BY <1>2, <2>2 DEF good
<1> DEFINE bounds == {b \in Nat : \A y \in T : y <= b}
<1>6. PICK m \in bounds : \A b \in bounds : m <= b
  <2>1. bounds \in SUBSET Nat /\ bounds # {}
    BY <1>5
  <2> HIDE DEF bounds
  <2> QED
    BY <2>1, LeastNumber
<1>7. m \in T
  <2> SUFFICES ASSUME m \notin T PROVE FALSE
    OBVIOUS
  <2>1. \A y \in T : y <= m - 1 /\ y \in Nat
    BY <1>6
  <2>2. m - 1 \in Nat
    <3>1. PICK y \in T : y <= m - 1 /\ y \in Nat
      BY <2>1
    <3>2. m \in Nat
      BY <1>6
    <3> QED
      BY <3>1, <3>2
  <2> QED
    BY <1>6, <2>1, <2>2
<1>8. \E x \in T : \A y \in T : x >= y
  BY <1>6, <1>7
<1>9. Max(T) \in T /\ \A y \in T : Max(T) >= y
  BY <1>8 DEF Max
<1> QED
  BY <1>9

\* Nodes without cycles can be numbered so that every edge leads downwards.
LEMMA NodesHaveHeights ==
    ASSUME NEW n \in Nat, NEW E,
           \A S \in SUBSET (1 .. n) : S # {} => \E i \in S : S \cap E[i] = {}
    PROVE  \E h \in [1 .. n -> 0 .. n] :
               \A i \in 1 .. n : \A c \in E[i] : c \in 1 .. n => h[c] < h[i]
<1> DEFINE N == 1 .. n
           Numbered(S, h, k) ==
               /\ Cardinality(S) = k
               /\ \A i \in S : h[i] < k
               /\ \A i \in S : \A c \in E[i] : c \in N => c \in S /\ h[c] < h[i]
           good == {k \in 0 .. n : \E S \in SUBSET N : \E h \in [N -> 0 .. n] : Numbered(S, h, k)}
<1>1. IsFiniteSet(N) /\ Cardinality(N) = n
  BY FS_Interval
<1>2. 0 \in good
  <2> DEFINE h == [i \in N |-> 0]
  <2>1. h \in [N -> 0 .. n]
    OBVIOUS
  <2>2. Numbered({}, h, 0)
    BY FS_EmptySet
  <2>3. {} \in SUBSET N
    OBVIOUS
  <2> HIDE DEF Numbered, N
  <2> QED
    BY <2>1, <2>2, <2>3
<1>3. ASSUME NEW k \in 1 .. n, k - 1 \in good PROVE k \in good
  <2>1. PICK S \in SUBSET N, h \in [N -> 0 .. n] : Numbered(S, h, k - 1)
    BY <1>3
  <2>2. S # N
    BY <1>1, <2>1
  <2>3. PICK i \in N \ S : (N \ S) \cap E[i] = {}
    BY <2>2
  <2> DEFINE T == S \cup {i}
             g == [h EXCEPT ![i] = k - 1]
  <2>4. IsFiniteSet(S) /\ Cardinality(T) = k
    <3>1. IsFiniteSet(S)
      BY <1>1, FS_Subset
    <3>2. Cardinality(S) = k - 1
      BY <2>1
    <3>3. Cardinality(S \cup {i}) = Cardinality(S) + 1
      BY <2>3, <3>1, FS_AddElement
    <3> QED
      BY <3>1, <3>2, <3>3
  <2>5. g \in [N -> 0 .. n] /\ g[i] = k - 1 /\ \A j \in S : g[j] = h[j]
    BY <2>3
  <2>6. \A j \in T : g[j] < k
    <3> SUFFICES ASSUME NEW j \in T PROVE g[j] < k
      OBVIOUS
    <3>1. CASE j = i
      BY <2>5, <3>1
    <3>2. CASE j \in S
      <4>1. g[j] = h[j] /\ h[j] < k - 1 /\ h[j] \in 0 .. n
        BY <2>1, <2>5, <3>2
      <4> QED
        BY <4>1
    <3> QED
      BY <3>1, <3>2
  <2>7. \A j \in T : \A c \in E[j] : c \in N => c \in T /\ g[c] < g[j]
    <3> SUFFICES ASSUME NEW j \in T, NEW c \in E[j], c \in N PROVE c \in T /\ g[c] < g[j]
      OBVIOUS
    <3>1. CASE j = i
      <4>1. c \in S
        BY <2>3, <3>1
      <4>2. h[c] < k - 1
        BY <2>1, <4>1
      <4> QED
        BY <2>5, <3>1, <4>1, <4>2
    <3>2. CASE j \in S
      <4>1. c \in S /\ h[c] < h[j]
        BY <2>1, <3>2
      <4> QED
        BY <2>5, <3>2, <4>1
    <3> QED
      BY <3>1, <3>2
  <2>8. T \in SUBSET N /\ k \in 0 .. n
    BY <2>3
  <2>9. Numbered(T, g, k)
    BY <2>4, <2>6, <2>7
  <2> HIDE DEF Numbered, T, g, N
  <2> QED
    BY <2>5, <2>8, <2>9
<1> HIDE DEF good
<1>4. good = 0 .. n
  <2>1. good \in SUBSET (0 .. n)
    BY DEF good
  <2> QED
    BY <1>2, <1>3, <2>1, LoopKeeps
<1>5. PICK S \in SUBSET N, h \in [N -> 0 .. n] : Numbered(S, h, n)
  <2>1. n \in good
    BY <1>4
  <2> HIDE DEF Numbered, N
  <2> QED
    BY <2>1 DEF good
<1>6. S = N
  BY <1>1, <1>5, FS_Subset
<1> QED
  BY <1>5, <1>6

\* Dependencies, direct ones or flattened, lead downwards.
LEMMA DependenciesLeadDown ==
    ASSUME NoCycles, CompiledInv, phase \in Compiled
    PROVE  \E h \in [Nodes -> 0 .. Len(json.Nodes)] :
               \A n \in Nodes : \A d \in ToSet(CombinedDependencies(dag, n)) :
                   d \in Nodes /\ h[d] < h[n]
<1> DEFINE N == Len(json.Nodes)
           E == [i \in Nodes |-> ToSet(ToBuildDependencies(json.Nodes[i]))
                                   \cup ToSet(FindArray(json.Nodes[i], "ToUseDependencies"))]
<1>1. json \in Graphs /\ Wired(dag)
  BY CompiledGraph
<1>2. /\ N \in Nat /\ Nodes = 1 .. N /\ DOMAIN json.Nodes = Nodes
      /\ \A i \in Nodes : RemapTable(order)[i] \in Nodes /\ order[RemapTable(order)[i]].node = i
      /\ \A k \in Nodes :
            /\ order[k].node \in Nodes /\ dag.nodes[k].originalIndex = order[k].node
            /\ dag.nodes[k].toBuild
                 = WriteIndices(ToBuildDependencies(json.Nodes[order[k].node]), RemapTable(order))
            /\ dag.nodes[k].toUse
                 = WriteIndices(FindArray(json.Nodes[order[k].node], "ToUseDependencies"),
                                RemapTable(order))
  BY CompiledNodes
<1> HIDE DEF N
<1>3. ASSUME NEW S \in SUBSET (1 .. N), S # {} PROVE \E i \in S : S \cap E[i] = {}
  <2>1. PICK i \in S : S \cap (ToSet(ToBuildDependencies(json.Nodes[i]))
                                 \cup ToSet(FindArray(json.Nodes[i], "ToUseDependencies"))) = {}
    <3>1. S \in SUBSET DOMAIN json.Nodes
      BY <1>2, <1>3
    <3> QED
      BY <1>1, <1>3, <3>1 DEF NoCycles
  <2>2. i \in Nodes
    BY <1>2
  <2> QED
    BY <2>1, <2>2
<1> HIDE DEF E
<1>4. PICK g \in [1 .. N -> 0 .. N] :
          \A i \in 1 .. N : \A c \in E[i] : c \in 1 .. N => g[c] < g[i]
  BY <1>2, <1>3, NodesHaveHeights
<1> DEFINE h == [k \in Nodes |-> g[order[k].node]]
<1>5. h \in [Nodes -> 0 .. N]
  BY <1>2, <1>4
<1>6. ASSUME NEW indices \in Seq(Nodes), NEW k \in Nodes,
             ToSet(indices) \subseteq E[order[k].node],
             NEW c \in ToSet(WriteIndices(indices, RemapTable(order)))
      PROVE  c \in Nodes /\ h[c] < h[k]
  <2> DEFINE w == WriteIndices(indices, RemapTable(order))
  <2>1. /\ [p \in DOMAIN w |-> dag.nodes[w[p]].originalIndex] = indices
        /\ \A p \in DOMAIN w : w[p] \in Nodes
    BY OriginalOutcome
  <2>2. PICK p \in DOMAIN w : c = w[p]
    BY <1>6 DEF ToSet
  <2> HIDE DEF w
  <2>3. c \in Nodes /\ order[c].node = indices[p] /\ indices[p] \in ToSet(indices)
    <3>1. c \in Nodes
      BY <2>1, <2>2
    <3>2. p \in DOMAIN indices /\ indices[p] = dag.nodes[c].originalIndex
      BY <2>1, <2>2
    <3>3. dag.nodes[c].originalIndex = order[c].node
      BY <1>2, <3>1
    <3> QED
      BY <3>1, <3>2, <3>3 DEF ToSet
  <2>4. order[c].node \in E[order[k].node] /\ order[c].node \in 1 .. N /\ order[k].node \in 1 .. N
    BY <1>2, <1>6, <2>3
  <2>5. g[order[c].node] < g[order[k].node]
    BY <1>4, <2>4
  <2> QED
    BY <2>3, <2>5
<1>7. ASSUME NEW k \in Nodes
      PROVE  /\ \A c \in ToSet(dag.nodes[k].toBuild) : c \in Nodes /\ h[c] < h[k]
             /\ \A c \in ToSet(dag.nodes[k].toUse) : c \in Nodes /\ h[c] < h[k]
  <2> DEFINE node == json.Nodes[order[k].node]
  <2>1. ToBuildDependencies(node) \in Seq(Nodes) /\ FindArray(node, "ToUseDependencies") \in Seq(Nodes)
    BY <1>1, <1>2, GraphAssumption
  <2>2. ToSet(ToBuildDependencies(node)) \subseteq E[order[k].node]
        /\ ToSet(FindArray(node, "ToUseDependencies")) \subseteq E[order[k].node]
    BY <1>2 DEF E
  <2>3. dag.nodes[k].toBuild = WriteIndices(ToBuildDependencies(node), RemapTable(order))
        /\ dag.nodes[k].toUse = WriteIndices(FindArray(node, "ToUseDependencies"), RemapTable(order))
    BY <1>2
  <2> HIDE DEF node, h
  <2> QED
    BY <1>6, <2>1, <2>2, <2>3
<1>8. ASSUME NEW n \in Nodes, NEW d \in ToSet(CombinedDependencies(dag, n))
      PROVE  d \in Nodes /\ h[d] < h[n]
  <2> DEFINE S == {k \in Nodes : h[k] < h[n]}
  <2>1. ToSet(dag.nodes[n].toBuild) \subseteq S
    BY <1>7
  <2>2. UseClosed(dag, S)
    <3> SUFFICES ASSUME NEW k \in S, NEW c \in ToSet(dag.nodes[k].toUse) PROVE c \in S
      BY DEF UseClosed
    <3>1. c \in Nodes /\ h[c] < h[k] /\ h[k] < h[n]
      BY <1>7
    <3>2. h[c] \in Int /\ h[k] \in Int /\ h[n] \in Int
      <4>1. \A m \in Nodes : h[m] \in 0 .. N
        BY <1>5
      <4>2. c \in Nodes /\ k \in Nodes /\ n \in Nodes
        BY <3>1
      <4> HIDE DEF h, S
      <4>3. h[c] \in 0 .. N /\ h[k] \in 0 .. N /\ h[n] \in 0 .. N
        BY <4>1, <4>2
      <4> QED
        BY <1>2, <4>3
    <3> QED
      BY <3>1, <3>2
  <2>3. S \in SUBSET NodesOf(dag) /\ n \in NodesOf(dag)
    BY DEF Nodes
  <2> HIDE DEF S
  <2>4. d \in S
    BY <1>1, <1>8, <2>1, <2>2, <2>3, FlattenOutcome
  <2> QED
    BY <2>4 DEF S
<1> HIDE DEF h
<1> QED
  BY <1>5, <1>8 DEF N

\* The points of a node when those of the nodes waiting for it are f.
PointsAs(b, f, d) == Cardinality(b[d]) + Max({0} \cup {f[m] : m \in b[d]})

\* They are a natural number, greater than those of any node waiting for it, and
\* depend on those alone.
LEMMA PointsAreGreater ==
    ASSUME NEW N, IsFiniteSet(N), NEW b \in [N -> SUBSET N], NEW d \in N, NEW f,
           \A m \in b[d] : f[m] \in Nat
    PROVE  /\ PointsAs(b, f, d) \in Nat
           /\ \A m \in b[d] : PointsAs(b, f, d) > f[m]
           /\ \A g : (\A m \in b[d] : g[m] = f[m]) => PointsAs(b, g, d) = PointsAs(b, f, d)
<1> DEFINE B == b[d]
           image == {f[m] : m \in B}
           T == {0} \cup image
<1>1. B \in SUBSET N /\ IsFiniteSet(B) /\ Cardinality(B) \in Nat /\ (Cardinality(B) = 0 => B = {})
  <2>1. B \in SUBSET N
    OBVIOUS
  <2>2. IsFiniteSet(B)
    BY <2>1, FS_Subset
  <2> QED
    BY <2>1, <2>2, FS_CardinalityType, FS_EmptySet
<1> HIDE DEF B
<1>2. IsFiniteSet(image)
  <2> DEFINE h == [m \in B |-> f[m]]
  <2>1. h \in Surjection(B, image)
    BY DEF Surjection
  <2> HIDE DEF h
  <2> QED
    BY <1>1, <2>1, FS_Surjection
<1>3. image \in SUBSET Nat
  BY DEF B
<1> HIDE DEF image
<1>4. T \in SUBSET Nat /\ IsFiniteSet(T) /\ T # {}
  <2>1. IsFiniteSet(image \cup {0})
    BY <1>2, FS_AddElement
  <2>2. T = image \cup {0} /\ T # {} /\ T \in SUBSET Nat
    BY <1>3
  <2> HIDE DEF T
  <2> QED
    BY <2>1, <2>2
<1>5. Max(T) \in Nat /\ \A y \in T : y <= Max(T)
  BY <1>4, GreatestNumber
<1>6. PointsAs(b, f, d) = Cardinality(B) + Max(T)
  BY DEF PointsAs, B, image
<1>7. ASSUME NEW m \in B PROVE PointsAs(b, f, d) > f[m]
  <2>1. f[m] \in T /\ f[m] \in Nat
    BY <1>3 DEF image
  <2>2. Cardinality(B) > 0
    BY <1>1
  <2>3. f[m] <= Max(T)
    BY <1>5, <2>1
  <2> HIDE DEF T
  <2> QED
    BY <1>1, <1>5, <1>6, <2>1, <2>2, <2>3
<1>8. ASSUME NEW g, \A m \in B : g[m] = f[m] PROVE PointsAs(b, g, d) = PointsAs(b, f, d)
  <2>1. {g[m] : m \in B} = {f[m] : m \in B}
    BY <1>8
  <2> QED
    BY <2>1 DEF PointsAs, B
<1> HIDE DEF T
<1>9. PointsAs(b, f, d) \in Nat
  BY <1>1, <1>5, <1>6
<1> QED
  BY <1>7, <1>8, <1>9 DEF B

\* Where what waits is always higher, every node has points, more than any node
\* waiting for it.
LEMMA PointsOutcome ==
    ASSUME NEW n \in Nat, NEW N, IsFiniteSet(N), NEW b \in [N -> SUBSET N],
           NEW h \in [N -> 0 .. n], \A d \in N : \A m \in b[d] : h[d] < h[m]
    PROVE  \A d \in N : \A m \in b[d] : Points(b)[d] > Points(b)[m]
<1> DEFINE P(f) == f = [d \in N |-> PointsAs(b, f, d)]
           Solved(f, k) == \A d \in N : n - h[d] < k => f[d] = PointsAs(b, f, d)
           good == {k \in 0 .. n + 1 : \E f \in [N -> Nat] : Solved(f, k)}
<1>1. 0 \in good
  <2> DEFINE f == [d \in N |-> 0]
  <2>1. f \in [N -> Nat]
    OBVIOUS
  <2>2. \A d \in N : ~(n - h[d] < 0)
    OBVIOUS
  <2>3. Solved(f, 0) /\ 0 \in 0 .. n + 1
    BY <2>2
  <2> HIDE DEF Solved, f
  <2> QED
    BY <2>1, <2>3
<1>2. ASSUME NEW k \in 1 .. n + 1, k - 1 \in good PROVE k \in good
  <2>1. PICK f \in [N -> Nat] : Solved(f, k - 1)
    BY <1>2
  <2> DEFINE g == [d \in N |-> IF n - h[d] < k - 1 THEN f[d] ELSE PointsAs(b, f, d)]
  <2>2. \A d \in N : PointsAs(b, f, d) \in Nat
    BY PointsAreGreater
  <2>3. g \in [N -> Nat]
    BY <2>2
  <2>4. ASSUME NEW d \in N, n - h[d] < k PROVE g[d] = PointsAs(b, g, d)
    <3>1. \A m \in b[d] : g[m] = f[m]
      <4> SUFFICES ASSUME NEW m \in b[d] PROVE g[m] = f[m]
        OBVIOUS
      <4>1. m \in N /\ h[d] < h[m] /\ h[d] \in 0 .. n /\ h[m] \in 0 .. n
        OBVIOUS
      <4>2. n - h[m] < k - 1
        BY <2>4, <4>1
      <4> QED
        BY <4>1, <4>2
    <3>2. PointsAs(b, g, d) = PointsAs(b, f, d)
      <4> HIDE DEF g
      <4>1. \A m \in b[d] : f[m] \in Nat
        OBVIOUS
      <4> QED
        BY <3>1, <4>1, PointsAreGreater
    <3>3. g[d] = PointsAs(b, f, d)
      BY <2>1
    <3> QED
      BY <3>2, <3>3
  <2>5. Solved(g, k) /\ k \in 0 .. n + 1
    BY <2>4
  <2> HIDE DEF Solved, g
  <2> QED
    BY <2>3, <2>5
<1> HIDE DEF Solved
<1>3. PICK f \in [N -> Nat] : Solved(f, n + 1)
  <2>1. good \in SUBSET (0 .. n + 1) /\ n + 1 \in Nat
    OBVIOUS
  <2> HIDE DEF good
  <2>2. good = 0 .. n + 1
    BY <1>1, <1>2, <2>1, LoopKeeps
  <2>3. n + 1 \in good
    BY <2>2
  <2> QED
    BY <2>3 DEF good
<1>4. P(f)
  <2>1. \A d \in N : n - h[d] < n + 1
    OBVIOUS
  <2>2. \A d \in N : f[d] = PointsAs(b, f, d)
    BY <1>3, <2>1 DEF Solved
  <2> QED
    BY <2>2
<1> DEFINE p == CHOOSE g : P(g)
<1>5. P(p)
  <2> HIDE DEF P
  <2> QED
    BY <1>4
<1>6. Points(b) = p
  BY DEF Points, PointsAs
<1> HIDE DEF p
<1>7. \A d \in N : p[d] = PointsAs(b, p, d)
  BY <1>5
<1> DEFINE numbers == {k \in 0 .. n + 1 : \A d \in N : n - h[d] < k => p[d] \in Nat}
<1>8. 0 \in numbers
  <2>1. \A d \in N : ~(n - h[d] < 0)
    OBVIOUS
  <2> QED
    BY <2>1
<1>9. ASSUME NEW k \in 1 .. n + 1, k - 1 \in numbers PROVE k \in numbers
  <2> SUFFICES ASSUME NEW d \in N, n - h[d] < k PROVE p[d] \in Nat
    OBVIOUS
  <2>1. \A m \in b[d] : p[m] \in Nat
    <3> SUFFICES ASSUME NEW m \in b[d] PROVE p[m] \in Nat
      OBVIOUS
    <3>1. m \in N /\ h[d] < h[m] /\ h[d] \in 0 .. n /\ h[m] \in 0 .. n
      OBVIOUS
    <3>2. n - h[m] < k - 1
      BY <3>1
    <3> QED
      BY <1>9, <3>1, <3>2
  <2>2. PointsAs(b, p, d) \in Nat
    BY <2>1, PointsAreGreater
  <2> QED
    BY <1>7, <2>2
<1>10. \A d \in N : p[d] \in Nat
  <2>1. numbers \in SUBSET (0 .. n + 1) /\ n + 1 \in Nat
    OBVIOUS
  <2>2. \A d \in N : n - h[d] < n + 1
    OBVIOUS
  <2> HIDE DEF numbers
  <2>3. numbers = 0 .. n + 1
    BY <1>8, <1>9, <2>1, LoopKeeps
  <2>4. n + 1 \in numbers
    BY <2>3
  <2> QED
    BY <2>2, <2>4 DEF numbers
<1>11. ASSUME NEW d \in N, NEW m \in b[d] PROVE p[d] > p[m]
  <2>1. \A x \in b[d] : p[x] \in Nat
    BY <1>10
  <2>2. PointsAs(b, p, d) > p[m]
    BY <2>1, PointsAreGreater
  <2> QED
    BY <1>7, <2>2
<1> QED
  BY <1>6, <1>11

\* A node others wait for has more points than they have (CompileDagDerived,
\* calculateCumulativePoints), if the graph has no cycles.
THEOREM PointsLeadUpwards ==
    ASSUME NoCycles
    PROVE  Spec => []PointsFallTowardsRoots
<1>1. CompiledInv => PointsFallTowardsRoots
  <2> SUFFICES ASSUME CompiledInv, phase = "leaf", NEW n \in Nodes, NEW d \in ToSet(deps[n])
               PROVE  points[d] > points[n]
    BY DEF PointsFallTowardsRoots
  <2>1. phase \in Compiled
    BY DEF Compiled
  <2>2. /\ deps = [k \in Nodes |-> CombinedDependencies(dag, k)]
        /\ points = Points(backlinks) /\ backlinks = Backlinks(deps)
    BY DEF CompiledInv, Compiled, Pointed, Nodes
  <2>3. Len(json.Nodes) \in Nat /\ IsFiniteSet(Nodes)
    <3>1. Len(json.Nodes) \in Nat /\ Nodes = 1 .. Len(json.Nodes)
      BY <2>1, CompiledNodes
    <3> QED
      BY <3>1, FS_Interval
  <2>4. PICK h \in [Nodes -> 0 .. Len(json.Nodes)] :
            \A k \in Nodes : \A c \in ToSet(CombinedDependencies(dag, k)) : c \in Nodes /\ h[c] < h[k]
    BY <2>1, DependenciesLeadDown
  <2>5. backlinks = [c \in Nodes |-> {m \in Nodes : c \in ToSet(deps[m])}]
    BY <2>2 DEF Backlinks
  <2>6. backlinks \in [Nodes -> SUBSET Nodes]
        /\ \A c \in Nodes : \A m \in backlinks[c] : h[c] < h[m]
    BY <2>2, <2>4, <2>5
  <2>7. \A c \in Nodes : \A m \in backlinks[c] : points[c] > points[m]
    BY <2>2, <2>3, <2>6, PointsOutcome
  <2>8. d \in Nodes /\ n \in backlinks[d]
    BY <2>2, <2>4, <2>5
  <2> QED
    BY <2>7, <2>8
<1> QED
  BY <1>1, PhasesComputeOnce, PTL
---------------------------------------------------------------------------
(* Names *)

\* One entry of the table of distances, by those before it.
EntryAs(f, s, t, x, y) ==
    IF x = 0 THEN y
    ELSE IF y = 0 THEN x
    ELSE IF Lower[s[x]] = Lower[t[y]] THEN f[<<x - 1, y - 1>>]
    ELSE 1 + Min({f[<<x - 1, y>>], f[<<x, y - 1>>], f[<<x - 1, y - 1>>]})

LEMMA Smallest ==
    ASSUME NEW a \in Nat, NEW b \in Nat, NEW c \in Nat
    PROVE  Min({a, b, c}) \in Nat /\ Min({a, b, c}) \in {a, b, c}
<1> DEFINE S == {a, b, c}
<1>1. \E m \in S : \A k \in S : m <= k
  <2>1. S \in SUBSET Nat /\ S # {}
    OBVIOUS
  <2> HIDE DEF S
  <2> QED
    BY <2>1, LeastNumber
<1>2. Min(S) \in S
  <2> HIDE DEF S
  <2> QED
    BY <1>1 DEF Min
<1> QED
  BY <1>2

\* Where an entry may be zero.
NoDistanceAt(f, s, t, x, y) ==
    \/ x = 0 /\ y = 0
    \/ x # 0 /\ y # 0 /\ Lower[s[x]] = Lower[t[y]] /\ f[<<x - 1, y - 1>>] = 0

\* The entries before one are numbers.
NumbersBefore(f, m, n, x, y) ==
    /\ m \in Nat /\ n \in Nat /\ x \in 0 .. m /\ y \in 0 .. n
    /\ \A i \in 0 .. m, j \in 0 .. n : i + j < x + y => f[<<i, j>>] \in Nat

\* Two tables with the same entries before one.
SameBefore(f, g, m, n, x, y) ==
    /\ m \in Nat /\ n \in Nat /\ x \in 0 .. m /\ y \in 0 .. n
    /\ \A i \in 0 .. m, j \in 0 .. n : i + j < x + y => g[<<i, j>>] = f[<<i, j>>]

\* An entry is a number; it is zero at the corner, and where the letters are the
\* same and the entry before both is zero.
LEMMA EntryOutcome ==
    ASSUME NEW m, NEW n, NEW s, NEW t, NEW f, NEW x, NEW y, NumbersBefore(f, m, n, x, y)
    PROVE  /\ EntryAs(f, s, t, x, y) \in Nat
           /\ EntryAs(f, s, t, x, y) = 0 => NoDistanceAt(f, s, t, x, y)
<1>1. CASE x = 0 \/ y = 0
  BY <1>1 DEF EntryAs, NumbersBefore, NoDistanceAt
<1>2. CASE x # 0 /\ y # 0
  <2>1. /\ x \in 0 .. m /\ y \in 0 .. n /\ x - 1 \in 0 .. m /\ y - 1 \in 0 .. n
        /\ (x - 1) + y < x + y /\ x + (y - 1) < x + y /\ (x - 1) + (y - 1) < x + y
    BY <1>2 DEF NumbersBefore
  <2>2. f[<<x - 1, y>>] \in Nat /\ f[<<x, y - 1>>] \in Nat /\ f[<<x - 1, y - 1>>] \in Nat
    BY <2>1 DEF NumbersBefore
  <2> DEFINE least == Min({f[<<x - 1, y>>], f[<<x, y - 1>>], f[<<x - 1, y - 1>>]})
  <2>3. least \in Nat /\ 1 + least # 0
    <3>1. least \in Nat
      BY <2>2, Smallest
    <3> HIDE DEF least
    <3> QED
      BY <3>1
  <2>4. EntryAs(f, s, t, x, y)
          = IF Lower[s[x]] = Lower[t[y]] THEN f[<<x - 1, y - 1>>] ELSE 1 + least
    BY <1>2 DEF EntryAs
  <2> HIDE DEF least
  <2> QED
    BY <1>2, <2>2, <2>3, <2>4 DEF NoDistanceAt
<1> QED
  BY <1>1, <1>2

\* No more is read than the entries before.
LEMMA EntryReads ==
    ASSUME NEW m, NEW n, NEW s, NEW t, NEW f, NEW g, NEW x, NEW y, SameBefore(f, g, m, n, x, y)
    PROVE  EntryAs(g, s, t, x, y) = EntryAs(f, s, t, x, y)
<1>1. CASE x = 0 \/ y = 0
  BY <1>1 DEF EntryAs, SameBefore
<1>2. CASE x # 0 /\ y # 0
  <2>1. x \in 0 .. m /\ y \in 0 .. n /\ x - 1 \in 0 .. m /\ y - 1 \in 0 .. n
        /\ (x - 1) + y < x + y /\ x + (y - 1) < x + y /\ (x - 1) + (y - 1) < x + y
    BY <1>2 DEF SameBefore
  <2>2. /\ g[<<x - 1, y>>] = f[<<x - 1, y>>] /\ g[<<x, y - 1>>] = f[<<x, y - 1>>]
        /\ g[<<x - 1, y - 1>>] = f[<<x - 1, y - 1>>]
    BY <2>1 DEF SameBefore
  <2> QED
    BY <1>2, <2>2 DEF EntryAs
<1> QED
  BY <1>1, <1>2

\* Names at distance zero are the same letters, in any case.
LEMMA NoDistance ==
    ASSUME NEW s, NEW t, Len(s) \in Nat, Len(t) \in Nat,
           DOMAIN s = 1 .. Len(s), DOMAIN t = 1 .. Len(t),
           LevenshteinDistanceNoCase(s, t) = 0
    PROVE  Lowered(s) = Lowered(t)
<1> DEFINE m == Len(s)
           n == Len(t)
           X == 0 .. m
           Y == 0 .. n
           P(f) == f = [q \in X \X Y |-> EntryAs(f, s, t, q[1], q[2])]
           Solved(f, k) == \A x \in X, y \in Y : x + y < k => f[<<x, y>>] = EntryAs(f, s, t, x, y)
           good == {k \in 0 .. m + n + 1 : \E f \in [X \X Y -> Nat] : Solved(f, k)}
<1> HIDE DEF m, n
<1>0. m \in Nat /\ n \in Nat /\ DOMAIN s = 1 .. m /\ DOMAIN t = 1 .. n
  BY DEF m, n
<1>1. 0 \in good
  <2> DEFINE f == [p \in X \X Y |-> 0]
  <2>1. f \in [X \X Y -> Nat]
    OBVIOUS
  <2>2. \A x \in X, y \in Y : ~(x + y < 0)
    BY <1>0
  <2>3. Solved(f, 0) /\ 0 \in 0 .. m + n + 1
    BY <1>0, <2>2
  <2> HIDE DEF Solved, f
  <2> QED
    BY <2>1, <2>3
<1>2. ASSUME NEW k \in 1 .. m + n + 1, k - 1 \in good PROVE k \in good
  <2>1. PICK f \in [X \X Y -> Nat] : Solved(f, k - 1)
    BY <1>2
  <2>2. \A x \in X, y \in Y : f[<<x, y>>] \in Nat
    OBVIOUS
  <2>3. ASSUME NEW x \in X, NEW y \in Y PROVE EntryAs(f, s, t, x, y) \in Nat
    <3>1. NumbersBefore(f, m, n, x, y)
      BY <1>0, <2>2 DEF NumbersBefore
    <3> QED
      BY <3>1, EntryOutcome
  <2> DEFINE g == [p \in X \X Y |-> IF p[1] + p[2] < k - 1 THEN f[p] ELSE EntryAs(f, s, t, p[1], p[2])]
  <2>4. g \in [X \X Y -> Nat]
        /\ \A x \in X, y \in Y :
              g[<<x, y>>] = IF x + y < k - 1 THEN f[<<x, y>>] ELSE EntryAs(f, s, t, x, y)
    <3> HIDE DEF X, Y
    <3> QED
      BY <2>2, <2>3
  <2> HIDE DEF g
  <2>5. ASSUME NEW x \in X, NEW y \in Y, x + y < k PROVE g[<<x, y>>] = EntryAs(g, s, t, x, y)
    <3>1. \A i \in X, j \in Y : i + j < x + y => g[<<i, j>>] = f[<<i, j>>]
      <4> SUFFICES ASSUME NEW i \in X, NEW j \in Y, i + j < x + y PROVE g[<<i, j>>] = f[<<i, j>>]
        OBVIOUS
      <4>1. i + j < k - 1
        BY <1>0, <2>5
      <4> QED
        BY <2>4, <4>1
    <3>2. EntryAs(g, s, t, x, y) = EntryAs(f, s, t, x, y)
      <4>1. SameBefore(f, g, m, n, x, y)
        BY <1>0, <3>1 DEF SameBefore
      <4> QED
        BY <4>1, EntryReads
    <3>3. g[<<x, y>>] = EntryAs(f, s, t, x, y)
      <4> HIDE DEF X, Y
      <4> QED
        BY <2>1, <2>4 DEF Solved
    <3> QED
      BY <3>2, <3>3
  <2>6. Solved(g, k) /\ k \in 0 .. m + n + 1
    BY <1>0, <2>5
  <2> HIDE DEF Solved
  <2> QED
    BY <2>4, <2>6
<1> HIDE DEF Solved
<1>3. PICK f \in [X \X Y -> Nat] : Solved(f, m + n + 1)
  <2>1. good \in SUBSET (0 .. m + n + 1) /\ m + n + 1 \in Nat
    BY <1>0
  <2> HIDE DEF good
  <2>2. good = 0 .. m + n + 1
    BY <1>1, <1>2, <2>1, LoopKeeps
  <2>3. m + n + 1 \in good
    BY <1>0, <2>2
  <2> QED
    BY <2>3 DEF good
<1>4. P(f)
  <2>1. \A x \in X, y \in Y : x + y < m + n + 1
    BY <1>0
  <2>2. \A x \in X, y \in Y : f[<<x, y>>] = EntryAs(f, s, t, x, y)
    BY <1>3, <2>1 DEF Solved
  <2> HIDE DEF X, Y
  <2> QED
    BY <2>2
<1> DEFINE p == CHOOSE g : P(g)
<1>5. P(p)
  <2> HIDE DEF P
  <2> QED
    BY <1>4
<1>6. LevenshteinDistanceNoCase(s, t) = p[<<m, n>>]
  BY DEF LevenshteinDistanceNoCase, EntryAs, m, n
<1> HIDE DEF p
<1>7. \A x \in X, y \in Y : p[<<x, y>>] = EntryAs(p, s, t, x, y)
  <2> HIDE DEF X, Y
  <2> QED
    BY <1>5
<1> DEFINE numbers == {k \in 0 .. m + n + 1 : \A x \in X, y \in Y : x + y < k => p[<<x, y>>] \in Nat}
<1>8. 0 \in numbers
  <2>1. \A x \in X, y \in Y : ~(x + y < 0)
    BY <1>0
  <2> QED
    BY <1>0, <2>1
<1>9. ASSUME NEW k \in 1 .. m + n + 1, k - 1 \in numbers PROVE k \in numbers
  <2>1. ASSUME NEW x \in X, NEW y \in Y, x + y < k PROVE p[<<x, y>>] \in Nat
    <3>1. \A i \in X, j \in Y : i + j < x + y => p[<<i, j>>] \in Nat
      <4> SUFFICES ASSUME NEW i \in X, NEW j \in Y, i + j < x + y PROVE p[<<i, j>>] \in Nat
        OBVIOUS
      <4>1. i + j < k - 1
        BY <1>0, <2>1
      <4> QED
        BY <1>9, <4>1
    <3>2. EntryAs(p, s, t, x, y) \in Nat
      <4>1. NumbersBefore(p, m, n, x, y)
        BY <1>0, <3>1 DEF NumbersBefore
      <4> QED
        BY <4>1, EntryOutcome
    <3> QED
      BY <1>7, <3>2
  <2> QED
    BY <1>0, <2>1
<1>10. \A x \in X, y \in Y : p[<<x, y>>] \in Nat
  <2>1. numbers \in SUBSET (0 .. m + n + 1) /\ m + n + 1 \in Nat
    BY <1>0
  <2>2. \A x \in X, y \in Y : x + y < m + n + 1
    BY <1>0
  <2> HIDE DEF numbers
  <2>3. numbers = 0 .. m + n + 1
    BY <1>8, <1>9, <2>1, LoopKeeps
  <2>4. m + n + 1 \in numbers
    BY <1>0, <2>3
  <2> QED
    BY <2>2, <2>4 DEF numbers
<1> DEFINE Same(x, y) == x = y /\ \A i \in 1 .. x : Lower[s[i]] = Lower[t[i]]
           same == {x \in X : \A y \in Y : p[<<x, y>>] = 0 => Same(x, y)}
<1>11. ASSUME NEW x \in X, NEW y \in Y, p[<<x, y>>] = 0
       PROVE  NoDistanceAt(p, s, t, x, y)
  <2>1. NumbersBefore(p, m, n, x, y)
    BY <1>0, <1>10 DEF NumbersBefore
  <2>2. EntryAs(p, s, t, x, y) = 0
    BY <1>7, <1>11
  <2> QED
    BY <2>1, <2>2, EntryOutcome
<1>12. 0 \in same
  <2>1. ASSUME NEW y \in Y, p[<<0, y>>] = 0 PROVE y = 0
    <3>1. 0 \in X
      BY <1>0
    <3>2. NoDistanceAt(p, s, t, 0, y)
      BY <1>11, <2>1, <3>1
    <3> QED
      BY <3>2 DEF NoDistanceAt
  <2>2. 0 \in X /\ \A i : i \notin 1 .. 0
    BY <1>0
  <2> QED
    BY <2>1, <2>2
<1>13. ASSUME NEW x \in 1 .. m, x - 1 \in same PROVE x \in same
  <2> SUFFICES ASSUME NEW y \in Y, p[<<x, y>>] = 0 PROVE Same(x, y)
    BY <1>0
  <2>1. x \in X /\ y # 0 /\ Lower[s[x]] = Lower[t[y]] /\ p[<<x - 1, y - 1>>] = 0
    <3>1. x \in X /\ x # 0
      BY <1>0
    <3>2. NoDistanceAt(p, s, t, x, y)
      BY <1>11, <3>1
    <3> QED
      BY <3>1, <3>2 DEF NoDistanceAt
  <2>2. y - 1 \in Y
    BY <1>0, <2>1
  <2>3. Same(x - 1, y - 1)
    BY <1>13, <2>1, <2>2
  <2>4. x = y
    BY <1>0, <2>1, <2>3
  <2>5. ASSUME NEW i \in 1 .. x PROVE Lower[s[i]] = Lower[t[i]]
    <3>1. i = x \/ i \in 1 .. x - 1
      BY <1>0
    <3> QED
      BY <2>1, <2>3, <2>4, <3>1
  <2> QED
    BY <2>4, <2>5
<1>14. Same(m, n)
  <2>1. same \in SUBSET (0 .. m)
    OBVIOUS
  <2> HIDE DEF same
  <2>2. same = 0 .. m
    BY <1>0, <1>12, <1>13, <2>1, LoopKeeps
  <2>3. m \in same /\ n \in Y
    BY <1>0, <2>2
  <2> QED
    BY <1>6, <2>3 DEF same
<1> QED
  BY <1>0, <1>14 DEF Lowered
\* Named nodes keep their names and their nodes.
LEMMA NamesAreKept ==
    ASSUME CompiledInv, phase \in Compiled
    PROVE  /\ IsFiniteSet(DOMAIN dag.named) /\ DOMAIN dag.named \in SUBSET Nat
           /\ \A k \in DOMAIN dag.named :
                 /\ DOMAIN json.NamedNodes = DOMAIN dag.named
                 /\ dag.named[k].name = json.NamedNodes[k].name
                 /\ dag.named[k].name \in Seq(ToSet(dag.named[k].name))
                 /\ dag.named[k].node \in Nodes
                 /\ dag.nodes[dag.named[k].node].originalIndex = json.NamedNodes[k].node
<1> DEFINE Named == FindArray(json, "NamedNodes")
<1>1. /\ DOMAIN json.Nodes = Nodes /\ json \in Graphs
      /\ dag.named = WriteNamedNodes(json, RemapTable(order))
      /\ \A i \in Nodes : RemapTable(order)[i] \in Nodes /\ order[RemapTable(order)[i]].node = i
      /\ \A k \in Nodes : dag.nodes[k].originalIndex = order[k].node
  BY CompiledNodes, CompiledGraph
<1>2. dag.named = [i \in DOMAIN Named |->
                      [json.NamedNodes[i] EXCEPT !.node = RemapTable(order)[@]]]
  BY <1>1 DEF WriteNamedNodes
<1>3. /\ Named \in Seq(ToSet(Named))
      /\ \A k \in DOMAIN Named : /\ Named[k].node \in Nodes /\ DOMAIN Named[k] = {"name", "node"}
                                /\ Named[k].name \in Seq(ToSet(Named[k].name))
  BY <1>1, GraphAssumption
<1>4. IsFiniteSet(DOMAIN dag.named) /\ DOMAIN dag.named \in SUBSET Nat
  <2>1. DOMAIN dag.named = 1 .. Len(Named) /\ Len(Named) \in Nat
    BY <1>2, <1>3
  <2> QED
    BY <2>1, FS_Interval
<1>5. ASSUME NEW k \in DOMAIN dag.named
      PROVE  /\ DOMAIN json.NamedNodes = DOMAIN dag.named
             /\ dag.named[k].name = json.NamedNodes[k].name
             /\ dag.named[k].name \in Seq(ToSet(dag.named[k].name))
             /\ dag.named[k].node \in Nodes
             /\ dag.nodes[dag.named[k].node].originalIndex = json.NamedNodes[k].node
  <2>1. k \in DOMAIN Named /\ DOMAIN Named = DOMAIN dag.named
        /\ dag.named[k] = [json.NamedNodes[k] EXCEPT !.node = RemapTable(order)[@]]
    BY <1>2, <1>5
  <2>2. Named = json.NamedNodes
    <3>1. Named # <<>>
      BY <2>1
    <3> QED
      BY <3>1 DEF FindArray, Find, Has
  <2>3. Named[k].node \in Nodes /\ DOMAIN Named[k] = {"name", "node"}
        /\ Named[k].name \in Seq(ToSet(Named[k].name))
    BY <1>3, <2>1
  <2> HIDE DEF Named
  <2>4. dag.named[k].node = RemapTable(order)[json.NamedNodes[k].node]
        /\ dag.named[k].name = json.NamedNodes[k].name
    BY <2>1, <2>2, <2>3
  <2> QED
    BY <1>1, <2>1, <2>2, <2>3, <2>4
<1> QED
  BY <1>4, <1>5

\* Why the nodes of a name are its nodes.
Meant(n, r) ==
    \/ CleanedPath[r] \in ToSet(dag.nodes[n].outputs)
    \/ \E k \in DOMAIN json.NamedNodes :
         /\ json.NamedNodes[k].node = dag.nodes[n].originalIndex
         /\ \/ Lowered(json.NamedNodes[k].name) = Lowered(r)
            \/ \A l \in DOMAIN json.NamedNodes : HasPrefix(json.NamedNodes[l].name, r) <=> l = k

LEMMA NamedAreMeant ==
    ASSUME CompiledInv, phase \in Compiled, NEW r, r \in Seq(ToSet(r)),
           NEW n \in NodesByName(dag, r)
    PROVE  n \in Nodes /\ Meant(n, r)
<1>1. /\ IsFiniteSet(DOMAIN dag.named) /\ DOMAIN dag.named \in SUBSET Nat
      /\ \A k \in DOMAIN dag.named :
            /\ DOMAIN json.NamedNodes = DOMAIN dag.named
            /\ dag.named[k].name = json.NamedNodes[k].name
            /\ dag.named[k].name \in Seq(ToSet(dag.named[k].name))
            /\ dag.named[k].node \in Nodes
            /\ dag.nodes[dag.named[k].node].originalIndex = json.NamedNodes[k].node
  BY NamesAreKept
<1>2. CASE Exact(dag, r) # {}
  <2> DEFINE k == Min(Exact(dag, r))
  <2>1. n = dag.named[k].node
    BY <1>2 DEF NodesByName
  <2>2. k \in Exact(dag, r)
    <3>1. Exact(dag, r) \in SUBSET Nat
      BY <1>1 DEF Exact
    <3>2. \E m \in Exact(dag, r) : \A x \in Exact(dag, r) : m <= x
      BY <1>2, <3>1, LeastNumber
    <3> QED
      BY <3>2 DEF Min
  <2> HIDE DEF k
  <2>3. k \in DOMAIN dag.named /\ LevenshteinDistanceNoCase(dag.named[k].name, r) = 0
    BY <2>2 DEF Exact
  <2> DEFINE s == dag.named[k].name
  <2>4. s \in Seq(ToSet(s)) /\ LevenshteinDistanceNoCase(s, r) = 0
    BY <1>1, <2>3
  <2> HIDE DEF s
  <2>5. Lowered(s) = Lowered(r)
    <3>1. Len(s) \in Nat /\ DOMAIN s = 1 .. Len(s) /\ Len(r) \in Nat /\ DOMAIN r = 1 .. Len(r)
      BY <2>4
    <3> QED
      BY <2>4, <3>1, NoDistance
  <2>6. k \in DOMAIN json.NamedNodes /\ s = json.NamedNodes[k].name /\ n \in Nodes
        /\ dag.nodes[n].originalIndex = json.NamedNodes[k].node
    BY <1>1, <2>1, <2>3 DEF s
  <2> QED
    BY <2>5, <2>6 DEF Meant
<1>3. CASE Exact(dag, r) = {} /\ Cardinality(Prefixed(dag, r)) = 1
  <2>1. IsFiniteSet(Prefixed(dag, r))
    <3>1. Prefixed(dag, r) \subseteq DOMAIN dag.named
      BY DEF Prefixed
    <3> QED
      BY <1>1, <3>1, FS_Subset
  <2>2. PICK k : Prefixed(dag, r) = {k}
    BY <1>3, <2>1, FS_Singleton
  <2>3. n = dag.named[k].node
    BY <1>3, <2>2 DEF NodesByName
  <2>4. \A l : l \in DOMAIN dag.named /\ HasPrefix(dag.named[l].name, r) <=> l = k
    BY <2>2 DEF Prefixed
  <2>5. k \in DOMAIN dag.named /\ DOMAIN json.NamedNodes = DOMAIN dag.named
    BY <1>1, <2>4
  <2>6. \A l \in DOMAIN json.NamedNodes : HasPrefix(json.NamedNodes[l].name, r) <=> l = k
    BY <1>1, <2>4, <2>5
  <2>7. n \in Nodes /\ dag.nodes[n].originalIndex = json.NamedNodes[k].node
    BY <1>1, <2>3, <2>5
  <2> QED
    BY <2>5, <2>6, <2>7 DEF Meant
<1>4. CASE Exact(dag, r) = {} /\ Cardinality(Prefixed(dag, r)) # 1
  <2>1. n \in Producing(dag, r)
    BY <1>4 DEF NodesByName
  <2> QED
    BY <2>1 DEF Producing, Meant, Nodes, NodesOf
<1> QED
  BY <1>2, <1>3, <1>4

\* Whatever is selected was asked for, by a name of its own, by the file it writes
\* or as a default (DriverSelectNodes, FindNodesByName), every node once.
THEOREM SelectionIsMeant == Spec => []SelectedAreRequested
<1>1. CompiledInv => SelectedAreRequested
  <2> SUFFICES ASSUME CompiledInv, phase = "selected" PROVE SelectedAreRequested
    BY DEF SelectedAreRequested
  <2> DEFINE chosen == IF requested = {} THEN ToSet(dag.defaults)
                       ELSE UNION {NodesByName(dag, r) : r \in requested}
             rank == [n \in DOMAIN dag.nodes |-> n]
             Asked(n) == \/ requested = {} /\ dag.nodes[n].originalIndex \in ToSet(json.DefaultNodes)
                         \/ \E r \in requested : Meant(n, r)
  <2>1. /\ phase \in Compiled /\ requested \in Requests
        /\ selected = SelectedNodes(dag, requested)
    BY DEF CompiledInv, Compiled
  <2>2. selected = Sorted(SetToSeq(chosen), rank)
    BY <2>1 DEF SelectedNodes
  <2>3. Len(json.Nodes) \in Nat /\ Nodes = 1 .. Len(json.Nodes) /\ json \in Graphs
        /\ dag.defaults = WriteIndices(json.DefaultNodes, RemapTable(order))
        /\ DOMAIN json.Nodes = Nodes
    BY <2>1, CompiledNodes, CompiledGraph
  <2>4. ASSUME NEW n \in chosen PROVE n \in Nodes /\ Asked(n)
    <3>1. CASE requested = {}
      <4>1. json.DefaultNodes \in Seq(Nodes)
        BY <2>3, GraphAssumption
      <4>2. /\ [p \in DOMAIN dag.defaults |-> dag.nodes[dag.defaults[p]].originalIndex]
                  = json.DefaultNodes
            /\ \A p \in DOMAIN dag.defaults : dag.defaults[p] \in Nodes
        BY <2>1, <2>3, <4>1, OriginalOutcome
      <4>3. PICK p \in DOMAIN dag.defaults : n = dag.defaults[p]
        BY <3>1, <2>4 DEF ToSet
      <4>4. p \in DOMAIN json.DefaultNodes /\ json.DefaultNodes[p] = dag.nodes[n].originalIndex
        BY <4>2, <4>3
      <4> QED
        BY <3>1, <4>2, <4>3, <4>4 DEF ToSet
    <3>2. CASE requested # {}
      <4>1. PICK r \in requested : n \in NodesByName(dag, r)
        BY <2>4, <3>2
      <4>2. r \in Seq(ToSet(r))
        BY <2>1, RequestAssumption
      <4> QED
        BY <2>1, <4>1, <4>2, NamedAreMeant
    <3> QED
      BY <3>1, <3>2
  <2> HIDE DEF chosen, Asked
  <2>5. /\ SetToSeq(chosen) \in Seq(chosen) /\ ToSet(SetToSeq(chosen)) = chosen
        /\ \A i, j \in DOMAIN SetToSeq(chosen) :
              SetToSeq(chosen)[i] = SetToSeq(chosen)[j] => i = j
    <3>1. IsFiniteSet(chosen)
      <4>1. IsFiniteSet(Nodes)
        BY <2>3, FS_Interval
      <4>2. chosen \subseteq Nodes
        BY <2>4
      <4> QED
        BY <4>1, <4>2, FS_Subset
    <3> QED
      BY <3>1, ListedElements
  <2>6. \A n \in chosen : rank[n] = n /\ n \in Int
    BY <2>3, <2>4 DEF Nodes, NodesOf
  <2> HIDE DEF rank
  <2>7. /\ selected \in Seq(chosen) /\ ToSet(selected) = chosen
        /\ \A k, l \in DOMAIN selected : k < l => rank[selected[k]] <= rank[selected[l]]
        /\ \A i, j \in DOMAIN selected : selected[i] = selected[j] => i = j
    BY <2>2, <2>5, <2>6, SortedElements
  <2>8. ASSUME NEW k \in DOMAIN selected, k > 1 PROVE selected[k - 1] < selected[k]
    <3>1. k - 1 \in DOMAIN selected /\ k - 1 < k /\ k - 1 # k
      BY <2>7, <2>8
    <3>2. selected[k - 1] \in chosen /\ selected[k] \in chosen
      BY <2>7, <3>1
    <3>3. rank[selected[k - 1]] <= rank[selected[k]] /\ selected[k - 1] # selected[k]
      BY <2>7, <3>1
    <3> QED
      BY <2>6, <3>2, <3>3
  <2>9. \A n \in ToSet(selected) : Asked(n)
    BY <2>4, <2>7
  <2> QED
    BY <2>8, <2>9 DEF SelectedAreRequested, Asked, Meant
<1> QED
  BY <1>1, PhasesComputeOnce, PTL

---------------------------------------------------------------------------
(* The whole *)

\* Neither renumbering nor flattening, sorting or naming makes another program of
\* a graph without cycles than the frontend described (FreezeDagJson,
\* CompileDagDerived, DriverSelectNodes).
THEOREM GraphsKeepTheirMeaning ==
    ASSUME NoCycles
    PROVE  Spec => []GraphKeepsItsMeaning
<1>1. (/\ NodesKeepTheirIdentity /\ DependenciesAreFlattened
       /\ PointsFallTowardsRoots /\ SelectedAreRequested) => GraphKeepsItsMeaning
  BY DEF GraphKeepsItsMeaning
<1> QED
  BY <1>1, IdentitiesAreKept, DependenciesAreComplete, PointsLeadUpwards, SelectionIsMeant, PTL


=============================================================================
