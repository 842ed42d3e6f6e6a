-------------------------- MODULE LeafCacheProofs --------------------------
(***************************************************************************)
(* Proofs about leaf input caching: what was published stays, a client     *)
(* that fails is given up, and what is cached and built is true.           *)
(*                                                                         *)
(* The second is about the counter that is incremented without a lock.  It *)
(* is not bounded by the number of workers times the limit: a count that   *)
(* was read long ago and is written late throws all workers back.  What    *)
(* moves on with every failure is how the workers are spread over the      *)
(* counts: whoever writes c + 1 leaves those below c alone and brings one  *)
(* more worker beyond c.  So the spreads are met in ascending order, with  *)
(* small counts compared first, and there are only so many of them.        *)
(*                                                                         *)
(* The third is about worlds, which say what is in every file.  An output  *)
(* is uploaded when no file that went into it was missing from its         *)
(* signature.  Two worlds that give the node this signature then agree on  *)
(* all these files, so a build of either leads to that output.             *)
(***************************************************************************)
EXTENDS LeafCache, FiniteSetTheorems, WellFoundedInduction, SequenceTheorems, TLAPS

Limit == MaxClientFailureCount

---------------------------------------------------------------------------
(* The inductive invariant *)

\* The count a worker goes by: the one it has read and is about to add to, or
\* the shared one, which counts as below the limit for who is already calling.
Position(w) ==
    CASE worker[w].pc = "count" -> worker[w].count
      [] worker[w].pc \in {"read", "write"} /\ failureCount > Limit -> Limit
      [] OTHER -> failureCount
Beyond(k) == {w \in Workers : Position(w) > k}
Spread == [k \in 0 .. Limit |-> Cardinality(Beyond(k))]

Precedes(s, t) == \E k \in 0 .. Limit : s[k] < t[k] /\ \A j \in 0 .. k - 1 : s[j] <= t[j]
Above(s) == {t \in Spreads : Precedes(s, t)}
\* Those whose failure is known but has moved nobody yet.
Pending == {w \in Workers : worker[w].pc = "count" /\ worker[w].count <= Limit}

Fields == {"pc", "node", "stack", "stored", "count", "then"}
FramesOK ==
    /\ worker = [w \in Workers |-> worker[w]]
    /\ \A w \in Workers :
        /\ worker[w] = [f \in Fields |-> worker[w][f]]
        /\ worker[w].count \in Nat
        /\ worker[w].pc = "count" => worker[w].then \in {"dependencies", "finish"}
    /\ failureCount \in Nat /\ errors \in Nat
    /\ leaf = [n \in Nodes |-> leaf[n]]

SpreadInv == Cardinality(Above(Spread)) + errors < Cardinality(Spreads) + Cardinality(Pending)

ClientInv == FramesOK /\ SpreadInv

---------------------------------------------------------------------------
(* What the steps do to the counts *)

\* All that the other steps may do to the counts and who goes by them.
Quiet ==
    /\ failureCount' = failureCount /\ errors' = errors
    /\ \A v \in Workers :
        \/ worker'[v].pc = worker[v].pc /\ worker'[v].count = worker[v].count
        \/ /\ worker[v].pc # "count" /\ worker'[v].pc # "count"
           /\ worker'[v].pc \in {"read", "write"} /\ worker[v].pc \notin {"read", "write"}
              => failureCount <= Limit
Fails(w) ==
    /\ worker[w].pc \in {"read", "write"}
    /\ failureCount' = failureCount /\ errors' = errors + 1
    /\ worker'[w].pc = "count" /\ worker'[w].count = failureCount
    /\ \A v \in Workers \ {w} :
        worker'[v].pc = worker[v].pc /\ worker'[v].count = worker[v].count
Counts(w) ==
    /\ worker[w].pc = "count"
    /\ failureCount' = worker[w].count + 1 /\ errors' = errors
    /\ worker'[w].pc \notin {"count", "read", "write"}
    /\ \A v \in Workers \ {w} :
        worker'[v].pc = worker[v].pc /\ worker'[v].count = worker[v].count
Resets ==
    /\ failureCount' = 0 /\ errors' = 0
    /\ \A v \in Workers : worker'[v] = worker[v]

LEMMA IdleIsAFrame == Idle = [f \in Fields |-> Idle[f]] /\ Idle.pc = "idle" /\ Idle.count = 0
BY DEF Idle, Fields

LEMMA FramesAtFirst == Init => FramesOK
BY IdleIsAFrame DEF Init, FramesOK

LEMMA BecomesIdle ==
    ASSUME FramesOK, NEW w \in Workers, worker[w].pc # "count",
           worker' = [worker EXCEPT ![w] = Idle], UNCHANGED <<failureCount, errors, leaf>>
    PROVE  FramesOK' /\ Quiet
<1>1. \A v \in Workers : worker'[v] = IF v = w THEN Idle ELSE worker[v]
  BY DEF FramesOK
<1>2. FramesOK'
  BY <1>1, IdleIsAFrame DEF FramesOK
<1>3. Quiet
  BY <1>1, IdleIsAFrame DEF Quiet
<1> QED
  BY <1>2, <1>3

\* A worker that counts nothing gets a frame in which it counts nothing.
LEMMA MovesOn ==
    ASSUME FramesOK, NEW w \in Workers, NEW r, worker[w].pc # "count",
           worker' = [worker EXCEPT ![w] = r], UNCHANGED <<failureCount, errors>>,
           leaf' = [n \in Nodes |-> leaf'[n]],
           r = [f \in Fields |-> r[f]], r.count = worker[w].count, r.pc # "count",
           r.pc \in {"read", "write"} => failureCount <= Limit
    PROVE  FramesOK' /\ Quiet
<1>1. \A v \in Workers : worker'[v] = IF v = w THEN r ELSE worker[v]
  BY DEF FramesOK
<1>2. worker' = [v \in Workers |-> worker'[v]]
  BY DEF FramesOK
<1>3. FramesOK'
  BY <1>1, <1>2 DEF FramesOK
<1>4. Quiet
  BY <1>1 DEF Quiet
<1> QED
  BY <1>3, <1>4

\* The frames keep their shape, and every step does one of the above.
LEMMA StepsOfTheClient ==
    ASSUME FramesOK, Next
    PROVE  /\ FramesOK'
           /\ Quiet \/ Resets \/ \E w \in Workers : Fails(w) \/ Counts(w)
<1>1. ASSUME NEW w \in Workers, NEW n \in Nodes, ProcessNode(w, n) PROVE FramesOK' /\ Quiet
  <2> DEFINE p == IF CachesNode(n) /\ n \notin attempted
                  THEN IF leaf[n] = None THEN "calculate" ELSE "lookup"
                  ELSE "dependencies"
             s == IF leaf[n] = None THEN <<n>> ELSE <<>>
  <2>1. worker' = [worker EXCEPT ![w] = [@ EXCEPT !.node = n, !.pc = p, !.stack = s]]
    BY <1>1 DEF ProcessNode
  <2>2. worker[w].pc = "idle" /\ UNCHANGED <<failureCount, errors, leaf>>
    BY <1>1 DEF ProcessNode, client
  <2>3. p \in {"calculate", "lookup", "dependencies"}
    OBVIOUS
  <2> HIDE DEF p, s
  <2> DEFINE r == [worker[w] EXCEPT !.node = n, !.pc = p, !.stack = s]
  <2>4. r = [f \in Fields |-> r[f]] /\ r.count = worker[w].count /\ r.pc = p
    BY DEF FramesOK, Fields
  <2>5. worker' = [worker EXCEPT ![w] = r] /\ leaf' = [m \in Nodes |-> leaf'[m]]
    BY <2>1, <2>2 DEF FramesOK
  <2> HIDE DEF r
  <2> QED
    BY <2>2, <2>3, <2>4, <2>5, MovesOn
<1>2. ASSUME NEW w \in Workers, NEW n \in Nodes, CalculateChild(w, n) PROVE FramesOK' /\ Quiet
  <2> DEFINE r == [worker[w] EXCEPT !.stack = Append(@, n)]
  <2>1. worker[w].pc = "calculate" /\ UNCHANGED <<failureCount, errors, leaf>>
    BY <1>2 DEF CalculateChild, client
  <2>2. r = [f \in Fields |-> r[f]] /\ r.count = worker[w].count /\ r.pc = worker[w].pc
    BY DEF FramesOK, Fields
  <2>3. worker' = [worker EXCEPT ![w] = r] /\ leaf' = [m \in Nodes |-> leaf'[m]]
    BY <1>2, <2>1 DEF CalculateChild, FramesOK
  <2> HIDE DEF r
  <2> QED
    BY <2>1, <2>2, <2>3, MovesOn
<1>3. ASSUME NEW w \in Workers, Publish(w) PROVE FramesOK' /\ Quiet
  <2>1. \E p \in {"calculate", "lookup"} : \E s :
            worker' = [worker EXCEPT ![w] = [@ EXCEPT !.stack = s, !.pc = p]]
    BY <1>3 DEF Publish
  <2>2. /\ worker[w].pc = "calculate" /\ UNCHANGED <<failureCount, errors>>
        /\ leaf' = [n \in Nodes |-> leaf'[n]]
    BY <1>3 DEF Publish, Published, client, FramesOK
  <2>3. ASSUME NEW p \in {"calculate", "lookup"}, NEW s,
               worker' = [worker EXCEPT ![w] = [@ EXCEPT !.stack = s, !.pc = p]]
        PROVE  FramesOK' /\ Quiet
    <3> DEFINE r == [worker[w] EXCEPT !.stack = s, !.pc = p]
    <3>1. r = [f \in Fields |-> r[f]] /\ r.count = worker[w].count /\ r.pc = p
      BY DEF FramesOK, Fields
    <3>2. worker' = [worker EXCEPT ![w] = r]
      BY <2>3
    <3> HIDE DEF r
    <3> QED
      BY <2>2, <2>3, <3>1, <3>2, MovesOn
  <2> QED
    BY <2>1, <2>3
<1>4. ASSUME NEW w \in Workers, Lookup(w) PROVE FramesOK' /\ Quiet
  <2>1. \/ worker' = [worker EXCEPT ![w] = Idle]
        \/ \E p \in {"dependencies", "read"} :
              /\ worker' = [worker EXCEPT ![w].pc = p]
              /\ p = "read" => failureCount <= Limit
    BY <1>4 DEF Lookup, Step, Finish, ClientMayBeCalled, Limit
  <2>2. worker[w].pc = "lookup" /\ UNCHANGED <<failureCount, errors, leaf>>
    BY <1>4 DEF Lookup, client
  <2> QED
    BY <2>1, <2>2, IdleIsAFrame DEF FramesOK, Quiet, Fields
<1>5. ASSUME NEW w \in Workers, CacheHit(w) PROVE FramesOK' /\ Quiet
  BY <1>5, BecomesIdle DEF CacheHit, client
<1>6. ASSUME NEW w \in Workers, CacheMiss(w) PROVE FramesOK' /\ Quiet
  BY <1>6 DEF CacheMiss, Step, FramesOK, Quiet, client, Fields
<1>7. ASSUME NEW w \in Workers, CacheReadFails(w) PROVE FramesOK' /\ Fails(w)
  BY <1>7 DEF CacheReadFails, ClientFails, FramesOK, Fails, Fields
<1>8. ASSUME NEW w \in Workers, CountFailure(w) PROVE FramesOK' /\ Counts(w)
  <2>1. \/ worker' = [worker EXCEPT ![w] = Idle]
        \/ worker' = [worker EXCEPT ![w].pc = "dependencies"]
    BY <1>8 DEF CountFailure, Step, Finish, FramesOK
  <2>2. /\ worker[w].pc = "count" /\ failureCount' = worker[w].count + 1
        /\ UNCHANGED <<errors, leaf>>
    BY <1>8 DEF CountFailure
  <2> QED
    BY <2>1, <2>2, IdleIsAFrame DEF FramesOK, Counts, Fields
<1>9. ASSUME NEW w \in Workers, EnqueueDependencies(w) PROVE FramesOK' /\ Quiet
  BY <1>9, BecomesIdle DEF EnqueueDependencies, client
<1>10. ASSUME NEW w \in Workers, CheckInputSignature(w) PROVE FramesOK' /\ Quiet
  <2>1. worker[w].pc = "dependencies" /\ UNCHANGED <<failureCount, errors, leaf>>
    BY <1>10 DEF CheckInputSignature, client
  <2>2. CASE worker' = [worker EXCEPT ![w] = Idle]
    BY <2>1, <2>2, BecomesIdle
  <2>3. ASSUME NEW t, worker' = [worker EXCEPT ![w] = [@ EXCEPT !.pc = "run", !.stored = t]]
        PROVE  FramesOK' /\ Quiet
    <3> DEFINE r == [worker[w] EXCEPT !.pc = "run", !.stored = t]
    <3>1. r = [f \in Fields |-> r[f]] /\ r.count = worker[w].count /\ r.pc = "run"
      BY DEF FramesOK, Fields
    <3>2. worker' = [worker EXCEPT ![w] = r] /\ leaf' = [m \in Nodes |-> leaf'[m]]
      BY <2>1, <2>3 DEF FramesOK
    <3> HIDE DEF r
    <3> QED
      BY <2>1, <3>1, <3>2, MovesOn
  <2> QED
    BY <1>10, <2>2, <2>3 DEF CheckInputSignature
<1>11. ASSUME NEW w \in Workers, DependencyFailed(w) PROVE FramesOK' /\ Quiet
  BY <1>11, BecomesIdle DEF DependencyFailed, Finish, client
<1>12. ASSUME NEW w \in Workers, RunAction(w) PROVE FramesOK' /\ Quiet
  BY <1>12 DEF RunAction, Step, FramesOK, Quiet, client, Fields
<1>13. ASSUME NEW w \in Workers, Validate(w) PROVE FramesOK' /\ Quiet
  <2>1. \/ worker' = [worker EXCEPT ![w] = Idle]
        \/ \E p \in {"write", "finish"} :
              /\ worker' = [worker EXCEPT ![w].pc = p]
              /\ p = "write" => failureCount <= Limit
    BY <1>13 DEF Validate, Step, ClientMayBeCalled, Limit
  <2>2. worker[w].pc = "validate" /\ UNCHANGED <<failureCount, errors, leaf>>
    BY <1>13 DEF Validate, client
  <2> QED
    BY <2>1, <2>2, IdleIsAFrame DEF FramesOK, Quiet, Fields
<1>14. ASSUME NEW w \in Workers, CacheWrite(w) PROVE FramesOK' /\ Quiet
  BY <1>14, BecomesIdle DEF CacheWrite, Finish
<1>15. ASSUME NEW w \in Workers, CacheWriteFails(w) PROVE FramesOK' /\ Fails(w)
  BY <1>15 DEF CacheWriteFails, ClientFails, FramesOK, Fails, Fields
<1>16. ASSUME NEW w \in Workers, GiveUpWriting(w) PROVE FramesOK' /\ Quiet
  BY <1>16, BecomesIdle DEF GiveUpWriting, Finish, client
<1>17. ASSUME NEW e \in Environments, StartBuild(e) PROVE FramesOK' /\ Resets
  BY <1>17 DEF StartBuild, Fresh, FramesOK, Resets
<1>18. ASSUME EndBuild PROVE FramesOK' /\ Quiet
  BY <1>18 DEF EndBuild, FramesOK, Quiet, client
<1>19. ASSUME Checkout PROVE FramesOK' /\ Quiet
  BY <1>19 DEF Checkout, FramesOK, Quiet, client
<1>20. ASSUME NEW f \in Files, NEW c, Edit(f, c) PROVE FramesOK' /\ Quiet
  BY <1>20 DEF Edit, FramesOK, Quiet, client
<1> QED
  BY <1>1, <1>2, <1>3, <1>4, <1>5, <1>6, <1>7, <1>8, <1>9, <1>10, <1>11, <1>12, <1>13,
     <1>14, <1>15, <1>16, <1>17, <1>18, <1>19, <1>20 DEF Next

---------------------------------------------------------------------------
(* The spreads and their order *)

LEMMA SpreadsAreFinite == IsFiniteSet(Spreads)
<1> DEFINE C == 0 .. Limit
           D == 0 .. Cardinality(Workers)
           P == SUBSET (C \X D)
           g == [s \in Spreads |-> {x \in C \X D : s[x[1]] = x[2]}]
<1>1. IsFiniteSet(C) /\ IsFiniteSet(D)
  BY ClientAssumption, FS_Interval, FS_CardinalityType DEF Limit
<1>2. IsFiniteSet(P)
  BY <1>1, FS_Product, FS_SUBSET
<1>3. g \in Injection(Spreads, P)
  <2>1. g \in [Spreads -> P]
    OBVIOUS
  <2>2. ASSUME NEW s \in Spreads, NEW t \in Spreads, g[s] = g[t] PROVE s = t
    <3>1. s \in [C -> D] /\ t \in [C -> D]
      BY DEF Spreads, Limit
    <3>2. ASSUME NEW k \in C PROVE s[k] = t[k]
      <4>1. <<k, s[k]>> \in C \X D
        BY <3>1
      <4>2. <<k, s[k]>> \in g[s]
        BY <4>1
      <4>3. <<k, s[k]>> \in g[t]
        BY <4>2, <2>2
      <4> QED
        BY <4>3
    <3>3. s = [k \in C |-> s[k]] /\ t = [k \in C |-> t[k]]
      BY <3>1
    <3> HIDE DEF C
    <3> QED
      BY <3>2, <3>3
  <2> HIDE DEF g
  <2> QED
    BY <2>1, <2>2 DEF Injection, IsInjective
<1> QED
  BY <1>2, <1>3, FS_Injection

LEMMA PositionIsANumber ==
    ASSUME FramesOK, NEW w \in Workers
    PROVE  Position(w) \in Nat
BY ClientAssumption DEF Position, FramesOK, Limit

LEMMA BeyondIsFinite ==
    ASSUME NEW k
    PROVE  IsFiniteSet(Beyond(k)) /\ Cardinality(Beyond(k)) \in 0 .. Cardinality(Workers)
<1>1. Beyond(k) \in SUBSET Workers
  BY DEF Beyond
<1>2. IsFiniteSet(Beyond(k)) /\ Cardinality(Beyond(k)) <= Cardinality(Workers)
  BY <1>1, FS_Subset, ClientAssumption
<1> QED
  BY <1>2, FS_CardinalityType, ClientAssumption

LEMMA SpreadIsOne ==
    ASSUME FramesOK
    PROVE  Spread \in Spreads
<1>1. ASSUME NEW k \in 1 .. Limit PROVE Cardinality(Beyond(k)) <= Cardinality(Beyond(k - 1))
  <2>1. k \in Nat /\ k - 1 \in Nat
    BY ClientAssumption DEF Limit
  <2>2. Beyond(k) \in SUBSET Beyond(k - 1)
    BY <2>1, PositionIsANumber DEF Beyond
  <2> QED
    BY <2>2, BeyondIsFinite, FS_Subset
<1>2. Spread \in [0 .. Limit -> 0 .. Cardinality(Workers)]
  BY BeyondIsFinite DEF Spread
<1>3. \A k \in 1 .. Limit : Spread[k] <= Spread[k - 1]
  BY <1>1, ClientAssumption DEF Spread, Limit
<1> QED
  BY <1>2, <1>3 DEF Spreads, Limit

\* Nothing comes twice: what is above a later spread is above the earlier one.
LEMMA AboveShrinks ==
    ASSUME NEW s \in Spreads, NEW t \in Spreads
    PROVE  /\ Cardinality(Above(s)) \in Nat
           /\ (\A k \in 0 .. Limit : s[k] <= t[k]) => Cardinality(Above(t)) <= Cardinality(Above(s))
           /\ Precedes(s, t) => Cardinality(Above(t)) < Cardinality(Above(s))
<1>1. IsFiniteSet(Above(s)) /\ IsFiniteSet(Above(t))
  BY SpreadsAreFinite, FS_Subset DEF Above
<1>2. \A u \in Spreads : \A k \in 0 .. Limit : u[k] \in Nat
  BY DEF Spreads, Limit
<1>3. ASSUME \A k \in 0 .. Limit : s[k] <= t[k] PROVE Above(t) \subseteq Above(s)
  <2> SUFFICES ASSUME NEW u \in Spreads, Precedes(t, u) PROVE Precedes(s, u)
    BY DEF Above
  <2>1. PICK k \in 0 .. Limit : t[k] < u[k] /\ \A j \in 0 .. k - 1 : t[j] <= u[j]
    BY DEF Precedes
  <2>2. \A j \in 0 .. k - 1 : j \in 0 .. Limit
    BY ClientAssumption DEF Limit
  <2>3. s[k] < u[k]
    BY <2>1, <1>2, <1>3
  <2>4. \A j \in 0 .. k - 1 : s[j] <= u[j]
    BY <2>1, <2>2, <1>2, <1>3
  <2> QED
    BY <2>3, <2>4 DEF Precedes
<1>4. ASSUME Precedes(s, t) PROVE Above(t) \subseteq Above(s)
  <2> SUFFICES ASSUME NEW u \in Spreads, Precedes(t, u) PROVE Precedes(s, u)
    BY DEF Above
  <2>1. PICK k \in 0 .. Limit : t[k] < u[k] /\ \A j \in 0 .. k - 1 : t[j] <= u[j]
    BY DEF Precedes
  <2>2. PICK i \in 0 .. Limit : s[i] < t[i] /\ \A j \in 0 .. i - 1 : s[j] <= t[j]
    BY <1>4 DEF Precedes
  <2> DEFINE m == IF i < k THEN i ELSE k
  <2>3. m \in 0 .. Limit /\ \A j \in 0 .. m - 1 : j \in 0 .. Limit /\ j \in 0 .. k - 1 /\ j \in 0 .. i - 1
    BY ClientAssumption DEF Limit
  <2>4. s[m] < u[m]
    <3>1. CASE i < k
      BY <3>1, <2>1, <2>2, <1>2
    <3>2. CASE i = k
      BY <3>2, <2>1, <2>2, <1>2
    <3>3. CASE i > k
      BY <3>3, <2>1, <2>2, <1>2
    <3> QED
      BY <3>1, <3>2, <3>3
  <2>5. \A j \in 0 .. m - 1 : s[j] <= u[j]
    BY <2>1, <2>2, <2>3, <1>2
  <2> HIDE DEF m
  <2> QED
    BY <2>3, <2>4, <2>5 DEF Precedes
<1>5. t \notin Above(t)
  BY <1>2 DEF Above, Precedes
<1>6. Precedes(s, t) => t \in Above(s)
  BY DEF Above
<1>7. Cardinality(Above(s)) \in Nat /\ Cardinality(Above(t)) \in Nat
  BY <1>1, FS_CardinalityType
<1>8. Above(t) \subseteq Above(s) =>
        /\ Cardinality(Above(t)) <= Cardinality(Above(s))
        /\ Cardinality(Above(t)) = Cardinality(Above(s)) => Above(t) = Above(s)
  BY <1>1, FS_Subset
<1> QED
  BY <1>3, <1>4, <1>5, <1>6, <1>7, <1>8

---------------------------------------------------------------------------
(* Every failure that is pending still has a spread of its own to lead to: *)
(* that with as many workers more beyond its count as there are in front   *)
(* of it, and itself.                                                      *)

LEMMA PendingFits ==
    ASSUME FramesOK
    PROVE  /\ Cardinality(Pending) \in Nat
           /\ Cardinality(Pending) <= Cardinality(Above(Spread))
<1>1. IsFiniteSet(Pending) /\ Cardinality(Pending) \in Nat
  BY ClientAssumption, FS_Subset, FS_CardinalityType DEF Pending
<1>2. PICK order : order \in Bijection(1 .. Cardinality(Pending), Pending)
  BY <1>1, FS_CardinalityType DEF ExistsBijection
<1> DEFINE Count(w) == worker[w].count
           At(c) == {v \in Pending : Count(v) = c}
           \* Who is at its count and not behind it.
           InFront(w) == {v \in At(Count(w)) : \E i, j \in 1 .. Cardinality(Pending) :
                             i <= j /\ order[i] = v /\ order[j] = w}
           Rank(w) == Cardinality(InFront(w))
           Moved(w) == [Spread EXCEPT ![Count(w)] = @ + Rank(w)]
           f == [w \in Pending |-> Moved(w)]
<1>3. \A w \in Pending : \E i \in 1 .. Cardinality(Pending) : order[i] = w
  BY <1>2 DEF Bijection, Surjection
<1>4. \A i, j \in 1 .. Cardinality(Pending) : order[i] = order[j] => i = j
  BY <1>2 DEF Bijection, Injection, IsInjective
<1>5. ASSUME NEW w \in Pending
      PROVE  /\ w \in InFront(w) /\ IsFiniteSet(InFront(w)) /\ Rank(w) \in Nat /\ Rank(w) > 0
             /\ Count(w) \in 0 .. Limit
  <2>1. w \in InFront(w)
    BY <1>3, <1>1
  <2>2. IsFiniteSet(InFront(w))
    BY <1>1, FS_Subset
  <2>3. Rank(w) \in Nat /\ Rank(w) # 0
    BY <2>1, <2>2, FS_CardinalityType, FS_EmptySet
  <2>4. Count(w) \in 0 .. Limit
    BY ClientAssumption DEF Pending, FramesOK, Limit
  <2> QED
    BY <2>1, <2>2, <2>3, <2>4
<1>6. ASSUME NEW v \in Pending, NEW w \in Pending, Count(v) = Count(w), Rank(v) = Rank(w)
      PROVE  v = w
  <2>1. PICK i \in 1 .. Cardinality(Pending) : order[i] = v
    BY <1>3
  <2>2. PICK j \in 1 .. Cardinality(Pending) : order[j] = w
    BY <1>3
  <2>3. ASSUME NEW x \in Pending, NEW y \in Pending, Count(x) = Count(y), Rank(x) = Rank(y),
               NEW k \in 1 .. Cardinality(Pending), NEW l \in 1 .. Cardinality(Pending),
               order[k] = x, order[l] = y, k <= l
        PROVE  x = y
    <3>1. InFront(x) \subseteq InFront(y)
      <4> SUFFICES ASSUME NEW z \in InFront(x) PROVE z \in InFront(y)
        OBVIOUS
      <4>1. PICK m \in 1 .. Cardinality(Pending) : order[m] = z /\ m <= k
        BY <2>3, <1>4
      <4>2. m <= l
        BY <4>1, <2>3, <1>1
      <4>3. z \in At(Count(y))
        BY <2>3
      <4> QED
        BY <4>1, <4>2, <4>3, <2>3
    <3>2. InFront(x) = InFront(y)
      <4> HIDE DEF InFront
      <4> QED
        BY <3>1, <2>3, <1>5, FS_Subset
    <3>3. y \in InFront(x)
      BY <3>2, <1>5
    <3>4. l <= k
      BY <3>3, <2>3, <1>4
    <3> QED
      BY <3>4, <2>3, <1>1
  <2>4. i <= j \/ j <= i
    BY <1>1
  <2> HIDE DEF Rank, Count
  <2> QED
    BY <1>6, <2>1, <2>2, <2>3, <2>4
<1>7. ASSUME NEW w \in Pending PROVE Moved(w) \in Above(Spread)
  <2> DEFINE c == Count(w)
  <2>1. Spread \in Spreads
    BY SpreadIsOne
  <2>2. c \in 0 .. Limit /\ Rank(w) \in Nat /\ Rank(w) > 0
    BY <1>5
  <2>3. \A k \in 0 .. Limit : Spread[k] = Cardinality(Beyond(k)) /\ Spread[k] \in Nat
    BY BeyondIsFinite, ClientAssumption, FS_CardinalityType DEF Spread
  <2>4. InFront(w) \cap Beyond(c) = {}
    BY <2>2, ClientAssumption DEF Beyond, Pending, Position, FramesOK, Limit
  <2>5. Cardinality(InFront(w) \cup Beyond(c)) = Rank(w) + Spread[c]
    <3>1. Cardinality(InFront(w) \cap Beyond(c)) = 0
      BY <2>4, FS_EmptySet
    <3>2. IsFiniteSet(InFront(w)) /\ IsFiniteSet(Beyond(c))
      BY <1>5, BeyondIsFinite
    <3>3. Cardinality(InFront(w) \cup Beyond(c)) =
              Cardinality(InFront(w)) + Cardinality(Beyond(c)) - Cardinality(InFront(w) \cap Beyond(c))
      <4> HIDE DEF InFront, c
      <4> QED
        BY <3>2, FS_Union
    <3> HIDE DEF InFront
    <3> QED
      BY <3>1, <3>3, <2>2, <2>3
  <2>6. ASSUME NEW T, InFront(w) \cup Beyond(c) \subseteq T, IsFiniteSet(T)
        PROVE  Rank(w) + Spread[c] <= Cardinality(T)
    <3> HIDE DEF Rank, InFront, c
    <3> QED
      BY <2>5, <2>6, FS_Subset
  <2>7. Rank(w) + Spread[c] <= Cardinality(Workers)
    <3>1. InFront(w) \cup Beyond(c) \subseteq Workers
      BY DEF Pending, Beyond
    <3> HIDE DEF Rank, InFront, c
    <3> QED
      BY <3>1, <2>6, ClientAssumption
  <2>8. ASSUME c > 0 PROVE Rank(w) + Spread[c] <= Spread[c - 1]
    <3>1. c - 1 \in 0 .. Limit
      BY <2>2, <2>8, ClientAssumption DEF Limit
    <3>2. InFront(w) \cup Beyond(c) \subseteq Beyond(c - 1)
      BY <2>2, PositionIsANumber, ClientAssumption DEF Beyond, Pending, Position, FramesOK, Limit
    <3> HIDE DEF Rank, InFront, c
    <3> QED
      BY <3>1, <3>2, <2>3, <2>6, BeyondIsFinite
  <2>9. Moved(w) \in Spreads
    <3> DEFINE t == Moved(w)
               D == 0 .. Cardinality(Workers)
    <3>1. \A k \in 0 .. Limit : t[k] = IF k = c THEN Spread[k] + Rank(w) ELSE Spread[k]
      BY DEF Spread
    <3>2. t = [k \in 0 .. Limit |-> t[k]]
      BY DEF Spread
    <3>3. \A k \in 0 .. Limit : Spread[k] \in D
      BY BeyondIsFinite DEF Spread
    <3>4. \A k \in 1 .. Limit : Spread[k] <= Spread[k - 1]
      BY <2>1 DEF Spreads, Limit
    <3>5. \A k \in 1 .. Limit : k \in 0 .. Limit /\ k - 1 \in 0 .. Limit
      BY ClientAssumption DEF Limit
    <3>6. Cardinality(Workers) \in Nat
      BY ClientAssumption, FS_CardinalityType
    <3> HIDE DEF t, Rank, c
    <3>7. \A k \in 0 .. Limit : t[k] \in D
      BY <3>1, <3>3, <3>6, <2>2, <2>7
    <3>8. \A k \in 1 .. Limit : t[k] <= t[k - 1]
      BY <3>1, <3>3, <3>4, <3>5, <3>6, <2>2, <2>3, <2>8
    <3>9. t \in Spreads
      BY <3>2, <3>7, <3>8 DEF Spreads, Limit
    <3> QED
      BY <3>9 DEF t
  <2>10. Precedes(Spread, Moved(w))
    <3>1. \A k \in 0 .. Limit : Moved(w)[k] = IF k = c THEN Spread[k] + Rank(w) ELSE Spread[k]
      BY DEF Spread
    <3>2. \A k \in 0 .. c - 1 : k \in 0 .. Limit
      BY <2>2, ClientAssumption DEF Limit
    <3>3. Moved(w)[c] > Spread[c]
      BY <3>1, <2>2, <2>3
    <3>4. \A k \in 0 .. c - 1 : Spread[k] <= Moved(w)[k]
      BY <3>1, <3>2, <2>2, <2>3
    <3> HIDE DEF Rank, c
    <3> QED
      BY <3>3, <3>4, <2>2 DEF Precedes
  <2> QED
    BY <2>9, <2>10 DEF Above
<1>8. f \in Injection(Pending, Above(Spread))
  <2>1. f \in [Pending -> Above(Spread)]
    BY <1>7
  <2>2. ASSUME NEW v \in Pending, NEW w \in Pending, f[v] = f[w] PROVE v = w
    <3>1. \A k \in 0 .. Limit :
              /\ f[v][k] = IF k = Count(v) THEN Spread[k] + Rank(v) ELSE Spread[k]
              /\ f[w][k] = IF k = Count(w) THEN Spread[k] + Rank(w) ELSE Spread[k]
              /\ Spread[k] \in Nat
      BY BeyondIsFinite, ClientAssumption, FS_CardinalityType DEF Spread
    <3>2. /\ Count(v) \in 0 .. Limit /\ Rank(v) \in Nat /\ Rank(v) > 0
          /\ Count(w) \in 0 .. Limit /\ Rank(w) \in Nat /\ Rank(w) > 0
      BY <1>5
    <3> HIDE DEF f, Rank, Count
    <3>3. Count(v) = Count(w)
      BY <3>1, <3>2, <2>2
    <3>4. Rank(v) = Rank(w)
      BY <3>1, <3>2, <3>3, <2>2
    <3> QED
      BY <3>3, <3>4, <1>6
  <2> HIDE DEF f
  <2> QED
    BY <2>1, <2>2 DEF Injection, IsInjective
<1>9. IsFiniteSet(Above(Spread))
  BY SpreadsAreFinite, FS_Subset DEF Above
<1> QED
  BY <1>1, <1>8, <1>9, FS_Injection

---------------------------------------------------------------------------
(* Preservation of the bound *)

LEMMA BeyondGrows ==
    ASSUME FramesOK, FramesOK', NEW k \in 0 .. Limit, Beyond(k) \subseteq Beyond(k)'
    PROVE  Spread[k] <= Spread'[k]
<1>1. IsFiniteSet(Beyond(k)')
  <2>1. Beyond(k)' \in SUBSET Workers
    BY DEF Beyond
  <2> QED
    BY <2>1, ClientAssumption, FS_Subset
<1>2. Cardinality(Beyond(k)) <= Cardinality(Beyond(k)')
  BY <1>1, FS_Subset
<1>3. Spread[k] = Cardinality(Beyond(k)) /\ Spread'[k] = Cardinality(Beyond(k)')
  BY DEF Spread
<1> QED
  BY <1>2, <1>3

LEMMA BeyondGrowsStrictly ==
    ASSUME FramesOK, FramesOK', NEW k \in 0 .. Limit, Beyond(k) \subseteq Beyond(k)',
           NEW w, w \notin Beyond(k), w \in Beyond(k)'
    PROVE  Spread[k] < Spread'[k]
<1>1. IsFiniteSet(Beyond(k)')
  <2>1. Beyond(k)' \in SUBSET Workers
    BY DEF Beyond
  <2> QED
    BY <2>1, ClientAssumption, FS_Subset
<1>2. /\ Cardinality(Beyond(k)) <= Cardinality(Beyond(k)')
      /\ Cardinality(Beyond(k)) # Cardinality(Beyond(k)')
  BY <1>1, FS_Subset
<1>3. Spread[k] = Cardinality(Beyond(k)) /\ Spread'[k] = Cardinality(Beyond(k)')
  BY DEF Spread
<1>4. Cardinality(Beyond(k)) \in Nat /\ Cardinality(Beyond(k)') \in Nat
  BY <1>1, BeyondIsFinite, FS_CardinalityType
<1> QED
  BY <1>2, <1>3, <1>4

LEMMA SpreadIsOneAfter == FramesOK' => Spread' \in Spreads
<1>1. FramesOK => Spread \in Spreads
  BY SpreadIsOne
<1>2. (FramesOK => Spread \in Spreads)'
  BY <1>1, PTL
<1> QED
  BY <1>2 DEF Spreads

LEMMA BoundIsKeptWhenQuiet ==
    ASSUME FramesOK, FramesOK', SpreadInv, Quiet
    PROVE  SpreadInv'
<1>1. Pending' = Pending
  BY DEF Pending, Quiet
<1>2. ASSUME NEW k \in 0 .. Limit PROVE Spread[k] <= Spread'[k]
  <2>1. Beyond(k) \subseteq Beyond(k)'
    BY ClientAssumption DEF Beyond, Position, Quiet, FramesOK, Limit
  <2> QED
    BY <2>1, BeyondGrows
<1>3. Cardinality(Above(Spread')) <= Cardinality(Above(Spread))
  BY <1>2, SpreadIsOne, SpreadIsOneAfter, AboveShrinks
<1>4. errors' = errors /\ errors \in Nat /\ Cardinality(Pending) \in Nat
  BY PendingFits DEF Quiet, FramesOK
<1>5. Cardinality(Above(Spread)) \in Nat /\ Cardinality(Above(Spread')) \in Nat /\ Cardinality(Spreads) \in Nat
  BY SpreadIsOne, SpreadIsOneAfter, AboveShrinks, SpreadsAreFinite, FS_CardinalityType
<1>6. Above(Spread)' = Above(Spread')
  BY DEF Above, Precedes, Spreads
<1> QED
  BY <1>1, <1>3, <1>4, <1>5, <1>6 DEF SpreadInv, Spreads

\* A failure is pending, or it comes from one who was late and is given up.
LEMMA BoundIsKeptByFailure ==
    ASSUME FramesOK, FramesOK', SpreadInv, NEW w \in Workers, Fails(w)
    PROVE  SpreadInv'
<1>1. failureCount \in Nat /\ errors' = errors + 1 /\ errors \in Nat /\ Cardinality(Pending) \in Nat
  BY PendingFits DEF Fails, FramesOK
<1>2. ASSUME NEW k \in 0 .. Limit PROVE Beyond(k) \subseteq Beyond(k)'
  BY ClientAssumption DEF Beyond, Position, Fails, FramesOK, Limit
<1>3. \A k \in 0 .. Limit : Spread[k] <= Spread'[k]
  BY <1>2, BeyondGrows
<1>4. Cardinality(Above(Spread)) \in Nat /\ Cardinality(Above(Spread')) \in Nat /\ Cardinality(Spreads) \in Nat
  BY SpreadIsOne, SpreadIsOneAfter, AboveShrinks, SpreadsAreFinite, FS_CardinalityType
<1>5. Above(Spread)' = Above(Spread') /\ Spreads' = Spreads
  BY DEF Above, Precedes, Spreads
<1>6. IsFiniteSet(Pending) /\ w \notin Pending
  BY ClientAssumption, FS_Subset DEF Pending, Fails
<1>7. CASE failureCount <= Limit
  <2>1. Pending' = Pending \cup {w}
    BY <1>7 DEF Pending, Fails
  <2>2. Cardinality(Pending') = Cardinality(Pending) + 1
    BY <2>1, <1>6, FS_AddElement
  <2>3. Cardinality(Above(Spread')) <= Cardinality(Above(Spread))
    BY <1>3, SpreadIsOne, SpreadIsOneAfter, AboveShrinks
  <2> QED
    BY <2>2, <2>3, <1>1, <1>4, <1>5 DEF SpreadInv
<1>8. CASE failureCount > Limit
  <2>1. Pending' = Pending
    BY <1>8, <1>1, ClientAssumption DEF Pending, Fails, Limit
  <2>2. w \notin Beyond(Limit) /\ w \in Beyond(Limit)' /\ Limit \in 0 .. Limit
    BY <1>8, <1>1, ClientAssumption DEF Beyond, Position, Fails, Limit
  <2>3. Spread[Limit] < Spread'[Limit]
    BY <2>2, <1>2, BeyondGrowsStrictly
  <2>4. Precedes(Spread, Spread')
    <3>1. \A j \in 0 .. Limit - 1 : j \in 0 .. Limit
      BY ClientAssumption DEF Limit
    <3> QED
      BY <3>1, <2>2, <2>3, <1>3 DEF Precedes
  <2>5. Cardinality(Above(Spread')) < Cardinality(Above(Spread))
    BY <2>4, SpreadIsOne, SpreadIsOneAfter, AboveShrinks
  <2> QED
    BY <2>1, <2>5, <1>1, <1>4, <1>5 DEF SpreadInv
<1> QED
  BY <1>1, <1>7, <1>8, ClientAssumption DEF Limit

\* Writing c + 1 takes nobody back who is not beyond c, and one worker on.
LEMMA BoundIsKeptByCounting ==
    ASSUME FramesOK, FramesOK', SpreadInv, NEW w \in Workers, Counts(w)
    PROVE  SpreadInv'
<1> PICK c \in Nat : c = worker[w].count
  BY DEF FramesOK
<1>1. /\ c = worker[w].count /\ failureCount \in Nat /\ failureCount' = c + 1
      /\ errors' = errors /\ errors \in Nat /\ Cardinality(Pending) \in Nat
  BY PendingFits DEF Counts, FramesOK
<1>2. ASSUME NEW k \in 0 .. Limit, k <= c PROVE Beyond(k) \subseteq Beyond(k)'
  BY <1>1, <1>2, ClientAssumption DEF Beyond, Position, Counts, FramesOK, Limit
<1>3. \A k \in 0 .. Limit : k <= c => Spread[k] <= Spread'[k]
  BY <1>2, BeyondGrows
<1>4. Cardinality(Above(Spread)) \in Nat /\ Cardinality(Above(Spread')) \in Nat /\ Cardinality(Spreads) \in Nat
  BY SpreadIsOne, SpreadIsOneAfter, AboveShrinks, SpreadsAreFinite, FS_CardinalityType
<1>5. Above(Spread)' = Above(Spread') /\ Spreads' = Spreads
  BY DEF Above, Precedes, Spreads
<1>6. IsFiniteSet(Pending)
  BY ClientAssumption, FS_Subset DEF Pending
<1>7. CASE c <= Limit
  <2>1. Pending' = Pending \ {w} /\ w \in Pending
    BY <1>1, <1>7 DEF Pending, Counts
  <2>2. Cardinality(Pending') = Cardinality(Pending) - 1
    BY <2>1, <1>6, FS_RemoveElement
  <2>3. c \in 0 .. Limit
    BY <1>1, <1>7, ClientAssumption DEF Limit
  <2>4. w \notin Beyond(c) /\ w \in Beyond(c)'
    <3>1. Position(w) = c /\ Position(w)' = c + 1
      BY <1>1 DEF Position, Counts
    <3>2. w \in Beyond(c)' <=> Position(w)' > c
      BY DEF Beyond
    <3> QED
      BY <3>1, <3>2, <1>1 DEF Beyond
  <2>5. Spread[c] < Spread'[c]
    <3>1. Beyond(c) \subseteq Beyond(c)'
      BY <2>3, <1>1, <1>2
    <3> QED
      BY <2>3, <2>4, <3>1, BeyondGrowsStrictly
  <2>6. \A j \in 0 .. c - 1 : Spread[j] <= Spread'[j]
    BY <2>3, <1>1, <1>3, ClientAssumption DEF Limit
  <2>7. Cardinality(Above(Spread')) < Cardinality(Above(Spread))
    BY <2>3, <2>5, <2>6, SpreadIsOne, SpreadIsOneAfter, AboveShrinks DEF Precedes
  <2> QED
    BY <2>2, <2>7, <1>1, <1>4, <1>5 DEF SpreadInv
<1>8. CASE c > Limit
  <2>1. Pending' = Pending
    BY <1>8, <1>1, ClientAssumption DEF Pending, Counts, Limit
  <2>2. \A k \in 0 .. Limit : Spread[k] <= Spread'[k]
    BY <1>8, <1>1, <1>3, ClientAssumption DEF Limit
  <2>3. Cardinality(Above(Spread')) <= Cardinality(Above(Spread))
    BY <2>2, SpreadIsOne, SpreadIsOneAfter, AboveShrinks
  <2> QED
    BY <2>1, <2>3, <1>1, <1>4, <1>5 DEF SpreadInv
<1> QED
  BY <1>1, <1>7, <1>8, ClientAssumption DEF Limit

LEMMA BoundHoldsWithoutErrors ==
    ASSUME FramesOK, errors = 0
    PROVE  SpreadInv
<1>1. Spread \in Spreads /\ Spread \notin Above(Spread)
  <2>1. \A k \in 0 .. Limit : Spread[k] \in Nat
    BY BeyondIsFinite, ClientAssumption, FS_CardinalityType DEF Spread
  <2> QED
    BY <2>1, SpreadIsOne DEF Above, Precedes
<1>2. Above(Spread) \subseteq Spreads
  BY DEF Above
<1>3. Cardinality(Above(Spread)) < Cardinality(Spreads)
  BY <1>1, <1>2, SpreadsAreFinite, FS_Subset, FS_CardinalityType
<1>4. Cardinality(Above(Spread)) \in Nat /\ Cardinality(Spreads) \in Nat /\ Cardinality(Pending) \in Nat
  BY <1>1, AboveShrinks, SpreadsAreFinite, FS_CardinalityType, PendingFits
<1> QED
  BY <1>3, <1>4 DEF SpreadInv

LEMMA BoundHoldsWithoutErrorsAfter == FramesOK' /\ errors' = 0 => SpreadInv'
<1>1. FramesOK /\ errors = 0 => SpreadInv
  BY BoundHoldsWithoutErrors
<1>2. (FramesOK /\ errors = 0 => SpreadInv)'
  BY <1>1, PTL
<1> QED
  BY <1>2

LEMMA ClientInvIsKept ==
    ASSUME ClientInv, [Next]_vars
    PROVE  ClientInv'
<1>1. FramesOK /\ SpreadInv
  BY DEF ClientInv
<1>2. CASE Next
  <2>1. FramesOK' /\ (Quiet \/ Resets \/ \E w \in Workers : Fails(w) \/ Counts(w))
    BY <1>1, <1>2, StepsOfTheClient
  <2>2. CASE Resets
    BY <2>1, <2>2, BoundHoldsWithoutErrorsAfter DEF Resets, ClientInv
  <2> QED
    BY <1>1, <2>1, <2>2, BoundIsKeptWhenQuiet, BoundIsKeptByFailure, BoundIsKeptByCounting DEF ClientInv
<1>3. CASE UNCHANGED vars
  <2>1. FramesOK' /\ Quiet
    BY <1>1, <1>3 DEF vars, client, FramesOK, Quiet
  <2> QED
    BY <1>1, <2>1, BoundIsKeptWhenQuiet DEF ClientInv
<1> QED
  BY <1>2, <1>3

---------------------------------------------------------------------------
(* The theorems *)

\* Every failure of the client is paid for by a step of the spread of the
\* workers, also when counts are lost (CacheClient.cpp:98).
THEOREM ClientInvariant == Spec => []ClientInv
<1>1. Init => ClientInv
  <2>1. Init => FramesOK /\ errors = 0
    BY FramesAtFirst DEF Init
  <2> QED
    BY <2>1, BoundHoldsWithoutErrors DEF ClientInv
<1>2. ClientInv /\ [Next]_vars => ClientInv'
  BY ClientInvIsKept
<1> QED
  BY <1>1, <1>2, PTL DEF Spec

\* A client that always fails is called only so many times in a build, by any
\* number of workers, whatever limit is set.
THEOREM FailingClientIsGivenUp == Spec => []ClientIsGivenUp
<1>1. ClientInv => ClientIsGivenUp
  <2> SUFFICES ASSUME ClientInv PROVE ClientIsGivenUp
    OBVIOUS
  <2>1. FramesOK /\ SpreadInv /\ errors \in Nat
    BY DEF ClientInv, FramesOK
  <2>2. Cardinality(Pending) \in Nat /\ Cardinality(Pending) <= Cardinality(Above(Spread))
    BY <2>1, PendingFits
  <2>3. Cardinality(Above(Spread)) \in Nat /\ Cardinality(Spreads) \in Nat
    BY <2>1, SpreadIsOne, AboveShrinks, SpreadsAreFinite, FS_CardinalityType
  <2> QED
    BY <2>1, <2>2, <2>3 DEF SpreadInv, ClientIsGivenUp
<1> QED
  BY <1>1, ClientInvariant, PTL

\* Whoever else computes a leaf input signature at the same time, the one that
\* others may be reading stays until the build is over.
THEOREM PublishedSignatureStays == Spec => SignatureStays
<1> DEFINE Stays == \A k \in Nodes : phase = "building" /\ leaf[k] # None => leaf'[k] = leaf[k]
<1>1. FramesOK /\ [Next]_vars => Stays
  <2> SUFFICES ASSUME FramesOK, [Next]_vars, phase = "building", NEW k \in Nodes, leaf[k] # None
               PROVE  leaf'[k] = leaf[k]
    OBVIOUS
  <2>1. CASE \E w \in Workers : Publish(w)
    BY <2>1 DEF Publish, Published, FramesOK
  <2>2. ASSUME NEW e \in Environments, StartBuild(e) PROVE FALSE
    BY <2>2 DEF StartBuild
  <2>3. CASE UNCHANGED leaf
    BY <2>3
  <2>4. ASSUME NEW w \in Workers, NEW n \in Nodes, ProcessNode(w, n) \/ CalculateChild(w, n)
        PROVE  UNCHANGED leaf
    BY <2>4 DEF ProcessNode, CalculateChild
  <2>5. ASSUME NEW w \in Workers,
               \/ Lookup(w) \/ CacheHit(w) \/ CacheMiss(w) \/ CacheReadFails(w) \/ CountFailure(w)
               \/ EnqueueDependencies(w) \/ CheckInputSignature(w) \/ DependencyFailed(w)
        PROVE  UNCHANGED leaf
    BY <2>5 DEF Lookup, CacheHit, CacheMiss, CacheReadFails, CountFailure, EnqueueDependencies,
                CheckInputSignature, DependencyFailed
  <2>6. ASSUME NEW w \in Workers,
               \/ RunAction(w) \/ Validate(w) \/ CacheWrite(w) \/ CacheWriteFails(w) \/ GiveUpWriting(w)
        PROVE  UNCHANGED leaf
    BY <2>6 DEF RunAction, Validate, CacheWrite, CacheWriteFails, GiveUpWriting
  <2>7. EndBuild \/ Checkout \/ (\E f \in Files : \E c : Edit(f, c)) => UNCHANGED leaf
    BY DEF EndBuild, Checkout, Edit
  <2>8. CASE UNCHANGED vars
    BY <2>8 DEF vars
  <2> QED
    BY <2>1, <2>2, <2>3, <2>4, <2>5, <2>6, <2>7, <2>8 DEF Next
<1>2. ClientInv => FramesOK
  BY DEF ClientInv
<1> QED
  BY <1>1, <1>2, ClientInvariant, PTL DEF Spec, SignatureStays

---------------------------------------------------------------------------
(* What can be reached *)

\* A closure holds its start, no step leaves it, and it is the least such set.
LEMMA ClosureHolds ==
    ASSUME NEW start, NEW step, NEW all, start \subseteq all, all \subseteq DOMAIN step,
           \A x \in DOMAIN step : step[x] \subseteq all
    PROVE  /\ start \subseteq Closure(start, step) /\ Closure(start, step) \subseteq all
           /\ \A x \in Closure(start, step) : step[x] \subseteq Closure(start, step)
<1> DEFINE named == start \cup UNION {step[x] : x \in DOMAIN step}
<1>1. named \subseteq all /\ named \subseteq DOMAIN step
  OBVIOUS
<1>2. Closure(start, step) = {x \in named : \A s \in SUBSET named :
            start \subseteq s /\ (\A y \in s : step[y] \subseteq s) => x \in s}
  BY DEF Closure
<1>3. start \subseteq Closure(start, step) /\ Closure(start, step) \subseteq all
  BY <1>1, <1>2
<1>4. ASSUME NEW x \in Closure(start, step), NEW y \in step[x]
      PROVE  y \in Closure(start, step)
  <2>1. x \in named /\ x \in DOMAIN step
    BY <1>1, <1>2
  <2>2. y \in named
    BY <1>4, <2>1
  <2>3. ASSUME NEW s \in SUBSET named, start \subseteq s, \A z \in s : step[z] \subseteq s
        PROVE  y \in s
    <3>1. x \in s
      BY <1>2, <2>3
    <3> QED
      BY <1>4, <2>3, <3>1
  <2> QED
    BY <1>2, <2>2, <2>3
<1> QED
  BY <1>3, <1>4

LEMMA ClosureIsLeast ==
    ASSUME NEW start, NEW step, NEW all, start \subseteq all, all \subseteq DOMAIN step,
           \A x \in DOMAIN step : step[x] \subseteq all,
           NEW s, start \subseteq s, \A x \in s \cap Closure(start, step) : step[x] \subseteq s
    PROVE  Closure(start, step) \subseteq s
<1> DEFINE named == start \cup UNION {step[x] : x \in DOMAIN step}
           c == Closure(start, step)
           t == s \cap c
<1>1. c = {x \in named : \A r \in SUBSET named :
            start \subseteq r /\ (\A y \in r : step[y] \subseteq r) => x \in r}
  BY DEF Closure
<1>2. start \subseteq c /\ \A x \in c : step[x] \subseteq c
  BY ClosureHolds
<1>3. t \in SUBSET named /\ start \subseteq t
  BY <1>1, <1>2
<1>4. \A y \in t : step[y] \subseteq t
  BY <1>2
<1> HIDE DEF named, c, t
<1>5. c \subseteq t
  BY <1>1, <1>3, <1>4
<1> QED
  BY <1>5 DEF c, t

\* What is reached depends on the steps of what is reached only.
LEMMA ClosureAgrees ==
    ASSUME NEW start, NEW step, NEW other, NEW all, start \subseteq all, all \subseteq DOMAIN step,
           DOMAIN other = DOMAIN step,
           \A x \in DOMAIN step : step[x] \subseteq all /\ other[x] \subseteq all,
           \A x \in Closure(start, step) : other[x] = step[x]
    PROVE  Closure(start, other) = Closure(start, step)
<1> DEFINE c == Closure(start, step)
           d == Closure(start, other)
<1>1. start \subseteq c /\ \A x \in c : step[x] \subseteq c
  BY ClosureHolds
<1>2. start \subseteq d /\ \A x \in d : other[x] \subseteq d
  BY ClosureHolds
<1>3. d \subseteq c
  <2>1. \A x \in c \cap d : other[x] \subseteq c
    BY <1>1
  <2> HIDE DEF c
  <2> QED
    BY <1>1, <2>1, ClosureIsLeast
<1>4. c \subseteq d
  <2>1. \A x \in d \cap c : step[x] \subseteq d
    BY <1>2
  <2> HIDE DEF d
  <2> QED
    BY <1>2, <2>1, ClosureIsLeast
<1> QED
  BY <1>3, <1>4

---------------------------------------------------------------------------
(* The graph *)

Within(n) == [d \in Nodes |-> IF d = n \/ d \notin Cacheable THEN Deps[d] ELSE {}]
AllBelow(n) == Closure({n}, Deps)

LEMMA Graph ==
    /\ IsFiniteSet(Nodes) /\ "none" \notin Nodes /\ Nodes \cap Files = {}
    /\ \A n \in Nodes : Deps[n] \subseteq Nodes /\ Inputs[n] \subseteq Files
    /\ DOMAIN Deps = Nodes
    /\ Cacheable \subseteq Nodes /\ Scanning \subseteq Nodes /\ Requested \subseteq Nodes
BY GraphAssumption

LEMMA BelowHolds ==
    ASSUME NEW n \in Nodes
    PROVE  /\ Below[n] \subseteq Nodes /\ n \in Below[n]
           /\ \A d \in Below[n] : d = n \/ d \notin Cacheable => Deps[d] \subseteq Below[n]
<1>1. Below[n] = Closure({n}, Within(n))
  BY DEF Below, Within
<1>2. DOMAIN Within(n) = Nodes /\ \A d \in Nodes : Within(n)[d] \subseteq Nodes
  BY Graph DEF Within
<1> DEFINE w == Within(n)
<1>3. DOMAIN w = Nodes /\ \A d \in Nodes : w[d] \subseteq Nodes
  BY <1>2
<1> HIDE DEF w
<1>4. {n} \subseteq Closure({n}, w) /\ Closure({n}, w) \subseteq Nodes
      /\ \A d \in Closure({n}, w) : w[d] \subseteq Closure({n}, w)
  BY <1>3, ClosureHolds
<1> QED
  BY <1>1, <1>4 DEF w, Within

LEMMA BelowIsLeast ==
    ASSUME NEW n \in Nodes, NEW s, n \in s,
           \A d \in s \cap Below[n] : d = n \/ d \notin Cacheable => Deps[d] \subseteq s
    PROVE  Below[n] \subseteq s
<1> DEFINE w == Within(n)
<1>1. Below[n] = Closure({n}, w)
  BY DEF Below, Within
<1>2. DOMAIN w = Nodes /\ \A d \in Nodes : w[d] \subseteq Nodes
  BY Graph DEF Within
<1>3. Below[n] \subseteq Nodes
  BY BelowHolds
<1>4. \A d \in s \cap Below[n] : w[d] \subseteq s
  BY <1>3 DEF Within
<1> HIDE DEF w
<1>5. {n} \subseteq Nodes /\ Nodes \subseteq DOMAIN w /\ {n} \subseteq s
  BY <1>2
<1>6. \A d \in s \cap Closure({n}, w) : w[d] \subseteq s
  BY <1>1, <1>4
<1>7. Closure({n}, w) \subseteq s
  BY <1>2, <1>5, <1>6, ClosureIsLeast
<1> QED
  BY <1>1, <1>7

LEMMA AllBelowHolds ==
    ASSUME NEW n \in Nodes
    PROVE  /\ AllBelow(n) \subseteq Nodes /\ n \in AllBelow(n)
           /\ \A d \in AllBelow(n) : Deps[d] \subseteq AllBelow(n)
<1>1. {n} \subseteq Nodes /\ Nodes \subseteq DOMAIN Deps /\ \A d \in DOMAIN Deps : Deps[d] \subseteq Nodes
  BY Graph
<1>2. /\ {n} \subseteq Closure({n}, Deps) /\ Closure({n}, Deps) \subseteq Nodes
      /\ \A x \in Closure({n}, Deps) : Deps[x] \subseteq Closure({n}, Deps)
  BY <1>1, ClosureHolds
<1> QED
  BY <1>2 DEF AllBelow

LEMMA AllBelowIsLeast ==
    ASSUME NEW n \in Nodes, NEW s, n \in s, \A d \in s \cap AllBelow(n) : Deps[d] \subseteq s
    PROVE  AllBelow(n) \subseteq s
<1>1. {n} \subseteq Nodes /\ Nodes \subseteq DOMAIN Deps /\ \A d \in DOMAIN Deps : Deps[d] \subseteq Nodes
  BY Graph
<1> QED
  BY <1>1, ClosureIsLeast DEF AllBelow

\* Among any nodes there is one that has none of the others below it.
LEMMA LowestNode ==
    ASSUME NEW ns \in SUBSET Nodes, ns # {}
    PROVE  \E n \in ns : \A d \in Below[n] \ {n} : d \notin ns
<1> DEFINE above == {m \in Nodes : AllBelow(m) \cap ns # {}}
<1>1. above # {}
  BY AllBelowHolds
<1>2. PICK n \in above : Deps[n] \cap above = {}
  <2>1. above \in SUBSET Nodes
    OBVIOUS
  <2> HIDE DEF above
  <2> QED
    BY <1>1, <2>1, GraphAssumption
<1> DEFINE reached == {n} \cup UNION {AllBelow(d) : d \in Deps[n]}
<1>3. \A d \in Deps[n] : d \in Nodes /\ AllBelow(d) \cap ns = {}
  BY <1>2, Graph
<1>4. AllBelow(n) \subseteq reached
  <2>1. ASSUME NEW d \in reached \cap AllBelow(n) PROVE Deps[d] \subseteq reached
    <3>1. CASE d = n
      BY <1>3, <3>1, AllBelowHolds
    <3>2. CASE d # n
      <4>1. PICK e \in Deps[n] : d \in AllBelow(e)
        BY <3>2
      <4>2. Deps[d] \subseteq AllBelow(e)
        BY <1>3, <4>1, AllBelowHolds
      <4> QED
        BY <4>2
    <3> QED
      BY <3>1, <3>2
  <2>2. n \in Nodes /\ n \in reached
    OBVIOUS
  <2> HIDE DEF reached
  <2> QED
    BY <2>1, <2>2, AllBelowIsLeast
<1>5. n \in ns /\ \A d \in AllBelow(n) : d # n => d \notin ns
  BY <1>3, <1>4
<1>6. Below[n] \subseteq AllBelow(n)
  BY AllBelowHolds, BelowIsLeast
<1> QED
  BY <1>5, <1>6

LEMMA DepsAreBelow ==
    ASSUME NEW n \in Nodes
    PROVE  Deps[n] \subseteq Below[n] \ {n}
<1>1. Deps[n] \subseteq Below[n]
  BY BelowHolds
<1>2. Deps[n] \cap {n} = {}
  BY GraphAssumption
<1> QED
  BY <1>1, <1>2

---------------------------------------------------------------------------
(* What a build from nothing leaves, and the signatures of a world, are    *)
(* defined along the graph                                                 *)

\* F[k, g] is a value for k, and of g only what is below k matters to it.
GoesDown(F, V) ==
    \A k \in Nodes :
        /\ \A g \in [Nodes -> V] : F[<<k, g>>] \in V
        /\ \A g, h \in [Nodes -> V] : (\A d \in Below[k] \ {k} : g[d] = h[d]) => F[<<k, g>>] = F[<<k, h>>]
Solution(F, V) == {g \in [Nodes -> V] : \A k \in Nodes : g[k] = F[<<k, g>>]}

LEMMA RecursionIsDefined ==
    ASSUME NEW V, NEW F, V # {}, GoesDown(F, V)
    PROVE  Solution(F, V) # {}
<1>0. PICK base : base \in V
  OBVIOUS
<1> DEFINE Done(ns, g) == \A k \in ns : Below[k] \subseteq ns /\ g[k] = F[<<k, g>>]
           left == {m \in SUBSET Nodes : \E g \in [Nodes -> V] : Done(Nodes \ m, g)}
<1>1. left \subseteq SUBSET Nodes /\ left # {}
  <2>1. [n \in Nodes |-> base] \in [Nodes -> V]
    BY <1>0
  <2>2. Nodes \in left
    BY <2>1
  <2> QED
    BY <2>2
<1>2. PICK m \in left : \A r \in left : ~(<<r, m>> \in StrictSubsetOrdering(Nodes))
  <2>1. IsWellFoundedOn(StrictSubsetOrdering(Nodes), SUBSET Nodes)
    <3>1. IsWellFoundedOn(StrictSubsetOrdering(Nodes), FiniteSubsetsOf(Nodes))
      BY FS_StrictSubsetOrderingWellFounded
    <3>2. FiniteSubsetsOf(Nodes) = SUBSET Nodes
      BY Graph, FS_FiniteSubsetsOfFinite
    <3> QED
      BY <3>1, <3>2
  <2> HIDE DEF left
  <2> QED
    BY <1>1, <2>1, WFMin
<1>3. PICK g \in [Nodes -> V] : Done(Nodes \ m, g)
  OBVIOUS
<1>4. ASSUME m # {} PROVE FALSE
  <2>1. PICK k \in m : \A d \in Below[k] \ {k} : d \notin m
    BY <1>4, LowestNode
  <2> DEFINE h == [g EXCEPT ![k] = F[<<k, g>>]]
  <2>2. h \in [Nodes -> V] /\ h[k] = F[<<k, g>>] /\ \A d \in Nodes \ {k} : h[d] = g[d]
    BY DEF GoesDown
  <2> HIDE DEF h
  <2>3. Done(Nodes \ (m \ {k}), h)
    <3>1. ASSUME NEW j \in Nodes \ m PROVE Below[j] \subseteq Nodes \ (m \ {k}) /\ h[j] = F[<<j, h>>]
      <4>1. Below[j] \subseteq Nodes \ m /\ g[j] = F[<<j, g>>] /\ j \in Nodes /\ j # k
        BY <1>3, <3>1, <2>1
      <4>2. \A d \in Below[j] \ {j} : g[d] = h[d]
        BY <2>1, <2>2, <4>1
      <4>3. F[<<j, g>>] = F[<<j, h>>]
        BY <2>2, <4>1, <4>2 DEF GoesDown
      <4> QED
        BY <2>2, <4>1, <4>3
    <3>2. Below[k] \subseteq Nodes \ (m \ {k}) /\ h[k] = F[<<k, h>>]
      <4>1. k \in Nodes /\ Below[k] \subseteq Nodes
        BY <2>1, BelowHolds
      <4>2. \A d \in Below[k] \ {k} : g[d] = h[d]
        BY <2>2, <4>1
      <4>3. F[<<k, g>>] = F[<<k, h>>]
        BY <2>2, <4>1, <4>2 DEF GoesDown
      <4> QED
        BY <2>1, <2>2, <4>1, <4>3
    <3> QED
      BY <3>1, <3>2
  <2>4. m \ {k} \in left
    BY <2>2, <2>3
  <2>5. <<m \ {k}, m>> \in StrictSubsetOrdering(Nodes)
    BY <2>1 DEF StrictSubsetOrdering
  <2> QED
    BY <1>2, <2>4, <2>5
<1>5. Done(Nodes, g)
  BY <1>3, <1>4
<1> QED
  BY <1>5 DEF Solution

LEMMA WorldFacts ==
    ASSUME NEW v \in Worlds
    PROVE  /\ v = [f \in Files |-> v[f]]
           /\ \A f \in Files : v[f] \in ToSet(Contents[f]) /\ v[f] \in AllTexts
           /\ \A n \in Nodes : Texts(Inputs[n], v) \subseteq Texts(Files, v)
           /\ Texts(Files, v) \subseteq AllTexts
<1>1. v \in [Files -> AllTexts] /\ \A f \in Files : v[f] \in ToSet(Contents[f])
  BY DEF Worlds, AllTexts
<1> QED
  BY <1>1, Graph DEF Texts

\* A text is found in one file only.
LEMMA TextIsOfOneFile ==
    ASSUME NEW v \in Worlds, NEW w \in Worlds, NEW f \in Files, w[f] \in Texts(Files, v)
    PROVE  v[f] = w[f]
<1>1. PICK g \in Files : w[f] = v[g]
  BY DEF Texts
<1>2. w[f] \in ToSet(Contents[f]) /\ w[f] \in ToSet(Contents[g])
  BY <1>1, WorldFacts
<1>3. f = g
  BY <1>2, TextAssumption
<1> QED
  BY <1>1, <1>3

Outputs == [Nodes -> SUBSET AllTexts]

LEMMA ScanFindsFiles ==
    ASSUME NEW n, NEW v, NEW g
    PROVE  NormalScan(n, v, g) \subseteq Files
BY DEF NormalScan

LEMMA ProducedAreTexts ==
    ASSUME NEW n \in Nodes, NEW v \in Worlds, NEW g \in Outputs
    PROVE  Produced(n, v, g) \in SUBSET AllTexts
<1>1. Inputs[n] \cup NormalScan(n, v, g) \subseteq Files
  BY Graph, ScanFindsFiles
<1>2. Texts(Inputs[n] \cup NormalScan(n, v, g), v) \subseteq AllTexts
  BY <1>1, WorldFacts DEF Texts
<1>3. \A d \in Deps[n] : g[d] \subseteq AllTexts
  BY Graph DEF Outputs
<1> QED
  BY <1>2, <1>3 DEF Produced

LEMMA CleanIsProduced ==
    ASSUME NEW v \in Worlds
    PROVE  /\ Clean(v) \in Outputs
           /\ \A n \in Nodes : Clean(v)[n] = Produced(n, v, BuiltBelow(n, Clean(v)))
<1> DEFINE F == [x \in Nodes \X Outputs |-> Produced(x[1], v, BuiltBelow(x[1], x[2]))]
           V == SUBSET AllTexts
           P(outs) == outs = [k \in Nodes |-> Produced(k, v, BuiltBelow(k, outs))]
<1>1. \A k \in Nodes : \A g \in Outputs : F[<<k, g>>] = Produced(k, v, BuiltBelow(k, g))
  OBVIOUS
<1>2. \A k \in Nodes : \A g \in Outputs : BuiltBelow(k, g) \in Outputs
  BY DEF BuiltBelow, Outputs
<1>3. \A k \in Nodes : \A g \in Outputs : F[<<k, g>>] \in V
  BY <1>1, <1>2, ProducedAreTexts
<1>4. ASSUME NEW k \in Nodes, NEW g \in Outputs, NEW h \in Outputs, \A d \in Below[k] \ {k} : g[d] = h[d]
      PROVE  F[<<k, g>>] = F[<<k, h>>]
  <2>1. BuiltBelow(k, g) = BuiltBelow(k, h)
    BY <1>4 DEF BuiltBelow
  <2> QED
    BY <1>1, <2>1
<1>5. {} \in V
  OBVIOUS
<1> HIDE DEF F
<1>6. GoesDown(F, V)
  BY <1>3, <1>4 DEF Outputs, GoesDown
<1>7. PICK g \in Outputs : \A k \in Nodes : g[k] = F[<<k, g>>]
  <2>1. V # {}
    BY <1>5
  <2> HIDE DEF V
  <2>2. Solution(F, V) # {}
    BY <1>6, <2>1, RecursionIsDefined
  <2> QED
    BY <2>2 DEF Solution, V, Outputs
<1>8. P(g)
  <2>1. g = [k \in Nodes |-> g[k]]
    BY DEF Outputs
  <2> QED
    BY <1>1, <1>7, <2>1
<1> DEFINE o == CHOOSE outs : P(outs)
<1>9. P(o)
  <2> HIDE DEF P
  <2> QED
    BY <1>8
<1>10. Clean(v) = [n \in Nodes |-> o[n]]
  BY DEF Clean
<1> HIDE DEF o
<1>11. Clean(v) = o /\ \A n \in Nodes : o[n] = Produced(n, v, BuiltBelow(n, o))
  BY <1>9, <1>10
<1>12. o \in Outputs
  <2> DEFINE C(k) == o[k] \in SUBSET AllTexts
             bad == {k \in Nodes : ~C(k)}
  <2>1. SUFFICES ASSUME bad # {} PROVE FALSE
    BY <1>9 DEF Outputs
  <2>2. PICK n \in bad : \A d \in Below[n] \ {n} : d \notin bad
    BY <2>1, LowestNode
  <2>3. BuiltBelow(n, o) \in Outputs
    BY <2>2, BelowHolds DEF BuiltBelow, Outputs
  <2> QED
    BY <1>11, <2>2, <2>3, ProducedAreTexts
<1> QED
  BY <1>11, <1>12

---------------------------------------------------------------------------
(* Scans *)

Visible(view) == [x \in Files |-> Includes[view[x]] \cap Files]
Named(view, outs) ==
    [x \in Files \cup Nodes |->
        IF x \in Files THEN Includes[view[x]] ELSE UNION {HeaderIncludes[t] : t \in outs[x]}]
Reached(n, view, outs) == Closure(UNION {Named(view, outs)[f] : f \in Inputs[n]}, Named(view, outs))

\* What a scan of the node could reach, whatever is in the files.
MayBeNamed ==
    [x \in Files \cup Nodes |->
        IF x \in Files THEN UNION {Includes[c] : c \in ToSet(Contents[x])}
        ELSE UNION {HeaderIncludes[c] : c \in AllTexts}]
MayReach(n) == Closure(Inputs[n], MayBeNamed)
\* The generated headers a node may include are made by nodes that are below it
\* and that are there when it runs.
HeadersAreBelow == \A n \in Scanning : MayReach(n) \cap Nodes \subseteq Below[n] \ {n}

LEMMA TextsNameThings ==
    /\ \A t \in AllTexts : Includes[t] \subseteq Files \cup Nodes /\ HeaderIncludes[t] \subseteq Files \cup Nodes
    /\ \A f \in Files : ToSet(Contents[f]) \subseteq AllTexts
BY TextAssumption DEF AllTexts

LEMMA VisibleFiles ==
    ASSUME NEW v \in Worlds, NEW starts, starts \subseteq Files
    PROVE  /\ DOMAIN Visible(v) = Files /\ \A x \in Files : Visible(v)[x] \subseteq Files
           /\ UNION {Visible(v)[f] : f \in starts} \subseteq Files
           /\ LeafScan(starts, v) = Closure(UNION {Visible(v)[f] : f \in starts}, Visible(v))
BY DEF Visible, LeafScan

LEMMA LeafScanHolds ==
    ASSUME NEW v \in Worlds, NEW starts, starts \subseteq Files
    PROVE  LeafScan(starts, v) \subseteq Files
<1> DEFINE step == Visible(v)
           start == UNION {step[f] : f \in starts}
<1>1. DOMAIN step = Files /\ (\A x \in Files : step[x] \subseteq Files) /\ start \subseteq Files
      /\ LeafScan(starts, v) = Closure(start, step)
  BY VisibleFiles
<1> HIDE DEF step, start
<1>2. Files \subseteq DOMAIN step /\ \A x \in DOMAIN step : step[x] \subseteq Files
  BY <1>1
<1>3. Closure(start, step) \subseteq Files
  BY <1>1, <1>2, ClosureHolds
<1> QED
  BY <1>1, <1>3

LEMMA LeafScanAgrees ==
    ASSUME NEW v \in Worlds, NEW w \in Worlds, NEW starts, starts \subseteq Files,
           \A f \in starts \cup LeafScan(starts, v) : w[f] = v[f]
    PROVE  LeafScan(starts, w) = LeafScan(starts, v)
<1> DEFINE step == Visible(v)
           other == Visible(w)
           start == UNION {step[f] : f \in starts}
<1>1. DOMAIN step = Files /\ (\A x \in Files : step[x] \subseteq Files) /\ start \subseteq Files
      /\ LeafScan(starts, v) = Closure(start, step)
  BY VisibleFiles
<1>2. DOMAIN other = Files /\ (\A x \in Files : other[x] \subseteq Files)
      /\ LeafScan(starts, w) = Closure(UNION {other[f] : f \in starts}, other)
  BY VisibleFiles
<1>3. UNION {other[f] : f \in starts} = start
  BY DEF Visible
<1>4. \A x \in Closure(start, step) : other[x] = step[x]
  BY <1>1, LeafScanHolds DEF Visible
<1> HIDE DEF step, other, start
<1>5. Closure(start, other) = Closure(start, step)
  <2>1. start \subseteq Files /\ Files \subseteq DOMAIN step /\ DOMAIN other = DOMAIN step
        /\ \A x \in DOMAIN step : step[x] \subseteq Files /\ other[x] \subseteq Files
    BY <1>1, <1>2
  <2> QED
    BY <1>4, <2>1, ClosureAgrees
<1> QED
  BY <1>1, <1>2, <1>3, <1>5

LEMMA NamedThings ==
    ASSUME NEW v \in Worlds, NEW g \in Outputs
    PROVE  /\ \A f \in Files : Named(v, g)[f] = Includes[v[f]]
           /\ \A d \in Nodes : Named(v, g)[d] = UNION {HeaderIncludes[t] : t \in g[d]}
BY Graph DEF Named

LEMMA NamedSteps ==
    ASSUME NEW v \in Worlds, NEW g \in Outputs
    PROVE  /\ DOMAIN Named(v, g) = Files \cup Nodes
           /\ \A x \in Files \cup Nodes : Named(v, g)[x] \subseteq Files \cup Nodes
<1>1. \A f \in Files : Named(v, g)[f] \subseteq Files \cup Nodes
  BY NamedThings, WorldFacts, TextsNameThings
<1>2. ASSUME NEW d \in Nodes PROVE Named(v, g)[d] \subseteq Files \cup Nodes
  <2>1. g[d] \subseteq AllTexts
    BY DEF Outputs
  <2>2. UNION {HeaderIncludes[t] : t \in g[d]} \subseteq Files \cup Nodes
    BY <2>1, TextsNameThings
  <2> QED
    BY <2>2, NamedThings
<1>3. DOMAIN Named(v, g) = Files \cup Nodes
  BY DEF Named
<1> QED
  BY <1>1, <1>2, <1>3

LEMMA ReachedHolds ==
    ASSUME NEW n \in Nodes, NEW v \in Worlds, NEW g \in Outputs
    PROVE  /\ Reached(n, v, g) \subseteq Files \cup Nodes
           /\ \A f \in Inputs[n] : Named(v, g)[f] \subseteq Reached(n, v, g)
           /\ \A x \in Reached(n, v, g) : Named(v, g)[x] \subseteq Reached(n, v, g)
           /\ n \in Scanning => NormalScan(n, v, g) = Reached(n, v, g) \cap Files
<1> DEFINE step == Named(v, g)
           start == UNION {step[f] : f \in Inputs[n]}
           all == Files \cup Nodes
<1>1. start \subseteq all /\ DOMAIN step = all /\ \A x \in all : step[x] \subseteq all
  <2>1. DOMAIN step = all /\ \A x \in all : step[x] \subseteq all
    BY NamedSteps
  <2> HIDE DEF step
  <2> QED
    BY <2>1, Graph
<1>2. n \in Scanning => NormalScan(n, v, g) = Reached(n, v, g) \cap Files
  BY DEF NormalScan, Reached, Named
<1>3. Reached(n, v, g) = Closure(start, step) /\ \A f \in Inputs[n] : step[f] \subseteq start
  BY DEF Reached
<1> HIDE DEF step, start, all
<1>4. /\ start \subseteq Closure(start, step) /\ Closure(start, step) \subseteq all
      /\ \A x \in Closure(start, step) : step[x] \subseteq Closure(start, step)
  BY <1>1, ClosureHolds
<1>5. /\ Reached(n, v, g) \subseteq all
      /\ \A f \in Inputs[n] : step[f] \subseteq Reached(n, v, g)
      /\ \A x \in Reached(n, v, g) : step[x] \subseteq Reached(n, v, g)
  BY <1>3, <1>4
<1> QED
  BY <1>2, <1>5 DEF step, all

LEMMA ReachedMayBeReached ==
    ASSUME NEW n \in Nodes, NEW v \in Worlds, NEW g \in Outputs
    PROVE  Reached(n, v, g) \subseteq MayReach(n)
<1> DEFINE step == Named(v, g)
           start == UNION {step[f] : f \in Inputs[n]}
           all == Files \cup Nodes
<1>1. Inputs[n] \subseteq all /\ DOMAIN MayBeNamed = all /\ \A x \in all : MayBeNamed[x] \subseteq all
  <2>1. Inputs[n] \subseteq all /\ DOMAIN MayBeNamed = all
    BY Graph DEF MayBeNamed
  <2>2. ASSUME NEW x \in Files PROVE MayBeNamed[x] \subseteq all
    BY TextsNameThings DEF MayBeNamed
  <2>3. ASSUME NEW x \in Nodes PROVE MayBeNamed[x] \subseteq all
    BY Graph, TextsNameThings DEF MayBeNamed
  <2> QED
    BY <2>1, <2>2, <2>3
<1>2. /\ Inputs[n] \subseteq MayReach(n)
      /\ \A x \in MayReach(n) : MayBeNamed[x] \subseteq MayReach(n)
      /\ MayReach(n) \subseteq all
  <2> HIDE DEF all
  <2> QED
    BY <1>1, ClosureHolds DEF MayReach
<1>3. ASSUME NEW x \in all PROVE step[x] \subseteq MayBeNamed[x]
  <2>1. CASE x \in Files
    BY <2>1, NamedThings, WorldFacts DEF MayBeNamed
  <2>2. CASE x \in Nodes
    <3>1. x \notin Files /\ g[x] \subseteq AllTexts
      BY <2>2, Graph DEF Outputs
    <3> QED
      BY <2>2, <3>1, NamedThings DEF MayBeNamed
  <2> QED
    BY <2>1, <2>2
<1>4. start \subseteq MayReach(n)
  BY <1>2, <1>3
<1>5. \A x \in MayReach(n) : step[x] \subseteq MayReach(n)
  BY <1>2, <1>3
<1>6. start \subseteq all /\ DOMAIN step = all /\ \A x \in all : step[x] \subseteq all
  <2>1. DOMAIN step = all /\ \A x \in all : step[x] \subseteq all
    BY NamedSteps
  <2> HIDE DEF step
  <2> QED
    BY <2>1, Graph
<1>7. Reached(n, v, g) = Closure(start, step)
  BY DEF Reached
<1> HIDE DEF step, start, all
<1>8. all \subseteq DOMAIN step /\ \A x \in DOMAIN step : step[x] \subseteq all
  BY <1>6
<1>9. \A x \in MayReach(n) \cap Closure(start, step) : step[x] \subseteq MayReach(n)
  BY <1>5
<1>10. Closure(start, step) \subseteq MayReach(n)
  BY <1>4, <1>6, <1>8, <1>9, ClosureIsLeast
<1> QED
  BY <1>7, <1>10

\* A scan depends on the files it reads and on what nodes below have made.
LEMMA NormalScanAgrees ==
    ASSUME HeadersAreBelow, NEW n \in Nodes, NEW v \in Worlds, NEW w \in Worlds,
           NEW g \in Outputs, NEW h \in Outputs,
           \A d \in Below[n] \ {n} : h[d] = g[d],
           \A f \in Inputs[n] \cup NormalScan(n, v, g) : w[f] = v[f]
    PROVE  NormalScan(n, w, h) = NormalScan(n, v, g)
<1>0. CASE n \notin Scanning
  BY <1>0 DEF NormalScan
<1>1. CASE n \in Scanning
  <2> DEFINE step == Named(v, g)
             other == Named(w, h)
             start == UNION {step[f] : f \in Inputs[n]}
             all == Files \cup Nodes
  <2>1. Inputs[n] \subseteq Files
    BY Graph
  <2>2. start \subseteq all /\ DOMAIN step = all /\ \A x \in all : step[x] \subseteq all
    <3>1. DOMAIN step = all /\ \A x \in all : step[x] \subseteq all
      BY NamedSteps
    <3> HIDE DEF step
    <3> QED
      BY <3>1, Graph
  <2>3. DOMAIN other = all /\ \A x \in all : other[x] \subseteq all
    BY NamedSteps
  <2>4. \A f \in Inputs[n] : other[f] = step[f]
    BY <2>1, NamedThings
  <2>5. UNION {other[f] : f \in Inputs[n]} = start
    BY <2>4
  <2>6. ASSUME NEW x \in Reached(n, v, g) PROVE other[x] = step[x]
    <3>1. x \in Files \cup Nodes
      BY ReachedHolds
    <3>2. CASE x \in Files
      <4>1. x \in NormalScan(n, v, g)
        BY <1>1, <3>2, ReachedHolds
      <4> QED
        BY <3>2, <4>1, NamedThings
    <3>3. CASE x \in Nodes
      <4>1. x \in Below[n] \ {n}
        BY <1>1, <3>3, ReachedMayBeReached DEF HeadersAreBelow
      <4>2. h[x] = g[x]
        BY <4>1
      <4>3. step[x] = UNION {HeaderIncludes[t] : t \in g[x]}
        BY <3>3, NamedThings
      <4>4. other[x] = UNION {HeaderIncludes[t] : t \in h[x]}
        BY <3>3, NamedThings
      <4> QED
        BY <4>2, <4>3, <4>4
    <3> QED
      BY <3>1, <3>2, <3>3
  <2>7. Reached(n, v, g) = Closure(start, step) /\ Reached(n, w, h) = Closure(UNION {other[f] : f \in Inputs[n]}, other)
    BY DEF Reached
  <2> HIDE DEF step, other, start, all
  <2>8. Closure(start, other) = Closure(start, step)
    <3>1. \A x \in Closure(start, step) : other[x] = step[x]
      BY <2>6, <2>7
    <3>2. all \subseteq DOMAIN step /\ DOMAIN other = DOMAIN step
          /\ \A x \in DOMAIN step : step[x] \subseteq all /\ other[x] \subseteq all
      BY <2>2, <2>3
    <3> QED
      BY <2>2, <3>1, <3>2, ClosureAgrees
  <2>9. Reached(n, w, h) = Reached(n, v, g)
    BY <2>5, <2>7, <2>8
  <2> QED
    BY <1>1, <2>9, ReachedHolds
<1> QED
  BY <1>0, <1>1

---------------------------------------------------------------------------
(* What a build from nothing leaves *)

CleanScan(n, v) == NormalScan(n, v, Clean(v))

\* What a node makes depends on the files it reads and on what is below it.
LEMMA ProducedAgrees ==
    ASSUME HeadersAreBelow, NEW n \in Nodes, NEW v \in Worlds, NEW w \in Worlds,
           NEW g \in Outputs, NEW h \in Outputs,
           \A d \in Below[n] \ {n} : h[d] = g[d],
           \A f \in Inputs[n] \cup NormalScan(n, v, g) : w[f] = v[f]
    PROVE  NormalScan(n, w, h) = NormalScan(n, v, g) /\ Produced(n, w, h) = Produced(n, v, g)
<1>1. NormalScan(n, w, h) = NormalScan(n, v, g)
  BY NormalScanAgrees
<1>2. \A d \in Deps[n] : h[d] = g[d]
  BY DepsAreBelow
<1>3. UNION {h[d] : d \in Deps[n]} = UNION {g[d] : d \in Deps[n]}
  BY <1>2
<1> DEFINE files == Inputs[n] \cup NormalScan(n, v, g)
<1>4. Texts(files, w) = Texts(files, v)
  BY DEF Texts
<1> HIDE DEF files
<1>5. Produced(n, w, h) = Texts(files, w) \cup UNION {h[d] : d \in Deps[n]}
  BY <1>1 DEF Produced, files
<1>6. Produced(n, v, g) = Texts(files, v) \cup UNION {g[d] : d \in Deps[n]}
  BY DEF Produced, files
<1> QED
  BY <1>1, <1>3, <1>4, <1>5, <1>6

LEMMA CleanIs ==
    ASSUME HeadersAreBelow, NEW v \in Worlds, NEW n \in Nodes
    PROVE  /\ Clean(v)[n] = Produced(n, v, Clean(v))
           /\ Clean(v)[n] = Texts(Inputs[n] \cup CleanScan(n, v), v) \cup UNION {Clean(v)[d] : d \in Deps[n]}
<1> DEFINE c == Clean(v)
           b == BuiltBelow(n, c)
<1>1. c \in Outputs /\ c[n] = Produced(n, v, b)
  BY CleanIsProduced
<1>2. b \in Outputs /\ \A d \in Below[n] \ {n} : c[d] = b[d]
  BY <1>1, BelowHolds DEF BuiltBelow, Outputs
<1> HIDE DEF b, c
<1>3. \A f \in Inputs[n] \cup NormalScan(n, v, b) : v[f] = v[f]
  OBVIOUS
<1>4. Produced(n, v, c) = Produced(n, v, b)
  BY <1>1, <1>2, <1>3, ProducedAgrees
<1> QED
  BY <1>1, <1>4 DEF c, Produced, CleanScan

LEMMA CleanIsOfTheWorld ==
    ASSUME HeadersAreBelow, NEW v \in Worlds, NEW n \in Nodes
    PROVE  /\ Clean(v)[n] \subseteq Texts(Files, v)
           /\ \A d \in Deps[n] : Clean(v)[d] \subseteq Clean(v)[n]
           /\ \A f \in Inputs[n] \cup CleanScan(n, v) : f \in Files /\ v[f] \in Clean(v)[n]
<1>1. \A m \in Nodes : Clean(v)[m] = Texts(Inputs[m] \cup CleanScan(m, v), v) \cup UNION {Clean(v)[d] : d \in Deps[m]}
  BY CleanIs
<1>2. \A m \in Nodes : Inputs[m] \cup CleanScan(m, v) \subseteq Files
  BY Graph, ScanFindsFiles DEF CleanScan
<1> DEFINE C(m) == Clean(v)[m] \subseteq Texts(Files, v)
           bad == {m \in Nodes : ~C(m)}
<1>3. ASSUME bad # {} PROVE FALSE
  <2>1. PICK m \in bad : \A d \in Below[m] \ {m} : d \notin bad
    BY <1>3, LowestNode
  <2>2. \A d \in Deps[m] : C(d)
    BY <2>1, DepsAreBelow, Graph
  <2>3. Texts(Inputs[m] \cup CleanScan(m, v), v) \subseteq Texts(Files, v)
    BY <1>2, <2>1 DEF Texts
  <2>4. Clean(v)[m] = Texts(Inputs[m] \cup CleanScan(m, v), v) \cup UNION {Clean(v)[d] : d \in Deps[m]}
    BY <1>1, <2>1
  <2>5. C(m)
    BY <2>2, <2>3, <2>4
  <2> QED
    BY <2>1, <2>5
<1>4. C(n)
  BY <1>3
<1>5. \A f \in Inputs[n] \cup CleanScan(n, v) : v[f] \in Texts(Inputs[n] \cup CleanScan(n, v), v)
  BY DEF Texts
<1>6. Clean(v)[n] = Texts(Inputs[n] \cup CleanScan(n, v), v) \cup UNION {Clean(v)[d] : d \in Deps[n]}
  BY <1>1
<1> QED
  BY <1>2, <1>4, <1>5, <1>6

\* Nothing that is below a node is missing in it.
LEMMA CleanGrows ==
    ASSUME HeadersAreBelow, NEW v \in Worlds, NEW n \in Nodes, NEW d \in Below[n]
    PROVE  d \in Nodes /\ Clean(v)[d] \subseteq Clean(v)[n]
<1> DEFINE s == {m \in Nodes : Clean(v)[m] \subseteq Clean(v)[n]}
<1>1. n \in s
  OBVIOUS
<1>2. ASSUME NEW m \in s \cap Below[n] PROVE Deps[m] \subseteq s
  <2>1. \A k \in Deps[m] : k \in Nodes /\ Clean(v)[k] \subseteq Clean(v)[m]
    BY <1>2, CleanIsOfTheWorld, Graph
  <2> QED
    BY <1>2, <2>1
<1> HIDE DEF s
<1>3. Below[n] \subseteq s
  BY <1>1, <1>2, BelowIsLeast
<1> QED
  BY <1>3 DEF s

\* A world that has all that is in an output leads to the same output.
LEMMA CleanIsKnownByItsTexts ==
    ASSUME HeadersAreBelow, NEW v \in Worlds, NEW w \in Worlds, NEW n \in Nodes,
           Clean(v)[n] \subseteq Texts(Files, w)
    PROVE  Clean(w)[n] = Clean(v)[n] /\ CleanScan(n, w) = CleanScan(n, v)
<1> DEFINE Known(m) == Clean(v)[m] \subseteq Texts(Files, w)
           Same(m) == Clean(w)[m] = Clean(v)[m] /\ CleanScan(m, w) = CleanScan(m, v)
           bad == {m \in Nodes : Known(m) /\ ~Same(m)}
<1>1. ASSUME bad # {} PROVE FALSE
  <2>1. PICK m \in bad : \A d \in Below[m] \ {m} : d \notin bad
    BY <1>1, LowestNode
  <2>2. ASSUME NEW d \in Below[m] \ {m} PROVE Clean(w)[d] = Clean(v)[d]
    <3>1. d \in Nodes /\ Clean(v)[d] \subseteq Clean(v)[m]
      BY <2>1, CleanGrows
    <3> QED
      BY <2>1, <3>1
  <2>3. ASSUME NEW f \in Inputs[m] \cup NormalScan(m, v, Clean(v)) PROVE w[f] = v[f]
    <3>1. f \in Files /\ v[f] \in Clean(v)[m]
      BY <2>1, CleanIsOfTheWorld DEF CleanScan
    <3>2. v[f] \in Texts(Files, w)
      BY <2>1, <3>1
    <3> QED
      BY <3>1, <3>2, TextIsOfOneFile
  <2>4. Clean(v) \in Outputs /\ Clean(w) \in Outputs
    BY CleanIsProduced
  <2>5. /\ NormalScan(m, w, Clean(w)) = NormalScan(m, v, Clean(v))
        /\ Produced(m, w, Clean(w)) = Produced(m, v, Clean(v))
    BY <2>1, <2>2, <2>3, <2>4, ProducedAgrees
  <2>6. Clean(w)[m] = Produced(m, w, Clean(w)) /\ Clean(v)[m] = Produced(m, v, Clean(v))
    BY <2>1, CleanIs
  <2> QED
    BY <2>1, <2>5, <2>6 DEF CleanScan
<1> QED
  BY <1>1

---------------------------------------------------------------------------
(* What a signature tells *)

LEMMA ScopeIsBelow ==
    ASSUME NEW n \in Nodes
    PROVE  /\ n \in Scope(n) /\ Scope(n) \subseteq Below[n] /\ Scope(n) \subseteq Nodes
           /\ CacheableDependencies(n) \subseteq Below[n] \ {n}
           /\ CacheableDependencies(n) \subseteq Cacheable
           /\ NodesWithScanner(n) = Scope(n) \cap Scanning
           /\ \A d \in Scope(n) : Deps[d] \subseteq Below[n]
BY BelowHolds DEF Scope, CacheableDependencies, NodesWithScanner

Scanned(n) == UNION {Inputs[d] : d \in NodesWithScanner(n)}

LEMMA LeafInputsAreFiles ==
    ASSUME NEW n \in Nodes, NEW v \in Worlds
    PROVE  /\ Scanned(n) \subseteq ExplicitLeafInputs(n) /\ ExplicitLeafInputs(n) \subseteq Files
           /\ LeafInputs(n, v) = ExplicitLeafInputs(n) \cup LeafScan(Scanned(n), v)
           /\ LeafInputs(n, v) \subseteq Files
           /\ Texts(LeafInputs(n, v), v) \subseteq AllTexts
<1>1. Scanned(n) \subseteq ExplicitLeafInputs(n) /\ ExplicitLeafInputs(n) \subseteq Files
  BY ScopeIsBelow, Graph DEF Scanned, ExplicitLeafInputs
<1>2. LeafScan(Scanned(n), v) \subseteq Files
  BY <1>1, LeafScanHolds
<1>3. LeafInputs(n, v) = ExplicitLeafInputs(n) \cup LeafScan(Scanned(n), v)
  BY DEF LeafInputs, ImplicitLeafInputs, Scanned
<1>4. LeafInputs(n, v) \subseteq Files
  BY <1>1, <1>2, <1>3
<1>5. Texts(LeafInputs(n, v), v) \subseteq AllTexts
  BY <1>4, WorldFacts DEF Texts
<1> QED
  BY <1>1, <1>3, <1>4, <1>5

Signatures == [node : Nodes, texts : SUBSET AllTexts]

LEMMA SignatureIsDefined ==
    ASSUME NEW v \in Worlds
    PROVE  /\ SignatureIn(v) = [n \in Cacheable |-> SignatureIn(v)[n]]
           /\ \A n \in Cacheable :
                /\ SignatureIn(v)[n] \in Signatures
                /\ SignatureIn(v)[n] =
                     LeafInputSignature(n, v, {SignatureIn(v)[d] : d \in CacheableDependencies(n)})
<1> DEFINE V == Signatures
           Value(k, g) == LeafInputSignature(k, v, {g[d] : d \in CacheableDependencies(k)})
           F == [x \in Nodes \X [Nodes -> V] |-> Value(x[1], x[2])]
           P(s) == s = [k \in Nodes |-> Value(k, s)]
<1>1. \A k \in Nodes : \A g \in [Nodes -> V] : F[<<k, g>>] = Value(k, g)
  OBVIOUS
<1>2. ASSUME NEW k \in Nodes, NEW g, \A d \in CacheableDependencies(k) : g[d] \in V
      PROVE  Value(k, g) \in V
  <2>1. UNION {c.texts : c \in {g[d] : d \in CacheableDependencies(k)}} \subseteq AllTexts
    BY <1>2 DEF Signatures
  <2>2. Texts(LeafInputs(k, v), v) \subseteq AllTexts
    BY LeafInputsAreFiles
  <2> DEFINE own == Texts(LeafInputs(k, v), v)
             theirs == UNION {c.texts : c \in {g[d] : d \in CacheableDependencies(k)}}
  <2>3. Value(k, g) = [node |-> k, texts |-> own \cup theirs]
    BY DEF LeafInputSignature, Combined
  <2> HIDE DEF own, theirs, Value
  <2>4. own \subseteq AllTexts /\ theirs \subseteq AllTexts
    BY <2>1, <2>2 DEF own, theirs
  <2> QED
    BY <2>3, <2>4 DEF Signatures
<1>3. \A k \in Nodes : \A g \in [Nodes -> V] : F[<<k, g>>] \in V
  <2>1. \A k \in Nodes : CacheableDependencies(k) \subseteq Nodes
    BY ScopeIsBelow, BelowHolds
  <2> HIDE DEF F, Value
  <2> QED
    BY <1>1, <1>2, <2>1
<1>4. ASSUME NEW k \in Nodes, NEW g \in [Nodes -> V], NEW h \in [Nodes -> V],
             \A d \in Below[k] \ {k} : g[d] = h[d]
      PROVE  F[<<k, g>>] = F[<<k, h>>]
  <2>1. \A d \in CacheableDependencies(k) : g[d] = h[d]
    BY <1>4, ScopeIsBelow
  <2>2. {g[d] : d \in CacheableDependencies(k)} = {h[d] : d \in CacheableDependencies(k)}
    BY <2>1
  <2>3. Value(k, g) = Value(k, h)
    BY <2>2
  <2> HIDE DEF F, Value
  <2> QED
    BY <1>1, <2>3
<1> HIDE DEF F, Value
<1>5. GoesDown(F, V)
  BY <1>3, <1>4 DEF GoesDown
<1>6. PICK g \in [Nodes -> V] : \A k \in Nodes : g[k] = F[<<k, g>>]
  <2>1. V # {} \/ Nodes = {}
    <3>1. ASSUME NEW k \in Nodes PROVE [node |-> k, texts |-> {}] \in V
      BY DEF Signatures
    <3> QED
      BY <3>1
  <2>2. CASE V # {}
    <3> HIDE DEF V
    <3>1. Solution(F, V) # {}
      BY <1>5, <2>2, RecursionIsDefined
    <3> QED
      BY <3>1 DEF Solution
  <2>3. CASE Nodes = {}
    <3>1. [k \in Nodes |-> k] \in [Nodes -> V]
      BY <2>3
    <3> QED
      BY <2>3, <3>1
  <2> QED
    BY <2>1, <2>2, <2>3
<1>7. P(g)
  <2>1. g = [k \in Nodes |-> g[k]]
    OBVIOUS
  <2> QED
    BY <1>1, <1>6, <2>1
<1> DEFINE s == CHOOSE x : P(x)
<1>8. P(s)
  <2> HIDE DEF P
  <2> QED
    BY <1>7
<1>9. SignatureIn(v) = [n \in Cacheable |-> s[n]]
  BY DEF SignatureIn, Value
<1> HIDE DEF s
<1>10. \A k \in Nodes : s[k] = Value(k, s)
  BY <1>8
<1>11. \A k \in Nodes : s[k] \in V
  <2> DEFINE C(k) == s[k] \in V
             bad == {k \in Nodes : ~C(k)}
  <2>1. SUFFICES ASSUME bad # {} PROVE FALSE
    OBVIOUS
  <2>2. PICK n \in bad : \A d \in Below[n] \ {n} : d \notin bad
    BY <2>1, LowestNode
  <2>3. \A d \in CacheableDependencies(n) : d \in Nodes /\ d \notin bad
    BY <2>2, ScopeIsBelow, BelowHolds
  <2>4. \A d \in CacheableDependencies(n) : s[d] \in V
    BY <2>3
  <2>5. Value(n, s) \in V
    BY <1>2, <2>2, <2>4
  <2> QED
    BY <1>10, <2>2, <2>5
<1>12. ASSUME NEW n \in Cacheable
       PROVE  /\ SignatureIn(v)[n] \in Signatures
              /\ SignatureIn(v)[n] =
                   LeafInputSignature(n, v, {SignatureIn(v)[d] : d \in CacheableDependencies(n)})
  <2>1. n \in Nodes /\ SignatureIn(v)[n] = s[n]
    BY <1>9, Graph
  <2>2. \A d \in CacheableDependencies(n) : SignatureIn(v)[d] = s[d]
    BY <1>9, <2>1, ScopeIsBelow
  <2>3. {SignatureIn(v)[d] : d \in CacheableDependencies(n)} = {s[d] : d \in CacheableDependencies(n)}
    BY <2>2
  <2>4. s[n] = LeafInputSignature(n, v, {s[d] : d \in CacheableDependencies(n)})
    BY <1>10, <2>1 DEF Value
  <2> QED
    BY <1>11, <2>1, <2>3, <2>4
<1> QED
  BY <1>9, <1>12

ChildTexts(n, v) == UNION {SignatureIn(v)[d].texts : d \in CacheableDependencies(n)}

LEMMA SignatureIs ==
    ASSUME NEW v \in Worlds
    PROVE  \A n \in Cacheable :
            /\ SignatureIn(v)[n].node = n /\ n \in Nodes
            /\ SignatureIn(v)[n].texts = Texts(LeafInputs(n, v), v) \cup ChildTexts(n, v)
<1> SUFFICES ASSUME NEW n \in Cacheable
             PROVE  /\ SignatureIn(v)[n].node = n /\ n \in Nodes
                    /\ SignatureIn(v)[n].texts = Texts(LeafInputs(n, v), v) \cup ChildTexts(n, v)
  OBVIOUS
<1>1. n \in Nodes
  BY Graph
<1> DEFINE children == {SignatureIn(v)[d] : d \in CacheableDependencies(n)}
<1>2. SignatureIn(v)[n] = LeafInputSignature(n, v, children)
  BY SignatureIsDefined
<1>3. SignatureIn(v)[n] = [node |-> n,
                           texts |-> Texts(LeafInputs(n, v), v) \cup UNION {c.texts : c \in children}]
  BY <1>2 DEF LeafInputSignature, Combined
<1>4. UNION {c.texts : c \in children} = ChildTexts(n, v)
  BY DEF ChildTexts
<1> HIDE DEF children
<1> QED
  BY <1>1, <1>3, <1>4

LEMMA SameSignature ==
    ASSUME NEW v \in Worlds, NEW w \in Worlds, NEW n \in Cacheable,
           SignatureIn(v)[n].texts = SignatureIn(w)[n].texts
    PROVE  SignatureIn(v)[n] = SignatureIn(w)[n]
<1>1. SignatureIn(v)[n] \in Signatures /\ SignatureIn(w)[n] \in Signatures
  BY SignatureIsDefined
<1>2. SignatureIn(v)[n].node = n /\ SignatureIn(w)[n].node = n
  BY SignatureIs
<1> QED
  BY <1>1, <1>2 DEF Signatures

Covers(signature, output) == output \subseteq signature.texts

\* A signature is made of nothing that is not in the output.
LEMMA SignatureIsInOutput ==
    ASSUME HeadersAreBelow, NEW v \in Worlds, NEW n \in Cacheable
    PROVE  SignatureIn(v)[n].texts \subseteq Clean(v)[n]
<1> DEFINE C(m) == SignatureIn(v)[m].texts \subseteq Clean(v)[m]
           bad == {m \in Cacheable : ~C(m)}
<1>1. ASSUME bad # {} PROVE FALSE
  <2>0. bad \in SUBSET Nodes
    BY Graph
  <2>1. PICK m \in bad : \A d \in Below[m] \ {m} : d \notin bad
    <3> HIDE DEF bad
    <3> QED
      BY <1>1, <2>0, LowestNode
  <2>2. m \in Nodes /\ m \in Cacheable
    BY <2>0, <2>1
  <2> DEFINE t == Clean(v)[m]
  <2>3. ASSUME NEW d \in CacheableDependencies(m) PROVE SignatureIn(v)[d].texts \subseteq t
    <3>1. d \in Below[m] \ {m} /\ d \in Cacheable
      BY <2>2, ScopeIsBelow
    <3>2. C(d)
      BY <2>1, <3>1
    <3> QED
      BY <2>2, <3>1, <3>2, CleanGrows
  <2>4. ASSUME NEW d \in Scope(m), NEW f \in Inputs[d] \cup CleanScan(d, v) PROVE f \in Files /\ v[f] \in t
    <3>1. d \in Below[m] /\ d \in Nodes
      BY <2>2, ScopeIsBelow
    <3>2. f \in Files /\ v[f] \in Clean(v)[d]
      BY <3>1, CleanIsOfTheWorld
    <3> QED
      BY <2>2, <3>1, <3>2, CleanGrows
  <2> DEFINE found == UNION {CleanScan(d, v) : d \in NodesWithScanner(m)}
             step == Visible(v)
             start == UNION {step[f] : f \in Scanned(m)}
  <2>5. \A d \in NodesWithScanner(m) :
            d \in Nodes /\ d \in Scope(m) /\ d \in Scanning /\ CleanScan(d, v) = Reached(d, v, Clean(v)) \cap Files
    BY <2>2, ScopeIsBelow, ReachedHolds, CleanIsProduced DEF CleanScan
  <2>6. \A f \in Files : step[f] = Named(v, Clean(v))[f] \cap Files
    BY CleanIsProduced, NamedThings DEF Visible
  <2>7. start \subseteq found
    <3> SUFFICES ASSUME NEW d \in NodesWithScanner(m), NEW f \in Inputs[d] PROVE step[f] \subseteq found
      BY DEF Scanned
    <3>1. f \in Files /\ Named(v, Clean(v))[f] \subseteq Reached(d, v, Clean(v))
      BY <2>5, Graph, ReachedHolds, CleanIsProduced
    <3>2. step[f] \subseteq CleanScan(d, v)
      BY <2>5, <2>6, <3>1
    <3> QED
      BY <3>2
  <2>8. ASSUME NEW x \in found PROVE step[x] \subseteq found
    <3>1. PICK d \in NodesWithScanner(m) : x \in CleanScan(d, v)
      OBVIOUS
    <3>2. x \in Files /\ Named(v, Clean(v))[x] \subseteq Reached(d, v, Clean(v))
      BY <2>5, <3>1, ReachedHolds, CleanIsProduced
    <3>3. step[x] \subseteq CleanScan(d, v)
      BY <2>5, <2>6, <3>2
    <3> QED
      BY <3>3
  <2>9. /\ DOMAIN step = Files /\ (\A x \in Files : step[x] \subseteq Files) /\ start \subseteq Files
        /\ LeafScan(Scanned(m), v) = Closure(start, step)
    <3>1. Scanned(m) \subseteq Files
      BY <2>2, LeafInputsAreFiles
    <3> QED
      BY <3>1, VisibleFiles
  <2>10. LeafScan(Scanned(m), v) \subseteq found
    <3> HIDE DEF found, start, step
    <3>1. Files \subseteq DOMAIN step /\ \A x \in DOMAIN step : step[x] \subseteq Files
      BY <2>9
    <3>2. \A x \in found \cap Closure(start, step) : step[x] \subseteq found
      BY <2>8
    <3>3. Closure(start, step) \subseteq found
      BY <2>7, <2>9, <3>1, <3>2, ClosureIsLeast
    <3> QED
      BY <2>9, <3>3
  <2>11. \A f \in LeafInputs(m, v) : v[f] \in t
    <3>1. \A f \in ExplicitLeafInputs(m) : v[f] \in t
      BY <2>4 DEF ExplicitLeafInputs
    <3>2. \A f \in found : v[f] \in t
      BY <2>4, <2>5
    <3> HIDE DEF found
    <3> QED
      BY <2>2, <2>10, <3>1, <3>2, LeafInputsAreFiles
  <2>12. Texts(LeafInputs(m, v), v) \subseteq t
    BY <2>11 DEF Texts
  <2> HIDE DEF t
  <2>13. ChildTexts(m, v) \subseteq t
    BY <2>3 DEF ChildTexts
  <2>14. SignatureIn(v)[m].texts \subseteq t
    BY <2>2, <2>12, <2>13, SignatureIs
  <2> QED
    BY <2>1, <2>14 DEF t
<1> QED
  BY <1>1

\* A world that has all that is in a signature has the same signature.
LEMMA SignatureIsKnownByItsTexts ==
    ASSUME NEW v \in Worlds, NEW w \in Worlds, NEW n \in Cacheable,
           SignatureIn(v)[n].texts \subseteq Texts(Files, w)
    PROVE  SignatureIn(w)[n] = SignatureIn(v)[n]
<1> DEFINE Known(m) == SignatureIn(v)[m].texts \subseteq Texts(Files, w)
           Same(m) == SignatureIn(w)[m] = SignatureIn(v)[m]
           bad == {m \in Cacheable : Known(m) /\ ~Same(m)}
<1>1. ASSUME bad # {} PROVE FALSE
  <2>0. bad \in SUBSET Nodes
    BY Graph
  <2>1. PICK m \in bad : \A d \in Below[m] \ {m} : d \notin bad
    <3> HIDE DEF bad
    <3> QED
      BY <1>1, <2>0, LowestNode
  <2>2. m \in Nodes /\ m \in Cacheable /\ CacheableDependencies(m) \subseteq Cacheable
    BY <2>0, <2>1, ScopeIsBelow
  <2>3. SignatureIn(v)[m].texts = Texts(LeafInputs(m, v), v) \cup ChildTexts(m, v)
    BY <2>2, SignatureIs
  <2>4. ASSUME NEW d \in CacheableDependencies(m) PROVE SignatureIn(w)[d] = SignatureIn(v)[d]
    <3>1. d \in Below[m] \ {m} /\ d \in Cacheable
      BY <2>2, ScopeIsBelow
    <3>2. Known(d)
      BY <2>1, <2>3 DEF ChildTexts
    <3> QED
      BY <2>1, <3>1, <3>2
  <2>5. ASSUME NEW f \in LeafInputs(m, v) PROVE w[f] = v[f]
    <3>1. f \in Files /\ v[f] \in Texts(LeafInputs(m, v), v)
      BY <2>2, LeafInputsAreFiles DEF Texts
    <3>2. v[f] \in Texts(Files, w)
      BY <2>1, <2>3, <3>1
    <3> QED
      BY <3>1, <3>2, TextIsOfOneFile
  <2>6. LeafScan(Scanned(m), w) = LeafScan(Scanned(m), v)
    <3>1. Scanned(m) \subseteq Files /\ Scanned(m) \cup LeafScan(Scanned(m), v) \subseteq LeafInputs(m, v)
      BY <2>2, LeafInputsAreFiles
    <3> QED
      BY <2>5, <3>1, LeafScanAgrees
  <2>7. LeafInputs(m, w) = LeafInputs(m, v)
    BY <2>2, <2>6, LeafInputsAreFiles
  <2>8. Texts(LeafInputs(m, w), w) = Texts(LeafInputs(m, v), v)
    BY <2>5, <2>7 DEF Texts
  <2>9. ChildTexts(m, w) = ChildTexts(m, v)
    BY <2>4 DEF ChildTexts
  <2>10. SignatureIn(w)[m].texts = SignatureIn(v)[m].texts
    BY <2>2, <2>3, <2>8, <2>9, SignatureIs
  <2> QED
    BY <2>1, <2>2, <2>10, SameSignature
<1> QED
  BY <1>1

\* Where a signature has all that is in the output, it tells the output.
LEMMA SignatureTellsOutput ==
    ASSUME HeadersAreBelow, NEW v \in Worlds, NEW w \in Worlds, NEW n \in Cacheable, NEW m \in Cacheable,
           SignatureIn(v)[n] = SignatureIn(w)[m], Covers(SignatureIn(v)[n], Clean(v)[n])
    PROVE  m = n /\ Clean(w)[m] = Clean(v)[n]
<1>1. m = n
  BY SignatureIs
<1>2. SignatureIn(w)[m].texts \subseteq Clean(w)[m] /\ Clean(w)[m] \subseteq Texts(Files, w)
  BY SignatureIsInOutput, CleanIsOfTheWorld, Graph
<1>3. Clean(v)[n] \subseteq Texts(Files, w)
  BY <1>2 DEF Covers
<1> QED
  BY <1>1, <1>3, CleanIsKnownByItsTexts, Graph

\* And the output tells the signature.
LEMMA OutputTellsSignature ==
    ASSUME HeadersAreBelow, NEW v \in Worlds, NEW w \in Worlds, NEW n \in Cacheable,
           Clean(w)[n] = Clean(v)[n]
    PROVE  SignatureIn(w)[n] = SignatureIn(v)[n]
<1>1. SignatureIn(v)[n].texts \subseteq Clean(v)[n] /\ Clean(w)[n] \subseteq Texts(Files, w)
  BY SignatureIsInOutput, CleanIsOfTheWorld, Graph
<1> QED
  BY <1>1, SignatureIsKnownByItsTexts

\* The verification: when all that the scans below a node have found is in its
\* signature, so is all that is in its output.
LEMMA VerifiedIsCovered ==
    ASSUME HeadersAreBelow, NEW v \in Worlds, NEW n \in Cacheable,
           \A d \in CacheableDependencies(n) : Covers(SignatureIn(v)[d], Clean(v)[d]),
           \A d \in NodesWithScanner(n) : \A f \in CleanScan(d, v) :
                ToSet(Contents[f]) \cap SignatureIn(v)[n].texts # {}
    PROVE  Covers(SignatureIn(v)[n], Clean(v)[n])
<1> DEFINE s == SignatureIn(v)[n]
           C(d) == Clean(v)[d] \subseteq s.texts
           bad == {d \in Below[n] : ~C(d)}
<1>1. n \in Nodes /\ Below[n] \subseteq Nodes /\ n \in Below[n]
  BY Graph, BelowHolds
<1>2. /\ s.texts = Texts(LeafInputs(n, v), v) \cup ChildTexts(n, v)
      /\ s.texts \subseteq Texts(Files, v)
  BY <1>1, SignatureIs, SignatureIsInOutput, CleanIsOfTheWorld
<1>3. ASSUME NEW d \in Scope(n), NEW f \in Inputs[d] \cup CleanScan(d, v) PROVE v[f] \in s.texts
  <2>1. CASE f \in Inputs[d]
    <3>1. f \in LeafInputs(n, v)
      BY <1>1, <2>1, LeafInputsAreFiles DEF ExplicitLeafInputs
    <3> QED
      BY <1>2, <3>1 DEF Texts
  <2>2. CASE f \in CleanScan(d, v)
    <3>1. d \in NodesWithScanner(n) /\ f \in Files
      <4>1. d \in Scanning
        BY <2>2 DEF CleanScan, NormalScan
      <4> QED
        BY <2>2, <4>1, <1>1, ScopeIsBelow, ScanFindsFiles DEF CleanScan
    <3>2. PICK t \in ToSet(Contents[f]) : t \in s.texts
      BY <2>2, <3>1
    <3>3. PICK g \in Files : t = v[g]
      BY <1>2, <3>2 DEF Texts
    <3>4. f = g
      BY <3>1, <3>2, <3>3, WorldFacts, TextAssumption
    <3> QED
      BY <3>2, <3>3, <3>4
  <2> QED
    BY <2>1, <2>2
<1> HIDE DEF s
<1>4. ASSUME bad # {} PROVE FALSE
  <2>1. PICK d \in bad : \A e \in Below[d] \ {d} : e \notin bad
    <3>1. bad \in SUBSET Nodes
      BY <1>1
    <3> HIDE DEF bad
    <3> QED
      BY <1>4, <3>1, LowestNode
  <2>2. d \in Nodes /\ d \in Below[n]
    BY <1>1, <2>1
  <2>3. CASE d \in CacheableDependencies(n)
    <3>1. SignatureIn(v)[d].texts \subseteq s.texts
      BY <1>2, <2>3 DEF ChildTexts
    <3> QED
      BY <2>1, <2>3, <3>1 DEF Covers
  <2>4. CASE d \notin CacheableDependencies(n)
    <3>1. d \in Scope(n)
      BY <2>2, <2>4 DEF Scope, CacheableDependencies
    <3>2. \A e \in Deps[d] : e \in Below[n] /\ e \in Below[d] \ {d}
      BY <1>1, <2>2, <3>1, ScopeIsBelow, DepsAreBelow
    <3>3. \A e \in Deps[d] : C(e)
      BY <2>1, <3>2
    <3>4. Texts(Inputs[d] \cup CleanScan(d, v), v) \subseteq s.texts
      BY <1>3, <3>1 DEF Texts
    <3>5. Clean(v)[d] = Texts(Inputs[d] \cup CleanScan(d, v), v) \cup UNION {Clean(v)[e] : e \in Deps[d]}
      BY <2>2, CleanIs
    <3>6. C(d)
      BY <3>3, <3>4, <3>5
    <3> QED
      BY <2>1, <3>6
  <2> QED
    BY <2>3, <2>4
<1> QED
  BY <1>1, <1>4 DEF Covers, s

---------------------------------------------------------------------------
(* Whether what the cache and the last build left is what would be built   *)

\* All builds write to the cache what they build: what a build that does not
\* leaves behind was never verified.
EveryBuildWrites == \A e \in Environments : IsInvalid(e) \/ CachingBehaviour(e).writes

GoodResult == "RanSuccessfullyWithGuaranteedCorrectInputSignature"
Success == {"UpToDate", "RanSuccesfully"}
InBuild == phase # "between"
\* The action has run and the execution goes on.
HasRun(w) ==
    \/ worker[w].pc \in {"validate", "write", "finish"}
    \/ worker[w].pc = "count" /\ worker[w].then = "finish"

WorldOK ==
    /\ phase \in {"between", "building", "croaked"} /\ intrusions = 0
    /\ disk \in Worlds /\ out \in Outputs
    /\ phase = "building" => mode.writes
    /\ InBuild => \A f \in Files : seen[f] \in {Unknown, disk[f]}

LeafOK(n) == leaf[n] # None => n \in Cacheable /\ leaf[n].value = SignatureIn(disk)[n]

NodeFields == {"result", "finished", "signature", "implicit", "guaranteed", "waits"}
NodesOK == node = [n \in Nodes |-> [x \in NodeFields |-> node[n][x]]]
\* The outputs of who succeeded are those of a clean build, and so are the
\* signature and the scan it goes by.
NodeOK(n) ==
    /\ node[n].result \in Success \cup {"DidNotRun", "RanFailed"}
    /\ node[n].signature \in {{}, Clean(disk)[n]}
    /\ node[n].result # "DidNotRun" => node[n].finished
    /\ node[n].result \in Success => out[n] = Clean(disk)[n]
    /\ node[n].result \in Success /\ n \in Cacheable => Covers(SignatureIn(disk)[n], out[n])
    /\ node[n].result \in Success /\ n \notin Cacheable =>
        /\ \A d \in Deps[n] : node[d].result \in Success
        /\ (IF node[n].result = "UpToDate" THEN record[n] ELSE node[n]).implicit = CleanScan(n, disk)
    /\ node[n].result = "RanSuccesfully" =>
        IF n \in Cacheable THEN leaf[n] # None ELSE node[n].signature = Clean(disk)[n]

RecordFields == {"result", "signature", "leaf", "implicit"}
RecordsOK == record = [n \in Nodes |-> [x \in RecordFields |-> record[n][x]]]
\* A record that calls the output good is of a world that leads to the output.
RecordOf(n, v) ==
    /\ v \in Worlds /\ out[n] = Clean(v)[n]
    /\ n \in Cacheable =>
        /\ record[n].signature \in {{}, out[n]}
        /\ record[n].leaf = SignatureIn(v)[n] /\ Covers(record[n].leaf, out[n])
    /\ n \notin Cacheable => record[n].signature = out[n] /\ record[n].implicit = CleanScan(n, v)
RecordTrue(n) == record[n].result = GoodResult /\ out[n] # {} => \E v \in Worlds : RecordOf(n, v)
\* Until the build ends the record of a node that has run is the one before.
RecordOK(n) ==
    \/ InBuild /\ node[n].result \in {"RanSuccesfully", "RanFailed"}
    \/ \E w \in Workers : HasRun(w) /\ worker[w].node = n
    \/ RecordTrue(n)

\* What a worker knows of the node it is processing.
AtWork(w, n) ==
    /\ InBuild /\ mode.writes /\ n \in Nodes
    /\ ~node[n].finished /\ node[n].result = "DidNotRun"
Prepared(w, n) ==
    /\ worker[w].pc = "calculate" =>
        worker[w].stack # <<>> /\ worker[w].stack \in Seq(Cacheable) /\ Head(worker[w].stack) = n
    /\ worker[w].pc \in {"lookup", "read"} => n \in Cacheable
    /\ worker[w].pc # "calculate" /\ n \in Cacheable => leaf[n] # None
Running(w, n) ==
    /\ worker[w].pc = "run" \/ HasRun(w) =>
        /\ node[n].signature = Clean(disk)[n] /\ node[n].implicit = CleanScan(n, disk)
        /\ worker[w].stored = Texts(Inputs[n], disk)
        /\ \A d \in Deps[n] : node[d].result \in Success
    /\ HasRun(w) => out[n] = Clean(disk)[n]
    /\ HasRun(w) /\ worker[w].pc # "validate" => n \in Cacheable /\ Covers(SignatureIn(disk)[n], out[n])
WorkerOK(w) ==
    worker[w].pc # "idle" =>
        AtWork(w, worker[w].node) /\ Prepared(w, worker[w].node) /\ Running(w, worker[w].node)
OneEach ==
    \A v, w \in Workers :
        worker[v].pc # "idle" /\ worker[w].pc # "idle" /\ worker[v].node = worker[w].node => v = w

EntryOK(e) ==
    \E v \in Worlds, n \in Cacheable :
        /\ e.signature = SignatureIn(v)[n] /\ e.output = Clean(v)[n]
        /\ Covers(SignatureIn(v)[n], Clean(v)[n])

TruthInv ==
    /\ WorldOK /\ NodesOK /\ RecordsOK /\ OneEach
    /\ \A e \in cache : EntryOK(e)
    /\ \A n \in Nodes \cap attempted : leaf[n] # None
    /\ \A n \in Nodes : RecordOK(n)
    /\ InBuild => \A n \in Nodes : LeafOK(n) /\ NodeOK(n)
    /\ \A w \in Workers : WorkerOK(w)

\* One worker does something for one node, and leaves what is of others alone.
Alone(w, n) ==
    /\ n \in Nodes /\ node[n].result = "DidNotRun" /\ ~node[n].finished
    /\ InBuild /\ phase' \in {"building", "croaked"} /\ phase' \in {phase, "croaked"}
    /\ UNCHANGED <<disk, intrusions, mode, record>>
    /\ \A v \in Workers \ {w} :
        worker'[v] = worker[v] /\ (worker[v].pc # "idle" => worker[v].node # n)
    /\ worker[w].pc # "idle" => worker[w].node = n
    /\ worker'[w].pc # "idle" => worker'[w].node = n
    /\ \A m \in Nodes \ {n} : node'[m] = node[m] /\ out'[m] = out[m]
Own(w, n) ==
    /\ out' \in Outputs /\ NodesOK'
    /\ \A f \in Files : seen'[f] \in {Unknown, disk[f]}
    /\ \A e \in cache' : EntryOK(e)
    /\ \A m \in Nodes \cap attempted' : leaf'[m] # None
    /\ \A m \in Nodes : leaf'[m] = leaf[m] \/ (leaf'[m] # None /\ LeafOK(m)')
    /\ NodeOK(n)' /\ RecordOK(n)' /\ WorkerOK(w)'

LEMMA OneMoves ==
    ASSUME TruthInv, NEW w \in Workers, NEW n \in Nodes, Alone(w, n), Own(w, n)
    PROVE  TruthInv'
<1>1. InBuild /\ InBuild' /\ disk' = disk /\ record' = record /\ mode' = mode
  BY DEF Alone, InBuild
<1>2. WorldOK'
  BY <1>1 DEF TruthInv, WorldOK, Alone, Own, InBuild
<1>3. RecordsOK'
  BY <1>1 DEF TruthInv, RecordsOK
<1>4. OneEach'
  BY DEF TruthInv, OneEach, Alone
<1>5. ASSUME NEW m \in Nodes, leaf[m] # None PROVE leaf'[m] # None
  BY <1>5 DEF Own
<1>6. ASSUME NEW m \in Nodes, node[m].result \in Success PROVE node'[m] = node[m] /\ m # n
  BY <1>6 DEF Alone, Success
<1>7. ASSUME NEW m \in Nodes PROVE LeafOK(m)' /\ NodeOK(m)'
  <2>1. LeafOK(m) /\ NodeOK(m)
    BY <1>1 DEF TruthInv
  <2>2. LeafOK(m)'
    <3>1. CASE leaf'[m] = leaf[m]
      BY <1>1, <2>1, <3>1 DEF LeafOK
    <3> QED
      BY <3>1 DEF Own
  <2>3. NodeOK(m)'
    <3>1. CASE m = n
      BY <3>1 DEF Own
    <3>2. CASE m # n
      <4>1. node'[m] = node[m] /\ out'[m] = out[m]
        BY <3>2 DEF Alone
      <4>2. \A d \in Deps[m] : node[d].result \in Success => node'[d].result \in Success
        BY <1>6, Graph
      <4> QED
        BY <1>1, <1>5, <2>1, <4>1, <4>2 DEF NodeOK
    <3> QED
      BY <3>1, <3>2
  <2> QED
    BY <2>2, <2>3
<1>8. ASSUME NEW m \in Nodes PROVE RecordOK(m)'
  <2>1. CASE m = n
    BY <2>1 DEF Own
  <2>2. CASE m # n
    <3>1. node'[m] = node[m] /\ out'[m] = out[m] /\ RecordOK(m)
      BY <2>2 DEF Alone, TruthInv
    <3>2. ASSUME NEW v \in Workers, HasRun(v), worker[v].node = m PROVE HasRun(v)' /\ worker'[v].node = m
      <4>1. v # w
        BY <2>2, <3>2 DEF Alone, HasRun
      <4> QED
        BY <3>2, <4>1 DEF Alone, HasRun
    <3>3. RecordTrue(m) => RecordTrue(m)'
      BY <1>1, <3>1 DEF RecordTrue, RecordOf
    <3> QED
      BY <1>1, <3>1, <3>2, <3>3 DEF RecordOK
  <2> QED
    BY <2>1, <2>2
<1>9. ASSUME NEW v \in Workers PROVE WorkerOK(v)'
  <2>1. CASE v = w
    BY <2>1 DEF Own
  <2>2. CASE v # w /\ worker[v].pc # "idle"
    <3>0. PICK m : m = worker[v].node
      OBVIOUS
    <3>1. worker'[v] = worker[v] /\ m # n
      BY <2>2, <3>0 DEF Alone
    <3>2. AtWork(v, m) /\ Prepared(v, m) /\ Running(v, m)
      BY <2>2, <3>0 DEF TruthInv, WorkerOK
    <3>3. m \in Nodes
      BY <3>2 DEF AtWork
    <3>4. node'[m] = node[m] /\ out'[m] = out[m]
      BY <3>1, <3>3 DEF Alone
    <3>5. AtWork(v, m)'
      BY <1>1, <3>2, <3>4 DEF AtWork
    <3>6. Prepared(v, m)'
      BY <1>5, <3>1, <3>2, <3>3 DEF Prepared
    <3>7. Running(v, m)'
      <4>1. HasRun(v)' <=> HasRun(v)
        BY <3>1 DEF HasRun
      <4>2. \A d \in Deps[m] : node[d].result \in Success => node'[d].result \in Success
        BY <1>6, <3>3, Graph
      <4> QED
        BY <1>1, <3>1, <3>2, <3>4, <4>1, <4>2 DEF Running
    <3> QED
      BY <3>0, <3>1, <3>5, <3>6, <3>7 DEF WorkerOK
  <2>3. CASE v # w /\ worker[v].pc = "idle"
    BY <2>3 DEF Alone, WorkerOK
  <2> QED
    BY <2>1, <2>2, <2>3
<1> QED
  BY <1>2, <1>3, <1>4, <1>7, <1>8, <1>9 DEF TruthInv, Own

\* What holds for the worker and its node in every step of the worker.
LEMMA WorkerFacts ==
    ASSUME TruthInv, NEW w \in Workers, worker[w].pc # "idle", NEW n, worker[w].node = n
    PROVE  /\ AtWork(w, n) /\ Prepared(w, n) /\ Running(w, n)
           /\ n \in Nodes /\ InBuild /\ LeafOK(n) /\ NodeOK(n) /\ RecordOK(n)
           /\ phase \in {"building", "croaked"} /\ disk \in Worlds /\ out \in Outputs
           /\ \A v \in Workers \ {w} : worker[v].pc # "idle" => worker[v].node # n
           /\ ~HasRun(w) => RecordTrue(n)
<1>1. AtWork(w, n) /\ Prepared(w, n) /\ Running(w, n)
  BY DEF TruthInv, WorkerOK
<1>2. n \in Nodes /\ InBuild /\ node[n].result = "DidNotRun"
  BY <1>1 DEF AtWork
<1>3. LeafOK(n) /\ NodeOK(n) /\ RecordOK(n)
  BY <1>2 DEF TruthInv
<1>4. phase \in {"building", "croaked"} /\ disk \in Worlds /\ out \in Outputs
  BY <1>2 DEF TruthInv, WorldOK, InBuild
<1>5. \A v \in Workers \ {w} : worker[v].pc # "idle" => worker[v].node # n
  BY DEF TruthInv, OneEach
<1>6. ASSUME ~HasRun(w) PROVE RecordTrue(n)
  <2>1. \A v \in Workers : HasRun(v) => worker[v].node # n
    BY <1>5, <1>6 DEF HasRun
  <2> QED
    BY <1>2, <1>3, <2>1 DEF RecordOK
<1> QED
  BY <1>1, <1>2, <1>3, <1>4, <1>5, <1>6

\* What the caches of files give is what is in the files, and they may be asked
\* for more of them.
LEMMA ViewIsTheDisk ==
    ASSUME WorldOK, InBuild
    PROVE  View = disk /\ \A files : \A f \in Files : Looked(files)[f] \in {Unknown, disk[f]}
<1>1. disk = [f \in Files |-> disk[f]]
  BY WorldFacts DEF WorldOK
<1>2. \A f \in Files : seen[f] = Unknown \/ seen[f] = disk[f]
  BY DEF WorldOK
<1>3. View = disk
  BY <1>1, <1>2 DEF View
<1> QED
  BY <1>2, <1>3 DEF Looked

\* When the dependencies of a node succeeded, so did all that is below it up to
\* nodes that are cacheable, and it sees what a clean build would see.
LEMMA SuccessBelow ==
    ASSUME TruthInv, InBuild, HeadersAreBelow, NEW n \in Nodes,
           \A d \in Deps[n] : node[d].result \in Success
    PROVE  /\ \A d \in Below[n] \ {n} : node[d].result \in Success /\ out[d] = Clean(disk)[d]
           /\ NormalScan(n, disk, out) = CleanScan(n, disk)
           /\ Produced(n, disk, out) = Clean(disk)[n]
<1>1. disk \in Worlds /\ out \in Outputs /\ \A m \in Nodes : NodeOK(m)
  BY DEF TruthInv, WorldOK
<1> DEFINE s == {n} \cup {d \in Nodes : node[d].result \in Success}
<1>2. ASSUME NEW d \in s \cap Below[n], d = n \/ d \notin Cacheable PROVE Deps[d] \subseteq s
  <2>1. \A e \in Deps[d] : node[e].result \in Success
    BY <1>1, <1>2 DEF NodeOK
  <2>2. Deps[d] \subseteq Nodes
    BY <1>2, Graph
  <2> QED
    BY <2>1, <2>2
<1>3. n \in s
  OBVIOUS
<1> HIDE DEF s
<1>4. Below[n] \subseteq s
  BY <1>2, <1>3, BelowIsLeast
<1>5. ASSUME NEW d \in Below[n] \ {n} PROVE node[d].result \in Success /\ out[d] = Clean(disk)[d]
  <2>1. d \in Nodes /\ node[d].result \in Success
    BY <1>4 DEF s
  <2> QED
    BY <1>1, <2>1 DEF NodeOK
<1>6. Clean(disk) \in Outputs /\ Clean(disk)[n] = Produced(n, disk, Clean(disk))
  BY <1>1, CleanIs, CleanIsProduced
<1>7. \A f \in Inputs[n] \cup NormalScan(n, disk, Clean(disk)) : disk[f] = disk[f]
  OBVIOUS
<1>8. /\ NormalScan(n, disk, out) = NormalScan(n, disk, Clean(disk))
      /\ Produced(n, disk, out) = Produced(n, disk, Clean(disk))
  BY <1>1, <1>5, <1>6, <1>7, ProducedAgrees
<1> QED
  BY <1>5, <1>6, <1>8 DEF CleanScan

\* The node gets a new state, the worker another one for the same node.
LEMMA NewNode ==
    ASSUME NodesOK, NEW n \in Nodes, NEW r, node' = [node EXCEPT ![n] = r],
           r = [x \in NodeFields |-> r[x]]
    PROVE  NodesOK' /\ node'[n] = r /\ \A m \in Nodes \ {n} : node'[m] = node[m]
<1>1. \A m \in Nodes : node'[m] = IF m = n THEN r ELSE node[m]
  BY DEF NodesOK
<1>2. DOMAIN node' = Nodes /\ node' = [m \in Nodes |-> node'[m]]
  BY DEF NodesOK
<1>3. \A m \in Nodes : node'[m] = [x \in NodeFields |-> node'[m][x]]
  BY <1>1 DEF NodesOK
<1>4. NodesOK'
  BY <1>2, <1>3 DEF NodesOK
<1> QED
  BY <1>1, <1>4

LEMMA NewWorker ==
    ASSUME FramesOK, NEW w \in Workers, NEW r, worker' = [worker EXCEPT ![w] = r]
    PROVE  worker'[w] = r /\ \A v \in Workers \ {w} : worker'[v] = worker[v]
BY DEF FramesOK

LEMMA NewOutput ==
    ASSUME out \in Outputs, NEW n \in Nodes, NEW t \in SUBSET AllTexts, out' = [out EXCEPT ![n] = t]
    PROVE  out' \in Outputs /\ out'[n] = t /\ \A m \in Nodes \ {n} : out'[m] = out[m]
BY DEF Outputs

\* A worker moves on, and for the node nothing happens.
Aside(w) ==
    /\ UNCHANGED <<disk, intrusions, mode, record, out, cache, leaf>>
    /\ phase' \in {"building", "croaked"} /\ phase' \in {phase, "croaked"}
    /\ \A f \in Files : seen'[f] \in {Unknown, disk[f]}
    /\ \A m \in Nodes \cap attempted' : leaf[m] # None
    /\ \A v \in Workers \ {w} : worker'[v] = worker[v]

LEMMA OthersAreElsewhere ==
    ASSUME TruthInv, NEW w \in Workers, worker[w].pc # "idle", NEW n, worker[w].node = n,
           Aside(w), UNCHANGED node, worker'[w].pc # "idle" => worker'[w].node = n,
           HasRun(w) => HasRun(w)', WorkerOK(w)'
    PROVE  TruthInv'
<1>1. /\ AtWork(w, n) /\ n \in Nodes /\ InBuild /\ LeafOK(n) /\ NodeOK(n) /\ RecordOK(n)
      /\ \A v \in Workers \ {w} : worker[v].pc # "idle" => worker[v].node # n
  BY WorkerFacts
<1>2. Alone(w, n)
  BY <1>1 DEF Alone, Aside, AtWork
<1>3. InBuild'
  BY DEF Aside, InBuild
<1>4. NodeOK(n)'
  BY <1>1 DEF NodeOK, Aside
<1>5. RecordOK(n)'
  <2>1. RecordTrue(n) => RecordTrue(n)'
    BY DEF RecordTrue, RecordOf, Aside
  <2>2. ASSUME NEW v \in Workers, HasRun(v), worker[v].node = n PROVE HasRun(v)' /\ worker'[v].node = n
    <3>1. v = w
      BY <1>1, <2>2 DEF HasRun
    <3> QED
      BY <2>2, <3>1 DEF HasRun
  <2> QED
    BY <1>1, <1>3, <2>1, <2>2 DEF RecordOK
<1>6. Own(w, n)
  BY <1>4, <1>5 DEF Own, Aside, TruthInv, WorldOK, NodesOK
<1> QED
  BY <1>1, <1>2, <1>6, OneMoves

\* What the steps leave as it is.
LEMMA KnownStays ==
    ASSUME TruthInv, InBuild
    PROVE  /\ \A f \in Files : seen[f] \in {Unknown, disk[f]}
           /\ \A m \in Nodes \cap attempted : leaf[m] # None
           /\ \A e \in cache : EntryOK(e)
BY DEF TruthInv, WorldOK

\* The execution of a node ends, and the worker is free.
Ends(w, n) ==
    /\ UNCHANGED <<disk, intrusions, mode, record, leaf>>
    /\ phase' \in {"building", "croaked"} /\ phase' \in {phase, "croaked"}
    /\ \A f \in Files : seen'[f] \in {Unknown, disk[f]}
    /\ \A m \in Nodes \cap attempted' : leaf[m] # None
    /\ \A e \in cache' : EntryOK(e)
    /\ worker'[w].pc = "idle" /\ \A v \in Workers \ {w} : worker'[v] = worker[v]
    /\ NodesOK' /\ out' \in Outputs
    /\ \A m \in Nodes \ {n} : node'[m] = node[m] /\ out'[m] = out[m]

LEMMA OthersGoOn ==
    ASSUME TruthInv, NEW w \in Workers, worker[w].pc # "idle", NEW n, worker[w].node = n,
           Ends(w, n), NodeOK(n)', RecordOK(n)'
    PROVE  TruthInv'
<1>1. /\ AtWork(w, n) /\ n \in Nodes /\ InBuild
      /\ \A v \in Workers \ {w} : worker[v].pc # "idle" => worker[v].node # n
  BY WorkerFacts
<1>2. Alone(w, n)
  BY <1>1 DEF Alone, Ends, AtWork
<1>3. WorkerOK(w)'
  BY DEF WorkerOK, Ends
<1>4. Own(w, n)
  BY <1>3 DEF Own, Ends
<1> QED
  BY <1>1, <1>2, <1>4, OneMoves

\* What is in the record of a node that is about to be called up to date.
LEMMA RecordIsOfThisWorld ==
    ASSUME HeadersAreBelow, disk \in Worlds, NEW n \in Nodes, RecordTrue(n),
           record[n].result = GoodResult, out[n] # {},
           \/ n \in Cacheable /\ record[n].leaf = SignatureIn(disk)[n]
           \/ record[n].signature = Clean(disk)[n]
    PROVE  /\ out[n] = Clean(disk)[n]
           /\ n \in Cacheable => Covers(SignatureIn(disk)[n], out[n])
           /\ n \notin Cacheable => record[n].implicit = CleanScan(n, disk)
<1>1. PICK v \in Worlds : RecordOf(n, v)
  BY DEF RecordTrue
<1>2. CASE n \in Cacheable
  <2>1. CASE record[n].leaf = SignatureIn(disk)[n]
    <3>1. SignatureIn(v)[n] = SignatureIn(disk)[n] /\ Covers(SignatureIn(v)[n], Clean(v)[n])
      BY <1>1, <1>2, <2>1 DEF RecordOf
    <3>2. Clean(disk)[n] = Clean(v)[n]
      BY <1>2, <3>1, SignatureTellsOutput
    <3> QED
      BY <1>1, <1>2, <3>1, <3>2 DEF RecordOf
  <2>2. CASE record[n].signature = Clean(disk)[n]
    <3>1. Clean(disk)[n] = Clean(v)[n]
      <4>1. CASE Clean(disk)[n] = {}
        BY <1>1, <4>1, CleanIsKnownByItsTexts
      <4>2. CASE Clean(disk)[n] = out[n]
        BY <1>1, <4>2 DEF RecordOf
      <4> QED
        BY <1>1, <1>2, <2>2, <4>1, <4>2 DEF RecordOf
    <3>2. SignatureIn(disk)[n] = SignatureIn(v)[n]
      BY <1>2, <3>1, OutputTellsSignature
    <3> QED
      BY <1>1, <1>2, <3>1, <3>2 DEF RecordOf
  <2> QED
    BY <1>2, <2>1, <2>2
<1>3. CASE n \notin Cacheable
  <2>1. Clean(disk)[n] = Clean(v)[n] /\ out[n] = Clean(v)[n] /\ record[n].implicit = CleanScan(n, v)
    BY <1>1, <1>3 DEF RecordOf
  <2>2. Clean(v)[n] \subseteq Texts(Files, disk)
    BY <2>1, CleanIsOfTheWorld
  <2>3. CleanScan(n, disk) = CleanScan(n, v)
    BY <2>2, CleanIsKnownByItsTexts
  <2> QED
    BY <1>3, <2>1, <2>3
<1> QED
  BY <1>2, <1>3

---------------------------------------------------------------------------
(* The steps of a worker *)

LEMMA ProcessNodeKeeps ==
    ASSUME TruthInv, FramesOK, NEW w \in Workers, NEW n \in Nodes, ProcessNode(w, n)
    PROVE  TruthInv'
<1> DEFINE p == IF CachesNode(n) /\ n \notin attempted
                THEN IF leaf[n] = None THEN "calculate" ELSE "lookup"
                ELSE "dependencies"
           s == IF leaf[n] = None THEN <<n>> ELSE <<>>
           r == [worker[w] EXCEPT !.node = n, !.pc = p, !.stack = s]
<1>1. worker' = [worker EXCEPT ![w] = r]
  BY DEF ProcessNode
<1>2. /\ phase = "building" /\ worker[w].pc = "idle" /\ ~node[n].finished /\ ~IsActive(n)
      /\ UNCHANGED <<phase, disk, intrusions, mode, record, out, leaf, seen, node, cache, attempted>>
  BY DEF ProcessNode, world, client, builds
<1>3. r.node = n /\ r.pc = p /\ r.stack = s
  BY DEF FramesOK, Fields
<1>4. p \in {"calculate", "lookup", "dependencies"}
  OBVIOUS
<1>5. InBuild /\ NodeOK(n) /\ RecordOK(n) /\ mode.writes
  BY <1>2 DEF InBuild, TruthInv, WorldOK
<1>6. node[n].result = "DidNotRun"
  BY <1>2, <1>5 DEF NodeOK
<1>7. CachesNode(n) <=> n \in Cacheable
  BY <1>5 DEF CachesNode
<1> HIDE DEF r
<1>8. worker'[w] = r /\ \A v \in Workers \ {w} : worker'[v] = worker[v]
  BY <1>1, NewWorker
<1>9. \A v \in Workers : worker[v].node # n
  BY <1>2 DEF IsActive
<1>10. Alone(w, n)
  BY <1>2, <1>3, <1>5, <1>6, <1>8, <1>9 DEF Alone
<1>11. WorkerOK(w)'
  <2>1. AtWork(w, n)'
    BY <1>2, <1>5, <1>6 DEF AtWork, InBuild
  <2>2. Prepared(w, n)'
    <3>1. n \in Cacheable /\ p # "calculate" => leaf[n] # None
      BY <1>7 DEF TruthInv
    <3>2. p \in {"calculate", "lookup"} => n \in Cacheable
      BY <1>7
    <3>3. p = "calculate" => s = <<n>>
      OBVIOUS
    <3>4. n \in Cacheable => <<n>> # <<>> /\ <<n>> \in Seq(Cacheable) /\ Head(<<n>>) = n
      OBVIOUS
    <3> HIDE DEF p, s
    <3> QED
      BY <1>2, <1>3, <1>4, <1>8, <3>1, <3>2, <3>3, <3>4 DEF Prepared
  <2>3. Running(w, n)'
    BY <1>3, <1>4, <1>8 DEF Running, HasRun
  <2> QED
    BY <1>3, <1>8, <2>1, <2>2, <2>3 DEF WorkerOK
<1>12. NodeOK(n)'
  BY <1>2, <1>5 DEF NodeOK
<1>13. RecordOK(n)'
  <2>1. RecordTrue(n)
    BY <1>5, <1>6, <1>9 DEF RecordOK
  <2>2. RecordTrue(n)'
    BY <1>2, <2>1 DEF RecordTrue, RecordOf
  <2> QED
    BY <2>2 DEF RecordOK
<1>14. Own(w, n)
  BY <1>2, <1>5, <1>11, <1>12, <1>13, KnownStays DEF Own, TruthInv, WorldOK, NodesOK
<1> QED
  BY <1>10, <1>14, OneMoves

LEMMA CalculateChildKeeps ==
    ASSUME TruthInv, FramesOK, NEW w \in Workers, NEW child \in Nodes, CalculateChild(w, child)
    PROVE  TruthInv'
<1> DEFINE r == [worker[w] EXCEPT !.stack = Append(@, child)]
<1>1. PICK n : n = worker[w].node
  OBVIOUS
<1>2. /\ worker' = [worker EXCEPT ![w] = r] /\ worker[w].pc = "calculate"
      /\ UNCHANGED <<phase, disk, intrusions, mode, record, out, leaf, seen, node, cache, attempted>>
  BY DEF CalculateChild, world, client, builds
<1>3. r.node = n /\ r.pc = "calculate" /\ r.stack = Append(worker[w].stack, child)
  BY <1>1, <1>2 DEF FramesOK, Fields
<1> HIDE DEF r
<1>4. worker'[w] = r /\ \A v \in Workers \ {w} : worker'[v] = worker[v]
  BY <1>2, NewWorker
<1>5. AtWork(w, n) /\ Prepared(w, n) /\ InBuild /\ phase \in {"building", "croaked"}
  BY <1>1, <1>2, WorkerFacts
<1>6. child \in Cacheable
  BY DEF CalculateChild, CacheableDependencies
<1>7. Aside(w)
  BY <1>2, <1>4, <1>5, KnownStays DEF Aside
<1>8. WorkerOK(w)'
  <2>1. AtWork(w, n)'
    BY <1>2, <1>5 DEF AtWork, InBuild
  <2>2. Prepared(w, n)'
    <3> DEFINE t == worker[w].stack
    <3>1. t # <<>> /\ t \in Seq(Cacheable) /\ Head(t) = n
      BY <1>2, <1>5 DEF Prepared
    <3> HIDE DEF t
    <3>2. Append(t, child) # <<>> /\ Append(t, child) \in Seq(Cacheable) /\ Head(Append(t, child)) = n
      BY <1>6, <3>1
    <3>3. worker'[w].stack = Append(t, child)
      BY <1>3, <1>4 DEF t
    <3> QED
      BY <1>3, <1>4, <3>2, <3>3 DEF Prepared
  <2>3. Running(w, n)'
    BY <1>3, <1>4 DEF Running, HasRun
  <2> QED
    BY <1>3, <1>4, <2>1, <2>2, <2>3 DEF WorkerOK
<1>9. ~HasRun(w)
  BY <1>2 DEF HasRun
<1> QED
  BY <1>1, <1>2, <1>3, <1>4, <1>7, <1>8, <1>9, OthersAreElsewhere

\* All but the last of several begins as they do.
LEMMA FrontBeginsAlike ==
    ASSUME NEW S, NEW t \in Seq(S), t # <<>>, Len(t) # 1
    PROVE  Front(t) # <<>> /\ Front(t) \in Seq(S) /\ Head(Front(t)) = Head(t)
<1>1. PICK k \in Nat : k = Len(t) /\ k # 0 /\ k # 1
  BY EmptySeq
<1>2. PICK m \in Int : m = k - 1 /\ 1 <= m /\ m - 1 + 1 = m /\ m <= k
  BY <1>1
<1>3. Front(t) = SubSeq(t, 1, m)
  BY <1>1, <1>2 DEF Front
<1>4. \A i \in 1 .. m : t[i] \in S
  BY <1>1, <1>2
<1>5. /\ SubSeq(t, 1, m) \in Seq(S)
      /\ Len(SubSeq(t, 1, m)) = IF 1 <= m THEN m - 1 + 1 ELSE 0
      /\ \A i \in 1 .. m - 1 + 1 : SubSeq(t, 1, m)[i] = t[1 + i - 1]
  BY <1>4, SubSeqProperties
<1>6. Front(t) \in Seq(S) /\ Len(Front(t)) = m
  BY <1>2, <1>3, <1>5
<1>7. Front(t)[1] = t[1]
  <2>1. 1 \in 1 .. m - 1 + 1 /\ 1 + 1 - 1 = 1
    BY <1>2
  <2> QED
    BY <1>3, <1>5, <2>1
<1>8. Front(t) # <<>>
  BY <1>2, <1>6
<1> QED
  BY <1>6, <1>7, <1>8

\* What is published is the signature of the world, whoever computes it.
LEMMA SignatureIsTheWorlds ==
    ASSUME TruthInv, InBuild, NEW n \in Cacheable,
           \A d \in CacheableDependencies(n) : leaf[d] # None
    PROVE  Signature(n) = SignatureIn(disk)[n]
<1>1. n \in Nodes /\ CacheableDependencies(n) \subseteq Nodes /\ disk \in Worlds
  BY Graph, ScopeIsBelow DEF TruthInv, WorldOK
<1>2. \A d \in CacheableDependencies(n) : leaf[d].value = SignatureIn(disk)[d]
  BY <1>1 DEF TruthInv, LeafOK
<1>3. {leaf[d].value : d \in CacheableDependencies(n)} = {SignatureIn(disk)[d] : d \in CacheableDependencies(n)}
  BY <1>2
<1>4. View = disk
  BY ViewIsTheDisk DEF TruthInv
<1>5. SignatureIn(disk)[n] =
        LeafInputSignature(n, disk, {SignatureIn(disk)[d] : d \in CacheableDependencies(n)})
  BY <1>1, SignatureIsDefined
<1> QED
  BY <1>3, <1>4, <1>5 DEF Signature

LEMMA PublishKeeps ==
    ASSUME TruthInv, FramesOK, NEW w \in Workers, Publish(w)
    PROVE  TruthInv'
<1> DEFINE t == worker[w].stack
           p == IF Len(t) = 1 THEN "lookup" ELSE "calculate"
           r == [worker[w] EXCEPT !.stack = Front(@), !.pc = p]
<1>0. PICK k : k = Calculating(w)
  OBVIOUS
<1>1. PICK n : n = worker[w].node
  OBVIOUS
<1>2. /\ worker[w].pc = "calculate" /\ worker' = [worker EXCEPT ![w] = r]
      /\ \A d \in CacheableDependencies(k) : leaf[d] # None
      /\ leaf' = Published(k, w) /\ seen' = Looked(LeafInputs(k, View))
      /\ UNCHANGED <<phase, disk, intrusions, mode, record, out, node, cache, attempted>>
  <2>1. worker' = [worker EXCEPT ![w] = r]
    BY DEF Publish
  <2> QED
    BY <1>0, <2>1 DEF Publish, world, client, builds
<1>3. r.node = n /\ r.pc = p /\ r.stack = Front(t)
  BY <1>1, <1>2 DEF FramesOK, Fields
<1> HIDE DEF r
<1>4. worker'[w] = r /\ \A v \in Workers \ {w} : worker'[v] = worker[v]
  BY <1>2, NewWorker
<1>5. /\ AtWork(w, n) /\ Prepared(w, n) /\ InBuild /\ phase \in {"building", "croaked"}
      /\ n \in Nodes /\ NodeOK(n) /\ RecordTrue(n) /\ disk \in Worlds
      /\ \A v \in Workers \ {w} : worker[v].pc # "idle" => worker[v].node # n
  BY <1>1, <1>2, WorkerFacts DEF HasRun
<1>6. t # <<>> /\ t \in Seq(Cacheable) /\ Head(t) = n
  BY <1>2, <1>5 DEF Prepared
<1>7. k \in Cacheable /\ k \in Nodes /\ k = t[Len(t)] /\ Len(t) \in Nat \ {0}
  BY <1>0, <1>6, Graph DEF Calculating, Last
<1>8. Len(t) = 1 => k = n
  BY <1>6, <1>7
<1>9. Len(t) # 1 => Front(t) # <<>> /\ Front(t) \in Seq(Cacheable) /\ Head(Front(t)) = n
  <2> HIDE DEF t
  <2> QED
    BY <1>6, FrontBeginsAlike
<1>10. /\ leaf'[k] # None /\ LeafOK(k)'
       /\ \A m \in Nodes \ {k} : leaf'[m] = leaf[m]
  <2>1. CASE leaf[k] = None
    <3> DEFINE e == [value |-> Signature(k), by |-> w]
    <3>1. leaf' = [leaf EXCEPT ![k] = e]
      BY <1>2, <2>1 DEF Published
    <3>2. leaf'[k] = e /\ \A m \in Nodes \ {k} : leaf'[m] = leaf[m]
      BY <1>7, <3>1, Graph DEF FramesOK
    <3>3. e.value = SignatureIn(disk)[k]
      BY <1>2, <1>5, <1>7, SignatureIsTheWorlds
    <3>4. e # None
      <4>1. e.value.node = k /\ k \in Nodes
        BY <1>5, <1>7, <3>3, SignatureIs
      <4>2. None.value.node = "none"
        BY DEF None, NoSignature
      <4> HIDE DEF e
      <4> QED
        BY <4>1, <4>2, Graph
    <3> HIDE DEF e
    <3> QED
      BY <1>2, <1>7, <3>2, <3>3, <3>4 DEF LeafOK
  <2>2. CASE leaf[k] # None
    <3>1. leaf' = leaf
      BY <1>2, <2>2 DEF Published
    <3>2. LeafOK(k)
      BY <1>5, <1>7, Graph DEF TruthInv
    <3> QED
      BY <1>2, <2>2, <3>1, <3>2 DEF LeafOK
  <2> QED
    BY <2>1, <2>2
<1>11. \A f \in Files : seen'[f] \in {Unknown, disk[f]}
  BY <1>2, <1>5, ViewIsTheDisk DEF TruthInv
<1> HIDE DEF t
<1>12. p \in {"lookup", "calculate"}
  OBVIOUS
<1>13. \A m \in Nodes : leaf[m] # None => leaf'[m] # None
  BY <1>10
<1>14. Alone(w, n)
  BY <1>1, <1>2, <1>3, <1>4, <1>5 DEF Alone, AtWork
<1>15. WorkerOK(w)'
  <2>1. AtWork(w, n)'
    BY <1>2, <1>5 DEF AtWork, InBuild
  <2>2. Prepared(w, n)'
    <3>1. p = "lookup" => n = k /\ n \in Cacheable /\ leaf'[n] # None
      BY <1>7, <1>8, <1>10
    <3>2. p = "calculate" => Front(t) # <<>> /\ Front(t) \in Seq(Cacheable) /\ Head(Front(t)) = n
      BY <1>9
    <3> HIDE DEF p
    <3> QED
      BY <1>3, <1>4, <1>12, <3>1, <3>2 DEF Prepared
  <2>3. Running(w, n)'
    BY <1>3, <1>4, <1>12 DEF Running, HasRun
  <2> QED
    BY <1>3, <1>4, <2>1, <2>2, <2>3 DEF WorkerOK
<1>16. NodeOK(n)'
  BY <1>2, <1>5, <1>13 DEF NodeOK
<1>17. RecordOK(n)'
  BY <1>2, <1>5 DEF RecordOK, RecordTrue, RecordOf
<1>18. \A m \in Nodes \cap attempted : leaf'[m] # None
  BY <1>13 DEF TruthInv
<1>19. Own(w, n)
  BY <1>2, <1>5, <1>10, <1>11, <1>15, <1>16, <1>17, <1>18, KnownStays DEF Own, TruthInv, WorldOK, NodesOK
<1> QED
  BY <1>5, <1>14, <1>19, OneMoves

\* The worker is free, and the node has another result.
LEMMA FinishIs ==
    ASSUME FramesOK, NodesOK, NEW w \in Workers, NEW n \in Nodes, NEW result, Finish(w, n, result)
    PROVE  /\ worker'[w].pc = "idle" /\ \A v \in Workers \ {w} : worker'[v] = worker[v]
           /\ NodesOK' /\ \A m \in Nodes \ {n} : node'[m] = node[m]
           /\ node'[n].result = result /\ node'[n].finished
           /\ node'[n].signature = node[n].signature /\ node'[n].implicit = node[n].implicit
<1> DEFINE r == [node[n] EXCEPT !.result = result, !.finished = TRUE]
<1>1. worker' = [worker EXCEPT ![w] = Idle]
  BY DEF Finish
<1>2. worker'[w] = Idle /\ \A v \in Workers \ {w} : worker'[v] = worker[v]
  BY <1>1, NewWorker
<1>3. node' = [node EXCEPT ![n] = r]
  BY DEF Finish, NodesOK
<1>4. /\ r = [x \in NodeFields |-> r[x]] /\ r.result = result /\ r.finished
      /\ r.signature = node[n].signature /\ r.implicit = node[n].implicit
  <2> DEFINE old == node[n]
  <2>1. old = [x \in NodeFields |-> old[x]]
    BY DEF NodesOK
  <2> HIDE DEF old
  <2>2. r = [old EXCEPT !.result = result, !.finished = TRUE]
    BY DEF old
  <2> HIDE DEF r
  <2>3. DOMAIN r = NodeFields /\ r = [x \in NodeFields |-> r[x]]
    BY <2>1, <2>2
  <2>4. r.result = result /\ r.finished /\ r.signature = old.signature /\ r.implicit = old.implicit
    BY <2>1, <2>2 DEF NodeFields
  <2> QED
    BY <2>3, <2>4 DEF old
<1> HIDE DEF r
<1>5. NodesOK' /\ node'[n] = r /\ \A m \in Nodes \ {n} : node'[m] = node[m]
  BY <1>3, <1>4, NewNode
<1> QED
  BY <1>2, <1>4, <1>5, IdleIsAFrame

\* What was before is what is, when a node ends as what it was found to be.
LEMMA FinishEnds ==
    ASSUME TruthInv, FramesOK, NEW w \in Workers, worker[w].pc # "idle", NEW n, worker[w].node = n,
           NEW result, Finish(w, n, result),
           UNCHANGED <<phase, disk, intrusions, mode, record, leaf, out, seen, attempted>>,
           \A e \in cache' : EntryOK(e),
           result \in Success \cup {"DidNotRun", "RanFailed"},
           result \in Success => out[n] = Clean(disk)[n],
           result \in Success /\ n \in Cacheable => Covers(SignatureIn(disk)[n], out[n]) /\ leaf[n] # None,
           result \in Success /\ n \notin Cacheable =>
                \A d \in Deps[n] : node[d].result \in Success,
           result = "UpToDate" /\ n \notin Cacheable => record[n].implicit = CleanScan(n, disk),
           result = "RanSuccesfully" /\ n \notin Cacheable =>
                node[n].signature = Clean(disk)[n] /\ node[n].implicit = CleanScan(n, disk),
           result \in {"RanSuccesfully", "RanFailed"} \/ ~HasRun(w)
    PROVE  TruthInv'
<1>1. /\ AtWork(w, n) /\ n \in Nodes /\ InBuild /\ NodeOK(n) /\ RecordOK(n)
      /\ ~HasRun(w) => RecordTrue(n)
      /\ phase \in {"building", "croaked"} /\ out \in Outputs
  BY WorkerFacts
<1>2. /\ worker'[w].pc = "idle" /\ \A v \in Workers \ {w} : worker'[v] = worker[v]
      /\ NodesOK' /\ \A m \in Nodes \ {n} : node'[m] = node[m]
      /\ node'[n].result = result /\ node'[n].finished
      /\ node'[n].signature = node[n].signature /\ node'[n].implicit = node[n].implicit
  BY <1>1, FinishIs DEF TruthInv
<1>3. Ends(w, n)
  BY <1>1, <1>2, KnownStays DEF Ends
<1>4. NodeOK(n)'
  <2>1. \A d \in Deps[n] : d # n /\ node'[d] = node[d]
    BY <1>1, <1>2, DepsAreBelow, Graph
  <2> QED
    BY <1>1, <1>2, <2>1 DEF NodeOK, Success
<1>5. RecordOK(n)'
  <2>1. CASE result \in {"RanSuccesfully", "RanFailed"}
    BY <1>1, <1>2, <2>1 DEF RecordOK, InBuild
  <2>2. CASE ~HasRun(w)
    BY <1>1, <2>2 DEF RecordOK, RecordTrue, RecordOf
  <2> QED
    BY <2>1, <2>2
<1> QED
  BY <1>3, <1>4, <1>5, OthersGoOn

\* The worker goes on with the same node.
LEMMA StepIs ==
    ASSUME FramesOK, NEW w \in Workers, NEW pc, Step(w, pc)
    PROVE  /\ worker'[w].pc = pc /\ worker'[w].node = worker[w].node
           /\ worker'[w].stored = worker[w].stored /\ worker'[w].then = worker[w].then
           /\ \A v \in Workers \ {w} : worker'[v] = worker[v]
BY DEF FramesOK, Step, Fields

LEMMA StepToDependencies ==
    ASSUME TruthInv, NEW w \in Workers, worker[w].pc # "idle", ~HasRun(w),
           worker'[w].pc \in {"dependencies", "read"} \/ (worker'[w].pc = "count" /\ worker'[w].then = "dependencies"),
           worker'[w].node = worker[w].node,
           worker[w].node \in Cacheable, leaf[worker[w].node] # None,
           Aside(w), UNCHANGED node
    PROVE  TruthInv'
<1>1. PICK n : n = worker[w].node
  OBVIOUS
<1>2. AtWork(w, n) /\ InBuild /\ phase' # "between"
  BY <1>1, WorkerFacts DEF Aside
<1>3. AtWork(w, n)'
  BY <1>2 DEF AtWork, InBuild, Aside
<1>4. Prepared(w, n)'
  BY <1>1 DEF Prepared, Aside
<1>5. Running(w, n)'
  BY DEF Running, HasRun
<1>6. WorkerOK(w)'
  BY <1>1, <1>3, <1>4, <1>5 DEF WorkerOK
<1> QED
  BY <1>1, <1>6, OthersAreElsewhere

LEMMA LookupKeeps ==
    ASSUME TruthInv, FramesOK, HeadersAreBelow, NEW w \in Workers, Lookup(w)
    PROVE  TruthInv'
<1>1. PICK n : n = worker[w].node
  OBVIOUS
<1>2. /\ worker[w].pc = "lookup"
      /\ UNCHANGED <<phase, disk, intrusions, mode, record, out, cache, leaf, seen>>
  BY DEF Lookup, world, client, builds
<1>3. /\ AtWork(w, n) /\ Prepared(w, n) /\ n \in Nodes /\ InBuild /\ LeafOK(n) /\ RecordTrue(n)
      /\ phase \in {"building", "croaked"} /\ disk \in Worlds /\ ~HasRun(w)
  BY <1>1, <1>2, WorkerFacts DEF HasRun
<1>4. n \in Cacheable /\ leaf[n] # None /\ leaf[n].value = SignatureIn(disk)[n]
  BY <1>2, <1>3 DEF Prepared, LeafOK
<1>5. ASSUME Finish(w, n, "UpToDate"), UNCHANGED attempted, IsConsistent(n) PROVE TruthInv'
  <2>1. record[n].result = GoodResult /\ record[n].leaf = SignatureIn(disk)[n] /\ out[n] # {}
    BY <1>4, <1>5 DEF IsConsistent, GoodResult
  <2>2. out[n] = Clean(disk)[n] /\ Covers(SignatureIn(disk)[n], out[n])
    BY <1>3, <1>4, <2>1, RecordIsOfThisWorld
  <2>3. \A e \in cache' : EntryOK(e)
    BY <1>2, <1>3, KnownStays
  <2> QED
    BY <1>1, <1>2, <1>3, <1>4, <1>5, <2>2, <2>3, FinishEnds DEF Success
<1>6. ASSUME NEW p \in {"dependencies", "read"}, Step(w, p), UNCHANGED node,
             attempted' \in {attempted, attempted \cup {n}}
      PROVE  TruthInv'
  <2>1. worker'[w].pc = p /\ worker'[w].node = n /\ \A v \in Workers \ {w} : worker'[v] = worker[v]
    BY <1>1, <1>6, StepIs
  <2>2. Aside(w)
    BY <1>2, <1>3, <1>4, <1>6, <2>1, KnownStays DEF Aside
  <2> QED
    BY <1>1, <1>2, <1>3, <1>4, <1>6, <2>1, <2>2, StepToDependencies
<1>7. \/ Finish(w, n, "UpToDate") /\ UNCHANGED attempted /\ IsConsistent(n)
      \/ /\ UNCHANGED node /\ attempted' \in {attempted, attempted \cup {n}}
         /\ \E p \in {"dependencies", "read"} : Step(w, p)
  BY <1>1 DEF Lookup
<1> QED
  BY <1>5, <1>6, <1>7

LEMMA CacheHitKeeps ==
    ASSUME TruthInv, FramesOK, HeadersAreBelow, NEW w \in Workers, CacheHit(w)
    PROVE  TruthInv'
<1>1. PICK n : n = worker[w].node
  OBVIOUS
<1>2. /\ worker[w].pc = "read" /\ worker' = [worker EXCEPT ![w] = Idle]
      /\ node' = [node EXCEPT ![n].result = "RanSuccesfully", ![n].finished = TRUE, ![n].guaranteed = TRUE]
      /\ UNCHANGED <<phase, disk, intrusions, mode, record, cache, leaf, seen, attempted>>
  BY <1>1 DEF CacheHit, world, client, builds
<1>3. PICK e \in cache : e.signature = leaf[n].value /\ out' = [out EXCEPT ![n] = e.output]
  BY <1>1 DEF CacheHit
<1>4. /\ AtWork(w, n) /\ Prepared(w, n) /\ n \in Nodes /\ InBuild /\ LeafOK(n) /\ NodeOK(n)
      /\ phase \in {"building", "croaked"} /\ disk \in Worlds /\ out \in Outputs
  BY <1>1, <1>2, WorkerFacts
<1>5. n \in Cacheable /\ leaf[n] # None /\ leaf[n].value = SignatureIn(disk)[n]
  BY <1>2, <1>4 DEF Prepared, LeafOK
<1>6. e.output = Clean(disk)[n] /\ Covers(SignatureIn(disk)[n], e.output)
  <2>1. PICK v \in Worlds, m \in Cacheable :
            /\ e.signature = SignatureIn(v)[m] /\ e.output = Clean(v)[m]
            /\ Covers(SignatureIn(v)[m], Clean(v)[m])
    BY <1>3 DEF TruthInv, EntryOK
  <2>2. SignatureIn(v)[m] = SignatureIn(disk)[n]
    BY <1>3, <1>5, <2>1
  <2>3. n = m /\ Clean(disk)[n] = Clean(v)[m]
    BY <1>4, <1>5, <2>1, <2>2, SignatureTellsOutput
  <2> QED
    BY <2>1, <2>2, <2>3
<1>7. e.output \in SUBSET AllTexts
  BY <1>4, <1>6, CleanIsProduced DEF Outputs
<1>8. out' \in Outputs /\ out'[n] = e.output /\ \A m \in Nodes \ {n} : out'[m] = out[m]
  BY <1>3, <1>4, <1>7, NewOutput
<1> DEFINE r == [node[n] EXCEPT !.result = "RanSuccesfully", !.finished = TRUE, !.guaranteed = TRUE]
<1>9. node' = [node EXCEPT ![n] = r]
  BY <1>2 DEF TruthInv, NodesOK
<1>10. /\ r = [x \in NodeFields |-> r[x]] /\ r.result = "RanSuccesfully" /\ r.finished
       /\ r.signature = node[n].signature
  BY <1>4 DEF TruthInv, NodesOK, NodeFields
<1> HIDE DEF r
<1>11. NodesOK' /\ node'[n] = r /\ \A m \in Nodes \ {n} : node'[m] = node[m]
  BY <1>4, <1>9, <1>10, NewNode DEF TruthInv
<1>12. worker'[w].pc = "idle" /\ \A v \in Workers \ {w} : worker'[v] = worker[v]
  BY <1>2, NewWorker, IdleIsAFrame
<1>13. Ends(w, n)
  BY <1>2, <1>4, <1>8, <1>11, <1>12, KnownStays DEF Ends
<1>14. NodeOK(n)'
  BY <1>2, <1>4, <1>5, <1>6, <1>8, <1>10, <1>11 DEF NodeOK, Success
<1>15. RecordOK(n)'
  BY <1>2, <1>4, <1>10, <1>11 DEF RecordOK, InBuild
<1> QED
  BY <1>1, <1>2, <1>13, <1>14, <1>15, OthersGoOn

LEMMA CacheMissKeeps ==
    ASSUME TruthInv, FramesOK, NEW w \in Workers, CacheMiss(w) \/ CacheReadFails(w)
    PROVE  TruthInv'
<1>1. PICK n : n = worker[w].node
  OBVIOUS
<1>2. /\ worker[w].pc = "read"
      /\ UNCHANGED <<phase, disk, intrusions, mode, record, out, cache, leaf, seen, node, attempted>>
  BY DEF CacheMiss, CacheReadFails, world, client, builds
<1>3. /\ AtWork(w, n) /\ Prepared(w, n) /\ n \in Nodes /\ InBuild
      /\ phase \in {"building", "croaked"} /\ ~HasRun(w)
  BY <1>1, <1>2, WorkerFacts DEF HasRun
<1>4. n \in Cacheable /\ leaf[n] # None
  BY <1>2, <1>3 DEF Prepared
<1>5. /\ worker'[w].pc = "dependencies" \/ (worker'[w].pc = "count" /\ worker'[w].then = "dependencies")
      /\ worker'[w].node = n /\ \A v \in Workers \ {w} : worker'[v] = worker[v]
  <2>1. CASE CacheMiss(w)
    BY <1>1, <2>1, StepIs DEF CacheMiss
  <2>2. CASE CacheReadFails(w)
    BY <1>1, <2>2 DEF CacheReadFails, ClientFails, FramesOK, Fields
  <2> QED
    BY <2>1, <2>2
<1>6. Aside(w)
  BY <1>2, <1>3, <1>5, KnownStays DEF Aside
<1> QED
  BY <1>1, <1>2, <1>3, <1>4, <1>5, <1>6, StepToDependencies

\* What the worker knows of a node that has run.
LEMMA HasRunFacts ==
    ASSUME TruthInv, NEW w \in Workers, HasRun(w), worker[w].pc # "validate", NEW n, worker[w].node = n
    PROVE  /\ worker[w].pc # "idle" /\ AtWork(w, n) /\ n \in Nodes /\ InBuild /\ disk \in Worlds
           /\ phase \in {"building", "croaked"}
           /\ n \in Cacheable /\ leaf[n] # None /\ leaf[n].value = SignatureIn(disk)[n]
           /\ out[n] = Clean(disk)[n] /\ Covers(SignatureIn(disk)[n], out[n])
<1>1. worker[w].pc \notin {"idle", "calculate"}
  BY DEF HasRun
<1>2. /\ AtWork(w, n) /\ Prepared(w, n) /\ Running(w, n) /\ n \in Nodes /\ InBuild /\ LeafOK(n)
      /\ disk \in Worlds /\ phase \in {"building", "croaked"}
  BY <1>1, WorkerFacts
<1>3. n \in Cacheable /\ out[n] = Clean(disk)[n] /\ Covers(SignatureIn(disk)[n], out[n])
  BY <1>2 DEF Running
<1>4. leaf[n] # None
  BY <1>1, <1>2, <1>3 DEF Prepared
<1> QED
  BY <1>1, <1>2, <1>3, <1>4 DEF LeafOK

LEMMA SucceedsAfterRun ==
    ASSUME TruthInv, FramesOK, NEW w \in Workers, HasRun(w), worker[w].pc # "validate",
           Finish(w, worker[w].node, "RanSuccesfully"),
           UNCHANGED <<phase, disk, intrusions, mode, record, leaf, out, seen, attempted>>,
           \A e \in cache' : EntryOK(e)
    PROVE  TruthInv'
<1>1. PICK n : n = worker[w].node
  OBVIOUS
<1>2. /\ worker[w].pc # "idle" /\ n \in Cacheable /\ leaf[n] # None
      /\ out[n] = Clean(disk)[n] /\ Covers(SignatureIn(disk)[n], out[n])
  BY <1>1, HasRunFacts
<1> QED
  BY <1>1, <1>2, FinishEnds DEF Success

LEMMA CountFailureKeeps ==
    ASSUME TruthInv, FramesOK, NEW w \in Workers, CountFailure(w)
    PROVE  TruthInv'
<1>1. /\ worker[w].pc = "count" /\ worker[w].then \in {"dependencies", "finish"}
      /\ UNCHANGED <<phase, disk, intrusions, mode, record, out, cache, leaf, seen, attempted>>
  BY DEF CountFailure, FramesOK, world, builds
<1>2. InBuild
  BY <1>1, WorkerFacts
<1>3. CASE worker[w].then = "finish"
  <2>1. HasRun(w) /\ Finish(w, worker[w].node, "RanSuccesfully")
    BY <1>1, <1>3 DEF HasRun, CountFailure
  <2>2. \A e \in cache' : EntryOK(e)
    BY <1>1, <1>2, KnownStays
  <2> QED
    BY <1>1, <2>1, <2>2, SucceedsAfterRun
<1>4. CASE worker[w].then = "dependencies"
  <2>1. PICK n : n = worker[w].node
    OBVIOUS
  <2>2. Step(w, "dependencies") /\ UNCHANGED node
    BY <1>4 DEF CountFailure
  <2>3. worker'[w].pc = "dependencies" /\ worker'[w].node = n /\ \A v \in Workers \ {w} : worker'[v] = worker[v]
    BY <2>1, <2>2, StepIs
  <2>4. /\ AtWork(w, n) /\ Prepared(w, n) /\ phase \in {"building", "croaked"} /\ ~HasRun(w)
    BY <1>1, <1>4, <2>1, WorkerFacts DEF HasRun
  <2>5. Aside(w)
    BY <1>1, <1>2, <2>3, <2>4, KnownStays DEF Aside
  <2>6. WorkerOK(w)'
    <3>1. AtWork(w, n)'
      BY <1>1, <2>2, <2>4 DEF AtWork, InBuild
    <3>2. Prepared(w, n)'
      BY <1>1, <2>3, <2>4 DEF Prepared
    <3>3. Running(w, n)'
      BY <2>3 DEF Running, HasRun
    <3> QED
      BY <2>3, <3>1, <3>2, <3>3 DEF WorkerOK
  <2> QED
    BY <1>1, <2>1, <2>2, <2>3, <2>4, <2>5, <2>6, OthersAreElsewhere
<1> QED
  BY <1>1, <1>3, <1>4

LEMMA EnqueueDependenciesKeeps ==
    ASSUME TruthInv, FramesOK, NEW w \in Workers, EnqueueDependencies(w)
    PROVE  TruthInv'
<1>1. PICK n : n = worker[w].node
  OBVIOUS
<1>2. /\ worker[w].pc = "dependencies" /\ worker' = [worker EXCEPT ![w] = Idle]
      /\ node' = [node EXCEPT ![n].waits = TRUE]
      /\ UNCHANGED <<phase, disk, intrusions, mode, record, out, cache, leaf, seen, attempted>>
  BY <1>1 DEF EnqueueDependencies, world, client, builds
<1>3. /\ AtWork(w, n) /\ n \in Nodes /\ InBuild /\ NodeOK(n) /\ RecordTrue(n)
      /\ phase \in {"building", "croaked"} /\ out \in Outputs
  BY <1>1, <1>2, WorkerFacts DEF HasRun
<1> DEFINE r == [node[n] EXCEPT !.waits = TRUE]
<1>4. node' = [node EXCEPT ![n] = r]
  BY <1>2 DEF TruthInv, NodesOK
<1>5. /\ r = [x \in NodeFields |-> r[x]] /\ r.result = node[n].result
      /\ r.signature = node[n].signature
  BY <1>3 DEF TruthInv, NodesOK, NodeFields
<1> HIDE DEF r
<1>6. NodesOK' /\ node'[n] = r /\ \A m \in Nodes \ {n} : node'[m] = node[m]
  BY <1>3, <1>4, <1>5, NewNode DEF TruthInv
<1>7. worker'[w].pc = "idle" /\ \A v \in Workers \ {w} : worker'[v] = worker[v]
  BY <1>2, NewWorker, IdleIsAFrame
<1>8. Ends(w, n)
  BY <1>2, <1>3, <1>6, <1>7, KnownStays DEF Ends
<1>9. NodeOK(n)'
  BY <1>2, <1>3, <1>5, <1>6 DEF NodeOK, AtWork, Success
<1>10. RecordOK(n)'
  BY <1>2, <1>3 DEF RecordOK, RecordTrue, RecordOf
<1> QED
  BY <1>1, <1>2, <1>8, <1>9, <1>10, OthersGoOn

LEMMA DependencyFailedKeeps ==
    ASSUME TruthInv, FramesOK, NEW w \in Workers, DependencyFailed(w)
    PROVE  TruthInv'
<1>1. PICK n : n = worker[w].node
  OBVIOUS
<1>2. /\ worker[w].pc = "dependencies" /\ Finish(w, n, "DidNotRun")
      /\ UNCHANGED <<phase, disk, intrusions, mode, record, out, cache, leaf, seen, attempted>>
  BY <1>1 DEF DependencyFailed, world, client, builds
<1>3. ~HasRun(w) /\ InBuild
  BY <1>2, WorkerFacts DEF HasRun
<1>4. \A e \in cache' : EntryOK(e)
  BY <1>2, <1>3, KnownStays
<1> QED
  BY <1>1, <1>2, <1>3, <1>4, FinishEnds DEF Success

LEMMA CacheWriteKeeps ==
    ASSUME TruthInv, FramesOK, NEW w \in Workers, CacheWrite(w) \/ GiveUpWriting(w)
    PROVE  TruthInv'
<1>1. PICK n : n = worker[w].node
  OBVIOUS
<1>2. /\ worker[w].pc \in {"write", "finish"} /\ Finish(w, n, "RanSuccesfully")
      /\ UNCHANGED <<phase, disk, intrusions, mode, record, out, leaf, seen, attempted>>
  BY <1>1 DEF CacheWrite, GiveUpWriting, world, client, builds
<1>3. HasRun(w)
  BY <1>2 DEF HasRun
<1>4. /\ InBuild /\ disk \in Worlds /\ n \in Cacheable /\ leaf[n].value = SignatureIn(disk)[n]
      /\ out[n] = Clean(disk)[n] /\ Covers(SignatureIn(disk)[n], out[n])
  BY <1>1, <1>2, <1>3, HasRunFacts
<1>5. \A e \in cache' : EntryOK(e)
  <2>1. \A e \in cache : EntryOK(e)
    BY <1>4, KnownStays
  <2>2. CASE GiveUpWriting(w)
    BY <2>1, <2>2 DEF GiveUpWriting, client
  <2>3. CASE CacheWrite(w)
    <3> DEFINE e == [signature |-> leaf[n].value, output |-> out[n]]
    <3>1. cache' = cache \cup {e}
      BY <1>1, <2>3 DEF CacheWrite
    <3>2. e.signature = SignatureIn(disk)[n] /\ e.output = Clean(disk)[n]
      BY <1>4
    <3> HIDE DEF e
    <3>3. EntryOK(e)
      BY <1>4, <3>2 DEF EntryOK
    <3> QED
      BY <2>1, <3>1, <3>3
  <2> QED
    BY <2>2, <2>3
<1> QED
  BY <1>1, <1>2, <1>3, <1>5, SucceedsAfterRun

LEMMA CacheWriteFailsKeeps ==
    ASSUME TruthInv, FramesOK, NEW w \in Workers, CacheWriteFails(w)
    PROVE  TruthInv'
<1>1. PICK n : n = worker[w].node
  OBVIOUS
<1>2. /\ worker[w].pc = "write"
      /\ UNCHANGED <<phase, disk, intrusions, mode, record, out, cache, leaf, seen, node, attempted>>
  BY DEF CacheWriteFails, world, builds
<1>3. HasRun(w)
  BY <1>2 DEF HasRun
<1>4. /\ AtWork(w, n) /\ Prepared(w, n) /\ Running(w, n) /\ InBuild /\ phase \in {"building", "croaked"}
  BY <1>1, <1>2, WorkerFacts
<1>5. /\ worker'[w].pc = "count" /\ worker'[w].then = "finish" /\ worker'[w].node = n
      /\ worker'[w].stored = worker[w].stored
      /\ \A v \in Workers \ {w} : worker'[v] = worker[v]
  BY <1>1 DEF CacheWriteFails, ClientFails, FramesOK, Fields
<1>6. Aside(w) /\ HasRun(w)'
  BY <1>2, <1>4, <1>5, KnownStays DEF Aside, HasRun
<1>7. WorkerOK(w)'
  <2>1. AtWork(w, n)'
    BY <1>2, <1>4 DEF AtWork, InBuild
  <2>2. Prepared(w, n)'
    BY <1>2, <1>4, <1>5 DEF Prepared
  <2>3. Running(w, n)'
    BY <1>2, <1>3, <1>4, <1>5 DEF Running
  <2> QED
    BY <1>5, <2>1, <2>2, <2>3 DEF WorkerOK
<1> QED
  BY <1>1, <1>2, <1>5, <1>6, <1>7, OthersAreElsewhere

\* The signature of a node and what was scanned are taken down.
Checked(r, signature, implicit, result, finished) ==
    [r EXCEPT !.signature = signature, !.implicit = implicit,
              !.guaranteed = TRUE, !.result = result, !.finished = finished]

LEMMA CheckedRecord ==
    ASSUME NEW q, q = [x \in NodeFields |-> q[x]],
           NEW signature, NEW implicit, NEW result, NEW finished, NEW r,
           r = Checked(q, signature, implicit, result, finished)
    PROVE  /\ r = [x \in NodeFields |-> r[x]] /\ r.result = result /\ r.finished = finished
           /\ r.signature = signature /\ r.implicit = implicit
<1>1. r.result = result /\ r.finished = finished
  BY DEF NodeFields, Checked
<1>2. r.signature = signature /\ r.implicit = implicit
  BY DEF NodeFields, Checked
<1>3. r = [x \in NodeFields |-> r[x]]
  BY DEF NodeFields, Checked
<1> QED
  BY <1>1, <1>2, <1>3

LEMMA CheckInputSignatureKeeps ==
    ASSUME TruthInv, FramesOK, HeadersAreBelow, NEW w \in Workers, CheckInputSignature(w)
    PROVE  TruthInv'
<1>1. PICK n : n = worker[w].node
  OBVIOUS
<1>2. /\ worker[w].pc = "dependencies" /\ Successful(Deps[n])
      /\ UNCHANGED <<phase, disk, intrusions, mode, record, out, cache, leaf, attempted>>
  BY <1>1 DEF CheckInputSignature, world, client, builds
<1>3. seen' = Looked(Inputs[n] \cup NormalScan(n, View, out))
  BY <1>1 DEF CheckInputSignature
<1>4. /\ AtWork(w, n) /\ Prepared(w, n) /\ n \in Nodes /\ InBuild /\ NodeOK(n) /\ RecordTrue(n)
      /\ phase \in {"building", "croaked"} /\ disk \in Worlds /\ out \in Outputs
      /\ \A v \in Workers \ {w} : worker[v].pc # "idle" => worker[v].node # n
  BY <1>1, <1>2, WorkerFacts DEF HasRun
<1>5. View = disk /\ \A f \in Files : seen'[f] \in {Unknown, disk[f]}
  BY <1>3, <1>4, ViewIsTheDisk DEF TruthInv
<1>6. \A d \in Deps[n] : node[d].result \in Success
  BY <1>2 DEF Successful, Success
<1>7. NormalScan(n, View, out) = CleanScan(n, disk) /\ Produced(n, View, out) = Clean(disk)[n]
  BY <1>4, <1>5, <1>6, SuccessBelow
<1>8. \A d \in Deps[n] : d \in Nodes /\ d # n
  BY <1>4, DepsAreBelow, Graph
<1> DEFINE New(result) ==
        Checked(node[n], Produced(n, View, out), NormalScan(n, View, out), result, result = "UpToDate")
<1>9. ASSUME NEW result, node' = [node EXCEPT ![n] = New(result)]
      PROVE  /\ NodesOK' /\ \A m \in Nodes \ {n} : node'[m] = node[m]
             /\ node'[n].signature = Clean(disk)[n] /\ node'[n].implicit = CleanScan(n, disk)
             /\ node'[n].result = result /\ (node'[n].finished <=> result = "UpToDate")
             /\ \A d \in Deps[n] : node'[d].result \in Success
  <2>1. /\ NodesOK' /\ \A m \in Nodes \ {n} : node'[m] = node[m]
        /\ node'[n].signature = Produced(n, View, out) /\ node'[n].implicit = NormalScan(n, View, out)
        /\ node'[n].result = result /\ node'[n].finished = (result = "UpToDate")
    <3>1. PICK s, i, b :
            s = Produced(n, View, out) /\ i = NormalScan(n, View, out) /\ b = (result = "UpToDate")
      OBVIOUS
    <3>2. PICK q : q = node[n]
      OBVIOUS
    <3>3. PICK r : r = Checked(q, s, i, result, b)
      OBVIOUS
    <3>4. NodesOK /\ q = [x \in NodeFields |-> q[x]] /\ node' = [node EXCEPT ![n] = r]
      BY <1>4, <1>9, <3>1, <3>2, <3>3 DEF TruthInv, NodesOK
    <3>5. /\ r = [x \in NodeFields |-> r[x]] /\ r.result = result /\ r.finished = b
          /\ r.signature = s /\ r.implicit = i
      BY <3>3, <3>4, CheckedRecord
    <3>6. NodesOK' /\ node'[n] = r /\ \A m \in Nodes \ {n} : node'[m] = node[m]
      BY <1>4, <3>4, <3>5, NewNode
    <3> QED
      BY <3>1, <3>5, <3>6
  <2>2. \A d \in Deps[n] : node'[d].result \in Success
    BY <1>6, <1>8, <2>1
  <2> QED
    BY <1>7, <2>1, <2>2
<1>10. ASSUME node' = [node EXCEPT ![n] = New("UpToDate")], worker' = [worker EXCEPT ![w] = Idle],
              record[n].result = "RanSuccessfullyWithGuaranteedCorrectInputSignature",
              record[n].signature = Produced(n, View, out), out[n] # {}
       PROVE  TruthInv'
  <2>1. worker'[w].pc = "idle" /\ \A v \in Workers \ {w} : worker'[v] = worker[v]
    BY <1>10, NewWorker, IdleIsAFrame
  <2>2. /\ NodesOK' /\ \A m \in Nodes \ {n} : node'[m] = node[m]
        /\ node'[n].signature = Clean(disk)[n] /\ node'[n].implicit = CleanScan(n, disk)
        /\ node'[n].result = "UpToDate" /\ node'[n].finished
        /\ \A d \in Deps[n] : node'[d].result \in Success
    BY <1>9, <1>10
  <2>3. /\ out[n] = Clean(disk)[n]
        /\ n \in Cacheable => Covers(SignatureIn(disk)[n], out[n])
        /\ n \notin Cacheable => record[n].implicit = CleanScan(n, disk)
    <3>1. record[n].result = GoodResult /\ record[n].signature = Clean(disk)[n]
      BY <1>7, <1>10 DEF GoodResult
    <3> QED
      BY <1>4, <1>10, <3>1, RecordIsOfThisWorld
  <2>4. Ends(w, n)
    BY <1>2, <1>4, <1>5, <2>1, <2>2, KnownStays DEF Ends
  <2>5. NodeOK(n)'
    BY <1>2, <2>2, <2>3 DEF NodeOK, Success
  <2>6. RecordOK(n)'
    BY <1>2, <1>4 DEF RecordOK, RecordTrue, RecordOf
  <2> QED
    BY <1>1, <1>2, <2>4, <2>5, <2>6, OthersGoOn
<1>11. ASSUME node' = [node EXCEPT ![n] = New("DidNotRun")],
              worker' = [worker EXCEPT ![w] = [@ EXCEPT !.pc = "run", !.stored = Texts(Inputs[n], disk)]]
       PROVE  TruthInv'
  <2> DEFINE t == Texts(Inputs[n], disk)
             q == [worker[w] EXCEPT !.pc = "run", !.stored = t]
  <2>1. worker' = [worker EXCEPT ![w] = q]
    BY <1>11
  <2>2. q.pc = "run" /\ q.stored = t /\ q.node = n
    BY <1>1 DEF FramesOK, Fields
  <2> HIDE DEF t, q
  <2>3. worker'[w] = q /\ \A v \in Workers \ {w} : worker'[v] = worker[v]
    BY <2>1, NewWorker
  <2>4. /\ NodesOK' /\ \A m \in Nodes \ {n} : node'[m] = node[m]
        /\ node'[n].signature = Clean(disk)[n] /\ node'[n].implicit = CleanScan(n, disk)
        /\ node'[n].result = "DidNotRun" /\ ~node'[n].finished
        /\ \A d \in Deps[n] : node'[d].result \in Success
    BY <1>9, <1>11
  <2>5. Alone(w, n)
    BY <1>1, <1>2, <1>4, <2>2, <2>3, <2>4 DEF Alone, AtWork
  <2>6. WorkerOK(w)'
    <3>1. AtWork(w, n)'
      BY <1>2, <1>4, <2>4 DEF AtWork, InBuild
    <3>2. Prepared(w, n)'
      BY <1>2, <1>4, <2>2, <2>3 DEF Prepared
    <3>3. Running(w, n)'
      BY <1>2, <2>2, <2>3, <2>4 DEF Running, HasRun, t
    <3> QED
      BY <2>2, <2>3, <3>1, <3>2, <3>3 DEF WorkerOK
  <2>7. NodeOK(n)'
    BY <1>2, <2>4 DEF NodeOK, Success
  <2>8. RecordOK(n)'
    BY <1>2, <1>4 DEF RecordOK, RecordTrue, RecordOf
  <2>9. Own(w, n)
    BY <1>2, <1>4, <1>5, <2>4, <2>6, <2>7, <2>8, KnownStays DEF Own
  <2> QED
    BY <1>4, <2>5, <2>9, OneMoves
<1>12. \A result :
        [node EXCEPT ![n].signature = Produced(n, View, out),
               ![n].implicit = NormalScan(n, View, out), ![n].guaranteed = TRUE,
               ![n].result = result, ![n].finished = result = "UpToDate"]
        = [node EXCEPT ![n] = New(result)]
  BY <1>4 DEF TruthInv, NodesOK, Checked
<1>13. \/ /\ record[n].result = "RanSuccessfullyWithGuaranteedCorrectInputSignature"
          /\ record[n].signature = Produced(n, View, out) /\ out[n] # {}
          /\ node' = [node EXCEPT ![n] = New("UpToDate")]
          /\ worker' = [worker EXCEPT ![w] = Idle]
       \/ /\ node' = [node EXCEPT ![n] = New("DidNotRun")]
          /\ worker' = [worker EXCEPT ![w] = [@ EXCEPT !.pc = "run", !.stored = Texts(Inputs[n], disk)]]
  <2> HIDE DEF New
  <2> QED
    BY <1>1, <1>12 DEF CheckInputSignature
<1> HIDE DEF New
<1> QED
  BY <1>10, <1>11, <1>13

LEMMA RunActionKeeps ==
    ASSUME TruthInv, FramesOK, HeadersAreBelow, NEW w \in Workers, RunAction(w)
    PROVE  TruthInv'
<1>1. PICK n : n = worker[w].node
  OBVIOUS
<1>2. /\ worker[w].pc = "run" /\ Step(w, "validate")
      /\ out' = [out EXCEPT ![n] = Produced(n, disk, out)]
      /\ UNCHANGED <<phase, disk, intrusions, mode, record, cache, leaf, seen, node, attempted>>
  BY <1>1 DEF RunAction, world, client, builds
<1>3. /\ AtWork(w, n) /\ Prepared(w, n) /\ Running(w, n) /\ n \in Nodes /\ InBuild /\ NodeOK(n)
      /\ phase \in {"building", "croaked"} /\ disk \in Worlds /\ out \in Outputs
      /\ \A v \in Workers \ {w} : worker[v].pc # "idle" => worker[v].node # n
  BY <1>1, <1>2, WorkerFacts
<1>4. /\ node[n].signature = Clean(disk)[n] /\ node[n].implicit = CleanScan(n, disk)
      /\ worker[w].stored = Texts(Inputs[n], disk) /\ \A d \in Deps[n] : node[d].result \in Success
  BY <1>2, <1>3 DEF Running
<1>5. Produced(n, disk, out) = Clean(disk)[n]
  BY <1>3, <1>4, SuccessBelow
<1>6. Clean(disk)[n] \in SUBSET AllTexts
  BY <1>3, CleanIsProduced DEF Outputs
<1>7. out' \in Outputs /\ out'[n] = Clean(disk)[n] /\ \A m \in Nodes \ {n} : out'[m] = out[m]
  BY <1>2, <1>3, <1>5, <1>6, NewOutput
<1>8. /\ worker'[w].pc = "validate" /\ worker'[w].node = n /\ worker'[w].stored = worker[w].stored
      /\ \A v \in Workers \ {w} : worker'[v] = worker[v]
  BY <1>1, <1>2, StepIs
<1>9. Alone(w, n)
  BY <1>1, <1>2, <1>3, <1>7, <1>8 DEF Alone, AtWork
<1>10. HasRun(w)'
  BY <1>8 DEF HasRun
<1>11. WorkerOK(w)'
  <2>1. AtWork(w, n)'
    BY <1>2, <1>3 DEF AtWork, InBuild
  <2>2. Prepared(w, n)'
    BY <1>2, <1>3, <1>8 DEF Prepared
  <2>3. Running(w, n)'
    BY <1>2, <1>4, <1>7, <1>8 DEF Running
  <2> QED
    BY <1>8, <2>1, <2>2, <2>3 DEF WorkerOK
<1>12. NodeOK(n)'
  BY <1>2, <1>3 DEF NodeOK, AtWork, Success
<1>13. RecordOK(n)'
  BY <1>8, <1>10 DEF RecordOK
<1>14. Own(w, n)
  BY <1>2, <1>3, <1>7, <1>11, <1>12, <1>13, KnownStays DEF Own, TruthInv, NodesOK
<1> QED
  BY <1>3, <1>9, <1>14, OneMoves

\* The verification looks at what the scans of the nodes below have found.
LEMMA VerificationCovers ==
    ASSUME TruthInv, InBuild, HeadersAreBelow, NEW n \in Cacheable, n \in Nodes,
           node[n].result = "DidNotRun", node[n].implicit = CleanScan(n, disk),
           leaf[n].value = SignatureIn(disk)[n],
           \A d \in Deps[n] : node[d].result \in Success, Verified(n)
    PROVE  Covers(SignatureIn(disk)[n], Clean(disk)[n])
<1>1. disk \in Worlds /\ \A m \in Nodes : NodeOK(m)
  BY DEF TruthInv, WorldOK
<1>2. \A d \in Below[n] \ {n} : d \in Nodes /\ node[d].result \in Success /\ out[d] = Clean(disk)[d]
  BY SuccessBelow, BelowHolds
<1>3. ASSUME NEW d \in CacheableDependencies(n) PROVE Covers(SignatureIn(disk)[d], Clean(disk)[d])
  <2>1. d \in Below[n] \ {n} /\ d \in Cacheable
    BY ScopeIsBelow
  <2> QED
    BY <1>1, <1>2, <2>1 DEF NodeOK
<1>4. ASSUME NEW d \in NodesWithScanner(n), NEW f \in CleanScan(d, disk)
      PROVE  ToSet(Contents[f]) \cap SignatureIn(disk)[n].texts # {}
  <2>1. (IF node[d].result = "UpToDate" THEN record[d] ELSE node[d]).implicit = CleanScan(d, disk)
    <3>1. CASE d = n
      BY <3>1
    <3>2. CASE d # n
      <4>1. d \in Below[n] \ {n} /\ d \notin Cacheable
        BY <3>2, ScopeIsBelow DEF NodesWithScanner, Scope
      <4> QED
        BY <1>1, <1>2, <4>1 DEF NodeOK
    <3> QED
      BY <3>1, <3>2
  <2>2. IsLeafInput(n, f)
    BY <2>1 DEF Verified
  <2> QED
    BY <2>2 DEF IsLeafInput
<1> QED
  BY <1>1, <1>3, <1>4, VerifiedIsCovered

LEMMA ValidateKeeps ==
    ASSUME TruthInv, FramesOK, HeadersAreBelow, NEW w \in Workers, Validate(w)
    PROVE  TruthInv'
<1>1. PICK n : n = worker[w].node
  OBVIOUS
<1>2. /\ worker[w].pc = "validate"
      /\ UNCHANGED <<disk, intrusions, mode, record, out, cache, leaf, seen, attempted>>
      /\ phase' \in {phase, "croaked"}
  BY <1>1 DEF Validate, world, client
<1>3. HasRun(w)
  BY <1>2 DEF HasRun
<1>4. /\ AtWork(w, n) /\ Prepared(w, n) /\ Running(w, n) /\ n \in Nodes /\ InBuild /\ NodeOK(n) /\ LeafOK(n)
      /\ phase \in {"building", "croaked"} /\ disk \in Worlds /\ out \in Outputs
  BY <1>1, <1>2, WorkerFacts
<1>5. /\ node[n].signature = Clean(disk)[n] /\ node[n].implicit = CleanScan(n, disk)
      /\ worker[w].stored = Texts(Inputs[n], disk) /\ \A d \in Deps[n] : node[d].result \in Success
      /\ out[n] = Clean(disk)[n] /\ mode.writes /\ node[n].result = "DidNotRun"
      /\ n \in Cacheable => leaf[n] # None /\ leaf[n].value = SignatureIn(disk)[n]
  BY <1>2, <1>3, <1>4 DEF Running, AtWork, Prepared, LeafOK
<1>6. CachesNode(n) <=> n \in Cacheable
  BY <1>5 DEF CachesNode
<1>7. \/ /\ n \in Cacheable /\ Verified(n) /\ UNCHANGED node
         /\ \E p \in {"write", "finish"} : Step(w, p)
      \/ /\ node' = [node EXCEPT ![n].finished = TRUE, ![n].guaranteed = TRUE,
                        ![n].result = IF n \in Cacheable THEN "RanFailed" ELSE "RanSuccesfully"]
         /\ worker' = [worker EXCEPT ![w] = Idle]
  BY <1>1, <1>5, <1>6 DEF Validate
<1>8. ASSUME n \in Cacheable, Verified(n), UNCHANGED node, NEW p \in {"write", "finish"}, Step(w, p)
      PROVE  TruthInv'
  <2>1. /\ worker'[w].pc = p /\ worker'[w].node = n /\ worker'[w].stored = worker[w].stored
        /\ \A v \in Workers \ {w} : worker'[v] = worker[v]
    BY <1>1, <1>8, StepIs
  <2>2. Covers(SignatureIn(disk)[n], Clean(disk)[n])
    BY <1>4, <1>5, <1>8, VerificationCovers
  <2>3. Aside(w) /\ HasRun(w)'
    BY <1>2, <1>4, <2>1, KnownStays DEF Aside, HasRun
  <2>4. WorkerOK(w)'
    <3>1. AtWork(w, n)'
      BY <1>2, <1>4, <1>8 DEF AtWork, InBuild
    <3>2. Prepared(w, n)'
      BY <1>2, <1>5, <1>8, <2>1 DEF Prepared
    <3>3. Running(w, n)'
      BY <1>2, <1>5, <1>8, <2>1, <2>2 DEF Running
    <3> QED
      BY <2>1, <3>1, <3>2, <3>3 DEF WorkerOK
  <2> QED
    BY <1>1, <1>2, <1>8, <2>1, <2>3, <2>4, OthersAreElsewhere
<1>9. ASSUME node' = [node EXCEPT ![n].finished = TRUE, ![n].guaranteed = TRUE,
                        ![n].result = IF n \in Cacheable THEN "RanFailed" ELSE "RanSuccesfully"],
             worker' = [worker EXCEPT ![w] = Idle]
      PROVE  TruthInv'
  <2> DEFINE result == IF n \in Cacheable THEN "RanFailed" ELSE "RanSuccesfully"
             r == [node[n] EXCEPT !.finished = TRUE, !.guaranteed = TRUE, !.result = result]
  <2>1. node' = [node EXCEPT ![n] = r]
    BY <1>9 DEF TruthInv, NodesOK
  <2>2. /\ r = [x \in NodeFields |-> r[x]] /\ r.result = result /\ r.finished
        /\ r.signature = node[n].signature /\ r.implicit = node[n].implicit
    <3> DEFINE old == node[n]
    <3>1. old = [x \in NodeFields |-> old[x]]
      BY <1>4 DEF TruthInv, NodesOK
    <3> HIDE DEF old, result
    <3>2. r = [old EXCEPT !.finished = TRUE, !.guaranteed = TRUE, !.result = result]
      BY DEF old
    <3> HIDE DEF r
    <3>3. DOMAIN r = NodeFields /\ r = [x \in NodeFields |-> r[x]]
      BY <3>1, <3>2
    <3>4. r.result = result /\ r.finished /\ r.signature = old.signature /\ r.implicit = old.implicit
      BY <3>1, <3>2 DEF NodeFields
    <3> QED
      BY <3>3, <3>4 DEF old
  <2> HIDE DEF r
  <2>3. NodesOK' /\ node'[n] = r /\ \A m \in Nodes \ {n} : node'[m] = node[m]
    BY <1>4, <2>1, <2>2, NewNode DEF TruthInv
  <2>4. worker'[w].pc = "idle" /\ \A v \in Workers \ {w} : worker'[v] = worker[v]
    BY <1>9, NewWorker, IdleIsAFrame
  <2>5. Ends(w, n)
    BY <1>2, <1>4, <2>3, <2>4, KnownStays DEF Ends
  <2>6. \A d \in Deps[n] : node'[d].result \in Success
    BY <1>4, <1>5, <2>3, DepsAreBelow, Graph
  <2>7. NodeOK(n)'
    BY <1>2, <1>5, <2>2, <2>3, <2>6 DEF NodeOK, Success
  <2>8. RecordOK(n)'
    BY <2>2, <2>3, <2>5 DEF RecordOK, InBuild, Ends
  <2> QED
    BY <1>1, <1>2, <2>5, <2>7, <2>8, OthersGoOn
<1> QED
  BY <1>7, <1>8, <1>9

---------------------------------------------------------------------------
(* Builds, and what is between them *)

LEMMA TruthAtFirst == Init => TruthInv
<1> SUFFICES ASSUME Init PROVE TruthInv
  OBVIOUS
<1>1. disk \in Worlds
  <2>1. disk = [f \in Files |-> Head(Contents[f])]
    BY DEF Init
  <2>2. \A f \in Files : Head(Contents[f]) \in ToSet(Contents[f])
    <3> SUFFICES ASSUME NEW f \in Files PROVE Head(Contents[f]) \in ToSet(Contents[f])
      OBVIOUS
    <3>1. PICK c : c = Contents[f]
      OBVIOUS
    <3>2. c \in Seq(ToSet(c)) /\ c # <<>>
      BY <3>1, TextAssumption
    <3>3. Head(c) \in ToSet(c)
      BY <3>2, HeadTailProperties
    <3> QED
      BY <3>1, <3>3
  <2> QED
    BY <2>1, <2>2 DEF Worlds
<1>2. \A w \in Workers : worker[w].pc = "idle"
  BY IdleIsAFrame DEF Init
<1>3. WorldOK /\ OneEach /\ \A w \in Workers : WorkerOK(w)
  BY <1>1, <1>2 DEF Init, WorldOK, Outputs, OneEach, WorkerOK, InBuild
<1>4. NodesOK
  BY DEF Init, NodesOK, NodeFields, NoNode
<1>5. RecordsOK
  BY DEF Init, RecordsOK, RecordFields, NoRecord
<1>6. \A n \in Nodes : RecordOK(n)
  BY DEF Init, RecordOK, RecordTrue
<1> QED
  BY <1>3, <1>4, <1>5, <1>6 DEF Init, TruthInv, InBuild

\* Between builds nobody works, and what is recorded is true.
LEMMA BetweenBuilds ==
    ASSUME TruthInv, phase = "between"
    PROVE  (\A w \in Workers : worker[w].pc = "idle") /\ (\A n \in Nodes : RecordTrue(n))
<1>1. \A w \in Workers : worker[w].pc = "idle"
  BY DEF TruthInv, WorkerOK, AtWork, InBuild
<1>2. \A w \in Workers : ~HasRun(w)
  BY <1>1 DEF HasRun
<1> QED
  BY <1>1, <1>2 DEF TruthInv, RecordOK, InBuild

LEMMA StartBuildKeeps ==
    ASSUME TruthInv, FramesOK, EveryBuildWrites, NEW e \in Environments, StartBuild(e)
    PROVE  TruthInv'
<1>1. /\ phase = "between" /\ phase' = (IF IsInvalid(e) THEN "croaked" ELSE "building")
      /\ mode' = CachingBehaviour(e)
      /\ leaf' = [n \in Nodes |-> None] /\ seen' = [f \in Files |-> Unknown]
      /\ node' = [n \in Nodes |-> NoNode] /\ attempted' = {}
      /\ UNCHANGED <<disk, intrusions, record, cache, out, worker>>
  BY DEF StartBuild, Fresh, world
<1>2. (\A w \in Workers : worker[w].pc = "idle") /\ (\A n \in Nodes : RecordTrue(n))
  BY <1>1, BetweenBuilds
<1>3. phase' = "building" => mode'.writes
  BY <1>1 DEF EveryBuildWrites
<1>4. WorldOK'
  BY <1>1, <1>3 DEF TruthInv, WorldOK, InBuild
<1>5. NodesOK'
  BY <1>1 DEF NodesOK, NodeFields, NoNode
<1>6. RecordsOK' /\ OneEach' /\ \A w \in Workers : WorkerOK(w)'
  BY <1>1, <1>2 DEF TruthInv, RecordsOK, OneEach, WorkerOK
<1>7. ASSUME NEW n \in Nodes PROVE LeafOK(n)' /\ NodeOK(n)' /\ RecordOK(n)'
  <2>1. leaf'[n] = None /\ node'[n].result = "DidNotRun" /\ node'[n].signature = {}
    BY <1>1 DEF NoNode
  <2>2. RecordTrue(n)'
    BY <1>1, <1>2 DEF RecordTrue, RecordOf
  <2> QED
    BY <2>1, <2>2 DEF LeafOK, NodeOK, RecordOK, Success
<1> QED
  BY <1>1, <1>4, <1>5, <1>6, <1>7 DEF TruthInv

\* What a build that succeeded for the node writes of it, and what it keeps.
LEMMA RecordedIsTrue ==
    ASSUME TruthInv, InBuild, \A w \in Workers : worker[w].pc = "idle",
           UNCHANGED <<out, disk>>, NEW n \in Nodes, record'[n] = Recorded(n)
    PROVE  /\ RecordTrue(n)'
           /\ Recorded(n) = [x \in RecordFields |-> Recorded(n)[x]]
<1>1. NodeOK(n) /\ LeafOK(n) /\ disk \in Worlds
  BY DEF TruthInv, WorldOK
<1>2. record[n] = [x \in RecordFields |-> record[n][x]]
  BY DEF TruthInv, RecordsOK
<1>3. node[n].result \in {"DidNotRun", "UpToDate"} => RecordTrue(n)
  <2>1. \A w \in Workers : ~HasRun(w)
    BY DEF HasRun
  <2> QED
    BY <2>1 DEF TruthInv, RecordOK
<1>4. CASE node[n].result = "DidNotRun"
  <2>1. Recorded(n) = record[n]
    BY <1>4 DEF Recorded
  <2>2. RecordTrue(n)'
    BY <1>3, <1>4, <2>1 DEF RecordTrue, RecordOf
  <2> QED
    BY <1>2, <2>1, <2>2
<1>5. CASE node[n].result = "UpToDate"
  <2> DEFINE r == [record[n] EXCEPT !.leaf = IF leaf[n] = None THEN @ ELSE leaf[n].value]
  <2>1. Recorded(n) = r
    BY <1>5 DEF Recorded
  <2>2. /\ r = [x \in RecordFields |-> r[x]] /\ r.result = record[n].result
        /\ r.signature = record[n].signature /\ r.implicit = record[n].implicit
        /\ r.leaf = IF leaf[n] = None THEN record[n].leaf ELSE leaf[n].value
    BY <1>2 DEF RecordFields
  <2> HIDE DEF r
  <2>3. ASSUME record[n].result = GoodResult, out[n] # {} PROVE \E v \in Worlds : RecordOf(n, v)'
    <3>1. PICK v \in Worlds : RecordOf(n, v)
      BY <1>3, <1>5, <2>3 DEF RecordTrue
    <3>2. CASE n \notin Cacheable \/ leaf[n] = None
      <4>1. RecordOf(n, v)'
        BY <2>1, <2>2, <3>1, <3>2 DEF RecordOf
      <4> QED
        BY <4>1
    <3>3. CASE n \in Cacheable /\ leaf[n] # None
      <4>1. /\ out[n] = Clean(disk)[n] /\ Covers(SignatureIn(disk)[n], out[n])
            /\ leaf[n].value = SignatureIn(disk)[n]
        BY <1>1, <1>5, <3>3 DEF NodeOK, LeafOK, Success
      <4>2. record[n].signature \in {{}, out[n]}
        BY <3>1, <3>3 DEF RecordOf
      <4>3. RecordOf(n, disk)'
        BY <1>1, <2>1, <2>2, <3>3, <4>1, <4>2 DEF RecordOf
      <4> QED
        BY <1>1, <4>3
    <3> QED
      BY <3>2, <3>3
  <2>4. RecordTrue(n)'
    BY <2>1, <2>2, <2>3 DEF RecordTrue
  <2> QED
    BY <2>1, <2>2, <2>4
<1>6. CASE node[n].result \in {"RanSuccesfully", "RanFailed"}
  <2>1. PICK result : /\ Recorded(n) = [signature |-> node[n].signature, leaf |-> leaf[n].value,
                                        implicit |-> node[n].implicit, result |-> result]
                      /\ result = GoodResult => node[n].result = "RanSuccesfully"
    BY <1>6 DEF Recorded, GoodResult
  <2>2. Recorded(n) = [x \in RecordFields |-> Recorded(n)[x]]
    BY <2>1 DEF RecordFields
  <2>3. ASSUME node[n].result = "RanSuccesfully" PROVE RecordOf(n, disk)'
    BY <1>1, <2>1, <2>3 DEF RecordOf, NodeOK, LeafOK, Success
  <2>4. RecordTrue(n)'
    BY <1>1, <2>1, <2>3 DEF RecordTrue
  <2> QED
    BY <2>2, <2>4
<1> QED
  BY <1>1, <1>4, <1>5, <1>6 DEF NodeOK, Success

LEMMA EndBuildKeeps ==
    ASSUME TruthInv, EndBuild
    PROVE  TruthInv'
<1>1. /\ phase = "building" /\ phase' = "between" /\ \A w \in Workers : worker[w].pc = "idle"
      /\ record' = [n \in Nodes |-> Recorded(n)]
      /\ UNCHANGED <<disk, intrusions, mode, out, cache, leaf, seen, node, attempted, worker>>
  BY DEF EndBuild, world, client
<1>2. InBuild
  BY <1>1 DEF InBuild
<1>3. ASSUME NEW n \in Nodes
      PROVE  RecordOK(n)' /\ record'[n] = [x \in RecordFields |-> record'[n][x]]
  <2>1. record'[n] = Recorded(n)
    BY <1>1
  <2> QED
    BY <1>1, <1>2, <2>1, RecordedIsTrue DEF RecordOK
<1>4. RecordsOK'
  <2>1. record' = [n \in Nodes |-> record'[n]]
    BY <1>1
  <2> QED
    BY <1>3, <2>1 DEF RecordsOK
<1>5. WorldOK' /\ NodesOK' /\ OneEach' /\ \A w \in Workers : WorkerOK(w)'
  BY <1>1 DEF TruthInv, WorldOK, NodesOK, OneEach, WorkerOK, InBuild
<1> QED
  BY <1>1, <1>3, <1>4, <1>5 DEF TruthInv, InBuild

LEMMA CheckoutKeeps ==
    ASSUME TruthInv, Checkout
    PROVE  TruthInv'
<1>1. /\ phase = "between" /\ out' = [n \in Nodes |-> {}] /\ record' = [n \in Nodes |-> NoRecord]
      /\ UNCHANGED <<phase, disk, intrusions, mode, cache, leaf, seen, node, attempted, worker>>
  BY DEF Checkout, client
<1>2. \A w \in Workers : worker[w].pc = "idle"
  BY <1>1, BetweenBuilds
<1>3. \A n \in Nodes : RecordOK(n)'
  BY <1>1 DEF RecordOK, RecordTrue
<1>4. RecordsOK'
  BY <1>1 DEF RecordsOK, RecordFields, NoRecord
<1>5. WorldOK' /\ NodesOK' /\ OneEach' /\ \A w \in Workers : WorkerOK(w)'
  BY <1>1, <1>2 DEF TruthInv, WorldOK, NodesOK, OneEach, WorkerOK, InBuild, Outputs
<1> QED
  BY <1>1, <1>3, <1>4, <1>5 DEF TruthInv, InBuild

LEMMA EditKeeps ==
    ASSUME TruthInv, MaxIntrusions = 0, NEW f \in Files, NEW c \in ToSet(Contents[f]), Edit(f, c)
    PROVE  TruthInv'
<1>1. /\ phase = "between" /\ disk' = [disk EXCEPT ![f] = c]
      /\ UNCHANGED <<phase, intrusions, mode, record, out, cache, leaf, seen, node, attempted, worker>>
  <2>1. intrusions = 0
    BY DEF TruthInv, WorldOK
  <2> QED
    BY <2>1 DEF Edit, client, builds
<1>2. (\A w \in Workers : worker[w].pc = "idle") /\ (\A n \in Nodes : RecordTrue(n))
  BY <1>1, BetweenBuilds
<1>3. disk' \in Worlds
  <2>1. disk \in Worlds /\ c \in AllTexts
    BY TextsNameThings DEF TruthInv, WorldOK
  <2> QED
    BY <1>1, <2>1 DEF Worlds, AllTexts
<1>4. \A n \in Nodes : RecordOK(n)'
  BY <1>1, <1>2 DEF RecordOK, RecordTrue, RecordOf
<1>5. WorldOK' /\ NodesOK' /\ RecordsOK' /\ OneEach' /\ \A w \in Workers : WorkerOK(w)'
  BY <1>1, <1>2, <1>3 DEF TruthInv, WorldOK, NodesOK, RecordsOK, OneEach, WorkerOK, InBuild
<1> QED
  BY <1>1, <1>4, <1>5 DEF TruthInv, InBuild

---------------------------------------------------------------------------
(* The theorems about what is in the cache and what was built *)

LEMMA TruthIsKept ==
    ASSUME MaxIntrusions = 0, EveryBuildWrites, HeadersAreBelow,
           TruthInv, FramesOK, [Next]_vars
    PROVE  TruthInv'
<1>1. ASSUME NEW w \in Workers, NEW n \in Nodes, ProcessNode(w, n) PROVE TruthInv'
  BY <1>1, ProcessNodeKeeps
<1>2. ASSUME NEW w \in Workers, NEW n \in Nodes, CalculateChild(w, n) PROVE TruthInv'
  BY <1>2, CalculateChildKeeps
<1>3. ASSUME NEW w \in Workers, Publish(w) PROVE TruthInv'
  BY <1>3, PublishKeeps
<1>4. ASSUME NEW w \in Workers, Lookup(w) PROVE TruthInv'
  BY <1>4, LookupKeeps
<1>5. ASSUME NEW w \in Workers, CacheHit(w) PROVE TruthInv'
  BY <1>5, CacheHitKeeps
<1>6. ASSUME NEW w \in Workers, CacheMiss(w) \/ CacheReadFails(w) PROVE TruthInv'
  BY <1>6, CacheMissKeeps
<1>7. ASSUME NEW w \in Workers, CountFailure(w) PROVE TruthInv'
  BY <1>7, CountFailureKeeps
<1>8. ASSUME NEW w \in Workers, EnqueueDependencies(w) PROVE TruthInv'
  BY <1>8, EnqueueDependenciesKeeps
<1>9. ASSUME NEW w \in Workers, CheckInputSignature(w) PROVE TruthInv'
  BY <1>9, CheckInputSignatureKeeps
<1>10. ASSUME NEW w \in Workers, DependencyFailed(w) PROVE TruthInv'
  BY <1>10, DependencyFailedKeeps
<1>11. ASSUME NEW w \in Workers, RunAction(w) PROVE TruthInv'
  BY <1>11, RunActionKeeps
<1>12. ASSUME NEW w \in Workers, Validate(w) PROVE TruthInv'
  BY <1>12, ValidateKeeps
<1>13. ASSUME NEW w \in Workers, CacheWrite(w) \/ GiveUpWriting(w) PROVE TruthInv'
  BY <1>13, CacheWriteKeeps
<1>14. ASSUME NEW w \in Workers, CacheWriteFails(w) PROVE TruthInv'
  BY <1>14, CacheWriteFailsKeeps
<1>15. ASSUME NEW e \in Environments, StartBuild(e) PROVE TruthInv'
  BY <1>15, StartBuildKeeps
<1>16. CASE EndBuild
  BY <1>16, EndBuildKeeps
<1>17. CASE Checkout
  BY <1>17, CheckoutKeeps
<1>18. ASSUME NEW f \in Files, NEW c \in ToSet(Contents[f]), Edit(f, c) PROVE TruthInv'
  BY <1>18, EditKeeps
<1>19. CASE UNCHANGED vars
  <2>1. UNCHANGED <<phase, disk, intrusions, mode, record, out, cache, leaf, seen, node, attempted, worker>>
    BY <1>19 DEF vars, world, client, builds
  <2>2. WorldOK' /\ NodesOK' /\ RecordsOK' /\ OneEach'
    BY <2>1 DEF TruthInv, WorldOK, NodesOK, RecordsOK, OneEach, InBuild
  <2>3. \A n \in Nodes : RecordOK(n)' /\ (InBuild' => LeafOK(n)' /\ NodeOK(n)')
    BY <2>1 DEF TruthInv, RecordOK, RecordTrue, RecordOf, HasRun, LeafOK, NodeOK, InBuild
  <2>4. \A w \in Workers : WorkerOK(w)'
    BY <2>1 DEF TruthInv, WorkerOK, AtWork, Prepared, Running, HasRun, InBuild
  <2> QED
    BY <2>1, <2>2, <2>3, <2>4 DEF TruthInv
<1> QED
  BY <1>1, <1>2, <1>3, <1>4, <1>5, <1>6, <1>7, <1>8, <1>9, <1>10, <1>11, <1>12, <1>13, <1>14,
     <1>15, <1>16, <1>17, <1>18, <1>19 DEF Next

\* In builds that write what they build, of sources that stay as they are
\* meanwhile, workers never mix worlds: whatever is cached, recorded, published
\* or known of a node is of one world.
THEOREM WorldsAreNotMixed ==
    ASSUME MaxIntrusions = 0, EveryBuildWrites, HeadersAreBelow
    PROVE  Spec => []TruthInv
<1>1. Init => TruthInv
  BY TruthAtFirst
<1>2. TruthInv /\ FramesOK /\ [Next]_vars => TruthInv'
  BY TruthIsKept
<1>3. ClientInv => FramesOK
  BY DEF ClientInv
<1> QED
  BY <1>1, <1>2, <1>3, ClientInvariant, PTL DEF Spec

\* What is found in the cache for some sources is what they lead to: an output
\* is uploaded only when all that went into it is in its signature
\* (BuildLoop.cpp:561, VerifyAllVersionedFilesIncludedByGeneratedHeaderFiles-
\* WereAlreadyPartOfTheLeafInputs).
THEOREM CachedOutputsAreTrue ==
    ASSUME MaxIntrusions = 0, EveryBuildWrites, HeadersAreBelow
    PROVE  Spec => []CacheIsTruthful
<1>1. TruthInv => CacheIsTruthful
  <2> SUFFICES ASSUME TruthInv, NEW e \in cache, NEW t \in Truth, e.signature = t.signature
               PROVE  e.output = t.output
    BY DEF CacheIsTruthful
  <2>1. PICK v \in Worlds, n \in Cacheable :
            /\ e.signature = SignatureIn(v)[n] /\ e.output = Clean(v)[n]
            /\ Covers(SignatureIn(v)[n], Clean(v)[n])
    BY DEF TruthInv, EntryOK
  <2>2. PICK w \in Worlds, m \in Cacheable : t.signature = SignatureIn(w)[m] /\ t.output = Clean(w)[m]
    BY DEF Truth
  <2>3. SignatureIn(v)[n] = SignatureIn(w)[m]
    BY <2>1, <2>2
  <2>4. m = n /\ Clean(w)[m] = Clean(v)[n]
    BY <2>1, <2>3, SignatureTellsOutput
  <2> QED
    BY <2>1, <2>2, <2>4
<1> QED
  BY <1>1, WorldsAreNotMixed, PTL

\* Whether its outputs come from the last build, the cache or an action: what a
\* successful build leaves is what a clean build would.
THEOREM SuccessfulBuildIsClean ==
    ASSUME MaxIntrusions = 0, EveryBuildWrites, HeadersAreBelow
    PROVE  Spec => []BuiltIsClean
<1>1. TruthInv => BuiltIsClean
  <2> SUFFICES ASSUME TruthInv, phase = "building", Successful(Requested), NEW n \in Requested
               PROVE  out[n] = Clean(disk)[n]
    BY DEF BuiltIsClean
  <2>1. n \in Nodes /\ node[n].result \in Success
    BY Graph DEF Successful, Success
  <2>2. NodeOK(n)
    BY <2>1 DEF TruthInv, InBuild
  <2> QED
    BY <2>1, <2>2 DEF NodeOK
<1> QED
  BY <1>1, WorldsAreNotMixed, PTL
=============================================================================
