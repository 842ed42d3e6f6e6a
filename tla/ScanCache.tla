----------------------------- MODULE ScanCache -----------------------------
(***************************************************************************)
(* ScanCache.cpp: what files include, by file, scanner and kind of scan,   *)
(* for the timestamp the file had.  The frozen part is what the last run   *)
(* that found something new has saved, the table what this run adds.  One  *)
(* operation under the lock is one step.                                   *)
(***************************************************************************)
EXTENDS Naturals, Sequences, FiniteSets, SequencesExt

CONSTANTS
    KeyHash,     \* KeyHash[key]: the word the table hashes
    KeyRank,     \* KeyRank[key]: the order of the digests
    FirstSize,   \* size of the first table, 64 in the code
    KeepFor      \* how long an entry stays that is not used, a week

\* Digests do not collide.
ASSUME KeyAssumption ==
    /\ KeyHash \in [DOMAIN KeyRank -> Nat] /\ KeyRank \in [DOMAIN KeyRank -> Nat]
    /\ \A k, l \in DOMAIN KeyRank : KeyRank[k] = KeyRank[l] => k = l
    /\ FirstSize \in Nat \ {0} /\ KeepFor \in Nat \ {0}

VARIABLES
    frozen,      \* sorted entries: [key, stamp, includes, accessed]
    frozenAccess,\* positions that were used in this run
    table        \* chains, as the sets of their [key, stamp, includes]

cacheVars == <<frozen, frozenAccess, table>>

\* Mutant: both kinds of scan share their results.
ScanCacheKey_OneKind(file, scanner, safe) == <<file, scanner, FALSE>>
ScanCacheKey(file, scanner, safe) == <<file, scanner, safe>>

---------------------------------------------------------------------------
(* Lookup *)

FrozenIndex(key) == {k \in DOMAIN frozen : frozen[k].key = key}
FrozenHits(key, stamp) == {k \in FrozenIndex(key) : frozen[k].stamp = stamp}

Bucket(key, size) == (KeyHash[key] % size) + 1
LookupDynamic(key) ==
    IF table = <<>> THEN {} ELSE {r \in table[Bucket(key, Len(table))] : r.key = key}

\* The records a lookup may answer with; none on a miss.
Answers(key, stamp) ==
    IF FrozenHits(key, stamp) # {}
    THEN {frozen[k].includes : k \in FrozenHits(key, stamp)}
    ELSE {r.includes : r \in {q \in LookupDynamic(key) : q.stamp = stamp}}

ScanCacheLookup(key, stamp) ==
    /\ frozenAccess' = frozenAccess \cup FrozenHits(key, stamp)
    /\ UNCHANGED <<frozen, table>>

---------------------------------------------------------------------------
(* Insertion *)

Records(t) == UNION ToSet(t)
RecordCount(t) == Cardinality(Records(t))

Rehashed(t, size) == [b \in 1 .. size |-> {r \in Records(t) : Bucket(r.key, size) = b}]

ScanCachePrepareInsert(t) ==
    IF t # <<>> /\ (256 * RecordCount(t)) \div Len(t) < 192 THEN t
    ELSE Rehashed(t, IF t = <<>> THEN FirstSize ELSE 2 * Len(t))

\* A record of the file that is there is written over.
ScanCacheInsert(key, stamp, includes) ==
    LET record == [key |-> key, stamp |-> stamp, includes |-> includes]
        grown == ScanCachePrepareInsert(table)
        known == LookupDynamic(key)
    IN  /\ table' = IF \E r \in known : r.stamp = stamp THEN table
                    ELSE [grown EXCEPT ![Bucket(key, Len(grown))] = (@ \ known) \cup {record}]
        /\ UNCHANGED <<frozen, frozenAccess>>

---------------------------------------------------------------------------
(* Saving *)

ScanCacheDirty == RecordCount(table) > 0

SortedByKey(records) ==
    CHOOSE s \in [1 .. Cardinality(records) -> records] :
        \A k, l \in DOMAIN s : k < l => KeyRank[s[k].key] < KeyRank[s[l].key]

SaveRecord(key, stamp, includes, accessed) ==
    <<[key |-> key, stamp |-> stamp, includes |-> includes, accessed |-> accessed]>>

SaveDynamic(record, now) == SaveRecord(record.key, record.stamp, record.includes, now)

SaveFrozen(k, now) ==
    LET entry == frozen[k]
        accessed == IF k \in frozenAccess THEN now ELSE entry.accessed
    IN  IF accessed + KeepFor > now
        THEN SaveRecord(entry.key, entry.stamp, entry.includes, accessed) ELSE <<>>

\* TraverseSortedArrays, step by step: how far it is in both arrays, and what it
\* has saved. Records of this run come first where keys are the same.
\* Mutant: only one of the arrays moves on when keys are the same.
Advance_KeepsBoth(at, records, now) ==
    IF at.dynamic <= Len(records)
       /\ (at.frozen <= Len(frozen)
           => KeyRank[records[at.dynamic].key] <= KeyRank[frozen[at.frozen].key])
    THEN [dynamic |-> at.dynamic + 1, frozen |-> at.frozen,
          saved |-> at.saved \o SaveDynamic(records[at.dynamic], now)]
    ELSE IF at.frozen <= Len(frozen)
    THEN [dynamic |-> at.dynamic, frozen |-> at.frozen + 1,
          saved |-> at.saved \o SaveFrozen(at.frozen, now)]
    ELSE at
Advance(at, records, now) ==
    IF at.dynamic <= Len(records)
       /\ (at.frozen <= Len(frozen)
           => KeyRank[records[at.dynamic].key] <= KeyRank[frozen[at.frozen].key])
    THEN [dynamic |-> at.dynamic + 1,
          frozen |-> IF at.frozen <= Len(frozen) /\ records[at.dynamic].key = frozen[at.frozen].key
                     THEN at.frozen + 1 ELSE at.frozen,
          saved |-> at.saved \o SaveDynamic(records[at.dynamic], now)]
    ELSE IF at.frozen <= Len(frozen)
    THEN [dynamic |-> at.dynamic, frozen |-> at.frozen + 1,
          saved |-> at.saved \o SaveFrozen(at.frozen, now)]
    ELSE at
Traverse(records, now) ==
    LET steps == Len(records) + Len(frozen)
        at[n \in 0 .. steps] ==
            IF n = 0 THEN [dynamic |-> 1, frozen |-> 1, saved |-> <<>>]
            ELSE Advance(at[n - 1], records, now)
    IN  at[steps].saved

ScanCacheSave(now) == Traverse(SortedByKey(Records(table)), now)

\* A new process.
ScanCacheLoad(entries) ==
    /\ frozen' = entries
    /\ frozenAccess' = {}
    /\ table' = <<>>
===========================================================================
