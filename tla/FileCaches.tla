---------------------------- MODULE FileCaches ----------------------------
(***************************************************************************)
(* The two caches a build keeps about files: StatCache.cpp remembers what  *)
(* lstat said of a file, DigestCache.cpp the digest of a content together  *)
(* with the timestamp it was read under.  Both sit behind a reader/writer  *)
(* lock, so one operation is one step; what a caller does between two      *)
(* operations is up to the module that extends this one.                   *)
(*                                                                         *)
(* A file on disk is a content and a modification time; a FileInfo is      *)
(* abstracted to that time, 0 for a file that does not exist.              *)
(***************************************************************************)
EXTENDS Naturals, Sequences

VARIABLES
    disk,        \* disk[f]: the content and mtime of f
    statCache,   \* statCache[f]: the entries of f in the order of probing
    digestCache  \* digestCache[f]: the record of f, or NoDigest

caches == <<statCache, digestCache>>

NoContent == <<>>
Absent == [content |-> NoContent, mtime |-> 0]
NoDigest == [content |-> NoContent, mtime |-> 0, dirty |-> TRUE]

GetFileInfo(f) == disk[f].mtime

---------------------------------------------------------------------------
(* A lookup stops at the first entry of the path: with two of them the     *)
(* second is only found once growing the table has put it in front.        *)
HashTableLookup(f) == Head(statCache[f])

StatCacheKnows(f) == statCache[f] # <<>>
\* Mutant: an entry that was marked dirty is still believed.
StatCacheIsClean_Dirty(f) == StatCacheKnows(f)

StatCacheIsClean(f) == StatCacheKnows(f) /\ ~HashTableLookup(f).dirty

Rotated(s) == Append(Tail(s), Head(s))

\* Growing copies the slots in their order, starting at the first: entries
\* whose probing had wrapped around the end of the table change places.
StatCacheInsert(f, t) ==
    \E moved \in SUBSET {g \in DOMAIN statCache : Len(statCache[g]) > 1} :
        statCache' = [g \in DOMAIN statCache |->
            LET s == IF g \in moved THEN Rotated(statCache[g]) ELSE statCache[g]
            IN  IF g = f THEN Append(s, [mtime |-> t, dirty |-> FALSE]) ELSE s]

StatCacheUpdate(f, t) ==
    statCache' = [statCache EXCEPT ![f][1] = [mtime |-> t, dirty |-> FALSE]]

StatCacheMarkDirty(f) ==
    statCache' = IF StatCacheKnows(f)
                 THEN [statCache EXCEPT ![f][1].dirty = TRUE]
                 ELSE statCache

---------------------------------------------------------------------------
DigestCacheHas(f, t) == digestCache[f].mtime = t /\ ~digestCache[f].dirty

DigestCacheSet(f, t, c) ==
    digestCache' = [digestCache EXCEPT
        ![f] = [content |-> c, mtime |-> t, dirty |-> FALSE]]

DigestCacheMarkDirty(f) ==
    digestCache' = [digestCache EXCEPT ![f].dirty = TRUE]

\* A dirty record is written with access time 0, so the next load drops it.
DigestCacheSaved ==
    [f \in DOMAIN digestCache |->
        IF digestCache[f].dirty THEN NoDigest ELSE digestCache[f]]

===========================================================================
