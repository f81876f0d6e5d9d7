------------------------------- MODULE Overlay -------------------------------
(***************************************************************************)
(* The write cache that CachedLevelDb keeps over one LevelDB table.        *)
(*                                                                         *)
(* A committed table is a function from keys to values, Missing standing   *)
(* for "no such key".  The cache is a record:                              *)
(*   ins - cachedUpdatedByTableId: the value put for each key, or Missing; *)
(*   del - cachedDeletedEntriesByTableId: the keys deleted and not put     *)
(*         since.                                                          *)
(* The operators below are the methods of the class, one table at a time.  *)
(***************************************************************************)
CONSTANT Missing    \* the result of a lookup that finds nothing (undefined)

\* The cache after resetCache(): nothing put, nothing deleted.
EmptyCache(S) == [ins |-> [k \in S |-> Missing], del |-> {}]

\* Mutation: a put that leaves the key among the deletions.
PutRaw_KeepsDeletion(cache, k, v) ==
  [ins |-> [cache.ins EXCEPT ![k] = v], del |-> cache.del]

\* putRaw(): the key leaves the deletions and enters the insertions.
PutRaw(cache, k, v) ==
  [ins |-> [cache.ins EXCEPT ![k] = v], del |-> cache.del \ {k}]

\* del(): the key leaves the insertions and enters the deletions.
DelRaw(cache, k) ==
  [ins |-> [cache.ins EXCEPT ![k] = Missing], del |-> cache.del \cup {k}]

\* del() on every key of a set, as the loop of purgeDataFileTable() does it.
DelAll(cache, S) ==
  [ins |-> [k \in DOMAIN cache.ins |-> IF k \in S THEN Missing ELSE cache.ins[k]],
   del |-> cache.del \cup S]

\* Mutation: a lookup that ignores the cache.
GetRaw_CommittedOnly(table, cache, k) == table[k]

\* getRaw(): the cached insertion if there is one, else the committed entry.
\* The deletions are not looked at.
GetRaw(table, cache, k) ==
  IF cache.ins[k] # Missing THEN cache.ins[k] ELSE table[k]

\* getFullTable(): the insertions, and the committed entries that are neither
\* updated nor deleted in the cache.
FullTable(table, cache) ==
  [k \in DOMAIN table |->
     IF cache.ins[k] # Missing THEN cache.ins[k]
     ELSE IF k \in cache.del THEN Missing ELSE table[k]]

\* Mutation: deleted keys are still listed.
GetKeys_ForgetsDeletions(table, cache) ==
  {k \in DOMAIN table : cache.ins[k] # Missing \/ table[k] # Missing}

\* getKeys(): the keys of getFullTable(), computed without the values.
GetKeys(table, cache) ==
  {k \in DOMAIN table :
     \/ cache.ins[k] # Missing
     \/ table[k] # Missing /\ k \notin cache.del}

\* Mutation: the deletions are left out of the batch.
BatchWrite_InsertionsOnly(table, cache) ==
  [k \in DOMAIN table |-> IF cache.ins[k] # Missing THEN cache.ins[k] ELSE table[k]]

\* commit(): one batch with every insertion and, after them, every deletion.
BatchWrite(table, cache) ==
  [k \in DOMAIN table |->
     IF k \in cache.del THEN Missing
     ELSE IF cache.ins[k] # Missing THEN cache.ins[k] ELSE table[k]]
==============================================================================
