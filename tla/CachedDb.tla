------------------------------- MODULE CachedDb -------------------------------
(***************************************************************************)
(* One table of the node's database as the block handlers use it: the      *)
(* committed LevelDB table (LevelDb) and the cache CachedLevelDb keeps     *)
(* over it.  Writes go to the cache; commit() writes one atomic LevelDB    *)
(* batch and empties the cache; resetCache() empties it.                   *)
(***************************************************************************)
EXTENDS Overlay

CONSTANTS Keys,         \* the keys of the table
          Values,       \* the encoded records
          BatchMayBeLost  \* whether LevelDB may refuse a batch (disk full, I/O error)

ASSUME MissingAssumption == Missing \notin Values
ASSUME BatchMayBeLostAssumption == BatchMayBeLost \in BOOLEAN

VARIABLES table,    \* the committed table
          cache     \* the cache over it

cachedVars == <<table, cache>>

Caches == [ins : [Keys -> Values \cup {Missing}], del : SUBSET Keys]

CachedTypeOK ==
  /\ table \in [Keys -> Values \cup {Missing}]
  /\ cache \in Caches

CachedInit ==
  /\ table \in [Keys -> Values \cup {Missing}]
  /\ cache = EmptyCache(Keys)

Put(k, v) ==
  /\ cache' = PutRaw(cache, k, v)
  /\ UNCHANGED table

Del(k) ==
  /\ cache' = DelRaw(cache, k)
  /\ UNCHANGED table

ResetCache ==
  /\ cache' = EmptyCache(Keys)
  /\ UNCHANGED table

\* commit(): the batch, then resetCache().
Commit ==
  /\ table' = BatchWrite(table, cache)
  /\ cache' = EmptyCache(Keys)

\* commit() when LevelDB refuses the batch: LevelDb.getBatch().write() catches the
\* exception and returns it, commit() ignores what it returns, and the cache is
\* emptied all the same.
CommitLost ==
  /\ BatchMayBeLost
  /\ cache' = EmptyCache(Keys)
  /\ UNCHANGED table

CachedNext ==
  \/ \E k \in Keys, v \in Values : Put(k, v)
  \/ \E k \in Keys : Del(k)
  \/ ResetCache
  \/ Commit
  \/ CommitLost

CachedSpec == CachedInit /\ [][CachedNext]_cachedVars

------------------------------------------------------------------------------
(* Properties *)

\* No key is both put and deleted in the cache, so the order in which commit()
\* adds the insertions and the deletions of a table to the batch does not matter.
CacheConsistent ==
  /\ CachedTypeOK
  /\ \A k \in Keys : cache.ins[k] # Missing => k \notin cache.del

\* getKeys() lists exactly the keys of the rows getFullTable() returns, and the
\* lookup of a listed key with getRaw() returns the row getFullTable() shows:
\* the loops over getKeys() followed by a lookup (validator sets, account
\* indexes) see one consistent table.
KeysAndRowsAgree ==
  /\ GetKeys(table, cache) = {k \in Keys : FullTable(table, cache)[k] # Missing}
  /\ \A k \in GetKeys(table, cache) :
       GetRaw(table, cache, k) = FullTable(table, cache)[k]

\* A lookup can only disagree with the full table on a key deleted since the
\* last commit, and then it returns the committed row: what getRaw() shows is
\* never a value from a discarded or older block.
LookupDiffersOnlyOnDeleted ==
  \A k \in Keys :
    GetRaw(table, cache, k) # FullTable(table, cache)[k]
      => k \in cache.del /\ GetRaw(table, cache, k) = table[k]

\* The cache over the committed table implements a working copy with an
\* all-or-nothing publication.
Store == INSTANCE KVStore WITH
  NoValue <- Missing, committed <- table, working <- FullTable(table, cache)

ImplementsStore == Store!KVSpec
==============================================================================
